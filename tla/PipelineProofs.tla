--------------------------- MODULE PipelineProofs ---------------------------
(***************************************************************************)
(* Proofs about Pipeline for every set of goroutines, agents, transports,  *)
(* configurations and stage answers, and every trust weighting.            *)
(***************************************************************************)
EXTENDS Pipeline, TLAPS, WellFoundedInduction

-----------------------------------------------------------------------------
(* The trust arithmetic stays within its types. *)

\* The record of an agent never seen before is well formed (ensureLocked).
LEMMA UnseenType == Unseen \in AgentTrust
  BY TrustWeights DEF Unseen, AgentTrust, BreakerStates

\* Folding an outcome in keeps the weights natural and the state a breaker
\* state, for every trust weighting (StandaloneTrustBackend.RecordDecision).
LEMMA RecordDecisionType ==
  ASSUME NEW s \in AgentTrust, NEW action
  PROVE  RecordDecision(s, action) \in AgentTrust
<1> DEFINE o == TrustOutcomeFromDecision(action)
<1>1. AlphaWeight(o) \in Nat
  BY TrustWeights DEF AlphaWeight
<1>2. BetaWeight(o, s.state) \in Nat
  BY TrustWeights DEF BetaWeight
<1>3. \A a, b : TrustStateFromScore(a, b) \in BreakerStates
  BY DEF TrustStateFromScore, BreakerStates
<1>4. s.alpha \in Nat /\ s.beta \in Nat
  BY DEF AgentTrust
<1>5. s.alpha + AlphaWeight(o) \in Nat /\ s.beta + BetaWeight(o, s.state) \in Nat
  BY <1>1, <1>2, <1>4
<1> QED
  BY <1>3, <1>5 DEF RecordDecision, AgentTrust, BreakerStates

\* Terminating an agent leaves a well-formed record.
LEMMA TerminatedType ==
  ASSUME NEW s \in AgentTrust
  PROVE  Terminated(s) \in AgentTrust
  BY DEF Terminated, AgentTrust, BreakerStates

-----------------------------------------------------------------------------
(* The verdict algebra stays within its types. *)

\* The decision Evaluate starts from is well formed.
LEMMA StartDecisionType == StartDecision \in Decision
  BY DEF StartDecision, Decision, Actions, Verdicts, Reasons, Modes, NoRule, NoCheck,
         TrustStates, BreakerStates

\* Clearing the static rule's credit touches nothing but the credit.
LEMMA ClearAttributionType ==
  ASSUME NEW d \in Decision
  PROVE  LET c == ClearAttribution(d)
         IN  /\ c \in Decision /\ c.action = d.action /\ c.check = d.check
             /\ c.countable = d.countable /\ c.trustState = d.trustState
  BY DEF ClearAttribution, Decision, Modes

\* A marked check failure is always recorded, blocks on an enforcing surface,
\* never unblocks, and never claims a trust posture that was not obtained
\* (markCheckFailureEnforced).
LEMMA MarkCheckFailureType ==
  ASSUME NEW d \in Decision, NEW stage \in CheckStages, NEW enforcing \in BOOLEAN
  PROVE  LET m == MarkCheckFailureEnforced(d, stage, enforcing)
         IN  /\ m \in Decision
             /\ m.check # NoCheck
             /\ enforcing => ~Allowed(m)
             /\ ~Allowed(d) => ~Allowed(m)
             /\ m.action # d.action => m.action = Indeterminate
             /\ ~enforcing => m.action = d.action
             /\ m.countable = d.countable
             /\ m.trustState \in {d.trustState, "UNKNOWN"}
             /\ stage \notin {"trust", "identity", "config"} => m.trustState = d.trustState
             /\ stage \in {"trust", "identity", "config"} /\ Allowed(d)
                  => m.trustState = "UNKNOWN"
<1> DEFINE rec == [d EXCEPT !.check = IF @ = NoCheck THEN stage ELSE @]
           pos == IF stage \in {"trust", "identity", "config"}
                  THEN [rec EXCEPT !.trustState = "UNKNOWN"] ELSE rec
           cre == IF pos.action = "warn" /\ pos.rule # NoRule
                  THEN ClearAttribution(pos) ELSE pos
<1>1. /\ rec \in Decision /\ rec.action = d.action /\ rec.check # NoCheck
      /\ rec.countable = d.countable /\ rec.trustState = d.trustState
  BY DEF Decision, CheckStages, NoCheck
<1>2. /\ pos \in Decision /\ pos.action = d.action /\ pos.check # NoCheck
      /\ pos.countable = d.countable
      /\ pos.trustState = IF stage \in {"trust", "identity", "config"} THEN "UNKNOWN"
                                                                      ELSE d.trustState
  BY <1>1 DEF Decision, TrustStates
<1> HIDE DEF rec, pos
<1>3. /\ cre \in Decision /\ cre.check # NoCheck
      /\ cre.countable = pos.countable /\ cre.trustState = pos.trustState
  BY <1>2, ClearAttributionType
<1> HIDE DEF cre
<1>4. LET f == [cre EXCEPT !.action = Indeterminate, !.reason = "check"]
      IN  /\ f \in Decision /\ f.action = Indeterminate /\ f.check # NoCheck
          /\ f.countable = cre.countable /\ f.trustState = cre.trustState
  BY <1>3 DEF Decision, Actions, Indeterminate, Reasons
<1>5. MarkCheckFailureEnforced(d, stage, enforcing) =
        IF ~Allowed(d) THEN rec ELSE IF ~enforcing THEN pos
        ELSE [cre EXCEPT !.action = Indeterminate, !.reason = "check"]
  BY DEF MarkCheckFailureEnforced, rec, pos, cre
<1> QED
  BY <1>1, <1>2, <1>3, <1>4, <1>5 DEF Allowed, Indeterminate

\* adoptStricter answers the stricter verdict and keeps the record of failed
\* checks.
LEMMA AdoptStricterType ==
  ASSUME NEW d \in Decision, NEW action \in Verdicts, NEW reason \in Reasons
  PROVE  LET r == AdoptStricter(d, action, reason)
         IN  /\ r \in Decision
             /\ r.check = d.check
             /\ r.countable = d.countable
             /\ r.trustState = d.trustState
             /\ r.action = IF Stricter(d, action) THEN action ELSE d.action
<1> DEFINE v == [d EXCEPT !.action = action, !.reason = reason]
<1>1. /\ v \in Decision /\ v.action = action /\ v.check = d.check
      /\ v.countable = d.countable /\ v.trustState = d.trustState
  BY DEF Decision, Actions
<1> HIDE DEF v
<1>2. ClearAttribution(v) \in Decision /\ ClearAttribution(v).action = action
      /\ ClearAttribution(v).check = v.check
      /\ ClearAttribution(v).countable = v.countable
      /\ ClearAttribution(v).trustState = v.trustState
  BY <1>1, ClearAttributionType
<1>3. AdoptStricter(d, action, reason) =
        IF ~Stricter(d, action) THEN d ELSE IF d.rule = NoRule THEN v ELSE ClearAttribution(v)
  BY DEF AdoptStricter, v
<1> QED
  BY <1>1, <1>2, <1>3

\* Both ranking tables answer small naturals for every action, unknown ones too.
LEMMA RanksBounded ==
  /\ \A a : VerdictRank(a) \in 0..4
  /\ \A a : StaticRuleRank(a) \in 0..5
  BY DEF VerdictRank, StaticRuleRank

\* A nonempty set of naturals has a least element.
LEMMA LeastNatural ==
  ASSUME NEW T, T \subseteq Nat, T # {}
  PROVE  \E x \in T : \A y \in T : x <= y
<1>1. PICK x \in T : \A y \in T : ~(<<y, x>> \in OpToRel(<, Nat))
  BY WFMin, NatLessThanWellFounded
<1>2. \A y \in T : ~(y < x)
  BY <1>1 DEF OpToRel
<1> QED
  BY <1>2

\* When some static rule matches, the winner exists and is one of the rules,
\* and no matching rule ranks above it.
LEMMA WinnerType ==
  ASSUME NEW rules \in Seq(Rule), rules # <<>>
  PROVE  /\ Winner(rules) \in Rule
         /\ \A j \in DOMAIN rules :
              StaticRuleRank(rules[j].action) <= StaticRuleRank(Winner(rules).action)
<1> DEFINE rank(i) == StaticRuleRank(rules[i].action)
           S == {5 - rank(i) : i \in DOMAIN rules}
<1>1. DOMAIN rules = 1..Len(rules) /\ Len(rules) \in Nat /\ 1 \in DOMAIN rules
  OBVIOUS
<1>2. \A i \in DOMAIN rules : rank(i) \in 0..5
  BY RanksBounded
<1>3. S \subseteq Nat /\ S # {}
  BY <1>1, <1>2
<1>4. PICK m \in S : \A y \in S : m <= y
  BY <1>3, LeastNatural
<1>5. PICK k \in DOMAIN rules : \A j \in DOMAIN rules : rank(j) <= rank(k)
  BY <1>2, <1>4
<1> DEFINE T == {i \in DOMAIN rules : rank(i) = rank(k)}
<1>6. T \subseteq Nat /\ T # {}
  BY <1>1, <1>5
<1>7. PICK i \in T : \A y \in T : i <= y
  BY <1>6, LeastNatural
<1>8. i \in DOMAIN rules /\ \A j \in DOMAIN rules : rank(j) <= rank(i)
  BY <1>5, <1>7
<1>9. \A j \in 1..(i - 1) : rank(j) < rank(i)
  <2> SUFFICES ASSUME NEW j \in 1..(i - 1) PROVE rank(j) < rank(i)
    OBVIOUS
  <2>1. j \in DOMAIN rules /\ j < i
    BY <1>1, <1>8
  <2>2. j \notin T
    BY <2>1, <1>7, <1>1, <1>8
  <2> QED
    BY <2>1, <2>2, <1>2, <1>5, <1>7, <1>8
<1>10. \E n \in DOMAIN rules :
          /\ \A j \in DOMAIN rules : rank(j) <= rank(n)
          /\ \A j \in 1..(n - 1) : rank(j) < rank(n)
  BY <1>8, <1>9
<1> DEFINE P(n) == /\ \A j \in DOMAIN rules : rank(j) <= rank(n)
                   /\ \A j \in 1..(n - 1) : rank(j) < rank(n)
           c == CHOOSE n \in DOMAIN rules : P(n)
<1>11. \E n \in DOMAIN rules : P(n)
  BY <1>10
<1> HIDE DEF P
<1>12. c \in DOMAIN rules /\ P(c)
  BY <1>11
<1>13. Winner(rules) = rules[c]
  BY DEF Winner, P
<1> HIDE DEF c
<1>14. rules[c] \in Rule
  BY <1>1, <1>12
<1> QED
  BY <1>12, <1>13, <1>14 DEF P

\* The winning rule decides the verdict and leaves the record of failed checks
\* alone.
LEMMA ApplyWinnerType ==
  ASSUME NEW d \in Decision, NEW rule \in Rule
  PROVE  LET r == ApplyWinner(d, rule)
         IN  /\ r \in Decision
             /\ r.check = d.check /\ r.countable = d.countable /\ r.trustState = d.trustState
             /\ d.action = "allow" \/ d.action = "warn" => r.action \in Verdicts
<1> DEFINE c == [d EXCEPT !.rule = rule, !.policy = "rule",
                   !.mode = IF IsAdoptableEscalationMode(rule.mode) THEN rule.mode ELSE @]
           w == [c EXCEPT !.action = RuleVerdict(rule), !.reason = rule.reason]
           x == [w EXCEPT !.mode = "classified"]
<1>1. RuleVerdict(rule) \in Verdicts /\ rule.reason \in Reasons
  BY DEF RuleVerdict, Rule, RuleActions, Verdicts, Reasons
<1>2. /\ c \in Decision /\ c.action = d.action
      /\ c.check = d.check /\ c.countable = d.countable /\ c.trustState = d.trustState
  BY DEF Decision, IsAdoptableEscalationMode, Modes
<1> HIDE DEF c
<1>3. /\ w \in Decision /\ w.action = RuleVerdict(rule)
      /\ w.check = d.check /\ w.countable = d.countable /\ w.trustState = d.trustState
  BY <1>1, <1>2 DEF Decision, Actions
<1> HIDE DEF w
<1>4. /\ x \in Decision /\ x.action = RuleVerdict(rule)
      /\ x.check = d.check /\ x.countable = d.countable /\ x.trustState = d.trustState
  BY <1>1, <1>3 DEF Decision, Modes
<1> HIDE DEF x
<1>5. ApplyWinner(d, rule) \in {c, w, x}
  BY DEF ApplyWinner, c, w, x
<1> QED
  BY <1>1, <1>2, <1>3, <1>4, <1>5 DEF Verdicts

\* Crediting the evaluator changes only the attribution.
LEMMA CreditEvaluatorType ==
  ASSUME NEW d \in Decision, NEW matched, NEW adopted
  PROVE  LET r == CreditEvaluator(d, matched, adopted)
         IN  /\ r \in Decision /\ r.action = d.action /\ r.check = d.check
             /\ r.countable = d.countable /\ r.trustState = d.trustState
  BY DEF CreditEvaluator, Decision

\* A policy result that skipped a faulted rule, or is outside the vocabulary,
\* leaves a recorded check and does not execute on an enforcing surface.
LEMMA ApplyPolicyResultType ==
  ASSUME NEW d \in Decision, d.action # Indeterminate,
         NEW v \in PolicyResult, NEW transport
  PROVE  LET p == ApplyPolicyResult(d, v, transport)
         IN  /\ p \in Decision
             /\ p.trustState = d.trustState
             /\ d.check # NoCheck \/ v.faulted \/ v.action = "bogus" => p.check # NoCheck
             /\ Enforcing(transport) /\ (v.faulted \/ v.action = "bogus") => ~Allowed(p)
             /\ ~Allowed(d) => ~Allowed(p)
<1> DEFINE enf      == Enforcing(transport)
           skipped  == v.faulted /\ v.action # "deny"
           noted    == IF skipped THEN MarkCheckFailure(d, "policy_eval", transport) ELSE d
           adopted  == v.action \in Verdicts \ {"allow"} /\ Stricter(noted, v.action)
           verdict  == IF v.action = "bogus" THEN MarkCheckFailure(noted, "policy_eval", transport)
                       ELSE IF adopted THEN AdoptStricter(noted, v.action, v.reason)
                       ELSE noted
           labelled == IF adopted /\ v.action = "escalate"
                       THEN [verdict EXCEPT !.mode = "classified"] ELSE verdict
           credited == CreditEvaluator(labelled, v.matched, adopted)
           denied   == v.faulted /\ v.action = "deny"
           final    == IF denied THEN MarkCheckFailure(credited, "policy_eval", transport)
                       ELSE credited
           counted  == [final EXCEPT !.countable = denied /\ final.action = "deny"]
<1>0. /\ enf \in BOOLEAN /\ "policy_eval" \in CheckStages
      /\ v.faulted \in BOOLEAN /\ v.reason \in Reasons
      /\ v.action \in Verdicts \cup {"bogus"} /\ "bogus" \notin Verdicts
  BY DEF Enforcing, CheckStages, PolicyResult, Reasons, Verdicts
<1>mark. ASSUME NEW x \in Decision
         PROVE  LET m == MarkCheckFailure(x, "policy_eval", transport)
                IN  /\ m \in Decision /\ m.check # NoCheck /\ m.trustState = x.trustState
                    /\ enf => ~Allowed(m)
                    /\ ~Allowed(x) => ~Allowed(m)
                    /\ ~enf => m.action = x.action
  BY <1>0, MarkCheckFailureType DEF MarkCheckFailure
<1>1. /\ noted \in Decision /\ noted.trustState = d.trustState
      /\ skipped => noted.check # NoCheck
      /\ ~skipped => noted = d
      /\ skipped /\ enf => ~Allowed(noted)
      /\ ~Allowed(d) => ~Allowed(noted)
      /\ ~enf => noted.action = d.action
      /\ d.check # NoCheck => noted.check # NoCheck
  BY <1>mark
<1> HIDE DEF noted
<1>2. CASE skipped /\ ~Allowed(noted)
  BY <1>1, <1>2 DEF ApplyPolicyResult, noted
<1>3. CASE ~(skipped /\ ~Allowed(noted))
  <2>1. noted.action # Indeterminate
    BY <1>1, <1>3 DEF Allowed, Indeterminate
  <2>2. /\ verdict \in Decision /\ verdict.trustState = d.trustState
        /\ noted.check # NoCheck \/ v.action = "bogus" => verdict.check # NoCheck
        /\ enf /\ v.action = "bogus" => ~Allowed(verdict)
        /\ ~Allowed(noted) => ~Allowed(verdict)
    <3>1. CASE v.action = "bogus"
      BY <1>1, <1>mark, <3>1
    <3>2. CASE v.action # "bogus" /\ adopted
      <4>1. LET a == AdoptStricter(noted, v.action, v.reason)
            IN  /\ a \in Decision /\ a.trustState = noted.trustState
                /\ a.check = noted.check /\ a.action = v.action
        BY <1>0, <1>1, <3>2, AdoptStricterType
      <4>2. ~Allowed(noted) => v.action \notin {"allow", "warn"}
        BY <1>1, <2>1, <3>2 DEF Stricter, VerdictRank, Allowed, Decision, Actions, Verdicts
      <4> QED
        BY <1>1, <3>2, <4>1, <4>2 DEF Allowed
    <3>3. CASE v.action # "bogus" /\ ~adopted
      BY <1>1, <3>3
    <3> QED
      BY <3>1, <3>2, <3>3
  <2> HIDE DEF verdict
  <2>3. /\ labelled \in Decision /\ labelled.trustState = d.trustState
        /\ labelled.check = verdict.check /\ labelled.action = verdict.action
    BY <2>2 DEF Decision, Modes
  <2> HIDE DEF labelled
  <2>4. /\ credited \in Decision /\ credited.trustState = d.trustState
        /\ credited.check = verdict.check /\ credited.action = verdict.action
    BY <2>3, CreditEvaluatorType
  <2> HIDE DEF credited
  <2>5. /\ final \in Decision /\ final.trustState = d.trustState
        /\ verdict.check # NoCheck \/ denied => final.check # NoCheck
        /\ enf /\ denied => ~Allowed(final)
        /\ ~Allowed(verdict) => ~Allowed(final)
    BY <1>mark, <2>4 DEF Allowed
  <2> HIDE DEF final
  <2>6. /\ counted \in Decision /\ counted.trustState = final.trustState
        /\ counted.check = final.check /\ counted.action = final.action
    BY <1>0, <2>5 DEF Decision
  <2>7. ApplyPolicyResult(d, v, transport) = counted
    BY <1>3 DEF ApplyPolicyResult, noted, verdict, labelled, credited, final
  <2> HIDE DEF counted
  <2>8. ~Allowed(verdict) => ~Allowed(counted)
    BY <2>5, <2>6 DEF Allowed
  <2>9. enf /\ denied => ~Allowed(counted)
    BY <2>5, <2>6 DEF Allowed
  <2> QED
    BY <1>0, <1>1, <1>3, <2>2, <2>5, <2>6, <2>7, <2>8, <2>9
<1> QED
  BY <1>2, <1>3

-----------------------------------------------------------------------------
(* The inductive invariant.  A failed check is visible on the decision from *)
(* the step in which it happens; while stages still run, an enforcing        *)
(* transport cannot carry a failed check into the escalation seam; and no    *)
(* stage after the lookup runs for an isolated agent.                        *)

Running == {"trust", "static", "interceptor", "policy"}
Returned == {"done", "panicked"}

EvInv(r) ==
  /\ r.pc = "trust" => r.agent \in Agents /\ r.d = StartDecision /\ ~r.faulted
  /\ r.pc = "static" => Allowed(r.d)
  /\ r.pc \in Running => r.d.action # Indeterminate
  /\ r.pc \in Running \cup {"escalate"} =>
       r.d.trustState # "ISOLATED" /\ ~r.d.countable
  /\ r.faulted => r.d.check # NoCheck
  /\ r.pc = "escalate" /\ r.faulted => ~Enforcing(r.transport)
  /\ r.faulted /\ Enforcing(r.transport)
       /\ (r.pc \in Returned => cfg.configErr \/ ~cfg.dryRun) => ~Allowed(r.d)
  /\ r.lookup = "failed" =>
       r.faulted /\ (r.d.countable \/ r.d.trustState = "UNKNOWN")
  /\ r.pc \in {"defer", "audit", "return"} /\ Allowed(r.d) => r.d.trustState # "ISOLATED"
  /\ r.pc \in Returned /\ Allowed(r.d) /\ ~cfg.dryRun => r.d.trustState # "ISOLATED"

Inv == TypeOK /\ \A e \in Evals : EvInv(ev[e])

\* A goroutine between requests is well formed.
LEMMA IdleType == Idle \in Evaluation
  BY StartDecisionType DEF Idle, Evaluation, PCs

\* The inductive invariant holds before the first request.
LEMMA InitInv == Init => Inv
<1> SUFFICES ASSUME Init PROVE Inv
  OBVIOUS
<1>1. TypeOK
  BY InputsAssumption, PipelineBounds, UnseenType, IdleType DEF Init, TypeOK
<1>2. ASSUME NEW e \in Evals PROVE EvInv(ev[e])
  BY DEF Init, EvInv, Idle, Running, Returned, StartDecision, Indeterminate, Allowed
<1> QED
  BY <1>1, <1>2 DEF Inv

\* An action that replaces one evaluation's record keeps the invariant when
\* the new record satisfies it.
LEMMA SetInv ==
  ASSUME Inv, NEW e \in Evals, NEW r \in Evaluation, EvInv(r), Set(e, r), cfg' = cfg,
         trust' \in [Agents -> AgentTrust], served' \in 0..MaxRequests,
         opsLeft' \in 0..MaxOperatorActions
  PROVE  Inv'
<1>1. TypeOK'
  BY DEF Inv, TypeOK, Set
<1>2. ASSUME NEW f \in Evals PROVE EvInv(ev[f])'
  <2>1. ev'[f] = IF f = e THEN r ELSE ev[f]
    BY DEF Inv, TypeOK, Set
  <2>2. EvInv(ev[f])
    BY DEF Inv
  <2>3. CASE f = e
    BY <2>1, <2>3 DEF EvInv, Enforcing, Allowed
  <2>4. CASE f # e
    BY <2>1, <2>2, <2>4 DEF EvInv, Enforcing, Allowed
  <2> QED
    BY <2>3, <2>4
<1> QED
  BY <1>1, <1>2 DEF Inv

\* The configuration and identity guards of Evaluate establish the invariant
\* for the new request.
LEMMA BeginInv ==
  ASSUME Inv, NEW e \in Evals, Begin(e)
  PROVE  Inv'
<1>1. PICK agent \in Agents \cup {NoAgent}, transport \in Transports :
        LET unidentified == cfg.requireAgentID /\ agent = NoAgent
            d == IF cfg.configErr THEN MarkCheckFailureEnforced(StartDecision, "config", TRUE)
                 ELSE IF unidentified THEN MarkCheckFailure(StartDecision, "identity", transport)
                 ELSE StartDecision
        IN  Set(e, [Idle EXCEPT !.agent = agent, !.transport = transport, !.d = d,
                      !.faulted = cfg.configErr \/ unidentified,
                      !.lookup = IF cfg.configErr \/ unidentified THEN "failed" ELSE "skipped",
                      !.pc = IF ~Allowed(d) THEN "defer"
                             ELSE IF cfg.checker # "none" /\ agent # NoAgent THEN "trust"
                             ELSE "static"])
  BY DEF Begin
<1> DEFINE unidentified == cfg.requireAgentID /\ agent = NoAgent
           d == IF cfg.configErr THEN MarkCheckFailureEnforced(StartDecision, "config", TRUE)
                ELSE IF unidentified THEN MarkCheckFailure(StartDecision, "identity", transport)
                ELSE StartDecision
           pc == IF ~Allowed(d) THEN "defer"
                 ELSE IF cfg.checker # "none" /\ agent # NoAgent THEN "trust"
                 ELSE "static"
           r == [Idle EXCEPT !.agent = agent, !.transport = transport, !.d = d,
                   !.faulted = cfg.configErr \/ unidentified,
                   !.lookup = IF cfg.configErr \/ unidentified THEN "failed" ELSE "skipped",
                   !.pc = pc]
<1>2. /\ cfg.configErr \in BOOLEAN /\ unidentified \in BOOLEAN
      /\ Enforcing(transport) \in BOOLEAN
  BY DEF Inv, TypeOK, Config, Enforcing
<1>3. /\ StartDecision \in Decision /\ Allowed(StartDecision)
      /\ StartDecision.action = "allow" /\ StartDecision.trustState = "TRUSTED"
      /\ ~StartDecision.countable
      /\ {"config", "identity"} \subseteq CheckStages
  BY StartDecisionType DEF StartDecision, Allowed, CheckStages
<1>4. /\ d \in Decision
      /\ cfg.configErr \/ unidentified => d.check # NoCheck /\ d.trustState = "UNKNOWN"
      /\ (cfg.configErr \/ unidentified) /\ Enforcing(transport) => ~Allowed(d)
      /\ d.trustState # "ISOLATED"
      /\ d.action \in {"allow", Indeterminate} /\ ~d.countable
      /\ cfg.configErr => ~Allowed(d)
      /\ ~(cfg.configErr \/ unidentified) => d = StartDecision
  <2> HIDE DEF unidentified
  <2>1. CASE cfg.configErr
    BY <1>2, <1>3, <2>1, MarkCheckFailureType
  <2>2. CASE ~cfg.configErr /\ unidentified
    <3>1. d = MarkCheckFailureEnforced(StartDecision, "identity", Enforcing(transport))
      BY <2>2 DEF MarkCheckFailure
    <3> HIDE DEF d
    <3> QED
      BY <1>2, <1>3, <2>2, <3>1, MarkCheckFailureType
  <2>3. CASE ~cfg.configErr /\ ~unidentified
    BY <1>3, <2>3
  <2> QED
    BY <2>1, <2>2, <2>3
<1> HIDE DEF d
<1>5. /\ pc \in {"defer", "trust", "static"} /\ (~Allowed(d) => pc = "defer")
      /\ pc = "trust" => agent \in Agents /\ ~(cfg.configErr \/ unidentified) /\ d = StartDecision
  BY <1>4
<1> HIDE DEF pc
<1>6. /\ r \in Evaluation /\ r.d = d /\ r.pc = pc /\ r.transport = transport /\ r.agent = agent
      /\ r.faulted = (cfg.configErr \/ unidentified)
      /\ r.lookup = "failed" => r.faulted
  <2>1. /\ Idle \in Evaluation /\ {"failed", "skipped"} \subseteq {"skipped", "ok", "failed"}
        /\ pc \in PCs /\ (cfg.configErr \/ unidentified) \in BOOLEAN
    BY <1>2, <1>5, IdleType DEF PCs
  <2> HIDE DEF unidentified
  <2> QED
    BY <1>4, <2>1 DEF Evaluation
<1>7. Set(e, r)
  BY <1>1 DEF d, pc
<1> HIDE DEF r, unidentified
<1>8. EvInv(r)
  BY <1>4, <1>5, <1>6 DEF EvInv, Running, Returned, Allowed, Indeterminate
<1>9. /\ cfg' = cfg /\ trust' \in [Agents -> AgentTrust]
      /\ served' \in 0..MaxRequests /\ opsLeft' \in 0..MaxOperatorActions
  BY PipelineBounds DEF Begin, Inv, TypeOK
<1> QED
  BY <1>6, <1>7, <1>8, <1>9, SetInv

\* What every stage starts from.
LEMMA StageFacts ==
  ASSUME Inv, NEW e \in Evals
  PROVE  /\ ev[e] \in Evaluation /\ ev[e].d \in Decision /\ EvInv(ev[e])
         /\ Enforcing(ev[e].transport) \in BOOLEAN
         /\ \A x \in 0..4, y \in 0..4 : Raise(x, y) \in 0..4
  BY DEF Inv, TypeOK, Evaluation, Enforcing, Raise

\* Stages that leave the shared state alone keep its types.
LEMMA UnchangedFacts ==
  ASSUME Inv, UNCHANGED <<cfg, trust, served, opsLeft>>
  PROVE  /\ cfg' = cfg /\ trust' \in [Agents -> AgentTrust]
         /\ served' \in 0..MaxRequests /\ opsLeft' \in 0..MaxOperatorActions
  BY DEF Inv, TypeOK

\* Stage 1 keeps the invariant, with a lookup that answers and one that fails.
LEMMA CheckTrustInv ==
  ASSUME Inv, NEW e \in Evals, CheckTrust(e)
  PROVE  Inv'
<1>0. PICK fault \in LookupFaults :
        LET state == trust[ev[e].agent].state
            found == [ev[e].d EXCEPT !.trustState = state]
            d == IF fault THEN MarkCheckFailure(ev[e].d, "trust", ev[e].transport)
                 ELSE IF Blocked(state)
                      THEN [found EXCEPT !.action = "deny", !.reason = "agent_blocked"]
                      ELSE found
        IN  Set(e, [ev[e] EXCEPT !.d = d, !.faulted = @ \/ fault,
                      !.lookup = IF fault THEN "failed" ELSE "ok",
                      !.floor = Raise(@, VerdictRank(IF fault THEN "allow" ELSE d.action)),
                      !.pc = IF Allowed(d) THEN "static" ELSE "defer"])
  BY DEF CheckTrust
<1> DEFINE state == trust[ev[e].agent].state
           found == [ev[e].d EXCEPT !.trustState = state]
           blocked == [found EXCEPT !.action = "deny", !.reason = "agent_blocked"]
           d == IF fault THEN MarkCheckFailure(ev[e].d, "trust", ev[e].transport)
                ELSE IF Blocked(state) THEN blocked ELSE found
           fl == Raise(ev[e].floor, VerdictRank(IF fault THEN "allow" ELSE d.action))
           pc == IF Allowed(d) THEN "static" ELSE "defer"
           lk == IF fault THEN "failed" ELSE "ok"
           fa == ev[e].faulted \/ fault
           r == [ev[e] EXCEPT !.d = d, !.faulted = fa, !.lookup = lk, !.floor = fl, !.pc = pc]
<1>1. /\ ev[e] \in Evaluation /\ ev[e].d \in Decision /\ EvInv(ev[e]) /\ fault \in BOOLEAN
      /\ Enforcing(ev[e].transport) \in BOOLEAN /\ ev[e].pc = "trust"
  BY StageFacts, FaultsAssumption DEF CheckTrust
<1>2. /\ state \in BreakerStates /\ ev[e].d = StartDecision /\ ~ev[e].faulted
      /\ ev[e].lookup # "failed"
  BY <1>1 DEF EvInv, Inv, TypeOK, AgentTrust
<1>3. /\ ev[e].d.action = "allow" /\ ev[e].d.trustState = "TRUSTED" /\ Allowed(ev[e].d)
      /\ ~ev[e].d.countable
  BY <1>2 DEF StartDecision, Allowed
<1>4. /\ found \in Decision /\ found.trustState = state /\ found.action = "allow"
      /\ ~found.countable
  BY <1>1, <1>2, <1>3 DEF Decision, TrustStates
<1> HIDE DEF found
<1>5. blocked \in Decision /\ blocked.action = "deny"
  BY <1>4 DEF Decision, Actions, Verdicts, Reasons
<1> HIDE DEF blocked
<1>6. /\ d \in Decision
      /\ fault => d.check # NoCheck /\ d.trustState = "UNKNOWN"
      /\ fault /\ Enforcing(ev[e].transport) => ~Allowed(d)
      /\ Allowed(d) => d.trustState # "ISOLATED" /\ d.action # Indeterminate /\ ~d.countable
  <2>1. CASE fault
    <3>1. d = MarkCheckFailureEnforced(ev[e].d, "trust", Enforcing(ev[e].transport))
      BY <2>1 DEF MarkCheckFailure
    <3>2. "trust" \in CheckStages
      BY DEF CheckStages
    <3> HIDE DEF d
    <3> QED
      BY <1>1, <1>3, <2>1, <3>1, <3>2, MarkCheckFailureType DEF Allowed, Indeterminate
  <2>2. CASE ~fault
    BY <1>4, <1>5, <2>2 DEF Allowed, Blocked, Indeterminate
  <2> QED
    BY <2>1, <2>2
<1> HIDE DEF d
<1>7. fl \in 0..4 /\ pc \in {"static", "defer"} /\ (pc = "static" <=> Allowed(d))
      /\ lk \in {"failed", "ok"} /\ (lk = "failed" <=> fault) /\ fa = fault
  BY <1>1, <1>2, StageFacts, RanksBounded DEF Evaluation
<1> HIDE DEF fl, pc, lk, fa
<1>8. /\ r \in Evaluation /\ r.d = d /\ r.pc = pc /\ r.transport = ev[e].transport
      /\ r.faulted = fault /\ r.lookup = lk
  BY <1>1, <1>6, <1>7 DEF Evaluation, PCs
<1>9. Set(e, r)
  BY <1>0 DEF d, fl, pc, lk, fa, found, blocked
<1> HIDE DEF r
<1>10. EvInv(r)
  BY <1>6, <1>7, <1>8 DEF EvInv, Running, Returned
<1> QED
  BY <1>8, <1>9, <1>10, UnchangedFacts, SetInv DEF CheckTrust

\* The rank of the strictest matching rule is bounded and is that of a rule.
LEMMA StrictestRuleType ==
  ASSUME NEW rules
  PROVE  /\ StrictestRule(rules) \in 0..4
         /\ StrictestRule(rules) \in {VerdictRank(RuleVerdict(rules[i])) : i \in DOMAIN rules} \cup {0}
<1> DEFINE ranks == {VerdictRank(RuleVerdict(rules[i])) : i \in DOMAIN rules}
           C == ranks \cup {0}
           S == {4 - n : n \in C}
<1>1. C \subseteq 0..4
  BY RanksBounded
<1>2. S \subseteq Nat /\ S # {}
  BY <1>1
<1>3. PICK m \in S : \A y \in S : m <= y
  BY <1>2, LeastNatural
<1>4. \E n \in C : \A m1 \in C : m1 <= n
  BY <1>1, <1>3
<1>5. \E n \in C : \A m1 \in ranks : m1 <= n
  BY <1>4
<1>6. StrictestRule(rules) \in C
  BY <1>5 DEF StrictestRule
<1> QED
  BY <1>1, <1>6

\* Stage 2 keeps the invariant.
LEMMA StaticRulesInv ==
  ASSUME Inv, NEW e \in Evals, StaticRules(e)
  PROVE  Inv'
<1>0. PICK rules \in RuleMatches :
        LET d == IF rules = <<>> THEN ev[e].d ELSE ApplyWinner(ev[e].d, Winner(rules))
        IN  Set(e, [ev[e] EXCEPT !.d = d, !.floor = Raise(@, StrictestRule(rules)),
                      !.pc = IF d.action = "deny" THEN "defer" ELSE "interceptor"])
  BY DEF StaticRules
<1> DEFINE d == IF rules = <<>> THEN ev[e].d ELSE ApplyWinner(ev[e].d, Winner(rules))
           fl == Raise(ev[e].floor, StrictestRule(rules))
           pc == IF d.action = "deny" THEN "defer" ELSE "interceptor"
           r == [ev[e] EXCEPT !.d = d, !.floor = fl, !.pc = pc]
<1>1. /\ ev[e] \in Evaluation /\ ev[e].d \in Decision /\ EvInv(ev[e])
      /\ ev[e].pc = "static" /\ rules \in Seq(Rule)
  BY StageFacts, InputsAssumption DEF StaticRules
<1>2. /\ d \in Decision /\ d.check = ev[e].d.check /\ d.countable = ev[e].d.countable
      /\ d.trustState = ev[e].d.trustState /\ d.action \in Verdicts
  <2>1. ev[e].d.action \in {"allow", "warn"}
    BY <1>1 DEF EvInv, Allowed
  <2>2. CASE rules = <<>>
    BY <1>1, <2>1, <2>2 DEF Verdicts
  <2>3. CASE rules # <<>>
    BY <1>1, <2>1, <2>3, WinnerType, ApplyWinnerType
  <2> QED
    BY <2>2, <2>3
<1> HIDE DEF d
<1>3. pc \in {"defer", "interceptor"} /\ (pc = "defer" => d.action = "deny")
  OBVIOUS
<1>4. fl \in 0..4
  BY <1>1, StageFacts, StrictestRuleType DEF Evaluation
<1> HIDE DEF pc, fl
<1>5. /\ r \in Evaluation /\ r.d = d /\ r.pc = pc /\ r.transport = ev[e].transport
      /\ r.faulted = ev[e].faulted /\ r.lookup = ev[e].lookup
  BY <1>1, <1>2, <1>3, <1>4 DEF Evaluation, PCs
<1>6. Set(e, r)
  BY <1>0 DEF d, fl, pc
<1> HIDE DEF r
<1>7. EvInv(r)
  BY <1>1, <1>2, <1>3, <1>5 DEF EvInv, Running, Returned, Allowed, Indeterminate, Verdicts
<1> QED
  BY <1>5, <1>6, <1>7, UnchangedFacts, SetInv DEF StaticRules

\* Stage 3 keeps the invariant, for a block, an error and an invalid answer.
LEMMA RunInterceptorInv ==
  ASSUME Inv, NEW e \in Evals, RunInterceptor(e)
  PROVE  Inv'
<1>0. PICK i \in InterceptorResults :
        LET action  == IF i.action = "" THEN "deny" ELSE i.action
            invalid == \/ i.kind = "error"
                       \/ i.kind = "block" /\ action \notin Verdicts \ {"allow"}
            d == IF invalid THEN MarkCheckFailure(ev[e].d, "interceptor", ev[e].transport)
                 ELSE IF i.kind = "block" THEN AdoptStricter(ev[e].d, action, i.reason)
                 ELSE ev[e].d
            over == (invalid /\ ~Allowed(d)) \/ d.action = "deny"
        IN  Set(e, [ev[e] EXCEPT !.d = d, !.faulted = @ \/ invalid,
                      !.floor = IF i.kind = "block" /\ ~invalid
                                THEN Raise(@, VerdictRank(action)) ELSE @,
                      !.pc = IF over THEN "defer" ELSE "policy"])
  BY DEF RunInterceptor
<1> DEFINE action  == IF i.action = "" THEN "deny" ELSE i.action
           invalid == \/ i.kind = "error"
                      \/ i.kind = "block" /\ action \notin Verdicts \ {"allow"}
           d == IF invalid THEN MarkCheckFailure(ev[e].d, "interceptor", ev[e].transport)
                ELSE IF i.kind = "block" THEN AdoptStricter(ev[e].d, action, i.reason)
                ELSE ev[e].d
           over == (invalid /\ ~Allowed(d)) \/ d.action = "deny"
           fl == IF i.kind = "block" /\ ~invalid
                 THEN Raise(ev[e].floor, VerdictRank(action)) ELSE ev[e].floor
           fa == ev[e].faulted \/ invalid
           pc == IF over THEN "defer" ELSE "policy"
           r == [ev[e] EXCEPT !.d = d, !.faulted = fa, !.floor = fl, !.pc = pc]
<1>1. /\ ev[e] \in Evaluation /\ ev[e].d \in Decision /\ EvInv(ev[e])
      /\ Enforcing(ev[e].transport) \in BOOLEAN
      /\ ev[e].pc = "interceptor" /\ i \in InterceptorResult
  BY StageFacts, InputsAssumption DEF RunInterceptor
<1>2. /\ ev[e].d.action # Indeterminate /\ ev[e].faulted \in BOOLEAN
      /\ ev[e].d.action \in Verdicts
  BY <1>1 DEF EvInv, Running, Evaluation, Decision, Actions
<1>3. invalid \in BOOLEAN /\ i.reason \in Reasons
  BY <1>1 DEF InterceptorResult, Reasons
<1>4. /\ d \in Decision /\ d.trustState = ev[e].d.trustState /\ d.countable = ev[e].d.countable
      /\ invalid \/ ev[e].d.check # NoCheck => d.check # NoCheck
      /\ invalid /\ Enforcing(ev[e].transport) => ~Allowed(d)
      /\ ~Allowed(ev[e].d) => ~Allowed(d)
      /\ d.action = Indeterminate => invalid /\ ~Allowed(d)
  <2>1. CASE invalid
    <3>1. d = MarkCheckFailureEnforced(ev[e].d, "interceptor", Enforcing(ev[e].transport))
      BY <2>1 DEF MarkCheckFailure
    <3>2. "interceptor" \in CheckStages
      BY DEF CheckStages
    <3> HIDE DEF d, invalid
    <3> QED
      BY <1>1, <2>1, <3>1, <3>2, MarkCheckFailureType DEF Allowed, Indeterminate
  <2>2. CASE ~invalid /\ i.kind = "block"
    <3>1. action \in Verdicts \ {"allow"}
      BY <2>2
    <3>2. d = AdoptStricter(ev[e].d, action, i.reason)
      BY <2>2
    <3> HIDE DEF d, action, invalid
    <3>3. /\ d \in Decision /\ d.trustState = ev[e].d.trustState
          /\ d.countable = ev[e].d.countable /\ d.check = ev[e].d.check
          /\ d.action = IF Stricter(ev[e].d, action) THEN action ELSE ev[e].d.action
      BY <1>1, <1>3, <3>1, <3>2, AdoptStricterType
    <3>4. d.action \in Verdicts /\ (~Allowed(ev[e].d) => ~Allowed(d))
      BY <1>2, <3>1, <3>3 DEF Stricter, VerdictRank, Allowed, Verdicts
    <3> QED
      BY <2>2, <3>3, <3>4 DEF Verdicts, Indeterminate
  <2>3. CASE ~invalid /\ i.kind # "block"
    BY <1>1, <1>2, <2>3
  <2> QED
    BY <2>1, <2>2, <2>3
<1> HIDE DEF d
<1>5. fl \in 0..4
  BY <1>1, StageFacts, RanksBounded DEF Evaluation
<1>6. /\ pc \in {"defer", "policy"} /\ (pc = "policy" => d.action # Indeterminate)
      /\ pc \in PCs /\ fa \in BOOLEAN
  BY <1>2, <1>3, <1>4 DEF PCs
<1> HIDE DEF fl, pc, invalid
<1>7. /\ r \in Evaluation /\ r.d = d /\ r.pc = pc /\ r.transport = ev[e].transport
      /\ r.faulted = fa /\ r.lookup = ev[e].lookup
  BY <1>1, <1>4, <1>5, <1>6 DEF Evaluation
<1>8. Set(e, r)
  BY <1>0 DEF d, fl, pc, invalid
<1> HIDE DEF r
<1>9. EvInv(r)
  BY <1>1, <1>4, <1>6, <1>7 DEF EvInv, Running, Returned
<1> QED
  BY <1>7, <1>8, <1>9, UnchangedFacts, SetInv DEF RunInterceptor

\* Stage 4 keeps the invariant, whatever the evaluator answers.
LEMMA EvaluatePolicyInv ==
  ASSUME Inv, NEW e \in Evals, EvaluatePolicy(e)
  PROVE  Inv'
<1> DEFINE d0 == ev[e].d
           tr == ev[e].transport
<1>0. PICK v \in PolicyResults :
        LET invalid == v.kind # "ok" \/ v.action = "bogus" \/ v.faulted
            noted == IF v.faulted THEN MarkCheckFailure(d0, "policy_eval", tr) ELSE d0
            r == [ev[e] EXCEPT !.faulted = @ \/ invalid, !.matched = v.matched]
        IN  \/ /\ EntersEscalation(d0, v, tr)
               /\ Set(e, [r EXCEPT
                     !.prior = noted,
                     !.d = [AdoptStricter(noted, "escalate", v.reason) EXCEPT !.mode = "classified"],
                     !.pc = "escalate"])
            \/ /\ ~EntersEscalation(d0, v, tr)
               /\ Set(e, [r EXCEPT
                     !.d = IF v.kind = "ok" THEN ApplyPolicyResult(d0, v, tr)
                           ELSE MarkCheckFailure(d0, "policy_eval", tr),
                     !.floor = IF v.kind = "ok" /\ (~v.faulted \/ v.action = "deny")
                               THEN Raise(@, VerdictRank(v.action)) ELSE @,
                     !.pc = "defer"])
  BY DEF EvaluatePolicy, Escalated
<1> DEFINE invalid == v.kind # "ok" \/ v.action = "bogus" \/ v.faulted
           noted == IF v.faulted THEN MarkCheckFailure(d0, "policy_eval", tr) ELSE d0
           fa == ev[e].faulted \/ invalid
           r == [ev[e] EXCEPT !.faulted = fa, !.matched = v.matched]
<1>1. /\ ev[e] \in Evaluation /\ d0 \in Decision /\ EvInv(ev[e])
      /\ Enforcing(tr) \in BOOLEAN /\ ev[e].pc = "policy" /\ v \in PolicyResult
  BY StageFacts, InputsAssumption DEF EvaluatePolicy
<1>2. /\ d0.action # Indeterminate /\ ev[e].faulted \in BOOLEAN /\ invalid \in BOOLEAN
      /\ v.reason \in Reasons /\ v.matched \in BOOLEAN /\ "policy_eval" \in CheckStages
      /\ v.faulted \in BOOLEAN
  BY <1>1 DEF EvInv, Running, Evaluation, PolicyResult, Reasons, CheckStages
<1>3. /\ d0.trustState # "ISOLATED" /\ ~d0.countable
      /\ ev[e].faulted => d0.check # NoCheck
      /\ ev[e].faulted /\ Enforcing(tr) => ~Allowed(d0)
      /\ ev[e].lookup = "failed" => ev[e].faulted /\ (d0.countable \/ d0.trustState = "UNKNOWN")
  BY <1>1 DEF EvInv, Running, Returned
<1>4. r \in Evaluation /\ r.faulted = fa /\ r.transport = tr /\ r.lookup = ev[e].lookup
      /\ r.floor = ev[e].floor
  BY <1>1, <1>2 DEF Evaluation
<1>5. LET m == MarkCheckFailure(d0, "policy_eval", tr)
      IN  /\ m \in Decision /\ m.check # NoCheck /\ m.trustState = d0.trustState
          /\ m.countable = d0.countable
          /\ Enforcing(tr) => ~Allowed(m)
          /\ ~Allowed(d0) => ~Allowed(m)
          /\ ~Enforcing(tr) => m.action = d0.action
  BY <1>1, <1>2, MarkCheckFailureType DEF MarkCheckFailure
<1>6. CASE EntersEscalation(d0, v, tr)
  <2> DEFINE a == AdoptStricter(noted, "escalate", v.reason)
             d == [a EXCEPT !.mode = "classified"]
             q == [r EXCEPT !.prior = noted, !.d = d, !.pc = "escalate"]
  <2>1. /\ Stricter(d0, "escalate") /\ v.action = "escalate" /\ v.kind = "ok"
        /\ (v.faulted => ~Enforcing(tr))
    BY <1>2, <1>6 DEF EntersEscalation
  <2>2. Allowed(d0)
    BY <1>1, <1>2, <2>1 DEF Stricter, VerdictRank, Allowed, Decision, Actions, Verdicts, Indeterminate
  <2>3. fa => ~Enforcing(tr)
    BY <1>3, <2>1, <2>2
  <2>4. /\ noted \in Decision /\ noted.trustState = d0.trustState
        /\ noted.countable = d0.countable
        /\ fa => noted.check # NoCheck
    BY <1>1, <1>2, <1>3, <1>5, <2>1
  <2> HIDE DEF noted
  <2>5. /\ a \in Decision /\ a.check = noted.check /\ a.trustState = noted.trustState
        /\ a.countable = noted.countable /\ a.action \in {"escalate", noted.action}
    BY <1>2, <2>4, AdoptStricterType DEF Verdicts
  <2> HIDE DEF a
  <2>6. /\ d \in Decision /\ d.check = a.check /\ d.trustState = a.trustState
        /\ d.countable = a.countable
    BY <2>5 DEF Decision, Modes
  <2> HIDE DEF d
  <2> HIDE DEF r
  <2>7. /\ q \in Evaluation /\ q.d = d /\ q.pc = "escalate" /\ q.faulted = fa
        /\ q.transport = tr /\ q.lookup = ev[e].lookup
    BY <1>4, <2>4, <2>6 DEF Evaluation, PCs
  <2>8. Set(e, q)
    BY <1>0, <1>6 DEF d, a, noted, r
  <2> HIDE DEF q, fa
  <2>9. EvInv(q)
    BY <1>3, <2>3, <2>4, <2>5, <2>6, <2>7 DEF EvInv, Running, Returned, fa
  <2> QED
    BY <2>7, <2>8, <2>9, UnchangedFacts, SetInv DEF EvaluatePolicy
<1>7. CASE ~EntersEscalation(d0, v, tr)
  <2> DEFINE d == IF v.kind = "ok" THEN ApplyPolicyResult(d0, v, tr)
                  ELSE MarkCheckFailure(d0, "policy_eval", tr)
             fl == IF v.kind = "ok" /\ (~v.faulted \/ v.action = "deny")
                   THEN Raise(r.floor, VerdictRank(v.action)) ELSE r.floor
             q == [r EXCEPT !.d = d, !.floor = fl, !.pc = "defer"]
  <2>1. /\ d \in Decision /\ d.trustState = d0.trustState
        /\ fa => d.check # NoCheck
        /\ fa /\ Enforcing(tr) => ~Allowed(d)
    <3>1. CASE v.kind = "ok"
      <4>1. d = ApplyPolicyResult(d0, v, tr)
        BY <3>1
      <4> HIDE DEF d
      <4> QED
        BY <1>1, <1>2, <1>3, <3>1, <4>1, ApplyPolicyResultType
    <3>2. CASE v.kind # "ok"
      BY <1>3, <1>5, <3>2
    <3> QED
      BY <3>1, <3>2
  <2> HIDE DEF d
  <2>2. fl \in 0..4
    BY <1>1, <1>4, StageFacts, RanksBounded DEF Evaluation
  <2> HIDE DEF fl
  <2>3. /\ q \in Evaluation /\ q.d = d /\ q.pc = "defer" /\ q.faulted = fa
        /\ q.transport = tr /\ q.lookup = ev[e].lookup
    <3> HIDE DEF r
    <3> QED
      BY <1>4, <2>1, <2>2 DEF Evaluation, PCs
  <2>4. Set(e, q)
    BY <1>0, <1>7 DEF d, fl
  <2> HIDE DEF q, fa
  <2>5. ev[e].lookup = "failed" => fa /\ d.trustState = "UNKNOWN"
    BY <1>3, <2>1 DEF fa
  <2>6. EvInv(q)
    BY <1>3, <2>1, <2>3, <2>5 DEF EvInv, Running, Returned
  <2> QED
    BY <2>3, <2>4, <2>6, UnchangedFacts, SetInv DEF EvaluatePolicy
<1> QED
  BY <1>6, <1>7

\* A relayed resolution leaves the record of failed checks alone.
LEMMA RelayResolutionType ==
  ASSUME NEW d \in Decision, NEW h \in EscalationResult
  PROVE  LET r == RelayResolution(d, h)
         IN  /\ r \in Decision /\ r.check = d.check /\ r.countable = d.countable
             /\ r.trustState = d.trustState
<1> DEFINE md == IF IsAdoptableEscalationMode(h.mode) THEN h.mode ELSE d.mode
           ok == [d EXCEPT !.action = h.action, !.reason = h.reason, !.mode = md]
           no == [d EXCEPT !.action = "deny", !.reason = "escalation", !.mode = "deterministic"]
<1>1. md \in Modes /\ h.reason \in Reasons
  BY DEF IsAdoptableEscalationMode, EscalationResult, Modes, Decision, Reasons
<1> HIDE DEF md
<1>2. h.action \in Verdicts =>
        /\ ok \in Decision /\ ok.check = d.check /\ ok.countable = d.countable
        /\ ok.trustState = d.trustState
  BY <1>1 DEF Decision, Actions
<1>3. /\ no \in Decision /\ no.check = d.check /\ no.countable = d.countable
      /\ no.trustState = d.trustState
  BY DEF Decision, Actions, Verdicts, Reasons, Modes
<1>4. RelayResolution(d, h) = IF h.kind = "ok" /\ h.action \in Verdicts THEN ok ELSE no
  BY DEF RelayResolution, md
<1> QED
  BY <1>2, <1>3, <1>4

\* Restoring the verdict standing before the escalation leaves the record of
\* failed checks alone.
LEMMA RestoreVerdictType ==
  ASSUME NEW d \in Decision, NEW prior \in Decision
  PROVE  LET r == RestoreVerdict(d, prior)
         IN  /\ r \in Decision /\ r.check = d.check /\ r.countable = d.countable
             /\ r.trustState = d.trustState
  BY DEF RestoreVerdict, Decision

\* The escalation seam keeps the invariant; a resolution cannot lower a
\* standing verdict.
LEMMA ResolveEscalationInv ==
  ASSUME Inv, NEW e \in Evals, ResolveEscalation(e)
  PROVE  Inv'
<1>0. PICK h \in EscalationResults :
        LET resolved == RelayResolution(ev[e].d, h)
            lowered  == VerdictRank(resolved.action) < VerdictRank(ev[e].prior.action)
            d == IF lowered THEN RestoreVerdict(resolved, ev[e].prior) ELSE resolved
        IN  IF h.kind = "panic"
            THEN Set(e, [ev[e] EXCEPT !.panicked = TRUE, !.pc = "defer"])
            ELSE Set(e, [ev[e] EXCEPT
                      !.d = CreditEvaluator(d, ev[e].matched, ~lowered),
                      !.relayed = TRUE,
                      !.floor = Raise(@, VerdictRank(IF h.kind = "ok" THEN h.action ELSE "deny")),
                      !.pc = "defer"])
  BY DEF ResolveEscalation
<1> DEFINE resolved == RelayResolution(ev[e].d, h)
           lowered  == VerdictRank(resolved.action) < VerdictRank(ev[e].prior.action)
           d1 == IF lowered THEN RestoreVerdict(resolved, ev[e].prior) ELSE resolved
           d  == CreditEvaluator(d1, ev[e].matched, ~lowered)
           fl == Raise(ev[e].floor, VerdictRank(IF h.kind = "ok" THEN h.action ELSE "deny"))
           p == [ev[e] EXCEPT !.panicked = TRUE, !.pc = "defer"]
           q == [ev[e] EXCEPT !.d = d, !.relayed = TRUE, !.floor = fl, !.pc = "defer"]
<1>1. /\ ev[e] \in Evaluation /\ ev[e].d \in Decision /\ EvInv(ev[e])
      /\ ev[e].pc = "escalate" /\ h \in EscalationResult /\ ev[e].prior \in Decision
  BY StageFacts, InputsAssumption DEF ResolveEscalation, Evaluation
<1>2. CASE h.kind = "panic"
  <2>1. /\ p \in Evaluation /\ p.d = ev[e].d /\ p.pc = "defer" /\ p.faulted = ev[e].faulted
        /\ p.transport = ev[e].transport /\ p.lookup = ev[e].lookup
    BY <1>1 DEF Evaluation, PCs
  <2>2. Set(e, p)
    BY <1>0, <1>2
  <2> HIDE DEF p
  <2>3. EvInv(p)
    BY <1>1, <2>1 DEF EvInv, Running, Returned
  <2> QED
    BY <2>1, <2>2, <2>3, UnchangedFacts, SetInv DEF ResolveEscalation
<1>3. CASE h.kind # "panic"
  <2>1. /\ resolved \in Decision /\ resolved.check = ev[e].d.check
        /\ resolved.countable = ev[e].d.countable /\ resolved.trustState = ev[e].d.trustState
    BY <1>1, RelayResolutionType
  <2> HIDE DEF resolved
  <2>2. /\ d1 \in Decision /\ d1.check = ev[e].d.check
        /\ d1.countable = ev[e].d.countable /\ d1.trustState = ev[e].d.trustState
    BY <1>1, <2>1, RestoreVerdictType
  <2> HIDE DEF d1
  <2>3. /\ d \in Decision /\ d.check = ev[e].d.check
        /\ d.countable = ev[e].d.countable /\ d.trustState = ev[e].d.trustState
    BY <2>2, CreditEvaluatorType
  <2> HIDE DEF d
  <2>4. fl \in 0..4
    BY <1>1, StageFacts, RanksBounded DEF Evaluation
  <2> HIDE DEF fl
  <2>5. /\ q \in Evaluation /\ q.d = d /\ q.pc = "defer" /\ q.faulted = ev[e].faulted
        /\ q.transport = ev[e].transport /\ q.lookup = ev[e].lookup
    BY <1>1, <2>3, <2>4 DEF Evaluation, PCs
  <2>6. Set(e, q)
    BY <1>0, <1>3 DEF d, d1, resolved, fl
  <2> HIDE DEF q
  <2>7. EvInv(q)
    BY <1>1, <2>3, <2>5 DEF EvInv, Running, Returned
  <2> QED
    BY <2>5, <2>6, <2>7, UnchangedFacts, SetInv DEF ResolveEscalation
<1> QED
  BY <1>2, <1>3

\* The deferred update never unblocks and never allows an isolated agent.
LEMMA AfterTrustUpdateType ==
  ASSUME NEW d \in Decision, NEW state \in BreakerStates
  PROVE  LET r == AfterTrustUpdate(d, state)
         IN  /\ r \in Decision /\ r.check = d.check /\ r.countable = d.countable
             /\ r.trustState = state
             /\ Allowed(r) => Allowed(d) /\ state # "ISOLATED"
<1> DEFINE seen == [d EXCEPT !.trustState = state]
           iso == [seen EXCEPT !.action = "deny", !.reason = "agent_blocked"]
           deg == [seen EXCEPT !.action = "require_approval", !.reason = "degraded"]
<1>1. /\ seen \in Decision /\ seen.check = d.check /\ seen.countable = d.countable
      /\ seen.trustState = state /\ seen.action = d.action
  BY DEF Decision, TrustStates
<1> HIDE DEF seen
<1>2. /\ iso \in Decision /\ iso.check = d.check /\ iso.countable = d.countable
      /\ iso.trustState = state /\ iso.action = "deny"
  BY <1>1 DEF Decision, Actions, Verdicts, Reasons
<1>3. /\ deg \in Decision /\ deg.check = d.check /\ deg.countable = d.countable
      /\ deg.trustState = state /\ deg.action = "require_approval"
  BY <1>1 DEF Decision, Actions, Verdicts, Reasons
<1> HIDE DEF iso, deg
<1>4. AfterTrustUpdate(d, state) =
        IF ~Allowed(d) THEN seen
        ELSE IF state = "ISOLATED" THEN iso
        ELSE IF state = "EVALUATING" THEN deg ELSE seen
  BY DEF AfterTrustUpdate, seen, iso, deg
<1> QED
  BY <1>1, <1>2, <1>3, <1>4 DEF Allowed

\* The deferred trust update keeps the invariant, also when it fails.
LEMMA UpdateTrustInv ==
  ASSUME Inv, NEW e \in Evals, UpdateTrust(e)
  PROVE  Inv'
<1>1. /\ ev[e] \in Evaluation /\ ev[e].d \in Decision /\ EvInv(ev[e])
      /\ Enforcing(ev[e].transport) \in BOOLEAN
      /\ ev[e].pc = "defer" /\ ev[e].faulted \in BOOLEAN
  BY StageFacts DEF UpdateTrust, Evaluation
<1>2. /\ cfg' = cfg /\ served' \in 0..MaxRequests /\ opsLeft' \in 0..MaxOperatorActions
      /\ trust \in [Agents -> AgentTrust]
  BY DEF UpdateTrust, Inv, TypeOK
<1>3. CASE ~FeedsTrust(ev[e])
  <2> DEFINE r == [ev[e] EXCEPT !.pc = "audit"]
  <2>1. /\ r \in Evaluation /\ r.d = ev[e].d /\ r.pc = "audit" /\ r.faulted = ev[e].faulted
        /\ r.transport = ev[e].transport /\ r.lookup = ev[e].lookup
    BY <1>1 DEF Evaluation, PCs
  <2>2. Set(e, r) /\ trust' = trust
    BY <1>3 DEF UpdateTrust
  <2> HIDE DEF r
  <2>3. EvInv(r)
    BY <1>1, <2>1 DEF EvInv, Running, Returned
  <2> QED
    BY <1>2, <2>1, <2>2, <2>3, SetInv
<1>4. CASE FeedsTrust(ev[e])
  <2> DEFINE before == trust[ev[e].agent]
             after == RecordDecision(before, ev[e].d.action)
             m == MarkCheckFailure(ev[e].d, "trust_update", ev[e].transport)
             u == AfterTrustUpdate(ev[e].d, after.state)
             q == [ev[e] EXCEPT !.pc = "audit", !.faulted = TRUE, !.d = m]
             r == [ev[e] EXCEPT !.pc = "audit", !.d = u, !.transition = before.state # after.state]
  <2>1. PICK fault \in UpdateFaults :
          IF fault THEN Set(e, q) /\ UNCHANGED trust
                   ELSE Set(e, r) /\ trust' = [trust EXCEPT ![ev[e].agent] = after]
    BY <1>4 DEF UpdateTrust
  <2>2. ev[e].agent \in Agents /\ (ev[e].d.check = NoCheck \/ ev[e].d.countable)
    BY <1>1, <1>4 DEF FeedsTrust, Evaluation
  <2>3. after \in AgentTrust /\ after.state \in BreakerStates
    BY <1>2, <2>2, RecordDecisionType DEF AgentTrust
  <2>4. CASE fault
    <3>1. /\ m \in Decision /\ m.check # NoCheck /\ m.trustState = ev[e].d.trustState
          /\ m.countable = ev[e].d.countable
          /\ Enforcing(ev[e].transport) => ~Allowed(m)
          /\ ~Allowed(ev[e].d) => ~Allowed(m)
      BY <1>1, MarkCheckFailureType DEF MarkCheckFailure, CheckStages
    <3> HIDE DEF m
    <3>2. /\ q \in Evaluation /\ q.d = m /\ q.pc = "audit" /\ q.faulted = TRUE
          /\ q.transport = ev[e].transport /\ q.lookup = ev[e].lookup
      BY <1>1, <3>1 DEF Evaluation, PCs
    <3> HIDE DEF q
    <3>3. EvInv(q)
      BY <1>1, <3>1, <3>2 DEF EvInv, Running, Returned
    <3> QED
      BY <1>2, <2>1, <2>4, <3>2, <3>3, SetInv
  <2>5. CASE ~fault
    <3> HIDE DEF after, before
    <3>1. /\ u \in Decision /\ u.check = ev[e].d.check /\ u.countable = ev[e].d.countable
          /\ u.trustState = after.state
          /\ Allowed(u) => Allowed(ev[e].d) /\ after.state # "ISOLATED"
      BY <1>1, <2>3, AfterTrustUpdateType
    <3> HIDE DEF u
    <3>2. /\ r \in Evaluation /\ r.d = u /\ r.pc = "audit" /\ r.faulted = ev[e].faulted
          /\ r.transport = ev[e].transport /\ r.lookup = ev[e].lookup
      BY <1>1, <3>1 DEF Evaluation, PCs
    <3>3. trust' \in [Agents -> AgentTrust]
      BY <1>2, <2>1, <2>3, <2>5
    <3> HIDE DEF r
    <3>4. EvInv(r)
      BY <1>1, <2>2, <3>1, <3>2 DEF EvInv, Running, Returned
    <3> QED
      BY <1>2, <2>1, <2>5, <3>2, <3>3, <3>4, SetInv
  <2> QED
    BY <2>4, <2>5
<1> QED
  BY <1>3, <1>4

\* The audit step keeps the invariant.
LEMMA EmitAuditInv ==
  ASSUME Inv, NEW e \in Evals, EmitAudit(e)
  PROVE  Inv'
<1> DEFINE log == IF ev[e].transition THEN <<DecisionEvent(ev[e].d), TransitionEvent(ev[e].d)>>
                                      ELSE <<DecisionEvent(ev[e].d)>>
           r == [ev[e] EXCEPT !.pc = "return", !.log = log]
<1>1. ev[e] \in Evaluation /\ ev[e].d \in Decision /\ EvInv(ev[e]) /\ ev[e].pc = "audit"
  BY StageFacts DEF EmitAudit
<1>2. DecisionEvent(ev[e].d) \in Event /\ TransitionEvent(ev[e].d) \in Event
  BY <1>1 DEF DecisionEvent, TransitionEvent, Event, Decision, DryRunConverts
<1>3. log \in Seq(Event)
  BY <1>2
<1> HIDE DEF log
<1>4. /\ r \in Evaluation /\ r.d = ev[e].d /\ r.pc = "return" /\ r.faulted = ev[e].faulted
      /\ r.transport = ev[e].transport /\ r.lookup = ev[e].lookup
  BY <1>1, <1>3 DEF Evaluation, PCs
<1>5. Set(e, r)
  BY DEF EmitAudit, log
<1> HIDE DEF r
<1>6. EvInv(r)
  BY <1>1, <1>4 DEF EvInv, Running, Returned
<1> QED
  BY <1>4, <1>5, <1>6, UnchangedFacts, SetInv DEF EmitAudit

\* The dry-run conversion keeps the invariant: it is the one step that may
\* turn a block into an allow, and it says so on the decision.
LEMMA ReturnInv ==
  ASSUME Inv, NEW e \in Evals, Return(e)
  PROVE  Inv'
<1> DEFINE conv == [ev[e].d EXCEPT !.action = "allow", !.dryRun = TRUE]
           d == IF DryRunConverts(ev[e].d) THEN conv ELSE ev[e].d
           pc == IF ev[e].panicked THEN "panicked" ELSE "done"
           r == [ev[e] EXCEPT !.pc = pc, !.d = d]
<1>1. ev[e] \in Evaluation /\ ev[e].d \in Decision /\ EvInv(ev[e]) /\ ev[e].pc = "return"
  BY StageFacts DEF Return
<1>2. /\ conv \in Decision /\ conv.check = ev[e].d.check /\ conv.countable = ev[e].d.countable
      /\ conv.trustState = ev[e].d.trustState
  BY <1>1 DEF Decision, Actions, Verdicts
<1> HIDE DEF conv
<1>3. /\ d \in Decision /\ d.check = ev[e].d.check /\ d.countable = ev[e].d.countable
      /\ d.trustState = ev[e].d.trustState
      /\ cfg.configErr \/ ~cfg.dryRun => d = ev[e].d
  BY <1>1, <1>2 DEF DryRunConverts
<1> HIDE DEF d
<1>4. /\ r \in Evaluation /\ r.d = d /\ r.pc \in Returned /\ r.faulted = ev[e].faulted
      /\ r.transport = ev[e].transport /\ r.lookup = ev[e].lookup
  BY <1>1, <1>3 DEF Evaluation, PCs, Returned
<1>5. Set(e, r)
  BY DEF Return, d, conv
<1> HIDE DEF r
<1>6. EvInv(r)
  BY <1>1, <1>3, <1>4 DEF EvInv, Running, Returned
<1> QED
  BY <1>4, <1>5, <1>6, UnchangedFacts, SetInv DEF Return

\* An operator's reset or termination disturbs no request in flight.
LEMMA OperatorInv ==
  ASSUME Inv, NEW a \in Agents, ResetAgentTrust(a) \/ TerminateAgent(a)
  PROVE  Inv'
<1>1. /\ cfg' = cfg /\ ev' = ev /\ served' = served
      /\ opsLeft' = opsLeft - 1 /\ opsLeft > 0
      /\ \E t \in AgentTrust : trust' = [trust EXCEPT ![a] = t]
  BY UnseenType, TerminatedType DEF ResetAgentTrust, TerminateAgent, Inv, TypeOK
<1>2. TypeOK'
  BY <1>1, PipelineBounds DEF Inv, TypeOK
<1>3. \A e \in Evals : EvInv(ev[e])'
  BY <1>1 DEF Inv, EvInv, Enforcing, Allowed
<1> QED
  BY <1>2, <1>3 DEF Inv

\* Every step of the pipeline keeps the invariant.
LEMMA NextInv == Inv /\ [Next]_vars => Inv'
<1> SUFFICES ASSUME Inv, [Next]_vars PROVE Inv'
  OBVIOUS
<1>1. ASSUME NEW e \in Evals, Begin(e) PROVE Inv'
  BY <1>1, BeginInv
<1>2. ASSUME NEW e \in Evals, Step(e) PROVE Inv'
  BY <1>2, CheckTrustInv, StaticRulesInv, RunInterceptorInv, EvaluatePolicyInv,
     ResolveEscalationInv, UpdateTrustInv, EmitAuditInv, ReturnInv DEF Step
<1>3. ASSUME NEW a \in Agents, ResetAgentTrust(a) \/ TerminateAgent(a) PROVE Inv'
  BY <1>3, OperatorInv
<1>4. CASE UNCHANGED vars
  <2>1. TypeOK'
    BY <1>4 DEF Inv, TypeOK, vars
  <2>2. \A e \in Evals : EvInv(ev[e])'
    BY <1>4 DEF Inv, vars, EvInv, Enforcing, Allowed
  <2> QED
    BY <2>1, <2>2 DEF Inv
<1> QED
  BY <1>1, <1>2, <1>3, <1>4 DEF Next

\* The inductive invariant holds in every reachable state of the pipeline.
THEOREM PipelineInvariant == Spec => []Inv
<1>1. Init => Inv
  BY InitInv
<1>2. Inv /\ [Next]_vars => Inv'
  BY NextInv
<1> QED
  BY <1>1, <1>2, PTL DEF Spec

\* Every stage of Evaluate, its deferred function and the operator controls
\* keep the pipeline's state well formed.
THEOREM PipelineTypeCorrect == Spec => []TypeOK
<1>1. Inv => TypeOK
  BY DEF Inv
<1> QED
  BY <1>1, PipelineInvariant, PTL

\* A failed required check never ends in execution on an enforcing transport
\* (markCheckFailureEnforced and every path of Evaluate around it).
THEOREM PipelineFailsClosed == Spec => []FailClosed
<1>1. Inv => FailClosed
  BY DEF Inv, EvInv, FailClosed, Done, Returned
<1> QED
  BY <1>1, PipelineInvariant, PTL

\* A failed required check is on the decision's record on every transport.
THEOREM PipelineRecordsFailedChecks == Spec => []FailedCheckRecorded
<1>1. Inv => FailedCheckRecorded
  BY DEF Inv, EvInv, FailedCheckRecorded, Done
<1> QED
  BY <1>1, PipelineInvariant, PTL

\* A decision never claims a trust posture its lookup did not obtain.
THEOREM PipelineHonestPosture == Spec => []HonestPosture
<1>1. Inv => HonestPosture
  BY DEF Inv, EvInv, HonestPosture, Done
<1> QED
  BY <1>1, PipelineInvariant, PTL

\* Whatever interleaves between lookup and trust update, an evaluation whose
\* agent it found isolated does not allow the call.
THEOREM PipelineIsolation == Spec => []IsolatedNeverAllowed
<1>1. Inv => IsolatedNeverAllowed
  BY DEF Inv, EvInv, IsolatedNeverAllowed, Done, Returned
<1> QED
  BY <1>1, PipelineInvariant, PTL

-----------------------------------------------------------------------------
(* The second invariant: what the verdict, its label, its audit record and  *)
(* the trust backend have to do with each other on the way.                 *)

\* The stages between the lookup and the trust update.
Unsettled == {"static", "interceptor", "policy", "escalate", "defer"}

\* The label was not made up: a human's approval is a rule author's.
Earned(d) == d.mode # "proved" /\ (d.mode = "human_approved" => d.rule.mode = "human_approved")

\* Exactly one decision event was published, and it is x.
Published(r, x) ==
  \E i \in DOMAIN r.log : r.log[i] = x /\ \A j \in DOMAIN r.log : r.log[j].type = "decision" <=> j = i

\* No stage's verdict has been lost so far; only the handler may lower the
\* escalation itself, so what stood before it counts.
FloorKept(r) ==
  /\ r.pc \notin Returned => ~r.d.dryRun
  /\ r.pc \in {"trust", "static"} => r.floor = 0 /\ r.d.mode = "deterministic"
  /\ r.pc = "static" => r.d.action = "allow"
  /\ r.pc # "escalate" /\ ~r.d.dryRun => Severity(r.d.action) >= r.floor
  /\ r.pc = "escalate" => /\ r.d.action = "escalate" /\ Allowed(r.prior) /\ Earned(r.prior)
                          /\ Severity(r.prior.action) >= r.floor

LabelEarned(r) ==
  /\ r.d.mode # "proved"
  /\ Earned(r.d) \/ (r.relayed /\ r.pc \notin Running)

LogTrue(r) ==
  /\ r.pc = "return" => Published(r, DecisionEvent(r.d))
  /\ r.pc \in Returned =>
       \E x \in Event : /\ Published(r, x)
                        /\ x.dryRun = r.d.dryRun /\ x.trustState = r.d.trustState
                        /\ IF r.d.dryRun THEN Severity(x.action) >= 4 ELSE x.action = r.d.action

\* Only a deny is countable; an invalid configuration runs no stage at all.
CountableDenies(r) ==
  /\ r.pc = "defer" /\ r.d.countable => r.d.action = "deny"
  /\ cfg.configErr => /\ r.pc \notin Running \cup {"escalate"}
                      /\ r.pc = "defer" => r.faulted /\ ~r.d.countable

\* A call whose outcome the backend will count passed the lookup unblocked.
AdmissionSeen(r) ==
  /\ r.pc \in Unsettled /\ r.lookup = "ok" /\ Blocked(r.d.trustState) =>
       r.pc = "defer" /\ r.d.reason = "agent_blocked"
  /\ LookupsBlock /\ r.pc \in Unsettled /\ cfg.checker # "none" /\ r.agent # NoAgent =>
       r.lookup = "ok" \/ (r.pc = "defer" /\ r.faulted /\ ~r.d.countable)

EvInv2(r) == FloorKept(r) /\ LabelEarned(r) /\ LogTrue(r) /\ CountableDenies(r) /\ AdmissionSeen(r)

TrustInv ==
  \A a \in Agents :
    /\ trust[a].alpha >= InitialAlpha /\ trust[a].beta >= InitialBeta
    /\ trust[a].state = "TRUSTED" =>
         trust[a] = Unseen \/ ~ScoreBelow(trust[a].alpha, trust[a].beta, DegradedThreshold)

Inv2 == Inv /\ cfg \in Configs /\ TrustInv /\ \A e \in Evals : EvInv2(ev[e])
-----------------------------------------------------------------------------
(* What the verdict algebra does to severity, labels and credit. *)

\* x claims no credit that d does not.
SameCredit(x, d) == x.mode = "deterministic" \/ (x.mode = d.mode /\ x.rule = d.rule)

\* Severity is a small natural, ordered as the verdicts are.
LEMMA SeverityBounded ==
  /\ \A a : Severity(a) \in 0..5 /\ Severity(a) >= VerdictRank(a)
  /\ \A a \in Verdicts : Severity(a) = VerdictRank(a)
  /\ Severity(Indeterminate) = 5
  BY RanksBounded DEF Severity, Verdicts, Indeterminate

\* Credit that is not made up stays so.
LEMMA CreditEarned ==
  ASSUME NEW x, NEW d, SameCredit(x, d), Earned(d)
  PROVE  Earned(x)
  BY DEF SameCredit, Earned

\* Marking a failed check keeps the verdict or makes it indeterminate, and at
\* most takes credit away (markCheckFailureEnforced).
LEMMA MarkKeeps ==
  ASSUME NEW d \in Decision, NEW stage \in CheckStages, NEW enforcing \in BOOLEAN
  PROVE  LET m == MarkCheckFailureEnforced(d, stage, enforcing)
         IN  /\ m.dryRun = d.dryRun /\ SameCredit(m, d)
             /\ m.action \in {d.action, Indeterminate}
             /\ ~Allowed(d) => m.action = d.action
             /\ Severity(m.action) >= Severity(d.action)
<1> DEFINE rec == [d EXCEPT !.check = IF @ = NoCheck THEN stage ELSE @]
           pos == IF stage \in {"trust", "identity", "config"}
                  THEN [rec EXCEPT !.trustState = "UNKNOWN"] ELSE rec
           cre == IF pos.action = "warn" /\ pos.rule # NoRule
                  THEN ClearAttribution(pos) ELSE pos
           fin == [cre EXCEPT !.action = Indeterminate, !.reason = "check"]
<1>1. /\ rec \in Decision /\ rec.dryRun = d.dryRun /\ rec.mode = d.mode /\ rec.rule = d.rule
      /\ rec.action = d.action
  BY DEF Decision, CheckStages
<1> HIDE DEF rec
<1>2. /\ pos \in Decision /\ pos.dryRun = d.dryRun /\ pos.mode = d.mode /\ pos.rule = d.rule
      /\ pos.action = d.action
  BY <1>1 DEF Decision, TrustStates
<1> HIDE DEF pos
<1>3. /\ cre \in Decision /\ cre.dryRun = d.dryRun
      /\ cre.mode = "deterministic" \/ (cre.mode = d.mode /\ cre.rule = d.rule)
  BY <1>2 DEF ClearAttribution, Decision, Modes
<1> HIDE DEF cre
<1>4. /\ fin.dryRun = d.dryRun /\ fin.mode = cre.mode /\ fin.rule = cre.rule
      /\ fin.action = Indeterminate
  BY <1>3 DEF Decision
<1> HIDE DEF fin
<1>5. MarkCheckFailureEnforced(d, stage, enforcing) =
        IF ~Allowed(d) THEN rec ELSE IF ~enforcing THEN pos ELSE fin
  BY DEF MarkCheckFailureEnforced, rec, pos, cre, fin
<1> QED
  BY <1>1, <1>2, <1>3, <1>4, <1>5, SeverityBounded DEF SameCredit

\* adoptStricter never lowers and never claims credit.
LEMMA AdoptKeeps ==
  ASSUME NEW d \in Decision, NEW action \in Verdicts, NEW reason \in Reasons,
         d.action # Indeterminate
  PROVE  LET r == AdoptStricter(d, action, reason)
         IN  /\ r.dryRun = d.dryRun /\ SameCredit(r, d)
             /\ Severity(r.action) >= Severity(d.action)
             /\ Severity(r.action) >= VerdictRank(action)
<1> DEFINE v == [d EXCEPT !.action = action, !.reason = reason]
<1>1. /\ v \in Decision /\ v.dryRun = d.dryRun /\ v.mode = d.mode /\ v.rule = d.rule
  BY DEF Decision, Actions
<1> HIDE DEF v
<1>2. ClearAttribution(v).dryRun = v.dryRun /\ ClearAttribution(v).mode = "deterministic"
  BY <1>1 DEF ClearAttribution, Decision
<1>3. AdoptStricter(d, action, reason) =
        IF ~Stricter(d, action) THEN d ELSE IF d.rule = NoRule THEN v ELSE ClearAttribution(v)
  BY DEF AdoptStricter, v
<1>4. LET r == AdoptStricter(d, action, reason) IN r.dryRun = d.dryRun /\ SameCredit(r, d)
  BY <1>1, <1>2, <1>3 DEF SameCredit
<1>5. d.action \in Verdicts
  BY DEF Decision, Actions
<1>6. LET r == AdoptStricter(d, action, reason)
      IN  r.action = IF Stricter(d, action) THEN action ELSE d.action
  BY AdoptStricterType
<1> QED
  BY <1>4, <1>5, <1>6, SeverityBounded, RanksBounded DEF Stricter

\* The winner's verdict is at least as strict as every matching rule's.
LEMMA WinnerStrictest ==
  ASSUME NEW rules \in Seq(Rule), rules # <<>>
  PROVE  StrictestRule(rules) <= VerdictRank(RuleVerdict(Winner(rules)))
<1> DEFINE w == Winner(rules)
           ranks == {VerdictRank(RuleVerdict(rules[i])) : i \in DOMAIN rules}
           C == ranks \cup {0}
<1>1. w \in Rule /\ \A j \in DOMAIN rules : StaticRuleRank(rules[j].action) <= StaticRuleRank(w.action)
  BY WinnerType
<1> HIDE DEF w
<1>2. \A x, y \in Rule : StaticRuleRank(x.action) <= StaticRuleRank(y.action) =>
                         VerdictRank(RuleVerdict(x)) <= VerdictRank(RuleVerdict(y))
  BY DEF Rule, RuleActions, Verdicts, StaticRuleRank, VerdictRank, RuleVerdict
<1>3. \A n \in ranks : n <= VerdictRank(RuleVerdict(w))
  BY <1>1, <1>2
<1>4. \A n \in C : n <= VerdictRank(RuleVerdict(w))
  BY <1>3, RanksBounded
<1>5. StrictestRule(rules) \in C
  BY StrictestRuleType
<1> QED
  BY <1>4, <1>5 DEF w

\* The winning rule's verdict replaces the allow Evaluate starts from, and its
\* label is the rule author's.
LEMMA ApplyWinnerKeeps ==
  ASSUME NEW d \in Decision, NEW rule \in Rule, d.action = "allow", d.mode = "deterministic"
  PROVE  LET r == ApplyWinner(d, rule)
         IN  /\ r.dryRun = d.dryRun /\ Earned(r) /\ r.action = RuleVerdict(rule)
<1> DEFINE md == IF IsAdoptableEscalationMode(rule.mode) THEN rule.mode ELSE d.mode
           c == [d EXCEPT !.rule = rule, !.policy = "rule", !.mode = md]
           w == [c EXCEPT !.action = RuleVerdict(rule), !.reason = rule.reason]
           x == [w EXCEPT !.mode = "classified"]
<1>1. md # "proved" /\ (md = "human_approved" => rule.mode = "human_approved")
  BY DEF IsAdoptableEscalationMode
<1> HIDE DEF md
<1>2. c.dryRun = d.dryRun /\ c.rule = rule /\ c.mode = md /\ c.action = d.action
      /\ DOMAIN c = DOMAIN d
  BY DEF Decision
<1>3. w.dryRun = d.dryRun /\ w.rule = rule /\ w.mode = md /\ w.action = RuleVerdict(rule)
  BY DEF Decision
<1>4. x.dryRun = d.dryRun /\ x.mode = "classified" /\ x.action = RuleVerdict(rule)
  BY DEF Decision
<1> HIDE DEF c, w, x
<1>5. ApplyWinner(d, rule) = IF rule.action = "allow" THEN c
                             ELSE IF rule.action = "escalate" THEN x ELSE w
  BY DEF ApplyWinner, c, w, x, md
<1>6. rule.action = "allow" => RuleVerdict(rule) = "allow"
  BY DEF RuleVerdict
<1> QED
  BY <1>1, <1>2, <1>3, <1>4, <1>5, <1>6 DEF Earned

\* A policy result never lowers the verdict, never claims credit, raises the
\* verdict to a sound answer's, and is countable only as a deny.
LEMMA ApplyPolicyResultKeeps ==
  ASSUME NEW d \in Decision, d.action # Indeterminate, ~d.countable, Earned(d),
         NEW v \in PolicyResult, NEW transport
  PROVE  LET p == ApplyPolicyResult(d, v, transport)
         IN  /\ p.dryRun = d.dryRun /\ Earned(p)
             /\ p.countable => p.action = "deny"
             /\ Severity(p.action) >= Severity(d.action)
             /\ ~v.faulted \/ v.action = "deny" => Severity(p.action) >= VerdictRank(v.action)
<1> DEFINE enf      == Enforcing(transport)
           skipped  == v.faulted /\ v.action # "deny"
           noted    == IF skipped THEN MarkCheckFailure(d, "policy_eval", transport) ELSE d
           adopted  == v.action \in Verdicts \ {"allow"} /\ Stricter(noted, v.action)
           verdict  == IF v.action = "bogus" THEN MarkCheckFailure(noted, "policy_eval", transport)
                       ELSE IF adopted THEN AdoptStricter(noted, v.action, v.reason)
                       ELSE noted
           labelled == IF adopted /\ v.action = "escalate"
                       THEN [verdict EXCEPT !.mode = "classified"] ELSE verdict
           credited == CreditEvaluator(labelled, v.matched, adopted)
           denied   == v.faulted /\ v.action = "deny"
           final    == IF denied THEN MarkCheckFailure(credited, "policy_eval", transport)
                       ELSE credited
           counted  == [final EXCEPT !.countable = denied /\ final.action = "deny"]
<1>0. /\ enf \in BOOLEAN /\ "policy_eval" \in CheckStages
      /\ v.faulted \in BOOLEAN /\ v.reason \in Reasons
      /\ v.action \in Verdicts \cup {"bogus"} /\ "bogus" \notin Verdicts
  BY DEF Enforcing, CheckStages, PolicyResult, Reasons, Verdicts
<1>mark. ASSUME NEW x \in Decision
         PROVE  LET m == MarkCheckFailure(x, "policy_eval", transport)
                IN  /\ m \in Decision /\ m.dryRun = x.dryRun /\ SameCredit(m, x)
                    /\ m.countable = x.countable
                    /\ m.action \in {x.action, Indeterminate}
                    /\ ~Allowed(x) => m.action = x.action
                    /\ Severity(m.action) >= Severity(x.action)
  BY <1>0, MarkCheckFailureType, MarkKeeps DEF MarkCheckFailure
<1>1. /\ noted \in Decision /\ noted.dryRun = d.dryRun /\ Earned(noted) /\ ~noted.countable
      /\ Severity(noted.action) >= Severity(d.action)
      /\ ~skipped => noted = d
      /\ noted.action \in {d.action, Indeterminate}
  BY <1>mark, CreditEarned, SeverityBounded
<1> HIDE DEF noted
<1>2. CASE skipped /\ ~Allowed(noted)
  BY <1>0, <1>1, <1>2 DEF ApplyPolicyResult, noted
<1>3. CASE ~(skipped /\ ~Allowed(noted))
  <2>1. noted.action # Indeterminate
    BY <1>1, <1>3 DEF Allowed, Indeterminate
  <2>2. /\ verdict \in Decision /\ verdict.dryRun = d.dryRun /\ Earned(verdict)
        /\ Severity(verdict.action) >= Severity(noted.action)
        /\ ~skipped => Severity(verdict.action) >= VerdictRank(v.action)
    <3>1. CASE v.action = "bogus"
      BY <1>1, <1>mark, <3>1, CreditEarned, SeverityBounded DEF VerdictRank
    <3>2. CASE v.action # "bogus" /\ adopted
      <4>1. LET a == AdoptStricter(noted, v.action, v.reason)
            IN  /\ a \in Decision /\ a.dryRun = noted.dryRun /\ SameCredit(a, noted)
                /\ Severity(a.action) >= Severity(noted.action)
                /\ Severity(a.action) >= VerdictRank(v.action)
        BY <1>0, <1>1, <2>1, <3>2, AdoptStricterType, AdoptKeeps
      <4> QED
        BY <1>1, <3>2, <4>1, CreditEarned
    <3>3. CASE v.action # "bogus" /\ ~adopted
      <4>1. verdict = noted /\ v.action \in Verdicts
        BY <1>0, <3>3
      <4>2. VerdictRank(v.action) <= VerdictRank(noted.action)
        <5>1. v.action = "allow" \/ ~Stricter(noted, v.action)
          BY <3>3, <4>1
        <5>2. VerdictRank("allow") = 0
          BY DEF VerdictRank
        <5> QED
          BY <5>1, <5>2, RanksBounded DEF Stricter
      <4> HIDE DEF verdict
      <4> QED
        BY <1>1, <4>1, <4>2, SeverityBounded, RanksBounded
    <3> QED
      BY <3>1, <3>2, <3>3
  <2> HIDE DEF verdict
  <2>3. /\ labelled \in Decision /\ labelled.dryRun = d.dryRun /\ Earned(labelled)
        /\ labelled.action = verdict.action
    BY <2>2 DEF Decision, Modes, Earned
  <2> HIDE DEF labelled
  <2>4. /\ credited \in Decision /\ credited.dryRun = d.dryRun /\ Earned(credited)
        /\ credited.action = verdict.action
    BY <2>3 DEF CreditEvaluator, Decision, Earned
  <2> HIDE DEF credited
  <2>5. /\ final \in Decision /\ final.dryRun = d.dryRun /\ Earned(final)
        /\ Severity(final.action) >= Severity(verdict.action)
    BY <1>mark, <2>4, CreditEarned, SeverityBounded
  <2> HIDE DEF final
  <2>6. /\ counted.dryRun = final.dryRun /\ counted.mode = final.mode /\ counted.rule = final.rule
        /\ counted.action = final.action /\ (counted.countable => final.action = "deny")
    BY <1>0, <2>5 DEF Decision
  <2>7. ApplyPolicyResult(d, v, transport) = counted
    BY <1>3 DEF ApplyPolicyResult, noted, verdict, labelled, credited, final
  <2> HIDE DEF counted
  <2>8. Earned(counted)
    BY <2>5, <2>6 DEF Earned
  <2>9. Severity(counted.action) >= Severity(d.action)
        /\ (~skipped => Severity(counted.action) >= VerdictRank(v.action))
    BY <1>1, <2>2, <2>5, <2>6, SeverityBounded, RanksBounded
  <2> QED
    BY <1>0, <2>5, <2>6, <2>7, <2>8, <2>9
<1> QED
  BY <1>2, <1>3

\* A relayed resolution carries an adoptable label, and a fault denies.
LEMMA RelayKeeps ==
  ASSUME NEW d \in Decision, NEW h \in EscalationResult, d.mode # "proved"
  PROVE  LET r == RelayResolution(d, h)
         IN  /\ r.dryRun = d.dryRun /\ r.mode # "proved" /\ r.action \in Verdicts
             /\ VerdictRank(r.action) >= VerdictRank(IF h.kind = "ok" THEN h.action ELSE "deny")
<1> DEFINE md == IF IsAdoptableEscalationMode(h.mode) THEN h.mode ELSE d.mode
           ok == [d EXCEPT !.action = h.action, !.reason = h.reason, !.mode = md]
           no == [d EXCEPT !.action = "deny", !.reason = "escalation", !.mode = "deterministic"]
<1>1. md # "proved"
  BY DEF IsAdoptableEscalationMode
<1> HIDE DEF md
<1>2. ok.dryRun = d.dryRun /\ ok.mode = md /\ ok.action = h.action
  BY DEF Decision
<1>3. no.dryRun = d.dryRun /\ no.mode = "deterministic" /\ no.action = "deny"
  BY DEF Decision
<1> HIDE DEF ok, no
<1>4. RelayResolution(d, h) = IF h.kind = "ok" /\ h.action \in Verdicts THEN ok ELSE no
  BY DEF RelayResolution, md, ok, no
<1>5. VerdictRank("deny") = 4 /\ "deny" \in Verdicts
  BY DEF VerdictRank, Verdicts
<1> QED
  BY <1>1, <1>2, <1>3, <1>4, <1>5, RanksBounded

-----------------------------------------------------------------------------
(* Every step keeps the second invariant. *)

\* Nothing is under way at the start.
LEMMA InitInv2 == Init => Inv2
<1> SUFFICES ASSUME Init PROVE Inv2
  OBVIOUS
<1>1. TrustInv
  BY TrustWeights DEF Init, TrustInv, Unseen
<1>2. ASSUME NEW e \in Evals PROVE EvInv2(ev[e])
  <2>1. ev[e] = Idle
    BY DEF Init
  <2>2. /\ Idle.pc = "idle" /\ Idle.d = StartDecision /\ Idle.floor = 0
    BY DEF Idle
  <2>3. /\ ~StartDecision.dryRun /\ StartDecision.mode = "deterministic" /\ ~StartDecision.countable
    BY DEF StartDecision
  <2>4. FloorKept(Idle)
    BY <2>2, <2>3, SeverityBounded DEF FloorKept
  <2>5. LabelEarned(Idle) /\ LogTrue(Idle) /\ CountableDenies(Idle) /\ AdmissionSeen(Idle)
    BY <2>2, <2>3 DEF LabelEarned, Earned, LogTrue, CountableDenies, AdmissionSeen, Unsettled,
       Running, Returned
  <2> QED
    BY <2>1, <2>4, <2>5 DEF EvInv2
<1> QED
  BY <1>1, <1>2, InitInv DEF Inv2, Init

\* A step that replaces one evaluation's record.
LEMMA SetInv2 ==
  ASSUME Inv2, Inv', NEW e \in Evals, NEW r \in Evaluation, EvInv2(r), Set(e, r), cfg' = cfg, TrustInv'
  PROVE  Inv2'
<1>1. ASSUME NEW x, EvInv2(x) PROVE EvInv2(x)'
  BY <1>1 DEF EvInv2, FloorKept, LabelEarned, Earned, LogTrue, Published, CountableDenies,
     AdmissionSeen, DecisionEvent, DryRunConverts
<1>2. ASSUME NEW f \in Evals PROVE EvInv2(ev[f])'
  <2>1. ev'[f] = IF f = e THEN r ELSE ev[f]
    BY DEF Inv2, Inv, TypeOK, Set
  <2>2. EvInv2(ev[f])
    BY DEF Inv2
  <2> QED
    BY <1>1, <2>1, <2>2
<1> QED
  BY <1>2 DEF Inv2

\* Trust that no step touches.
LEMMA TrustUnchanged == ASSUME Inv2, trust' = trust PROVE TrustInv'
  BY DEF Inv2, TrustInv

\* A stage between the lookup and the trust update: the call stays admitted
\* or refused as it was.
Staged(e, q) == /\ q.agent = ev[e].agent /\ q.lookup = ev[e].lookup
                /\ q.d.trustState = ev[e].d.trustState
                /\ q.pc \in Unsettled

\* What every stage of the second invariant starts from.
LEMMA StageFacts2 ==
  ASSUME Inv2, NEW e \in Evals
  PROVE  /\ Inv /\ ev[e] \in Evaluation /\ ev[e].d \in Decision /\ EvInv(ev[e]) /\ EvInv2(ev[e])
         /\ Enforcing(ev[e].transport) \in BOOLEAN
         /\ ev[e].floor \in 0..4 /\ ev[e].faulted \in BOOLEAN
         /\ \A x, y, z \in 0..5 : z >= x /\ z >= y => z >= Raise(x, y)
  BY StageFacts DEF Inv2, Evaluation, Raise

\* Evaluate begins with no verdict to keep and no credit to claim.
LEMMA BeginStep ==
  ASSUME Inv2, NEW e \in Evals, Begin(e)
  PROVE  \E q \in Evaluation : /\ Set(e, q) /\ EvInv2(q)
                               /\ ev[e].pc \in {"idle", "done", "panicked"}
                               /\ q.lookup # "ok"
<1>1. PICK agent \in Agents \cup {NoAgent}, transport \in Transports :
        LET unidentified == cfg.requireAgentID /\ agent = NoAgent
            d == IF cfg.configErr THEN MarkCheckFailureEnforced(StartDecision, "config", TRUE)
                 ELSE IF unidentified THEN MarkCheckFailure(StartDecision, "identity", transport)
                 ELSE StartDecision
        IN  Set(e, [Idle EXCEPT !.agent = agent, !.transport = transport, !.d = d,
                      !.faulted = cfg.configErr \/ unidentified,
                      !.lookup = IF cfg.configErr \/ unidentified THEN "failed" ELSE "skipped",
                      !.pc = IF ~Allowed(d) THEN "defer"
                             ELSE IF cfg.checker # "none" /\ agent # NoAgent THEN "trust"
                             ELSE "static"])
  BY DEF Begin
<1> DEFINE unidentified == cfg.requireAgentID /\ agent = NoAgent
           d == IF cfg.configErr THEN MarkCheckFailureEnforced(StartDecision, "config", TRUE)
                ELSE IF unidentified THEN MarkCheckFailure(StartDecision, "identity", transport)
                ELSE StartDecision
           pc == IF ~Allowed(d) THEN "defer"
                 ELSE IF cfg.checker # "none" /\ agent # NoAgent THEN "trust"
                 ELSE "static"
           fa == cfg.configErr \/ unidentified
           lk == IF fa THEN "failed" ELSE "skipped"
           r == [Idle EXCEPT !.agent = agent, !.transport = transport, !.d = d,
                   !.faulted = fa, !.lookup = lk, !.pc = pc]
<1>2. /\ cfg.configErr \in BOOLEAN /\ unidentified \in BOOLEAN /\ Enforcing(transport) \in BOOLEAN
  BY DEF Inv2, Inv, TypeOK, Config, Enforcing
<1>3. /\ StartDecision \in Decision /\ StartDecision.action = "allow"
      /\ ~StartDecision.countable /\ ~StartDecision.dryRun /\ StartDecision.mode = "deterministic"
      /\ {"config", "identity"} \subseteq CheckStages
  BY StartDecisionType DEF StartDecision, CheckStages
<1>4. /\ d \in Decision /\ ~d.dryRun /\ d.mode = "deterministic" /\ ~d.countable
      /\ d.action \in {"allow", Indeterminate}
      /\ cfg.configErr => ~Allowed(d)
  <2> HIDE DEF unidentified
  <2>1. CASE cfg.configErr
    BY <1>2, <1>3, <2>1, MarkCheckFailureType, MarkKeeps DEF SameCredit
  <2>2. CASE ~cfg.configErr /\ unidentified
    <3>1. d = MarkCheckFailureEnforced(StartDecision, "identity", Enforcing(transport))
      BY <2>2 DEF MarkCheckFailure
    <3> HIDE DEF d
    <3> QED
      BY <1>2, <1>3, <2>2, <3>1, MarkCheckFailureType, MarkKeeps DEF SameCredit
  <2>3. CASE ~cfg.configErr /\ ~unidentified
    BY <1>3, <2>3
  <2> QED
    BY <2>1, <2>2, <2>3
<1> HIDE DEF d
<1>5. /\ pc \in {"defer", "trust", "static"} /\ (pc = "defer" <=> ~Allowed(d))
      /\ pc = "static" => (cfg.checker = "none" \/ agent = NoAgent)
  OBVIOUS
<1>6. ~Allowed(d) => d.action = Indeterminate
  BY <1>4 DEF Allowed
<1> HIDE DEF pc
<1>7. fa \in BOOLEAN /\ lk \in {"failed", "skipped"}
  BY <1>2
<1>8. ~Allowed(d) => fa
  <2> SUFFICES ASSUME ~fa PROVE Allowed(d)
    OBVIOUS
  <2>1. d = StartDecision
    BY DEF d
  <2> QED
    BY <1>3, <2>1 DEF Allowed
<1> HIDE DEF fa, lk
<1>9. /\ r \in Evaluation /\ r.d = d /\ r.pc = pc /\ r.agent = agent /\ r.floor = 0
      /\ r.faulted = fa /\ r.lookup = lk
  <2>1. Idle \in Evaluation /\ pc \in PCs /\ Idle.floor = 0
    BY <1>5, IdleType DEF PCs, Idle
  <2> QED
    BY <1>4, <1>7, <2>1 DEF Evaluation
<1>10. Set(e, r)
  BY <1>1 DEF d, pc, fa, lk
<1> HIDE DEF r
<1>11. FloorKept(r) /\ LabelEarned(r) /\ LogTrue(r)
  BY <1>4, <1>5, <1>9, SeverityBounded
     DEF FloorKept, LabelEarned, Earned, LogTrue, Running, Returned, Allowed, Indeterminate
<1>12. CountableDenies(r)
  BY <1>4, <1>5, <1>8, <1>9 DEF CountableDenies, Running
<1>13. AdmissionSeen(r)
  BY <1>4, <1>5, <1>7, <1>8, <1>9 DEF AdmissionSeen, Unsettled
<1> QED
  BY <1>7, <1>9, <1>10, <1>11, <1>12, <1>13 DEF EvInv2, Begin

\* Stage 1: a call goes on only when its agent is not blocked, and only as an
\* allow.
LEMMA CheckTrustStep ==
  ASSUME Inv2, NEW e \in Evals, CheckTrust(e)
  PROVE  \E q \in Evaluation :
           /\ Set(e, q) /\ EvInv2(q)
           /\ ev[e].pc = "trust" /\ ev[e].agent \in Agents /\ q.agent = ev[e].agent
           /\ q.pc \in {"static", "defer"}
           /\ q.lookup = "ok" => q.d.trustState = trust[ev[e].agent].state
<1>0. PICK fault \in LookupFaults :
        LET state == trust[ev[e].agent].state
            found == [ev[e].d EXCEPT !.trustState = state]
            d == IF fault THEN MarkCheckFailure(ev[e].d, "trust", ev[e].transport)
                 ELSE IF Blocked(state)
                      THEN [found EXCEPT !.action = "deny", !.reason = "agent_blocked"]
                      ELSE found
        IN  Set(e, [ev[e] EXCEPT !.d = d, !.faulted = @ \/ fault,
                      !.lookup = IF fault THEN "failed" ELSE "ok",
                      !.floor = Raise(@, VerdictRank(IF fault THEN "allow" ELSE d.action)),
                      !.pc = IF Allowed(d) THEN "static" ELSE "defer"])
  BY DEF CheckTrust
<1> DEFINE state == trust[ev[e].agent].state
           found == [ev[e].d EXCEPT !.trustState = state]
           blocked == [found EXCEPT !.action = "deny", !.reason = "agent_blocked"]
           d == IF fault THEN MarkCheckFailure(ev[e].d, "trust", ev[e].transport)
                ELSE IF Blocked(state) THEN blocked ELSE found
           fl == Raise(ev[e].floor, VerdictRank(IF fault THEN "allow" ELSE d.action))
           pc == IF Allowed(d) THEN "static" ELSE "defer"
           lk == IF fault THEN "failed" ELSE "ok"
           fa == ev[e].faulted \/ fault
           r == [ev[e] EXCEPT !.d = d, !.faulted = fa, !.lookup = lk, !.floor = fl, !.pc = pc]
<1>1. /\ ev[e] \in Evaluation /\ ev[e].d \in Decision /\ EvInv(ev[e]) /\ EvInv2(ev[e])
      /\ fault \in BOOLEAN /\ Enforcing(ev[e].transport) \in BOOLEAN /\ ev[e].pc = "trust"
  BY StageFacts2, FaultsAssumption DEF CheckTrust
<1>2. /\ state \in BreakerStates /\ ev[e].d = StartDecision /\ ~ev[e].faulted
      /\ ev[e].agent \in Agents /\ ev[e].floor = 0
  BY <1>1 DEF EvInv, EvInv2, FloorKept, Inv2, Inv, TypeOK, AgentTrust
<1>3. /\ ev[e].d.action = "allow" /\ ~ev[e].d.countable /\ ~ev[e].d.dryRun
      /\ ev[e].d.mode = "deterministic"
  BY <1>2 DEF StartDecision
<1>4. /\ found \in Decision /\ found.trustState = state /\ found.action = "allow"
      /\ ~found.countable /\ ~found.dryRun /\ found.mode = "deterministic"
  BY <1>1, <1>2, <1>3 DEF Decision, TrustStates
<1> HIDE DEF found
<1>5. /\ blocked \in Decision /\ blocked.action = "deny" /\ blocked.reason = "agent_blocked"
      /\ ~blocked.countable /\ ~blocked.dryRun /\ blocked.mode = "deterministic"
      /\ blocked.trustState = state
  BY <1>4 DEF Decision, Actions, Verdicts, Reasons
<1> HIDE DEF blocked
<1>6. /\ d \in Decision /\ ~d.dryRun /\ d.mode = "deterministic" /\ ~d.countable
      /\ d.action \in {"allow", "deny", Indeterminate}
      /\ fault => d.action # "deny"
      /\ fault /\ Enforcing(ev[e].transport) => ~Allowed(d)
      /\ ~fault => /\ d.trustState = state
                   /\ Blocked(state) => d.action = "deny" /\ d.reason = "agent_blocked"
  <2>1. CASE fault
    <3>1. d = MarkCheckFailureEnforced(ev[e].d, "trust", Enforcing(ev[e].transport))
      BY <2>1 DEF MarkCheckFailure
    <3>2. "trust" \in CheckStages
      BY DEF CheckStages
    <3> HIDE DEF d
    <3> QED
      BY <1>1, <1>3, <2>1, <3>1, <3>2, MarkCheckFailureType, MarkKeeps DEF SameCredit, Indeterminate
  <2>2. CASE ~fault
    BY <1>4, <1>5, <2>2
  <2> QED
    BY <2>1, <2>2
<1> HIDE DEF d
<1>7. /\ pc \in {"static", "defer"} /\ (pc = "static" <=> Allowed(d))
      /\ lk \in {"failed", "ok"} /\ (lk = "failed" <=> fault) /\ fa = fault
  BY <1>1, <1>2
<1>8. fl \in 0..4 /\ Severity(d.action) >= fl /\ (Allowed(d) => fl = 0)
  <2>1. VerdictRank("allow") = 0
    BY DEF VerdictRank
  <2>2. Allowed(d) => d.action = "allow"
    BY <1>6 DEF Allowed, Indeterminate
  <2> QED
    BY <1>2, <2>1, <2>2, SeverityBounded, RanksBounded DEF Raise
<1>9. LookupsBlock /\ fault => ~Allowed(d)
  <2> SUFFICES ASSUME LookupsBlock, fault PROVE Enforcing(ev[e].transport)
    BY <1>6
  <2>1. cfg.nonEnforcing = {}
    BY DEF LookupsBlock, Inv2
  <2> QED
    BY <2>1 DEF Enforcing
<1> HIDE DEF fl, pc, lk, fa
<1>10. /\ r \in Evaluation /\ r.d = d /\ r.pc = pc /\ r.agent = ev[e].agent
       /\ r.faulted = fault /\ r.lookup = lk /\ r.floor = fl
  BY <1>1, <1>6, <1>7, <1>8 DEF Evaluation, PCs
<1>11. Set(e, r)
  BY <1>0 DEF d, fl, pc, lk, fa, found, blocked
<1> HIDE DEF r
<1>12. FloorKept(r)
  BY <1>6, <1>7, <1>8, <1>10 DEF FloorKept, Returned, Allowed, Indeterminate
<1>13. LabelEarned(r) /\ LogTrue(r)
  BY <1>6, <1>7, <1>10 DEF LabelEarned, Earned, LogTrue, Returned
<1>14. CountableDenies(r)
  <2>1. ~cfg.configErr
    BY <1>1 DEF EvInv2, CountableDenies, Running
  <2> QED
    BY <1>6, <1>10, <2>1 DEF CountableDenies
<1>15. AdmissionSeen(r)
  BY <1>6, <1>7, <1>9, <1>10 DEF AdmissionSeen, Unsettled, Allowed
<1>16. r.lookup = "ok" => r.d.trustState = trust[ev[e].agent].state
  BY <1>6, <1>7, <1>10
<1> HIDE DEF state
<1> QED
  BY <1>1, <1>2, <1>7, <1>10, <1>11, <1>12, <1>13, <1>14, <1>15, <1>16 DEF EvInv2

\* Stage 2: the winner's verdict covers every matching rule.
LEMMA StaticRulesStep ==
  ASSUME Inv2, NEW e \in Evals, StaticRules(e)
  PROVE  \E q \in Evaluation : Set(e, q) /\ EvInv2(q) /\ Staged(e, q) /\ ev[e].pc = "static"
<1>0. PICK rules \in RuleMatches :
        LET d == IF rules = <<>> THEN ev[e].d ELSE ApplyWinner(ev[e].d, Winner(rules))
        IN  Set(e, [ev[e] EXCEPT !.d = d, !.floor = Raise(@, StrictestRule(rules)),
                      !.pc = IF d.action = "deny" THEN "defer" ELSE "interceptor"])
  BY DEF StaticRules
<1> DEFINE d == IF rules = <<>> THEN ev[e].d ELSE ApplyWinner(ev[e].d, Winner(rules))
           fl == Raise(ev[e].floor, StrictestRule(rules))
           pc == IF d.action = "deny" THEN "defer" ELSE "interceptor"
           r == [ev[e] EXCEPT !.d = d, !.floor = fl, !.pc = pc]
<1>1. /\ ev[e] \in Evaluation /\ ev[e].d \in Decision /\ EvInv(ev[e]) /\ EvInv2(ev[e])
      /\ ev[e].pc = "static" /\ rules \in Seq(Rule)
  BY StageFacts2, InputsAssumption DEF StaticRules
<1>2. /\ ev[e].d.action = "allow" /\ ev[e].d.mode = "deterministic" /\ ev[e].floor = 0
      /\ ~ev[e].d.dryRun /\ ~ev[e].d.countable
  BY <1>1 DEF EvInv, EvInv2, FloorKept, Running, Returned
<1>3. StrictestRule(rules) \in 0..4 /\ fl = StrictestRule(rules)
  BY <1>2, StrictestRuleType DEF Raise
<1>4. /\ d \in Decision /\ d.countable = ev[e].d.countable /\ ~d.dryRun /\ Earned(d)
      /\ d.trustState = ev[e].d.trustState /\ Severity(d.action) >= fl
  <2>1. CASE rules = <<>>
    <3>1. StrictestRule(rules) = 0
      BY <2>1, StrictestRuleType
    <3> QED
      BY <1>1, <1>2, <1>3, <2>1, <3>1, SeverityBounded DEF Earned
  <2>2. CASE rules # <<>>
    <3> DEFINE w == Winner(rules)
    <3>1. w \in Rule /\ StrictestRule(rules) <= VerdictRank(RuleVerdict(w))
      BY <1>1, <2>2, WinnerType, WinnerStrictest
    <3> HIDE DEF w
    <3>2. d = ApplyWinner(ev[e].d, w)
      BY <2>2 DEF w
    <3> HIDE DEF d
    <3>3. /\ d \in Decision /\ d.countable = ev[e].d.countable
          /\ d.trustState = ev[e].d.trustState
          /\ ~d.dryRun /\ Earned(d) /\ d.action = RuleVerdict(w)
      BY <1>1, <1>2, <3>1, <3>2, ApplyWinnerType, ApplyWinnerKeeps
    <3> QED
      BY <1>3, <3>1, <3>3, SeverityBounded, RanksBounded
  <2> QED
    BY <2>1, <2>2
<1> HIDE DEF d
<1>5. pc \in {"defer", "interceptor"}
  OBVIOUS
<1> HIDE DEF pc, fl
<1>6. /\ r \in Evaluation /\ r.d = d /\ r.pc = pc /\ r.agent = ev[e].agent /\ r.floor = fl
      /\ r.faulted = ev[e].faulted /\ r.lookup = ev[e].lookup
  BY <1>1, <1>3, <1>4, <1>5 DEF Evaluation, PCs
<1>7. Set(e, r)
  BY <1>0 DEF d, fl, pc
<1> HIDE DEF r
<1>8. FloorKept(r) /\ LabelEarned(r) /\ LogTrue(r)
  BY <1>4, <1>5, <1>6 DEF FloorKept, LabelEarned, Earned, LogTrue, Returned
<1>9. CountableDenies(r)
  BY <1>1, <1>2, <1>4, <1>6 DEF EvInv2, CountableDenies, Running
<1>10. AdmissionSeen(r)
  BY <1>1, <1>4, <1>5, <1>6 DEF EvInv2, AdmissionSeen, Unsettled
<1> QED
  BY <1>1, <1>4, <1>5, <1>6, <1>7, <1>8, <1>9, <1>10 DEF EvInv2, Staged, Unsettled

\* Stage 3: the interceptor's verdict is kept if it is the stricter one.
LEMMA RunInterceptorStep ==
  ASSUME Inv2, NEW e \in Evals, RunInterceptor(e)
  PROVE  \E q \in Evaluation : Set(e, q) /\ EvInv2(q) /\ Staged(e, q) /\ ev[e].pc = "interceptor"
<1>0. PICK i \in InterceptorResults :
        LET action  == IF i.action = "" THEN "deny" ELSE i.action
            invalid == \/ i.kind = "error"
                       \/ i.kind = "block" /\ action \notin Verdicts \ {"allow"}
            d == IF invalid THEN MarkCheckFailure(ev[e].d, "interceptor", ev[e].transport)
                 ELSE IF i.kind = "block" THEN AdoptStricter(ev[e].d, action, i.reason)
                 ELSE ev[e].d
            over == (invalid /\ ~Allowed(d)) \/ d.action = "deny"
        IN  Set(e, [ev[e] EXCEPT !.d = d, !.faulted = @ \/ invalid,
                      !.floor = IF i.kind = "block" /\ ~invalid
                                THEN Raise(@, VerdictRank(action)) ELSE @,
                      !.pc = IF over THEN "defer" ELSE "policy"])
  BY DEF RunInterceptor
<1> DEFINE action  == IF i.action = "" THEN "deny" ELSE i.action
           invalid == \/ i.kind = "error"
                      \/ i.kind = "block" /\ action \notin Verdicts \ {"allow"}
           d == IF invalid THEN MarkCheckFailure(ev[e].d, "interceptor", ev[e].transport)
                ELSE IF i.kind = "block" THEN AdoptStricter(ev[e].d, action, i.reason)
                ELSE ev[e].d
           over == (invalid /\ ~Allowed(d)) \/ d.action = "deny"
           fl == IF i.kind = "block" /\ ~invalid
                 THEN Raise(ev[e].floor, VerdictRank(action)) ELSE ev[e].floor
           fa == ev[e].faulted \/ invalid
           pc == IF over THEN "defer" ELSE "policy"
           r == [ev[e] EXCEPT !.d = d, !.faulted = fa, !.floor = fl, !.pc = pc]
<1>1. /\ ev[e] \in Evaluation /\ ev[e].d \in Decision /\ EvInv(ev[e]) /\ EvInv2(ev[e])
      /\ Enforcing(ev[e].transport) \in BOOLEAN /\ ev[e].floor \in 0..4
      /\ ev[e].pc = "interceptor" /\ i \in InterceptorResult
  BY StageFacts2, InputsAssumption DEF RunInterceptor
<1>2. /\ ev[e].d.action # Indeterminate /\ ev[e].faulted \in BOOLEAN /\ ~ev[e].d.countable
      /\ ~ev[e].d.dryRun /\ Earned(ev[e].d) /\ Severity(ev[e].d.action) >= ev[e].floor
  BY <1>1 DEF EvInv, EvInv2, FloorKept, LabelEarned, Running, Returned, Evaluation
<1>3. invalid \in BOOLEAN /\ i.reason \in Reasons /\ "interceptor" \in CheckStages
  BY <1>1 DEF InterceptorResult, Reasons, CheckStages
<1>4. /\ d \in Decision /\ d.trustState = ev[e].d.trustState /\ ~d.countable
      /\ ~d.dryRun /\ Earned(d) /\ Severity(d.action) >= fl /\ fl \in 0..4
  <2>1. CASE invalid
    <3>1. d = MarkCheckFailureEnforced(ev[e].d, "interceptor", Enforcing(ev[e].transport))
      BY <2>1 DEF MarkCheckFailure
    <3>2. fl = ev[e].floor
      BY <2>1
    <3> HIDE DEF d, invalid, fl
    <3>3. /\ d \in Decision /\ d.trustState = ev[e].d.trustState /\ d.countable = ev[e].d.countable
          /\ d.dryRun = ev[e].d.dryRun /\ SameCredit(d, ev[e].d)
          /\ Severity(d.action) >= Severity(ev[e].d.action)
      BY <1>1, <1>3, <3>1, MarkCheckFailureType, MarkKeeps
    <3> QED
      BY <1>1, <1>2, <3>2, <3>3, CreditEarned, SeverityBounded
  <2>2. CASE ~invalid /\ i.kind = "block"
    <3>1. action \in Verdicts
      BY <2>2
    <3>2. d = AdoptStricter(ev[e].d, action, i.reason) /\ fl = Raise(ev[e].floor, VerdictRank(action))
      BY <2>2
    <3> HIDE DEF d, action, invalid, fl
    <3>3. /\ d \in Decision /\ d.trustState = ev[e].d.trustState
          /\ d.countable = ev[e].d.countable /\ d.dryRun = ev[e].d.dryRun /\ SameCredit(d, ev[e].d)
          /\ Severity(d.action) >= Severity(ev[e].d.action)
          /\ Severity(d.action) >= VerdictRank(action)
      BY <1>1, <1>2, <1>3, <3>1, <3>2, AdoptStricterType, AdoptKeeps
    <3>4. fl \in 0..4 /\ Severity(d.action) >= fl
      BY <1>1, <1>2, <3>2, <3>3, SeverityBounded, RanksBounded DEF Raise
    <3> QED
      BY <1>2, <3>3, <3>4, CreditEarned
  <2>3. CASE ~invalid /\ i.kind # "block"
    BY <1>1, <1>2, <2>3
  <2> QED
    BY <2>1, <2>2, <2>3
<1> HIDE DEF d, fl
<1>5. pc \in {"defer", "policy"} /\ fa \in BOOLEAN
  BY <1>2, <1>3
<1> HIDE DEF pc, invalid, fa
<1>6. /\ r \in Evaluation /\ r.d = d /\ r.pc = pc /\ r.agent = ev[e].agent /\ r.floor = fl
      /\ r.lookup = ev[e].lookup
  BY <1>1, <1>4, <1>5 DEF Evaluation, PCs
<1>7. Set(e, r)
  BY <1>0 DEF d, fl, pc, invalid, fa
<1> HIDE DEF r
<1>8. FloorKept(r) /\ LabelEarned(r) /\ LogTrue(r)
  BY <1>4, <1>5, <1>6 DEF FloorKept, LabelEarned, Earned, LogTrue, Returned
<1>9. CountableDenies(r)
  BY <1>1, <1>4, <1>6 DEF EvInv2, CountableDenies, Running
<1>10. AdmissionSeen(r)
  BY <1>1, <1>4, <1>5, <1>6 DEF EvInv2, AdmissionSeen, Unsettled
<1> QED
  BY <1>1, <1>4, <1>5, <1>6, <1>7, <1>8, <1>9, <1>10 DEF EvInv2, Staged, Unsettled

\* Stage 4: the evaluator's verdict is kept, or the escalation seam is entered
\* with the verdict that stood before.
LEMMA EvaluatePolicyStep ==
  ASSUME Inv2, NEW e \in Evals, EvaluatePolicy(e)
  PROVE  \E q \in Evaluation : Set(e, q) /\ EvInv2(q) /\ Staged(e, q) /\ ev[e].pc = "policy"
<1> DEFINE d0 == ev[e].d
           tr == ev[e].transport
<1>0. PICK v \in PolicyResults :
        LET invalid == v.kind # "ok" \/ v.action = "bogus" \/ v.faulted
            noted == IF v.faulted THEN MarkCheckFailure(d0, "policy_eval", tr) ELSE d0
            r == [ev[e] EXCEPT !.faulted = @ \/ invalid, !.matched = v.matched]
        IN  \/ /\ EntersEscalation(d0, v, tr)
               /\ Set(e, [r EXCEPT
                     !.prior = noted,
                     !.d = [AdoptStricter(noted, "escalate", v.reason) EXCEPT !.mode = "classified"],
                     !.pc = "escalate"])
            \/ /\ ~EntersEscalation(d0, v, tr)
               /\ Set(e, [r EXCEPT
                     !.d = IF v.kind = "ok" THEN ApplyPolicyResult(d0, v, tr)
                           ELSE MarkCheckFailure(d0, "policy_eval", tr),
                     !.floor = IF v.kind = "ok" /\ (~v.faulted \/ v.action = "deny")
                               THEN Raise(@, VerdictRank(v.action)) ELSE @,
                     !.pc = "defer"])
  BY DEF EvaluatePolicy, Escalated
<1> DEFINE invalid == v.kind # "ok" \/ v.action = "bogus" \/ v.faulted
           noted == IF v.faulted THEN MarkCheckFailure(d0, "policy_eval", tr) ELSE d0
           fa == ev[e].faulted \/ invalid
           r == [ev[e] EXCEPT !.faulted = fa, !.matched = v.matched]
<1>1. /\ ev[e] \in Evaluation /\ d0 \in Decision /\ EvInv(ev[e]) /\ EvInv2(ev[e])
      /\ Enforcing(tr) \in BOOLEAN /\ ev[e].pc = "policy" /\ v \in PolicyResult
      /\ ev[e].floor \in 0..4
  BY StageFacts2, InputsAssumption DEF EvaluatePolicy
<1>2. /\ d0.action # Indeterminate /\ ev[e].faulted \in BOOLEAN /\ invalid \in BOOLEAN
      /\ v.reason \in Reasons /\ v.matched \in BOOLEAN /\ "policy_eval" \in CheckStages
      /\ v.faulted \in BOOLEAN /\ v.action \in Verdicts \cup {"bogus"}
  BY <1>1 DEF EvInv, Running, Evaluation, PolicyResult, Reasons, CheckStages
<1>3. /\ ~d0.countable /\ ~d0.dryRun /\ Earned(d0) /\ Severity(d0.action) >= ev[e].floor
      /\ ~cfg.configErr
      /\ ev[e].lookup = "ok" => ~Blocked(d0.trustState)
      /\ LookupsBlock /\ cfg.checker # "none" /\ ev[e].agent # NoAgent => ev[e].lookup = "ok"
  BY <1>1 DEF EvInv, EvInv2, FloorKept, LabelEarned, CountableDenies, AdmissionSeen, Running,
     Returned, Unsettled
<1>4. /\ r \in Evaluation /\ r.faulted = fa /\ r.lookup = ev[e].lookup /\ r.agent = ev[e].agent
      /\ r.floor = ev[e].floor
  BY <1>1, <1>2 DEF Evaluation
<1>5. LET m == MarkCheckFailure(d0, "policy_eval", tr)
      IN  /\ m \in Decision /\ m.trustState = d0.trustState /\ m.countable = d0.countable
          /\ ~Enforcing(tr) => m.action = d0.action
          /\ m.dryRun = d0.dryRun /\ SameCredit(m, d0)
          /\ Severity(m.action) >= Severity(d0.action)
  <2> HIDE DEF d0, tr, invalid, noted, fa, r
  <2>1. /\ MarkCheckFailure(d0, "policy_eval", tr) \in Decision
        /\ MarkCheckFailure(d0, "policy_eval", tr).trustState = d0.trustState
        /\ MarkCheckFailure(d0, "policy_eval", tr).countable = d0.countable
    BY <1>1, <1>2, MarkCheckFailureType DEF MarkCheckFailure
  <2>2. ~Enforcing(tr) => MarkCheckFailure(d0, "policy_eval", tr).action = d0.action
    BY <1>1, <1>2, MarkCheckFailureType DEF MarkCheckFailure
  <2>3. /\ MarkCheckFailure(d0, "policy_eval", tr).dryRun = d0.dryRun
        /\ SameCredit(MarkCheckFailure(d0, "policy_eval", tr), d0)
        /\ Severity(MarkCheckFailure(d0, "policy_eval", tr).action) >= Severity(d0.action)
    BY <1>1, <1>2, MarkKeeps DEF MarkCheckFailure
  <2> QED
    BY <2>1, <2>2, <2>3
<1>6. CASE EntersEscalation(d0, v, tr)
  <2> DEFINE a == AdoptStricter(noted, "escalate", v.reason)
             d == [a EXCEPT !.mode = "classified"]
             q == [r EXCEPT !.prior = noted, !.d = d, !.pc = "escalate"]
  <2>1. /\ Stricter(d0, "escalate") /\ (v.faulted => ~Enforcing(tr))
    BY <1>2, <1>6 DEF EntersEscalation
  <2>2. Allowed(d0)
    BY <1>1, <1>2, <2>1 DEF Stricter, VerdictRank, Allowed, Decision, Actions, Verdicts, Indeterminate
  <2>3. /\ noted \in Decision /\ noted.trustState = d0.trustState /\ noted.action = d0.action
        /\ ~noted.countable /\ ~noted.dryRun /\ Earned(noted)
    BY <1>1, <1>2, <1>3, <1>5, <2>1, CreditEarned
  <2> HIDE DEF noted
  <2>4. /\ a \in Decision /\ a.trustState = noted.trustState /\ a.dryRun = noted.dryRun
        /\ a.countable = noted.countable /\ a.action = "escalate"
    <3>1. Stricter(noted, "escalate") /\ noted.action # Indeterminate /\ "escalate" \in Verdicts
      BY <1>2, <2>1, <2>3 DEF Stricter, Verdicts
    <3> QED
      BY <1>2, <2>3, <3>1, AdoptStricterType, AdoptKeeps
  <2> HIDE DEF a
  <2>5. /\ d \in Decision /\ d.trustState = d0.trustState /\ ~d.dryRun
        /\ ~d.countable /\ d.action = "escalate" /\ d.mode = "classified"
    BY <2>3, <2>4 DEF Decision, Modes
  <2> HIDE DEF d, r
  <2>6. /\ q \in Evaluation /\ q.d = d /\ q.prior = noted /\ q.pc = "escalate"
        /\ q.agent = ev[e].agent /\ q.lookup = ev[e].lookup /\ q.floor = ev[e].floor
    BY <1>4, <2>3, <2>5 DEF Evaluation, PCs
  <2>7. Set(e, q)
    BY <1>0, <1>6 DEF d, a, noted, r
  <2> HIDE DEF q, fa
  <2>8. FloorKept(q) /\ LabelEarned(q) /\ LogTrue(q)
    BY <1>3, <2>2, <2>3, <2>5, <2>6 DEF FloorKept, LabelEarned, Earned, LogTrue, Returned, Allowed
  <2>9. CountableDenies(q) /\ AdmissionSeen(q)
    BY <1>3, <2>5, <2>6 DEF CountableDenies, AdmissionSeen
  <2> QED
    BY <1>1, <2>5, <2>6, <2>7, <2>8, <2>9 DEF EvInv2, Staged, Unsettled
<1>7. CASE ~EntersEscalation(d0, v, tr)
  <2> DEFINE d == IF v.kind = "ok" THEN ApplyPolicyResult(d0, v, tr)
                  ELSE MarkCheckFailure(d0, "policy_eval", tr)
             fl == IF v.kind = "ok" /\ (~v.faulted \/ v.action = "deny")
                   THEN Raise(r.floor, VerdictRank(v.action)) ELSE r.floor
             q == [r EXCEPT !.d = d, !.floor = fl, !.pc = "defer"]
  <2>1. /\ d \in Decision /\ d.trustState = d0.trustState /\ ~d.dryRun /\ Earned(d)
        /\ d.countable => d.action = "deny"
        /\ Severity(d.action) >= ev[e].floor
        /\ v.kind = "ok" /\ (~v.faulted \/ v.action = "deny") =>
             Severity(d.action) >= VerdictRank(v.action)
    <3>1. CASE v.kind = "ok"
      <4>1. d = ApplyPolicyResult(d0, v, tr)
        BY <3>1
      <4> HIDE DEF d
      <4>2. /\ d \in Decision /\ d.trustState = d0.trustState
        BY <1>1, <1>2, <4>1, ApplyPolicyResultType
      <4>3. /\ d.dryRun = d0.dryRun /\ Earned(d) /\ (d.countable => d.action = "deny")
            /\ Severity(d.action) >= Severity(d0.action)
            /\ ~v.faulted \/ v.action = "deny" => Severity(d.action) >= VerdictRank(v.action)
        BY <1>1, <1>2, <1>3, <4>1, ApplyPolicyResultKeeps
      <4> QED
        BY <1>1, <1>3, <4>2, <4>3, SeverityBounded
    <3>2. CASE v.kind # "ok"
      BY <1>1, <1>3, <1>5, <3>2, CreditEarned, SeverityBounded
    <3> QED
      BY <3>1, <3>2
  <2> HIDE DEF d
  <2>2. fl \in 0..4 /\ Severity(d.action) >= fl
    BY <1>1, <1>4, <2>1, SeverityBounded, RanksBounded DEF Raise
  <2> HIDE DEF fl
  <2>3. /\ q \in Evaluation /\ q.d = d /\ q.pc = "defer" /\ q.agent = ev[e].agent
        /\ q.lookup = ev[e].lookup /\ q.floor = fl
    <3> HIDE DEF r
    <3> QED
      BY <1>4, <2>1, <2>2 DEF Evaluation, PCs
  <2>4. Set(e, q)
    BY <1>0, <1>7 DEF d, fl
  <2> HIDE DEF q, fa
  <2>5. FloorKept(q) /\ LabelEarned(q) /\ LogTrue(q)
    BY <2>1, <2>2, <2>3 DEF FloorKept, LabelEarned, Earned, LogTrue, Returned
  <2>6. CountableDenies(q) /\ AdmissionSeen(q)
    BY <1>3, <2>1, <2>3 DEF CountableDenies, AdmissionSeen
  <2> QED
    BY <1>1, <2>1, <2>3, <2>4, <2>5, <2>6 DEF EvInv2, Staged, Unsettled
<1> QED
  BY <1>6, <1>7

\* The escalation seam: the verdict that stood before is a floor for the
\* handler's; a panic leaves the escalation itself.
LEMMA ResolveEscalationStep ==
  ASSUME Inv2, NEW e \in Evals, ResolveEscalation(e)
  PROVE  \E q \in Evaluation : Set(e, q) /\ EvInv2(q) /\ Staged(e, q) /\ ev[e].pc = "escalate"
<1>0. PICK h \in EscalationResults :
        LET resolved == RelayResolution(ev[e].d, h)
            lowered  == VerdictRank(resolved.action) < VerdictRank(ev[e].prior.action)
            d == IF lowered THEN RestoreVerdict(resolved, ev[e].prior) ELSE resolved
        IN  IF h.kind = "panic"
            THEN Set(e, [ev[e] EXCEPT !.panicked = TRUE, !.pc = "defer"])
            ELSE Set(e, [ev[e] EXCEPT
                      !.d = CreditEvaluator(d, ev[e].matched, ~lowered),
                      !.relayed = TRUE,
                      !.floor = Raise(@, VerdictRank(IF h.kind = "ok" THEN h.action ELSE "deny")),
                      !.pc = "defer"])
  BY DEF ResolveEscalation
<1> DEFINE resolved == RelayResolution(ev[e].d, h)
           lowered  == VerdictRank(resolved.action) < VerdictRank(ev[e].prior.action)
           d1 == IF lowered THEN RestoreVerdict(resolved, ev[e].prior) ELSE resolved
           d  == CreditEvaluator(d1, ev[e].matched, ~lowered)
           hr == VerdictRank(IF h.kind = "ok" THEN h.action ELSE "deny")
           fl == Raise(ev[e].floor, hr)
           p == [ev[e] EXCEPT !.panicked = TRUE, !.pc = "defer"]
           q == [ev[e] EXCEPT !.d = d, !.relayed = TRUE, !.floor = fl, !.pc = "defer"]
<1>1. /\ ev[e] \in Evaluation /\ ev[e].d \in Decision /\ EvInv(ev[e]) /\ EvInv2(ev[e])
      /\ ev[e].pc = "escalate" /\ h \in EscalationResult /\ ev[e].prior \in Decision
      /\ ev[e].floor \in 0..4
  BY StageFacts2, InputsAssumption DEF ResolveEscalation, Evaluation
<1>2. /\ ~ev[e].d.countable /\ ~ev[e].d.dryRun /\ ev[e].d.mode # "proved"
      /\ ev[e].d.action = "escalate" /\ Allowed(ev[e].prior) /\ Earned(ev[e].prior)
      /\ Severity(ev[e].prior.action) >= ev[e].floor /\ ~cfg.configErr
      /\ Earned(ev[e].d) \/ ev[e].relayed
      /\ ev[e].lookup = "ok" => ~Blocked(ev[e].d.trustState)
      /\ LookupsBlock /\ cfg.checker # "none" /\ ev[e].agent # NoAgent => ev[e].lookup = "ok"
  BY <1>1 DEF EvInv, EvInv2, FloorKept, LabelEarned, CountableDenies, AdmissionSeen, Running,
     Returned, Unsettled
<1>3. Severity("escalate") >= Severity(ev[e].prior.action) /\ ev[e].prior.action \in Verdicts
  BY <1>2 DEF Allowed, Severity, VerdictRank, Indeterminate, Verdicts
<1>4. CASE h.kind = "panic"
  <2>1. /\ p \in Evaluation /\ p.d = ev[e].d /\ p.pc = "defer" /\ p.floor = ev[e].floor
        /\ p.agent = ev[e].agent /\ p.lookup = ev[e].lookup /\ p.relayed = ev[e].relayed
    BY <1>1 DEF Evaluation, PCs
  <2>2. Set(e, p)
    BY <1>0, <1>4
  <2> HIDE DEF p
  <2>3. FloorKept(p) /\ LabelEarned(p) /\ LogTrue(p)
    BY <1>1, <1>2, <1>3, <2>1, SeverityBounded DEF FloorKept, LabelEarned, LogTrue, Returned, Running
  <2>4. CountableDenies(p) /\ AdmissionSeen(p)
    BY <1>2, <2>1 DEF CountableDenies, AdmissionSeen
  <2> QED
    BY <1>1, <2>1, <2>2, <2>3, <2>4 DEF EvInv2, Staged, Unsettled
<1>5. CASE h.kind # "panic"
  <2>1. /\ resolved \in Decision /\ resolved.countable = ev[e].d.countable
        /\ resolved.trustState = ev[e].d.trustState /\ ~resolved.dryRun
        /\ resolved.mode # "proved" /\ resolved.action \in Verdicts
        /\ VerdictRank(resolved.action) >= hr
    BY <1>1, <1>2, RelayResolutionType, RelayKeeps
  <2>2. hr \in 0..4
    BY RanksBounded
  <2> HIDE DEF resolved, hr
  <2>3. LET x == RestoreVerdict(resolved, ev[e].prior)
        IN  x.dryRun = resolved.dryRun /\ x.mode = ev[e].prior.mode /\ x.action = ev[e].prior.action
    BY <2>1 DEF RestoreVerdict, Decision
  <2>4. /\ d1 \in Decision /\ d1.countable = ev[e].d.countable /\ ~d1.dryRun
        /\ d1.trustState = ev[e].d.trustState /\ d1.mode # "proved"
        /\ d1.action \in Verdicts
        /\ VerdictRank(d1.action) >= hr
        /\ VerdictRank(d1.action) >= VerdictRank(ev[e].prior.action)
    <3>1. CASE lowered
      <4>1. d1 = RestoreVerdict(resolved, ev[e].prior)
        BY <3>1
      <4>2. VerdictRank(ev[e].prior.action) >= hr
        BY <2>1, <2>2, <3>1, RanksBounded
      <4>3. VerdictRank(ev[e].prior.action) >= VerdictRank(ev[e].prior.action)
        BY RanksBounded
      <4> HIDE DEF d1, lowered
      <4> QED
        BY <1>1, <1>2, <1>3, <2>1, <2>3, <4>1, <4>2, <4>3, RestoreVerdictType DEF Earned
    <3>2. CASE ~lowered
      <4>1. d1 = resolved /\ VerdictRank(resolved.action) >= VerdictRank(ev[e].prior.action)
        BY <3>2, RanksBounded
      <4> HIDE DEF d1, lowered
      <4> QED
        BY <2>1, <4>1
    <3> QED
      BY <3>1, <3>2
  <2> HIDE DEF d1, lowered
  <2>5. /\ d \in Decision /\ d.countable = ev[e].d.countable /\ d.action = d1.action
        /\ d.trustState = ev[e].d.trustState /\ d.mode = d1.mode /\ ~d.dryRun
    BY <2>4 DEF CreditEvaluator, Decision
  <2>6. fl \in 0..4 /\ Severity(d.action) >= fl
    BY <1>1, <1>2, <1>3, <2>2, <2>4, <2>5, SeverityBounded, RanksBounded DEF Raise
  <2> HIDE DEF d, fl
  <2>7. /\ q \in Evaluation /\ q.d = d /\ q.pc = "defer" /\ q.relayed = TRUE /\ q.floor = fl
        /\ q.agent = ev[e].agent /\ q.lookup = ev[e].lookup
    BY <1>1, <2>5, <2>6 DEF Evaluation, PCs
  <2>8. Set(e, q)
    BY <1>0, <1>5 DEF d, d1, resolved, fl, hr, lowered
  <2> HIDE DEF q
  <2>9. FloorKept(q) /\ LabelEarned(q) /\ LogTrue(q)
    BY <2>4, <2>5, <2>6, <2>7 DEF FloorKept, LabelEarned, LogTrue, Returned, Running
  <2>10. CountableDenies(q) /\ AdmissionSeen(q)
    BY <1>2, <2>5, <2>7 DEF CountableDenies, AdmissionSeen
  <2> QED
    BY <1>1, <2>5, <2>7, <2>8, <2>9, <2>10 DEF EvInv2, Staged, Unsettled
<1> QED
  BY <1>4, <1>5

\* The deferred update keeps the label and never lowers the verdict.
LEMMA AfterTrustUpdateKeeps ==
  ASSUME NEW d \in Decision, NEW state \in BreakerStates
  PROVE  LET r == AfterTrustUpdate(d, state)
         IN  /\ r.dryRun = d.dryRun /\ r.mode = d.mode /\ r.rule = d.rule
             /\ Severity(r.action) >= Severity(d.action)
<1> DEFINE seen == [d EXCEPT !.trustState = state]
           iso == [seen EXCEPT !.action = "deny", !.reason = "agent_blocked"]
           deg == [seen EXCEPT !.action = "require_approval", !.reason = "degraded"]
<1>1. /\ seen.dryRun = d.dryRun /\ seen.mode = d.mode /\ seen.rule = d.rule /\ seen.action = d.action
  BY DEF Decision
<1>2. /\ iso.dryRun = d.dryRun /\ iso.mode = d.mode /\ iso.rule = d.rule /\ iso.action = "deny"
  BY DEF Decision
<1>3. /\ deg.dryRun = d.dryRun /\ deg.mode = d.mode /\ deg.rule = d.rule
      /\ deg.action = "require_approval"
  BY DEF Decision
<1> HIDE DEF seen, iso, deg
<1>4. AfterTrustUpdate(d, state) =
        IF ~Allowed(d) THEN seen
        ELSE IF state = "ISOLATED" THEN iso
        ELSE IF state = "EVALUATING" THEN deg ELSE seen
  BY DEF AfterTrustUpdate, seen, iso, deg
<1>5. Allowed(d) => /\ Severity("deny") >= Severity(d.action)
                    /\ Severity("require_approval") >= Severity(d.action)
  BY DEF Allowed, Severity, VerdictRank, Indeterminate
<1> QED
  BY <1>1, <1>2, <1>3, <1>4, <1>5, SeverityBounded

\* Folding an outcome in only ever adds weight, and TRUSTED means the score
\* is not degraded (RecordDecision).
LEMMA RecordDecisionKeeps ==
  ASSUME NEW s \in AgentTrust, NEW action,
         s.alpha >= InitialAlpha, s.beta >= InitialBeta,
         s.state = "TRUSTED" => s = Unseen \/ ~ScoreBelow(s.alpha, s.beta, DegradedThreshold)
  PROVE  LET t == RecordDecision(s, action)
         IN  /\ t.alpha >= InitialAlpha /\ t.beta >= InitialBeta
             /\ t.state = "TRUSTED" =>
                  t = Unseen \/ ~ScoreBelow(t.alpha, t.beta, DegradedThreshold)
             /\ action \notin {"deny", Indeterminate} => t.beta <= s.beta + PartialBetaWeight
<1> DEFINE o == TrustOutcomeFromDecision(action)
           al == s.alpha + AlphaWeight(o)
           be == s.beta + BetaWeight(o, s.state)
           n == [known |-> TRUE, alpha |-> al, beta |-> be,
                 state |-> IF s.state = "TERMINATED" THEN "TERMINATED"
                           ELSE TrustStateFromScore(al, be)]
<1>1. AlphaWeight(o) \in Nat /\ BetaWeight(o, s.state) \in Nat
  BY TrustWeights DEF AlphaWeight, BetaWeight
<1>2. s.alpha \in Nat /\ s.beta \in Nat
  BY DEF AgentTrust
<1>3. al >= InitialAlpha /\ be >= InitialBeta
  BY <1>1, <1>2, TrustWeights
<1>4. action \notin {"deny", Indeterminate} => BetaWeight(o, s.state) <= PartialBetaWeight
  BY TrustWeights DEF TrustOutcomeFromDecision, BetaWeight
<1>5. TrustStateFromScore(al, be) = "TRUSTED" => ~ScoreBelow(al, be, DegradedThreshold)
  BY DEF TrustStateFromScore
<1>6. action \notin {"deny", Indeterminate} => be <= s.beta + PartialBetaWeight
  BY <1>1, <1>2, <1>4, TrustWeights
<1>7. s.beta <= s.beta + PartialBetaWeight
  BY <1>2, TrustWeights
<1>8. RecordDecision(s, action) = IF o = "neutral" THEN s ELSE n
  BY DEF RecordDecision
<1> HIDE DEF o, al, be
<1>9. n.alpha = al /\ n.beta = be
      /\ (n.state = "TRUSTED" => TrustStateFromScore(al, be) = "TRUSTED")
  OBVIOUS
<1> HIDE DEF n
<1> QED
  BY <1>3, <1>5, <1>6, <1>7, <1>8, <1>9

\* The deferred trust update: the backend moves only for a decision that
\* counts, and by that decision.
LEMMA UpdateTrustStep ==
  ASSUME Inv2, NEW e \in Evals, UpdateTrust(e)
  PROVE  /\ \E q \in Evaluation : Set(e, q) /\ EvInv2(q) /\ q.pc = "audit"
         /\ ev[e].pc = "defer" /\ TrustInv'
         /\ \/ trust' = trust
            \/ /\ FeedsTrust(ev[e]) /\ ev[e].agent \in Agents
               /\ trust' = [trust EXCEPT ![ev[e].agent] =
                              RecordDecision(trust[ev[e].agent], ev[e].d.action)]
<1>1. /\ ev[e] \in Evaluation /\ ev[e].d \in Decision /\ EvInv(ev[e]) /\ EvInv2(ev[e])
      /\ Enforcing(ev[e].transport) \in BOOLEAN
      /\ ev[e].pc = "defer" /\ ev[e].faulted \in BOOLEAN /\ ev[e].floor \in 0..4
  BY StageFacts2 DEF UpdateTrust
<1>2. /\ ~ev[e].d.dryRun /\ Severity(ev[e].d.action) >= ev[e].floor
      /\ ev[e].d.mode # "proved" /\ (Earned(ev[e].d) \/ ev[e].relayed)
  BY <1>1 DEF EvInv2, FloorKept, LabelEarned, Returned
<1>3. trust \in [Agents -> AgentTrust]
  BY DEF Inv2, Inv, TypeOK
<1>audit. ASSUME NEW q \in Evaluation, q.pc = "audit", ~q.d.dryRun, q.floor = ev[e].floor,
                 q.relayed = ev[e].relayed, Severity(q.d.action) >= Severity(ev[e].d.action),
                 SameCredit(q.d, ev[e].d)
          PROVE  EvInv2(q)
  <2>1. q.d.mode # "proved" /\ (Earned(q.d) \/ q.relayed)
    BY <1>2, <1>audit DEF SameCredit, Earned
  <2>2. Severity(q.d.action) >= q.floor
    BY <1>1, <1>2, <1>audit, SeverityBounded
  <2> QED
    BY <1>audit, <2>1, <2>2 DEF EvInv2, FloorKept, LabelEarned, LogTrue, CountableDenies,
       AdmissionSeen, Running, Returned, Unsettled
<1>4. CASE ~FeedsTrust(ev[e])
  <2> DEFINE r == [ev[e] EXCEPT !.pc = "audit"]
  <2>1. /\ r \in Evaluation /\ r.d = ev[e].d /\ r.pc = "audit" /\ r.floor = ev[e].floor
        /\ r.relayed = ev[e].relayed
    BY <1>1 DEF Evaluation, PCs
  <2>2. Set(e, r) /\ trust' = trust
    BY <1>4 DEF UpdateTrust
  <2> HIDE DEF r
  <2>3. EvInv2(r)
    BY <1>1, <1>2, <2>1, <1>audit, SeverityBounded DEF SameCredit
  <2> QED
    BY <1>1, <2>1, <2>2, <2>3, TrustUnchanged
<1>5. CASE FeedsTrust(ev[e])
  <2> DEFINE before == trust[ev[e].agent]
             after == RecordDecision(before, ev[e].d.action)
             m == MarkCheckFailure(ev[e].d, "trust_update", ev[e].transport)
             u == AfterTrustUpdate(ev[e].d, after.state)
             q == [ev[e] EXCEPT !.pc = "audit", !.faulted = TRUE, !.d = m]
             r == [ev[e] EXCEPT !.pc = "audit", !.d = u, !.transition = before.state # after.state]
  <2>1. PICK fault \in UpdateFaults :
          IF fault THEN Set(e, q) /\ UNCHANGED trust
                   ELSE Set(e, r) /\ trust' = [trust EXCEPT ![ev[e].agent] = after]
    BY <1>5 DEF UpdateTrust
  <2>2. ev[e].agent \in Agents
    BY <1>1, <1>5 DEF FeedsTrust, Evaluation
  <2>3. after \in AgentTrust /\ after.state \in BreakerStates
    BY <1>3, <2>2, RecordDecisionType DEF AgentTrust
  <2>4. CASE fault
    <3>1. /\ m \in Decision /\ m.dryRun = ev[e].d.dryRun /\ SameCredit(m, ev[e].d)
          /\ Severity(m.action) >= Severity(ev[e].d.action)
      BY <1>1, MarkCheckFailureType, MarkKeeps DEF MarkCheckFailure, CheckStages
    <3> HIDE DEF m
    <3>2. /\ q \in Evaluation /\ q.d = m /\ q.pc = "audit" /\ q.floor = ev[e].floor
          /\ q.relayed = ev[e].relayed
      BY <1>1, <3>1 DEF Evaluation, PCs
    <3> HIDE DEF q
    <3>3. EvInv2(q)
      BY <1>2, <3>1, <3>2, <1>audit
    <3> QED
      BY <1>1, <2>1, <2>4, <3>2, <3>3, TrustUnchanged
  <2>5. CASE ~fault
    <3>1. TrustInv'
      <4>1. before \in AgentTrust
        BY <1>3, <2>2
      <4>2. /\ before.alpha >= InitialAlpha /\ before.beta >= InitialBeta
            /\ before.state = "TRUSTED" =>
                 before = Unseen \/ ~ScoreBelow(before.alpha, before.beta, DegradedThreshold)
        BY <2>2 DEF Inv2, TrustInv
      <4> HIDE DEF before
      <4>3. /\ after.alpha >= InitialAlpha /\ after.beta >= InitialBeta
            /\ after.state = "TRUSTED" =>
                 after = Unseen \/ ~ScoreBelow(after.alpha, after.beta, DegradedThreshold)
        BY <4>1, <4>2, RecordDecisionKeeps
      <4> HIDE DEF after
      <4>4. \A a \in Agents : trust'[a] = IF a = ev[e].agent THEN after ELSE trust[a]
        BY <1>3, <2>1, <2>5
      <4> QED
        BY <4>3, <4>4 DEF Inv2, TrustInv
    <3>2. trust' = [trust EXCEPT ![ev[e].agent] = RecordDecision(trust[ev[e].agent], ev[e].d.action)]
      BY <2>1, <2>5
    <3> HIDE DEF after, before
    <3>3. /\ u \in Decision /\ u.dryRun = ev[e].d.dryRun /\ u.mode = ev[e].d.mode
          /\ u.rule = ev[e].d.rule /\ Severity(u.action) >= Severity(ev[e].d.action)
      BY <1>1, <2>3, AfterTrustUpdateType, AfterTrustUpdateKeeps
    <3> HIDE DEF u
    <3>4. /\ r \in Evaluation /\ r.d = u /\ r.pc = "audit" /\ r.floor = ev[e].floor
          /\ r.relayed = ev[e].relayed
      BY <1>1, <3>3 DEF Evaluation, PCs
    <3>5. Set(e, r)
      BY <2>1, <2>5
    <3> HIDE DEF r
    <3>6. EvInv2(r)
      BY <1>2, <3>3, <3>4, <1>audit DEF SameCredit
    <3> QED
      BY <1>1, <1>5, <2>2, <3>1, <3>2, <3>4, <3>5, <3>6
  <2> QED
    BY <2>4, <2>5
<1> QED
  BY <1>4, <1>5

\* The audit step publishes the verdict that would be enforced, once.
LEMMA EmitAuditStep ==
  ASSUME Inv2, NEW e \in Evals, EmitAudit(e)
  PROVE  \E q \in Evaluation : Set(e, q) /\ EvInv2(q) /\ q.pc = "return" /\ ev[e].pc = "audit"
<1> DEFINE x == DecisionEvent(ev[e].d)
           y == TransitionEvent(ev[e].d)
           log == IF ev[e].transition THEN <<x, y>> ELSE <<x>>
           r == [ev[e] EXCEPT !.pc = "return", !.log = log]
<1>1. ev[e] \in Evaluation /\ ev[e].d \in Decision /\ EvInv2(ev[e]) /\ ev[e].pc = "audit"
  BY StageFacts2 DEF EmitAudit
<1>2. x \in Event /\ y \in Event /\ x.type = "decision" /\ y.type = "trust_transition"
  BY <1>1 DEF DecisionEvent, TransitionEvent, Event, Decision, DryRunConverts
<1> HIDE DEF x, y
<1>3. log \in Seq(Event) /\ 1 \in DOMAIN log /\ log[1] = x
      /\ \A j \in DOMAIN log : log[j].type = "decision" <=> j = 1
  <2>1. CASE ev[e].transition
    <3>1. log = <<x, y>> /\ DOMAIN <<x, y>> = 1..2 /\ <<x, y>>[1] = x /\ <<x, y>>[2] = y
          /\ <<x, y>> \in Seq(Event)
      BY <1>2, <2>1
    <3>2. \A j \in 1..2 : j = 1 \/ j = 2
      OBVIOUS
    <3> HIDE DEF log
    <3> QED
      BY <1>2, <3>1, <3>2
  <2>2. CASE ~ev[e].transition
    <3>1. log = <<x>> /\ DOMAIN <<x>> = 1..1 /\ <<x>>[1] = x /\ <<x>> \in Seq(Event)
      BY <1>2, <2>2
    <3> HIDE DEF log
    <3> QED
      BY <1>2, <3>1
  <2> QED
    BY <2>1, <2>2
<1> HIDE DEF log
<1>4. /\ r \in Evaluation /\ r.d = ev[e].d /\ r.pc = "return" /\ r.log = log
      /\ r.floor = ev[e].floor /\ r.relayed = ev[e].relayed
  BY <1>1, <1>3 DEF Evaluation, PCs
<1>5. Set(e, r)
  BY DEF EmitAudit, log, x, y
<1> HIDE DEF r
<1>6. Published(r, x)
  BY <1>3, <1>4 DEF Published
<1>7. FloorKept(r) /\ LabelEarned(r)
  BY <1>1, <1>4 DEF EvInv2, FloorKept, LabelEarned, Returned, Running
<1>8. LogTrue(r)
  BY <1>4, <1>6 DEF LogTrue, Returned, x
<1>9. CountableDenies(r) /\ AdmissionSeen(r)
  BY <1>4 DEF CountableDenies, AdmissionSeen, Running, Unsettled
<1> QED
  BY <1>1, <1>4, <1>5, <1>7, <1>8, <1>9 DEF EvInv2

\* The dry-run conversion says so, and what was published says what it hid.
LEMMA ReturnStep ==
  ASSUME Inv2, NEW e \in Evals, Return(e)
  PROVE  \E q \in Evaluation : Set(e, q) /\ EvInv2(q) /\ q.pc \in Returned /\ ev[e].pc = "return"
<1> DEFINE conv == [ev[e].d EXCEPT !.action = "allow", !.dryRun = TRUE]
           d == IF DryRunConverts(ev[e].d) THEN conv ELSE ev[e].d
           pc == IF ev[e].panicked THEN "panicked" ELSE "done"
           r == [ev[e] EXCEPT !.pc = pc, !.d = d]
           x == DecisionEvent(ev[e].d)
<1>1. ev[e] \in Evaluation /\ ev[e].d \in Decision /\ EvInv2(ev[e]) /\ ev[e].pc = "return"
  BY StageFacts2 DEF Return
<1>2. /\ ~ev[e].d.dryRun /\ Severity(ev[e].d.action) >= ev[e].floor
      /\ ev[e].d.mode # "proved" /\ (Earned(ev[e].d) \/ ev[e].relayed)
      /\ Published(ev[e], x)
  BY <1>1 DEF EvInv2, FloorKept, LabelEarned, LogTrue, Returned
<1>3. /\ x \in Event /\ x.action = ev[e].d.action /\ x.dryRun = DryRunConverts(ev[e].d)
      /\ x.trustState = ev[e].d.trustState
  BY <1>1 DEF DecisionEvent, Event, Decision, DryRunConverts
<1>4. DryRunConverts(ev[e].d) => Severity(x.action) >= 4
  BY <1>3, SeverityBounded DEF DryRunConverts, Severity, VerdictRank
<1> HIDE DEF x
<1>5. /\ conv \in Decision /\ conv.dryRun = TRUE /\ conv.trustState = ev[e].d.trustState
      /\ conv.mode = ev[e].d.mode /\ conv.rule = ev[e].d.rule
  BY <1>1 DEF Decision, Actions, Verdicts
<1> HIDE DEF conv
<1>6. /\ d \in Decision /\ d.trustState = ev[e].d.trustState /\ d.mode = ev[e].d.mode
      /\ d.rule = ev[e].d.rule
      /\ DryRunConverts(ev[e].d) => d.dryRun
      /\ ~DryRunConverts(ev[e].d) => d = ev[e].d
  BY <1>1, <1>5
<1> HIDE DEF d
<1>7. /\ r \in Evaluation /\ r.d = d /\ r.pc \in Returned /\ r.log = ev[e].log
      /\ r.floor = ev[e].floor /\ r.relayed = ev[e].relayed
  BY <1>1, <1>6 DEF Evaluation, PCs, Returned
<1>8. Set(e, r)
  BY DEF Return, d, conv
<1> HIDE DEF r
<1>9. FloorKept(r)
  BY <1>2, <1>6, <1>7 DEF FloorKept, Returned
<1>10. LabelEarned(r)
  BY <1>2, <1>6, <1>7 DEF LabelEarned, Earned, Returned, Running
<1>11. LogTrue(r)
  <2>1. Published(r, x)
    BY <1>2, <1>7 DEF Published
  <2>2. x.dryRun = r.d.dryRun
    BY <1>2, <1>3, <1>6, <1>7 DEF DryRunConverts, Decision
  <2>3. IF r.d.dryRun THEN Severity(x.action) >= 4 ELSE x.action = r.d.action
    BY <1>2, <1>3, <1>4, <1>6, <1>7
  <2> QED
    BY <1>3, <1>6, <1>7, <2>1, <2>2, <2>3 DEF LogTrue, Returned
<1>12. CountableDenies(r) /\ AdmissionSeen(r)
  BY <1>7 DEF CountableDenies, AdmissionSeen, Running, Unsettled, Returned
<1> QED
  BY <1>1, <1>7, <1>8, <1>9, <1>10, <1>11, <1>12 DEF EvInv2

\* What an operator may do to an agent's trust, and to nothing else.
LEMMA OperatorStep ==
  ASSUME Inv2, NEW a \in Agents, ResetAgentTrust(a) \/ TerminateAgent(a)
  PROVE  /\ ev' = ev /\ cfg' = cfg /\ TrustInv'
         /\ \/ trust' = [trust EXCEPT ![a] = Unseen]
            \/ trust' = [trust EXCEPT ![a] = Terminated(trust[a])]
<1>1. trust \in [Agents -> AgentTrust]
  BY DEF Inv2, Inv, TypeOK
<1>2. /\ ev' = ev /\ cfg' = cfg
      /\ \/ trust' = [trust EXCEPT ![a] = Unseen]
         \/ trust' = [trust EXCEPT ![a] = Terminated(trust[a])]
  BY <1>1 DEF ResetAgentTrust, TerminateAgent
<1>3. PICK t : /\ trust' = [trust EXCEPT ![a] = t] /\ (t = Unseen \/ t = Terminated(trust[a]))
  BY <1>2
<1>4. /\ t.alpha >= InitialAlpha /\ t.beta >= InitialBeta
      /\ t.state = "TRUSTED" => t = Unseen
  <2>1. Unseen.alpha >= InitialAlpha /\ Unseen.beta >= InitialBeta
    BY TrustWeights DEF Unseen
  <2>2. LET u == Terminated(trust[a])
        IN  u.alpha = trust[a].alpha /\ u.beta = trust[a].beta /\ u.state = "TERMINATED"
    BY <1>1 DEF Terminated, AgentTrust
  <2>3. trust[a].alpha >= InitialAlpha /\ trust[a].beta >= InitialBeta
    BY DEF Inv2, TrustInv
  <2> QED
    BY <1>3, <2>1, <2>2, <2>3
<1>5. \A b \in Agents : trust'[b] = IF b = a THEN t ELSE trust[b]
  BY <1>1, <1>3
<1>6. TrustInv'
  BY <1>4, <1>5 DEF Inv2, TrustInv
<1> QED
  BY <1>2, <1>6

\* Every step of the pipeline keeps the second invariant.
LEMMA NextInv2 == Inv2 /\ [Next]_vars => Inv2'
<1> SUFFICES ASSUME Inv2, [Next]_vars PROVE Inv2'
  OBVIOUS
<1>0. Inv'
  BY NextInv DEF Inv2
<1>set. ASSUME NEW e \in Evals, \E q \in Evaluation : Set(e, q) /\ EvInv2(q), cfg' = cfg, TrustInv'
        PROVE  Inv2'
  BY <1>0, <1>set, SetInv2
<1>1. ASSUME NEW e \in Evals, Begin(e) PROVE Inv2'
  <2>1. cfg' = cfg /\ trust' = trust
    BY <1>1 DEF Begin
  <2> QED
    BY <1>1, <1>set, <2>1, BeginStep, TrustUnchanged
<1>2. ASSUME NEW e \in Evals, Step(e) PROVE Inv2'
  <2>0. cfg' = cfg
    BY <1>2 DEF Step, CheckTrust, StaticRules, RunInterceptor, EvaluatePolicy, ResolveEscalation,
       UpdateTrust, EmitAudit, Return
  <2>1. CASE UpdateTrust(e)
    BY <1>set, <2>0, <2>1, UpdateTrustStep
  <2>2. CASE ~UpdateTrust(e)
    <3>1. trust' = trust
      BY <1>2, <2>2 DEF Step, CheckTrust, StaticRules, RunInterceptor, EvaluatePolicy,
         ResolveEscalation, EmitAudit, Return
    <3>2. \E q \in Evaluation : Set(e, q) /\ EvInv2(q)
      BY <1>2, <2>2, CheckTrustStep, StaticRulesStep, RunInterceptorStep, EvaluatePolicyStep,
         ResolveEscalationStep, EmitAuditStep, ReturnStep DEF Step
    <3> QED
      BY <1>set, <2>0, <3>1, <3>2, TrustUnchanged
  <2> QED
    BY <2>1, <2>2
<1>same. ASSUME ev' = ev, cfg' = cfg, TrustInv' PROVE Inv2'
  <2>1. ASSUME NEW f \in Evals PROVE EvInv2(ev[f])'
    <3>1. EvInv2(ev[f]) /\ ev'[f] = ev[f]
      BY <1>same DEF Inv2
    <3> QED
      BY <1>same, <3>1 DEF EvInv2, FloorKept, LabelEarned, Earned, LogTrue, Published,
         CountableDenies, AdmissionSeen, DecisionEvent, DryRunConverts
  <2> QED
    BY <1>0, <1>same, <2>1 DEF Inv2
<1>3. ASSUME NEW a \in Agents, ResetAgentTrust(a) \/ TerminateAgent(a) PROVE Inv2'
  BY <1>3, <1>same, OperatorStep
<1>4. CASE UNCHANGED vars
  BY <1>4, <1>same, TrustUnchanged DEF vars
<1> QED
  BY <1>1, <1>2, <1>3, <1>4 DEF Next

\* The second invariant holds in every reachable state of the pipeline.
THEOREM PipelineVerdictInvariant == Spec => []Inv2
<1> QED
  BY InitInv2, NextInv2, PTL DEF Spec

\* The returned verdict is at least as strict as every verdict a sound stage
\* of Evaluate gave (adoptStricter, selectStaticRule, resolveEscalation).
THEOREM PipelineStrictestKept == Spec => []MostRestrictiveWins
<1>1. Inv2 => MostRestrictiveWins
  BY DEF Inv2, EvInv2, FloorKept, MostRestrictiveWins, Done
<1> QED
  BY <1>1, PipelineVerdictInvariant, PTL

\* The one published decision event is true of what Evaluate returns, and a
\* mode label is earned (emitAudit, isAdoptableEscalationMode).
THEOREM PipelineAuditHonest == Spec => []AuditHonest
<1>1. Inv2 => AuditHonest
  <2> SUFFICES ASSUME Inv2, NEW e \in Evals, Done(e)
               PROVE  LET r == ev[e]
                      IN  /\ r.d.mode # "proved"
                          /\ r.d.mode = "human_approved" => r.relayed \/ r.d.rule.mode = "human_approved"
                          /\ \E i \in DOMAIN r.log :
                               /\ \A j \in DOMAIN r.log : r.log[j].type = "decision" <=> j = i
                               /\ r.log[i].dryRun = r.d.dryRun
                               /\ r.log[i].trustState = r.d.trustState
                               /\ IF r.d.dryRun THEN Severity(r.log[i].action) >= 4
                                                ELSE r.log[i].action = r.d.action
    BY DEF AuditHonest
  <2>1. EvInv2(ev[e]) /\ ev[e].pc \in Returned
    BY DEF Inv2, Done, Returned
  <2>2. PICK x \in Event : /\ Published(ev[e], x)
                           /\ x.dryRun = ev[e].d.dryRun /\ x.trustState = ev[e].d.trustState
                           /\ IF ev[e].d.dryRun THEN Severity(x.action) >= 4 ELSE x.action = ev[e].d.action
    BY <2>1 DEF EvInv2, LogTrue
  <2>3. PICK i \in DOMAIN ev[e].log :
          ev[e].log[i] = x /\ \A j \in DOMAIN ev[e].log : ev[e].log[j].type = "decision" <=> j = i
    BY <2>2 DEF Published
  <2>4. ev[e].d.mode # "proved"
        /\ (ev[e].d.mode = "human_approved" => ev[e].relayed \/ ev[e].d.rule.mode = "human_approved")
    BY <2>1 DEF EvInv2, LabelEarned, Earned
  <2> QED
    BY <2>2, <2>3, <2>4
<1> QED
  BY <1>1, PipelineVerdictInvariant, PTL

\* A step that moves an agent's trust is an operator's or the update of a
\* decision that counts.
LEMMA TrustMoves ==
  ASSUME Inv2, Next, trust' # trust
  PROVE  \/ \E e \in Evals :
              /\ UpdateTrust(e) /\ FeedsTrust(ev[e]) /\ ev[e].agent \in Agents
              /\ trust' = [trust EXCEPT ![ev[e].agent] =
                             RecordDecision(trust[ev[e].agent], ev[e].d.action)]
         \/ ev' = ev /\ \E a \in Agents : \/ trust' = [trust EXCEPT ![a] = Unseen]
                                          \/ trust' = [trust EXCEPT ![a] = Terminated(trust[a])]
<1>1. CASE \E e \in Evals : UpdateTrust(e)
  BY <1>1, UpdateTrustStep
<1>2. CASE \E a \in Agents : ResetAgentTrust(a) \/ TerminateAgent(a)
  BY <1>2, OperatorStep
<1> QED
  BY <1>1, <1>2 DEF Next, Begin, Step, CheckTrust, StaticRules, RunInterceptor, EvaluatePolicy,
     ResolveEscalation, EmitAudit, Return

\* A decision that counts although a check failed is a deny, and under an
\* audit-only pipeline it is no block.
LEMMA CountedDecision ==
  ASSUME Inv2, NEW e \in Evals, ev[e].pc = "defer", FeedsTrust(ev[e])
  PROVE  /\ ev[e].faulted => ev[e].d.action = "deny"
         /\ cfg.dryRun => ev[e].d.action \notin {"deny", Indeterminate}
<1>1. EvInv(ev[e]) /\ CountableDenies(ev[e])
  BY DEF Inv2, Inv, EvInv2
<1>2. ev[e].faulted => ev[e].d.countable
  BY <1>1 DEF EvInv, FeedsTrust
<1>3. ~cfg.configErr
  BY <1>1, <1>2 DEF CountableDenies
<1> QED
  BY <1>1, <1>2, <1>3 DEF CountableDenies, FeedsTrust, DryRunConverts

\* Only outcomes move an agent's trust: of a faulted evaluation only a deny,
\* and of an audit-only pipeline at most a partial outcome
\* (recordTrustDecision, recordTrustDecisionSafe).
THEOREM PipelineOutcomesMoveTrust == Spec => OnlyOutcomesMoveTrust
<1> DEFINE P == /\ \A e \in Evals :
                     ev[e].pc = "defer" /\ ev'[e].pc = "audit" /\ ev[e].faulted /\ trust' # trust
                       => ev[e].d.action = "deny"
                /\ cfg.dryRun => \A a \in Agents :
                     trust'[a].beta <= trust[a].beta + PartialBetaWeight
<1>1. ASSUME Inv2, Next PROVE P
  <2>0. trust \in [Agents -> AgentTrust] /\ \A a \in Agents : trust[a].beta \in Nat
    BY <1>1 DEF Inv2, Inv, TypeOK, AgentTrust
  <2>1. CASE trust' = trust
    BY <2>0, <2>1, TrustWeights
  <2>2. CASE trust' # trust /\ ev' = ev /\
             \E a \in Agents : \/ trust' = [trust EXCEPT ![a] = Unseen]
                               \/ trust' = [trust EXCEPT ![a] = Terminated(trust[a])]
    <3>1. PICK a \in Agents : \/ trust' = [trust EXCEPT ![a] = Unseen]
                              \/ trust' = [trust EXCEPT ![a] = Terminated(trust[a])]
      BY <2>2
    <3>2. Unseen.beta = InitialBeta /\ Terminated(trust[a]).beta = trust[a].beta
      BY <2>0 DEF Unseen, Terminated, AgentTrust
    <3>3. InitialBeta <= trust[a].beta
      BY <1>1 DEF Inv2, TrustInv
    <3>4. \A b \in Agents : trust'[b].beta <= trust[b].beta + PartialBetaWeight
      BY <2>0, <3>1, <3>2, <3>3, TrustWeights
    <3> QED
      BY <2>2, <3>4
  <2>3. ASSUME NEW e \in Evals, UpdateTrust(e), FeedsTrust(ev[e]), ev[e].agent \in Agents,
               trust' = [trust EXCEPT ![ev[e].agent] =
                           RecordDecision(trust[ev[e].agent], ev[e].d.action)]
        PROVE  P
    <3> DEFINE t == RecordDecision(trust[ev[e].agent], ev[e].d.action)
    <3>1. PICK q \in Evaluation : Set(e, q)
      BY <1>1, <2>3, UpdateTrustStep
    <3>2. \A f \in Evals : f # e => ev'[f] = ev[f]
      BY <1>1, <3>1 DEF Set, Inv2, Inv, TypeOK
    <3>3. ev[e].pc = "defer"
      BY <2>3 DEF UpdateTrust
    <3>4. /\ ev[e].faulted => ev[e].d.action = "deny"
          /\ cfg.dryRun => ev[e].d.action \notin {"deny", Indeterminate}
      BY <1>1, <2>3, <3>3, CountedDecision
    <3>5. cfg.dryRun => t.beta <= trust[ev[e].agent].beta + PartialBetaWeight
      <4>1. trust[ev[e].agent] \in AgentTrust
        BY <2>0, <2>3
      <4> QED
        BY <1>1, <2>3, <3>4, <4>1, RecordDecisionKeeps DEF Inv2, TrustInv
    <3>6. \A a \in Agents : trust'[a] = IF a = ev[e].agent THEN t ELSE trust[a]
      BY <2>0, <2>3
    <3> HIDE DEF t
    <3>7. cfg.dryRun => \A a \in Agents : trust'[a].beta <= trust[a].beta + PartialBetaWeight
      BY <2>0, <3>5, <3>6, TrustWeights
    <3>8. ASSUME NEW f \in Evals, ev[f].pc = "defer", ev'[f].pc = "audit", ev[f].faulted
          PROVE  ev[f].d.action = "deny"
      <4>1. f = e
        BY <3>2, <3>8
      <4> QED
        BY <3>4, <3>8, <4>1
    <3> QED
      BY <3>7, <3>8
  <2> QED
    BY <1>1, <2>1, <2>2, <2>3, TrustMoves
<1>2. Inv2 /\ [Next]_vars => [P]_vars
  BY <1>1
<1> QED
  BY <1>2, PipelineVerdictInvariant, PTL DEF Spec, OnlyOutcomesMoveTrust

-----------------------------------------------------------------------------
(* The pipeline implements the abstract circuit breaker. *)

\* Two products over natural numbers grow with their factors.
LEMMA ProductsGrow ==
  ASSUME NEW k \in Nat, NEW m \in Nat, NEW n \in Nat
  PROVE  /\ m <= n => k * m <= k * n
         /\ m <= n => m * k <= n * k
         /\ k * (m + n) = k * m + k * n
         /\ (m + n) * k = m * k + n * k
         /\ k * m \in Nat
<1>1. ASSUME m <= n PROVE k * m <= k * n /\ m * k <= n * k
  <2>1. PICK i \in Nat : n = m + i
    <3>1. n - m \in Nat /\ n = m + (n - m)
      BY <1>1
    <3> QED
      BY <3>1
  <2>2. k * n = k * m + k * i /\ n * k = m * k + i * k
    BY <2>1
  <2>3. k * i \in Nat /\ i * k \in Nat /\ k * m \in Nat /\ m * k \in Nat
    OBVIOUS
  <2> QED
    BY <2>2, <2>3
<1> QED
  BY <1>1

\* An agent whose score is not degraded, or that was never seen, is not
\* isolated by one outcome of a gradual weight.
LEMMA OneOutcomeDoesNotIsolate ==
  ASSUME GradualWeights, NEW a \in Nat, NEW b \in Nat, NEW x \in Nat, NEW w \in Nat, Gradual(w),
         a >= InitialAlpha, b >= InitialBeta,
         (a = InitialAlpha /\ b = InitialBeta) \/ ~ScoreBelow(a, b, DegradedThreshold)
  PROVE  ~ScoreBelow(a + x, b + w, Theta)
<1> DEFINE n == a + b
           i == InitialAlpha + InitialBeta
<1>1. /\ Theta \in Nat /\ DegradedThreshold \in Nat /\ Unit \in Nat
      /\ Theta <= DegradedThreshold /\ Theta <= Unit /\ 0 < i /\ i \in Nat /\ InitialAlpha \in Nat
      /\ n \in Nat /\ i <= n /\ n + w \in Nat
  BY TrustWeights, TrustThresholds DEF GradualWeights
<1>2. Unit * a >= Theta * (n + w)
  <2>1. CASE a = InitialAlpha /\ b = InitialBeta
    BY <2>1 DEF Gradual
  <2>2. CASE ~ScoreBelow(a, b, DegradedThreshold)
    <3>1. ~(n <= 0) /\ Unit * a \in Nat /\ DegradedThreshold * n \in Nat
      BY <1>1, ProductsGrow
    <3>2. Unit * a >= DegradedThreshold * n
      BY <2>2, <3>1 DEF ScoreBelow
    <3>3. PICK g \in Nat : DegradedThreshold = Theta + g
      <4>1. DegradedThreshold - Theta \in Nat /\ DegradedThreshold = Theta + (DegradedThreshold - Theta)
        BY <1>1
      <4> QED
        BY <4>1
    <3>4. DegradedThreshold - Theta = g
      BY <1>1, <3>3
    <3>5. g * i >= Theta * w
      BY <3>4 DEF Gradual
    <3>6. g * i <= g * n
      BY <1>1, ProductsGrow
    <3>7. DegradedThreshold * n = Theta * n + g * n
      BY <1>1, <3>3, ProductsGrow
    <3>8. Theta * (n + w) = Theta * n + Theta * w
      BY <1>1, ProductsGrow
    <3>9. /\ g * i \in Nat /\ g * n \in Nat /\ Theta * n \in Nat /\ Theta * w \in Nat
      BY <1>1, ProductsGrow
    <3> HIDE DEF n, i
    <3> QED
      BY <3>1, <3>2, <3>5, <3>6, <3>7, <3>8, <3>9
  <2> QED
    BY <2>1, <2>2
<1>3. Unit * x >= Theta * x
  BY <1>1, ProductsGrow
<1>4. Unit * (a + x) = Unit * a + Unit * x
  BY <1>1, ProductsGrow
<1>5. Theta * ((n + w) + x) = Theta * (n + w) + Theta * x
  BY <1>1, ProductsGrow
<1>6. /\ Unit * a \in Nat /\ Unit * x \in Nat /\ Theta * (n + w) \in Nat /\ Theta * x \in Nat
  BY <1>1, ProductsGrow
<1>7. (a + x) + (b + w) = (n + w) + x /\ ~((a + x) + (b + w) <= 0)
  BY <1>1
<1>8. ~(Unit * (a + x) < Theta * ((n + w) + x))
  <2> HIDE DEF n
  <2> QED
    BY <1>2, <1>3, <1>4, <1>5, <1>6
<1> QED
  BY <1>7, <1>8 DEF ScoreBelow

\* One outcome moves the breaker of an agent as the abstract one allows:
\* never from TRUSTED to ISOLATED, never out of TERMINATED (RecordDecision).
LEMMA RecordDecisionMoves ==
  ASSUME GradualWeights, NEW s \in AgentTrust, NEW action,
         s.alpha >= InitialAlpha, s.beta >= InitialBeta,
         s.state = "TRUSTED" => s = Unseen \/ ~ScoreBelow(s.alpha, s.beta, DegradedThreshold)
  PROVE  RecordDecision(s, action).state \in CB!MayBecome(s.state)
<1> DEFINE o == TrustOutcomeFromDecision(action)
           x == AlphaWeight(o)
           w == BetaWeight(o, s.state)
           t == TrustStateFromScore(s.alpha + x, s.beta + w)
<1>1. x \in Nat /\ w \in Nat /\ s.alpha \in Nat /\ s.beta \in Nat /\ s.state \in BreakerStates
  BY TrustWeights DEF AlphaWeight, BetaWeight, AgentTrust
<1>2. t \in {"TRUSTED", "EVALUATING", "ISOLATED"}
  BY DEF TrustStateFromScore
<1>3. s.state = "TRUSTED" => Gradual(w)
  BY DEF BetaWeight, GradualWeights
<1>4. s.state = "TRUSTED" => t # "ISOLATED"
  <2> SUFFICES ASSUME s.state = "TRUSTED" PROVE ~ScoreBelow(s.alpha + x, s.beta + w, Theta)
    BY DEF TrustStateFromScore
  <2>1. (s.alpha = InitialAlpha /\ s.beta = InitialBeta) \/ ~ScoreBelow(s.alpha, s.beta, DegradedThreshold)
    BY DEF Unseen
  <2> HIDE DEF x, w
  <2> QED
    BY <1>1, <1>3, <2>1, OneOutcomeDoesNotIsolate
<1>5. RecordDecision(s, action).state =
        IF o = "neutral" \/ s.state = "TERMINATED" THEN s.state ELSE t
  BY DEF RecordDecision
<1> HIDE DEF o, t
<1> QED
  BY <1>1, <1>2, <1>4, <1>5 DEF CB!MayBecome, CB!Active, BreakerStates

\* The evaluation r counts as an admitted call of agent a.
Counts(r, a) == /\ r.agent = a /\ r.lookup = "ok" /\ r.pc \in Unsettled
                /\ ~Blocked(r.d.trustState)

\* A step of one evaluation moves only its own admission.
LEMMA AdmissionMoves ==
  ASSUME Inv2, NEW e \in Evals, NEW q, Set(e, q), NEW a \in Agents
  PROVE  /\ Counts(q, a) => Admitted(a)' = Admitted(a) \cup {e}
         /\ ~Counts(q, a) => Admitted(a)' = Admitted(a) \ {e}
         /\ e \in Admitted(a) <=> Counts(ev[e], a)
<1>1. \A f \in Evals : ev'[f] = IF f = e THEN q ELSE ev[f]
  BY DEF Inv2, Inv, TypeOK, Set
<1>2. \A f \in Evals : f \in Admitted(a) <=> Counts(ev[f], a)
  BY DEF Admitted, Counts, Unsettled
<1>3. \A f \in Evals : f \in Admitted(a)' <=> Counts(ev'[f], a)
  BY DEF Admitted, Counts, Unsettled
<1>4. Admitted(a) \subseteq Evals /\ Admitted(a)' \subseteq Evals
  BY DEF Admitted
<1> QED
  BY <1>1, <1>2, <1>3, <1>4

\* A decision that moves trust is that of an admitted call, when no call
\* passes a failed lookup (recordTrustDecision).
LEMMA FedFromAdmitted ==
  ASSUME Inv2, LookupsBlock, NEW e \in Evals, ev[e].pc = "defer", FeedsTrust(ev[e])
  PROVE  Counts(ev[e], ev[e].agent)
<1>1. EvInv(ev[e]) /\ AdmissionSeen(ev[e])
  BY DEF Inv2, Inv, EvInv2
<1>2. /\ ev[e].agent # NoAgent /\ cfg.checker # "none"
      /\ ev[e].d.reason # "agent_blocked" /\ (ev[e].d.check = NoCheck \/ ev[e].d.countable)
  BY DEF FeedsTrust
<1>3. ev[e].faulted => ev[e].d.countable
  BY <1>1, <1>2 DEF EvInv
<1> QED
  BY <1>1, <1>2, <1>3 DEF AdmissionSeen, Counts, Unsettled

\* The abstract breaker's view of a state of the pipeline.
States == [a \in Agents |-> trust[a].state]
Admissions == [a \in Agents |-> Admitted(a)]

\* Evaluations that neither pass the lookup nor fold an outcome in, and
\* evaluations that do, map to a step of the abstract breaker or to none.
LEMMA EvaluationRefines ==
  ASSUME Inv2, GradualWeights, LookupsBlock, NEW e \in Evals, Begin(e) \/ Step(e)
  PROVE  [CB!Next]_<<States, Admissions>>
<1>0. trust \in [Agents -> AgentTrust] /\ \A a \in Agents : trust[a].state \in BreakerStates
  BY DEF Inv2, Inv, TypeOK, AgentTrust
<1>same. ASSUME NEW q, Set(e, q), trust' = trust, \A a \in Agents : Counts(q, a) <=> Counts(ev[e], a)
         PROVE  UNCHANGED <<States, Admissions>>
  <2>1. \A a \in Agents : Admitted(a)' = Admitted(a)
    BY <1>same, AdmissionMoves
  <2> QED
    BY <1>same, <2>1 DEF States, Admissions
<1>1. CASE Begin(e)
  <2>1. PICK q \in Evaluation : Set(e, q) /\ ev[e].pc \in {"idle", "done", "panicked"} /\ q.lookup # "ok"
    BY <1>1, BeginStep
  <2>2. trust' = trust
    BY <1>1 DEF Begin
  <2> QED
    BY <1>same, <2>1, <2>2 DEF Counts, Unsettled
<1>2. CASE StaticRules(e) \/ RunInterceptor(e) \/ EvaluatePolicy(e) \/ ResolveEscalation(e)
  <2>1. PICK q \in Evaluation : Set(e, q) /\ Staged(e, q) /\ ev[e].pc \in Unsettled
    BY <1>2, StaticRulesStep, RunInterceptorStep, EvaluatePolicyStep, ResolveEscalationStep DEF Unsettled
  <2>2. trust' = trust
    BY <1>2 DEF StaticRules, RunInterceptor, EvaluatePolicy, ResolveEscalation
  <2> QED
    BY <1>same, <2>1, <2>2 DEF Counts, Staged
<1>3. CASE EmitAudit(e) \/ Return(e)
  <2>1. PICK q \in Evaluation : Set(e, q) /\ ev[e].pc \notin Unsettled /\ q.pc \notin Unsettled
    BY <1>3, EmitAuditStep, ReturnStep DEF Unsettled, Returned
  <2>2. trust' = trust
    BY <1>3 DEF EmitAudit, Return
  <2> QED
    BY <1>same, <2>1, <2>2 DEF Counts
<1>4. CASE CheckTrust(e)
  <2>1. PICK q \in Evaluation :
          /\ Set(e, q) /\ ev[e].pc = "trust" /\ ev[e].agent \in Agents /\ q.agent = ev[e].agent
          /\ q.pc \in {"static", "defer"}
          /\ q.lookup = "ok" => q.d.trustState = trust[ev[e].agent].state
    BY <1>4, CheckTrustStep
  <2>b. PICK b \in Agents : b = ev[e].agent
    BY <2>1
  <2>2. trust' = trust
    BY <1>4 DEF CheckTrust
  <2>3. \A a \in Agents : ~Counts(ev[e], a)
    BY <2>1 DEF Counts, Unsettled
  <2>4. \A a \in Agents : Counts(q, a) => a = b
    BY <2>1, <2>b DEF Counts
  <2>5. CASE ~Counts(q, b)
    BY <1>same, <2>1, <2>2, <2>3, <2>4, <2>5
  <2>6. CASE Counts(q, b)
    <3>1. trust[b].state \in CB!Active
      BY <1>0, <2>1, <2>b, <2>6 DEF Counts, Blocked, BreakerStates, CB!Active
    <3>2. Admitted(b)' = Admitted(b) \cup {e} /\ e \notin Admitted(b)
      BY <2>1, <2>3, <2>6, AdmissionMoves
    <3>3. \A a \in Agents : a # b => Admitted(a)' = Admitted(a)
      <4>1. ASSUME NEW a \in Agents, a # b PROVE Admitted(a)' = Admitted(a)
        <5>1. ~Counts(q, a) /\ ~Counts(ev[e], a)
          BY <2>3, <2>4, <4>1
        <5> QED
          BY <2>1, <5>1, AdmissionMoves
      <4> QED
        BY <4>1
    <3>4. Admissions' = [Admissions EXCEPT ![b] = @ \cup {e}]
      BY <3>2, <3>3 DEF Admissions
    <3>5. States' = States /\ States[b] = trust[b].state /\ Admissions[b] = Admitted(b)
      BY <2>2 DEF States, Admissions
    <3>6. CB!Admit(b, e)
      BY <3>1, <3>2, <3>4, <3>5 DEF CB!Admit, States, Admissions
    <3> QED
      BY <3>6 DEF CB!Next
  <2> QED
    BY <2>5, <2>6
<1>5. CASE UpdateTrust(e)
  <2>1. PICK q \in Evaluation : Set(e, q) /\ q.pc = "audit"
    BY <1>5, UpdateTrustStep
  <2>b. PICK b : b = ev[e].agent
    OBVIOUS
  <2>2. \A a \in Agents : ~Counts(q, a) /\ (Counts(ev[e], a) => a = b)
    BY <2>1, <2>b DEF Counts, Unsettled
  <2>3. CASE ~Counts(ev[e], b)
    <3>1. trust' = trust
      BY <1>5, <2>b, <2>3, UpdateTrustStep, FedFromAdmitted
    <3> QED
      BY <1>same, <2>1, <2>2, <2>3, <3>1
  <2>4. CASE Counts(ev[e], b) /\ b \notin Agents
    <3>1. trust' = trust
      BY <1>5, <2>b, <2>4, UpdateTrustStep
    <3> QED
      BY <1>same, <2>1, <2>2, <2>4, <3>1
  <2>5. CASE Counts(ev[e], b) /\ b \in Agents
    <3>1. Admitted(b)' = Admitted(b) \ {e} /\ e \in Admitted(b)
      BY <2>1, <2>2, <2>5, AdmissionMoves
    <3>2. \A a \in Agents : a # b => Admitted(a)' = Admitted(a)
      BY <2>1, <2>2, AdmissionMoves
    <3>3. Admissions' = [Admissions EXCEPT ![b] = @ \ {e}]
      BY <2>5, <3>1, <3>2 DEF Admissions
    <3>4. PICK s \in CB!MayBecome(trust[b].state) : States' = [States EXCEPT ![b] = s]
      <4>1. CASE trust' = trust
        <5>1. trust[b].state \in CB!MayBecome(trust[b].state)
          BY <1>0, <2>5 DEF CB!MayBecome, CB!Active, BreakerStates
        <5>2. States' = [States EXCEPT ![b] = trust[b].state]
          BY <2>5, <4>1 DEF States
        <5> QED
          BY <5>1, <5>2
      <4>2. CASE trust' # trust
        <5> DEFINE t == RecordDecision(trust[b], ev[e].d.action)
        <5>1. trust' = [trust EXCEPT ![b] = t]
          BY <1>5, <2>b, <4>2, UpdateTrustStep
        <5>2. t.state \in CB!MayBecome(trust[b].state)
          <6>1. /\ trust[b] \in AgentTrust
                /\ trust[b].alpha >= InitialAlpha /\ trust[b].beta >= InitialBeta
                /\ trust[b].state = "TRUSTED" =>
                     trust[b] = Unseen \/ ~ScoreBelow(trust[b].alpha, trust[b].beta, DegradedThreshold)
            BY <1>0, <2>5 DEF Inv2, TrustInv
          <6> QED
            BY <6>1, RecordDecisionMoves
        <5> HIDE DEF t
        <5>3. States' = [States EXCEPT ![b] = t.state]
          BY <1>0, <2>5, <5>1 DEF States
        <5> QED
          BY <5>2, <5>3
      <4> QED
        BY <4>1, <4>2
    <3>5. States[b] = trust[b].state /\ Admissions[b] = Admitted(b)
      BY <2>5 DEF States, Admissions
    <3>6. CB!Outcome(b, e)
      BY <3>1, <3>3, <3>4, <3>5 DEF CB!Outcome, States, Admissions
    <3> QED
      BY <2>5, <3>6 DEF CB!Next
  <2> QED
    BY <2>3, <2>4, <2>5
<1> QED
  BY <1>1, <1>2, <1>3, <1>4, <1>5 DEF Step

\* An operator's reset or termination is the abstract operator's.
LEMMA OperatorRefines ==
  ASSUME Inv2, NEW a \in Agents, ResetAgentTrust(a) \/ TerminateAgent(a)
  PROVE  CB!Next
<1>0. trust \in [Agents -> AgentTrust]
  BY DEF Inv2, Inv, TypeOK
<1>1. /\ ev' = ev
      /\ \/ trust' = [trust EXCEPT ![a] = Unseen]
         \/ trust' = [trust EXCEPT ![a] = Terminated(trust[a])]
  BY OperatorStep
<1>2. Admissions' = Admissions
  BY <1>1 DEF Admissions, Admitted
<1>3. Unseen.state = "TRUSTED" /\ Terminated(trust[a]).state = "TERMINATED"
  BY <1>0 DEF Unseen, Terminated, AgentTrust
<1>4. \/ States' = [States EXCEPT ![a] = "TRUSTED"]
      \/ States' = [States EXCEPT ![a] = "TERMINATED"]
  BY <1>0, <1>1, <1>3 DEF States
<1>5. CB!Reset(a) \/ CB!Terminate(a)
  BY <1>2, <1>4 DEF CB!Reset, CB!Terminate, States, Admissions
<1> QED
  BY <1>5 DEF CB!Next

\* The pipeline over the standalone trust backend implements the abstract
\* circuit breaker for every set of agents and evaluations, under a weighting
\* that is gradual, as the defaults are, when no call passes a lookup that
\* failed: no blocked agent is admitted, isolation is reached through
\* degradation and left only by an operator or an earlier call's outcome.
THEOREM PipelineRefinesBreaker ==
  ASSUME GradualWeights, LookupsBlock
  PROVE  Spec => BreakerRefinement
<1>1. Init => CB!Init
  BY DEF Init, CB!Init, Admitted, Idle, Unseen
<1>2. Inv2 /\ [Next]_vars => [CB!Next]_<<States, Admissions>>
  <2> SUFFICES ASSUME Inv2, [Next]_vars PROVE [CB!Next]_<<States, Admissions>>
    OBVIOUS
  <2>1. CASE UNCHANGED vars
    BY <2>1 DEF vars, States, Admissions, Admitted
  <2>2. CASE Next
    BY <2>2, EvaluationRefines, OperatorRefines DEF Next
  <2> QED
    BY <2>1, <2>2
<1>3. Inv2 /\ [Next]_vars => [CB!Next]_<<[a \in Agents |-> trust[a].state], [a \in Agents |-> Admitted(a)]>>
  BY <1>2 DEF States, Admissions
<1> QED
  BY <1>1, <1>3, PipelineVerdictInvariant, PTL DEF Spec, BreakerRefinement, CB!Spec
=============================================================================
