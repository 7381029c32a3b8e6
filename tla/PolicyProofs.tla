---------------------------- MODULE PolicyProofs ----------------------------
(***************************************************************************)
(* Theorems about the checks a request passes: the policy evaluator        *)
(* (PolicyEval), for every catalogue of policies, every configuration and  *)
(* any number of concurrent evaluations and updates, and the guards before *)
(* it (RequestGuards), for every limit and any number of requests.         *)
(***************************************************************************)
EXTENDS PolicyEval, RequestGuards, FiniteSetTheorems, WellFoundedInduction, TLAPS

-----------------------------------------------------------------------------
(* The loops over a policy's rules and a rule's actions. *)

\* A nonempty set of numbers has a least one.
LEMMA LeastIn ==
  ASSUME NEW T, T \subseteq Nat, T # {}
  PROVE  \E x \in T : \A y \in T : x <= y
<1> DEFINE R == {ss \in Nat \X Nat : ss[1] < ss[2]}
<1>1. IsWellFoundedOn(R, Nat)
  BY NatLessThanWellFounded DEF OpToRel
<1>2. \A x, y \in Nat : <<y, x>> \in R <=> y < x
  OBVIOUS
<1> HIDE DEF R
<1>3. PICK x \in T : \A y \in T : ~ (<<y, x>> \in R)
  BY <1>1, WFMin
<1>4. ASSUME NEW y \in T PROVE x <= y
  <2>1. x \in Nat /\ y \in Nat /\ ~(<<y, x>> \in R)
    BY <1>3
  <2> QED BY <1>2, <2>1
<1> QED BY <1>4

\* A loop of L turns from b has a trace: its state before the first turn and
\* after each turn.
Trace(f, A, b, L, T) ==
  f \in [0..L -> A] /\ f[0] = b /\ \A n \in 1..L : f[n] = T[n][f[n - 1]]

LEMMA TraceExists ==
  ASSUME NEW A, NEW b \in A, NEW L \in Nat, NEW T \in [1..L -> [A -> A]]
  PROVE  \E f : Trace(f, A, b, L, T)
<1> DEFINE Bad == {m \in 0..L : ~ \E f : Trace(f, A, b, m, T)}
<1>1. SUFFICES Bad = {}
  BY DEF Trace
<1>2. SUFFICES ASSUME Bad # {} PROVE FALSE
  OBVIOUS
<1>3. Bad \subseteq Nat
  OBVIOUS
<1>4. PICK m \in Bad : \A k \in Bad : m <= k
  BY <1>2, <1>3, LeastIn
<1>5. m \in 0..L /\ ~ \E f : Trace(f, A, b, m, T)
  BY <1>4
<1>6. m # 0
  <2>1. PICK f : f = [i \in 0..0 |-> b]
    OBVIOUS
  <2>2. Trace(f, A, b, 0, T)
    BY <2>1 DEF Trace
  <2> QED BY <1>5, <2>2
<1>7. PICK f : Trace(f, A, b, m - 1, T)
  <2>1. m - 1 \in 0..L /\ ~(m <= m - 1)
    BY <1>5, <1>6
  <2>2. m - 1 \notin Bad
    BY <1>4, <2>1
  <2> QED BY <2>1, <2>2
<1>8. f \in [0..(m - 1) -> A] /\ f[0] = b /\ \A n \in 1..(m - 1) : f[n] = T[n][f[n - 1]]
  BY <1>7 DEF Trace
<1>9. PICK a : a = T[m][f[m - 1]]
  OBVIOUS
<1>10. a \in A
  <2>1. f[m - 1] \in A /\ m \in 1..L
    BY <1>5, <1>6, <1>8
  <2> QED BY <1>9, <2>1
<1>11. PICK g : g = [i \in 0..m |-> IF i = m THEN a ELSE f[i]]
  OBVIOUS
<1>12. /\ \A i \in 0..(m - 1) : g[i] = f[i]
       /\ g[m] = a /\ g \in [0..m -> A]
  <2>1. \A i \in 0..m : i # m => i \in 0..(m - 1)
    BY <1>5
  <2>2. \A i \in 0..(m - 1) : i \in 0..m /\ i # m
    BY <1>5
  <2>3. m \in 0..m
    BY <1>5
  <2> QED BY <1>8, <1>10, <1>11, <2>1, <2>2, <2>3
<1>13. ASSUME NEW n \in 1..m PROVE g[n] = T[n][g[n - 1]]
  <2>1. n - 1 \in 0..(m - 1)
    BY <1>5
  <2>2. CASE n = m
    BY <1>9, <1>12, <2>1, <2>2
  <2>3. CASE n # m
    <3>1. n \in 1..(m - 1) /\ n \in 0..(m - 1)
      BY <1>5, <2>3
    <3> QED BY <1>8, <1>12, <2>1, <3>1
  <2> QED BY <2>2, <2>3
<1>14. g[0] = b
  <2>1. 0 \in 0..(m - 1)
    BY <1>5, <1>6
  <2> QED BY <1>8, <1>12, <2>1
<1>15. Trace(g, A, b, m, T)
  BY <1>12, <1>13, <1>14 DEF Trace
<1> QED BY <1>5, <1>15

\* What holds before the loop and is kept by every turn holds of its trace.
LEMMA TraceKeeps ==
  ASSUME NEW L \in Nat, NEW S, 0 \in S, \A n \in 1..L : n - 1 \in S => n \in S
  PROVE  \A n \in 0..L : n \in S
<1> DEFINE Bad == {n \in 0..L : n \notin S}
<1>1. SUFFICES ASSUME Bad # {} PROVE FALSE
  OBVIOUS
<1>2. Bad \subseteq Nat
  OBVIOUS
<1>3. PICK m \in Bad : \A k \in Bad : m <= k
  BY <1>1, <1>2, LeastIn
<1>4. m \in 0..L /\ m \notin S /\ m # 0
  BY <1>3
<1>5. m \in 1..L /\ m - 1 \in 0..L /\ ~(m <= m - 1)
  BY <1>4
<1>6. m - 1 \in S
  BY <1>3, <1>5
<1> QED BY <1>4, <1>5, <1>6

Progress == [action : Actions, stop : BOOLEAN, faults : Nat]

\* An action leaves a typed state and reports no fault.
LEMMA ApplyActionTyped ==
  ASSUME NEW acc \in Progress, NEW a, a.terminal \in BOOLEAN
  PROVE  ApplyAction(acc, a) \in Progress /\ ApplyAction(acc, a).faults = acc.faults
<1>1. CASE acc.stop
  BY <1>1 DEF ApplyAction
<1>2. CASE ~acc.stop
  <2>1. PICK x : x = CASE a.type = "deny" -> "deny"
                       [] a.type = "warn" /\ acc.action = "allow" -> "warn"
                       [] a.type = "require_approval" /\ acc.action # "deny" -> "require_approval"
                       [] OTHER -> acc.action
    OBVIOUS
  <2>2. x \in Actions
    BY <2>1 DEF Progress, Actions
  <2>3. ApplyAction(acc, a) = [acc EXCEPT !.action = x, !.stop = a.terminal]
    BY <1>2, <2>1 DEF ApplyAction
  <2> QED BY <2>2, <2>3 DEF Progress
<1> QED BY <1>1, <1>2

\* So do a rule's actions together.
LEMMA RunActionsTyped ==
  ASSUME NEW acc \in Progress, NEW s, IsSeq(s), \A j \in DOMAIN s : s[j].terminal \in BOOLEAN
  PROVE  RunActions(acc, s) \in Progress /\ RunActions(acc, s).faults = acc.faults
<1>1. PICK L : L = Len(s)
  OBVIOUS
<1>2. L \in Nat /\ \A n \in 1..L : s[n].terminal \in BOOLEAN
  BY <1>1 DEF IsSeq
<1>3. PICK T : T = [n \in 1..L |-> [a \in Progress |-> ApplyAction(a, s[n])]]
  OBVIOUS
<1>4. T \in [1..L -> [Progress -> Progress]]
  <2>1. ASSUME NEW n \in 1..L, NEW a \in Progress PROVE ApplyAction(a, s[n]) \in Progress
    BY <1>2, ApplyActionTyped
  <2> QED BY <1>3, <2>1
<1>5. \A a \in Progress, n \in 1..L : T[n][a] = ApplyAction(a, s[n])
  BY <1>3
<1> DEFINE P(f) == f = [n \in 0..L |-> IF n = 0 THEN acc ELSE ApplyAction(f[n - 1], s[n])]
<1>6. \E f : P(f)
  <2>1. PICK f : Trace(f, Progress, acc, L, T)
    BY <1>2, <1>4, TraceExists
  <2>2. f \in [0..L -> Progress] /\ f[0] = acc /\ \A n \in 1..L : f[n] = T[n][f[n - 1]]
    BY <2>1 DEF Trace
  <2>3. ASSUME NEW n \in 0..L PROVE f[n] = IF n = 0 THEN acc ELSE ApplyAction(f[n - 1], s[n])
    <3>1. CASE n = 0
      BY <2>2, <3>1
    <3>2. CASE n # 0
      <4>1. n \in 1..L /\ n - 1 \in 0..L
        BY <1>2, <3>2
      <4>2. f[n - 1] \in Progress
        BY <2>2, <4>1
      <4> QED BY <1>5, <2>2, <3>2, <4>1, <4>2
    <3> QED BY <3>1, <3>2
  <2> QED BY <2>2, <2>3
<1>7. PICK g : g = CHOOSE f : P(f)
  OBVIOUS
<1> HIDE DEF P
<1>8. P(g)
  BY <1>6, <1>7
<1>9. RunActions(acc, s) = g[L]
  BY <1>1, <1>7 DEF RunActions, P
<1>10. \A n \in 0..L : g[n] = IF n = 0 THEN acc ELSE ApplyAction(g[n - 1], s[n])
  BY <1>8 DEF P
<1> DEFINE S == {n \in 0..L : g[n] \in Progress /\ g[n].faults = acc.faults}
<1>11. 0 \in S
  BY <1>2, <1>10
<1>12. ASSUME NEW n \in 1..L, n - 1 \in S PROVE n \in S
  <2>1. n \in 0..L /\ n # 0
    BY <1>2
  <2>2. g[n] = ApplyAction(g[n - 1], s[n]) /\ g[n - 1] \in Progress /\ g[n - 1].faults = acc.faults
    BY <1>10, <1>12, <2>1
  <2> QED BY <1>2, <2>1, <2>2, ApplyActionTyped
<1> HIDE DEF S
<1>13. \A n \in 0..L : n \in S
  BY <1>2, <1>11, <1>12, TraceKeeps
<1>14. L \in S
  BY <1>2, <1>13
<1> QED BY <1>9, <1>14 DEF S

\* A short-circuiting loop returns v or one of the outcomes.
LEMMA FirstOtherIs ==
  ASSUME NEW outcomes, NEW v, DOMAIN outcomes \subseteq Nat
  PROVE  FirstOther(outcomes, v) = v \/ \E i \in DOMAIN outcomes : FirstOther(outcomes, v) = outcomes[i]
<1> DEFINE S == {i \in DOMAIN outcomes : outcomes[i] # v}
<1>1. CASE S = {}
  BY <1>1 DEF FirstOther
<1>2. CASE S # {}
  <2>1. S \subseteq Nat
    OBVIOUS
  <2>2. \E i \in S : \A j \in S : i <= j
    BY <1>2, <2>1, LeastIn
  <2>3. PICK k : k = CHOOSE i \in S : \A j \in S : i <= j
    OBVIOUS
  <2>4. FirstOther(outcomes, v) = outcomes[k]
    BY <1>2, <2>3 DEF FirstOther
  <2>5. k \in S
    BY <2>2, <2>3
  <2> QED BY <2>4, <2>5
<1> QED BY <1>1, <1>2

Outcomes == {"fault", "match", "miss", "escalate"}

\* What a rule's conditions come to is one of the four outcomes.
LEMMA EvaluateRuleTyped ==
  ASSUME NEW rule, IsSeq(rule.conditions), \A j \in DOMAIN rule.conditions : IsSeq(rule.conditions[j].nested),
         NEW ext
  PROVE  EvaluateRule(rule, ext) \in Outcomes
<1>1. \A c : EvaluateLeaf(c, ext) \in {"fault", "match", "miss"}
  <2>1. \A b : Truth(b) \in {"fault", "match", "miss"}
    BY DEF Truth
  <2> QED BY <2>1 DEF EvaluateLeaf
<1>2. ASSUME NEW c, IsSeq(c.nested) PROVE EvaluateLogical(c, ext) \in Outcomes
  <2>1. PICK outcomes : outcomes = [i \in DOMAIN c.nested |-> EvaluateLeaf(c.nested[i], ext)]
    OBVIOUS
  <2>2. DOMAIN outcomes \subseteq Nat /\ \A i \in DOMAIN outcomes : outcomes[i] \in Outcomes
    BY <1>1, <1>2, <2>1 DEF IsSeq, Outcomes
  <2>3. FirstOther(outcomes, "match") \in Outcomes /\ FirstOther(outcomes, "miss") \in Outcomes
    BY <2>2, FirstOtherIs DEF Outcomes
  <2>4. c.nested # <<>> => Negation(outcomes[1]) \in Outcomes
    <3>1. ASSUME c.nested # <<>> PROVE 1 \in DOMAIN outcomes
      BY <1>2, <2>1, <3>1 DEF IsSeq
    <3> QED BY <2>2, <3>1 DEF Negation, Outcomes
  <2> HIDE DEF Outcomes
  <2>5. "fault" \in Outcomes
    BY DEF Outcomes
  <2> QED BY <2>1, <2>3, <2>4, <2>5 DEF EvaluateLogical
<1>3. ASSUME NEW c, IsSeq(c.nested) PROVE EvaluateTop(c, ext) \in Outcomes
  BY <1>1, <1>2, <1>3 DEF EvaluateTop, Outcomes
<1>4. PICK outcomes : outcomes = [i \in DOMAIN rule.conditions |-> EvaluateTop(rule.conditions[i], ext)]
  OBVIOUS
<1>5. DOMAIN outcomes \subseteq Nat /\ \A i \in DOMAIN outcomes : outcomes[i] \in Outcomes
  BY <1>3, <1>4 DEF IsSeq
<1>6. EvaluateRule(rule, ext) = FirstOther(outcomes, "match")
  BY <1>4 DEF EvaluateRule
<1>7. "match" \in Outcomes
  BY DEF Outcomes
<1> QED BY <1>5, <1>6, <1>7, FirstOtherIs

IsRule(rule) ==
  /\ IsSeq(rule.conditions) /\ \A j \in DOMAIN rule.conditions : IsSeq(rule.conditions[j].nested)
  /\ IsSeq(rule.actions) /\ \A j \in DOMAIN rule.actions : rule.actions[j].terminal \in BOOLEAN

\* One outcome applied: a fault is counted, anything else leaves the count.
LEMMA ApplyOutcomeTyped ==
  ASSUME NEW acc \in Progress, NEW rule, IsRule(rule), NEW o \in Outcomes
  PROVE  /\ ApplyOutcome(acc, rule, o) \in Progress
         /\ ApplyOutcome(acc, rule, o).faults = IF o = "fault" THEN acc.faults + 1 ELSE acc.faults
<1>1. CASE o = "fault"
  <2>1. ApplyOutcome(acc, rule, o) = [acc EXCEPT !.faults = @ + 1]
    BY <1>1 DEF ApplyOutcome
  <2> QED BY <1>1, <2>1 DEF Progress
<1>2. CASE o = "escalate"
  <2>1. ApplyOutcome(acc, rule, o) = [acc EXCEPT !.action = "escalate", !.stop = TRUE]
    BY <1>2 DEF ApplyOutcome
  <2>2. "escalate" \in Actions
    BY DEF Actions
  <2> QED BY <1>2, <2>1, <2>2 DEF Progress
<1>3. CASE o = "match"
  <2>1. ApplyOutcome(acc, rule, o) = RunActions(acc, rule.actions)
    BY <1>3 DEF ApplyOutcome
  <2> QED BY <1>3, <2>1, RunActionsTyped DEF IsRule
<1>4. CASE o = "miss"
  BY <1>4 DEF ApplyOutcome
<1> QED BY <1>1, <1>2, <1>3, <1>4 DEF Outcomes

\* One rule judged: the count of faults never falls, and when it does not rise
\* the rule came out as if a fault had been a match.
LEMMA JudgeRuleTyped ==
  ASSUME NEW acc \in Progress, NEW rule, IsRule(rule), NEW ext
  PROVE  /\ JudgeRule(acc, rule, ext) \in Progress /\ JudgeAsMatch(acc, rule, ext) \in Progress
         /\ acc.faults <= JudgeRule(acc, rule, ext).faults
         /\ JudgeRule(acc, rule, ext).faults = acc.faults
              => JudgeRule(acc, rule, ext) = JudgeAsMatch(acc, rule, ext)
<1>0. acc.faults \in Nat
  BY DEF Progress
<1>1. PICK o : o = EvaluateRule(rule, ext)
  OBVIOUS
<1>2. o \in Outcomes /\ (IF o = "fault" THEN "match" ELSE o) \in Outcomes
  <2>1. o \in Outcomes
    BY <1>1, EvaluateRuleTyped DEF IsRule
  <2> QED BY <2>1 DEF Outcomes
<1>3. CASE acc.stop \/ ~rule.enabled
  BY <1>0, <1>3 DEF JudgeRule, JudgeAsMatch
<1>4. CASE ~(acc.stop \/ ~rule.enabled)
  <2>1. JudgeRule(acc, rule, ext) = ApplyOutcome(acc, rule, o)
    BY <1>1, <1>4 DEF JudgeRule
  <2>2. JudgeAsMatch(acc, rule, ext) = ApplyOutcome(acc, rule, IF o = "fault" THEN "match" ELSE o)
    BY <1>1, <1>4 DEF JudgeAsMatch
  <2>3. /\ ApplyOutcome(acc, rule, o) \in Progress
        /\ ApplyOutcome(acc, rule, o).faults = IF o = "fault" THEN acc.faults + 1 ELSE acc.faults
    BY <1>2, ApplyOutcomeTyped
  <2>4. ApplyOutcome(acc, rule, IF o = "fault" THEN "match" ELSE o) \in Progress
    BY <1>2, ApplyOutcomeTyped
  <2>5. CASE o = "fault"
    BY <1>0, <2>1, <2>2, <2>3, <2>4, <2>5
  <2>6. CASE o # "fault"
    BY <1>0, <2>1, <2>2, <2>3, <2>4, <2>6
  <2> QED BY <2>5, <2>6
<1> QED BY <1>3, <1>4

\* The rules of a policy are rules.
LEMMA PolicyRules ==
  ASSUME NEW p \in AllPolicies
  PROVE  Len(p.rules) \in Nat /\ \A n \in 1..Len(p.rules) : IsRule(p.rules[n])
  BY PolicyShape DEF IsSeq, IsRule

LEMMA UndecidedTyped == Undecided \in Progress /\ Undecided.faults = 0
  BY DEF Undecided, Progress, Actions

\* The trace of evaluatePolicy's loop.
LEMMA EvaluateTrace ==
  ASSUME NEW p \in AllPolicies, NEW ext
  PROVE  \E g : /\ EvaluatePolicy(p, ext) = g[Len(p.rules)]
                /\ g \in [0..Len(p.rules) -> Progress] /\ g[0] = Undecided
                /\ \A n \in 1..Len(p.rules) : g[n] = JudgeRule(g[n - 1], p.rules[n], ext)
<1>1. PICK L : L = Len(p.rules)
  OBVIOUS
<1>2. L \in Nat /\ \A n \in 1..L : IsRule(p.rules[n])
  BY <1>1, PolicyRules
<1>3. PICK T : T = [n \in 1..L |-> [a \in Progress |-> JudgeRule(a, p.rules[n], ext)]]
  OBVIOUS
<1>4. T \in [1..L -> [Progress -> Progress]]
  <2>1. ASSUME NEW n \in 1..L, NEW a \in Progress PROVE JudgeRule(a, p.rules[n], ext) \in Progress
    BY <1>2, JudgeRuleTyped
  <2> QED BY <1>3, <2>1
<1>5. \A a \in Progress, n \in 1..L : T[n][a] = JudgeRule(a, p.rules[n], ext)
  BY <1>3
<1> DEFINE P(f) == f = [n \in 0..L |-> IF n = 0 THEN Undecided ELSE JudgeRule(f[n - 1], p.rules[n], ext)]
<1>6. PICK h : Trace(h, Progress, Undecided, L, T)
  BY <1>2, <1>4, TraceExists, UndecidedTyped
<1>7. h \in [0..L -> Progress] /\ h[0] = Undecided /\ \A n \in 1..L : h[n] = T[n][h[n - 1]]
  BY <1>6 DEF Trace
<1>8. P(h)
  <2>1. ASSUME NEW n \in 0..L
        PROVE  h[n] = IF n = 0 THEN Undecided ELSE JudgeRule(h[n - 1], p.rules[n], ext)
    <3>1. CASE n = 0
      BY <1>7, <3>1
    <3>2. CASE n # 0
      <4>1. n \in 1..L /\ n - 1 \in 0..L
        BY <1>2, <3>2
      <4>2. h[n - 1] \in Progress
        BY <1>7, <4>1
      <4> QED BY <1>5, <1>7, <3>2, <4>1, <4>2
    <3> QED BY <3>1, <3>2
  <2> QED BY <1>7, <2>1
<1>9. PICK g : g = CHOOSE f : P(f)
  OBVIOUS
<1> HIDE DEF P
<1>10. P(g)
  BY <1>8, <1>9
<1>11. EvaluatePolicy(p, ext) = g[L]
  BY <1>1, <1>9 DEF EvaluatePolicy, P
<1>12. /\ g = [n \in 0..L |-> IF n = 0 THEN Undecided ELSE JudgeRule(g[n - 1], p.rules[n], ext)]
       /\ \A n \in 0..L : g[n] = IF n = 0 THEN Undecided ELSE JudgeRule(g[n - 1], p.rules[n], ext)
  BY <1>10 DEF P
<1>13. g[0] = Undecided /\ \A n \in 1..L : g[n] = JudgeRule(g[n - 1], p.rules[n], ext)
  <2>1. 0 \in 0..L /\ \A n \in 1..L : n \in 0..L /\ n # 0
    BY <1>2
  <2> QED BY <1>12, <2>1
<1> DEFINE S == {n \in 0..L : g[n] \in Progress}
<1>14. 0 \in S
  BY <1>2, <1>13, UndecidedTyped
<1>15. ASSUME NEW n \in 1..L, n - 1 \in S PROVE n \in S
  BY <1>2, <1>13, <1>15, JudgeRuleTyped
<1> HIDE DEF S
<1>16. \A n \in 0..L : n \in S
  BY <1>2, <1>14, <1>15, TraceKeeps
<1>17. g \in [0..L -> Progress]
  <2>1. \A n \in 0..L : g[n] \in Progress
    BY <1>16 DEF S
  <2> QED BY <1>12, <2>1
<1> QED BY <1>1, <1>11, <1>13, <1>17

\* The trace of the same loop with faults taken as matches.
LEMMA PessimisticTrace ==
  ASSUME NEW p \in AllPolicies, NEW ext
  PROVE  \E g : /\ PessimisticVerdict(p, ext) = g[Len(p.rules)] /\ g[0] = Undecided
                /\ \A n \in 1..Len(p.rules) : g[n] = JudgeAsMatch(g[n - 1], p.rules[n], ext)
<1>1. PICK L : L = Len(p.rules)
  OBVIOUS
<1>2. L \in Nat /\ \A n \in 1..L : IsRule(p.rules[n])
  BY <1>1, PolicyRules
<1>3. PICK T : T = [n \in 1..L |-> [a \in Progress |-> JudgeAsMatch(a, p.rules[n], ext)]]
  OBVIOUS
<1>4. T \in [1..L -> [Progress -> Progress]]
  <2>1. ASSUME NEW n \in 1..L, NEW a \in Progress PROVE JudgeAsMatch(a, p.rules[n], ext) \in Progress
    BY <1>2, JudgeRuleTyped
  <2> QED BY <1>3, <2>1
<1>5. \A a \in Progress, n \in 1..L : T[n][a] = JudgeAsMatch(a, p.rules[n], ext)
  BY <1>3
<1> DEFINE P(f) == f = [n \in 0..L |-> IF n = 0 THEN Undecided ELSE JudgeAsMatch(f[n - 1], p.rules[n], ext)]
<1>6. PICK h : Trace(h, Progress, Undecided, L, T)
  BY <1>2, <1>4, TraceExists, UndecidedTyped
<1>7. h \in [0..L -> Progress] /\ h[0] = Undecided /\ \A n \in 1..L : h[n] = T[n][h[n - 1]]
  BY <1>6 DEF Trace
<1>8. P(h)
  <2>1. ASSUME NEW n \in 0..L
        PROVE  h[n] = IF n = 0 THEN Undecided ELSE JudgeAsMatch(h[n - 1], p.rules[n], ext)
    <3>1. CASE n = 0
      BY <1>7, <3>1
    <3>2. CASE n # 0
      <4>1. n \in 1..L /\ n - 1 \in 0..L
        BY <1>2, <3>2
      <4>2. h[n - 1] \in Progress
        BY <1>7, <4>1
      <4> QED BY <1>5, <1>7, <3>2, <4>1, <4>2
    <3> QED BY <3>1, <3>2
  <2> QED BY <1>7, <2>1
<1>9. PICK g : g = CHOOSE f : P(f)
  OBVIOUS
<1> HIDE DEF P
<1>10. P(g)
  BY <1>8, <1>9
<1>11. PessimisticVerdict(p, ext) = g[L]
  BY <1>1, <1>9 DEF PessimisticVerdict, P
<1>12. /\ g = [n \in 0..L |-> IF n = 0 THEN Undecided ELSE JudgeAsMatch(g[n - 1], p.rules[n], ext)]
       /\ \A n \in 0..L : g[n] = IF n = 0 THEN Undecided ELSE JudgeAsMatch(g[n - 1], p.rules[n], ext)
  BY <1>10 DEF P
<1>13. g[0] = Undecided /\ \A n \in 1..L : g[n] = JudgeAsMatch(g[n - 1], p.rules[n], ext)
  <2>1. 0 \in 0..L /\ \A n \in 1..L : n \in 0..L /\ n # 0
    BY <1>2
  <2> QED BY <1>12, <2>1
<1> QED BY <1>1, <1>11, <1>13

\* A policy's verdict is typed, and when it reports no fault it is the one in
\* which every faulting rule had matched.
LEMMA EvaluatePolicyTyped ==
  ASSUME NEW p \in AllPolicies, NEW ext
  PROVE  /\ EvaluatePolicy(p, ext) \in Progress
         /\ EvaluatePolicy(p, ext).faults = 0 => PessimisticVerdict(p, ext) = EvaluatePolicy(p, ext)
<1>1. PICK g : /\ EvaluatePolicy(p, ext) = g[Len(p.rules)]
               /\ g \in [0..Len(p.rules) -> Progress] /\ g[0] = Undecided
               /\ \A n \in 1..Len(p.rules) : g[n] = JudgeRule(g[n - 1], p.rules[n], ext)
  BY EvaluateTrace
<1>2. PICK h : /\ PessimisticVerdict(p, ext) = h[Len(p.rules)] /\ h[0] = Undecided
               /\ \A n \in 1..Len(p.rules) : h[n] = JudgeAsMatch(h[n - 1], p.rules[n], ext)
  BY PessimisticTrace
<1>3. PICK L : L = Len(p.rules)
  OBVIOUS
<1>4. L \in Nat /\ \A n \in 1..L : IsRule(p.rules[n])
  BY <1>3, PolicyRules
<1>5. \A n \in 0..L : g[n] \in Progress /\ g[n].faults \in Nat
  BY <1>1, <1>3 DEF Progress
<1>6. EvaluatePolicy(p, ext) \in Progress
  BY <1>1, <1>3, <1>4, <1>5
<1>7. ASSUME g[L].faults = 0 PROVE h[L] = g[L]
  \* Up to n the two traces agree, or a fault was counted, and it stays counted.
  <2> DEFINE S == {n \in 0..L : h[n] = g[n] \/ g[n].faults > 0}
  <2>1. 0 \in S
    BY <1>1, <1>2, <1>4
  <2>2. ASSUME NEW n \in 1..L, n - 1 \in S PROVE n \in S
    <3>1. n \in 0..L /\ n - 1 \in 0..L
      BY <1>4
    <3>2. /\ g[n] = JudgeRule(g[n - 1], p.rules[n], ext) /\ g[n - 1] \in Progress /\ IsRule(p.rules[n])
          /\ h[n] = JudgeAsMatch(h[n - 1], p.rules[n], ext)
      BY <1>1, <1>2, <1>3, <1>4, <1>5, <3>1
    <3>3. /\ g[n - 1].faults <= g[n].faults
          /\ g[n].faults = g[n - 1].faults => g[n] = JudgeAsMatch(g[n - 1], p.rules[n], ext)
      BY <3>2, JudgeRuleTyped
    <3>4. g[n].faults \in Nat /\ g[n - 1].faults \in Nat
      BY <1>5, <3>1
    <3>5. CASE g[n - 1].faults > 0
      BY <3>1, <3>3, <3>4, <3>5
    <3>6. CASE h[n - 1] = g[n - 1]
      <4>1. g[n].faults = g[n - 1].faults => h[n] = g[n]
        BY <3>2, <3>3, <3>6
      <4>2. g[n].faults # g[n - 1].faults => g[n].faults > 0
        BY <3>3, <3>4
      <4> QED BY <3>1, <4>1, <4>2
    <3> QED BY <2>2, <3>5, <3>6
  <2> HIDE DEF S
  <2>3. \A n \in 0..L : n \in S
    BY <1>4, <2>1, <2>2, TraceKeeps
  <2>4. L \in S
    BY <1>4, <2>3
  <2> QED BY <1>7, <2>4 DEF S
<1> QED BY <1>1, <1>2, <1>3, <1>6, <1>7

-----------------------------------------------------------------------------
(* The evaluator. *)

\* The first n policies of the snapshot that apply to the request.
Applicable(e, n) == {i \in 1..n : Considered(ev[e].set[i], ev[e].ctx)}

\* What policyLoop has established once it has looked at n policies.
Decided(e, n) ==
  /\ ev[e].action \in {Verdict(ev[e].set[i]) : i \in Applicable(e, n)} \cup {"allow"}
  /\ \A i \in Applicable(e, n) : Rank(Verdict(ev[e].set[i])) <= Rank(ev[e].action)
  /\ ev[e].action = "deny" => ev[e].matched # NoPolicy /\ Verdict(ev[e].matched) = "deny"

LoopInv ==
  \A e \in Evaluations :
    /\ ev[e].pc = "loop" => /\ ~ev[e].refused
                            /\ ev[e].next \in 1..Len(ev[e].set) + 1
                            /\ Decided(e, ev[e].next - 1)
    /\ Judged(e) => Decided(e, Len(ev[e].set))

StrictInv == strictErr <=> opt.strict /\ ~ValidSet(policies)

Inv == TypeOK /\ StrictInv /\ StrictExact /\ LoopInv

\* Sorting rearranges a policy set and adds nothing to it.
LEMMA SortedIsSeq ==
  ASSUME NEW set \in Seq(AllPolicies), NEW sorted \in SortedVersions(set)
  PROVE  sorted \in Seq(AllPolicies)
<1>1. PICK f \in [DOMAIN set -> DOMAIN set] : sorted = [i \in DOMAIN set |-> set[f[i]]]
  BY DEF SortedVersions
<1>2. DOMAIN set = 1..Len(set) /\ Len(set) \in Nat
  OBVIOUS
<1>3. sorted \in [1..Len(set) -> AllPolicies]
  BY <1>1, <1>2
<1> QED BY <1>2, <1>3

LEMMA AllSetsAreSeqs == AllSets \cup {<<>>} \subseteq Seq(AllPolicies)
<1>1. ASSUME NEW s \in AllSets PROVE s \in Seq(AllPolicies)
  <2>1. PICK set \in InitialSets \cup PolicySets : s \in SortedVersions(set)
    BY DEF AllSets
  <2> QED BY <2>1, SortedIsSeq, PolicyAssumption
<1>2. <<>> \in Seq(AllPolicies)
  OBVIOUS
<1> QED BY <1>1, <1>2

\* Every verdict has a rank, and deny has the highest.
LEMMA RankBound ==
  ASSUME NEW a \in Actions
  PROVE  Rank(a) \in 0..4 /\ Rank("deny") = 4
BY DEF Actions, Rank

LEMMA VerdictInActions ==
  ASSUME TypeOK, NEW p \in AllPolicies
  PROVE  Verdict(p) \in Actions /\ EvaluatePolicy(p, opt.external).faults \in Nat
<1> QED BY EvaluatePolicyTyped DEF Verdict, VerdictOf, Progress

\* The switch of policyLoop keeps the stricter of the two actions.
LEMMA CombineKeepsStrictest ==
  ASSUME NEW r, NEW p, NEW a \in Actions,
         r.action \in Actions, "action" \in DOMAIN r, "matched" \in DOMAIN r
  PROVE  /\ Combine(r, p, a).action \in {a, r.action}
         /\ Rank(a) <= Rank(Combine(r, p, a).action)
         /\ Rank(r.action) <= Rank(Combine(r, p, a).action)
         /\ a = "deny" => Combine(r, p, a).action = "deny" /\ Combine(r, p, a).matched = p
         /\ Combine(r, p, a).action = "deny" /\ a # "deny"
              => r.action = "deny" /\ Combine(r, p, a) = r
         /\ Combine(r, p, a).matched \in {p, r.matched}
<1>1. CASE r.action \in Overridden(a)
  <2> DEFINE m == IF a = "deny" THEN p ELSE FirstNonNil(r.matched, p)
  <2>1. Combine(r, p, a) = [r EXCEPT !.action = a, !.matched = m]
    BY <1>1 DEF Combine
  <2>2. Combine(r, p, a).action = a /\ Combine(r, p, a).matched = m
    BY <2>1
  <2>3. m \in {p, r.matched} /\ (a = "deny" => m = p)
    BY DEF FirstNonNil
  <2>4. Rank(r.action) <= Rank(a)
    BY <1>1 DEF Overridden, Rank, Actions
  <2>5. Rank(a) <= Rank(a)
    BY RankBound
  <2> HIDE DEF m
  <2> QED BY <2>1, <2>2, <2>3, <2>4, <2>5
<1>2. CASE r.action \notin Overridden(a)
  <2>1. Combine(r, p, a) = r
    BY <1>2 DEF Combine
  <2>2. Rank(a) <= Rank(r.action) /\ a # "deny"
    BY <1>2 DEF Overridden, Rank, Actions
  <2>3. Rank(r.action) <= Rank(r.action)
    BY RankBound
  <2> QED BY <2>1, <2>2, <2>3
<1> QED BY <1>1, <1>2

LEMMA CombineType ==
  ASSUME NEW r \in Call, NEW p \in AllPolicies, NEW a \in Actions
  PROVE  /\ Combine(r, p, a) \in Call
         /\ Combine(r, p, a).set = r.set /\ Combine(r, p, a).ctx = r.ctx
         /\ Combine(r, p, a).next = r.next /\ Combine(r, p, a).refused = r.refused
         /\ Combine(r, p, a).faults = r.faults
<1> DEFINE m == IF a = "deny" THEN p ELSE FirstNonNil(r.matched, p)
<1>1. m \in AllPolicies \cup {NoPolicy}
  BY DEF FirstNonNil, Call
<1>2. Combine(r, p, a) = IF r.action \in Overridden(a)
                         THEN [r EXCEPT !.action = a, !.matched = m] ELSE r
  BY DEF Combine
<1> HIDE DEF m
<1> QED BY <1>1, <1>2 DEF Call

LEMMA InitInv == EvalInit => Inv
<1> SUFFICES ASSUME EvalInit PROVE Inv
  OBVIOUS
<1>1. policies \in AllSets
  BY DEF EvalInit, AllSets
<1>2. Idle \in Call
  BY DEF Idle, Call, Actions
<1>3. TypeOK
  BY <1>1, <1>2, PolicyAssumption DEF EvalInit, TypeOK
<1>4. StrictInv /\ StrictExact /\ LoopInv
  BY DEF EvalInit, StrictInv, StrictExact, LoopInv, Judged, Idle
<1> QED BY <1>3, <1>4 DEF Inv

\* The rows of Decided for one call depend on that call and on opt only.
LEMMA DecidedStable ==
  ASSUME opt' = opt, NEW e, ev'[e] = ev[e], NEW n, Decided(e, n)
  PROVE  Decided(e, n)'
BY DEF Decided, Applicable, Verdict

LEMMA NextInv == Inv /\ [EvalNext]_evalVars => Inv'
<1> SUFFICES ASSUME Inv, [EvalNext]_evalVars PROVE Inv'
  OBVIOUS
<1> USE DEF Inv
<1>1. CASE UpdatePolicies
  <2>0. PICK set \in PolicySets : \E sorted \in SortedVersions(set) : Install(sorted)
    BY <1>1 DEF UpdatePolicies
  <2>1. PICK sorted \in SortedVersions(set) : Install(sorted)
    BY <2>0
  <2>2. policies' \in AllSets
    BY <2>1 DEF Install, AllSets
  <2>3. TypeOK'
    BY <1>1, <2>1, <2>2, PolicyAssumption DEF UpdatePolicies, Install, TypeOK
  <2>4. StrictInv'
    BY <1>1, <2>1 DEF UpdatePolicies, Install, StrictInv
  <2>5. StrictExact'
    BY <1>1 DEF UpdatePolicies, StrictExact
  <2>6. LoopInv'
    BY <1>1, DecidedStable DEF UpdatePolicies, LoopInv, Judged
  <2> QED BY <2>3, <2>4, <2>5, <2>6
<1>2. ASSUME NEW e \in Evaluations, SnapshotPolicies(e) PROVE Inv'
  <2>1. PICK ctx \in Contexts :
          ev' = [ev EXCEPT ![e] = IF strictErr
                               THEN [Idle EXCEPT !.pc = "done", !.set = policies, !.ctx = ctx,
                                                 !.action = "deny", !.refused = TRUE]
                               ELSE [Idle EXCEPT !.pc = "loop", !.set = policies, !.ctx = ctx,
                                                 !.next = 1]]
    BY <1>2 DEF SnapshotPolicies
  <2>2. TypeOK'
    BY <1>2, <2>1 DEF SnapshotPolicies, TypeOK, Idle, Call, Actions
  <2>3. StrictInv'
    BY <1>2 DEF SnapshotPolicies, StrictInv
  <2>4. /\ ev'[e].set = policies /\ ev'[e].refused = strictErr
        /\ ev'[e].pc = IF strictErr THEN "done" ELSE "loop"
        /\ ev'[e].next = IF strictErr THEN 0 ELSE 1
        /\ ~strictErr => ev'[e].action = "allow"
    BY <2>1 DEF TypeOK, Idle
  <2>5. \A d \in Evaluations \ {e} : ev'[d] = ev[d]
    BY <2>1 DEF TypeOK
  <2>6. opt' = opt
    BY <1>2 DEF SnapshotPolicies
  <2>7. StrictExact'
    BY <2>4, <2>5, <2>6 DEF StrictExact, StrictInv
  <2>8. ~strictErr => Decided(e, 0)'
    <3>1. Applicable(e, 0)' = {}
      BY DEF Applicable
    <3> QED BY <3>1, <2>4 DEF Decided
  <2>9. Len(policies) \in Nat
    BY AllSetsAreSeqs DEF TypeOK
  <2>10. LoopInv'
    <3> SUFFICES ASSUME NEW d \in Evaluations
                 PROVE  /\ ev'[d].pc = "loop" => /\ ~ev'[d].refused
                                                 /\ ev'[d].next \in 1..Len(ev'[d].set) + 1
                                                 /\ Decided(d, ev[d].next - 1)'
                        /\ Judged(d)' => Decided(d, Len(ev[d].set))'
      BY DEF LoopInv
    <3>1. CASE d = e
      BY <2>4, <2>8, <2>9, <3>1 DEF Judged
    <3>2. CASE d # e
      BY <2>5, <2>6, <3>2, DecidedStable DEF LoopInv, Judged
    <3> QED BY <3>1, <3>2
  <2> QED BY <2>2, <2>3, <2>7, <2>10
<1>3. ASSUME NEW e \in Evaluations, Return(e) PROVE Inv'
  <2>1. TypeOK'
    BY <1>3 DEF Return, TypeOK, Call
  <2>2. StrictInv'
    BY <1>3 DEF Return, StrictInv
  <2>3. /\ ev'[e] = [ev[e] EXCEPT !.pc = "done"] /\ ev[e].pc = "loop"
        /\ \A d \in Evaluations \ {e} : ev'[d] = ev[d]
        /\ opt' = opt
    BY <1>3 DEF Return, TypeOK
  <2>4. /\ ev'[e].set = ev[e].set /\ ev'[e].refused = ev[e].refused /\ ev'[e].ctx = ev[e].ctx
        /\ ev'[e].action = ev[e].action /\ ev'[e].matched = ev[e].matched
        /\ ev'[e].pc = "done"
    BY <2>3 DEF TypeOK, Call
  <2>5. StrictExact'
    BY <2>3, <2>4 DEF StrictExact
  <2>6. Len(ev[e].set) \in Nat
    BY AllSetsAreSeqs DEF TypeOK, Call
  <2>7. ev[e].next - 1 = Len(ev[e].set)
    BY <1>3, <2>3, <2>6 DEF Return, LoopInv
  <2>8. Decided(e, Len(ev[e].set))'
    BY <2>3, <2>4, <2>7 DEF LoopInv, Decided, Applicable, Verdict
  <2>9. LoopInv'
    <3> SUFFICES ASSUME NEW d \in Evaluations
                 PROVE  /\ ev'[d].pc = "loop" => /\ ~ev'[d].refused
                                                 /\ ev'[d].next \in 1..Len(ev'[d].set) + 1
                                                 /\ Decided(d, ev[d].next - 1)'
                        /\ Judged(d)' => Decided(d, Len(ev[d].set))'
      BY DEF LoopInv
    <3>1. CASE d = e
      BY <2>4, <2>8, <3>1
    <3>2. CASE d # e
      BY <2>3, <3>2, DecidedStable DEF LoopInv, Judged
    <3> QED BY <3>1, <3>2
  <2> QED BY <2>1, <2>2, <2>5, <2>9
<1>4. ASSUME NEW e \in Evaluations, Judge(e) PROVE Inv'
  <2>0. PICK k : k = ev[e].next
    OBVIOUS
  <2> DEFINE p == ev[e].set[k]
             verdict == EvaluatePolicy(p, opt.external)
             r == [ev[e] EXCEPT !.next = @ + 1]
             c == Combine(r, p, verdict.action)
             sum == c.faults + verdict.faults
             pc == IF verdict.action = "deny" /\ opt.stopOnDeny THEN "done" ELSE "loop"
             new == [c EXCEPT !.faults = sum, !.pc = pc]
             res == IF ~Considered(p, ev[e].ctx) THEN r ELSE new
  <2>1. /\ ev[e].pc = "loop" /\ k <= Len(ev[e].set)
        /\ ev' = [ev EXCEPT ![e] = res]
        /\ UNCHANGED <<opt, policies, strictErr, updates>>
    BY <1>4, <2>0 DEF Judge
  <2>2. ev[e] \in Call /\ ev'[e] = res /\ \A d \in Evaluations \ {e} : ev'[d] = ev[d]
    BY <2>1 DEF TypeOK
  <2>3. /\ ~ev[e].refused /\ k \in 1..Len(ev[e].set) /\ Decided(e, k - 1)
        /\ Len(ev[e].set) \in Nat /\ \A i \in 1..Len(ev[e].set) : ev[e].set[i] \in AllPolicies
    BY <2>0, <2>1, <2>2, AllSetsAreSeqs DEF LoopInv, Call
  <2>4. p \in AllPolicies /\ Verdict(p) = verdict.action
    BY <2>3 DEF Verdict, VerdictOf
  <2>5. verdict.action \in Actions /\ verdict.faults \in Nat
    BY <2>4, VerdictInActions
  <2>6. /\ r \in Call /\ r.next = k + 1 /\ r.set = ev[e].set /\ r.ctx = ev[e].ctx
        /\ r.action = ev[e].action /\ r.matched = ev[e].matched /\ r.refused = ev[e].refused
        /\ r.pc = "loop" /\ r.action \in Actions
    BY <2>0, <2>1, <2>2, <2>3 DEF Call
  <2>7. "action" \in DOMAIN r /\ "matched" \in DOMAIN r
    BY <2>6 DEF Call
  <2> HIDE DEF p, verdict, r
  <2>8. /\ c \in Call /\ c.set = r.set /\ c.ctx = r.ctx /\ c.next = r.next
        /\ c.refused = r.refused
    BY <2>4, <2>5, <2>6, CombineType
  <2>9. /\ c.action \in {verdict.action, r.action} /\ c.matched \in {p, r.matched}
        /\ Rank(verdict.action) <= Rank(c.action) /\ Rank(r.action) <= Rank(c.action)
        /\ verdict.action = "deny" => c.action = "deny" /\ c.matched = p
        /\ c.action = "deny" /\ verdict.action # "deny" => r.action = "deny" /\ c = r
    BY <2>5, <2>6, <2>7, CombineKeepsStrictest
  <2> HIDE DEF c
  <2>10. /\ new \in Call /\ new.set = c.set /\ new.ctx = c.ctx /\ new.next = c.next
         /\ new.refused = c.refused /\ new.action = c.action /\ new.matched = c.matched
         /\ new.pc \in {"loop", "done"} /\ (new.pc = "done" => verdict.action = "deny")
    <3>1. sum \in Nat
      BY <2>5, <2>8 DEF Call
    <3>2. pc \in {"loop", "done"} /\ (pc = "done" => verdict.action = "deny")
      OBVIOUS
    <3> HIDE DEF sum, pc
    <3> QED BY <2>8, <3>1, <3>2 DEF Call
  <2> HIDE DEF new
  <2>11. TypeOK'
    BY <2>1, <2>2, <2>6, <2>10 DEF TypeOK
  <2>12. StrictInv'
    BY <2>1 DEF StrictInv
  <2>13. /\ res.set = ev[e].set /\ res.ctx = ev[e].ctx /\ res.next = k + 1
         /\ ~res.refused /\ res.pc \in {"loop", "done"}
    BY <2>3, <2>6, <2>8, <2>10
  <2>14. StrictExact'
    BY <2>1, <2>2, <2>3, <2>13 DEF StrictExact
  <2>15. Decided(e, k)'
    <3>1. \A q : Verdict(q)' = Verdict(q)
      BY <2>1 DEF Verdict
    <3>2. Applicable(e, k)' = Applicable(e, k - 1) \cup
                                (IF Considered(p, ev[e].ctx) THEN {k} ELSE {})
      BY <2>2, <2>3, <2>13 DEF Applicable, p
    <3>3. CASE ~Considered(p, ev[e].ctx)
      <4>1. res.action = ev[e].action /\ res.matched = ev[e].matched
        BY <2>6, <3>3
      <4>2. Applicable(e, k)' = Applicable(e, k - 1)
        BY <3>2, <3>3
      <4> QED BY <2>2, <2>3, <2>13, <3>1, <4>1, <4>2 DEF Decided
    <3>4. CASE Considered(p, ev[e].ctx)
      <4>1. res.action = c.action /\ res.matched = c.matched
        BY <2>10, <3>4
      <4>2. Applicable(e, k)' = Applicable(e, k - 1) \cup {k}
        BY <3>2, <3>4
      <4>3. Verdict(ev[e].set[k]) = verdict.action
        BY <2>4 DEF p
      <4>4. c.action \in {Verdict(ev[e].set[i]) : i \in Applicable(e, k - 1) \cup {k}} \cup {"allow"}
        BY <2>3, <2>6, <2>9, <4>3 DEF Decided
      <4>5. ASSUME NEW i \in Applicable(e, k - 1) \cup {k}
            PROVE  Rank(Verdict(ev[e].set[i])) <= Rank(c.action)
        <5>1. CASE i = k
          BY <2>9, <4>3, <5>1
        <5>2. CASE i \in Applicable(e, k - 1)
          <6>1. Rank(Verdict(ev[e].set[i])) <= Rank(r.action)
            BY <2>3, <2>6, <5>2 DEF Decided
          <6>2. i \in 1..Len(ev[e].set)
            BY <2>3, <5>2 DEF Applicable
          <6>3. Verdict(ev[e].set[i]) \in Actions /\ r.action \in Actions /\ c.action \in Actions
            BY <2>3, <2>6, <2>8, <6>2, VerdictInActions DEF Call
          <6> QED BY <2>9, <6>1, <6>3, RankBound
        <5> QED BY <5>1, <5>2
      <4>6. c.action = "deny" => c.matched # NoPolicy /\ Verdict(c.matched) = "deny"
        <5>1. p # NoPolicy
          BY <2>4, PolicyAssumption
        <5>2. CASE verdict.action = "deny"
          BY <2>4, <2>9, <5>1, <5>2
        <5>3. CASE verdict.action # "deny"
          BY <2>3, <2>6, <2>9, <5>3 DEF Decided
        <5> QED BY <5>2, <5>3
      <4> QED BY <2>2, <2>13, <3>1, <4>1, <4>2, <4>4, <4>5, <4>6 DEF Decided
    <3> QED BY <3>3, <3>4
  <2>16. res.pc = "done" => Decided(e, Len(ev[e].set))'
    <3> SUFFICES ASSUME res.pc = "done" PROVE Decided(e, Len(ev[e].set))'
      OBVIOUS
    <3>1. verdict.action = "deny" /\ Considered(p, ev[e].ctx) /\ res.action = "deny"
      BY <2>6, <2>9, <2>10
    <3>2. Verdict(ev[e].set[k])' = "deny" /\ k \in Applicable(e, Len(ev[e].set))'
      BY <2>1, <2>2, <2>3, <2>4, <2>13, <3>1 DEF Applicable, Verdict, p
    <3>3. \A i \in Applicable(e, Len(ev[e].set))' : Rank(Verdict(ev[e].set[i])') <= Rank("deny")
      <4> SUFFICES ASSUME NEW i \in 1..Len(ev[e].set)
                   PROVE  Rank(Verdict(ev[e].set[i])') <= Rank("deny")
        BY <2>2, <2>13 DEF Applicable
      <4>1. ev'[e].set[i] \in AllPolicies /\ ev'[e].set = ev[e].set
        BY <2>2, <2>3, <2>13
      <4>2. Verdict(ev[e].set[i])' \in Actions
        BY <2>1, <2>3, <4>1, VerdictInActions DEF Verdict
      <4> QED BY <4>2, RankBound
    <3> QED BY <2>2, <2>13, <2>15, <3>1, <3>2, <3>3 DEF Decided
  <2>17. LoopInv'
    <3> SUFFICES ASSUME NEW d \in Evaluations
                 PROVE  /\ ev'[d].pc = "loop" => /\ ~ev'[d].refused
                                                 /\ ev'[d].next \in 1..Len(ev'[d].set) + 1
                                                 /\ Decided(d, ev[d].next - 1)'
                        /\ Judged(d)' => Decided(d, Len(ev[d].set))'
      BY DEF LoopInv
    <3>1. CASE d = e
      <4>0. ev'[e].next = k + 1 /\ ev'[e].set = ev[e].set
        BY <2>2, <2>13
      <4>1. ev'[e].next - 1 = k /\ ev'[e].next \in 1..Len(ev'[e].set) + 1
        BY <2>3, <4>0
      <4> QED BY <2>2, <2>13, <2>15, <2>16, <3>1, <4>1 DEF Judged
    <3>2. CASE d # e
      BY <2>1, <2>2, <3>2, DecidedStable DEF LoopInv, Judged
    <3> QED BY <3>1, <3>2
  <2> QED BY <2>11, <2>12, <2>14, <2>17
<1>5. CASE UNCHANGED evalVars
  <2>1. TypeOK' /\ StrictInv' /\ StrictExact'
    BY <1>5 DEF evalVars, TypeOK, StrictInv, StrictExact
  <2>2. LoopInv'
    BY <1>5, DecidedStable DEF evalVars, LoopInv, Judged
  <2> QED BY <2>1, <2>2
<1> QED BY <1>1, <1>2, <1>3, <1>4, <1>5 DEF EvalNext

LEMMA SpecInv == EvalSpec => []Inv
BY InitInv, NextInv, PTL DEF EvalSpec

\* Every call's record, the installed set and the fail-closed flag keep their
\* types through any interleaving of UpdatePolicies and Evaluate.
THEOREM PolicyTypes == EvalSpec => []TypeOK
<1>1. Inv => TypeOK
  BY DEF Inv
<1> QED BY <1>1, SpecInv, PTL

\* A strict evaluator refuses a call exactly when the set the call would have
\* used is invalid, however UpdatePolicies interleaves with Evaluate.
THEOREM PolicyStrictExact == EvalSpec => []StrictExact
<1>1. Inv => StrictExact
  BY DEF Inv
<1> QED BY <1>1, SpecInv, PTL

\* Evaluate returns the strictest verdict of the applicable policies of its
\* snapshot, whatever order the unstable sort left them in and whether or not
\* the loop stopped at the first deny.
THEOREM PolicyStrictestWins == EvalSpec => []StrictestPolicyWins
<1>1. Inv => StrictestPolicyWins
  <2> SUFFICES ASSUME Inv, NEW e \in Evaluations, Judged(e)
               PROVE  IsStrictest(ev[e].action, Verdicts(e, Verdict))
    BY DEF StrictestPolicyWins
  <2>1. Decided(e, Len(ev[e].set))
    BY DEF Inv, LoopInv
  <2>2. DOMAIN ev[e].set = 1..Len(ev[e].set)
    BY AllSetsAreSeqs DEF Inv, TypeOK, Call
  <2>3. Verdicts(e, Verdict) = {Verdict(ev[e].set[i]) : i \in Applicable(e, Len(ev[e].set))}
    BY <2>2 DEF Verdicts, Applicable
  <2> QED BY <2>1, <2>3 DEF Decided, IsStrictest
<1> QED BY <1>1, SpecInv, PTL

\* A deny that Evaluate returns names a policy that denies.
THEOREM PolicyDenyAttributed == EvalSpec => []DenyAttributed
<1>1. Inv => DenyAttributed
  <2> SUFFICES ASSUME Inv, NEW e \in Evaluations, Judged(e), ev[e].action = "deny"
               PROVE  ev[e].matched # NoPolicy /\ Verdict(ev[e].matched) = "deny"
    BY DEF DenyAttributed
  <2>1. Decided(e, Len(ev[e].set))
    BY DEF Inv, LoopInv
  <2> QED BY <2>1 DEF Decided
<1> QED BY <1>1, SpecInv, PTL

-----------------------------------------------------------------------------
(* The faults that are reported. *)

Faultless(e, i) == EvaluatePolicy(ev[e].set[i], opt.external).faults = 0

\* While no fault is reported, none of the applicable policies judged so far had
\* one; a call that stopped early stopped at such a policy, which denied.
FaultInvOf(e) ==
  ev[e].faults = 0 =>
    /\ ev[e].pc = "loop" => \A i \in Applicable(e, ev[e].next - 1) : Faultless(e, i)
    /\ Judged(e) =>
         \/ \A i \in Applicable(e, Len(ev[e].set)) : Faultless(e, i)
         \/ /\ ev[e].action = "deny"
            /\ \E i \in Applicable(e, Len(ev[e].set)) :
                 Faultless(e, i) /\ Verdict(ev[e].set[i]) = "deny"

FaultInv == \A e \in Evaluations : FaultInvOf(e)

\* A call that does not move keeps its account.
LEMMA FaultsStable ==
  ASSUME opt' = opt, NEW e, ev'[e] = ev[e], FaultInvOf(e)
  PROVE  FaultInvOf(e)'
BY DEF FaultInvOf, Applicable, Faultless, Verdict, Judged

\* One call moves.
LEMMA FaultsStep ==
  ASSUME TypeOK, opt' = opt, \A e \in Evaluations : FaultInvOf(e), NEW e \in Evaluations,
         NEW x, ev' = [ev EXCEPT ![e] = x], FaultInvOf(e)'
  PROVE  (\A d \in Evaluations : FaultInvOf(d))'
<1>1. ASSUME NEW d \in Evaluations PROVE FaultInvOf(d)'
  <2>1. CASE d = e
    BY <2>1
  <2>2. CASE d # e
    <3>1. ev'[d] = ev[d]
      BY <2>2 DEF TypeOK
    <3> QED BY <3>1, FaultsStable
  <2> QED BY <2>1, <2>2
<1> QED BY <1>1

\* A turn of policyLoop adds the faults of the policy it judged.
LEMMA JudgeFaults ==
  ASSUME Inv, NEW e \in Evaluations, Judge(e), FaultInvOf(e)
  PROVE  FaultInvOf(e)' /\ opt' = opt /\ \E x : ev' = [ev EXCEPT ![e] = x]
<1>1. PICK k : k = ev[e].next
  OBVIOUS
<1>2. PICK p : p = ev[e].set[k]
  OBVIOUS
<1>3. PICK v : v = EvaluatePolicy(p, opt.external)
  OBVIOUS
<1>4. PICK r : r = [ev[e] EXCEPT !.next = @ + 1]
  OBVIOUS
<1>5. PICK c : c = Combine(r, p, v.action)
  OBVIOUS
<1>6. PICK pc : pc = IF v.action = "deny" /\ opt.stopOnDeny THEN "done" ELSE "loop"
  OBVIOUS
<1>7. PICK new : new = [c EXCEPT !.faults = @ + v.faults, !.pc = pc]
  OBVIOUS
<1>8. PICK x : x = IF ~Considered(p, ev[e].ctx) THEN r ELSE new
  OBVIOUS
<1>9. /\ ev[e].pc = "loop" /\ k <= Len(ev[e].set) /\ opt' = opt
      /\ ev' = [ev EXCEPT ![e] = x]
  BY <1>1, <1>2, <1>3, <1>4, <1>5, <1>6, <1>7, <1>8 DEF Judge
<1>10. ev[e] \in Call /\ ev'[e] = x
  BY <1>9 DEF Inv, TypeOK
<1>11. /\ ~ev[e].refused /\ k \in 1..Len(ev[e].set) /\ Len(ev[e].set) \in Nat /\ p \in AllPolicies
  BY <1>1, <1>2, <1>9, <1>10, AllSetsAreSeqs DEF Inv, LoopInv, Call
<1>12. v.action \in Actions /\ v.faults \in Nat /\ v.action = Verdict(p)
  BY <1>3, <1>11, VerdictInActions DEF Inv, Verdict, VerdictOf
<1>13. /\ r \in Call /\ r.next = k + 1 /\ r.set = ev[e].set /\ r.ctx = ev[e].ctx
       /\ r.faults = ev[e].faults /\ r.pc = "loop" /\ r.action \in Actions
  BY <1>1, <1>4, <1>9, <1>10, <1>11 DEF Call
<1>14. /\ c \in Call /\ c.set = r.set /\ c.ctx = r.ctx /\ c.next = r.next /\ c.faults = r.faults
  BY <1>5, <1>11, <1>12, <1>13, CombineType
<1>15. v.action = "deny" => c.action = "deny"
  <2>1. "action" \in DOMAIN r /\ "matched" \in DOMAIN r
    BY <1>13 DEF Call
  <2> QED BY <1>5, <1>12, <1>13, <2>1, CombineKeepsStrictest
<1>16. /\ new.set = ev[e].set /\ new.ctx = ev[e].ctx /\ new.next = k + 1 /\ new.pc = pc
       /\ new.action = c.action /\ new.faults = ev[e].faults + v.faults
  BY <1>7, <1>13, <1>14 DEF Call
<1>17. /\ x.set = ev[e].set /\ x.ctx = ev[e].ctx /\ x.next = k + 1 /\ x.next - 1 = k
  BY <1>8, <1>11, <1>13, <1>16
<1>18. \A i : Faultless(e, i)' <=> Faultless(e, i)
  BY <1>9, <1>10, <1>17 DEF Faultless
<1>19. \A n : Applicable(e, n)' = Applicable(e, n)
  BY <1>10, <1>17 DEF Applicable
<1>20. k - 1 \in Nat /\ Applicable(e, k) \subseteq Applicable(e, k - 1) \cup {k}
  BY <1>11 DEF Applicable
<1>21. ev[e].faults = 0 => \A i \in Applicable(e, k - 1) : Faultless(e, i)
  BY <1>1, <1>9 DEF FaultInvOf
<1>22. CASE ~Considered(p, ev[e].ctx)
  <2>1. x.faults = ev[e].faults /\ x.pc = "loop" /\ k \notin Applicable(e, k)
    BY <1>2, <1>8, <1>13, <1>22 DEF Applicable
  <2>2. ev[e].faults = 0 => \A i \in Applicable(e, k) : Faultless(e, i)
    BY <1>20, <1>21, <2>1
  <2>3. FaultInvOf(e)'
    BY <1>10, <1>17, <1>18, <1>19, <2>1, <2>2 DEF FaultInvOf, Judged
  <2> QED BY <1>9, <2>3
<1>23. CASE Considered(p, ev[e].ctx)
  <2>1. /\ x.faults = ev[e].faults + v.faults /\ x.pc = pc
        /\ x.action = c.action
    BY <1>8, <1>16, <1>23
  <2>2. ev[e].faults \in Nat
    BY <1>10 DEF Call
  <2>3. x.faults = 0 => ev[e].faults = 0 /\ Faultless(e, k)
    BY <1>2, <1>3, <1>12, <2>1, <2>2 DEF Faultless
  <2>4. x.faults = 0 => \A i \in Applicable(e, k) : Faultless(e, i)
    BY <1>20, <1>21, <2>3
  <2>5. k \in Applicable(e, Len(ev[e].set))
    BY <1>2, <1>11, <1>23 DEF Applicable
  <2>6. pc = "done" => x.action = "deny" /\ Verdict(ev[e].set[k])' = "deny"
    BY <1>2, <1>6, <1>9, <1>10, <1>12, <1>15, <1>17, <2>1 DEF Verdict
  <2>7. pc = "loop" \/ pc = "done"
    BY <1>6
  <2>8. CASE pc = "loop"
    <3>1. FaultInvOf(e)'
      BY <1>10, <1>17, <1>18, <1>19, <2>1, <2>4, <2>8 DEF FaultInvOf, Judged
    <3> QED BY <1>9, <3>1
  <2>9. CASE pc = "done"
    <3>1. k \in Applicable(e, Len(ev[e].set))'
      BY <1>10, <1>17, <1>19, <2>5
    <3>2. x.faults = 0 => Faultless(e, k)'
      BY <1>18, <2>3
    <3>3. FaultInvOf(e)'
      BY <1>10, <2>1, <2>6, <2>9, <3>1, <3>2 DEF FaultInvOf
    <3> QED BY <1>9, <3>3
  <2> QED BY <2>7, <2>8, <2>9
<1> QED BY <1>22, <1>23

\* Every step keeps the account of faults.
LEMMA FaultsNext == Inv /\ FaultInv /\ [EvalNext]_evalVars => FaultInv'
<1> SUFFICES ASSUME Inv, \A e \in Evaluations : FaultInvOf(e), [EvalNext]_evalVars
             PROVE  (\A e \in Evaluations : FaultInvOf(e))'
  BY DEF FaultInv
<1>1. TypeOK
  BY DEF Inv
<1>2. CASE UpdatePolicies \/ UNCHANGED evalVars
  <2>1. opt' = opt /\ ev' = ev
    BY <1>2 DEF UpdatePolicies, evalVars
  <2> QED BY <2>1, FaultsStable
<1>3. ASSUME NEW e \in Evaluations, SnapshotPolicies(e) PROVE (\A d \in Evaluations : FaultInvOf(d))'
  <2>1. PICK ctx \in Contexts :
          ev' = [ev EXCEPT ![e] = IF strictErr
                               THEN [Idle EXCEPT !.pc = "done", !.set = policies, !.ctx = ctx,
                                                 !.action = "deny", !.refused = TRUE]
                               ELSE [Idle EXCEPT !.pc = "loop", !.set = policies, !.ctx = ctx,
                                                 !.next = 1]]
    BY <1>3 DEF SnapshotPolicies
  <2>2. /\ ev'[e].refused = strictErr
        /\ ev'[e].pc = IF strictErr THEN "done" ELSE "loop"
        /\ ev'[e].next = IF strictErr THEN 0 ELSE 1
    BY <1>1, <2>1 DEF TypeOK, Idle
  <2>3. opt' = opt /\ \E x : ev' = [ev EXCEPT ![e] = x]
    BY <1>3, <2>1 DEF SnapshotPolicies
  <2>4. Applicable(e, 0)' = {}
    BY DEF Applicable
  <2>5. FaultInvOf(e)'
    BY <2>2, <2>4 DEF FaultInvOf, Judged
  <2> QED BY <1>1, <2>3, <2>5, FaultsStep
<1>4. ASSUME NEW e \in Evaluations, Judge(e) PROVE (\A d \in Evaluations : FaultInvOf(d))'
  BY <1>1, <1>4, JudgeFaults, FaultsStep
<1>5. ASSUME NEW e \in Evaluations, Return(e) PROVE (\A d \in Evaluations : FaultInvOf(d))'
  <2>1. PICK x : x = [ev[e] EXCEPT !.pc = "done"]
    OBVIOUS
  <2>2. /\ ev' = [ev EXCEPT ![e] = x] /\ ev'[e] = x /\ ev[e].pc = "loop" /\ opt' = opt /\ ev[e] \in Call
    BY <1>1, <1>5, <2>1 DEF TypeOK, Return
  <2>3. /\ x.pc = "done" /\ x.set = ev[e].set /\ x.ctx = ev[e].ctx /\ x.faults = ev[e].faults
        /\ x.refused = ev[e].refused
    BY <2>1, <2>2 DEF Call
  <2>4. Len(ev[e].set) \in Nat
    BY <2>2, AllSetsAreSeqs DEF Call
  <2>5. ev[e].next - 1 = Len(ev[e].set)
    BY <1>5, <2>2, <2>4 DEF Return, Inv, LoopInv
  <2>6. ev[e].faults = 0 => \A i \in Applicable(e, Len(ev[e].set)) : Faultless(e, i)
    BY <2>2, <2>5 DEF FaultInvOf
  <2>7. \A i : Faultless(e, i)' <=> Faultless(e, i)
    BY <2>2, <2>3 DEF Faultless
  <2>8. Applicable(e, Len(ev[e].set))' = Applicable(e, Len(ev[e].set))
    BY <2>2, <2>3 DEF Applicable
  <2>9. FaultInvOf(e)'
    BY <2>2, <2>3, <2>6, <2>7, <2>8 DEF FaultInvOf
  <2> QED BY <1>1, <2>2, <2>9, FaultsStep
<1> QED BY <1>2, <1>3, <1>4, <1>5 DEF EvalNext

\* A skipped rule never weakens a decision silently: when Evaluate reports no
\* fault its action is the strictest verdict of the applicable policies of its
\* snapshot with every faulting rule taken as a match, for every catalogue of
\* policies, however long their lists of rules, conditions and actions
\* (evaluatePolicy's continue on an error, EvaluationErrors).
THEOREM PolicyNoSilentSkip == EvalSpec => []NoSilentSkip
<1>1. EvalInit => FaultInv
  BY DEF EvalInit, FaultInv, FaultInvOf, Judged, Idle
<1>2. Inv /\ FaultInv => NoSilentSkip
  <2> SUFFICES ASSUME Inv, FaultInv, NEW e \in Evaluations, Judged(e), ev[e].faults = 0
               PROVE  IsStrictest(ev[e].action, Verdicts(e, Pessimistic))
    BY DEF NoSilentSkip
  <2>1. PICK A : A = Applicable(e, Len(ev[e].set))
    OBVIOUS
  <2>2. /\ Decided(e, Len(ev[e].set)) /\ DOMAIN ev[e].set = 1..Len(ev[e].set)
        /\ \A i \in A : ev[e].set[i] \in AllPolicies
    BY <2>1, AllSetsAreSeqs DEF Inv, LoopInv, TypeOK, Call, Applicable
  <2>3. Verdicts(e, Pessimistic) = {Pessimistic(ev[e].set[i]) : i \in A}
    BY <2>1, <2>2 DEF Verdicts, Applicable
  <2>4. ASSUME NEW i \in A, Faultless(e, i)
        PROVE  Pessimistic(ev[e].set[i]) = Verdict(ev[e].set[i])
    BY <2>2, <2>4, EvaluatePolicyTyped DEF Pessimistic, Verdict, VerdictOf, Faultless
  <2>5. CASE \A i \in A : Faultless(e, i)
    <3>1. \A i \in A : Pessimistic(ev[e].set[i]) = Verdict(ev[e].set[i])
      BY <2>4, <2>5
    <3> QED BY <2>1, <2>2, <2>3, <3>1 DEF Decided, IsStrictest
  <2>6. ASSUME ev[e].action = "deny", NEW i \in A, Faultless(e, i), Verdict(ev[e].set[i]) = "deny"
        PROVE  IsStrictest(ev[e].action, Verdicts(e, Pessimistic))
    <3>1. Pessimistic(ev[e].set[i]) = "deny"
      BY <2>4, <2>6
    <3>2. \A a : Rank(a) <= Rank("deny")
      BY DEF Rank
    <3> QED BY <2>3, <2>6, <3>1, <3>2 DEF IsStrictest
  <2> QED BY <2>1, <2>5, <2>6 DEF FaultInv, FaultInvOf
<1> QED BY <1>1, <1>2, InitInv, NextInv, FaultsNext, PTL DEF EvalSpec

-----------------------------------------------------------------------------
(* The rate limiter: arithmetic. *)

\* a over n, rounded up.
Ceil(a, n) == (a + n - 1) \div n

\* The refills of a bucket last refilled at `last` that came after `from`.
Refills(n, last, from) == IF last <= from THEN 0 ELSE Ceil(last - from, n)

\* b is m intervals of length n past a.
Later(n, a, m, b) == b = a + n * m

LEMMA TimesMonotone ==
  ASSUME NEW n \in Nat \ {0}, NEW x \in Int, NEW y \in Int, x <= y
  PROVE  n * x \in Int /\ n * y \in Int /\ n * x <= n * y
OBVIOUS

LEMMA Quotient ==
  ASSUME NEW n \in Nat \ {0}, NEW a \in Int
  PROVE  a \div n \in Int /\ n * (a \div n) <= a /\ a < n * (a \div n) + n
OBVIOUS

\* A quotient is determined by its bounds.
LEMMA QuotientUnique ==
  ASSUME NEW n \in Nat \ {0}, NEW a \in Int, NEW p \in Int, NEW q \in Int,
         n * p <= a, a < n * p + n, n * q <= a, a < n * q + n
  PROVE  p = q
<1>1. ASSUME NEW x \in Int, NEW y \in Int, n * x <= a, a < n * y + n PROVE x <= y
  <2> SUFFICES ASSUME y + 1 <= x PROVE FALSE
    OBVIOUS
  <2>1. n * (y + 1) <= n * x
    BY TimesMonotone
  <2>2. n * (y + 1) = n * y + n /\ n * y \in Int /\ n * x \in Int
    OBVIOUS
  <2> QED BY ONLY <1>1, <2>1, <2>2, n \in Nat \ {0}, a \in Int
<1>2. p <= q /\ q <= p
  BY <1>1
<1> QED BY <1>2

LEMMA CeilMonotone ==
  ASSUME NEW n \in Nat \ {0}, NEW a \in Int, NEW b \in Int, a <= b
  PROVE  Ceil(a, n) \in Int /\ Ceil(b, n) \in Int /\ Ceil(a, n) <= Ceil(b, n)
<1>1. PICK p : p = Ceil(a, n)
  OBVIOUS
<1>2. PICK q : q = Ceil(b, n)
  OBVIOUS
<1>3. p \in Int /\ n * p <= a + n - 1
  BY <1>1, Quotient, a + n - 1 \in Int DEF Ceil
<1>4. q \in Int /\ b + n - 1 < n * q + n
  BY <1>2, Quotient, b + n - 1 \in Int DEF Ceil
<1>5. p <= q
  <2> SUFFICES ASSUME q + 1 <= p PROVE FALSE
    BY <1>3, <1>4
  <2>1. n * (q + 1) <= n * p
    BY <1>3, <1>4, TimesMonotone
  <2>2. n * (q + 1) = n * q + n /\ n * q \in Int /\ n * p \in Int
    BY <1>3, <1>4
  <2> QED BY ONLY <1>3, <1>4, <2>1, <2>2, n \in Nat \ {0}, a \in Int, b \in Int, a <= b
<1> QED BY <1>1, <1>2, <1>3, <1>4, <1>5

\* Rounded up, a later instant is as many intervals later.
Shifted(n, a, m, b) == Ceil(a, n) \in Int /\ Ceil(b, n) = Ceil(a, n) + m

LEMMA CeilShift ==
  ASSUME NEW n \in Nat \ {0}, NEW a \in Int, NEW m \in Int, NEW b \in Int, Later(n, a, m, b)
  PROVE  Shifted(n, a, m, b)
<1>1. PICK p : p = Ceil(a, n)
  OBVIOUS
<1>2. PICK q : q = Ceil(b, n)
  OBVIOUS
<1>3. p \in Int /\ n * p <= a + n - 1 /\ a + n - 1 < n * p + n
  BY <1>1, Quotient, a + n - 1 \in Int DEF Ceil
<1>4. q \in Int /\ n * q <= b + n - 1 /\ b + n - 1 < n * q + n
  BY <1>2, Quotient, b + n - 1 \in Int DEF Ceil
<1>5. n * (p + m) = n * p + n * m /\ n * p \in Int /\ n * m \in Int /\ b = a + n * m
  BY <1>3 DEF Later
<1>6. n * (p + m) <= b + n - 1 /\ b + n - 1 < n * (p + m) + n
  BY ONLY <1>3, <1>5, n \in Nat \ {0}, a \in Int
<1>7. q = p + m
  <2>1. b + n - 1 \in Int /\ p + m \in Int
    BY <1>3
  <2> QED BY ONLY <1>4, <1>6, <2>1, QuotientUnique, n \in Nat \ {0}
<1> QED BY <1>1, <1>2, <1>3, <1>7 DEF Shifted

LEMMA CeilZero ==
  ASSUME NEW n \in Nat \ {0}, NEW a \in Int, -n < a, a <= 0
  PROVE  Ceil(a, n) = 0
<1>1. PICK p : p = Ceil(a, n)
  OBVIOUS
<1>2. p \in Int /\ n * p <= a + n - 1 /\ a + n - 1 < n * p + n
  BY <1>1, Quotient, a + n - 1 \in Int DEF Ceil
<1>3. n * 0 = 0
  OBVIOUS
<1>4. p = 0
  <2>1. n * 0 <= a + n - 1 /\ a + n - 1 < n * 0 + n /\ a + n - 1 \in Int
    BY <1>3
  <2> QED BY ONLY <1>2, <2>1, QuotientUnique, n \in Nat \ {0}, 0 \in Int
<1> QED BY <1>1, <1>4

\* Between the refills at `last` and `next`, m more count from `from` on.
CountsMore(n, last, m, next, from) ==
  Refills(n, last, from) \in Int /\ Refills(n, next, from) = Refills(n, last, from) + m

\* Up to an interval past the last refill, every further refill counts.
LEMMA RefillsAdvance ==
  ASSUME NEW n \in Nat \ {0}, NEW last \in Int, NEW from \in Int, NEW m \in Nat, from < last + n,
         NEW next \in Int, Later(n, last, m, next)
  PROVE  CountsMore(n, last, m, next, from)
<1>1. n * m \in Nat /\ next = last + n * m
  BY DEF Later
<1>2. ASSUME NEW x \in Int, NEW a \in Int, a = x - from, from < x + n
      PROVE  Refills(n, x, from) = Ceil(a, n)
  <2>1. CASE x <= from
    <3>1. -n < a /\ a <= 0
      BY <1>2, <2>1
    <3>2. Ceil(a, n) = 0
      BY <1>2, <3>1, CeilZero
    <3> QED BY <2>1, <3>2 DEF Refills
  <2>2. CASE ~(x <= from)
    BY <1>2, <2>2 DEF Refills
  <2> QED BY <2>1, <2>2
<1>3. PICK a \in Int : a = last - from
  OBVIOUS
<1>4. PICK b \in Int : b = next - from
  OBVIOUS
<1>5. Refills(n, last, from) = Ceil(a, n)
  BY <1>2, <1>3
<1>6. Refills(n, next, from) = Ceil(b, n)
  <2>1. from < next + n
    BY <1>1
  <2> QED BY <1>2, <1>4, <2>1
<1>7. Later(n, a, m, b) /\ m \in Int
  BY <1>1, <1>3, <1>4 DEF Later
<1>8. Shifted(n, a, m, b)
  BY ONLY <1>7, CeilShift, n \in Nat \ {0}, a \in Int, b \in Int, Zenon
<1> QED BY ONLY <1>5, <1>6, <1>8 DEF CountsMore, Shifted

\* No more refills come after `from` than intervals fit in, rounded up.
LEMMA RefillsBounded ==
  ASSUME NEW n \in Nat \ {0}, NEW last \in Int, NEW from \in Int, NEW to \in Int,
         last <= to, from <= to
  PROVE  /\ Refills(n, last, from) \in Int /\ Ceil(to - from, n) \in Int
         /\ 0 <= Refills(n, last, from) /\ Refills(n, last, from) <= Ceil(to - from, n)
<1>1. last - from \in Int /\ to - from \in Int /\ 0 \in Int /\ -n < 0
  OBVIOUS
<1>2. Ceil(0, n) = 0
  BY ONLY <1>1, CeilZero, n \in Nat \ {0}
<1>3. Ceil(to - from, n) \in Int /\ Ceil(0, n) <= Ceil(to - from, n)
  BY ONLY <1>1, 0 <= to - from, CeilMonotone, n \in Nat \ {0}
<1>4. CASE last <= from
  BY <1>2, <1>3, <1>4 DEF Refills
<1>5. CASE ~(last <= from)
  <2>1. Ceil(last - from, n) \in Int /\ Ceil(last - from, n) <= Ceil(to - from, n)
    BY ONLY <1>1, last - from <= to - from, CeilMonotone, n \in Nat \ {0}
  <2>2. Ceil(0, n) <= Ceil(last - from, n)
    BY ONLY <1>1, <1>5, last \in Int, from \in Int, CeilMonotone, n \in Nat \ {0}
  <2> QED BY <1>2, <1>3, <1>5, <2>1, <2>2 DEF Refills
<1> QED BY <1>4, <1>5

-----------------------------------------------------------------------------
(* The rate limiter: the buckets. *)

\* How many of the times in g are from `from` on, and how many up to `to`.
Since(g, from) == Cardinality({i \in DOMAIN g : g[i] >= from})
Within(g, from, to) == Cardinality({i \in DOMAIN g : g[i] \in from..to})

GuardsReq == [pc : {"idle", "match", "count", "store", "limit"}, m : Matchers \cup {NoMatcher},
              key : Keys \cup {NoKey}]

GuardsOK ==
  /\ limit \in Limits /\ clock \in Nat
  /\ buckets \in [Keys -> [tokens : Int, lastRefill : Nat]]
  /\ granted \in [Keys -> Seq(Nat)]
  /\ req \in [Requests -> GuardsReq]
  /\ \A r \in Requests : req[r].pc # "idle" => req[r].key \in Keys

\* Tokens that are left and requests admitted since any instant are paid by the
\* burst and the refills since; no request was admitted an interval or more
\* after the last refill.
Paid(n, max, now, b, g) ==
  /\ b.tokens \in 0..max /\ b.lastRefill <= now
  /\ \A i \in DOMAIN g : g[i] <= now /\ g[i] < b.lastRefill + n
  /\ \A from \in Nat : Since(g, from) + b.tokens <= max + Refills(n, b.lastRefill, from)

\* Every window so far was within its bound.
Bounded(n, max, now, g) ==
  \A from, to \in 0..now : from <= to => Within(g, from, to) <= max + Ceil(to - from, n)

KeyInv(k) ==
  IF LimiterOpen /\ buckets[k] # NoBucket
  THEN /\ Paid(Interval, limit.max, clock, buckets[k], granted[k])
       /\ Bounded(Interval, limit.max, clock, granted[k])
  ELSE granted[k] = <<>>

GuardsInv == GuardsOK /\ \A k \in Keys : KeyInv(k)

LEMMA CountedType ==
  ASSUME NEW g \in Seq(Nat), NEW from, NEW to
  PROVE  Since(g, from) \in Nat /\ Within(g, from, to) \in Nat
<1>1. DOMAIN g = 1..Len(g) /\ Len(g) \in Nat
  OBVIOUS
<1>2. IsFiniteSet(DOMAIN g)
  BY <1>1, FS_Interval
<1>3. \A S \in SUBSET DOMAIN g : IsFiniteSet(S) /\ Cardinality(S) \in Nat
  BY <1>2, FS_Subset, FS_CardinalityType
<1> QED BY <1>3 DEF Since, Within

LEMMA CountedNone ==
  ASSUME NEW from, NEW to
  PROVE  Since(<<>>, from) = 0 /\ Within(<<>>, from, to) = 0
<1>1. Cardinality({}) = 0
  BY FS_EmptySet
<1>2. {i \in DOMAIN <<>> : <<>>[i] >= from} = {} /\ {i \in DOMAIN <<>> : <<>>[i] \in from..to} = {}
  OBVIOUS
<1> QED BY <1>1, <1>2 DEF Since, Within

\* One more admission is one more in the windows it falls in.
LEMMA CountedMore ==
  ASSUME NEW g \in Seq(Nat), NEW t \in Nat, NEW from \in Nat, NEW to \in Nat
  PROVE  /\ from <= t => Since(Append(g, t), from) = Since(g, from) + 1
         /\ to < t => Within(Append(g, t), from, to) = Within(g, from, to)
         /\ t < from => Since(Append(g, t), from) = Since(g, from)
<1>1. PICK h : h = Append(g, t)
  OBVIOUS
<1>2. PICK z : z = Len(g)
  OBVIOUS
<1>3. /\ z \in Nat /\ DOMAIN g = 1..z /\ DOMAIN h = 1..z + 1
      /\ \A i \in 1..z : h[i] = g[i] /\ g[i] \in Nat
      /\ h[z + 1] = t
  BY <1>1, <1>2
<1>4. PICK S : S = {i \in DOMAIN g : g[i] >= from}
  OBVIOUS
<1>5. IsFiniteSet(1..z)
  BY <1>3, FS_Interval
<1>6. IsFiniteSet(S) /\ z + 1 \notin S
  BY <1>3, <1>4, <1>5, FS_Subset
<1>7. from <= t => {i \in DOMAIN h : h[i] >= from} = S \cup {z + 1}
  BY <1>3, <1>4
<1>8. Cardinality(S \cup {z + 1}) = Cardinality(S) + 1
  BY <1>6, FS_AddElement
<1>9. to < t => {i \in DOMAIN h : h[i] \in from..to} = {i \in DOMAIN g : g[i] \in from..to}
  BY <1>3
<1>10. t < from => {i \in DOMAIN h : h[i] >= from} = S
  BY <1>3, <1>4
<1> QED BY <1>1, <1>4, <1>7, <1>8, <1>9, <1>10 DEF Since, Within

\* A window that ends no earlier than the last admission counts all since its start.
LEMMA WithinIsSince ==
  ASSUME NEW g \in Seq(Nat), NEW from \in Nat, NEW to \in Nat, \A i \in DOMAIN g : g[i] <= to
  PROVE  Within(g, from, to) = Since(g, from)
<1>1. \A i \in DOMAIN g : g[i] \in Nat
  OBVIOUS
<1>2. {i \in DOMAIN g : g[i] \in from..to} = {i \in DOMAIN g : g[i] >= from}
  BY <1>1
<1> QED BY <1>2 DEF Within, Since

\* Nothing was admitted after the last admission.
LEMMA SinceNone ==
  ASSUME NEW g \in Seq(Nat), NEW from \in Nat, \A i \in DOMAIN g : g[i] < from
  PROVE  Since(g, from) = 0
<1>1. \A i \in DOMAIN g : g[i] \in Nat
  OBVIOUS
<1>2. {i \in DOMAIN g : g[i] >= from} = {}
  BY <1>1
<1> QED BY <1>2, FS_EmptySet DEF Since

\* What is paid bounds the window that ends now.
LEMMA PaidBounds ==
  ASSUME NEW n \in Nat \ {0}, NEW max \in Nat, NEW now \in Nat, NEW g \in Seq(Nat),
         NEW b \in [tokens : Int, lastRefill : Nat], Paid(n, max, now, b, g),
         NEW from \in Nat, from <= now
  PROVE  Within(g, from, now) <= max + Ceil(now - from, n)
<1>1. Within(g, from, now) = Since(g, from) /\ Since(g, from) \in Nat
  BY WithinIsSince, CountedType DEF Paid
<1>2. PICK last : last = b.lastRefill
  OBVIOUS
<1>3. last \in Int /\ last <= now /\ from \in Int /\ now \in Int
  BY <1>2 DEF Paid
<1>4. /\ Refills(n, last, from) \in Int /\ Ceil(now - from, n) \in Int
      /\ Refills(n, last, from) <= Ceil(now - from, n)
  BY ONLY <1>3, from <= now, RefillsBounded, n \in Nat \ {0}
<1>5. b.tokens \in Int /\ b.tokens >= 0 /\ Since(g, from) + b.tokens <= max + Refills(n, last, from)
  BY <1>2 DEF Paid
<1> QED BY ONLY <1>1, <1>4, <1>5, max \in Nat

\* A refill is paid by the intervals that went by.
LEMMA PaidRefill ==
  ASSUME NEW n \in Nat \ {0}, NEW max \in Nat, NEW now \in Nat, NEW g \in Seq(Nat),
         NEW b \in [tokens : Int, lastRefill : Nat], Paid(n, max, now, b, g),
         NEW tokens \in 0..max, NEW add \in Nat, tokens <= b.tokens + add,
         NEW next \in Nat, Later(n, b.lastRefill, add, next), b.lastRefill <= next, next <= now
  PROVE  Paid(n, max, now, [tokens |-> tokens, lastRefill |-> next], g)
<1>1. PICK last : last = b.lastRefill
  OBVIOUS
<1>2. PICK old : old = b.tokens
  OBVIOUS
<1>3. last \in Nat /\ old \in 0..max /\ last <= next /\ next <= now /\ tokens <= old + add
  BY <1>1, <1>2 DEF Paid
<1>4. PICK d : d = [tokens |-> tokens, lastRefill |-> next]
  OBVIOUS
<1>5. d.tokens = tokens /\ d.lastRefill = next
  BY <1>4
<1>6. \A i \in DOMAIN g : g[i] \in Nat /\ g[i] <= now /\ g[i] < last + n
  BY <1>1 DEF Paid
<1>7. \A i \in DOMAIN g : g[i] <= now /\ g[i] < d.lastRefill + n
  BY ONLY <1>3, <1>5, <1>6, n \in Nat \ {0}, next \in Nat
<1>8. ASSUME NEW from \in Nat
       PROVE  Since(g, from) + d.tokens <= max + Refills(n, d.lastRefill, from)
  <2>1. Since(g, from) \in Nat
    BY CountedType
  <2>2. CASE from < last + n
    <3>1. Since(g, from) + old <= max + Refills(n, last, from)
      BY <1>1, <1>2 DEF Paid
    <3>2. last \in Int /\ from \in Int
      BY <1>3
    <3>3. next \in Int /\ Later(n, last, add, next)
      BY <1>1
    <3>4. CountsMore(n, last, add, next, from)
      BY ONLY <2>2, <3>2, <3>3, RefillsAdvance, n \in Nat \ {0}, add \in Nat
    <3>5. PICK before : before = Refills(n, last, from)
      OBVIOUS
    <3>6. PICK after : after = Refills(n, next, from)
      OBVIOUS
    <3>7. before \in Int /\ after = before + add
      BY <3>4, <3>5, <3>6 DEF CountsMore
    <3>8. PICK have : have = Since(g, from)
      OBVIOUS
    <3>9. have \in Int /\ have + old <= max + before
      BY <2>1, <3>1, <3>5, <3>8
    <3>10. old \in Int /\ tokens <= old + add
      BY <1>3
    <3>11. have + tokens <= max + after
      BY ONLY <3>7, <3>9, <3>10, tokens \in 0..max, max \in Nat, add \in Nat
    <3> QED BY <1>5, <3>6, <3>8, <3>11
  <2>3. CASE ~(from < last + n)
    <3>1. \A i \in DOMAIN g : g[i] < from
      BY <1>3, <1>6, <2>3
    <3>2. Since(g, from) = 0
      BY <3>1, SinceNone
    <3>3. CASE next <= from
      <4>1. Refills(n, d.lastRefill, from) = 0
        BY <1>5, <3>3 DEF Refills
      <4> QED BY <1>5, <3>2, <4>1
    <3>4. CASE ~(next <= from)
      <4>1. d.lastRefill \in Int /\ from \in Int /\ from <= d.lastRefill
            /\ d.lastRefill <= d.lastRefill
        BY <1>3, <1>5, <3>4
      <4>2. Refills(n, d.lastRefill, from) \in Int /\ 0 <= Refills(n, d.lastRefill, from)
        BY ONLY <4>1, RefillsBounded, n \in Nat \ {0}, Zenon
      <4> QED BY <1>5, <3>2, <4>2
    <3> QED BY <3>3, <3>4
  <2> QED BY <2>2, <2>3
<1>9. d.tokens \in 0..max /\ d.lastRefill <= now
  BY <1>3, <1>5
<1>10. Paid(n, max, now, d, g)
  BY <1>7, <1>8, <1>9 DEF Paid
<1> QED BY <1>4, <1>10

\* An admission spends a token.
LEMMA PaidSpend ==
  ASSUME NEW n \in Nat \ {0}, NEW max \in Nat, NEW now \in Nat, NEW g \in Seq(Nat),
         NEW b \in [tokens : Int, lastRefill : Nat], Paid(n, max, now, b, g),
         b.tokens > 0, now < b.lastRefill + n,
         NEW d, d = [tokens |-> b.tokens - 1, lastRefill |-> b.lastRefill]
  PROVE  Paid(n, max, now, d, Append(g, now))
<1>1. d.tokens = b.tokens - 1 /\ d.lastRefill = b.lastRefill /\ b.tokens \in 0..max
  BY DEF Paid
<1>2. PICK h : h = Append(g, now)
  OBVIOUS
<1>3. h \in Seq(Nat) /\ DOMAIN h = 1..Len(g) + 1 /\ Len(g) \in Nat /\ h[Len(g) + 1] = now
      /\ \A i \in 1..Len(g) : h[i] = g[i] /\ i \in DOMAIN g
  BY <1>2
<1>4. \A i \in DOMAIN h : h[i] <= now /\ h[i] < d.lastRefill + n
  <2> SUFFICES ASSUME NEW i \in DOMAIN h PROVE h[i] <= now /\ h[i] < d.lastRefill + n
    OBVIOUS
  <2>1. CASE i = Len(g) + 1
    BY <1>1, <1>3, <2>1
  <2>2. CASE i \in 1..Len(g)
    BY <1>1, <1>3, <2>2 DEF Paid
  <2> QED BY <1>3, <2>1, <2>2
<1>5. ASSUME NEW from \in Nat
      PROVE  Since(h, from) + d.tokens <= max + Refills(n, d.lastRefill, from)
  <2>1. Since(g, from) \in Nat
    BY CountedType
  <2>2. Since(h, from) \in {Since(g, from), Since(g, from) + 1}
    BY <1>2, CountedMore
  <2>3. Since(g, from) + b.tokens <= max + Refills(n, b.lastRefill, from)
    BY DEF Paid
  <2>4. b.lastRefill \in Int /\ from \in Int
    OBVIOUS
  <2>5. Refills(n, b.lastRefill, from) \in Int
    <3>1. CASE b.lastRefill <= from
      BY <3>1 DEF Refills
    <3>2. CASE ~(b.lastRefill <= from)
      <4>1. from <= b.lastRefill /\ b.lastRefill <= b.lastRefill
        BY <2>4, <3>2
      <4> QED BY ONLY <2>4, <4>1, RefillsBounded, n \in Nat \ {0}, Zenon
    <3> QED BY <3>1, <3>2
  <2> QED BY <1>1, <2>1, <2>2, <2>3, <2>5
<1>6. d.tokens \in 0..max /\ d.lastRefill <= now
  BY <1>1 DEF Paid
<1> QED BY <1>2, <1>4, <1>5, <1>6 DEF Paid

\* A fresh bucket.
LEMMA PaidFresh ==
  ASSUME NEW n \in Nat \ {0}, NEW max \in Nat, NEW now \in Nat, NEW d,
         d = [tokens |-> max, lastRefill |-> now]
  PROVE  Paid(n, max, now, d, <<>>)
<1>1. d.tokens = max /\ d.lastRefill = now
  OBVIOUS
<1>2. ASSUME NEW from \in Nat
      PROVE  Since(<<>>, from) + d.tokens <= max + Refills(n, d.lastRefill, from)
  <2>1. Since(<<>>, from) = 0
    BY CountedNone
  <2>2. Refills(n, now, from) \in Int /\ Refills(n, now, from) >= 0
    <3>1. CASE now <= from
      BY <3>1 DEF Refills
    <3>2. CASE ~(now <= from)
      <4>1. now \in Int /\ from \in Int /\ from <= now
        BY <3>2
      <4> QED BY ONLY <4>1, RefillsBounded, n \in Nat \ {0}
    <3> QED BY <3>1, <3>2
  <2> QED BY <1>1, <2>1, <2>2
<1> QED BY <1>1, <1>2 DEF Paid

LEMMA MinOfTwo ==
  ASSUME NEW a \in Int, NEW b \in Int
  PROVE  Min({a, b}) \in {a, b} /\ Min({a, b}) <= a /\ Min({a, b}) <= b
<1>1. \E x \in {a, b} : \A y \in {a, b} : x <= y
  OBVIOUS
<1>2. Min({a, b}) \in {a, b} /\ \A y \in {a, b} : Min({a, b}) <= y
  BY <1>1 DEF Min
<1> QED BY <1>2

\* An admission keeps the windows bounded.
LEMMA BoundedSpend ==
  ASSUME NEW n \in Nat \ {0}, NEW max \in Nat, NEW now \in Nat, NEW g \in Seq(Nat),
         NEW d \in [tokens : Int, lastRefill : Nat], Bounded(n, max, now, g),
         Paid(n, max, now, d, Append(g, now))
  PROVE  Bounded(n, max, now, Append(g, now))
<1>1. PICK h : h = Append(g, now)
  OBVIOUS
<1>2. h \in Seq(Nat) /\ Paid(n, max, now, d, h)
  BY <1>1
<1>3. ASSUME NEW from \in 0..now, NEW to \in 0..now, from <= to
      PROVE  Within(h, from, to) <= max + Ceil(to - from, n)
  <2>1. from \in Nat /\ to \in Nat
    OBVIOUS
  <2>2. CASE to = now
    BY <1>2, <1>3, <2>1, <2>2, PaidBounds
  <2>3. CASE to < now
    <3>1. Within(h, from, to) = Within(g, from, to)
      BY <1>1, <2>1, <2>3, CountedMore
    <3> QED BY <1>3, <3>1 DEF Bounded
  <2> QED BY <2>1, <2>2, <2>3
<1> QED BY <1>1, <1>3 DEF Bounded

\* Time passing alone keeps both.
LEMMA PaidTick ==
  ASSUME NEW n \in Nat \ {0}, NEW max \in Nat, NEW now \in Nat, NEW g \in Seq(Nat),
         NEW b \in [tokens : Int, lastRefill : Nat], Bounded(n, max, now, g),
         Paid(n, max, now, b, g)
  PROVE  Paid(n, max, now + 1, b, g) /\ Bounded(n, max, now + 1, g)
<1>1. PICK then \in Nat : then = now + 1
  OBVIOUS
<1>2. Paid(n, max, then, b, g)
  <2>1. b.lastRefill <= then
    BY <1>1 DEF Paid
  <2>2. \A i \in DOMAIN g : g[i] \in Nat
    OBVIOUS
  <2>3. \A i \in DOMAIN g : g[i] <= then
    BY <1>1, <2>2 DEF Paid
  <2> QED BY <2>1, <2>3 DEF Paid
<1>3. ASSUME NEW from \in 0..then, NEW to \in 0..then, from <= to
      PROVE  Within(g, from, to) <= max + Ceil(to - from, n)
  <2>1. from \in Nat /\ to \in Nat
    OBVIOUS
  <2>2. CASE to = then
    BY <1>2, <1>3, <2>1, <2>2, PaidBounds
  <2>3. CASE to # then
    <3>1. from \in 0..now /\ to \in 0..now /\ from <= to
      BY <1>1, <1>3, <2>3
    <3> QED BY ONLY <3>1, Bounded(n, max, now, g) DEF Bounded
  <2> QED BY <2>2, <2>3
<1>4. Bounded(n, max, then, g)
  BY <1>3 DEF Bounded
<1> QED BY <1>1, <1>2, <1>4

LEMMA CeilNat ==
  ASSUME NEW n \in Nat \ {0}, NEW a \in Nat
  PROVE  Ceil(a, n) \in Nat
<1>1. 0 \in Int /\ a \in Int /\ -n < 0 /\ 0 <= 0 /\ 0 <= a
  OBVIOUS
<1>2. Ceil(0, n) = 0
  BY <1>1, CeilZero
<1>3. Ceil(a, n) \in Int /\ Ceil(0, n) <= Ceil(a, n)
  BY <1>1, CeilMonotone
<1> QED BY <1>2, <1>3

\* Without admissions every window is bounded.
LEMMA BoundedEmpty ==
  ASSUME NEW n \in Nat \ {0}, NEW max \in Nat, NEW now \in Nat
  PROVE  Bounded(n, max, now, <<>>)
<1>1. ASSUME NEW from \in 0..now, NEW to \in 0..now, from <= to
      PROVE  Within(<<>>, from, to) <= max + Ceil(to - from, n)
  <2>1. Within(<<>>, from, to) = 0
    BY CountedNone
  <2>2. PICK a \in Nat : a = to - from
    BY <1>1
  <2>3. Ceil(a, n) \in Nat
    BY CeilNat
  <2> QED BY <2>1, <2>2, <2>3
<1> QED BY <1>1 DEF Bounded

LEMMA OpenLimit ==
  ASSUME GuardsOK, LimiterOpen
  PROVE  Interval \in Nat \ {0} /\ limit.max \in Nat \ {0}
<1>1. limit.max \in Int /\ limit.window \in Int /\ limit.max > 0
  BY GuardsAssumption DEF GuardsOK, LimiterOpen
<1>2. limit.max \in Nat \ {0}
  BY <1>1
<1>3. limit.window \div limit.max \in Int
  BY <1>1, <1>2, Quotient
<1> QED BY <1>2, <1>3 DEF Interval

\* Refill keeps a bucket paid and brings it to within an interval of now.
LEMMA RefillPaid ==
  ASSUME GuardsOK, LimiterOpen, NEW b \in [tokens : Int, lastRefill : Nat], NEW g \in Seq(Nat),
         Paid(Interval, limit.max, clock, b, g)
  PROVE  /\ Refill(b) \in [tokens : Int, lastRefill : Nat]
         /\ Paid(Interval, limit.max, clock, Refill(b), g)
         /\ clock < Refill(b).lastRefill + Interval
<1>1. PICK n : n = Interval
  OBVIOUS
<1>2. PICK max : max = limit.max
  OBVIOUS
<1>3. PICK add : add = (clock - b.lastRefill) \div n
  OBVIOUS
<1>4. n \in Nat \ {0} /\ max \in Nat /\ clock \in Nat
  BY <1>1, <1>2, OpenLimit DEF GuardsOK
<1>5. Paid(n, max, clock, b, g)
  BY <1>1, <1>2
<1>6. b.lastRefill \in Nat /\ b.tokens \in 0..max /\ b.lastRefill <= clock
  BY <1>5 DEF Paid
<1>7. add \in Int /\ n * add <= clock - b.lastRefill /\ clock - b.lastRefill < n * add + n
  <2>1. clock - b.lastRefill \in Int
    BY <1>4, <1>6
  <2> QED BY ONLY <1>3, <1>4, <2>1, Quotient
<1>8. add >= 0
  <2> SUFFICES ASSUME add + 1 <= 0 PROVE FALSE
    BY <1>7
  <2>1. n * (add + 1) <= n * 0
    BY <1>4, <1>7, TimesMonotone
  <2>2. PICK c : c = n * add
    OBVIOUS
  <2>3. c \in Int /\ n * (add + 1) = c + n /\ n * 0 = 0
    BY <1>4, <1>7, <2>2
  <2>4. c + n <= 0
    BY <2>1, <2>3
  <2>5. clock - b.lastRefill < c + n
    BY <1>7, <2>2
  <2> QED BY ONLY <1>4, <1>6, <2>3, <2>4, <2>5
<1>9. n * add \in Nat
  BY <1>4, <1>7, <1>8
<1>10. CASE add > 0
  <2>1. PICK t : t = Min({b.tokens + add, max})
    OBVIOUS
  <2>2. b.tokens + add \in Int /\ max \in Int
    BY <1>4, <1>6, <1>7
  <2>3. t \in {b.tokens + add, max} /\ t <= b.tokens + add /\ t <= max
    BY ONLY <2>1, <2>2, MinOfTwo
  <2>4. t \in 0..max /\ add \in Nat
    BY <1>4, <1>6, <1>7, <1>8, <2>3
  <2>5. PICK next : next = b.lastRefill + n * add
    OBVIOUS
  <2>6. Refill(b) = [tokens |-> t, lastRefill |-> next]
    BY <1>1, <1>2, <1>3, <1>10, <2>1, <2>5 DEF Refill
  <2>7. /\ next \in Nat /\ b.lastRefill <= next /\ next <= clock /\ clock < next + n
        /\ Later(n, b.lastRefill, add, next)
    BY ONLY <1>4, <1>6, <1>7, <1>9, <2>5 DEF Later
  <2>8. Paid(n, max, clock, [tokens |-> t, lastRefill |-> next], g)
    BY <1>4, <1>5, <2>3, <2>4, <2>7, PaidRefill
  <2> QED BY <1>1, <1>2, <2>4, <2>6, <2>7, <2>8
<1>11. CASE ~(add > 0)
  <2>1. Refill(b) = b
    BY <1>1, <1>3, <1>11 DEF Refill
  <2>2. add = 0 /\ n * 0 = 0
    BY <1>4, <1>7, <1>8, <1>11
  <2>3. clock < b.lastRefill + n
    BY <1>4, <1>6, <1>7, <2>2
  <2> QED BY <1>1, <1>5, <2>1, <2>3
<1> QED BY <1>10, <1>11

LEMMA GuardsInitInv == GuardsInit => GuardsInv
<1> SUFFICES ASSUME GuardsInit PROVE GuardsInv
  OBVIOUS
<1>1. NoBucket \in [tokens : Int, lastRefill : Nat] /\ <<>> \in Seq(Nat) /\ NoRequest \in GuardsReq
  BY DEF NoBucket, NoRequest, GuardsReq
<1>2. NoRequest.pc = "idle"
  BY DEF NoRequest
<1>3. GuardsOK
  BY <1>1, <1>2 DEF GuardsInit, GuardsOK
<1>4. \A k \in Keys : KeyInv(k)
  BY DEF GuardsInit, KeyInv
<1> QED BY <1>3, <1>4 DEF GuardsInv

\* What a key's bucket says depends on the bucket, the clock and the history.
LEMMA KeyStable ==
  ASSUME NEW k \in Keys, KeyInv(k), limit' = limit, clock' = clock,
         buckets'[k] = buckets[k], granted'[k] = granted[k]
  PROVE  KeyInv(k)'
BY DEF KeyInv, LimiterOpen, Interval, Paid, Bounded

\* The types at allow.
LEMMA LimitKey ==
  ASSUME GuardsInv, NEW r \in Requests, Limit(r), NEW k, k = req[r].key
  PROVE  /\ k \in Keys /\ buckets[k] \in [tokens : Int, lastRefill : Nat] /\ granted[k] \in Seq(Nat)
         /\ KeyInv(k)
<1>1. k \in Keys
  BY DEF GuardsInv, GuardsOK, Limit
<1> QED BY <1>1 DEF GuardsInv, GuardsOK

\* allow on an open limiter: the bucket it finds or makes is paid, and so is
\* what it leaves.
LEMMA LimitOpenInv ==
  ASSUME GuardsInv, NEW r \in Requests, Limit(r), LimiterOpen, NEW k, k = req[r].key
  PROVE  \E d \in [tokens : Int, lastRefill : Nat], h \in Seq(Nat) :
           /\ buckets' = [buckets EXCEPT ![k] = d] /\ granted' = [granted EXCEPT ![k] = h]
           /\ d.tokens >= 0
           /\ Paid(Interval, limit.max, clock, d, h) /\ Bounded(Interval, limit.max, clock, h)
<1>1. PICK g : g = granted[k]
  OBVIOUS
<1>2. PICK b : b = IF buckets[k] = NoBucket THEN [tokens |-> limit.max, lastRefill |-> clock]
                                            ELSE Refill(buckets[k])
  OBVIOUS
<1>3. PICK n : n = Interval
  OBVIOUS
<1>4. PICK max : max = limit.max
  OBVIOUS
<1>5. GuardsOK /\ n \in Nat \ {0} /\ max \in Nat /\ clock \in Nat
  BY <1>3, <1>4, OpenLimit DEF GuardsInv, GuardsOK
<1>6. k \in Keys /\ buckets[k] \in [tokens : Int, lastRefill : Nat] /\ g \in Seq(Nat) /\ KeyInv(k)
  BY <1>1, LimitKey
<1>7. /\ b \in [tokens : Int, lastRefill : Nat] /\ Paid(n, max, clock, b, g)
      /\ Bounded(n, max, clock, g) /\ clock < b.lastRefill + n
  <2>1. CASE buckets[k] = NoBucket
    <3>1. g = <<>>
      BY <1>1, <1>6, <2>1 DEF KeyInv
    <3>2. b = [tokens |-> max, lastRefill |-> clock]
      BY <1>2, <1>4, <2>1
    <3>3. Paid(n, max, clock, b, <<>>) /\ Bounded(n, max, clock, <<>>)
      BY <1>5, <3>2, PaidFresh, BoundedEmpty
    <3>4. b \in [tokens : Int, lastRefill : Nat] /\ clock < b.lastRefill + n
      BY <1>5, <3>2
    <3> QED BY <3>1, <3>3, <3>4
  <2>2. CASE buckets[k] # NoBucket
    <3>1. /\ Paid(Interval, limit.max, clock, buckets[k], g)
          /\ Bounded(Interval, limit.max, clock, g)
      BY <1>1, <1>6, <2>2 DEF KeyInv
    <3>2. b = Refill(buckets[k])
      BY <1>2, <2>2
    <3> QED BY <1>3, <1>4, <1>5, <1>6, <3>1, <3>2, RefillPaid
  <2> QED BY <2>1, <2>2
<1>8. b.tokens \in Int /\ b.tokens >= 0 /\ b.lastRefill \in Nat
      /\ b = [tokens |-> b.tokens, lastRefill |-> b.lastRefill]
  BY <1>5, <1>7 DEF Paid
<1>9. CASE b.tokens > 0
  <2>1. PICK d : d = [tokens |-> b.tokens - 1, lastRefill |-> b.lastRefill]
    OBVIOUS
  <2>2. [b EXCEPT !.tokens = @ - 1] = d
    BY <1>7, <1>8, <2>1
  <2>3. d \in [tokens : Int, lastRefill : Nat] /\ d.tokens >= 0
    BY <1>8, <1>9, <2>1
  <2>4. Paid(n, max, clock, d, Append(g, clock))
    BY <1>5, <1>6, <1>7, <1>9, <2>1, PaidSpend
  <2>5. Bounded(n, max, clock, Append(g, clock))
    BY <1>5, <1>6, <1>7, <2>3, <2>4, BoundedSpend
  <2>6. Append(g, clock) \in Seq(Nat)
    BY <1>5, <1>6
  <2>7. buckets' = [buckets EXCEPT ![k] = d]
    BY <1>2, <1>9, <2>2 DEF Limit
  <2>8. granted' = [granted EXCEPT ![k] = Append(g, clock)]
    BY <1>1, <1>2, <1>6, <1>9 DEF Limit, GuardsInv, GuardsOK
  <2> QED BY <1>3, <1>4, <2>3, <2>4, <2>5, <2>6, <2>7, <2>8
<1>10. CASE ~(b.tokens > 0)
  <2>1. [b EXCEPT !.tokens = @] = b
    BY <1>7
  <2>2. buckets' = [buckets EXCEPT ![k] = b]
    BY <1>2, <1>10, <2>1 DEF Limit
  <2>3. granted' = [granted EXCEPT ![k] = g]
    BY <1>1, <1>2, <1>6, <1>10 DEF Limit, GuardsInv, GuardsOK
  <2> QED BY <1>3, <1>4, <1>6, <1>7, <1>8, <2>2, <2>3
<1> QED BY <1>9, <1>10

LEMMA LimitInv ==
  ASSUME GuardsInv, NEW r \in Requests, Limit(r)
  PROVE  \A k \in Keys : KeyInv(k)'
<1> SUFFICES ASSUME NEW k \in Keys PROVE KeyInv(k)'
  OBVIOUS
<1>1. KeyInv(k) /\ limit' = limit /\ clock' = clock
  BY DEF GuardsInv, Limit
<1>2. CASE ~LimiterOpen
  BY <1>1, <1>2, KeyStable DEF Limit
<1>3. CASE LimiterOpen
  <2>1. PICK d \in [tokens : Int, lastRefill : Nat], h \in Seq(Nat) :
          /\ buckets' = [buckets EXCEPT ![req[r].key] = d]
          /\ granted' = [granted EXCEPT ![req[r].key] = h]
          /\ d.tokens >= 0
          /\ Paid(Interval, limit.max, clock, d, h) /\ Bounded(Interval, limit.max, clock, h)
    BY <1>3, LimitOpenInv
  <2>2. CASE k = req[r].key
    <3>1. buckets'[k] = d /\ granted'[k] = h
      BY <2>1, <2>2 DEF GuardsInv, GuardsOK
    <3>2. d # NoBucket
      BY <2>1 DEF NoBucket
    <3>3. Interval' = Interval /\ LimiterOpen'
      BY <1>1, <1>3 DEF Interval, LimiterOpen
    <3> QED BY <1>1, <2>1, <3>1, <3>2, <3>3 DEF KeyInv, Paid, Bounded
  <2>3. CASE k # req[r].key
    <3>1. buckets'[k] = buckets[k] /\ granted'[k] = granted[k]
      BY <2>1, <2>3 DEF GuardsInv, GuardsOK
    <3> QED BY <1>1, <3>1, KeyStable
  <2> QED BY <2>2, <2>3
<1> QED BY <1>2, <1>3

LEMMA TickInv ==
  ASSUME GuardsInv, Tick
  PROVE  \A k \in Keys : KeyInv(k)'
<1> SUFFICES ASSUME NEW k \in Keys PROVE KeyInv(k)'
  OBVIOUS
<1>1. /\ KeyInv(k) /\ GuardsOK /\ limit' = limit /\ clock' = clock + 1
      /\ buckets' = buckets /\ granted' = granted
  BY DEF GuardsInv, Tick
<1>2. Interval' = Interval /\ (LimiterOpen' <=> LimiterOpen)
  BY <1>1 DEF Interval, LimiterOpen
<1>3. CASE LimiterOpen /\ buckets[k] # NoBucket
  <2>1. PICK n : n = Interval
    OBVIOUS
  <2>2. PICK max : max = limit.max
    OBVIOUS
  <2>3. PICK b : b = buckets[k]
    OBVIOUS
  <2>4. PICK g : g = granted[k]
    OBVIOUS
  <2>5. /\ n \in Nat \ {0} /\ max \in Nat /\ clock \in Nat
        /\ b \in [tokens : Int, lastRefill : Nat] /\ g \in Seq(Nat)
    BY <1>1, <1>3, <2>1, <2>2, <2>3, <2>4, OpenLimit DEF GuardsOK
  <2>6. Paid(n, max, clock, b, g) /\ Bounded(n, max, clock, g)
    BY <1>1, <1>3, <2>1, <2>2, <2>3, <2>4 DEF KeyInv
  <2>7. Paid(n, max, clock + 1, b, g) /\ Bounded(n, max, clock + 1, g)
    BY <2>5, <2>6, PaidTick
  <2>8. Paid(n, max, clock', b, g) /\ Bounded(n, max, clock', g)
    BY <1>1, <2>7
  <2>9. /\ n = Interval' /\ max = limit'.max /\ b = buckets'[k] /\ g = granted'[k]
        /\ LimiterOpen' /\ buckets'[k] # NoBucket
    BY <1>1, <1>2, <1>3, <2>1, <2>2, <2>3, <2>4
  <2> QED BY <2>8, <2>9 DEF KeyInv, Paid, Bounded
<1>4. CASE ~(LimiterOpen /\ buckets[k] # NoBucket)
  BY <1>1, <1>2, <1>4 DEF KeyInv
<1> QED BY <1>3, <1>4

\* A request that the rule lets through keeps its key.
LEMMA FinishTypes ==
  ASSUME GuardsOK, NEW r \in Requests, NEW hit \in BOOLEAN, Finish(r, hit), req[r].pc # "idle"
  PROVE  /\ req' \in [Requests -> GuardsReq]
         /\ \A q \in Requests : req'[q].pc # "idle" => req'[q].key \in Keys
<1>1. req[r] \in GuardsReq /\ req[r].key \in Keys /\ req \in [Requests -> GuardsReq]
  BY DEF GuardsOK
<1>2. PICK x : x = IF hit THEN NoRequest ELSE [req[r] EXCEPT !.pc = "limit", !.m = NoMatcher]
  OBVIOUS
<1>3. req' = [req EXCEPT ![r] = x]
  BY <1>2 DEF Finish
<1>4. x \in GuardsReq /\ (x.pc # "idle" => x.key \in Keys)
  <2>1. CASE hit
    <3>1. x = NoRequest
      BY <1>2, <2>1
    <3> QED BY <3>1 DEF GuardsReq, NoRequest
  <2>2. CASE ~hit
    <3>1. x = [req[r] EXCEPT !.pc = "limit", !.m = NoMatcher]
      BY <1>2, <2>2
    <3> QED BY <1>1, <3>1 DEF GuardsReq
  <2> QED BY <2>1, <2>2
<1>5. \A q \in Requests : req'[q] = IF q = r THEN x ELSE req[q]
  BY <1>1, <1>3
<1> QED BY <1>1, <1>3, <1>4, <1>5 DEF GuardsOK

LEMMA GuardsNextInv == GuardsInv /\ [GuardsNext]_guardVars => GuardsInv'
<1> SUFFICES ASSUME GuardsInv, [GuardsNext]_guardVars PROVE GuardsInv'
  OBVIOUS
<1>1. GuardsOK /\ \A k \in Keys : KeyInv(k)
  BY DEF GuardsInv
<1>2. ASSUME limit' = limit, clock' = clock, buckets' = buckets, granted' = granted,
             req' \in [Requests -> GuardsReq],
             \A q \in Requests : req'[q].pc # "idle" => req'[q].key \in Keys
      PROVE  GuardsInv'
  <2>1. GuardsOK'
    BY <1>1, <1>2 DEF GuardsOK
  <2>2. \A k \in Keys : KeyInv(k)'
    BY <1>1, <1>2, KeyStable
  <2> QED BY <2>1, <2>2 DEF GuardsInv
<1>3. req \in [Requests -> GuardsReq] /\ \A q \in Requests : req[q].pc # "idle" => req[q].key \in Keys
  BY <1>1 DEF GuardsOK
<1>4. CASE UNCHANGED guardVars
  BY <1>2, <1>3, <1>4 DEF guardVars
<1>5. CASE Tick
  <2>1. GuardsOK'
    BY <1>1, <1>5 DEF GuardsOK, Tick
  <2> QED BY <1>5, <2>1, TickInv DEF GuardsInv
<1>6. ASSUME NEW r \in Requests, NEW p \in {"match", "count", "store", "limit"}, NEW k \in Keys,
             NEW m \in Matchers \cup {NoMatcher}, req' = [req EXCEPT ![r] = [pc |-> p, m |-> m, key |-> k]],
             limit' = limit, clock' = clock, buckets' = buckets, granted' = granted
      PROVE  GuardsInv'
  <2>1. PICK x : x = [pc |-> p, m |-> m, key |-> k]
    OBVIOUS
  <2>2. x \in GuardsReq /\ x.key \in Keys
    BY <2>1 DEF GuardsReq
  <2>3. req' = [req EXCEPT ![r] = x]
    BY <1>6, <2>1
  <2>4. \A q \in Requests : req'[q] = IF q = r THEN x ELSE req[q]
    BY <1>3, <2>3
  <2> QED BY <1>2, <1>3, <1>6, <2>2, <2>3, <2>4
<1>7. ASSUME NEW r \in Requests, BeginRequest(r) PROVE GuardsInv'
  BY <1>6, <1>7 DEF BeginRequest
<1>8. ASSUME NEW r \in Requests, NEW p \in {"count", "store"}, req' = [req EXCEPT ![r].pc = p],
             req[r].pc # "idle",
             limit' = limit, clock' = clock, buckets' = buckets, granted' = granted
      PROVE  GuardsInv'
  <2>1. PICK x : x = [req[r] EXCEPT !.pc = p]
    OBVIOUS
  <2>2. req[r] \in GuardsReq /\ req[r].key \in Keys
    BY <1>3, <1>8
  <2>3. x \in GuardsReq /\ x.key \in Keys
    BY <2>1, <2>2 DEF GuardsReq
  <2>4. req' = [req EXCEPT ![r] = x]
    BY <1>8, <2>1
  <2>5. \A q \in Requests : req'[q] = IF q = r THEN x ELSE req[q]
    BY <1>3, <2>4
  <2> QED BY <1>2, <1>3, <1>8, <2>3, <2>4, <2>5
<1>9. ASSUME NEW r \in Requests, CompiledRegex(r) PROVE GuardsInv'
  <2>1. limit' = limit /\ clock' = clock /\ buckets' = buckets /\ granted' = granted /\ req[r].pc # "idle"
    BY <1>9 DEF CompiledRegex, Match, CountEntry, StoreEntry
  <2>2. \/ \E hit : Finish(r, hit)
        \/ \E p \in {"count", "store"} : req' = [req EXCEPT ![r].pc = p]
    BY <1>9 DEF CompiledRegex, Match, CountEntry, StoreEntry
  <2>3. CASE \E hit : Finish(r, hit)
    <3>1. PICK hit : Finish(r, hit)
      BY <2>3
    <3>2. \E any \in BOOLEAN : Finish(r, any)
      <4>1. CASE hit
        <5>1. Finish(r, TRUE)
          BY <3>1, <4>1 DEF Finish
        <5> QED BY <5>1
      <4>2. CASE ~hit
        <5>1. Finish(r, FALSE)
          BY <3>1, <4>2 DEF Finish
        <5> QED BY <5>1
      <4> QED BY <4>1, <4>2
    <3> QED BY <1>1, <1>2, <2>1, <3>2, FinishTypes
  <2>4. CASE \E p \in {"count", "store"} : req' = [req EXCEPT ![r].pc = p]
    BY <1>8, <2>1, <2>4
  <2> QED BY <2>2, <2>3, <2>4
<1>10. ASSUME NEW r \in Requests, Limit(r) PROVE GuardsInv'
  <2>1. PICK k : k = req[r].key
    OBVIOUS
  <2>2. k \in Keys
    BY <1>10, <2>1, LimitKey
  <2>3. /\ buckets' \in [Keys -> [tokens : Int, lastRefill : Nat]]
        /\ granted' \in [Keys -> Seq(Nat)]
    <3>1. CASE LimiterOpen
      <4>1. PICK d \in [tokens : Int, lastRefill : Nat], h \in Seq(Nat) :
              buckets' = [buckets EXCEPT ![k] = d] /\ granted' = [granted EXCEPT ![k] = h]
        BY <1>10, <2>1, <3>1, LimitOpenInv
      <4> QED BY <1>1, <2>2, <4>1 DEF GuardsOK
    <3>2. CASE ~LimiterOpen
      BY <1>1, <1>10, <3>2 DEF Limit, GuardsOK
    <3> QED BY <3>1, <3>2
  <2>4. limit' = limit /\ clock' = clock /\ req' = [req EXCEPT ![r] = NoRequest]
    BY <1>10 DEF Limit
  <2>5. NoRequest \in GuardsReq /\ NoRequest.pc = "idle"
    BY DEF NoRequest, GuardsReq
  <2>6. \A q \in Requests : req'[q] = IF q = r THEN NoRequest ELSE req[q]
    BY <1>3, <2>4
  <2>7. GuardsOK'
    BY <1>1, <1>3, <2>3, <2>4, <2>5, <2>6 DEF GuardsOK
  <2> QED BY <1>10, <2>7, LimitInv DEF GuardsInv
<1> QED BY <1>4, <1>5, <1>7, <1>9, <1>10 DEF GuardsNext

\* Between any two instants a key is admitted at most its burst plus the tokens
\* of the intervals in between, rounded up, for every limit, any number of
\* requests and any times: the whole-token refill that keeps the fraction of an
\* interval never pays twice (RateLimiter.allow).
THEOREM GuardsRateBounded == GuardsSpec => []RateBounded
<1>1. GuardsInv => RateBounded
  <2> SUFFICES ASSUME GuardsInv, NEW k \in Keys, NEW from \in 0..clock, NEW to \in 0..clock, from <= to
               PROVE  GrantedIn(k, from, to) <=
                        IF LimiterOpen THEN limit.max + Ceil(to - from, Interval) ELSE 0
    BY DEF RateBounded, Ceil
  <2>1. GrantedIn(k, from, to) = Within(granted[k], from, to)
    BY DEF GrantedIn, Within
  <2>2. KeyInv(k) /\ GuardsOK /\ clock \in Nat
    BY DEF GuardsInv, GuardsOK
  <2>3. CASE LimiterOpen /\ buckets[k] # NoBucket
    BY <2>1, <2>2, <2>3 DEF KeyInv, Bounded
  <2>4. CASE ~(LimiterOpen /\ buckets[k] # NoBucket)
    <3>1. Within(granted[k], from, to) = 0 /\ granted[k] = <<>>
      BY <2>2, <2>4, CountedNone DEF KeyInv
    <3>2. CASE LimiterOpen
      <4>1. Bounded(Interval, limit.max, clock, <<>>)
        BY <2>2, <3>2, OpenLimit, BoundedEmpty
      <4> QED BY <2>1, <3>1, <3>2, <4>1 DEF Bounded
    <3>3. CASE ~LimiterOpen
      BY <2>1, <3>1, <3>3
    <3> QED BY <3>2, <3>3
  <2> QED BY <2>3, <2>4
<1> QED BY <1>1, GuardsInitInv, GuardsNextInv, PTL DEF GuardsSpec

-----------------------------------------------------------------------------
(* The pattern cache. *)

\* Only patterns that compiled are cached or on their way into the cache.
CacheInv ==
  /\ cache \cap BadPatterns = {}
  /\ \A r \in Requests : req[r].pc \in {"count", "store"} => req[r].m.needle \notin BadPatterns

LEMMA CacheStep ==
  ASSUME GuardsInv, CacheInv, [GuardsNext]_guardVars
  PROVE  CacheInv'
<1>1. req \in [Requests -> GuardsReq]
  BY DEF GuardsInv, GuardsOK
<1>2. ASSUME NEW r \in Requests, NEW x, req' = [req EXCEPT ![r] = x],
             x.pc \in {"count", "store"} => x.m.needle \notin BadPatterns
      PROVE  \A q \in Requests : req'[q].pc \in {"count", "store"} => req'[q].m.needle \notin BadPatterns
  <2>1. \A q \in Requests : req'[q] = IF q = r THEN x ELSE req[q]
    BY <1>1, <1>2
  <2> QED BY <1>2, <2>1 DEF CacheInv
<1>3. ASSUME NEW r \in Requests, NEW hit, Finish(r, hit)
      PROVE  \A q \in Requests : req'[q].pc \in {"count", "store"} => req'[q].m.needle \notin BadPatterns
  <2>1. PICK x : x = IF hit THEN NoRequest ELSE [req[r] EXCEPT !.pc = "limit", !.m = NoMatcher]
    OBVIOUS
  <2>2. req' = [req EXCEPT ![r] = x]
    BY <1>3, <2>1 DEF Finish
  <2>3. req[r] \in GuardsReq
    BY <1>1
  <2>4. x.pc \notin {"count", "store"}
    <3>1. CASE hit
      BY <2>1, <3>1 DEF NoRequest
    <3>2. CASE ~hit
      BY <2>1, <2>3, <3>2 DEF GuardsReq
    <3> QED BY <3>1, <3>2
  <2> QED BY <1>2, <2>2, <2>4
<1>4. CASE UNCHANGED guardVars \/ Tick
  BY <1>4 DEF guardVars, Tick, CacheInv
<1>5. ASSUME NEW r \in Requests, BeginRequest(r) \/ Limit(r) PROVE CacheInv'
  <2>1. cache' = cache
    BY <1>5 DEF BeginRequest, Limit
  <2>2. \E x : req' = [req EXCEPT ![r] = x] /\ x.pc \notin {"count", "store"}
    BY <1>5 DEF BeginRequest, Limit, NoRequest
  <2> QED BY <1>2, <2>1, <2>2 DEF CacheInv
<1>6. ASSUME NEW r \in Requests, Match(r) PROVE CacheInv'
  <2>1. cache' = cache
    BY <1>6 DEF Match
  <2>2. CASE \E hit : Finish(r, hit)
    BY <1>3, <2>1, <2>2 DEF CacheInv
  <2>3. CASE req' = [req EXCEPT ![r].pc = "count"] /\ req[r].m.needle \notin BadPatterns
    <3>1. PICK x : x = [req[r] EXCEPT !.pc = "count"]
      OBVIOUS
    <3>2. req' = [req EXCEPT ![r] = x] /\ req[r] \in GuardsReq
      BY <1>1, <2>3, <3>1
    <3>3. x.m = req[r].m
      BY <3>1, <3>2 DEF GuardsReq
    <3> QED BY <1>2, <2>1, <2>3, <3>2, <3>3 DEF CacheInv
  <2> QED BY <1>6, <2>2, <2>3 DEF Match
<1>7. ASSUME NEW r \in Requests, CountEntry(r) PROVE CacheInv'
  <2>1. cache' \cap BadPatterns = {} /\ req[r].pc = "count"
    BY <1>7 DEF CountEntry, CacheInv
  <2>2. PICK x : x = [req[r] EXCEPT !.pc = "store"]
    OBVIOUS
  <2>3. req' = [req EXCEPT ![r] = x] /\ req[r] \in GuardsReq
    BY <1>1, <1>7, <2>2 DEF CountEntry
  <2>4. x.m = req[r].m
    BY <2>2, <2>3 DEF GuardsReq
  <2>5. x.m.needle \notin BadPatterns
    BY <2>1, <2>4 DEF CacheInv
  <2> QED BY <1>2, <2>1, <2>3, <2>5 DEF CacheInv
<1>8. ASSUME NEW r \in Requests, StoreEntry(r) PROVE CacheInv'
  <2>1. cache' \cap BadPatterns = {}
    BY <1>8 DEF StoreEntry, CacheInv
  <2> QED BY <1>3, <1>8, <2>1 DEF StoreEntry, CacheInv
<1> QED BY <1>4, <1>5, <1>6, <1>7, <1>8 DEF GuardsNext, CompiledRegex

\* A deny rule whose pattern does not compile stops every request it applies to
\* that carries the field, whatever stores race evictions: the cache never holds
\* such a pattern, so Match always finds out that it does not compile
\* (StaticPolicyMatch.matches, compiledMatchRegex).
THEOREM GuardsMalformedClosed == GuardsSpec => MalformedFailsClosed
<1>1. GuardsInit => CacheInv
  BY DEF GuardsInit, CacheInv, NoRequest
<1>2. GuardsInv /\ CacheInv /\ [GuardsNext]_guardVars => CacheInv'
  BY CacheStep
<1>3. GuardsInv /\ CacheInv /\ [GuardsNext]_guardVars =>
        [\A r \in Requests :
           req[r].pc = "match" /\ req'[r].pc = "limit"
             => ~(RunsRegex(req[r].m) /\ req[r].m.needle \in BadPatterns)]_guardVars
  <2> SUFFICES ASSUME GuardsInv, CacheInv, GuardsNext, NEW r \in Requests, req[r].pc = "match",
                      req'[r].pc = "limit", RunsRegex(req[r].m), req[r].m.needle \in BadPatterns
               PROVE  FALSE
    OBVIOUS
  <2>1. req \in [Requests -> GuardsReq]
    BY DEF GuardsInv, GuardsOK
  <2>2. ASSUME NEW q \in Requests, q # r, NEW x, req' = [req EXCEPT ![q] = x] PROVE FALSE
    <3>1. req'[r] = req[r]
      BY <2>1, <2>2
    <3> QED BY <3>1
  <2>3. ~Tick
    BY DEF Tick
  <2>4. PICK q \in Requests : BeginRequest(q) \/ CompiledRegex(q) \/ Limit(q)
    BY <2>3 DEF GuardsNext
  <2>5. req[q].pc # "match" => q # r
    OBVIOUS
  <2>6. \E x : req' = [req EXCEPT ![q] = x]
    BY <2>4 DEF BeginRequest, CompiledRegex, Match, CountEntry, StoreEntry, Limit, Finish
  <2>7. q = r
    BY <2>2, <2>6
  <2>8. Match(r)
    BY <2>4, <2>7 DEF BeginRequest, CompiledRegex, CountEntry, StoreEntry, Limit
  <2>9. req[r].m.needle \notin cache
    BY DEF CacheInv
  <2>10. Finish(r, MalformedHit(req[r].m.needle))
    BY <2>8, <2>9 DEF Match
  <2>11. req' = [req EXCEPT ![r] = NoRequest]
    BY <2>10 DEF Finish, MalformedHit
  <2>12. req'[r] = NoRequest
    BY <2>1, <2>11
  <2> QED BY <2>12 DEF NoRequest
<1> QED BY <1>1, <1>2, <1>3, GuardsInitInv, GuardsNextInv, PTL DEF GuardsSpec, MalformedFailsClosed
=============================================================================
