------------------------------ MODULE Pipeline ------------------------------
(***************************************************************************)
(* governance.Pipeline.Evaluate: concurrent evaluations of governed tool   *)
(* calls over one shared standalone trust backend.                         *)
(*                                                                         *)
(* Each member of Evals is a goroutine that serves one request at a time.  *)
(* A request walks through the stages of Evaluate in order; each stage is  *)
(* one action, and so are the pieces of the deferred function (trust       *)
(* update, audit, dry-run conversion).  What an external dependency can    *)
(* answer - the rules that match, the interceptor, the policy evaluator,   *)
(* the escalation handler - is chosen from a constant set.  An operator    *)
(* may reset or terminate an agent between any two steps.                  *)
(***************************************************************************)
EXTENDS TrustModel, Sequences

CONSTANTS
  Evals,              \* goroutines calling Evaluate
  Agents,             \* agent identities
  NoAgent,            \* a request that carries no agent identity
  Transports,         \* transports a request may arrive on
  Configs,            \* pipeline configurations to start from
  RuleMatches,        \* sequences of static rules that match a request
  InterceptorResults, \* what a domain interceptor may answer
  PolicyResults,      \* what the policy evaluator may answer
  EscalationResults,  \* what an escalation handler may answer
  LookupFaults,       \* BOOLEAN, or {FALSE} when trust lookups never fail
  UpdateFaults,       \* BOOLEAN, or {FALSE} when trust updates never fail
  MaxRequests,        \* bound: requests served in all
  MaxOperatorActions  \* bound: operator resets and terminations

ASSUME PipelineBounds == MaxRequests \in Nat /\ MaxOperatorActions \in Nat
ASSUME NoAgentAssumption == NoAgent \notin Agents
ASSUME FaultsAssumption == LookupFaults \subseteq BOOLEAN /\ UpdateFaults \subseteq BOOLEAN

VARIABLES
  cfg,     \* the pipeline's configuration, fixed at construction
  trust,   \* the trust backend: per-agent state
  ev,      \* per goroutine: the request it is evaluating
  served,  \* requests started so far
  opsLeft  \* operator actions left

vars == <<cfg, trust, ev, served, opsLeft>>

-----------------------------------------------------------------------------
(* Vocabulary *)

Verdicts == {"allow", "warn", "escalate", "require_approval", "deny"}
Indeterminate == "check_indeterminate"
Actions == Verdicts \cup {Indeterminate}
Modes == {"deterministic", "classified", "proved", "human_approved"}

\* A reason is abstracted to what the code later reads out of its text.
\* "names_blocked" is policy text that contains " is ISOLATED" or
\* " is TERMINATED", which recordTrustDecision mistakes for its own reason.
Reasons == {"none", "policy", "names_blocked", "agent_blocked", "degraded",
            "check", "escalation"}

RuleActions == Verdicts \cup {"audit"}
Rule == [action : RuleActions, mode : Modes \cup {"unset"}, reason : {"policy", "names_blocked"}]
NoRule == [action |-> "none", mode |-> "unset", reason |-> "policy"]

CheckStages == {"config", "identity", "trust", "interceptor", "policy_eval", "trust_update"}
NoCheck == "none"

InterceptorResult == [kind : {"none", "error", "block"}, action : Verdicts \cup {"", "bogus"},
                      reason : {"policy", "names_blocked"}]
PolicyResult == [kind : {"error", "nil", "strict", "ok"}, action : Verdicts \cup {"bogus"},
                 faulted : BOOLEAN, matched : BOOLEAN, reason : {"policy", "names_blocked"}]
EscalationResult == [kind : {"error", "nil", "panic", "ok"}, action : Verdicts \cup {"bogus"},
                     mode : Modes \cup {"unset"}, reason : {"escalation", "names_blocked"}]

Config == [configErr : BOOLEAN, requireAgentID : BOOLEAN, nonEnforcing : SUBSET Transports,
           dryRun : BOOLEAN, checker : {"none", "lookup", "backend"}, escalation : BOOLEAN]

ASSUME InputsAssumption ==
  /\ Configs \subseteq Config
  /\ RuleMatches \subseteq Seq(Rule)
  /\ InterceptorResults \subseteq InterceptorResult
  /\ PolicyResults \subseteq PolicyResult
  /\ EscalationResults \subseteq EscalationResult

Decision == [action : Actions, reason : Reasons, mode : Modes, rule : Rule \cup {NoRule},
             policy : {"none", "rule", "evaluator"}, check : CheckStages \cup {NoCheck},
             trustState : TrustStates, countable : BOOLEAN, dryRun : BOOLEAN]

\* The decision Evaluate starts from.
StartDecision ==
  [action |-> "allow", reason |-> "none", mode |-> "deterministic", rule |-> NoRule,
   policy |-> "none", check |-> NoCheck, trustState |-> "TRUSTED",
   countable |-> FALSE, dryRun |-> FALSE]

Allowed(d) == d.action \in {"allow", "warn"}

-----------------------------------------------------------------------------
(* Verdict algebra *)

\* verdictRank: a verdict outside the table ranks as allow.
VerdictRank(action) ==
  CASE action = "warn" -> 1
    [] action = "escalate" -> 2
    [] action = "require_approval" -> 3
    [] action = "deny" -> 4
    [] OTHER -> 0

StaticRuleRank(action) ==
  CASE action = "audit" -> 1
    [] action = "warn" -> 2
    [] action = "escalate" -> 3
    [] action = "require_approval" -> 4
    [] action = "deny" -> 5
    [] OTHER -> 0

ClearAttribution(d) ==
  [d EXCEPT !.rule = NoRule, !.policy = "none", !.mode = "deterministic"]

Stricter(d, action) == VerdictRank(action) > VerdictRank(d.action)

\* adoptStricter: a more restrictive verdict replaces the current one and
\* takes the credit away from the static rule it overrides.
AdoptStricter(d, action, reason) ==
  LET v == [d EXCEPT !.action = action, !.reason = reason]
  IN  IF ~Stricter(d, action) THEN d
      ELSE IF d.rule = NoRule THEN v ELSE ClearAttribution(v)

RestoreVerdict(d, prior) ==
  [d EXCEPT !.action = prior.action, !.reason = prior.reason, !.rule = prior.rule,
            !.policy = prior.policy, !.mode = prior.mode]

AnyMode(m) == m # "unset"

\* The modes a static rule or an escalation handler may put on a decision.
IsAdoptableEscalationMode(m) == m \in {"deterministic", "classified", "human_approved"}

\* markCheckFailureEnforced: the first failed check is recorded; a verdict
\* that already blocks stands; an enforcing surface blocks as indeterminate.
MarkCheckFailureEnforced(d, stage, enforcing) ==
  LET recorded == [d EXCEPT !.check = IF @ = NoCheck THEN stage ELSE @]
      postured == IF stage \in {"trust", "identity", "config"}
                  THEN [recorded EXCEPT !.trustState = "UNKNOWN"] ELSE recorded
      credited == IF postured.action = "warn" /\ postured.rule # NoRule
                  THEN ClearAttribution(postured) ELSE postured
  IN  IF ~Allowed(d) THEN recorded
      ELSE IF ~enforcing THEN postured
      ELSE [credited EXCEPT !.action = Indeterminate, !.reason = "check"]

Enforcing(transport) == transport \notin cfg.nonEnforcing

MarkCheckFailure(d, stage, transport) ==
  MarkCheckFailureEnforced(d, stage, Enforcing(transport))

\* A dry run lets a blocking verdict through, except a configuration error.
DryRunConverts(d) ==
  cfg.dryRun /\ ~cfg.configErr /\ d.action \in {"deny", Indeterminate}

-----------------------------------------------------------------------------
(* The request a goroutine is evaluating.  faulted, lookup, floor and       *)
(* relayed are history: whether a consulted check failed, how the trust     *)
(* lookup went, the rank of the strictest verdict any sound stage gave, and *)
(* whether an escalation handler resolved the request.  panicked is the     *)
(* handler's panic, the one Evaluate does not recover.                      *)

PCs == {"idle", "trust", "static", "interceptor", "policy", "escalate",
        "defer", "audit", "return", "done", "panicked"}

Event == [type : {"decision", "trust_transition"}, action : Actions, dryRun : BOOLEAN,
          trustState : TrustStates]

Idle == [pc |-> "idle", agent |-> NoAgent, transport |-> "none", d |-> StartDecision,
         prior |-> StartDecision, matched |-> FALSE, transition |-> FALSE,
         log |-> <<>>, faulted |-> FALSE, lookup |-> "skipped", floor |-> 0,
         relayed |-> FALSE, panicked |-> FALSE]

Evaluation == [pc : PCs, agent : Agents \cup {NoAgent}, transport : Transports \cup {"none"},
               d : Decision, prior : Decision, matched : BOOLEAN, transition : BOOLEAN,
               log : Seq(Event), faulted : BOOLEAN, lookup : {"skipped", "ok", "failed"},
               floor : 0..4, relayed : BOOLEAN, panicked : BOOLEAN]

Raise(rank, other) == IF other > rank THEN other ELSE rank

Set(e, r) == ev' = [ev EXCEPT ![e] = r]

Init ==
  /\ cfg \in Configs
  /\ trust = [a \in Agents |-> Unseen]
  /\ ev = [e \in Evals |-> Idle]
  /\ served = 0
  /\ opsLeft = MaxOperatorActions

\* Evaluate is called: the configuration and identity guards run before any
\* shared state is read.
Begin(e) ==
  /\ ev[e].pc \in {"idle", "done", "panicked"}
  /\ served < MaxRequests
  /\ served' = served + 1
  /\ \E agent \in Agents \cup {NoAgent}, transport \in Transports :
       LET unidentified == cfg.requireAgentID /\ agent = NoAgent
           d == IF cfg.configErr THEN MarkCheckFailureEnforced(StartDecision, "config", TRUE)
                ELSE IF unidentified THEN MarkCheckFailure(StartDecision, "identity", transport)
                ELSE StartDecision
       IN  Set(e, [Idle EXCEPT !.agent = agent, !.transport = transport, !.d = d,
                     !.faulted = cfg.configErr \/ unidentified,
                     !.lookup = IF cfg.configErr \/ unidentified THEN "failed" ELSE "skipped",
                     !.pc = IF ~Allowed(d) THEN "defer"
                            ELSE IF cfg.checker # "none" /\ agent # NoAgent THEN "trust"
                            ELSE "static"])
  /\ UNCHANGED <<cfg, trust, opsLeft>>

\* Stage 1: the circuit-breaker lookup.
CheckTrust(e) ==
  /\ ev[e].pc = "trust"
  /\ \E fault \in LookupFaults :
       LET state == trust[ev[e].agent].state
           found == [ev[e].d EXCEPT !.trustState = state]
           d == IF fault THEN MarkCheckFailure(ev[e].d, "trust", ev[e].transport)
                ELSE IF Blocked(state)
                     THEN [found EXCEPT !.action = "deny", !.reason = "agent_blocked"]
                     ELSE found
       IN  Set(e, [ev[e] EXCEPT !.d = d, !.faulted = @ \/ fault,
                     !.lookup = IF fault THEN "failed" ELSE "ok",
                     !.floor = Raise(@, VerdictRank(IF fault THEN "allow" ELSE d.action)),
                     !.pc = IF Allowed(d) THEN "static" ELSE "defer"])
  /\ UNCHANGED <<cfg, trust, served, opsLeft>>

RawVerdict(rule) == rule.action

\* The verdict a static rule asks for: audit is a warn.
RuleVerdict(rule) == IF rule.action = "audit" THEN "warn" ELSE rule.action

FirstMatch(rules) == rules[1]

\* The first of the most restrictive matching rules decides.
Winner(rules) ==
  rules[CHOOSE i \in DOMAIN rules :
          /\ \A j \in DOMAIN rules : StaticRuleRank(rules[j].action) <= StaticRuleRank(rules[i].action)
          /\ \A j \in 1..(i - 1) : StaticRuleRank(rules[j].action) < StaticRuleRank(rules[i].action)]

ApplyWinner(d, rule) ==
  LET credited == [d EXCEPT !.rule = rule, !.policy = "rule",
                     !.mode = IF IsAdoptableEscalationMode(rule.mode) THEN rule.mode ELSE @]
      verdict  == [credited EXCEPT !.action = RuleVerdict(rule), !.reason = rule.reason]
  IN  CASE rule.action = "allow"    -> credited
        [] rule.action = "escalate" -> [verdict EXCEPT !.mode = "classified"]
        [] OTHER                    -> verdict

StrictestRule(rules) ==
  LET ranks == {VerdictRank(RuleVerdict(rules[i])) : i \in DOMAIN rules}
  IN  CHOOSE n \in ranks \cup {0} : \A m \in ranks : m <= n

\* Stage 2: every static rule is matched and the strictest one decides.
StaticRules(e) ==
  /\ ev[e].pc = "static"
  /\ \E rules \in RuleMatches :
       LET d == IF rules = <<>> THEN ev[e].d ELSE ApplyWinner(ev[e].d, Winner(rules))
       IN  Set(e, [ev[e] EXCEPT !.d = d, !.floor = Raise(@, StrictestRule(rules)),
                     !.pc = IF d.action = "deny" THEN "defer" ELSE "interceptor"])
  /\ UNCHANGED <<cfg, trust, served, opsLeft>>

\* Stage 3: the tool's domain interceptor.  A blocking answer outside the
\* verdict vocabulary, or "allow", is an invalid check result.
RunInterceptor(e) ==
  /\ ev[e].pc = "interceptor"
  /\ \E r \in InterceptorResults :
       LET action  == IF r.action = "" THEN "deny" ELSE r.action
           invalid == \/ r.kind = "error"
                      \/ r.kind = "block" /\ action \notin Verdicts \ {"allow"}
           d == IF invalid THEN MarkCheckFailure(ev[e].d, "interceptor", ev[e].transport)
                ELSE IF r.kind = "block" THEN AdoptStricter(ev[e].d, action, r.reason)
                ELSE ev[e].d
           over == (invalid /\ ~Allowed(d)) \/ d.action = "deny"
       IN  Set(e, [ev[e] EXCEPT !.d = d, !.faulted = @ \/ invalid,
                     !.floor = IF r.kind = "block" /\ ~invalid
                               THEN Raise(@, VerdictRank(action)) ELSE @,
                     !.pc = IF over THEN "defer" ELSE "policy"])
  /\ UNCHANGED <<cfg, trust, served, opsLeft>>

\* The evaluator's attribution: it is credited when it decided or when no
\* static rule holds the credit.
CreditEvaluator(d, matched, adopted) ==
  IF matched /\ (adopted \/ d.rule = NoRule) THEN [d EXCEPT !.policy = "evaluator"] ELSE d

IgnoreSkippedRules(d, v, transport) ==
  CreditEvaluator(IF v.action \in Verdicts \ {"allow"}
                  THEN AdoptStricter(d, v.action, v.reason) ELSE d,
                  v.matched, Stricter(d, v.action))

\* Stage 4 for a well-formed result that does not enter the escalation seam.
ApplyPolicyResult(d, v, transport) ==
  LET skipped  == v.faulted /\ v.action # "deny"
      noted    == IF skipped THEN MarkCheckFailure(d, "policy_eval", transport) ELSE d
      adopted  == v.action \in Verdicts \ {"allow"} /\ Stricter(noted, v.action)
      verdict  == IF v.action = "bogus" THEN MarkCheckFailure(noted, "policy_eval", transport)
                  ELSE IF adopted THEN AdoptStricter(noted, v.action, v.reason)
                  ELSE noted
      labelled == IF adopted /\ v.action = "escalate"
                  THEN [verdict EXCEPT !.mode = "classified"] ELSE verdict
      credited == CreditEvaluator(labelled, v.matched, adopted)
      denied   == v.faulted /\ v.action = "deny"
      final    == IF denied THEN MarkCheckFailure(credited, "policy_eval", transport)
                  ELSE credited
  IN  IF skipped /\ ~Allowed(noted) THEN noted
      ELSE [final EXCEPT !.countable = denied /\ final.action = "deny"]

\* Stage 4 reaches the escalation seam: the evaluator escalates, nothing
\* stricter stands, a handler is configured and this is not a dry run.
EntersEscalation(d, v, transport) ==
  /\ v.kind = "ok" /\ v.action = "escalate"
  /\ cfg.escalation /\ ~cfg.dryRun
  /\ Stricter(d, "escalate")
  /\ ~v.faulted \/ ~Enforcing(transport)

EscalatedOnReturn(d, v) == d

\* The decision while the handler is asked: the escalation, and a claim of no
\* more than a classified mode.
Escalated(d, v) == [AdoptStricter(d, "escalate", v.reason) EXCEPT !.mode = "classified"]

\* Stage 4: the policy evaluator, up to the escalation await.
EvaluatePolicy(e) ==
  /\ ev[e].pc = "policy"
  /\ \E v \in PolicyResults :
       LET d0 == ev[e].d
           invalid == v.kind # "ok" \/ v.action = "bogus" \/ v.faulted
           noted == IF v.faulted THEN MarkCheckFailure(d0, "policy_eval", ev[e].transport)
                    ELSE d0
           r == [ev[e] EXCEPT !.faulted = @ \/ invalid, !.matched = v.matched]
       IN  \/ /\ EntersEscalation(d0, v, ev[e].transport)
              /\ Set(e, [r EXCEPT
                     !.prior = noted,
                     !.d = Escalated(noted, v),
                     !.pc = "escalate"])
           \/ /\ ~EntersEscalation(d0, v, ev[e].transport)
              /\ Set(e, [r EXCEPT
                     !.d = IF v.kind = "ok" THEN ApplyPolicyResult(d0, v, ev[e].transport)
                           ELSE MarkCheckFailure(d0, "policy_eval", ev[e].transport),
                     !.floor = IF v.kind = "ok" /\ (~v.faulted \/ v.action = "deny")
                               THEN Raise(@, VerdictRank(v.action)) ELSE @,
                     !.pc = "defer"])
  /\ UNCHANGED <<cfg, trust, served, opsLeft>>

\* resolveEscalation: the handler's verdict is relayed; every fault denies.
RelayResolution(d, r) ==
  IF r.kind = "ok" /\ r.action \in Verdicts
  THEN [d EXCEPT !.action = r.action, !.reason = r.reason,
                 !.mode = IF IsAdoptableEscalationMode(r.mode) THEN r.mode ELSE @]
  ELSE [d EXCEPT !.action = "deny", !.reason = "escalation", !.mode = "deterministic"]

\* The awaited escalation returns, or the handler panics and the deferred
\* function runs on the unresolved decision.  An approval cannot lower the
\* verdict that stood before the evaluator escalated.
ResolveEscalation(e) ==
  /\ ev[e].pc = "escalate"
  /\ \E r \in EscalationResults :
       LET resolved == RelayResolution(ev[e].d, r)
           lowered  == VerdictRank(resolved.action) < VerdictRank(ev[e].prior.action)
           d == IF lowered THEN RestoreVerdict(resolved, ev[e].prior) ELSE resolved
       IN  IF r.kind = "panic"
           THEN Set(e, [ev[e] EXCEPT !.panicked = TRUE, !.pc = "defer"])
           ELSE Set(e, [ev[e] EXCEPT
                     !.d = CreditEvaluator(d, ev[e].matched, ~lowered),
                     !.relayed = TRUE,
                     !.floor = Raise(@, VerdictRank(IF r.kind = "ok" THEN r.action ELSE "deny")),
                     !.pc = "defer"])
  /\ UNCHANGED <<cfg, trust, served, opsLeft>>

-----------------------------------------------------------------------------
(* The deferred function of Evaluate *)

RecordEverything(r) == cfg.checker = "backend" /\ r.agent # NoAgent

\* recordTrustDecisionSafe and recordTrustDecision: which decisions feed the
\* trust backend.
FeedsTrust(r) ==
  /\ ~DryRunConverts(r.d)
  /\ r.agent # NoAgent
  /\ cfg.checker = "backend"
  /\ r.d.check = NoCheck \/ r.d.countable
  /\ r.d.reason \notin {"agent_blocked", "names_blocked"}

KeepVerdict(d, state) == [d EXCEPT !.trustState = state]

\* The updated posture may override a verdict that permits execution.
AfterTrustUpdate(d, state) ==
  LET seen == [d EXCEPT !.trustState = state]
  IN  IF ~Allowed(d) THEN seen
      ELSE CASE state = "ISOLATED" ->
                  [seen EXCEPT !.action = "deny", !.reason = "agent_blocked"]
             [] state = "EVALUATING" ->
                  [seen EXCEPT !.action = "require_approval", !.reason = "degraded"]
             [] OTHER -> seen

\* The decision is folded into the agent's trust, under the backend's mutex.
UpdateTrust(e) ==
  /\ ev[e].pc = "defer"
  /\ IF FeedsTrust(ev[e])
     THEN \E fault \in UpdateFaults :
            LET before == trust[ev[e].agent]
                after  == RecordDecision(before, ev[e].d.action)
            IN  IF fault
                THEN /\ Set(e, [ev[e] EXCEPT !.pc = "audit", !.faulted = TRUE,
                            !.d = MarkCheckFailure(@, "trust_update", ev[e].transport)])
                     /\ UNCHANGED trust
                ELSE /\ Set(e, [ev[e] EXCEPT !.pc = "audit",
                            !.d = AfterTrustUpdate(@, after.state),
                            !.transition = before.state # after.state])
                     /\ trust' = [trust EXCEPT ![ev[e].agent] = after]
     ELSE Set(e, [ev[e] EXCEPT !.pc = "audit"]) /\ UNCHANGED trust
  /\ UNCHANGED <<cfg, served, opsLeft>>

ConvertedEvent(d) ==
  [type |-> "decision", action |-> IF DryRunConverts(d) THEN "allow" ELSE d.action,
   dryRun |-> DryRunConverts(d), trustState |-> d.trustState]

DecisionEvent(d) == [type |-> "decision", action |-> d.action, dryRun |-> DryRunConverts(d),
                     trustState |-> d.trustState]

TransitionEvent(d) == [type |-> "trust_transition", action |-> d.action, dryRun |-> FALSE,
                       trustState |-> d.trustState]

\* emitAudit, then emitTrustTransition when the breaker moved.
EmitAudit(e) ==
  /\ ev[e].pc = "audit"
  /\ LET d == ev[e].d
     IN  Set(e, [ev[e] EXCEPT !.pc = "return",
                   !.log = IF ev[e].transition THEN <<DecisionEvent(d), TransitionEvent(d)>>
                                               ELSE <<DecisionEvent(d)>>])
  /\ UNCHANGED <<cfg, trust, served, opsLeft>>

\* Dry-run conversion, after the audit, and Evaluate returns (or goes on
\* panicking).
Return(e) ==
  /\ ev[e].pc = "return"
  /\ Set(e, [ev[e] EXCEPT !.pc = IF ev[e].panicked THEN "panicked" ELSE "done",
               !.d = IF DryRunConverts(@) THEN [@ EXCEPT !.action = "allow", !.dryRun = TRUE]
                                          ELSE @])
  /\ UNCHANGED <<cfg, trust, served, opsLeft>>

-----------------------------------------------------------------------------
(* Operator controls on the trust backend *)

ResetAgentTrust(a) ==
  /\ opsLeft > 0 /\ opsLeft' = opsLeft - 1
  /\ trust' = [trust EXCEPT ![a] = Unseen]
  /\ UNCHANGED <<cfg, ev, served>>

TerminateAgent(a) ==
  /\ opsLeft > 0 /\ opsLeft' = opsLeft - 1
  /\ trust' = [trust EXCEPT ![a] = Terminated(@)]
  /\ UNCHANGED <<cfg, ev, served>>

Step(e) ==
  \/ CheckTrust(e) \/ StaticRules(e) \/ RunInterceptor(e) \/ EvaluatePolicy(e)
  \/ ResolveEscalation(e) \/ UpdateTrust(e) \/ EmitAudit(e) \/ Return(e)

Next ==
  \/ \E e \in Evals : Begin(e)
  \/ \E e \in Evals : Step(e)
  \/ \E a \in Agents : ResetAgentTrust(a)
  \/ \E a \in Agents : TerminateAgent(a)

Spec == Init /\ [][Next]_vars

-----------------------------------------------------------------------------
(* Properties *)

TypeOK ==
  /\ cfg \in Config
  /\ trust \in [Agents -> AgentTrust]
  /\ ev \in [Evals -> Evaluation]
  /\ served \in 0..MaxRequests
  /\ opsLeft \in 0..MaxOperatorActions

Done(e) == ev[e].pc = "done"

\* A required check that failed anywhere on the way (configuration, identity,
\* trust lookup or update, interceptor, evaluator) never ends in execution on
\* an enforcing transport, whatever the other stages answered; an invalid
\* configuration blocks even a dry run (ADR-047, markCheckFailureEnforced).
FailClosed ==
  \A e \in Evals :
    Done(e) /\ ev[e].faulted /\ Enforcing(ev[e].transport)
            /\ (cfg.configErr \/ ~cfg.dryRun)
      => ~Allowed(ev[e].d)

\* A failed check leaves its mark on the decision on every transport, so a
\* non-enforcing surface records what it would have blocked.
FailedCheckRecorded ==
  \A e \in Evals : Done(e) /\ ev[e].faulted => ev[e].d.check # NoCheck

\* Severity orders what Evaluate may return: a check failure is above deny.
Severity(action) == IF action = Indeterminate THEN 5 ELSE VerdictRank(action)

\* No stage's verdict is lost: the returned verdict is at least as strict as
\* each one given by the trust lookup, any matching static rule, the
\* interceptor, the evaluator or the escalation handler.  Only an escalation
\* the evaluator asked for may be lowered, by the handler, and what an
\* evaluator that skipped faulted rules says short of deny is not a verdict.
MostRestrictiveWins ==
  \A e \in Evals :
    Done(e) /\ ~ev[e].d.dryRun => Severity(ev[e].d.action) >= ev[e].floor

\* A decision never claims a trust posture that the lookup did not obtain:
\* after a failed lookup, the record says UNKNOWN unless a later countable
\* deny brought back the backend's own answer.
HonestPosture ==
  \A e \in Evals :
    Done(e) /\ ev[e].lookup = "failed" /\ ~ev[e].d.countable
      => ev[e].d.trustState = "UNKNOWN"

\* What an evaluation leaves behind is true.  Exactly one decision event is
\* published, before the dry-run conversion, with the verdict that would have
\* been enforced.  The mode label is earned: "proved" is never emitted, and
\* behind "human_approved" is a handler's resolution or a policy author who
\* wrote it into the deciding static rule.
AuditHonest ==
  \A e \in Evals :
    Done(e) =>
      LET r == ev[e]
      IN  /\ r.d.mode # "proved"
          /\ r.d.mode = "human_approved" => r.relayed \/ r.d.rule.mode = "human_approved"
          /\ \E i \in DOMAIN r.log :
               /\ \A j \in DOMAIN r.log : r.log[j].type = "decision" <=> j = i
               /\ r.log[i].dryRun = r.d.dryRun
               /\ r.log[i].trustState = r.d.trustState
               /\ IF r.d.dryRun THEN Severity(r.log[i].action) >= 4
                                ELSE r.log[i].action = r.d.action

\* An agent found ISOLATED, at lookup or by the time its own outcome is
\* folded in, is not allowed to execute.
IsolatedNeverAllowed ==
  \A e \in Evals :
    Done(e) /\ ~cfg.dryRun /\ Allowed(ev[e].d) => ev[e].d.trustState # "ISOLATED"

\* Only outcomes move an agent's trust.  An evaluation in which a check failed
\* changes it only when a cleanly evaluated rule still denied, and an audit-only
\* pipeline never degrades an agent through a verdict it did not enforce: beta
\* grows by at most the partial weight of an escalation.
OnlyOutcomesMoveTrust ==
  [][/\ \A e \in Evals :
          ev[e].pc = "defer" /\ ev'[e].pc = "audit" /\ ev[e].faulted /\ trust' # trust
            => ev[e].d.action = "deny"
     /\ cfg.dryRun => \A a \in Agents :
          trust'[a].beta <= trust[a].beta + PartialBetaWeight]_vars

\* A panic of the escalation handler goes through Evaluate, and the deferred
\* function runs on the decision as the evaluator left it: the audit holds one
\* decision event for the call, an escalation nobody resolved, whatever stood
\* before it and whatever the trust update did.
PanicAccounted ==
  \A e \in Evals :
    ev[e].pc = "panicked" =>
      /\ ~Allowed(ev[e].d) /\ ev[e].d.mode = "classified"
      /\ \E i \in DOMAIN ev[e].log :
           /\ \A j \in DOMAIN ev[e].log : ev[e].log[j].type = "decision" <=> j = i
           /\ ev[e].log[i].action = "escalate" /\ ~ev[e].log[i].dryRun

\* The evaluations of a's calls that passed the lookup and whose outcome is
\* not folded in yet.
Admitted(a) ==
  {e \in Evals : /\ ev[e].agent = a /\ ev[e].lookup = "ok"
                 /\ ev[e].pc \in {"static", "interceptor", "policy", "escalate", "defer"}
                 /\ ~Blocked(ev[e].d.trustState)}

CB == INSTANCE CircuitBreaker WITH Calls    <- Evals,
                                   state    <- [a \in Agents |-> trust[a].state],
                                   admitted <- [a \in Agents |-> Admitted(a)]

\* No call passes a lookup that failed: lookups cannot fail, as those of the
\* in-process backend cannot, or every transport blocks on a failed check.
LookupsBlock == TRUE \notin LookupFaults \/ \A c \in Configs : c.nonEnforcing = {}

\* The pipeline and its backend implement the abstract circuit breaker,
\* however evaluations overlap: a blocked agent is admitted no call, is
\* isolated through degradation only, leaves isolation only by an operator or
\* by the outcome of a call admitted before it was isolated, and leaves
\* termination only by an operator's reset.
BreakerRefinement == CB!Spec
=============================================================================
