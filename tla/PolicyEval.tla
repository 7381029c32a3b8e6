----------------------------- MODULE PolicyEval -----------------------------
(***************************************************************************)
(* The policy evaluation engine (policyeval/): a policy set that can be    *)
(* replaced while requests are being evaluated, strict validation that     *)
(* arms a fail-closed state, and the loops over policies, rules,           *)
(* conditions and actions that produce a decision.                         *)
(*                                                                         *)
(* A condition keeps what decides its outcome: its type, whether its field *)
(* resolves, its operator (in, not_in or another), whether it lists any    *)
(* values, whether its operand is good, empty (a pattern without a         *)
(* character) or bad (a pattern that does not compile, a value that is not *)
(* a number, a URL that does not answer), and whether the comparison holds *)
(* of the request.  A nested condition of a logical one is itself not      *)
(* logical: one level of nesting.                                          *)
(***************************************************************************)
EXTENDS Integers, Sequences, FiniteSets, SequencesExt

CONSTANTS
  Evaluations,    \* concurrent Evaluate calls
  InitialSets,    \* policy sets the constructor may be given
  PolicySets,     \* policy sets a later update may install
  Options,        \* evaluator configurations
  Contexts,       \* request contexts
  MaxUpdates      \* bound on updates

VARIABLES
  opt, policies, strictErr, updates, ev
evalVars == <<opt, policies, strictErr, updates, ev>>

Actions == {"allow", "warn", "require_approval", "escalate", "deny"}
NoPolicy == [none |-> TRUE]
NoScope == [none |-> TRUE]

-----------------------------------------------------------------------------
(* Conditions *)

TextTypes == {"field_match", "in_list", "contains", "starts_with", "ends_with",
              "statistical_spike"}

\* extractFieldValue: only a known field or an attribute path resolves.
Resolves(c) == c.field \in {"known", "attribute"}

Truth(b) == IF b THEN "match" ELSE "miss"

\* Evaluators that report an unusable operand as an error: a pattern that does
\* not compile, bounds or a value that are not numbers, a call that fails.
CanFault(c, ext) == c.type \in {"regex", "range"} \/ (c.type = "external_call" /\ ext)

\* A list condition: any operator but NOT_IN asks for a member; of an empty list
\* nothing is one, so NOT_IN holds.  Any other text comparison with an unusable
\* operand is FALSE.
TextHolds(c) ==
  IF c.type = "in_list" THEN (c.values /\ c.holds) # (c.op = "not_in")
  ELSE c.operand # "bad" /\ c.holds

\* EvaluateCondition of a condition that is not logical (ext is
\* externalCallsEnabled).  The field is extracted before the type is looked
\* at; an unusable operand is a fault of a regex, range or external condition.
EvaluateLeaf(c, ext) ==
  IF ~Resolves(c) THEN "fault"
  ELSE CASE c.type \in TextTypes -> Truth(TextHolds(c) # c.negate)
         [] CanFault(c, ext) ->
              IF c.operand # "bad" THEN Truth(c.holds # c.negate) ELSE "fault"
         [] OTHER -> "fault"

\* The first outcome that is not v, or v: what a short-circuiting loop returns.
FirstOther(outcomes, v) ==
  LET S == {i \in DOMAIN outcomes : outcomes[i] # v}
  IN  IF S = {} THEN v ELSE outcomes[CHOOSE i \in S : \A j \in S : i <= j]

Negation(o) == CASE o = "match" -> "miss" [] o = "miss" -> "match" [] OTHER -> o

\* evaluateLogicalCondition; it never looks at negate.
EvaluateLogical(c, ext) ==
  LET outcomes == [i \in DOMAIN c.nested |-> EvaluateLeaf(c.nested[i], ext)]
  IN  CASE c.nested = <<>> -> "fault"
        [] c.nested # <<>> /\ c.op = "and" -> FirstOther(outcomes, "match")
        [] c.nested # <<>> /\ c.op = "or"  -> FirstOther(outcomes, "miss")
        [] c.nested # <<>> /\ c.op = "not" -> Negation(outcomes[1])
        [] OTHER -> "fault"

\* evaluateRule's look at one condition: what cannot be decided here escalates.
EvaluateTop(c, ext) ==
  IF c.type = "semantic" \/ (c.type = "external_call" /\ ~ext) THEN "escalate"
  ELSE IF c.type = "logical" THEN EvaluateLogical(c, ext) ELSE EvaluateLeaf(c, ext)

\* All conditions must match; the first that does not decides.
EvaluateRule(rule, ext) ==
  FirstOther([i \in DOMAIN rule.conditions |-> EvaluateTop(rule.conditions[i], ext)], "match")

-----------------------------------------------------------------------------
(* Rules and policies *)

Undecided == [action |-> "allow", stop |-> FALSE, faults |-> 0]

\* One action of a matched rule; a terminal action ends the policy.
ApplyAction(acc, a) ==
  IF acc.stop THEN acc
  ELSE [acc EXCEPT
          !.action = CASE a.type = "deny" -> "deny"
                       [] a.type = "warn" /\ @ = "allow" -> "warn"
                       [] a.type = "require_approval" /\ @ # "deny" -> "require_approval"
                       [] OTHER -> @,
          !.stop = a.terminal]

\* The actions of a matched rule, one after the other.
RunActions(acc, actions) ==
  LET after[n \in 0..Len(actions)] == IF n = 0 THEN acc ELSE ApplyAction(after[n - 1], actions[n])
  IN  after[Len(actions)]

\* The body of evaluatePolicy's loop, given the outcome of the rule's
\* conditions.
ApplyOutcome(acc, rule, outcome) ==
  CASE outcome = "fault"    -> [acc EXCEPT !.faults = @ + 1]
    [] outcome = "escalate" -> [acc EXCEPT !.action = "escalate", !.stop = TRUE]
    [] outcome = "match"    -> RunActions(acc, rule.actions)
    [] outcome = "miss"     -> acc

SkipQuietly(acc, rule, ext) ==
  IF acc.stop \/ ~rule.enabled \/ EvaluateRule(rule, ext) = "fault" THEN acc
  ELSE ApplyOutcome(acc, rule, EvaluateRule(rule, ext))

JudgeRule(acc, rule, ext) ==
  IF acc.stop \/ ~rule.enabled THEN acc ELSE ApplyOutcome(acc, rule, EvaluateRule(rule, ext))

EvaluatePolicy(p, ext) ==
  LET after[n \in 0..Len(p.rules)] ==
        IF n = 0 THEN Undecided ELSE JudgeRule(after[n - 1], p.rules[n], ext)
  IN  after[Len(p.rules)]

\* The action a policy asks for.
VerdictOf(p, ext) == EvaluatePolicy(p, ext).action

\* policyApplies.
Applies(p, ctx) ==
  \/ p.scope = NoScope
  \/ p.scope.all
  \/ \A dim \in DOMAIN ctx : p.scope[dim] = {} \/ p.scope[dim] \cap ctx[dim] # {}

Considered(p, ctx) == p.active /\ Applies(p, ctx)

-----------------------------------------------------------------------------
(* Validation *)

\* Values are asked for by the operator, whatever the type; a pattern has to be
\* there and to compile.
ValidLeaf(c) ==
  /\ c.type = "external_call" \/ Resolves(c)
  /\ c.op \in {"in", "not_in"} => c.values
  /\ c.type = "regex" => c.operand = "good"

ValidCondition(c) ==
  IF c.type = "logical" THEN c.nested # <<>> /\ \A i \in DOMAIN c.nested : ValidLeaf(c.nested[i])
                        ELSE ValidLeaf(c)

\* ValidatePolicy and ValidateRule; disabled rules are validated too.
ValidatePolicy(p) ==
  /\ p.identified
  /\ p.rules # <<>>
  /\ \A i \in DOMAIN p.rules :
       /\ p.rules[i].actions # <<>>
       /\ \A j \in DOMAIN p.rules[i].conditions : ValidCondition(p.rules[i].conditions[j])

ValidSet(set) == \A i \in DOMAIN set : ValidatePolicy(set[i])

\* sort.Slice by descending priority: not stable, so any such order.
SortedVersions(set) ==
  LET D == DOMAIN set
  IN  {[i \in D |-> set[f[i]]] : f \in
         {g \in [D -> D] : /\ \A i, j \in D : i # j => g[i] # g[j]
                           /\ \A i, j \in D : i < j => set[g[i]].priority >= set[g[j]].priority}}

-----------------------------------------------------------------------------
(* The evaluator *)

AllPolicies == UNION {Range(set) : set \in InitialSets \cup PolicySets}

ASSUME PolicyAssumption ==
  /\ InitialSets \cup PolicySets \subseteq Seq(AllPolicies)
  /\ NoPolicy \notin AllPolicies
  /\ Options \subseteq [strict : BOOLEAN, stopOnDeny : BOOLEAN, external : BOOLEAN]
  /\ MaxUpdates \in Nat

IsSeq(s) == Len(s) \in Nat /\ DOMAIN s = 1..Len(s)

\* What a policy document is made of: lists of rules, of conditions and of actions.
ASSUME PolicyShape ==
  \A p \in AllPolicies :
    /\ IsSeq(p.rules)
    /\ \A i \in DOMAIN p.rules :
         /\ IsSeq(p.rules[i].conditions) /\ IsSeq(p.rules[i].actions)
         /\ \A j \in DOMAIN p.rules[i].actions : p.rules[i].actions[j].terminal \in BOOLEAN
         /\ \A j \in DOMAIN p.rules[i].conditions : IsSeq(p.rules[i].conditions[j].nested)

Idle == [pc |-> "idle", set |-> <<>>, ctx |-> <<>>, next |-> 0, action |-> "allow",
         matched |-> NoPolicy, faults |-> 0, refused |-> FALSE]

EvalInit ==
  /\ opt \in Options
  /\ \E set \in InitialSets : policies \in SortedVersions(set)
  /\ strictErr = (opt.strict /\ ~ValidSet(policies))
  /\ updates = 0
  /\ ev = [e \in Evaluations |-> Idle]

\* The locked section of UpdatePoliciesStrict: the set is always installed,
\* and in strict mode its validity arms or disarms the fail-closed state.
Install(set) ==
  /\ policies' = set
  /\ strictErr' = (opt.strict /\ ~ValidSet(set))

UpdatePolicies ==
  /\ updates < MaxUpdates /\ updates' = updates + 1
  /\ \E set \in PolicySets : \E sorted \in SortedVersions(set) : Install(sorted)
  /\ UNCHANGED <<opt, ev>>

\* Evaluate reads the set and the fail-closed state under one read lock.
SnapshotPolicies(e) ==
  /\ ev[e].pc = "idle"
  /\ \E ctx \in Contexts :
       ev' = [ev EXCEPT ![e] = IF strictErr
                               THEN [Idle EXCEPT !.pc = "done", !.set = policies, !.ctx = ctx,
                                                 !.action = "deny", !.refused = TRUE]
                               ELSE [Idle EXCEPT !.pc = "loop", !.set = policies, !.ctx = ctx,
                                                 !.next = 1]]
  /\ UNCHANGED <<opt, policies, strictErr, updates>>

FirstNonNil(matched, p) == IF matched = NoPolicy THEN p ELSE matched

\* The final actions a policy's verdict replaces.
Overridden(action) ==
  IF action = "deny" THEN Actions
  ELSE IF action = "escalate" THEN Actions \ {"deny"}
  ELSE IF action = "require_approval" THEN Actions \ {"deny", "escalate"}
  ELSE IF action = "warn" THEN {"allow"} ELSE {}

ApprovalOverEscalation(r, p, action) ==
  IF r.action \in (IF action = "require_approval" THEN Actions \ {"deny"} ELSE Overridden(action))
  THEN [r EXCEPT !.action = action, !.matched = IF action = "deny" THEN p ELSE FirstNonNil(@, p)]
  ELSE r

KeepFirstMatch(r, p, action) ==
  IF r.action \in Overridden(action)
  THEN [r EXCEPT !.action = action, !.matched = FirstNonNil(@, p)]
  ELSE r

\* The switch on one policy's verdict.
Combine(r, p, action) ==
  IF r.action \in Overridden(action)
  THEN [r EXCEPT !.action = action, !.matched = IF action = "deny" THEN p ELSE FirstNonNil(@, p)]
  ELSE r

\* One turn of policyLoop.
Judge(e) ==
  /\ ev[e].pc = "loop" /\ ev[e].next <= Len(ev[e].set)
  /\ LET p == ev[e].set[ev[e].next]
         verdict == EvaluatePolicy(p, opt.external)
         r == [ev[e] EXCEPT !.next = @ + 1]
     IN  ev' = [ev EXCEPT ![e] =
                  IF ~Considered(p, ev[e].ctx) THEN r
                  ELSE [Combine(r, p, verdict.action) EXCEPT
                          !.faults = @ + verdict.faults,
                          !.pc = IF verdict.action = "deny" /\ opt.stopOnDeny
                                 THEN "done" ELSE "loop"]]
  /\ UNCHANGED <<opt, policies, strictErr, updates>>

Return(e) ==
  /\ ev[e].pc = "loop" /\ ev[e].next > Len(ev[e].set)
  /\ ev' = [ev EXCEPT ![e].pc = "done"]
  /\ UNCHANGED <<opt, policies, strictErr, updates>>

EvalNext == UpdatePolicies \/ \E e \in Evaluations : SnapshotPolicies(e) \/ Judge(e) \/ Return(e)

EvalSpec == EvalInit /\ [][EvalNext]_evalVars

-----------------------------------------------------------------------------
(* Properties *)

AllSets == UNION {SortedVersions(set) : set \in InitialSets \cup PolicySets}

Call == [pc : {"idle", "loop", "done"}, set : AllSets \cup {<<>>}, ctx : Contexts \cup {<<>>},
         next : Nat, action : Actions, matched : AllPolicies \cup {NoPolicy}, faults : Nat,
         refused : BOOLEAN]

TypeOK ==
  /\ opt \in Options
  /\ policies \in AllSets
  /\ strictErr \in BOOLEAN
  /\ updates \in 0..MaxUpdates
  /\ ev \in [Evaluations -> Call]

Rank(action) ==
  IF action = "deny" THEN 4 ELSE IF action = "escalate" THEN 3
  ELSE IF action = "require_approval" THEN 2 ELSE IF action = "warn" THEN 1 ELSE 0

Verdict(p) == VerdictOf(p, opt.external)

Verdicts(e, Eval(_)) ==
  {Eval(ev[e].set[i]) : i \in {i \in DOMAIN ev[e].set : Considered(ev[e].set[i], ev[e].ctx)}}

IsStrictest(action, verdicts) ==
  /\ action \in verdicts \cup {"allow"}
  /\ \A v \in verdicts : Rank(v) <= Rank(action)

Judged(e) == ev[e].pc = "done" /\ ~ev[e].refused

\* The action returned is the strictest verdict of the applicable policies of
\* the set that was loaded when the call took its snapshot: the unstable
\* sort, the early stop on a deny and updates in the middle of the loop never
\* change it.
StrictestPolicyWins ==
  \A e \in Evaluations :
    Judged(e) => IsStrictest(ev[e].action, Verdicts(e, Verdict))

\* JudgeRule as if a faulting rule matched.
JudgeAsMatch(acc, rule, ext) ==
  IF acc.stop \/ ~rule.enabled THEN acc
  ELSE LET outcome == EvaluateRule(rule, ext)
       IN  ApplyOutcome(acc, rule, IF outcome = "fault" THEN "match" ELSE outcome)

\* The policy's verdict were every faulting rule to match.
PessimisticVerdict(p, ext) ==
  LET after[n \in 0..Len(p.rules)] ==
        IF n = 0 THEN Undecided ELSE JudgeAsMatch(after[n - 1], p.rules[n], ext)
  IN  after[Len(p.rules)]

Pessimistic(p) == PessimisticVerdict(p, opt.external).action

\* A skipped rule never weakens a decision silently: when no fault is
\* reported the action is the one in which every faulting rule had matched.
NoSilentSkip ==
  \A e \in Evaluations :
    Judged(e) /\ ev[e].faults = 0 => IsStrictest(ev[e].action, Verdicts(e, Pessimistic))

\* In strict mode a call is refused exactly when the set it would have used
\* is invalid: an invalid set is never evaluated, and one valid update ends
\* the refusals.
StrictExact ==
  \A e \in Evaluations :
    ev[e].pc # "idle" => (ev[e].refused <=> opt.strict /\ ~ValidSet(ev[e].set))

\* A deny names a policy whose own verdict is deny.
DenyAttributed ==
  \A e \in Evaluations :
    Judged(e) /\ ev[e].action = "deny"
      => ev[e].matched # NoPolicy /\ Verdict(ev[e].matched) = "deny"
=============================================================================
