----------------------------- MODULE RedisTrust -----------------------------
(***************************************************************************)
(* governance.RedisTrustBackend: the kernel-mode trust backend keeps one   *)
(* agent's circuit_state and trust_score under two keys of a shared store. *)
(*                                                                         *)
(* Every GET, SET and DEL is a step of its own, and none of the operations *)
(* is a transaction: evaluations (a lookup, later a RecordDecision), the   *)
(* operator's TerminateAgent and ResetAgentTrust, the external evaluator   *)
(* that shares the keys, and key expiry interleave between them.  A store  *)
(* command may fail, and a failed write may have been applied.  Keys of    *)
(* different agents do not interact, so the module has one agent.          *)
(***************************************************************************)
EXTENDS Integers

CONSTANTS
  Evals,       \* goroutines evaluating calls of the agent
  Operators,   \* goroutines running TerminateAgent or ResetAgentTrust
  FailClosed,  \* KernelTrustConfig.FailClosed
  Faults,      \* BOOLEAN, or {FALSE} when the store never fails
  MaxEvals,    \* bound: evaluations in all
  MaxOps,      \* bound: operator actions in all
  MaxExternal, \* bound: writes of the external evaluator
  MaxExpiries  \* bound: expiries of a key

ASSUME RedisBounds ==
  /\ MaxEvals \in Nat /\ MaxOps \in Nat /\ MaxExternal \in Nat /\ MaxExpiries \in Nat
  /\ FailClosed \in BOOLEAN /\ Faults \subseteq BOOLEAN

VARIABLES
  state, score,  \* the two keys
  eval,          \* per evaluation goroutine
  op,            \* per operator goroutine
  evals, ops, external, expiries,
  held,          \* history: the blocking state last put, "clear" once lifted
  raced          \* history: a RecordDecision was between its GET and its SET then

redisVars == <<state, score, eval, op, evals, ops, external, expiries, held, raced>>
counters == <<evals, ops, external, expiries>>

Blocking == {"ISOLATED", "TERMINATED"}
States == {"TRUSTED", "EVALUATING"} \cup Blocking
Absent == "absent"
Garbage == "garbage"   \* a stored value parseTrustState rejects
Stored == States \cup {Absent, Garbage}
Scores == {"0", "0.5", "1"}

\* A snapshot: Known is FALSE when no record was stored.
Snapshot == [state : States, score : Scores, known : BOOLEAN]
Unknown == [state |-> "TRUSTED", score |-> "1", known |-> FALSE]

TrustScoreForState(s) ==
  CASE s = "TRUSTED" -> "1" [] s = "EVALUATING" -> "0.5" [] OTHER -> "0"

\* A stored state's snapshot before its score is read.
Found(s) == [state |-> s, score |-> TrustScoreForState(s), known |-> TRUE]

Evaluation == [pc : {"idle", "lookState", "lookScore", "outcome", "recordState",
                     "recordScore", "writeState", "writeScore"},
               snap : Snapshot, outcome : {"none", "failure", "other"},
               fault : BOOLEAN, result : {"none", "run", "refused"}]
NoEval == [pc |-> "idle", snap |-> Unknown, outcome |-> "none", fault |-> FALSE, result |-> "none"]

RedisInit ==
  /\ state = Absent /\ score = Absent
  /\ eval = [w \in Evals |-> NoEval]
  /\ op = [o \in Operators |-> "idle"]
  /\ evals = 0 /\ ops = 0 /\ external = 0 /\ expiries = 0
  /\ held = "clear" /\ raced = FALSE

\* Evaluations between RecordDecision's GET and its SET of circuit_state.
InWindow == {w \in Evals : eval[w].pc \in {"recordScore", "writeState"}}

\* The circuit_state key becomes s by somebody who may change it.
Put(s) ==
  /\ state' = s
  /\ held' = IF s \in Blocking THEN s ELSE "clear"
  /\ raced' = (InWindow # {})

-----------------------------------------------------------------------------
(* An evaluation: CheckAgentState, the call's outcome, RecordDecision *)

Begin(w) ==
  /\ eval[w].pc = "idle" /\ evals < MaxEvals
  /\ evals' = evals + 1
  /\ eval' = [eval EXCEPT ![w] = [pc |-> "lookState", snap |-> Unknown, outcome |-> "none",
                                  fault |-> FALSE, result |-> "none"]]
  /\ UNCHANGED <<state, score, op, ops, external, expiries, held, raced>>

\* CheckAgentState on an error: fail closed, or degrade open to TRUSTED.
LookupFault(w) ==
  eval' = [eval EXCEPT ![w].fault = TRUE,
                       ![w].pc = IF FailClosed THEN "idle" ELSE "outcome",
                       ![w].result = IF FailClosed THEN "refused" ELSE @]

\* A lookup ends with a snapshot: a blocked agent is denied and not recorded.
LookedUp(w, snap) ==
  eval' = [eval EXCEPT ![w].snap = snap,
                       ![w].pc = IF snap.state \in Blocking THEN "idle" ELSE "outcome",
                       ![w].result = IF snap.state \in Blocking THEN "refused" ELSE @]

\* GetAgentTrust: GET circuit_state, for a lookup.
LookState(w) ==
  /\ eval[w].pc = "lookState"
  /\ \E fault \in Faults :
       IF fault \/ state = Garbage THEN LookupFault(w)
       ELSE IF state = Absent THEN LookedUp(w, Unknown)
       ELSE eval' = [eval EXCEPT ![w].pc = "lookScore", ![w].snap = Found(state)]
  /\ UNCHANGED <<state, score, op, counters, held, raced>>

\* The score GET of a snapshot: an absent or unreadable score leaves the
\* state's own.
Scored(snap, fault) == IF fault \/ score = Absent THEN snap ELSE [snap EXCEPT !.score = score]

LookScore(w) ==
  /\ eval[w].pc = "lookScore"
  /\ \E fault \in Faults :
       LookedUp(w, Scored(eval[w].snap, fault))
  /\ UNCHANGED <<state, score, op, counters, held, raced>>

\* The rest of the pipeline decides; the deferred update follows.  The backend
\* tells a deny, the only failure outcome, from everything else: allow and
\* warn run, an escalate or require_approval does not.
DecideOutcome(w) ==
  /\ eval[w].pc = "outcome"
  /\ \E outcome \in {"failure", "other"}, result \in {"run", "refused"} :
       /\ outcome = "failure" => result = "refused"
       /\ eval' = [eval EXCEPT ![w].pc = "recordState", ![w].outcome = outcome, ![w].result = result]
  /\ UNCHANGED <<state, score, op, counters, held, raced>>

\* RecordDecision returns an error, or an agent ISOLATED or EVALUATING: on an
\* enforcing surface the call that was about to run is refused.
Refuse(w) == eval' = [eval EXCEPT ![w].pc = "idle", ![w].result = "refused"]

\* RecordDecision's GetAgentTrust: GET circuit_state.
RecordState(w) ==
  /\ eval[w].pc = "recordState"
  /\ \E fault \in Faults :
       IF fault \/ state = Garbage THEN Refuse(w)
       ELSE IF state = Absent
       THEN eval' = [eval EXCEPT ![w].pc = "writeState", ![w].snap = Unknown]
       ELSE eval' = [eval EXCEPT ![w].pc = "recordScore", ![w].snap = Found(state)]
  /\ UNCHANGED <<state, score, op, counters, held, raced>>

RecordScore(w) ==
  /\ eval[w].pc = "recordScore"
  /\ \E fault \in Faults :
       eval' = [eval EXCEPT ![w].pc = "writeState", ![w].snap = Scored(@, fault)]
  /\ UNCHANGED <<state, score, op, counters, held, raced>>

AfterAnyFailure(snap, outcome) ==
  IF outcome = "failure" THEN [snap EXCEPT !.state = "EVALUATING", !.score = "0.5"] ELSE snap

\* RecordDecision's coarse transition: a failure moves a TRUSTED agent to
\* EVALUATING, and nothing else moves.
AfterOutcome(snap, outcome) ==
  IF outcome = "failure" /\ snap.state = "TRUSTED"
  THEN [snap EXCEPT !.state = "EVALUATING", !.score = "0.5"] ELSE snap

\* writeSnapshot: SET circuit_state, written back even when nothing changed.
WriteState(w) ==
  /\ eval[w].pc = "writeState"
  /\ LET after == AfterOutcome(eval[w].snap, eval[w].outcome)
     IN  \E fault \in Faults, applied \in BOOLEAN :
           /\ ~fault => applied
           /\ state' = IF applied THEN after.state ELSE state
           /\ IF fault THEN Refuse(w)
              ELSE eval' = [eval EXCEPT ![w].pc = "writeScore", ![w].snap = after]
  /\ UNCHANGED <<score, op, counters, held, raced>>

\* writeSnapshot: SET trust_score.
WriteScore(w) ==
  /\ eval[w].pc = "writeScore"
  /\ \E fault \in Faults, applied \in BOOLEAN :
       /\ ~fault => applied
       /\ score' = IF applied THEN eval[w].snap.score ELSE score
       /\ IF fault \/ eval[w].snap.state \in {"ISOLATED", "EVALUATING"} THEN Refuse(w)
          ELSE eval' = [eval EXCEPT ![w].pc = "idle"]
  /\ UNCHANGED <<state, op, counters, held, raced>>

-----------------------------------------------------------------------------
(* The operator, the external evaluator and expiry *)

Start(o, pc) ==
  /\ op[o] = "idle" /\ ops < MaxOps
  /\ ops' = ops + 1
  /\ op' = [op EXCEPT ![o] = pc]
  /\ UNCHANGED <<state, score, eval, evals, external, expiries, held, raced>>

\* TerminateAgent and ResetAgentTrust are called.
BeginTerminate(o) == Start(o, "terminateState")
BeginReset(o) == Start(o, "resetState")

\* TerminateAgent and ResetAgentTrust, the circuit_state command: an error is
\* returned without touching the other key.
OperateState(o, s, next) ==
  /\ \E fault \in Faults, applied \in BOOLEAN :
       /\ ~fault => applied
       /\ IF applied THEN Put(s) ELSE UNCHANGED <<state, held, raced>>
       /\ op' = [op EXCEPT ![o] = IF fault THEN "idle" ELSE next]
  /\ UNCHANGED <<score, eval, counters>>

TerminateState(o) == op[o] = "terminateState" /\ OperateState(o, "TERMINATED", "terminateScore")
ResetState(o) == op[o] = "resetState" /\ OperateState(o, Absent, "resetScore")

\* The companion trust_score command.
OperateScore(o, s) ==
  /\ \E applied \in BOOLEAN :
       /\ applied \/ TRUE \in Faults
       /\ score' = IF applied THEN s ELSE score
  /\ op' = [op EXCEPT ![o] = "idle"]
  /\ UNCHANGED <<state, eval, counters, held, raced>>

TerminateScore(o) == op[o] = "terminateScore" /\ OperateScore(o, "0")
ResetScore(o) == op[o] = "resetScore" /\ OperateScore(o, Absent)

\* External: the evaluator that shares the keys writes a state (or something
\* unreadable) and its score.
ExternalWrite ==
  /\ external < MaxExternal
  /\ external' = external + 1
  /\ \E s \in States \cup {Garbage} : Put(s) /\ score' = TrustScoreForState(s)
  /\ UNCHANGED <<eval, op, evals, ops, expiries>>

\* External: a key's 24 hours are over.  The keys expire separately.
ExpireState ==
  /\ expiries < MaxExpiries /\ state # Absent
  /\ expiries' = expiries + 1
  /\ Put(Absent)
  /\ UNCHANGED <<score, eval, op, evals, ops, external>>

ExpireScore ==
  /\ expiries < MaxExpiries /\ score # Absent
  /\ expiries' = expiries + 1
  /\ score' = Absent
  /\ UNCHANGED <<state, eval, op, evals, ops, external, held, raced>>

Evaluate(w) ==
  \/ LookState(w) \/ LookScore(w) \/ DecideOutcome(w) \/ RecordState(w) \/ RecordScore(w)
  \/ WriteState(w) \/ WriteScore(w)

Operate(o) == TerminateState(o) \/ TerminateScore(o) \/ ResetState(o) \/ ResetScore(o)

RedisNext ==
  \/ \E w \in Evals : Begin(w) \/ Evaluate(w)
  \/ \E o \in Operators : BeginTerminate(o) \/ BeginReset(o) \/ Operate(o)
  \/ ExternalWrite \/ ExpireState \/ ExpireScore

RedisSpec == RedisInit /\ [][RedisNext]_redisVars

-----------------------------------------------------------------------------
(* Properties *)

RedisTypeOK ==
  /\ state \in Stored /\ score \in Scores \cup {Absent}
  /\ eval \in [Evals -> Evaluation]
  /\ op \in [Operators -> {"idle", "terminateState", "terminateScore", "resetState", "resetScore"}]
  /\ evals \in 0..MaxEvals /\ ops \in 0..MaxOps
  /\ external \in 0..MaxExternal /\ expiries \in 0..MaxExpiries
  /\ held \in Blocking \cup {"clear"} /\ raced \in BOOLEAN

\* What an operator or the external evaluator puts holds against every outcome
\* folded in afterwards, failed stores included: a block stays, and a lifted
\* block does not come back, unless some RecordDecision had already read the
\* key and not yet written it back.
BlockHoldsUnlessRaced ==
  ~raced => IF held = "clear" THEN state \notin Blocking ELSE state = held
=============================================================================
