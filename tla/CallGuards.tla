----------------------------- MODULE CallGuards ------------------------------
(***************************************************************************)
(* What the pipeline's middle stages call, side by side: the matcher cache *)
(* and the rate limiter (RequestGuards), and the policy evaluator          *)
(* (PolicyEval).  They share no state, so a behaviour exercises one.       *)
(***************************************************************************)
EXTENDS RequestGuards, PolicyEval

VARIABLE exercised   \* which of the two this behaviour runs

vars == <<guardVars, evalVars, exercised>>

\* What is not exercised rests in one initial state.
Init ==
  /\ exercised \in {"guards", "evaluator"}
  /\ GuardsInit /\ (exercised # "guards" => limit = CHOOSE l \in Limits : TRUE)
  /\ EvalInit
  /\ exercised # "evaluator" => policies = <<>> /\ opt = CHOOSE o \in Options : TRUE

Next ==
  \/ exercised = "guards" /\ GuardsNext /\ UNCHANGED <<evalVars, exercised>>
  \/ exercised = "evaluator" /\ EvalNext /\ UNCHANGED <<guardVars, exercised>>

Spec == Init /\ [][Next]_vars
=============================================================================
