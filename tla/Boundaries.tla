----------------------------- MODULE Boundaries ------------------------------
(***************************************************************************)
(* The two boundaries around a coding agent, side by side: the hook before *)
(* its tool calls (HookBoundary, over the command lines of CommandLine)    *)
(* and `boundary edit apply` (EditBoundary).  They keep separate records,  *)
(* so a behaviour exercises one of them.                                   *)
(***************************************************************************)
EXTENDS HookBoundary, CommandLine, EditBoundary

VARIABLE boundary   \* which of the two this behaviour runs

bothVars == <<vars, editVars, boundary>>

\* What is not exercised rests in one initial state.
BothInit ==
  /\ boundary \in {"hook", "edit"}
  /\ Init /\ (boundary # "hook" => dir = "present")
  /\ EditInit /\ (boundary # "edit" => project = CHOOSE tree \in Trees : TRUE)

BothNext ==
  \/ boundary = "hook" /\ Next /\ UNCHANGED <<editVars, boundary>>
  \/ boundary = "edit" /\ EditNext /\ UNCHANGED <<vars, boundary>>

BothSpec == BothInit /\ [][BothNext]_bothVars
=============================================================================
