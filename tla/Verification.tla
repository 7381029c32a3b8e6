----------------------------- MODULE Verification -----------------------------
(***************************************************************************)
(* The verifiers side by side: a record, a witnessed bundle, an evidence   *)
(* bundle or a hook installation is what a reader has at hand.             *)
(***************************************************************************)
EXTENDS Receipts, Witnessed, EvidenceBundle, HookDoctor

VARIABLE subject   \* what is verified

vars == <<rcVars, wtVars, evVars, hdVars, subject>>

Init ==
  /\ RcInit /\ WtInit /\ EvInit
  /\ \/ subject \in {"record", "witnessed", "evidence"} /\ HdInit({CHOOSE m \in Installations : TRUE})
     \/ subject = "installation" /\ HdInit(Installations)

Next ==
  \/ subject = "record" /\ RcNext /\ UNCHANGED <<wtVars, evVars, hdVars, subject>>
  \/ subject = "witnessed" /\ WtNext /\ UNCHANGED <<rcVars, evVars, hdVars, subject>>
  \/ subject = "evidence" /\ EvNext /\ UNCHANGED <<rcVars, wtVars, hdVars, subject>>
  \/ subject = "installation" /\ HdNext /\ UNCHANGED <<rcVars, wtVars, evVars, subject>>

Spec == Init /\ [][Next]_vars
=============================================================================
