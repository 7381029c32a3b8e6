---------------------------- MODULE MCEscalation ----------------------------
(***************************************************************************)
(* Escalation for model checking: the configurations give every constant.  *)
(* Liveness is checked in the same run, so no symmetry is declared.        *)
(***************************************************************************)
EXTENDS Escalation
=============================================================================
