--------------------------- MODULE MCAuditDelivery --------------------------
(* Small instances of AuditDelivery; publishers and readers are symmetric. *)
EXTENDS AuditDelivery, TLC
Symmetry == Permutations(Publishers) \cup Permutations(Readers)
=============================================================================
