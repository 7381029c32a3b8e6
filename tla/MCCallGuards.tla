---------------------------- MODULE MCCallGuards -----------------------------
(***************************************************************************)
(* CallGuards for model checking: matchers, limits and the catalogue of    *)
(* policies.  Patterns that compile, and the goroutines, are               *)
(* interchangeable.                                                        *)
(***************************************************************************)
EXTENDS CallGuards, MCPolicyEval, TLC

CONSTANTS p1, p2, p3, bad

Symmetry == Permutations({p1, p2, p3}) \cup Permutations(Requests)

Regex(p, field, holds) == [type |-> "regex", field |-> field, needle |-> p, holds |-> holds]
Text(type, field, needle, holds) ==
  [type |-> type, field |-> field, needle |-> needle, holds |-> holds]

WideMatchers ==
  {Regex(p, "present", FALSE) : p \in {p1, p2, p3, bad}}
  \cup {Regex(p1, "present", TRUE), Regex("empty", "present", TRUE), Regex(bad, "absent", TRUE),
        Text("contains", "absent", p1, TRUE), Text("contains", "present", p1, TRUE),
        Text("transport_is", "none", "empty", TRUE)}

L(max, window) == [max |-> max, window |-> window]
MCLimits == {L(2, 4), L(0, 4), L(1, 2)}
=============================================================================
