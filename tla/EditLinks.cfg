\* Two invocations that nothing disturbs: does a link lead a change out of scope?
SPECIFICATION EditSpec
CONSTANTS
  Appliers = {p1, p2}
  Paths <- MCPaths
  PathKind <- MCPathKind
  LeadsTo <- MCLeadsTo
  Patches <- MCPatches
  Policies <- MCPolicies
  Trees <- MCTrees
  EditFaulty = {}
SYMMETRY EditSymmetry
INVARIANTS
  SymlinkEscapeDenied
CHECK_DEADLOCK FALSE
