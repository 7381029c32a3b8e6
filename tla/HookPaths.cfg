\* One tool call over the whole catalogue of lines: the two paths compared.
SPECIFICATION Spec
CONSTANTS
  Hooks = {h1}
  Enders = {e1}
  Sessions = {s1}
  Names = {n1}
  FailModes = {"ask"}
  CommandOutcomes <- MCBothPaths
  EditOutcomes = {"allow", "deny"}
  Faulty = {}
  MCDepth = 5
SYMMETRY HookSymmetry
INVARIANTS
  PathsAgree
CHECK_DEADLOCK FALSE
