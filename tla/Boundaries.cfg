\* Two tool calls and a session end sharing one record directory, or two
\* overlapping applies on one project; every operation may fail, every process
\* may be killed.
SPECIFICATION BothSpec
CONSTANTS
  Hooks = {h1, h2}
  Enders = {e1}
  Sessions = {s1}
  Names = {n1, n2}
  FailModes = {"open", "ask"}
  CommandOutcomes <- MCCommandOutcomes
  EditOutcomes = {"allow", "deny"}
  Faulty = {"dirs", "create", "fill", "append", "remove", "crash", "scan", "summary"}
  MCDepth = 5
  Appliers = {h1, h2}
  Paths <- MCPaths
  PathKind <- MCPathKind
  LeadsTo <- MCLeadsTo
  Patches <- MCPatches
  Policies <- MCPolicies
  Trees <- MCTrees
  EditFaulty = {"read", "write", "record", "crash"}
SYMMETRY Symmetry
INVARIANTS
  RecordedBeforeActed AnswerCoversCall SummaryNeverSilent
  EachChangePermitted RecordTruthful
CHECK_DEADLOCK FALSE
