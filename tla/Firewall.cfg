\* Three commands of nine workloads with two edits, failing writes and kills; scans of eight
\* directories and the ingest of their records in every order.
SPECIFICATION Spec
CONSTANTS
  Names = {"a", "b"}
  NameWords <- MCNameWords
  Candidates <- MCCandidates
  ScanDirs <- MCScanDirs
  Foreign <- MCForeign
  Commands = {"c1", "c2", "c3"}
  Workloads <- MCWorkloads
  Starts <- MCStarts
  Edits <- MCEdits
  MaxEdits = 2
  Faulty = {"write", "crash"}
INVARIANTS
  WayBackKept OkMeansUnchanged IngestKeepsRisk
CHECK_DEADLOCK FALSE
