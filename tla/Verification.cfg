\* Two edits of a record, two changes of a witnessed bundle, one of an evidence
\* directory that two bundlings write, and two hook doctors
\* on one machine that is edited twice.
SPECIFICATION Spec
CONSTANTS
  Documents <- MCDocuments
  Events <- MCEvents
  Signers = {"", "boundary"}
  Options <- MCOptions
  Outcome <- MCOutcome
  Substitutes <- MCSubstitutes
  ForeignKey = "foreign"
  MaxEmitted = 2
  MaxEdits = 2
  Tenants = {"t1", "t2"}
  Logged <- MCLogged
  Unlogged <- MCUnlogged
  Witnesses = {"w1"}  \* w2 is configured too; of one cosignature it does not matter whose it is
  FulcrumKeyID = "kf"
  WitnessKeyID <- MCWitnessKeyID
  KeySpecs <- MCKeySpecs
  MaxCosigned = 1
  MaxExports = 2
  MaxChanges = 2
  Bundlings = {"b1", "b2"}
  Outputs <- MCOutputs
  SourceFiles <- MCSourceFiles
  Fixtures = {"version", "selftest"}
  MaxTouches = 1
  Doctors = {"d1", "d2"}
  Governed = {"Bash", "Edit"}
  Installations <- MCInstallations
  SettingsEdits <- MCSettingsEdits
  pluginManifestLimit = 1
  RoutedEvidenceWindow = 1
  DormancyThreshold = 1
  MaxClock = 3
  MaxLines = 1
INVARIANTS
  VerifiedMeansEmitted WitnessedBinding DoctorHonest EvidencePassMeansBundled
CHECK_DEADLOCK FALSE
