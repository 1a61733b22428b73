\* Four families of inputs: every compose file of up to four lines over two services,
\* results with every kind of CWE and severity, two verifiable findings with every
\* provider and application, and the legacy mode.
CONSTANTS
  PackagedVerdicts <- MCPackagedVerdicts
  OutOfScope = {"secrets.key"}
  DbService = {"db"}
  SpecificCwe = {"CWE-89"}
  MaxLogLines = 2
  Inputs <- MCInputs
  Answers <- MCAnswers
  Runs <- MCRuns
  Listings <- MCListings
  LogTexts <- MCLogTexts
SPECIFICATION Spec
INVARIANTS
  TypeOK
  DataPathInvariant
  ServicesAreExtracted
  ExploitNamesAService
  StaticIsNeverExploited
  RefusedAfterRetry
  TruePositiveHasACause
  EffectIsNotMissed
  FalsePositiveRan
  EveryResultIsReported
  ReportIsConsistent
  ExitCodeTells
CHECK_DEADLOCK FALSE
