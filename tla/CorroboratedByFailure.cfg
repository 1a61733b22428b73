\* One finding; the log driver of the target cannot be read.
CONSTANTS
  PackagedVerdicts <- MCPackagedVerdicts
  OutOfScope = {"secrets.key"}
  DbService = {"db"}
  SpecificCwe = {"CWE-89"}
  MaxLogLines = 2
  Inputs <- UnreadableInputs
  Answers <- MCAnswers
  Runs <- MCRuns
  Listings <- MCListings
  LogTexts <- MCLogTexts
SPECIFICATION Spec
INVARIANT TruePositiveWasWitnessed
CHECK_DEADLOCK FALSE
