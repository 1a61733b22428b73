\* One finding, and both services run; the digest in the name of the project has a "db" in it.
CONSTANTS
  PackagedVerdicts <- MCPackagedVerdicts
  OutOfScope = {"secrets.key"}
  DbService = {"db"}
  SpecificCwe = {"CWE-89"}
  MaxLogLines = 2
  Inputs <- LookupInputs
  Answers <- MCAnswers
  Runs <- MCRuns
  Listings <- FullListing
  LogTexts <- MCLogTexts
SPECIFICATION Spec
INVARIANT LookupFindsTheTarget
CHECK_DEADLOCK FALSE
