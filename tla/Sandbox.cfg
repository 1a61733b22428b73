\* One SAST run with two services and up to two detonations, one legacy run with a
\* single service.  Both may die at any point.
CONSTANTS
  sast = sast
  legacy = legacy
  web = web
  cache = cache
  Run = {sast, legacy}
  Legacy = {legacy}
  Service = {web, cache}
  Services <- MCServices
  StartWait = 2
  PollInterval = 1
  ProbeTimeout = 1
  MaxShots = 2
SPECIFICATION FairSpec
INVARIANTS
  StackInvariant
  TypeOK
  StackStays
  NoShotWhileStarting
  WaitIsBounded
  OneExploitAtATime
  LeftoversWereRefused
  LegacyReportTells
PROPERTIES
  EveryRunReturns
CHECK_DEADLOCK FALSE
