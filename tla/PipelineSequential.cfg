CONSTANTS
  f2 = f2
  Finding = {f1, f2, f3}
  Triage <- MCTriage
  Scan = {s1}
  NoScan = NoScan
  NoFinding = NoFinding
  Proc = {p1}
  Mode = {"async", "interactive", "auto", "conflict"}
SPECIFICATION Spec
SYMMETRY MCSymmetry
INVARIANTS TypeOK SequentialInvariant ApprovalGate LaunchedAtMostOnce CompleteIsDrained RefusedWasNotLaunched
PROPERTIES TerminalStays VerdictIsNotReversed ImplementsLifecycle
