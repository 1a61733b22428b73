CONSTANTS
  f2 = f2
  Finding = {f1}
  Triage <- MCTriage
  Scan = {s1, s2}
  NoScan = NoScan
  NoFinding = NoFinding
  Proc = {p1}
  Mode = {"interactive"}
SPECIFICATION Spec
PROPERTY TerminalStays
