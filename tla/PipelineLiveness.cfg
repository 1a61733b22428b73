CONSTANTS
  f2 = f2
  Finding = {f1, f2}
  Triage <- MCTriage
  Scan = {s1}
  NoScan = NoScan
  NoFinding = NoFinding
  Proc = {p1}
  Mode = {"async", "interactive", "auto"}
  MaxFaults = 2
SPECIFICATION LiveSpec
PROPERTIES InFlightSettles ScanCompletes
