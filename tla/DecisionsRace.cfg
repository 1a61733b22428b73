CONSTANTS
  f2 = f2
  Finding = {f1}
  Triage <- MCTriage
  Scan = {s1}
  NoScan = NoScan
  NoFinding = NoFinding
  Proc = {p1, p2}
  Mode = {"async"}
SPECIFICATION Spec
INVARIANT ApprovalGate
