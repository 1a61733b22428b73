----------------------------- MODULE ScanStore -----------------------------
(***************************************************************************)
(* The SQLite database <target>/.shieldclaw/scans.db, as class ScanStore   *)
(* of shieldclaw/persistence/store.py keeps it.  Every process that works  *)
(* on one target opens the same file; each method opens a connection, runs *)
(* one transaction and commits, so each operator below is one atomic step. *)
(* A row that does not exist is "NONE" (or NoScan, or not in the set).     *)
(***************************************************************************)

CONSTANTS
  Finding,        \* finding ids: uuid5 of rule, path and lines, the same in every scan
  Scan,           \* scan ids (uuid4)
  NoScan          \* "no row" for findings.scan_id

ASSUME NoScanAssumption == NoScan \notin Scan

ScanState == {"CREATED", "INGESTING", "INGESTED", "TRIAGING", "TRIAGED",
              "SCORING", "DETONATING", "COMPLETE", "FAILED"}

FindingState == {"INGESTED", "TRIAGED", "SCORED", "APPROVED", "REJECTED",
                 "POC_GENERATED", "VERDICTED", "REFUSED"}

TriageVerdict == {"DYNAMICALLY_VERIFIABLE", "STATIC_ONLY", "OUT_OF_SCOPE"}
Decision      == {"APPROVED", "REJECTED"}
\* what synthesize() tells apart: a non-zero exit code, a Tier-2 side effect
Evidence      == {"failed_exit", "effect"}
Verdict       == {"TRUE_POSITIVE", "FALSE_POSITIVE", "INCONCLUSIVE", "REFUSED"}

VARIABLES
  scanState,      \* scans.state
  owner,          \* findings.scan_id
  findingState,   \* findings.state
  triage,         \* findings.triage_verdict
  scores,         \* the findings with a row in scores
  approvals,      \* approvals.decision
  pocs,           \* the findings with a row in pocs
  evidence,       \* the evidence rows of each finding
  verdicts        \* verdicts.verdict

findingRows == <<owner, findingState, triage>>
childRows   == <<scores, approvals, pocs, evidence, verdicts>>
storeVars   == <<scanState, findingRows, childRows>>

StoreTypeOK ==
  /\ scanState    \in [Scan -> ScanState \union {"NONE"}]
  /\ owner        \in [Finding -> Scan \union {NoScan}]
  /\ findingState \in [Finding -> FindingState \union {"NONE"}]
  /\ triage       \in [Finding -> TriageVerdict \union {"NONE"}]
  /\ scores       \subseteq Finding
  /\ approvals    \in [Finding -> Decision \union {"NONE"}]
  /\ pocs         \subseteq Finding
  /\ evidence     \in [Finding -> SUBSET Evidence]
  /\ verdicts     \in [Finding -> Verdict \union {"NONE"}]

StoreInit ==
  /\ scanState    = [s \in Scan |-> "NONE"]
  /\ owner        = [f \in Finding |-> NoScan]
  /\ findingState = [f \in Finding |-> "NONE"]
  /\ triage       = [f \in Finding |-> "NONE"]
  /\ scores       = {}
  /\ approvals    = [f \in Finding |-> "NONE"]
  /\ pocs         = {}
  /\ evidence     = [f \in Finding |-> {}]
  /\ verdicts     = [f \in Finding |-> "NONE"]

----------------------------------------------------------------------------
(* Reads *)

ScanExists(s) == scanState[s] # "NONE"

Stored == {f \in Finding : owner[f] # NoScan}

\* get_pending_findings: only the rows this scan owns
Pending(s, st) == {f \in Finding : owner[f] = s /\ findingState[f] = st}

----------------------------------------------------------------------------
(* Writes: one transaction each *)

CreateScan(s) ==
  /\ ~ScanExists(s)
  /\ scanState' = [scanState EXCEPT ![s] = "CREATED"]
  /\ UNCHANGED <<findingRows, childRows>>

UpdateScanState(s, st) ==
  /\ scanState' = [scanState EXCEPT ![s] = st]
  /\ UNCHANGED <<findingRows, childRows>>

\* INSERT OR IGNORE: a finding that some scan already stored keeps its row
RecordFindings(s, F) ==
  /\ owner' = [f \in Finding |-> IF f \in F \ Stored THEN s ELSE owner[f]]
  /\ findingState' =
       [f \in Finding |-> IF f \in F \ Stored THEN "INGESTED" ELSE findingState[f]]
  /\ UNCHANGED <<scanState, triage, childRows>>

SetTriage(f, v) ==
  /\ triage' = [triage EXCEPT ![f] = v]
  /\ UNCHANGED <<scanState, owner, findingState, childRows>>

\* the WHERE clause names the finding only: neither its scan nor its old state
UpdateFindingState(f, st) ==
  /\ findingState' = [findingState EXCEPT ![f] = st]
  /\ UNCHANGED <<scanState, owner, triage, childRows>>

RecordScore(f) ==
  /\ scores' = scores \union {f}
  /\ UNCHANGED <<scanState, findingRows, approvals, pocs, evidence, verdicts>>

\* variant with a bug: the INSERT is not committed
RecordApprovalUncommitted(f, d) == UNCHANGED storeVars

\* INSERT OR REPLACE, as in RecordVerdict: the last writer's row stays
RecordApproval(f, d) ==
  /\ approvals' = [approvals EXCEPT ![f] = d]
  /\ UNCHANGED <<scanState, findingRows, scores, pocs, evidence, verdicts>>

RecordPoc(f) ==
  /\ pocs' = pocs \union {f}
  /\ UNCHANGED <<scanState, findingRows, scores, approvals, evidence, verdicts>>

RecordEvidence(f, e) ==
  /\ evidence' = [evidence EXCEPT ![f] = @ \union {e}]
  /\ UNCHANGED <<scanState, findingRows, scores, approvals, pocs, verdicts>>

RecordVerdict(f, v) ==
  /\ verdicts' = [verdicts EXCEPT ![f] = v]
  /\ UNCHANGED <<scanState, findingRows, scores, approvals, pocs, evidence>>

=============================================================================
