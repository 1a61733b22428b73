--------------------------- MODULE PipelineProofs ---------------------------
(***************************************************************************)
(* RowsInvariant is an invariant of the pipeline, for any number of        *)
(* terminals, scans and findings, and so are the properties it contains.   *)
(*                                                                         *)
(* The proof follows the layers of the code.  Each transaction of the      *)
(* store, in a state where its precondition holds, keeps StoreOK and takes *)
(* nothing back (Grows).  So a step of one process leaves what the others  *)
(* know untouched (Bystanders), and it remains to be shown, action by      *)
(* action, that the process meets the precondition of its store call and   *)
(* knows what its next label says.                                         *)
(***************************************************************************)
EXTENDS PipelineInvariant, TLAPS

FiredType == fired \in [Finding -> 0..FiredCap]

\* Facts about the store that one step does not take back
Grows ==
  /\ Stored \subseteq Stored'
  /\ \A s \in Scan : ScanExists(s) => ScanExists(s)'
  /\ scores \subseteq scores' /\ pocs \subseteq pocs'
  /\ \A f \in Finding :
       /\ triage[f] = Triage[f] => triage'[f] = Triage[f]
       /\ Decided(f) => Decided(f)'
       /\ verdicts[f] # "NONE" => verdicts'[f] # "NONE"
       /\ evidence[f] \subseteq evidence'[f]
       /\ fired[f] > 0 => fired'[f] > 0

StoreStep == StoreTypeOK' /\ FiredType' /\ StoreOK' /\ Grows

StoreGood == StoreTypeOK /\ FiredType /\ StoreOK

----------------------------------------------------------------------------
(* The transactions *)

\* A transaction that touches nothing is harmless.
LEMMA NoWrite ==
  ASSUME StoreGood, UNCHANGED <<storeVars, fired>>
  PROVE  StoreStep
BY DEF StoreGood, StoreStep, StoreTypeOK, FiredType, StoreOK, Grows, storeVars,
       findingRows, childRows, ForeignKeys, RowsBehindStates, StatesOK, Ready, Decided,
       LaunchedWasDecided, TruePositiveHasEvidence, Stored, ScanExists, Verifiable

\* create_scan
LEMMA CreateScanSafe ==
  ASSUME StoreGood, NEW s \in Scan, CreateScan(s), UNCHANGED fired
  PROVE  StoreStep
BY DEF StoreGood, StoreStep, StoreTypeOK, FiredType, StoreOK, Grows, CreateScan, ScanState,
       findingRows, childRows, ForeignKeys, RowsBehindStates, StatesOK, Ready, Decided,
       LaunchedWasDecided, TruePositiveHasEvidence, Stored, ScanExists, Verifiable

\* update_scan_state
LEMMA UpdateScanStateSafe ==
  ASSUME StoreGood, NEW s \in Scan, NEW st \in ScanState, UpdateScanState(s, st),
         UNCHANGED fired
  PROVE  StoreStep
BY NoScanAssumption
   DEF StoreGood, StoreStep, StoreTypeOK, FiredType, StoreOK, Grows, UpdateScanState, ScanState,
       findingRows, childRows, ForeignKeys, RowsBehindStates, StatesOK, Ready, Decided,
       LaunchedWasDecided, TruePositiveHasEvidence, Stored, ScanExists, Verifiable

\* record_findings: the scan is there, and the rows of the others stay
LEMMA RecordFindingsSafe ==
  ASSUME StoreGood, NEW s \in Scan, ScanExists(s), NEW F \in SUBSET Finding,
         RecordFindings(s, F), UNCHANGED fired
  PROVE  StoreStep /\ F \subseteq Stored'
BY NoScanAssumption
   DEF StoreGood, StoreStep, StoreTypeOK, FiredType, StoreOK, Grows, RecordFindings, FindingState,
       findingRows, childRows, ForeignKeys, RowsBehindStates, StatesOK, Ready, Decided,
       LaunchedWasDecided, TruePositiveHasEvidence, Stored, ScanExists, Verifiable

\* set_triage
LEMMA SetTriageSafe ==
  ASSUME StoreGood, NEW f \in Stored, SetTriage(f, Triage[f]), UNCHANGED fired
  PROVE  StoreStep /\ triage'[f] = Triage[f]
BY PipelineAssumption
   DEF StoreGood, StoreStep, StoreTypeOK, FiredType, StoreOK, Grows, SetTriage,
       findingRows, childRows, ForeignKeys, RowsBehindStates, StatesOK, Ready, Decided,
       LaunchedWasDecided, TruePositiveHasEvidence, Stored, ScanExists, Verifiable

\* The rows a state stands for
RowsFor(f, st) ==
  /\ st # "INGESTED"
  /\ triage[f] = Triage[f]
  /\ st # "TRIAGED" => Ready(f)
  /\ st \in {"VERDICTED", "REFUSED"} => verdicts[f] # "NONE"
  /\ st = "POC_GENERATED" => f \in pocs
  /\ st \in {"APPROVED", "REJECTED"} => Decided(f)

\* update_finding_state: the rows first, then the state
LEMMA UpdateFindingStateSafe ==
  ASSUME StoreGood, NEW f \in Stored, NEW st \in FindingState, RowsFor(f, st),
         UpdateFindingState(f, st), UNCHANGED fired
  PROVE  StoreStep
BY PipelineAssumption
   DEF StoreGood, StoreStep, StoreTypeOK, FiredType, StoreOK, Grows, UpdateFindingState, RowsFor,
       findingRows, childRows, ForeignKeys, RowsBehindStates, StatesOK, Ready, Decided,
       LaunchedWasDecided, TruePositiveHasEvidence, Stored, ScanExists, Verifiable

\* record_score
LEMMA RecordScoreSafe ==
  ASSUME StoreGood, NEW f \in Stored, RecordScore(f), UNCHANGED fired
  PROVE  StoreStep /\ f \in scores'
BY PipelineAssumption
   DEF StoreGood, StoreStep, StoreTypeOK, FiredType, StoreOK, Grows, RecordScore,
       findingRows, childRows, ForeignKeys, RowsBehindStates, StatesOK, Ready, Decided,
       LaunchedWasDecided, TruePositiveHasEvidence, Stored, ScanExists, Verifiable

\* record_approval
LEMMA RecordApprovalSafe ==
  ASSUME StoreGood, NEW f \in Stored, NEW d \in Decision, RecordApproval(f, d),
         UNCHANGED fired
  PROVE  StoreStep /\ Decided(f)'
BY PipelineAssumption
   DEF StoreGood, StoreStep, StoreTypeOK, FiredType, StoreOK, Grows, RecordApproval, Decision,
       findingRows, childRows, ForeignKeys, RowsBehindStates, StatesOK, Ready, Decided,
       LaunchedWasDecided, TruePositiveHasEvidence, Stored, ScanExists, Verifiable

\* record_poc
LEMMA RecordPocSafe ==
  ASSUME StoreGood, NEW f \in Stored, RecordPoc(f), UNCHANGED fired
  PROVE  StoreStep /\ f \in pocs'
BY PipelineAssumption
   DEF StoreGood, StoreStep, StoreTypeOK, FiredType, StoreOK, Grows, RecordPoc,
       findingRows, childRows, ForeignKeys, RowsBehindStates, StatesOK, Ready, Decided,
       LaunchedWasDecided, TruePositiveHasEvidence, Stored, ScanExists, Verifiable

\* record_evidence
LEMMA RecordEvidenceSafe ==
  ASSUME StoreGood, NEW f \in Stored, NEW e \in Evidence, RecordEvidence(f, e),
         UNCHANGED fired
  PROVE  StoreStep /\ e \in evidence'[f]
BY PipelineAssumption
   DEF StoreGood, StoreStep, StoreTypeOK, FiredType, StoreOK, Grows, RecordEvidence,
       findingRows, childRows, ForeignKeys, RowsBehindStates, StatesOK, Ready, Decided,
       LaunchedWasDecided, TruePositiveHasEvidence, Stored, ScanExists, Verifiable

\* The exploit for f is launched, or not
Fired(f) ==
  \E ran \in {0, 1} :
    fired' = [fired EXCEPT ![f] = IF @ < FiredCap THEN @ + ran ELSE @]

\* record_verdict, possibly after a launch
LEMMA RecordVerdictSafe ==
  ASSUME StoreGood, NEW f \in Stored, NEW v \in Verdict, RecordVerdict(f, v),
         v = "TRUE_POSITIVE" => fired[f] > 0 /\ "effect" \in evidence[f],
         \/ UNCHANGED fired
         \/ Fired(f) /\ Decided(f) /\ f \in pocs
  PROVE  StoreStep /\ verdicts'[f] # "NONE"
BY PipelineAssumption
   DEF StoreGood, StoreStep, StoreTypeOK, FiredType, StoreOK, Grows, RecordVerdict, Verdict, Fired, FiredCap,
       findingRows, childRows, ForeignKeys, RowsBehindStates, StatesOK, Ready, Decided,
       LaunchedWasDecided, TruePositiveHasEvidence, Stored, ScanExists, Verifiable

\* A launch alone
LEMMA FireSafe ==
  ASSUME StoreGood, NEW f \in Stored, Decided(f), f \in pocs, UNCHANGED storeVars,
         fired' = [fired EXCEPT ![f] = IF @ < FiredCap THEN @ + 1 ELSE @]
  PROVE  StoreStep /\ fired'[f] > 0
BY PipelineAssumption
   DEF StoreGood, StoreStep, StoreTypeOK, FiredType, StoreOK, Grows, storeVars, FiredCap,
       findingRows, childRows, ForeignKeys, RowsBehindStates, StatesOK, Ready, Decided,
       LaunchedWasDecided, TruePositiveHasEvidence, Stored, ScanExists, Verifiable

----------------------------------------------------------------------------
(* The processes *)

\* What a process knows stays known while others step.
LEMMA Bystanders ==
  ASSUME TypeOK, Grows, NEW q \in Proc, pc'[q] = pc[q], mem'[q] = mem[q], ProcessOK(q)
  PROVE  ProcessOK(q)'
<1> USE DEF TypeOK, Local
<1>1. LocalsOK(q)'
  BY DEF ProcessOK, LocalsOK, Grows
<1>2. RowsKnown(pc[q], mem[q].todo)'
  BY DEF ProcessOK, RowsKnown, Grows, Ready, Verifiable
<1>3. HandKnown(pc[q], mem[q].cur)'
  BY DEF ProcessOK, HandKnown, Grows, Ready, Verifiable, Stored
<1>4. OutcomeKnown(q)'
  BY DEF ProcessOK, HandKnown, OutcomeKnown, InHand, Grows, Stored
<1>5. QED
  BY <1>1, <1>2, <1>3, <1>4 DEF ProcessOK

\* The local variables of p after its step, and nobody else's, are these.
Locals(p, scan, mode, todo, cur, write, seen) ==
  /\ mem' \in [Proc -> Local]
  /\ mem'[p].scan = scan /\ mem'[p].mode = mode /\ mem'[p].todo = todo
  /\ mem'[p].cur = cur /\ mem'[p].write = write /\ mem'[p].seen = seen
  /\ \A q \in Proc \ {p} : mem'[q] = mem[q]

\* A step of p that the store survives and that leaves p knowing what it must.
LEMMA OneMoves ==
  ASSUME RowsInvariant, StoreStep, NEW p \in Proc, NEW from, NEW to \in Label,
         Goto(p, from, to), mem' \in [Proc -> Local],
         \A q \in Proc \ {p} : mem'[q] = mem[q],
         ProcessOK(p)'
  PROVE  RowsInvariant'
<1>1. /\ pc' \in [Proc -> Label]
      /\ \A q \in Proc \ {p} : pc'[q] = pc[q]
  BY DEF RowsInvariant, TypeOK, Goto
<1>2. TypeOK'
  BY <1>1 DEF StoreStep, TypeOK, FiredType
<1>3. ASSUME NEW q \in Proc PROVE ProcessOK(q)'
  BY <1>1, Bystanders DEF RowsInvariant, StoreStep
<1>4. QED
  BY <1>2, <1>3 DEF RowsInvariant, StoreStep

LEMMA TakeLocals ==
  ASSUME TypeOK, NEW p \in Proc, NEW f \in Finding,
         NEW v \in Decision \union Verdict \union {"none"}, Take(p, f, v)
  PROVE  Locals(p, mem[p].scan, mem[p].mode, mem[p].todo \ {f}, f, v, mem[p].seen)
BY DEF TypeOK, Local, Take, Keep, Locals

LEMMA DropLocals ==
  ASSUME TypeOK, NEW p \in Proc, NEW f \in Finding, Drop(p, f)
  PROVE  Locals(p, mem[p].scan, mem[p].mode, mem[p].todo \ {f}, mem[p].cur,
                mem[p].write, mem[p].seen)
BY DEF TypeOK, Local, Drop, Keep, Locals

LEMMA NextLoopSafe ==
  ASSUME RowsInvariant, NEW p \in Proc, NEW from, NEW to \in Label \ InHand,
         NEW rows \in SUBSET Finding, NextLoop(p, from, to, rows),
         from # "idle", to # "review", RowsKnown(to, rows)
  PROVE  RowsInvariant'
<1>1. StoreStep
  BY NoWrite DEF RowsInvariant, TypeOK, FiredType, StoreGood, NextLoop
<1>2. Locals(p, mem[p].scan, mem[p].mode, rows, mem[p].cur, mem[p].write, mem[p].seen)
  BY DEF RowsInvariant, TypeOK, Local, NextLoop, Keep, Locals
<1>3. pc'[p] = to
  BY DEF RowsInvariant, TypeOK, NextLoop, Goto
<1>4. ProcessOK(p)'
  <2>1. LocalsOK(p)'
    BY <1>1, <1>2, <1>3
    DEF RowsInvariant, ProcessOK, LocalsOK, NextLoop, Goto, Locals, InHand, StoreStep, Grows
  <2>2. RowsKnown(pc[p], mem[p].todo)'
    BY <1>1, <1>2, <1>3
    DEF RowsKnown, Ready, Verifiable, Locals, StoreStep, Grows
  <2>3. HandKnown(pc[p], mem[p].cur)' /\ OutcomeKnown(p)'
    BY <1>3 DEF HandKnown, OutcomeKnown, InHand
  <2>4. QED
    BY <2>1, <2>2, <2>3 DEF ProcessOK
<1>5. QED
  BY <1>1, <1>2, <1>4, OneMoves DEF NextLoop, Locals

LEMMA ScanStepSafe ==
  ASSUME RowsInvariant, NEW p \in Proc, NEW from, NEW to \in Label \ InHand,
         NEW st \in ScanState, ScanStep(p, from, to, st),
         from # "idle", to # "review", RowsKnown(to, mem[p].todo)
  PROVE  RowsInvariant'
<1>1. StoreStep
  BY UpdateScanStateSafe
  DEF RowsInvariant, TypeOK, FiredType, StoreGood, ScanStep, Goto, ProcessOK, LocalsOK
<1>2. pc'[p] = to /\ mem' = mem
  BY DEF RowsInvariant, TypeOK, ScanStep, Goto
<1>3. ProcessOK(p)'
  <2>1. LocalsOK(p)'
    BY <1>1, <1>2
    DEF RowsInvariant, ProcessOK, LocalsOK, ScanStep, Goto, InHand, StoreStep, Grows
  <2>2. RowsKnown(pc[p], mem[p].todo)'
    BY <1>1, <1>2
    DEF RowsInvariant, TypeOK, Local, RowsKnown, Ready, Verifiable, StoreStep, Grows
  <2>3. HandKnown(pc[p], mem[p].cur)' /\ OutcomeKnown(p)'
    BY <1>2 DEF HandKnown, OutcomeKnown, InHand
  <2>4. QED
    BY <2>1, <2>2, <2>3 DEF ProcessOK
<1>4. QED
  BY <1>1, <1>2, <1>3, OneMoves DEF RowsInvariant, TypeOK, ScanStep

LEMMA MarkSafe ==
  ASSUME RowsInvariant, NEW p \in Proc, NEW from \in InHand, NEW to \in Label \ InHand,
         NEW st \in FindingState, Mark(p, from, to, st),
         RowsFor(mem[p].cur, st), RowsKnown(to, mem[p].todo),
         to = "review" => from = "review_mark"
  PROVE  RowsInvariant'
<1>1. StoreStep
  BY UpdateFindingStateSafe
  DEF RowsInvariant, TypeOK, FiredType, StoreGood, Mark, Goto, ProcessOK, HandKnown
<1>2. Locals(p, mem[p].scan, mem[p].mode, mem[p].todo, NoFinding, "none", mem[p].seen)
  BY DEF RowsInvariant, TypeOK, Local, Mark, Keep, Locals
<1>3. pc'[p] = to
  BY DEF RowsInvariant, TypeOK, Mark, Goto
<1>4. ProcessOK(p)'
  <2>1. LocalsOK(p)'
    BY <1>1, <1>2, <1>3
    DEF RowsInvariant, ProcessOK, LocalsOK, Mark, Goto, Locals, InHand, StoreStep, Grows
  <2>2. RowsKnown(pc[p], mem[p].todo)'
    BY <1>1, <1>2, <1>3
    DEF RowsInvariant, TypeOK, Local, RowsKnown, Ready, Verifiable, Locals, StoreStep, Grows
  <2>3. HandKnown(pc[p], mem[p].cur)' /\ OutcomeKnown(p)'
    BY <1>3 DEF HandKnown, OutcomeKnown, InHand
  <2>4. QED
    BY <2>1, <2>2, <2>3 DEF ProcessOK
<1>5. QED
  BY <1>1, <1>2, <1>4, OneMoves DEF Mark, Locals

LEMMA RaiseSafe ==
  ASSUME RowsInvariant, NEW p \in Proc, NEW from, Raise(p, from), from # "idle"
  PROVE  RowsInvariant'
<1>1. StoreStep
  BY NoWrite DEF RowsInvariant, TypeOK, FiredType, StoreGood, Raise
<1>2. Locals(p, mem[p].scan, "none", {}, NoFinding, "none", {})
  BY DEF RowsInvariant, TypeOK, Local, NoLocals, Raise, Keep, Locals
<1>3. pc'[p] = "failed" /\ "failed" \in Label
  BY DEF RowsInvariant, TypeOK, Raise, Goto, Label
<1>4. ProcessOK(p)'
  BY <1>1, <1>2, <1>3
  DEF RowsInvariant, ProcessOK, LocalsOK, RowsKnown, HandKnown, OutcomeKnown, Raise, Goto, Locals, InHand,
      StoreStep, Grows
<1>5. QED
  BY <1>1, <1>2, <1>3, <1>4, OneMoves DEF Raise, Locals

LEMMA TakeSafe ==
  ASSUME RowsInvariant, StoreStep, NEW p \in Proc, NEW from,
         NEW to \in (Label \intersect InHand) \ {"observe"}, NEW f \in mem[p].todo,
         NEW v \in Decision \union Verdict \union {"none"},
         Goto(p, from, to), Take(p, f, v), from # "idle",
         RowsKnown(to, mem[p].todo), HandKnown(to, f)',
         to \in {"decide_mark", "review_mark"} => v \in Decision,
         to = "review_mark" => from = "review"
  PROVE  RowsInvariant'
<1>1. Locals(p, mem[p].scan, mem[p].mode, mem[p].todo \ {f}, f, v, mem[p].seen)
  BY TakeLocals DEF RowsInvariant, TypeOK, Local
<1>2. pc'[p] = to
  BY DEF RowsInvariant, TypeOK, Goto
<1>3. ProcessOK(p)'
  <2>1. LocalsOK(p)'
    BY <1>1, <1>2
    DEF RowsInvariant, ProcessOK, LocalsOK, Goto, Locals, InHand, StoreStep, Grows
  <2>2. RowsKnown(pc[p], mem[p].todo)'
    BY <1>1, <1>2
    DEF RowsInvariant, TypeOK, Local, RowsKnown, Ready, Verifiable, Locals, StoreStep, Grows
  <2>3. HandKnown(pc[p], mem[p].cur)' /\ OutcomeKnown(p)'
    BY <1>1, <1>2 DEF HandKnown, OutcomeKnown, Locals
  <2>4. QED
    BY <2>1, <2>2, <2>3 DEF ProcessOK
<1>4. QED
  BY <1>1, <1>3, OneMoves DEF Locals

LEMMA IngestStepSafe ==
  ASSUME RowsInvariant, NEW p \in Proc, IngestStep(p)
  PROVE  RowsInvariant'
<1> USE DEF Label, InHand, ScanState, FindingState
<1>0. StoreGood /\ ProcessOK(p)
  BY DEF RowsInvariant, StoreGood, TypeOK, FiredType
<1>1. CASE BeginIngest(p)
  BY <1>0, <1>1, ScanStepSafe
  DEF BeginIngest, ScanStep, Goto, ProcessOK, RowsKnown, Scored, Detonating
<1>2. CASE Ingest(p)
  <2>1. StoreStep /\ mem[p].todo \subseteq Stored'
    BY <1>0, <1>2, RecordFindingsSafe
    DEF Ingest, Goto, ProcessOK, LocalsOK, RowsInvariant, TypeOK, Local
  <2>2. ProcessOK(p)'
    BY <1>0, <1>2, <2>1
    DEF Ingest, Goto, RowsInvariant, TypeOK, ProcessOK, LocalsOK, RowsKnown, HandKnown,
        OutcomeKnown, Scored, Detonating, StoreStep, Grows
  <2>3. QED
    BY <1>2, <2>1, <2>2, OneMoves DEF Ingest, RowsInvariant, TypeOK
<1>3. CASE EndIngest(p)
  BY <1>0, <1>3, ScanStepSafe
  DEF EndIngest, ScanStep, Goto, ProcessOK, RowsKnown, Scored, Detonating
<1>4. CASE BeginTriage(p)
  BY <1>0, <1>4, ScanStepSafe
  DEF BeginTriage, ScanStep, Goto, ProcessOK, RowsKnown, Scored, Detonating
<1>5. CASE TriageOne(p)
  <2>1. PICK f \in mem[p].todo : /\ Goto(p, "triage", "triage_mark")
                                /\ SetTriage(f, Triage[f])
                                /\ Take(p, f, "none")
                                /\ UNCHANGED fired
    BY <1>5 DEF TriageOne
  <2>2. f \in Stored
    BY <1>0, <2>1 DEF Goto, ProcessOK, RowsKnown
  <2>3. StoreStep /\ triage'[f] = Triage[f]
    BY <1>0, <2>1, <2>2, SetTriageSafe
  <2>4. RowsKnown("triage_mark", mem[p].todo)
    BY <1>0, <2>1 DEF Goto, ProcessOK, RowsKnown, Scored, Detonating
  <2>5. HandKnown("triage_mark", f)'
    BY <2>2, <2>3 DEF HandKnown, Scored, StoreStep, Grows
  <2>6. QED
    BY <2>1, <2>3, <2>4, <2>5, TakeSafe
<1>6. CASE TriageMark(p)
  BY <1>0, <1>6, MarkSafe
  DEF TriageMark, Mark, Goto, ProcessOK, RowsKnown, HandKnown, RowsFor, Scored, Detonating
<1>7. CASE EndTriage(p)
  BY <1>0, <1>7, ScanStepSafe
  DEF EndTriage, ScanStep, Goto, RowsKnown
<1>8. QED
  BY <1>1, <1>2, <1>3, <1>4, <1>5, <1>6, <1>7 DEF IngestStep

LEMMA ScoreStepSafe ==
  ASSUME RowsInvariant, NEW p \in Proc, ScoreStep(p)
  PROVE  RowsInvariant'
<1> USE DEF Label, InHand, ScanState, FindingState
<1>0. StoreGood /\ ProcessOK(p)
  BY DEF RowsInvariant, StoreGood, TypeOK, FiredType
<1>1. CASE BeginScoring(p)
  BY <1>0, <1>1, ScanStepSafe
  DEF BeginScoring, ScanStep, Goto, ProcessOK, RowsKnown, Scored, Detonating
<1>2. CASE ScoreRows(p)
  <2>1. RowsKnown("score", Pending(mem[p].scan, "TRIAGED"))
    BY <1>0, <1>2, NoScanAssumption
    DEF ScoreRows, NextLoop, Goto, ProcessOK, LocalsOK, StoreGood, StoreOK, StatesOK,
        RowsKnown, Pending, Stored, Scored, Detonating
  <2>2. QED
    BY <1>2, <2>1, NextLoopSafe DEF ScoreRows, Pending
<1>3. CASE ScoreOne(p)
  <2>1. PICK f \in mem[p].todo : /\ Goto(p, "score", "score_mark")
                                /\ RecordScore(f)
                                /\ Take(p, f, "none")
                                /\ UNCHANGED fired
    BY <1>3 DEF ScoreOne
  <2>2. f \in Stored /\ triage[f] = Triage[f]
    BY <1>0, <2>1 DEF Goto, ProcessOK, RowsKnown
  <2>3. StoreStep /\ f \in scores'
    BY <1>0, <2>1, <2>2, RecordScoreSafe
  <2>4. RowsKnown("score_mark", mem[p].todo)
    BY <1>0, <2>1 DEF Goto, ProcessOK, RowsKnown, Scored, Detonating
  <2>5. HandKnown("score_mark", f)'
    BY <2>2, <2>3 DEF HandKnown, Scored, StoreStep, Grows, Stored
  <2>6. QED
    BY <2>1, <2>3, <2>4, <2>5, TakeSafe
<1>4. CASE ScoreMark(p)
  BY <1>0, <1>4, MarkSafe
  DEF ScoreMark, Mark, Goto, ProcessOK, RowsKnown, HandKnown, RowsFor, Ready, Scored, Detonating
<1>5. CASE ScoreStatic(p)
  <2>1. PICK f \in mem[p].todo : /\ ~Verifiable(f)
                                /\ Goto(p, "score", "score")
                                /\ UpdateFindingState(f, "SCORED")
                                /\ Drop(p, f)
                                /\ UNCHANGED fired
    BY <1>5 DEF ScoreStatic
  <2>2. f \in Stored /\ triage[f] = Triage[f]
    BY <1>0, <2>1 DEF Goto, ProcessOK, RowsKnown
  <2>3. StoreStep
    BY <1>0, <2>1, <2>2, UpdateFindingStateSafe DEF RowsFor, Ready
  <2>4. Locals(p, mem[p].scan, mem[p].mode, mem[p].todo \ {f}, mem[p].cur,
               mem[p].write, mem[p].seen)
    BY <2>1, DropLocals DEF RowsInvariant, TypeOK, Local
  <2>5. ProcessOK(p)'
    BY <1>0, <2>1, <2>3, <2>4
    DEF Goto, RowsInvariant, TypeOK, Local, ProcessOK, LocalsOK, RowsKnown, HandKnown,
        OutcomeKnown, Locals, Scored, Detonating, StoreStep, Grows
  <2>6. QED
    BY <2>1, <2>3, <2>4, <2>5, OneMoves DEF Locals
<1>6. CASE EndScoring(p)
  <2>1. RowsKnown("sweep", Pending(mem[p].scan, "POC_GENERATED"))
    BY <1>0, <1>6, NoScanAssumption
    DEF EndScoring, NextLoop, Goto, ProcessOK, LocalsOK, StoreGood, StoreOK, StatesOK,
        RowsKnown, Pending, Stored, Scored, Detonating
  <2>2. QED
    BY <1>6, <2>1, NextLoopSafe DEF EndScoring, Pending
<1>7. CASE SweepOne(p)
  <2>1. PICK f \in mem[p].todo : /\ Goto(p, "sweep", "sweep_mark")
                                /\ RecordVerdict(f, "INCONCLUSIVE")
                                /\ Take(p, f, "INCONCLUSIVE")
                                /\ UNCHANGED fired
    BY <1>7 DEF SweepOne
  <2>2. f \in Stored /\ Ready(f)
    BY <1>0, <2>1 DEF Goto, ProcessOK, RowsKnown, Scored
  <2>3. StoreStep /\ verdicts'[f] # "NONE"
    BY <1>0, <2>1, <2>2, RecordVerdictSafe DEF Verdict
  <2>4. RowsKnown("sweep_mark", mem[p].todo)
    BY <1>0, <2>1 DEF Goto, ProcessOK, RowsKnown, Scored, Detonating
  <2>5. HandKnown("sweep_mark", f)'
    BY <2>2, <2>3 DEF HandKnown, Ready, Verifiable, StoreStep, Grows, Stored
  <2>6. QED
    BY <2>1, <2>3, <2>4, <2>5, TakeSafe DEF Verdict
<1>8. CASE SweepMark(p)
  BY <1>0, <1>8, MarkSafe
  DEF SweepMark, Mark, Goto, ProcessOK, RowsKnown, HandKnown, RowsFor, Scored, Detonating
<1>9. QED
  BY <1>1, <1>2, <1>3, <1>4, <1>5, <1>6, <1>7, <1>8 DEF ScoreStep

LEMMA GateStepSafe ==
  ASSUME RowsInvariant, NEW p \in Proc, GateStep(p)
  PROVE  RowsInvariant'
<1> USE DEF Label, InHand, ScanState, FindingState
<1>0. StoreGood /\ ProcessOK(p)
  BY DEF RowsInvariant, StoreGood, TypeOK, FiredType
<1>1. CASE ModeConflict(p)
  BY <1>1, RaiseSafe DEF ModeConflict
<1>2. CASE SkipGate(p)
  BY <1>0, <1>2, NextLoopSafe
  DEF SkipGate, NextLoop, RowsKnown
<1>3. CASE OpenGate(p)
  <2>1. RowsKnown("decide", {f \in Pending(mem[p].scan, "SCORED") : Verifiable(f)})
    BY <1>0, <1>3, NoScanAssumption
    DEF OpenGate, NextLoop, Goto, ProcessOK, LocalsOK, StoreGood, StoreOK, StatesOK,
        RowsKnown, Pending, Stored, Scored, Detonating
  <2>2. QED
    BY <1>3, <2>1, NextLoopSafe DEF OpenGate, Pending
<1>4. CASE DecideOne(p)
  <2>1. PICK f \in mem[p].todo, d \in Decision : /\ Goto(p, "decide", "decide_mark")
                                                /\ RecordApproval(f, d)
                                                /\ Take(p, f, d)
                                                /\ UNCHANGED fired
    BY <1>4 DEF DecideOne
  <2>2. f \in Stored /\ Ready(f)
    BY <1>0, <2>1 DEF Goto, ProcessOK, RowsKnown, Scored
  <2>3. StoreStep /\ Decided(f)'
    BY <1>0, <2>1, <2>2, RecordApprovalSafe
  <2>4. RowsKnown("decide_mark", mem[p].todo)
    BY <1>0, <2>1 DEF Goto, ProcessOK, RowsKnown, Scored, Detonating
  <2>5. HandKnown("decide_mark", f)'
    BY <2>2, <2>3 DEF HandKnown, Ready, Verifiable, StoreStep, Grows, Stored
  <2>6. QED
    BY <2>1, <2>3, <2>4, <2>5, TakeSafe
<1>5. CASE DecideMark(p)
  <2>1. mem[p].write \in Decision
    BY <1>0, <1>5 DEF DecideMark, Mark, Goto, ProcessOK, LocalsOK
  <2>2. QED
    BY <1>0, <1>5, <2>1, MarkSafe
    DEF DecideMark, Mark, Goto, ProcessOK, RowsKnown, HandKnown, RowsFor, Scored, Detonating,
        Decision
<1>6. CASE DecideSkip(p)
  <2>1. PICK f \in mem[p].todo : /\ Goto(p, "decide", "decide")
                                /\ Drop(p, f)
                                /\ UNCHANGED <<storeVars, fired>>
    BY <1>6 DEF DecideSkip
  <2>2. StoreStep
    BY <1>0, <2>1, NoWrite
  <2>3. Locals(p, mem[p].scan, mem[p].mode, mem[p].todo \ {f}, mem[p].cur,
               mem[p].write, mem[p].seen)
    BY <2>1, DropLocals DEF RowsInvariant, TypeOK, Local
  <2>4. ProcessOK(p)'
    BY <1>0, <2>1, <2>2, <2>3
    DEF Goto, RowsInvariant, TypeOK, Local, ProcessOK, LocalsOK, RowsKnown, HandKnown, Ready,
        Verifiable, OutcomeKnown, Locals, Scored, Detonating, StoreStep, Grows
  <2>5. QED
    BY <2>1, <2>2, <2>3, <2>4, OneMoves DEF Locals
<1>7. CASE CloseGate(p)
  BY <1>0, <1>7, NextLoopSafe
  DEF CloseGate, NextLoop, RowsKnown
<1>8. QED
  BY <1>1, <1>2, <1>3, <1>4, <1>5, <1>6, <1>7 DEF GateStep

LEMMA DetonateStepSafe ==
  ASSUME RowsInvariant, NEW p \in Proc, DetonateStep(p)
  PROVE  RowsInvariant'
<1> USE DEF Label, InHand, ScanState, FindingState
<1>0. StoreGood /\ ProcessOK(p)
  BY DEF RowsInvariant, StoreGood, TypeOK, FiredType
<1>1. CASE ApprovedRows(p)
  <2> DEFINE rows == Pending(mem[p].scan, "APPROVED")
             to   == IF rows = {} THEN "complete" ELSE "detonating"
  <2>1. StoreStep
    BY <1>0, <1>1, NoWrite DEF ApprovedRows
  <2>2. Locals(p, mem[p].scan, "none", rows, mem[p].cur, mem[p].write, mem[p].seen)
    BY <1>1 DEF ApprovedRows, RowsInvariant, TypeOK, Local, Keep, Locals, Pending
  <2>3. Goto(p, "approved", to) /\ pc'[p] = to
    BY <1>1 DEF ApprovedRows, Goto, RowsInvariant, TypeOK
  <2>4. RowsKnown("detonating", rows)
    BY <1>0, <2>3, NoScanAssumption
    DEF Goto, ProcessOK, LocalsOK, StoreGood, StoreOK, StatesOK, RowsBehindStates,
        RowsKnown, Pending, Stored, Decided, Scored, Detonating
  <2>5. LocalsOK(p)'
    BY <1>0, <2>1, <2>2, <2>3 DEF ProcessOK, LocalsOK, Goto, Locals, StoreStep, Grows
  <2>6. RowsKnown(pc[p], mem[p].todo)'
    BY <2>1, <2>2, <2>3, <2>4
    DEF RowsKnown, Ready, Verifiable, Locals, StoreStep, Grows, Pending, Scored, Detonating
  <2>7. HandKnown(pc[p], mem[p].cur)' /\ OutcomeKnown(p)'
    BY <2>3 DEF HandKnown, OutcomeKnown
  <2>8. QED
    BY <2>1, <2>2, <2>3, <2>5, <2>6, <2>7, OneMoves DEF ProcessOK, Locals
<1>2. CASE BeginDetonating(p)
  BY <1>0, <1>2, ScanStepSafe
  DEF BeginDetonating, ScanStep, Goto, ProcessOK, RowsKnown, Scored, Detonating
<1>3. CASE SandboxUp(p)
  <2>1. StoreStep
    BY <1>0, <1>3, NoWrite DEF SandboxUp
  <2>2. ProcessOK(p)'
    BY <1>0, <1>3, <2>1
    DEF SandboxUp, Goto, RowsInvariant, TypeOK, Local, ProcessOK, LocalsOK, RowsKnown, HandKnown,
        Ready, Verifiable, OutcomeKnown, Scored, Detonating, StoreStep, Grows
  <2>3. QED
    BY <1>3, <2>1, <2>2, OneMoves DEF SandboxUp, RowsInvariant, TypeOK
<1>4. CASE GeneratePoc(p)
  <2>1. PICK f \in mem[p].todo : /\ Goto(p, "detonate", "poc_mark")
                                /\ RecordPoc(f)
                                /\ Take(p, f, "none")
                                /\ UNCHANGED fired
    BY <1>4 DEF GeneratePoc
  <2>2. f \in Stored /\ Ready(f) /\ Decided(f)
    BY <1>0, <2>1 DEF Goto, ProcessOK, RowsKnown, Scored, Detonating
  <2>3. StoreStep /\ f \in pocs'
    BY <1>0, <2>1, <2>2, RecordPocSafe
  <2>4. RowsKnown("poc_mark", mem[p].todo)
    BY <1>0, <2>1 DEF Goto, ProcessOK, RowsKnown, Scored, Detonating
  <2>5. HandKnown("poc_mark", f)'
    BY <2>2, <2>3 DEF HandKnown, Ready, Verifiable, StoreStep, Grows, Stored
  <2>6. QED
    BY <2>1, <2>3, <2>4, <2>5, TakeSafe
<1>5. CASE PocMark(p)
  <2>1. mem[p].cur \in Stored /\ RowsFor(mem[p].cur, "POC_GENERATED")
    BY <1>0, <1>5 DEF PocMark, Goto, ProcessOK, HandKnown, RowsFor, Scored
  <2>2. StoreStep
    BY <1>0, <1>5, <2>1, UpdateFindingStateSafe DEF PocMark
  <2>3. ProcessOK(p)'
    BY <1>0, <1>5, <2>1, <2>2
    DEF PocMark, Goto, RowsInvariant, TypeOK, Local, ProcessOK, LocalsOK, RowsKnown, HandKnown,
        Ready, Verifiable, OutcomeKnown, Scored, Detonating, StoreStep, Grows, Stored
  <2>4. QED
    BY <1>5, <2>2, <2>3, OneMoves DEF PocMark, RowsInvariant, TypeOK
<1>6. CASE Fire(p)
  <2> DEFINE f == mem[p].cur
  <2>1. PICK E \in SUBSET Evidence :
          /\ Goto(p, "fire", "observe")
          /\ fired' = [fired EXCEPT ![f] = IF @ < FiredCap THEN @ + 1 ELSE @]
          /\ Keep(p, [mem[p] EXCEPT !.seen = E, !.write = Synthesize(E)])
          /\ UNCHANGED storeVars
    BY <1>6 DEF Fire
  <2>2. f \in Stored /\ Decided(f) /\ f \in pocs
    BY <1>0, <2>1 DEF Goto, ProcessOK, HandKnown
  <2>3. StoreStep /\ fired'[f] > 0
    BY <1>0, <2>1, <2>2, FireSafe
  <2>4. Synthesize(E) \in Verdict /\ (Synthesize(E) = "TRUE_POSITIVE" => "effect" \in E)
    BY DEF Synthesize, Verdict
  <2>5. Locals(p, mem[p].scan, mem[p].mode, mem[p].todo, f, Synthesize(E), E)
    BY <2>1, <2>4 DEF RowsInvariant, TypeOK, Local, Keep, Locals
  <2>6. ProcessOK(p)'
    <3>1. pc'[p] = "observe"
      BY <2>1 DEF RowsInvariant, TypeOK, Goto
    <3>2. LocalsOK(p)' /\ OutcomeKnown(p)'
      BY <1>0, <2>1, <2>3, <2>4, <2>5, <3>1
      DEF Goto, ProcessOK, LocalsOK, OutcomeKnown, Locals, StoreStep, Grows
    <3>3. RowsKnown(pc[p], mem[p].todo)'
      BY <1>0, <2>1, <2>3, <2>5, <3>1
      DEF Goto, RowsInvariant, TypeOK, Local, ProcessOK, RowsKnown, Locals, Ready,
          Verifiable, Scored, Detonating, StoreStep, Grows
    <3>4. HandKnown(pc[p], mem[p].cur)'
      BY <1>0, <2>1, <2>3, <2>5, <3>1
      DEF Goto, ProcessOK, HandKnown, Locals, Ready, Verifiable, Scored, StoreStep, Grows, Stored
    <3>5. QED
      BY <3>2, <3>3, <3>4 DEF ProcessOK
  <2>7. QED
    BY <2>1, <2>3, <2>5, <2>6, OneMoves DEF Locals
<1>7. CASE StoreEvidence(p)
  <2> DEFINE f == mem[p].cur
  <2>1. PICK e \in mem[p].seen : /\ Goto(p, "observe", "observe")
                                /\ RecordEvidence(f, e)
                                /\ Keep(p, [mem[p] EXCEPT !.seen = @ \ {e}])
                                /\ UNCHANGED fired
    BY <1>7 DEF StoreEvidence
  <2>2. f \in Stored /\ e \in Evidence
    BY <1>0, <2>1 DEF Goto, ProcessOK, HandKnown, RowsInvariant, TypeOK, Local
  <2>3. StoreStep /\ e \in evidence'[f]
    BY <1>0, <2>1, <2>2, RecordEvidenceSafe
  <2>4. Locals(p, mem[p].scan, mem[p].mode, mem[p].todo, f, mem[p].write, mem[p].seen \ {e})
    BY <2>1 DEF RowsInvariant, TypeOK, Local, Keep, Locals
  <2>5. ProcessOK(p)'
    <3>1. pc'[p] = "observe"
      BY <2>1 DEF RowsInvariant, TypeOK, Goto
    <3>2. LocalsOK(p)' /\ OutcomeKnown(p)'
      BY <1>0, <2>1, <2>2, <2>3, <2>4, <3>1
      DEF Goto, ProcessOK, LocalsOK, OutcomeKnown, Locals, StoreStep, Grows, Stored
    <3>3. RowsKnown(pc[p], mem[p].todo)'
      BY <1>0, <2>1, <2>3, <2>4, <3>1
      DEF Goto, RowsInvariant, TypeOK, Local, ProcessOK, RowsKnown, Locals, Ready,
          Verifiable, Scored, Detonating, StoreStep, Grows
    <3>4. HandKnown(pc[p], mem[p].cur)'
      BY <1>0, <2>1, <2>3, <2>4, <3>1
      DEF Goto, ProcessOK, HandKnown, Locals, Ready, Verifiable, Scored, StoreStep, Grows, Stored
    <3>5. QED
      BY <3>2, <3>3, <3>4 DEF ProcessOK
  <2>6. QED
    BY <2>1, <2>3, <2>4, <2>5, OneMoves DEF Locals
<1>8. CASE StoreVerdict(p)
  <2> DEFINE f == mem[p].cur
  <2>1. f \in Stored /\ mem[p].write \in Verdict
    BY <1>0, <1>8 DEF StoreVerdict, Goto, ProcessOK, HandKnown, LocalsOK
  <2>2. mem[p].write = "TRUE_POSITIVE" => fired[f] > 0 /\ "effect" \in evidence[f]
    BY <1>0, <1>8 DEF StoreVerdict, Goto, ProcessOK, OutcomeKnown
  <2>3. StoreStep /\ verdicts'[f] # "NONE"
    BY <1>0, <1>8, <2>1, <2>2, RecordVerdictSafe DEF StoreVerdict
  <2>4. ProcessOK(p)'
    BY <1>0, <1>8, <2>1, <2>3
    DEF StoreVerdict, Goto, RowsInvariant, TypeOK, Local, ProcessOK, LocalsOK, RowsKnown,
        HandKnown, Ready, Verifiable, OutcomeKnown, Scored, Detonating, StoreStep, Grows, Stored
  <2>5. QED
    BY <1>8, <2>3, <2>4, OneMoves DEF StoreVerdict, RowsInvariant, TypeOK
<1>9. CASE VerdictMark(p)
  BY <1>0, <1>9, MarkSafe
  DEF VerdictMark, Mark, Goto, ProcessOK, RowsKnown, HandKnown, RowsFor, Scored, Detonating
<1>10. CASE EndDetonating(p)
  BY <1>0, <1>10, NextLoopSafe
  DEF EndDetonating, NextLoop, RowsKnown
<1>11. CASE BeginSkipping(p)
  BY <1>0, <1>11, ScanStepSafe
  DEF BeginSkipping, ScanStep, Goto, ProcessOK, RowsKnown, Scored, Detonating
<1>12. CASE SkipOne(p)
  <2>1. PICK f \in mem[p].todo : /\ Goto(p, "skip", "skip_mark")
                                /\ RecordVerdict(f, "INCONCLUSIVE")
                                /\ Take(p, f, "INCONCLUSIVE")
                                /\ UNCHANGED fired
    BY <1>12 DEF SkipOne
  <2>2. f \in Stored /\ Ready(f)
    BY <1>0, <2>1 DEF Goto, ProcessOK, RowsKnown, Scored
  <2>3. StoreStep /\ verdicts'[f] # "NONE"
    BY <1>0, <2>1, <2>2, RecordVerdictSafe DEF Verdict
  <2>4. RowsKnown("skip_mark", mem[p].todo)
    BY <1>0, <2>1 DEF Goto, ProcessOK, RowsKnown, Scored, Detonating
  <2>5. HandKnown("skip_mark", f)'
    BY <2>2, <2>3 DEF HandKnown, Ready, Verifiable, StoreStep, Grows, Stored
  <2>6. QED
    BY <2>1, <2>3, <2>4, <2>5, TakeSafe DEF Verdict
<1>13. CASE SkipMark(p)
  BY <1>0, <1>13, MarkSafe
  DEF SkipMark, Mark, Goto, ProcessOK, RowsKnown, HandKnown, RowsFor, Scored, Detonating
<1>14. CASE EndSkipping(p)
  BY <1>0, <1>14, NextLoopSafe
  DEF EndSkipping, NextLoop, RowsKnown
<1>15. QED
  BY <1>1, <1>2, <1>3, <1>4, <1>5, <1>6, <1>7, <1>8, <1>9, <1>10, <1>11, <1>12, <1>13, <1>14 DEF DetonateStep

LEMMA FinishSafe ==
  ASSUME RowsInvariant, NEW p \in Proc, NEW from \in Label, NEW st \in ScanState,
         from # "idle", Finish(p, from, st)
  PROVE  RowsInvariant'
<1>1. mem[p].scan \in Scan
  BY DEF RowsInvariant, ProcessOK, LocalsOK, Finish, Goto
<1>2. StoreStep
  BY <1>1, UpdateScanStateSafe DEF RowsInvariant, StoreGood, TypeOK, FiredType, Finish
<1>3. Locals(p, NoScan, "none", {}, NoFinding, "none", {})
  BY DEF RowsInvariant, TypeOK, Local, NoLocals, Finish, Keep, Locals
<1>4. pc'[p] = "idle" /\ "idle" \in Label
  BY DEF RowsInvariant, TypeOK, Finish, Goto, Label
<1>5. ProcessOK(p)'
  BY <1>3, <1>4 DEF ProcessOK, LocalsOK, RowsKnown, HandKnown, OutcomeKnown, InHand, Locals
<1>6. QED
  BY <1>2, <1>3, <1>4, <1>5, OneMoves DEF Finish, Locals

LEMMA EndStepSafe ==
  ASSUME RowsInvariant, NEW p \in Proc, EndStep(p)
  PROVE  RowsInvariant'
BY FinishSafe DEF EndStep, Complete, Fail, Label, ScanState

\* A command starts, or is over: the process knows nothing but its scan.
LEMMA LaunchSafe ==
  ASSUME RowsInvariant, NEW p \in Proc, Launch(p)
  PROVE  RowsInvariant'
<1> USE DEF Label, InHand
<1>0. StoreGood /\ ProcessOK(p)
  BY DEF RowsInvariant, StoreGood, TypeOK, FiredType
<1>1. CASE StartFresh(p)
  <2>1. PICK s \in Scan, m \in Mode, F \in SUBSET Finding :
          /\ Goto(p, "idle", "created")
          /\ CreateScan(s)
          /\ Keep(p, [NoLocals EXCEPT !.scan = s, !.mode = m, !.todo = F])
          /\ UNCHANGED fired
    BY <1>1 DEF StartFresh
  <2>2. StoreStep
    BY <1>0, <2>1, CreateScanSafe
  <2>3. Locals(p, s, m, F, NoFinding, "none", {})
    BY <2>1, PipelineAssumption DEF RowsInvariant, TypeOK, Local, NoLocals, Keep, Locals
  <2>4. pc'[p] = "created" /\ ScanExists(s)'
    BY <2>1 DEF RowsInvariant, TypeOK, StoreTypeOK, Goto, CreateScan, ScanExists
  <2>5. ProcessOK(p)'
    BY <2>3, <2>4 DEF ProcessOK, LocalsOK, RowsKnown, HandKnown, OutcomeKnown, Locals,
                      Scored, Detonating
  <2>6. QED
    BY <2>1, <2>2, <2>3, <2>5, OneMoves DEF Locals
<1>2. CASE Resume(p)
  <2>1. PICK s \in Scan, m \in Mode :
          /\ Goto(p, "idle", "scoring")
          /\ ScanExists(s)
          /\ Keep(p, [NoLocals EXCEPT !.scan = s, !.mode = m])
          /\ UNCHANGED <<storeVars, fired>>
    BY <1>2 DEF Resume
  <2>2. StoreStep
    BY <1>0, <2>1, NoWrite
  <2>3. Locals(p, s, m, {}, NoFinding, "none", {})
    BY <2>1, PipelineAssumption DEF RowsInvariant, TypeOK, Local, NoLocals, Keep, Locals
  <2>4. pc'[p] = "scoring" /\ ScanExists(s)'
    BY <2>1, <2>2 DEF RowsInvariant, TypeOK, Goto, StoreStep, Grows
  <2>5. ProcessOK(p)'
    BY <2>3, <2>4 DEF ProcessOK, LocalsOK, RowsKnown, HandKnown, OutcomeKnown, Locals
  <2>6. QED
    BY <2>1, <2>2, <2>3, <2>5, OneMoves DEF Locals
<1>3. CASE StartReview(p)
  <2> DEFINE Starts(s, d, rows) ==
               /\ ScanExists(s)
               /\ Goto(p, "idle", "review")
               /\ Keep(p, [NoLocals EXCEPT !.scan = s, !.mode = d, !.todo = rows])
               /\ UNCHANGED <<storeVars, fired>>
  <2>0. PICK s \in Scan, d \in Decision :
          \E rows \in {Pending(s, "SCORED")} \union {{f} : f \in Pending(s, "SCORED")} :
            Starts(s, d, rows)
    BY <1>3 DEF StartReview
  <2>1. PICK rows \in SUBSET Finding : rows \subseteq Pending(s, "SCORED") /\ Starts(s, d, rows)
    <3> HIDE DEF Starts
    <3>1. QED
      BY <2>0 DEF Pending
  <2>2. StoreStep
    BY <1>0, <2>1, NoWrite
  <2>3. Locals(p, s, d, rows, NoFinding, "none", {})
    BY <2>1 DEF RowsInvariant, TypeOK, Local, NoLocals, Keep, Locals, Pending
  <2>4. pc'[p] = "review" /\ ScanExists(s)'
    BY <2>1, <2>2 DEF RowsInvariant, TypeOK, Goto, StoreStep, Grows
  <2>5. RowsKnown("review", rows)
    BY <1>0, <2>1, NoScanAssumption
    DEF StoreGood, StoreOK, StatesOK, RowsKnown, Pending, Stored, Scored, Detonating
  <2>6. RowsKnown(pc[p], mem[p].todo)'
    BY <2>2, <2>3, <2>4, <2>5
    DEF RowsKnown, Ready, Verifiable, Locals, Pending, StoreStep, Grows, Detonating
  <2>7. ProcessOK(p)'
    BY <2>3, <2>4, <2>6 DEF ProcessOK, LocalsOK, HandKnown, OutcomeKnown, Locals
  <2>8. QED
    BY <2>1, <2>2, <2>3, <2>7, OneMoves DEF Locals
<1>4. QED
  BY <1>1, <1>2, <1>3 DEF Launch

LEMMA ReviewStepSafe ==
  ASSUME RowsInvariant, NEW p \in Proc, ReviewStep(p)
  PROVE  RowsInvariant'
<1> USE DEF Label, InHand, ScanState, FindingState
<1>0. StoreGood /\ ProcessOK(p)
  BY DEF RowsInvariant, StoreGood, TypeOK, FiredType
<1>1. CASE ReviewOne(p)
  <2>1. PICK f \in mem[p].todo : /\ Goto(p, "review", "review_mark")
                                /\ RecordApproval(f, mem[p].mode)
                                /\ Take(p, f, mem[p].mode)
                                /\ UNCHANGED fired
    BY <1>1 DEF ReviewOne
  <2>2. f \in Stored /\ Ready(f) /\ mem[p].mode \in Decision
    BY <1>0, <2>1 DEF Goto, ProcessOK, LocalsOK, RowsKnown, Scored
  <2>3. StoreStep /\ Decided(f)'
    BY <1>0, <2>1, <2>2, RecordApprovalSafe
  <2>4. RowsKnown("review_mark", mem[p].todo)
    BY <1>0, <2>1 DEF Goto, ProcessOK, RowsKnown, Scored, Detonating
  <2>5. HandKnown("review_mark", f)'
    BY <2>2, <2>3 DEF HandKnown, Ready, Verifiable, StoreStep, Grows, Stored
  <2>6. QED
    BY <2>1, <2>2, <2>3, <2>4, <2>5, TakeSafe
<1>2. CASE ReviewMark(p)
  <2>1. mem[p].write \in Decision
    BY <1>0, <1>2 DEF ReviewMark, Mark, Goto, ProcessOK, LocalsOK
  <2>2. QED
    BY <1>0, <1>2, <2>1, MarkSafe
    DEF ReviewMark, Mark, Goto, ProcessOK, RowsKnown, HandKnown, RowsFor, Scored, Detonating,
        Decision
<1>3. CASE EndReview(p)
  <2>1. StoreStep
    BY <1>0, <1>3, NoWrite DEF EndReview
  <2>2. Locals(p, NoScan, "none", {}, NoFinding, "none", {})
    BY <1>3 DEF EndReview, RowsInvariant, TypeOK, Local, NoLocals, Keep, Locals
  <2>3. pc'[p] = "idle"
    BY <1>3 DEF EndReview, RowsInvariant, TypeOK, Goto
  <2>4. ProcessOK(p)'
    BY <2>2, <2>3 DEF ProcessOK, LocalsOK, RowsKnown, HandKnown, OutcomeKnown, Locals
  <2>5. QED
    BY <1>3, <2>1, <2>2, <2>4, OneMoves DEF EndReview, Locals
<1>4. QED
  BY <1>1, <1>2, <1>3 DEF ReviewStep

LEMMA FaultSafe ==
  ASSUME RowsInvariant, NEW p \in Proc, Fault(p)
  PROVE  RowsInvariant'
<1> USE DEF Label, InHand, ScanState, FindingState
<1>0. StoreGood /\ ProcessOK(p)
  BY DEF RowsInvariant, StoreGood, TypeOK, FiredType
<1>1. CASE IngestFails(p) \/ ScoreFails(p) \/ SandboxFails(p)
  BY <1>1, RaiseSafe DEF IngestFails, ScoreFails, SandboxFails
<1>2. CASE PocFails(p)
  <2>1. PICK f \in mem[p].todo, v \in {"REFUSED", "INCONCLUSIVE"} :
          /\ Goto(p, "detonate", "verdict_mark")
          /\ RecordVerdict(f, v)
          /\ Take(p, f, v)
          /\ UNCHANGED fired
    BY <1>2 DEF PocFails
  <2>2. f \in Stored /\ Ready(f)
    BY <1>0, <2>1 DEF Goto, ProcessOK, RowsKnown, Scored
  <2>3. StoreStep /\ verdicts'[f] # "NONE"
    BY <1>0, <2>1, <2>2, RecordVerdictSafe DEF Verdict
  <2>4. RowsKnown("verdict_mark", mem[p].todo)
    BY <1>0, <2>1 DEF Goto, ProcessOK, RowsKnown, Scored, Detonating
  <2>5. HandKnown("verdict_mark", f)'
    BY <2>2, <2>3 DEF HandKnown, Ready, Verifiable, StoreStep, Grows, Stored
  <2>6. QED
    BY <2>1, <2>3, <2>4, <2>5, TakeSafe DEF Verdict
<1>3. CASE NoOutcome(p)
  <2> DEFINE f == mem[p].cur
  <2>1. /\ Goto(p, "fire", "verdict_mark") /\ Fired(f)
        /\ RecordVerdict(f, "INCONCLUSIVE")
        /\ Keep(p, [mem[p] EXCEPT !.write = "INCONCLUSIVE"])
    BY <1>3 DEF NoOutcome, Fired
  <2>2. f \in Stored /\ Ready(f) /\ Decided(f) /\ f \in pocs
    BY <1>0, <2>1 DEF Goto, ProcessOK, HandKnown, Scored
  <2>3. StoreStep /\ verdicts'[f] # "NONE"
    BY <1>0, <2>1, <2>2, RecordVerdictSafe DEF Verdict
  <2>4. Locals(p, mem[p].scan, mem[p].mode, mem[p].todo, f, "INCONCLUSIVE", mem[p].seen)
    BY <2>1 DEF RowsInvariant, TypeOK, Local, Verdict, Keep, Locals
  <2>5. pc'[p] = "verdict_mark"
    BY <2>1 DEF RowsInvariant, TypeOK, Goto
  <2>6. LocalsOK(p)' /\ OutcomeKnown(p)'
    BY <1>0, <2>1, <2>3, <2>4, <2>5
    DEF Goto, ProcessOK, LocalsOK, OutcomeKnown, Locals, StoreStep, Grows
  <2>7. RowsKnown(pc[p], mem[p].todo)'
    BY <1>0, <2>1, <2>3, <2>4, <2>5
    DEF Goto, RowsInvariant, TypeOK, Local, ProcessOK, RowsKnown, Locals, Ready, Verifiable,
        Scored, Detonating, StoreStep, Grows
  <2>8. HandKnown(pc[p], mem[p].cur)'
    BY <2>2, <2>3, <2>4, <2>5 DEF HandKnown, Locals, Ready, Verifiable, StoreStep, Grows, Stored
  <2>9. QED
    BY <2>1, <2>3, <2>4, <2>6, <2>7, <2>8, OneMoves DEF ProcessOK, Locals
<1>4. CASE Stop(p)
  <2>1. StoreStep
    BY <1>0, <1>4, NoWrite DEF Stop
  <2>2. Locals(p, NoScan, "none", {}, NoFinding, "none", {})
    BY <1>4 DEF Stop, RowsInvariant, TypeOK, Local, NoLocals, Keep, Locals
  <2>3. Goto(p, pc[p], "idle") /\ pc'[p] = "idle"
    BY <1>4 DEF Stop, RowsInvariant, TypeOK, Goto
  <2>4. ProcessOK(p)'
    BY <2>2, <2>3 DEF ProcessOK, LocalsOK, RowsKnown, HandKnown, OutcomeKnown, Locals
  <2>5. QED
    BY <2>1, <2>2, <2>3, <2>4, OneMoves DEF Locals
<1>5. QED
  BY <1>1, <1>2, <1>3, <1>4 DEF Fault

----------------------------------------------------------------------------
(* The theorems *)

LEMMA RowsInvariantInit == Init => RowsInvariant
<1> SUFFICES ASSUME Init PROVE RowsInvariant
  OBVIOUS
<1>1. TypeOK
  BY DEF Init, StoreInit, TypeOK, StoreTypeOK, Label, Local, NoLocals, FiredCap
<1>2. StoreOK
  BY DEF Init, StoreInit, StoreOK, ForeignKeys, RowsBehindStates, StatesOK, LaunchedWasDecided,
         TruePositiveHasEvidence, Stored
<1>3. ASSUME NEW p \in Proc PROVE ProcessOK(p)
  BY DEF Init, NoLocals, ProcessOK, LocalsOK, RowsKnown, HandKnown, OutcomeKnown, InHand
<1>4. QED
  BY <1>1, <1>2, <1>3 DEF RowsInvariant

LEMMA RowsInvariantNext == RowsInvariant /\ [Next]_vars => RowsInvariant'
<1> SUFFICES ASSUME RowsInvariant, [Next]_vars PROVE RowsInvariant'
  OBVIOUS
<1>1. CASE Next
  <2>1. PICK p \in Proc : Launch(p) \/ Advance(p) \/ Fault(p)
    BY <1>1 DEF Next
  <2>2. CASE Advance(p)
    BY <2>2, IngestStepSafe, ScoreStepSafe, GateStepSafe, DetonateStepSafe, EndStepSafe,
       ReviewStepSafe
    DEF Advance
  <2>3. QED
    BY <2>1, <2>2, LaunchSafe, FaultSafe
<1>2. CASE UNCHANGED vars
  <2>1. StoreStep
    BY <1>2, NoWrite DEF vars, RowsInvariant, StoreGood, TypeOK, FiredType
  <2>2. TypeOK'
    BY <1>2, <2>1 DEF vars, RowsInvariant, StoreStep, TypeOK, FiredType
  <2>3. ASSUME NEW q \in Proc PROVE ProcessOK(q)'
    BY <1>2, <2>1, Bystanders DEF vars, RowsInvariant, StoreStep
  <2>4. QED
    BY <2>1, <2>2, <2>3 DEF RowsInvariant, StoreStep
<1>3. QED
  BY <1>1, <1>2

\* Every store call of every process finds the rows it needs, and every state has
\* its rows, whatever is interleaved or interrupted.
THEOREM RowsAlways == Spec => []RowsInvariant
BY RowsInvariantInit, RowsInvariantNext, PTL DEF Spec

\* The variables keep their types.
THEOREM TypeCorrect == Spec => []TypeOK
<1>1. RowsInvariant => TypeOK
  BY DEF RowsInvariant
<1>2. QED
  BY <1>1, RowsAlways, PTL

\* A state read from the store never runs ahead of the row it stands for.
THEOREM StatesHaveRows == Spec => []RowsBehindStates
<1>1. RowsInvariant => RowsBehindStates
  BY DEF RowsInvariant, StoreOK
<1>2. QED
  BY <1>1, RowsAlways, PTL

\* No store call violates a foreign key or misses the row it updates.
THEOREM KeysHold == Spec => []ForeignKeys
<1>1. RowsInvariant => ForeignKeys
  BY DEF RowsInvariant, StoreOK
<1>2. QED
  BY <1>1, RowsAlways, PTL

\* No exploit is launched without a decision and a stored PoC.
THEOREM LaunchNeedsDecision == Spec => []LaunchedWasDecided
<1>1. RowsInvariant => LaunchedWasDecided
  BY DEF RowsInvariant, StoreOK
<1>2. QED
  BY <1>1, RowsAlways, PTL

\* A TRUE_POSITIVE has the evidence that corroborates it, and its exploit ran.
THEOREM VerdictNeedsEvidence == Spec => []TruePositiveHasEvidence
<1>1. RowsInvariant => TruePositiveHasEvidence
  BY DEF RowsInvariant, StoreOK
<1>2. QED
  BY <1>1, RowsAlways, PTL

=============================================================================
