----------------------------- MODULE GateProofs -----------------------------
(***************************************************************************)
(* The human gate, for one terminal and any number of scans and findings:  *)
(* an exploit that is about to be launched has APPROVED on record.         *)
(*                                                                         *)
(* With nobody else at work a command finds every row in the state in      *)
(* which it read it, until it has marked the row itself (GateInvariant).   *)
(* RowsInvariant supplies the types, and what is in hand.                  *)
(***************************************************************************)
EXTENDS PipelineSequence, PipelineProofs

\* What the steps below need of the state in which p moves
LEMMA Alone ==
  ASSUME OneTerminal, RowsInvariant, GateInvariant, NEW p \in Proc
  PROVE  /\ TypeOK /\ ProcessOK(p) /\ InOrder(p) /\ ApprovedOnRecord
         /\ \A q \in Proc : q = p
BY DEF RowsInvariant, GateInvariant, OneTerminal

\* A row that is marked is the one in hand: it is not in the loop any more.
LEMMA MarkMoves ==
  ASSUME TypeOK, NEW p \in Proc, NEW from, NEW to, NEW st, Mark(p, from, to, st)
  PROVE  /\ pc[p] = from /\ pc'[p] = to
         /\ mem'[p].todo = mem[p].todo
         /\ findingState' = [findingState EXCEPT ![mem[p].cur] = st]
         /\ UNCHANGED <<scanState, owner, triage, childRows, fired>>
BY DEF TypeOK, Local, Mark, Goto, Keep, UpdateFindingState

LEMMA GateStepInOrder ==
  ASSUME OneTerminal, RowsInvariant, GateInvariant, NEW p \in Proc, GateStep(p)
  PROVE  GateInvariant'
<1>0. TypeOK /\ ProcessOK(p) /\ InOrder(p) /\ ApprovedOnRecord /\ \A q \in Proc : q = p
  BY Alone
<1> USE <1>0 DEF TypeOK, StoreTypeOK, Local, GateInvariant, ApprovedOnRecord, InOrder,
                  RowAsRead, HandAsRead, InHand, Goto, Keep, storeVars, findingRows, childRows
<1>1. CASE ModeConflict(p)
  BY <1>1 DEF ModeConflict, Raise, NoLocals
<1>2. CASE SkipGate(p)
  BY <1>2 DEF SkipGate, NextLoop
<1>3. CASE OpenGate(p)
  BY <1>3 DEF OpenGate, NextLoop, Pending
<1>4. CASE DecideOne(p)
  <2>1. PICK f \in mem[p].todo, d \in Decision :
          Goto(p, "decide", "decide_mark") /\ RecordApproval(f, d) /\ Take(p, f, d)
    BY <1>4 DEF DecideOne
  <2>2. QED
    BY <2>1 DEF RecordApproval, Take, Decision
<1>5. CASE DecideMark(p)
  <2> DEFINE f == mem[p].cur
  <2>1. /\ pc[p] = "decide_mark" /\ pc'[p] = "decide" /\ mem'[p].todo = mem[p].todo
        /\ findingState' = [findingState EXCEPT ![f] = mem[p].write]
        /\ approvals' = approvals
    BY <1>5, MarkMoves DEF DecideMark
  <2>2. f \in Finding \ mem[p].todo /\ approvals[f] = mem[p].write
    BY <2>1 DEF ProcessOK, HandKnown, Stored
  <2>3. QED
    BY <2>1, <2>2 DEF Decision
<1>6. CASE DecideSkip(p)
  BY <1>6 DEF DecideSkip, Drop
<1>7. CASE CloseGate(p)
  BY <1>7 DEF CloseGate, NextLoop
<1>8. QED
  BY <1>1, <1>2, <1>3, <1>4, <1>5, <1>6, <1>7 DEF GateStep

LEMMA LaunchInOrder ==
  ASSUME OneTerminal, RowsInvariant, GateInvariant, NEW p \in Proc, Launch(p)
  PROVE  GateInvariant'
<1>0. TypeOK /\ ProcessOK(p) /\ InOrder(p) /\ ApprovedOnRecord /\ \A q \in Proc : q = p
  BY Alone
<1> USE <1>0 DEF TypeOK, StoreTypeOK, Local, GateInvariant, ApprovedOnRecord, InOrder,
                  RowAsRead, HandAsRead, InHand, Goto, Keep, storeVars, findingRows, childRows, NoLocals
<1>1. CASE StartFresh(p)
  BY <1>1 DEF StartFresh, CreateScan
<1>2. CASE Resume(p)
  BY <1>2 DEF Resume
<1>3. CASE StartReview(p)
  BY <1>3 DEF StartReview, Pending
<1>4. QED
  BY <1>1, <1>2, <1>3 DEF Launch

LEMMA IngestStepInOrder ==
  ASSUME OneTerminal, RowsInvariant, GateInvariant, NEW p \in Proc, IngestStep(p)
  PROVE  GateInvariant'
<1>0. TypeOK /\ ProcessOK(p) /\ InOrder(p) /\ ApprovedOnRecord /\ \A q \in Proc : q = p
  BY Alone
<1> USE <1>0 DEF TypeOK, StoreTypeOK, Local, GateInvariant, ApprovedOnRecord, InOrder,
                  RowAsRead, HandAsRead, InHand, Goto, Keep, storeVars, findingRows, childRows
<1>1. CASE BeginIngest(p)
  BY <1>1 DEF BeginIngest, ScanStep, UpdateScanState
<1>2. CASE Ingest(p)
  BY <1>2 DEF Ingest, RecordFindings
<1>3. CASE EndIngest(p)
  BY <1>3 DEF EndIngest, ScanStep, UpdateScanState
<1>4. CASE BeginTriage(p)
  BY <1>4 DEF BeginTriage, ScanStep, UpdateScanState
<1>5. CASE TriageOne(p)
  BY <1>5 DEF TriageOne, SetTriage, Take
<1>6. CASE TriageMark(p)
  BY <1>6 DEF TriageMark, Mark, UpdateFindingState
<1>7. CASE EndTriage(p)
  BY <1>7 DEF EndTriage, ScanStep, UpdateScanState
<1>8. QED
  BY <1>1, <1>2, <1>3, <1>4, <1>5, <1>6, <1>7 DEF IngestStep

LEMMA ScoreStepInOrder ==
  ASSUME OneTerminal, RowsInvariant, GateInvariant, NEW p \in Proc, ScoreStep(p)
  PROVE  GateInvariant'
<1>0. TypeOK /\ ProcessOK(p) /\ InOrder(p) /\ ApprovedOnRecord /\ \A q \in Proc : q = p
  BY Alone
<1> USE <1>0 DEF TypeOK, StoreTypeOK, Local, GateInvariant, ApprovedOnRecord, InOrder,
                  RowAsRead, HandAsRead, InHand, Goto, Keep, storeVars, findingRows, childRows
<1>1. CASE BeginScoring(p)
  BY <1>1 DEF BeginScoring, ScanStep, UpdateScanState
<1>2. CASE ScoreRows(p)
  BY <1>2 DEF ScoreRows, NextLoop, Pending
<1>3. CASE ScoreOne(p)
  BY <1>3 DEF ScoreOne, RecordScore, Take
<1>4. CASE ScoreMark(p)
  BY <1>4 DEF ScoreMark, Mark, UpdateFindingState
<1>5. CASE ScoreStatic(p)
  BY <1>5 DEF ScoreStatic, UpdateFindingState, Drop
<1>6. CASE EndScoring(p)
  BY <1>6 DEF EndScoring, NextLoop, Pending
<1>7. CASE SweepOne(p)
  BY <1>7 DEF SweepOne, RecordVerdict, Take
<1>8. CASE SweepMark(p)
  BY <1>8 DEF SweepMark, Mark, UpdateFindingState
<1>9. QED
  BY <1>1, <1>2, <1>3, <1>4, <1>5, <1>6, <1>7, <1>8 DEF ScoreStep

LEMMA DetonateStepInOrder ==
  ASSUME OneTerminal, RowsInvariant, GateInvariant, NEW p \in Proc, DetonateStep(p)
  PROVE  GateInvariant'
<1>0. TypeOK /\ ProcessOK(p) /\ InOrder(p) /\ ApprovedOnRecord /\ \A q \in Proc : q = p
  BY Alone
<1> USE <1>0 DEF TypeOK, StoreTypeOK, Local, GateInvariant, ApprovedOnRecord, InOrder,
                  RowAsRead, HandAsRead, InHand, Goto, Keep, storeVars, findingRows, childRows
<1>1. CASE ApprovedRows(p)
  BY <1>1 DEF ApprovedRows, Pending
<1>2. CASE BeginDetonating(p) \/ BeginSkipping(p)
  BY <1>2 DEF BeginDetonating, BeginSkipping, ScanStep, UpdateScanState
<1>3. CASE SandboxUp(p)
  BY <1>3 DEF SandboxUp
<1>4. CASE GeneratePoc(p)
  BY <1>4 DEF GeneratePoc, RecordPoc, Take
<1>5. CASE PocMark(p)
  <2> DEFINE f == mem[p].cur
  <2>1. /\ pc[p] = "poc_mark" /\ pc'[p] = "fire" /\ mem' = mem
        /\ findingState' = [findingState EXCEPT ![f] = "POC_GENERATED"]
        /\ approvals' = approvals
    BY <1>5 DEF PocMark, UpdateFindingState
  <2>2. f \in Finding \ mem[p].todo /\ approvals[f] = "APPROVED"
    BY <2>1 DEF ProcessOK, HandKnown, Stored
  <2>3. QED
    BY <2>1, <2>2
<1>6. CASE Fire(p)
  BY <1>6 DEF Fire
<1>7. CASE StoreEvidence(p)
  BY <1>7 DEF StoreEvidence, RecordEvidence
<1>8. CASE StoreVerdict(p)
  BY <1>8 DEF StoreVerdict, RecordVerdict
<1>9. CASE VerdictMark(p)
  BY <1>9 DEF VerdictMark, Mark, UpdateFindingState
<1>10. CASE EndDetonating(p) \/ EndSkipping(p)
  BY <1>10 DEF EndDetonating, EndSkipping, NextLoop
<1>11. CASE SkipOne(p)
  BY <1>11 DEF SkipOne, RecordVerdict, Take
<1>12. CASE SkipMark(p)
  BY <1>12 DEF SkipMark, Mark, UpdateFindingState
<1>13. QED
  BY <1>1, <1>2, <1>3, <1>4, <1>5, <1>6, <1>7, <1>8, <1>9, <1>10, <1>11, <1>12
  DEF DetonateStep

LEMMA EndAndReviewInOrder ==
  ASSUME OneTerminal, RowsInvariant, GateInvariant, NEW p \in Proc, EndStep(p) \/ ReviewStep(p)
  PROVE  GateInvariant'
<1>0. TypeOK /\ ProcessOK(p) /\ InOrder(p) /\ ApprovedOnRecord /\ \A q \in Proc : q = p
  BY Alone
<1> USE <1>0 DEF TypeOK, StoreTypeOK, Local, GateInvariant, ApprovedOnRecord, InOrder,
                  RowAsRead, HandAsRead, InHand, Goto, Keep, storeVars, findingRows, childRows
<1>1. CASE EndStep(p)
  BY <1>1 DEF EndStep, Complete, Fail, Finish, UpdateScanState, NoLocals
<1>2. CASE ReviewOne(p)
  <2>1. mem[p].mode \in Decision
    BY <1>2 DEF ReviewOne, ProcessOK, LocalsOK
  <2>2. PICK f \in mem[p].todo :
          /\ Goto(p, "review", "review_mark") /\ RecordApproval(f, mem[p].mode)
          /\ Take(p, f, mem[p].mode)
    BY <1>2 DEF ReviewOne
  <2>3. QED
    BY <2>1, <2>2 DEF RecordApproval, Take, Decision
<1>3. CASE ReviewMark(p)
  <2> DEFINE f == mem[p].cur
  <2>1. /\ pc[p] = "review_mark" /\ pc'[p] = "review" /\ mem'[p].todo = mem[p].todo
        /\ findingState' = [findingState EXCEPT ![f] = mem[p].write]
        /\ approvals' = approvals
    BY <1>3, MarkMoves DEF ReviewMark
  <2>2. f \in Finding \ mem[p].todo /\ approvals[f] = mem[p].write
    BY <2>1 DEF ProcessOK, HandKnown, Stored
  <2>3. QED
    BY <2>1, <2>2 DEF Decision
<1>4. CASE EndReview(p)
  BY <1>4 DEF EndReview, NoLocals
<1>5. QED
  BY <1>1, <1>2, <1>3, <1>4 DEF ReviewStep

LEMMA FaultInOrder ==
  ASSUME OneTerminal, RowsInvariant, GateInvariant, NEW p \in Proc, Fault(p)
  PROVE  GateInvariant'
<1>0. TypeOK /\ ProcessOK(p) /\ InOrder(p) /\ ApprovedOnRecord /\ \A q \in Proc : q = p
  BY Alone
<1> USE <1>0 DEF TypeOK, StoreTypeOK, Local, GateInvariant, ApprovedOnRecord, InOrder,
                  RowAsRead, HandAsRead, InHand, Goto, Keep, storeVars, findingRows, childRows, NoLocals
<1>1. CASE IngestFails(p) \/ ScoreFails(p) \/ SandboxFails(p)
  BY <1>1 DEF IngestFails, ScoreFails, SandboxFails, Raise
<1>2. CASE PocFails(p)
  BY <1>2 DEF PocFails, RecordVerdict, Take
<1>3. CASE NoOutcome(p)
  BY <1>3 DEF NoOutcome, RecordVerdict
<1>4. CASE Stop(p)
  BY <1>4 DEF Stop
<1>5. QED
  BY <1>1, <1>2, <1>3, <1>4 DEF Fault
----------------------------------------------------------------------------
(* The theorems *)

LEMMA GateInvariantNext ==
  ASSUME OneTerminal, RowsInvariant, GateInvariant, [Next]_vars
  PROVE  GateInvariant'
<1>1. CASE Next
  <2>1. PICK p \in Proc : Launch(p) \/ Advance(p) \/ Fault(p)
    BY <1>1 DEF Next
  <2>2. QED
    BY <2>1, LaunchInOrder, IngestStepInOrder, ScoreStepInOrder, GateStepInOrder,
       DetonateStepInOrder, EndAndReviewInOrder, FaultInOrder
    DEF Advance
<1>2. CASE UNCHANGED vars
  BY <1>2 DEF vars, storeVars, findingRows, childRows, GateInvariant, ApprovedOnRecord,
              InOrder, RowAsRead, HandAsRead
<1>3. QED
  BY <1>1, <1>2

\* Rows stay as they were read, and the decision on record is the one in effect, for
\* one terminal and any number of scans, whatever is interrupted.
THEOREM GateAlways ==
  ASSUME OneTerminal
  PROVE  Spec => []GateInvariant
<1>1. Init => GateInvariant
  BY DEF Init, StoreInit, NoLocals, GateInvariant, ApprovedOnRecord, InOrder, InHand
<1>2. RowsInvariant /\ GateInvariant /\ [Next]_vars => GateInvariant'
  BY GateInvariantNext
<1>3. QED
  BY <1>1, <1>2, RowsAlways, PTL DEF Spec

\* No exploit is about to be launched whose finding is not APPROVED on record.
THEOREM GateHolds ==
  ASSUME OneTerminal
  PROVE  Spec => []ApprovalGate
<1>1. RowsInvariant /\ GateInvariant => ApprovalGate
  BY DEF RowsInvariant, ProcessOK, HandKnown, Stored, InHand, GateInvariant, ApprovedOnRecord,
         InOrder, HandAsRead, ApprovalGate
<1>2. QED
  BY <1>1, RowsAlways, GateAlways, PTL

=============================================================================
