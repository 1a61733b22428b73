-------------------------- MODULE SequentialProofs --------------------------
(***************************************************************************)
(* One terminal and one scan: SequentialInvariant, and the safety          *)
(* properties it contains.  Its parts are proved one after the other, each *)
(* from those before: rows are as they were read (GateProofs), so findings *)
(* only move forward and nothing is done for one of them twice; and a run  *)
(* has in its loop what it still owes, so a complete scan owes nothing.    *)
(***************************************************************************)
EXTENDS GateProofs

----------------------------------------------------------------------------
(* ForwardInvariant, action by action *)

\* What is known of the state in which p moves
LEMMA AloneForward ==
  ASSUME OneTerminal, OneScan, RowsInvariant, GateInvariant, ForwardInvariant,
         NEW p \in Proc
  PROVE  /\ TypeOK /\ ProcessOK(p) /\ InOrder(p)
         /\ ProgressOK /\ FreshRows(p) /\ FirstRun(p)
         /\ \A q \in Proc : q = p
BY DEF RowsInvariant, GateInvariant, ForwardInvariant, OneTerminal

LEMMA GateStepForward ==
  ASSUME OneTerminal, OneScan, RowsInvariant, GateInvariant, ForwardInvariant,
         NEW p \in Proc, GateStep(p)
  PROVE  ForwardInvariant'
<1>0. TypeOK /\ ProcessOK(p) /\ InOrder(p) /\ ProgressOK /\ FreshRows(p) /\ FirstRun(p)
      /\ \A q \in Proc : q = p
  BY AloneForward
<1> USE <1>0 DEF TypeOK, StoreTypeOK, Local, ForwardInvariant, ProgressOK, FreshRows,
                  FirstRun, Concluded, InOrder, RowAsRead, HandAsRead, InHand, Goto, Keep, storeVars,
                  findingRows, childRows, Stored
<1>1. CASE ModeConflict(p)
  BY <1>1 DEF ModeConflict, Raise, NoLocals
<1>2. CASE SkipGate(p)
  BY <1>2 DEF SkipGate, NextLoop
<1>3. CASE OpenGate(p)
  BY <1>3 DEF OpenGate, NextLoop, Pending
<1>4. CASE DecideOne(p)
  <2>1. PICK f \in mem[p].todo, d \in Decision :
          /\ Goto(p, "decide", "decide_mark") /\ RecordApproval(f, d) /\ Take(p, f, d)
          /\ UNCHANGED fired
    BY <1>4 DEF DecideOne
  <2>2. QED
    BY <2>1 DEF RecordApproval, Take, Decision
<1>5. CASE DecideMark(p)
  <2> DEFINE f == mem[p].cur
  <2>1. /\ pc[p] = "decide_mark" /\ pc'[p] = "decide" /\ mem'[p].todo = mem[p].todo
        /\ findingState' = [findingState EXCEPT ![f] = mem[p].write]
        /\ UNCHANGED <<verdicts, fired>>
    BY <1>5, MarkMoves DEF DecideMark
  <2>2. f \in Finding /\ findingState[f] = "SCORED" /\ mem[p].write \in Decision
    BY <2>1 DEF ProcessOK, HandKnown, LocalsOK
  <2>3. QED
    BY <2>1, <2>2 DEF Decision
<1>6. CASE DecideSkip(p)
  BY <1>6 DEF DecideSkip, Drop
<1>7. CASE CloseGate(p)
  BY <1>7 DEF CloseGate, NextLoop
<1>8. QED
  BY <1>1, <1>2, <1>3, <1>4, <1>5, <1>6, <1>7 DEF GateStep

LEMMA LaunchForward ==
  ASSUME OneTerminal, OneScan, RowsInvariant, GateInvariant, ForwardInvariant,
         NEW p \in Proc, Launch(p)
  PROVE  ForwardInvariant'
<1>0. TypeOK /\ ProcessOK(p) /\ InOrder(p) /\ ProgressOK /\ FreshRows(p) /\ FirstRun(p)
      /\ \A q \in Proc : q = p
  BY AloneForward
<1> USE <1>0 DEF TypeOK, StoreTypeOK, Local, ForwardInvariant, ProgressOK, FreshRows,
                  FirstRun, Concluded, InOrder, RowAsRead, HandAsRead, InHand, Goto, Keep, storeVars,
                  findingRows, childRows, Stored, NoLocals
<1>1. CASE StartFresh(p)
  <2>1. PICK s \in Scan, m \in Mode, F \in SUBSET Finding :
          /\ Goto(p, "idle", "created")
          /\ CreateScan(s)
          /\ Keep(p, [NoLocals EXCEPT !.scan = s, !.mode = m, !.todo = F])
          /\ UNCHANGED fired
    BY <1>1 DEF StartFresh
  <2>2. Stored = {}
    BY <2>1 DEF OneScan, RowsInvariant, StoreOK, ForeignKeys, CreateScan
  <2>3. QED
    BY <2>1, <2>2 DEF CreateScan
<1>2. CASE Resume(p)
  BY <1>2 DEF Resume
<1>3. CASE StartReview(p)
  BY <1>3 DEF StartReview, Pending
<1>4. QED
  BY <1>1, <1>2, <1>3 DEF Launch

LEMMA IngestStepForward ==
  ASSUME OneTerminal, OneScan, RowsInvariant, GateInvariant, ForwardInvariant,
         NEW p \in Proc, IngestStep(p)
  PROVE  ForwardInvariant'
<1>0. TypeOK /\ ProcessOK(p) /\ InOrder(p) /\ ProgressOK /\ FreshRows(p) /\ FirstRun(p)
      /\ \A q \in Proc : q = p
  BY AloneForward
<1> USE <1>0 DEF TypeOK, StoreTypeOK, Local, ForwardInvariant, ProgressOK, FreshRows,
                  FirstRun, Concluded, InOrder, RowAsRead, HandAsRead, InHand, Goto, Keep, storeVars,
                  findingRows, childRows, Stored
<1>1. CASE BeginIngest(p)
  BY <1>1 DEF BeginIngest, ScanStep, UpdateScanState
<1>2. CASE Ingest(p)
  <2>1. \A f \in Finding : /\ findingState[f] = "NONE" /\ verdicts[f] = "NONE"
                           /\ fired[f] = 0
    BY <1>2 DEF Ingest, RowsInvariant, StoreOK, ForeignKeys
  <2>2. /\ pc'[p] = "ingested" /\ mem' = mem /\ UNCHANGED <<verdicts, fired>>
        /\ findingState' = [f \in Finding |-> IF f \in mem[p].todo THEN "INGESTED" ELSE "NONE"]
    BY <1>2, <2>1 DEF Ingest, RecordFindings
  <2>3. QED
    BY <2>1, <2>2
<1>3. CASE EndIngest(p)
  BY <1>3 DEF EndIngest, ScanStep, UpdateScanState
<1>4. CASE BeginTriage(p)
  BY <1>4 DEF BeginTriage, ScanStep, UpdateScanState
<1>5. CASE TriageOne(p)
  BY <1>5 DEF TriageOne, SetTriage, Take
<1>6. CASE TriageMark(p)
  BY <1>6 DEF TriageMark, Mark, UpdateFindingState
<1>7. CASE EndTriage(p)
  BY <1>7 DEF EndTriage, ScanStep, UpdateScanState
<1>8. QED
  BY <1>1, <1>2, <1>3, <1>4, <1>5, <1>6, <1>7 DEF IngestStep

LEMMA ScoreStepForward ==
  ASSUME OneTerminal, OneScan, RowsInvariant, GateInvariant, ForwardInvariant,
         NEW p \in Proc, ScoreStep(p)
  PROVE  ForwardInvariant'
<1>0. TypeOK /\ ProcessOK(p) /\ InOrder(p) /\ ProgressOK /\ FreshRows(p) /\ FirstRun(p)
      /\ \A q \in Proc : q = p
  BY AloneForward
<1> USE <1>0 DEF TypeOK, StoreTypeOK, Local, ForwardInvariant, ProgressOK, FreshRows,
                  FirstRun, Concluded, InOrder, RowAsRead, HandAsRead, InHand, Goto, Keep, storeVars,
                  findingRows, childRows, Stored
<1>1. CASE BeginScoring(p)
  BY <1>1 DEF BeginScoring, ScanStep, UpdateScanState
<1>2. CASE ScoreRows(p)
  BY <1>2 DEF ScoreRows, NextLoop, Pending
<1>3. CASE ScoreOne(p)
  BY <1>3 DEF ScoreOne, RecordScore, Take
<1>4. CASE ScoreMark(p)
  BY <1>4 DEF ScoreMark, Mark, UpdateFindingState
<1>5. CASE ScoreStatic(p)
  BY <1>5 DEF ScoreStatic, UpdateFindingState, Drop
<1>6. CASE EndScoring(p)
  BY <1>6 DEF EndScoring, NextLoop, Pending
<1>7. CASE SweepOne(p)
  BY <1>7 DEF SweepOne, RecordVerdict, Take
<1>8. CASE SweepMark(p)
  BY <1>8 DEF SweepMark, Mark, UpdateFindingState
<1>9. QED
  BY <1>1, <1>2, <1>3, <1>4, <1>5, <1>6, <1>7, <1>8 DEF ScoreStep

LEMMA DetonateStepForward ==
  ASSUME OneTerminal, OneScan, RowsInvariant, GateInvariant, ForwardInvariant,
         NEW p \in Proc, DetonateStep(p)
  PROVE  ForwardInvariant'
<1>0. TypeOK /\ ProcessOK(p) /\ InOrder(p) /\ ProgressOK /\ FreshRows(p) /\ FirstRun(p)
      /\ \A q \in Proc : q = p
  BY AloneForward
<1> USE <1>0 DEF TypeOK, StoreTypeOK, Local, ForwardInvariant, ProgressOK, FreshRows,
                  FirstRun, Concluded, InOrder, RowAsRead, HandAsRead, InHand, Goto, Keep, storeVars,
                  findingRows, childRows, Stored
<1>1. CASE ApprovedRows(p)
  BY <1>1 DEF ApprovedRows, Pending
<1>2. CASE BeginDetonating(p) \/ BeginSkipping(p)
  BY <1>2 DEF BeginDetonating, BeginSkipping, ScanStep, UpdateScanState
<1>3. CASE SandboxUp(p)
  BY <1>3 DEF SandboxUp
<1>4. CASE GeneratePoc(p)
  BY <1>4 DEF GeneratePoc, RecordPoc, Take
<1>5. CASE PocMark(p)
  <2> DEFINE f == mem[p].cur
  <2>1. /\ pc[p] = "poc_mark" /\ pc'[p] = "fire" /\ mem' = mem
        /\ findingState' = [findingState EXCEPT ![f] = "POC_GENERATED"]
        /\ UNCHANGED <<verdicts, fired>>
    BY <1>5 DEF PocMark, UpdateFindingState
  <2>2. f \in Finding /\ findingState[f] = "APPROVED"
    BY <2>1 DEF ProcessOK, HandKnown, Stored
  <2>3. QED
    BY <2>1, <2>2
<1>6. CASE Fire(p)
  <2> DEFINE f == mem[p].cur
  <2>1. PICK E \in SUBSET Evidence :
          /\ Goto(p, "fire", "observe") /\ UNCHANGED storeVars
          /\ fired' = [fired EXCEPT ![f] = IF @ < FiredCap THEN @ + 1 ELSE @]
          /\ Keep(p, [mem[p] EXCEPT !.seen = E, !.write = Synthesize(E)])
    BY <1>6 DEF Fire
  <2>2. /\ pc'[p] = "observe" /\ mem'[p].cur = f /\ mem'[p].write # "REFUSED"
        /\ findingState[f] = "POC_GENERATED" /\ verdicts[f] \notin Concluded
        /\ f \in Finding /\ fired[f] = 0
    BY <2>1 DEF Synthesize, ProcessOK, HandKnown
  <2>3. fired' = [fired EXCEPT ![f] = 1] /\ UNCHANGED <<findingState, verdicts>>
    BY <2>1, <2>2 DEF FiredCap
  <2>4. QED
    BY <2>2, <2>3
<1>7. CASE StoreEvidence(p)
  BY <1>7 DEF StoreEvidence, RecordEvidence
<1>8. CASE StoreVerdict(p)
  <2> DEFINE f == mem[p].cur
  <2>1. /\ pc[p] = "observe" /\ pc'[p] = "verdict_mark" /\ mem' = mem
        /\ verdicts' = [verdicts EXCEPT ![f] = mem[p].write]
        /\ UNCHANGED <<findingState, fired>>
    BY <1>8 DEF StoreVerdict, RecordVerdict
  <2>2. f \in Finding /\ findingState[f] = "POC_GENERATED" /\ mem[p].write # "REFUSED"
    BY <2>1 DEF ProcessOK, HandKnown
  <2>3. QED
    BY <2>1, <2>2
<1>9. CASE VerdictMark(p)
  BY <1>9 DEF VerdictMark, Mark, UpdateFindingState
<1>10. CASE EndDetonating(p) \/ EndSkipping(p)
  BY <1>10 DEF EndDetonating, EndSkipping, NextLoop
<1>11. CASE SkipOne(p)
  BY <1>11 DEF SkipOne, RecordVerdict, Take
<1>12. CASE SkipMark(p)
  BY <1>12 DEF SkipMark, Mark, UpdateFindingState
<1>13. QED
  BY <1>1, <1>2, <1>3, <1>4, <1>5, <1>6, <1>7, <1>8, <1>9, <1>10, <1>11, <1>12
  DEF DetonateStep

LEMMA EndAndReviewForward ==
  ASSUME OneTerminal, OneScan, RowsInvariant, GateInvariant, ForwardInvariant,
         NEW p \in Proc, EndStep(p) \/ ReviewStep(p)
  PROVE  ForwardInvariant'
<1>0. TypeOK /\ ProcessOK(p) /\ InOrder(p) /\ ProgressOK /\ FreshRows(p) /\ FirstRun(p)
      /\ \A q \in Proc : q = p
  BY AloneForward
<1> USE <1>0 DEF TypeOK, StoreTypeOK, Local, ForwardInvariant, ProgressOK, FreshRows,
                  FirstRun, Concluded, InOrder, RowAsRead, HandAsRead, InHand, Goto, Keep, storeVars,
                  findingRows, childRows, Stored
<1>1. CASE EndStep(p)
  BY <1>1 DEF EndStep, Complete, Fail, Finish, UpdateScanState, NoLocals
<1>2. CASE ReviewOne(p)
  <2>1. mem[p].mode \in Decision
    BY <1>2 DEF ReviewOne, ProcessOK, LocalsOK
  <2>2. PICK f \in mem[p].todo :
          /\ Goto(p, "review", "review_mark") /\ RecordApproval(f, mem[p].mode)
          /\ Take(p, f, mem[p].mode) /\ UNCHANGED fired
    BY <1>2 DEF ReviewOne
  <2>3. QED
    BY <2>1, <2>2 DEF RecordApproval, Take, Decision
<1>3. CASE ReviewMark(p)
  <2> DEFINE f == mem[p].cur
  <2>1. /\ pc[p] = "review_mark" /\ pc'[p] = "review" /\ mem'[p].todo = mem[p].todo
        /\ findingState' = [findingState EXCEPT ![f] = mem[p].write]
        /\ UNCHANGED <<verdicts, fired>>
    BY <1>3, MarkMoves DEF ReviewMark
  <2>2. f \in Finding /\ findingState[f] = "SCORED" /\ mem[p].write \in Decision
    BY <2>1 DEF ProcessOK, HandKnown, LocalsOK
  <2>3. QED
    BY <2>1, <2>2 DEF Decision
<1>4. CASE EndReview(p)
  BY <1>4 DEF EndReview, NoLocals
<1>5. QED
  BY <1>1, <1>2, <1>3, <1>4 DEF ReviewStep

LEMMA FaultForward ==
  ASSUME OneTerminal, OneScan, RowsInvariant, GateInvariant, ForwardInvariant,
         NEW p \in Proc, Fault(p)
  PROVE  ForwardInvariant'
<1>0. TypeOK /\ ProcessOK(p) /\ InOrder(p) /\ ProgressOK /\ FreshRows(p) /\ FirstRun(p)
      /\ \A q \in Proc : q = p
  BY AloneForward
<1> USE <1>0 DEF TypeOK, StoreTypeOK, Local, ForwardInvariant, ProgressOK, FreshRows,
                  FirstRun, Concluded, InOrder, RowAsRead, HandAsRead, InHand, Goto, Keep, storeVars,
                  findingRows, childRows, Stored, NoLocals
<1>1. CASE IngestFails(p) \/ ScoreFails(p) \/ SandboxFails(p)
  BY <1>1 DEF IngestFails, ScoreFails, SandboxFails, Raise
<1>2. CASE PocFails(p)
  <2>1. PICK f \in mem[p].todo, v \in {"REFUSED", "INCONCLUSIVE"} :
          /\ Goto(p, "detonate", "verdict_mark")
          /\ RecordVerdict(f, v) /\ Take(p, f, v) /\ UNCHANGED fired
    BY <1>2 DEF PocFails
  <2>2. /\ pc'[p] = "verdict_mark" /\ mem'[p].cur = f /\ mem'[p].write = v
        /\ verdicts' = [verdicts EXCEPT ![f] = v]
        /\ UNCHANGED <<findingState, fired>>
    BY <2>1 DEF RecordVerdict, Take
  <2>3. f \in Finding /\ findingState[f] = "APPROVED" /\ verdicts'[f] = v
    BY <2>1, <2>2
  <2>4. ProgressOK'
    BY <2>2, <2>3
  <2>5. FreshRows(p)' /\ FirstRun(p)'
    BY <2>2, <2>3
  <2>6. QED
    BY <2>4, <2>5
<1>3. CASE NoOutcome(p)
  <2> DEFINE f == mem[p].cur
  <2>1. PICK ran \in {0, 1} :
          /\ Goto(p, "fire", "verdict_mark")
          /\ RecordVerdict(f, "INCONCLUSIVE")
          /\ fired' = [fired EXCEPT ![f] = IF @ < FiredCap THEN @ + ran ELSE @]
          /\ Keep(p, [mem[p] EXCEPT !.write = "INCONCLUSIVE"])
    BY <1>3 DEF NoOutcome
  <2>2. f \in Finding /\ findingState[f] = "POC_GENERATED" /\ fired[f] = 0
    BY <2>1 DEF ProcessOK, HandKnown
  <2>3. /\ pc'[p] = "verdict_mark" /\ mem'[p].cur = f /\ mem'[p].write = "INCONCLUSIVE"
        /\ mem'[p].todo = mem[p].todo
        /\ verdicts' = [verdicts EXCEPT ![f] = "INCONCLUSIVE"]
        /\ fired' = [fired EXCEPT ![f] = ran] /\ UNCHANGED findingState
    <3>1. (IF fired[f] < FiredCap THEN fired[f] + ran ELSE fired[f]) = ran
      <4>1. ran = 0 \/ ran = 1
        OBVIOUS
      <4>2. QED
        BY <2>2, <4>1 DEF FiredCap
    <3>2. fired' = [fired EXCEPT ![f] = ran]
      BY <2>1, <3>1
    <3>3. pc'[p] = "verdict_mark"
      BY <2>1
    <3>4. /\ mem'[p].cur = f /\ mem'[p].write = "INCONCLUSIVE" /\ mem'[p].todo = mem[p].todo
      BY <2>1
    <3>5. QED
      BY <2>1, <3>2, <3>3, <3>4 DEF RecordVerdict
  <2>4. fired'[f] <= 1 /\ verdicts'[f] = "INCONCLUSIVE"
    BY <2>2, <2>3
  <2>5. ProgressOK'
    BY <2>2, <2>3, <2>4
  <2>6. FreshRows(p)' /\ FirstRun(p)'
    BY <2>2, <2>3, <2>4
  <2>7. QED
    BY <2>5, <2>6
<1>4. CASE Stop(p)
  BY <1>4 DEF Stop
<1>5. QED
  BY <1>1, <1>2, <1>3, <1>4 DEF Fault
LEMMA ForwardInvariantNext ==
  ASSUME OneTerminal, OneScan, RowsInvariant, GateInvariant, ForwardInvariant, [Next]_vars
  PROVE  ForwardInvariant'
<1>1. CASE Next
  <2>1. PICK p \in Proc : Launch(p) \/ Advance(p) \/ Fault(p)
    BY <1>1 DEF Next
  <2>2. QED
    BY <2>1, LaunchForward, IngestStepForward, ScoreStepForward, GateStepForward,
       DetonateStepForward, EndAndReviewForward, FaultForward
    DEF Advance
<1>2. CASE UNCHANGED vars
  BY <1>2 DEF vars, storeVars, findingRows, childRows, ForwardInvariant, ProgressOK, FreshRows,
              FirstRun, Concluded, Stored
<1>3. QED
  BY <1>1, <1>2

----------------------------------------------------------------------------
(* DrainInvariant, action by action *)

\* What is known of the state in which p moves
LEMMA AloneDrained ==
  ASSUME OneTerminal, OneScan, RowsInvariant, GateInvariant, DrainInvariant, NEW p \in Proc
  PROVE  /\ TypeOK /\ ProcessOK(p) /\ InOrder(p)
         /\ Drained(p) /\ \A q \in Proc : q = p
BY DEF RowsInvariant, GateInvariant, DrainInvariant, OneTerminal

\* With one scan, a query for its rows finds all the rows.
LEMMA AllPending ==
  ASSUME OneScan, RowsInvariant, NEW s \in Scan, NEW st, st # "NONE"
  PROVE  Pending(s, st) = {f \in Finding : findingState[f] = st}
BY DEF OneScan, RowsInvariant, TypeOK, StoreTypeOK, StoreOK, ForeignKeys, Pending, Stored

LEMMA GateStepDrained ==
  ASSUME OneTerminal, OneScan, RowsInvariant, GateInvariant, DrainInvariant,
         NEW p \in Proc, GateStep(p)
  PROVE  DrainInvariant'
<1>0. TypeOK /\ ProcessOK(p) /\ InOrder(p) /\ Drained(p)
      /\ \A q \in Proc : q = p
  BY AloneDrained
<1> USE <1>0 DEF TypeOK, StoreTypeOK, Local, DrainInvariant, Drained,
                  Swept, InLoop, InOrder, RowAsRead, HandAsRead, InHand, Goto, Keep, storeVars,
                  findingRows, childRows
<1>1. CASE ModeConflict(p)
  BY <1>1 DEF ModeConflict, Raise, NoLocals
<1>2. CASE SkipGate(p)
  BY <1>2 DEF SkipGate, NextLoop
<1>3. CASE OpenGate(p)
  BY <1>3 DEF OpenGate, NextLoop, Pending
<1>4. CASE DecideOne(p)
  <2>1. PICK f \in mem[p].todo, d \in Decision :
          /\ Goto(p, "decide", "decide_mark") /\ RecordApproval(f, d) /\ Take(p, f, d)
          /\ UNCHANGED fired
    BY <1>4 DEF DecideOne
  <2>2. QED
    BY <2>1 DEF RecordApproval, Take, Decision
<1>5. CASE DecideMark(p)
  <2> DEFINE f == mem[p].cur
  <2>1. /\ pc[p] = "decide_mark" /\ pc'[p] = "decide" /\ mem'[p].todo = mem[p].todo
        /\ findingState' = [findingState EXCEPT ![f] = mem[p].write]
        /\ UNCHANGED scanState
    BY <1>5, MarkMoves DEF DecideMark
  <2>2. mem[p].write \in Decision
    BY <2>1 DEF ProcessOK, LocalsOK
  <2>3. \A g \in Finding :
          findingState'[g] \in {"TRIAGED", "POC_GENERATED"} => findingState'[g] = findingState[g]
    BY <2>1, <2>2 DEF Decision
  <2>4. QED
    BY <2>1, <2>3
<1>6. CASE DecideSkip(p)
  BY <1>6 DEF DecideSkip, Drop
<1>7. CASE CloseGate(p)
  BY <1>7 DEF CloseGate, NextLoop
<1>8. QED
  BY <1>1, <1>2, <1>3, <1>4, <1>5, <1>6, <1>7 DEF GateStep

LEMMA LaunchDrained ==
  ASSUME OneTerminal, OneScan, RowsInvariant, GateInvariant, DrainInvariant,
         NEW p \in Proc, Launch(p)
  PROVE  DrainInvariant'
<1>0. TypeOK /\ ProcessOK(p) /\ InOrder(p) /\ Drained(p)
      /\ \A q \in Proc : q = p
  BY AloneDrained
<1> USE <1>0 DEF TypeOK, StoreTypeOK, Local, DrainInvariant, Drained,
                  Swept, InLoop, InOrder, RowAsRead, HandAsRead, InHand, Goto, Keep, storeVars,
                  findingRows, childRows
<1>1. CASE StartFresh(p)
  <2>1. PICK s \in Scan, m \in Mode, F \in SUBSET Finding :
          /\ Goto(p, "idle", "created")
          /\ CreateScan(s)
          /\ Keep(p, [NoLocals EXCEPT !.scan = s, !.mode = m, !.todo = F])
          /\ UNCHANGED fired
    BY <1>1 DEF StartFresh
  <2>2. \A r \in Scan : scanState[r] = "NONE" /\ scanState'[r] = "CREATED"
    BY <2>1 DEF CreateScan, ScanExists, OneScan
  <2>3. pc'[p] = "created" /\ UNCHANGED findingState
    BY <2>1 DEF CreateScan
  <2>4. QED
    BY <2>2, <2>3
<1>2. CASE Resume(p)
  BY <1>2 DEF Resume
<1>3. CASE StartReview(p)
  BY <1>3 DEF StartReview, Pending
<1>4. QED
  BY <1>1, <1>2, <1>3 DEF Launch

LEMMA IngestStepDrained ==
  ASSUME OneTerminal, OneScan, RowsInvariant, GateInvariant, DrainInvariant,
         NEW p \in Proc, IngestStep(p)
  PROVE  DrainInvariant'
<1>0. TypeOK /\ ProcessOK(p) /\ InOrder(p) /\ Drained(p)
      /\ \A q \in Proc : q = p
  BY AloneDrained
<1> USE <1>0 DEF TypeOK, StoreTypeOK, Local, DrainInvariant, Drained,
                  Swept, InLoop, InOrder, RowAsRead, HandAsRead, InHand, Goto, Keep, storeVars,
                  findingRows, childRows
<1>1. CASE BeginIngest(p)
  BY <1>1 DEF BeginIngest, ScanStep, UpdateScanState
<1>2. CASE Ingest(p)
  BY <1>2 DEF Ingest, RecordFindings
<1>3. CASE EndIngest(p)
  BY <1>3 DEF EndIngest, ScanStep, UpdateScanState
<1>4. CASE BeginTriage(p)
  BY <1>4 DEF BeginTriage, ScanStep, UpdateScanState
<1>5. CASE TriageOne(p)
  BY <1>5 DEF TriageOne, SetTriage, Take
<1>6. CASE TriageMark(p)
  BY <1>6 DEF TriageMark, Mark, UpdateFindingState
<1>7. CASE EndTriage(p)
  BY <1>7 DEF EndTriage, ScanStep, UpdateScanState
<1>8. QED
  BY <1>1, <1>2, <1>3, <1>4, <1>5, <1>6, <1>7 DEF IngestStep

LEMMA ScoreStepDrained ==
  ASSUME OneTerminal, OneScan, RowsInvariant, GateInvariant, DrainInvariant,
         NEW p \in Proc, ScoreStep(p)
  PROVE  DrainInvariant'
<1>0. TypeOK /\ ProcessOK(p) /\ InOrder(p) /\ Drained(p)
      /\ \A q \in Proc : q = p
  BY AloneDrained
<1> USE <1>0 DEF TypeOK, StoreTypeOK, Local, DrainInvariant, Drained,
                  Swept, InLoop, InOrder, RowAsRead, HandAsRead, InHand, Goto, Keep, storeVars,
                  findingRows, childRows
<1>1. CASE BeginScoring(p)
  <2>1. \A s \in Scan : scanState'[s] = "SCORING"
    BY <1>1 DEF BeginScoring, ScanStep, UpdateScanState, ProcessOK, LocalsOK, OneScan
  <2>2. pc'[p] = "score_rows" /\ UNCHANGED findingState
    BY <1>1 DEF BeginScoring, ScanStep, UpdateScanState
  <2>3. QED
    BY <2>1, <2>2
<1>2. CASE ScoreRows(p)
  <2>1. Pending(mem[p].scan, "TRIAGED") = {f \in Finding : findingState[f] = "TRIAGED"}
    BY <1>2, AllPending DEF ScoreRows, NextLoop, ProcessOK, LocalsOK
  <2>2. QED
    BY <1>2, <2>1 DEF ScoreRows, NextLoop
<1>3. CASE ScoreOne(p)
  BY <1>3 DEF ScoreOne, RecordScore, Take
<1>4. CASE ScoreMark(p)
  BY <1>4 DEF ScoreMark, Mark, UpdateFindingState
<1>5. CASE ScoreStatic(p)
  BY <1>5 DEF ScoreStatic, UpdateFindingState, Drop
<1>6. CASE EndScoring(p)
  <2>1. Pending(mem[p].scan, "POC_GENERATED")
          = {f \in Finding : findingState[f] = "POC_GENERATED"}
    BY <1>6, AllPending DEF EndScoring, NextLoop, ProcessOK, LocalsOK
  <2>2. QED
    BY <1>6, <2>1 DEF EndScoring, NextLoop
<1>7. CASE SweepOne(p)
  BY <1>7 DEF SweepOne, RecordVerdict, Take
<1>8. CASE SweepMark(p)
  BY <1>8 DEF SweepMark, Mark, UpdateFindingState
<1>9. QED
  BY <1>1, <1>2, <1>3, <1>4, <1>5, <1>6, <1>7, <1>8 DEF ScoreStep

LEMMA DetonateStepDrained ==
  ASSUME OneTerminal, OneScan, RowsInvariant, GateInvariant, DrainInvariant,
         NEW p \in Proc, DetonateStep(p)
  PROVE  DrainInvariant'
<1>0. TypeOK /\ ProcessOK(p) /\ InOrder(p) /\ Drained(p)
      /\ \A q \in Proc : q = p
  BY AloneDrained
<1> USE <1>0 DEF TypeOK, StoreTypeOK, Local, DrainInvariant, Drained,
                  Swept, InLoop, InOrder, RowAsRead, HandAsRead, InHand, Goto, Keep, storeVars,
                  findingRows, childRows
<1>1. CASE ApprovedRows(p)
  BY <1>1 DEF ApprovedRows, Pending
<1>2. CASE BeginDetonating(p) \/ BeginSkipping(p)
  BY <1>2 DEF BeginDetonating, BeginSkipping, ScanStep, UpdateScanState
<1>3. CASE SandboxUp(p)
  BY <1>3 DEF SandboxUp
<1>4. CASE GeneratePoc(p)
  BY <1>4 DEF GeneratePoc, RecordPoc, Take
<1>5. CASE PocMark(p)
  <2>1. /\ pc[p] = "poc_mark" /\ pc'[p] = "fire" /\ mem' = mem
        /\ findingState' = [findingState EXCEPT ![mem[p].cur] = "POC_GENERATED"]
        /\ UNCHANGED scanState
    BY <1>5 DEF PocMark, UpdateFindingState
  <2>2. QED
    BY <2>1
<1>6. CASE Fire(p)
  BY <1>6 DEF Fire
<1>7. CASE StoreEvidence(p)
  BY <1>7 DEF StoreEvidence, RecordEvidence
<1>8. CASE StoreVerdict(p)
  BY <1>8 DEF StoreVerdict, RecordVerdict
<1>9. CASE VerdictMark(p)
  BY <1>9 DEF VerdictMark, Mark, UpdateFindingState
<1>10. CASE EndDetonating(p) \/ EndSkipping(p)
  BY <1>10 DEF EndDetonating, EndSkipping, NextLoop
<1>11. CASE SkipOne(p)
  BY <1>11 DEF SkipOne, RecordVerdict, Take
<1>12. CASE SkipMark(p)
  BY <1>12 DEF SkipMark, Mark, UpdateFindingState
<1>13. QED
  BY <1>1, <1>2, <1>3, <1>4, <1>5, <1>6, <1>7, <1>8, <1>9, <1>10, <1>11, <1>12
  DEF DetonateStep

LEMMA EndAndReviewDrained ==
  ASSUME OneTerminal, OneScan, RowsInvariant, GateInvariant, DrainInvariant,
         NEW p \in Proc, EndStep(p) \/ ReviewStep(p)
  PROVE  DrainInvariant'
<1>0. TypeOK /\ ProcessOK(p) /\ InOrder(p) /\ Drained(p)
      /\ \A q \in Proc : q = p
  BY AloneDrained
<1> USE <1>0 DEF TypeOK, StoreTypeOK, Local, DrainInvariant, Drained,
                  Swept, InLoop, InOrder, RowAsRead, HandAsRead, InHand, Goto, Keep, storeVars,
                  findingRows, childRows
<1>1. CASE EndStep(p)
  BY <1>1 DEF EndStep, Complete, Fail, Finish, UpdateScanState, NoLocals
<1>2. CASE ReviewOne(p)
  <2>1. mem[p].mode \in Decision
    BY <1>2 DEF ReviewOne, ProcessOK, LocalsOK
  <2>2. PICK f \in mem[p].todo :
          /\ Goto(p, "review", "review_mark") /\ RecordApproval(f, mem[p].mode)
          /\ Take(p, f, mem[p].mode) /\ UNCHANGED fired
    BY <1>2 DEF ReviewOne
  <2>3. QED
    BY <2>1, <2>2 DEF RecordApproval, Take, Decision
<1>3. CASE ReviewMark(p)
  <2> DEFINE f == mem[p].cur
  <2>1. /\ pc[p] = "review_mark" /\ pc'[p] = "review" /\ mem'[p].todo = mem[p].todo
        /\ findingState' = [findingState EXCEPT ![f] = mem[p].write]
        /\ UNCHANGED scanState
    BY <1>3, MarkMoves DEF ReviewMark
  <2>2. mem[p].write \in Decision
    BY <2>1 DEF ProcessOK, LocalsOK
  <2>3. \A g \in Finding :
          findingState'[g] \in {"TRIAGED", "POC_GENERATED"} => findingState'[g] = findingState[g]
    BY <2>1, <2>2 DEF Decision
  <2>4. QED
    BY <2>1, <2>3
<1>4. CASE EndReview(p)
  BY <1>4 DEF EndReview, NoLocals
<1>5. QED
  BY <1>1, <1>2, <1>3, <1>4 DEF ReviewStep

LEMMA FaultDrained ==
  ASSUME OneTerminal, OneScan, RowsInvariant, GateInvariant, DrainInvariant,
         NEW p \in Proc, Fault(p)
  PROVE  DrainInvariant'
<1>0. TypeOK /\ ProcessOK(p) /\ InOrder(p) /\ Drained(p)
      /\ \A q \in Proc : q = p
  BY AloneDrained
<1> USE <1>0 DEF TypeOK, StoreTypeOK, Local, DrainInvariant, Drained,
                  Swept, InLoop, InOrder, RowAsRead, HandAsRead, InHand, Goto, Keep, storeVars,
                  findingRows, childRows
<1>1. CASE IngestFails(p) \/ ScoreFails(p) \/ SandboxFails(p)
  BY <1>1 DEF IngestFails, ScoreFails, SandboxFails, Raise
<1>2. CASE PocFails(p)
  BY <1>2 DEF PocFails, RecordVerdict, Take
<1>3. CASE NoOutcome(p)
  BY <1>3 DEF NoOutcome, RecordVerdict
<1>4. CASE Stop(p)
  BY <1>4 DEF Stop
<1>5. QED
  BY <1>1, <1>2, <1>3, <1>4 DEF Fault
LEMMA DrainInvariantNext ==
  ASSUME OneTerminal, OneScan, RowsInvariant, GateInvariant, DrainInvariant, [Next]_vars
  PROVE  DrainInvariant'
<1>1. CASE Next
  <2>1. PICK p \in Proc : Launch(p) \/ Advance(p) \/ Fault(p)
    BY <1>1 DEF Next
  <2>2. QED
    BY <2>1, LaunchDrained, IngestStepDrained, ScoreStepDrained, GateStepDrained,
       DetonateStepDrained, EndAndReviewDrained, FaultDrained
    DEF Advance
<1>2. CASE UNCHANGED vars
  BY <1>2 DEF vars, storeVars, findingRows, childRows, DrainInvariant, Drained, Swept, InLoop
<1>3. QED
  BY <1>1, <1>2

----------------------------------------------------------------------------
(* The theorems *)

\* Findings only move forward and nothing is done for one of them twice, and a run has in
\* its loop what it still owes, for one terminal and one scan, whatever is interrupted.
THEOREM SequentialAlways ==
  ASSUME OneTerminal, OneScan
  PROVE  Spec => []SequentialInvariant
<1>1. Init => ForwardInvariant
  BY DEF Init, StoreInit, NoLocals, ForwardInvariant, ProgressOK, Concluded, FreshRows, FirstRun
<1>2. Init => DrainInvariant
  BY DEF Init, StoreInit, NoLocals, DrainInvariant, Drained, Swept
<1>3. RowsInvariant /\ GateInvariant /\ ForwardInvariant /\ [Next]_vars => ForwardInvariant'
  BY ForwardInvariantNext
<1>4. RowsInvariant /\ GateInvariant /\ DrainInvariant /\ [Next]_vars => DrainInvariant'
  BY DrainInvariantNext
<1>5. GateInvariant /\ ForwardInvariant /\ DrainInvariant => SequentialInvariant
  BY DEF SequentialInvariant
<1>6. QED
  BY <1>1, <1>2, <1>3, <1>4, <1>5, RowsAlways, GateAlways, PTL DEF Spec

\* No finding is detonated twice.
THEOREM LaunchedOnce ==
  ASSUME OneTerminal, OneScan
  PROVE  Spec => []LaunchedAtMostOnce
<1>1. SequentialInvariant => LaunchedAtMostOnce
  BY DEF SequentialInvariant, ForwardInvariant, ProgressOK, LaunchedAtMostOnce
<1>2. QED
  BY <1>1, SequentialAlways, PTL

\* A refused finding has the verdict REFUSED, and its exploit never ran; one that has come to
\* VERDICTED does not have it, although a refusal before that may have been cut short.
THEOREM RefusedNeverRan ==
  ASSUME OneTerminal, OneScan
  PROVE  Spec => []RefusedWasNotLaunched
<1>1. RowsInvariant /\ SequentialInvariant => RefusedWasNotLaunched
  <2> SUFFICES ASSUME RowsInvariant, SequentialInvariant, NEW f \in Finding
               PROVE  /\ findingState[f] = "REFUSED" => verdicts[f] = "REFUSED" /\ fired[f] = 0
                      /\ findingState[f] = "VERDICTED" => verdicts[f] # "REFUSED"
    BY DEF RefusedWasNotLaunched
  <2>1. fired[f] \in 0 .. 2
    BY DEF RowsInvariant, TypeOK, FiredCap
  <2>2. QED
    BY <2>1 DEF SequentialInvariant, ForwardInvariant, ProgressOK
<1>2. QED
  BY <1>1, RowsAlways, SequentialAlways, PTL

\* A complete scan has no finding that waits to be scored or sits in a detonation.
THEOREM CompleteOwesNothing ==
  ASSUME OneTerminal, OneScan
  PROVE  Spec => []CompleteIsDrained
<1>1. RowsInvariant /\ SequentialInvariant => CompleteIsDrained
  BY DEF RowsInvariant, TypeOK, StoreTypeOK, Stored, SequentialInvariant, DrainInvariant,
         CompleteIsDrained
<1>2. QED
  BY <1>1, RowsAlways, SequentialAlways, PTL

=============================================================================
