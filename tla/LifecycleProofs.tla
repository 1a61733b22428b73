-------------------------- MODULE LifecycleProofs --------------------------
(***************************************************************************)
(* One terminal and one scan: the pipeline implements FindingLifecycle,    *)
(* and what is concluded stays.                                            *)
(***************************************************************************)
EXTENDS SequentialProofs

\* The findings whose exploit was launched, as the refinement mapping has it
Launched == {f \in Finding : fired[f] > 0}

\* A step of the pipeline is a step of the lifecycle, or not seen there
Mapped == Lifecycle!Next \/ UNCHANGED Lifecycle!lifecycleVars

----------------------------------------------------------------------------
(* How a step of the pipeline looks from the lifecycle *)

\* Scan states, scores, PoCs, evidence and verdicts are not seen.
LEMMA Unseen ==
  ASSUME UNCHANGED <<findingState, approvals, fired>>
  PROVE  Mapped
BY DEF Mapped, Lifecycle!lifecycleVars

LEMMA SeenAdvance ==
  ASSUME NEW f \in Finding, NEW from, NEW to, findingState[f] = from,
         UpdateFindingState(f, to), UNCHANGED fired
  PROVE  Lifecycle!Advance(f, from, to)
BY DEF UpdateFindingState, childRows, Lifecycle!Advance

LEMMA SeenTakeEffect ==
  ASSUME NEW f \in Finding, findingState[f] = "SCORED", approvals[f] \in Decision,
         UpdateFindingState(f, approvals[f]), UNCHANGED fired
  PROVE  Lifecycle!TakeEffect(f)
BY SeenAdvance DEF Decision, Lifecycle!TakeEffect

LEMMA SeenDecide ==
  ASSUME NEW f \in Finding, NEW d, findingState[f] = "SCORED",
         RecordApproval(f, d), UNCHANGED fired
  PROVE  Lifecycle!Decide(f, d)
BY DEF RecordApproval, findingRows, Lifecycle!Decide

LEMMA SeenLaunch ==
  ASSUME TypeOK, NEW f \in Finding, findingState[f] = "POC_GENERATED", approvals[f] = "APPROVED",
         fired[f] = 0, fired' = [fired EXCEPT ![f] = 1], UNCHANGED <<findingState, approvals>>
  PROVE  Lifecycle!Launch(f)
BY DEF TypeOK, Lifecycle!Launch

\* What a step may rely on
LEMMA Sequential ==
  ASSUME OneTerminal, OneScan, RowsInvariant, SequentialInvariant, NEW p \in Proc
  PROVE  /\ TypeOK /\ ProcessOK(p) /\ InOrder(p) /\ ApprovedOnRecord
         /\ ProgressOK /\ FreshRows(p) /\ FirstRun(p)
BY DEF RowsInvariant, SequentialInvariant, GateInvariant, ForwardInvariant

----------------------------------------------------------------------------
(* The steps of a command *)

LEMMA LaunchMapped ==
  ASSUME NEW p \in Proc, Launch(p)
  PROVE  Mapped
BY Unseen DEF Launch, StartFresh, Resume, StartReview, CreateScan, storeVars, findingRows, childRows

LEMMA IngestStepMapped ==
  ASSUME OneTerminal, OneScan, RowsInvariant, SequentialInvariant, NEW p \in Proc, IngestStep(p)
  PROVE  Mapped
<1>0. TypeOK /\ ProcessOK(p) /\ FreshRows(p)
  BY Sequential
<1>1. CASE BeginIngest(p) \/ EndIngest(p) \/ BeginTriage(p) \/ EndTriage(p)
  BY <1>1, Unseen
  DEF BeginIngest, EndIngest, BeginTriage, EndTriage, ScanStep, UpdateScanState, findingRows,
      childRows
<1>2. CASE Ingest(p)
  <2> DEFINE F == mem[p].todo
  <2>1. F \subseteq Finding /\ \A f \in Finding : f \notin Stored /\ findingState[f] = "NONE"
    BY <1>0, <1>2 DEF Ingest, Goto, FreshRows, RowsInvariant, TypeOK, Local, StoreOK, ForeignKeys
  <2>2. /\ findingState' = [f \in Finding |-> IF f \in F THEN "INGESTED" ELSE findingState[f]]
        /\ UNCHANGED <<approvals, fired>>
    BY <1>2, <2>1 DEF Ingest, RecordFindings, childRows
  <2>3. Lifecycle!Arrive(F)
    BY <2>1, <2>2 DEF Lifecycle!Arrive
  <2>4. QED
    BY <2>1, <2>3 DEF Mapped, Lifecycle!Next
<1>3. CASE TriageOne(p)
  BY <1>3, Unseen DEF TriageOne, SetTriage, childRows
<1>4. CASE TriageMark(p)
  <2>1. mem[p].cur \in Finding /\ findingState[mem[p].cur] = "INGESTED"
    BY <1>0, <1>4 DEF TriageMark, Mark, Goto, ProcessOK, HandKnown, InHand, Stored, FreshRows
  <2>2. Lifecycle!Advance(mem[p].cur, "INGESTED", "TRIAGED")
    BY <1>4, <2>1, SeenAdvance DEF TriageMark, Mark
  <2>3. QED
    BY <2>1, <2>2 DEF Mapped, Lifecycle!Next
<1>5. QED
  BY <1>1, <1>2, <1>3, <1>4 DEF IngestStep

LEMMA ScoreStepMapped ==
  ASSUME OneTerminal, OneScan, RowsInvariant, SequentialInvariant, NEW p \in Proc, ScoreStep(p)
  PROVE  Mapped
<1>0. TypeOK /\ ProcessOK(p) /\ InOrder(p)
  BY Sequential
<1>1. CASE BeginScoring(p) \/ ScoreRows(p) \/ EndScoring(p)
  BY <1>1, Unseen
  DEF BeginScoring, ScoreRows, EndScoring, ScanStep, UpdateScanState, NextLoop, storeVars,
      findingRows, childRows
<1>2. CASE ScoreOne(p) \/ SweepOne(p)
  BY <1>2, Unseen DEF ScoreOne, RecordScore, SweepOne, RecordVerdict, findingRows
<1>3. CASE ScoreMark(p)
  <2>1. mem[p].cur \in Finding /\ findingState[mem[p].cur] = "TRIAGED"
    BY <1>0, <1>3
    DEF ScoreMark, Mark, Goto, ProcessOK, HandKnown, InHand, Stored, InOrder, HandAsRead
  <2>2. Lifecycle!Advance(mem[p].cur, "TRIAGED", "SCORED")
    BY <1>3, <2>1, SeenAdvance DEF ScoreMark, Mark
  <2>3. QED
    BY <2>1, <2>2 DEF Mapped, Lifecycle!Next
<1>4. CASE ScoreStatic(p)
  <2>1. PICK f \in mem[p].todo :
          Goto(p, "score", "score") /\ UpdateFindingState(f, "SCORED") /\ UNCHANGED fired
    BY <1>4 DEF ScoreStatic
  <2>2. f \in Finding /\ findingState[f] = "TRIAGED"
    BY <1>0, <2>1 DEF TypeOK, Local, Goto, InOrder, RowAsRead
  <2>3. Lifecycle!Advance(f, "TRIAGED", "SCORED")
    BY <2>1, <2>2, SeenAdvance
  <2>4. QED
    BY <2>2, <2>3 DEF Mapped, Lifecycle!Next
<1>5. CASE SweepMark(p)
  <2>1. mem[p].cur \in Finding /\ findingState[mem[p].cur] = "POC_GENERATED"
    BY <1>0, <1>5
    DEF SweepMark, Mark, Goto, ProcessOK, HandKnown, InHand, Stored, InOrder, HandAsRead
  <2>2. Lifecycle!Advance(mem[p].cur, "POC_GENERATED", "VERDICTED")
    BY <1>5, <2>1, SeenAdvance DEF SweepMark, Mark
  <2>3. QED
    BY <2>1, <2>2 DEF Mapped, Lifecycle!Next
<1>6. QED
  BY <1>1, <1>2, <1>3, <1>4, <1>5 DEF ScoreStep

LEMMA GateStepMapped ==
  ASSUME OneTerminal, OneScan, RowsInvariant, SequentialInvariant, NEW p \in Proc, GateStep(p)
  PROVE  Mapped
<1>0. TypeOK /\ ProcessOK(p) /\ InOrder(p)
  BY Sequential
<1>1. CASE ModeConflict(p) \/ SkipGate(p) \/ OpenGate(p) \/ DecideSkip(p) \/ CloseGate(p)
  BY <1>1, Unseen
  DEF ModeConflict, SkipGate, OpenGate, DecideSkip, CloseGate, Raise, NextLoop, storeVars,
      findingRows, childRows
<1>2. CASE DecideOne(p)
  <2>1. PICK f \in mem[p].todo, d \in Decision :
          Goto(p, "decide", "decide_mark") /\ RecordApproval(f, d) /\ UNCHANGED fired
    BY <1>2 DEF DecideOne
  <2>2. f \in Finding /\ findingState[f] = "SCORED"
    BY <1>0, <2>1 DEF TypeOK, Local, Goto, InOrder, RowAsRead
  <2>3. Lifecycle!Decide(f, d)
    BY <2>1, <2>2, SeenDecide
  <2>4. QED
    BY <2>2, <2>3 DEF Mapped, Lifecycle!Next, Decision
<1>3. CASE DecideMark(p)
  <2>1. /\ mem[p].cur \in Finding /\ findingState[mem[p].cur] = "SCORED"
        /\ mem[p].write \in Decision /\ approvals[mem[p].cur] = mem[p].write
    BY <1>0, <1>3
    DEF DecideMark, Mark, Goto, ProcessOK, LocalsOK, HandKnown, InHand, Stored, InOrder,
        HandAsRead
  <2>2. Lifecycle!TakeEffect(mem[p].cur)
    BY <1>3, <2>1, SeenTakeEffect DEF DecideMark, Mark
  <2>3. QED
    BY <2>1, <2>2 DEF Mapped, Lifecycle!Next
<1>4. QED
  BY <1>1, <1>2, <1>3 DEF GateStep

\* An exploit runs once, with APPROVED on record.
LEMMA RunMapped ==
  ASSUME OneTerminal, OneScan, RowsInvariant, SequentialInvariant, NEW p \in Proc,
         pc[p] = "fire", UNCHANGED <<findingState, approvals>>,
         fired' = [fired EXCEPT ![mem[p].cur] = IF @ < FiredCap THEN @ + 1 ELSE @]
  PROVE  Mapped
<1>0. TypeOK /\ ProcessOK(p) /\ InOrder(p) /\ ApprovedOnRecord /\ FirstRun(p)
  BY Sequential
<1>1. PICK f \in Finding : f = mem[p].cur
  BY <1>0 DEF ProcessOK, HandKnown, InHand, Stored
<1>2. fired[f] = 0 /\ findingState[f] = "POC_GENERATED" /\ approvals[f] = "APPROVED"
  BY <1>0, <1>1 DEF InHand, InOrder, HandAsRead, ApprovedOnRecord, FirstRun
<1>3. fired' = [fired EXCEPT ![f] = 1]
  BY <1>1, <1>2 DEF FiredCap
<1>4. Lifecycle!Launch(f)
  BY <1>0, <1>2, <1>3, SeenLaunch
<1>5. QED
  BY <1>4 DEF Mapped, Lifecycle!Next

LEMMA DetonateStepMapped ==
  ASSUME OneTerminal, OneScan, RowsInvariant, SequentialInvariant, NEW p \in Proc,
         DetonateStep(p)
  PROVE  Mapped
<1>0. TypeOK /\ ProcessOK(p) /\ InOrder(p) /\ FirstRun(p)
  BY Sequential
<1>1. CASE \/ ApprovedRows(p) \/ SandboxUp(p) \/ EndDetonating(p) \/ EndSkipping(p)
           \/ BeginDetonating(p) \/ BeginSkipping(p)
  BY <1>1, Unseen
  DEF ApprovedRows, SandboxUp, EndDetonating, EndSkipping, BeginDetonating, BeginSkipping,
      NextLoop, ScanStep, UpdateScanState, storeVars, findingRows, childRows
<1>2. CASE GeneratePoc(p) \/ StoreEvidence(p) \/ StoreVerdict(p) \/ SkipOne(p)
  BY <1>2, Unseen
  DEF GeneratePoc, RecordPoc, StoreEvidence, RecordEvidence, StoreVerdict, SkipOne,
      RecordVerdict, findingRows
<1>3. CASE PocMark(p)
  <2>1. mem[p].cur \in Finding /\ findingState[mem[p].cur] = "APPROVED"
    BY <1>0, <1>3 DEF PocMark, Goto, ProcessOK, HandKnown, InHand, Stored, InOrder, HandAsRead
  <2>2. Lifecycle!Advance(mem[p].cur, "APPROVED", "POC_GENERATED")
    BY <1>3, <2>1, SeenAdvance DEF PocMark
  <2>3. QED
    BY <2>1, <2>2 DEF Mapped, Lifecycle!Next
<1>4. CASE Fire(p)
  BY <1>4, RunMapped DEF Fire, Goto, storeVars, findingRows, childRows
<1>5. CASE VerdictMark(p)
  <2> DEFINE f == mem[p].cur
  <2>1. f \in Finding /\ findingState[f] \in {"APPROVED", "POC_GENERATED"}
    BY <1>0, <1>5
    DEF VerdictMark, Mark, Goto, ProcessOK, HandKnown, InHand, Stored, InOrder, HandAsRead
  <2>2. CASE mem[p].write = "REFUSED"
    <3>1. findingState[f] = "APPROVED"
      BY <1>0, <1>5, <2>2 DEF VerdictMark, Mark, Goto, FirstRun
    <3>2. Lifecycle!Advance(f, "APPROVED", "REFUSED")
      BY <1>5, <2>1, <2>2, <3>1, SeenAdvance DEF VerdictMark, Mark
    <3>3. QED
      BY <2>1, <3>2 DEF Mapped, Lifecycle!Next
  <2>3. CASE mem[p].write # "REFUSED"
    <3>1. Lifecycle!Advance(f, findingState[f], "VERDICTED")
      BY <1>5, <2>1, <2>3, SeenAdvance DEF VerdictMark, Mark
    <3>2. QED
      BY <2>1, <3>1 DEF Mapped, Lifecycle!Next
  <2>4. QED
    BY <2>2, <2>3
<1>6. CASE SkipMark(p)
  <2>1. mem[p].cur \in Finding /\ findingState[mem[p].cur] = "APPROVED"
    BY <1>0, <1>6
    DEF SkipMark, Mark, Goto, ProcessOK, HandKnown, InHand, Stored, InOrder, HandAsRead
  <2>2. Lifecycle!Advance(mem[p].cur, "APPROVED", "VERDICTED")
    BY <1>6, <2>1, SeenAdvance DEF SkipMark, Mark
  <2>3. QED
    BY <2>1, <2>2 DEF Mapped, Lifecycle!Next
<1>7. QED
  BY <1>1, <1>2, <1>3, <1>4, <1>5, <1>6 DEF DetonateStep

LEMMA EndStepMapped ==
  ASSUME NEW p \in Proc, EndStep(p)
  PROVE  Mapped
BY Unseen DEF EndStep, Complete, Fail, Finish, UpdateScanState, findingRows, childRows

LEMMA ReviewStepMapped ==
  ASSUME OneTerminal, OneScan, RowsInvariant, SequentialInvariant, NEW p \in Proc, ReviewStep(p)
  PROVE  Mapped
<1>0. TypeOK /\ ProcessOK(p) /\ InOrder(p)
  BY Sequential
<1>1. CASE ReviewOne(p)
  <2>1. PICK f \in mem[p].todo : /\ Goto(p, "review", "review_mark")
                                /\ RecordApproval(f, mem[p].mode)
                                /\ UNCHANGED fired
    BY <1>1 DEF ReviewOne
  <2>2. f \in Finding /\ findingState[f] = "SCORED" /\ mem[p].mode \in Decision
    BY <1>0, <2>1 DEF TypeOK, Local, Goto, ProcessOK, LocalsOK, InOrder, RowAsRead
  <2>3. Lifecycle!Decide(f, mem[p].mode)
    BY <2>1, <2>2, SeenDecide
  <2>4. QED
    BY <2>2, <2>3 DEF Mapped, Lifecycle!Next, Decision
<1>2. CASE ReviewMark(p)
  <2>1. /\ mem[p].cur \in Finding /\ findingState[mem[p].cur] = "SCORED"
        /\ mem[p].write \in Decision /\ approvals[mem[p].cur] = mem[p].write
    BY <1>0, <1>2
    DEF ReviewMark, Mark, Goto, ProcessOK, LocalsOK, HandKnown, InHand, Stored, InOrder,
        HandAsRead
  <2>2. Lifecycle!TakeEffect(mem[p].cur)
    BY <1>2, <2>1, SeenTakeEffect DEF ReviewMark, Mark
  <2>3. QED
    BY <2>1, <2>2 DEF Mapped, Lifecycle!Next
<1>3. CASE EndReview(p)
  BY <1>3, Unseen DEF EndReview, storeVars, findingRows, childRows
<1>4. QED
  BY <1>1, <1>2, <1>3 DEF ReviewStep

\* The exploit ran, or it did not
LEMMA FiredOrNot ==
  ASSUME fired \in [Finding -> 0..FiredCap], NEW f, Fired(f)
  PROVE  \/ fired' = fired
         \/ fired' = [fired EXCEPT ![f] = IF @ < FiredCap THEN @ + 1 ELSE @]
<1>1. PICK ran \in {0, 1} : fired' = [fired EXCEPT ![f] = IF @ < FiredCap THEN @ + ran ELSE @]
  BY DEF Fired
<1>2. CASE ran = 0
  BY <1>1, <1>2 DEF FiredCap
<1>3. CASE ran = 1
  BY <1>1, <1>3
<1>4. QED
  BY <1>2, <1>3

LEMMA FaultMapped ==
  ASSUME OneTerminal, OneScan, RowsInvariant, SequentialInvariant, NEW p \in Proc, Fault(p)
  PROVE  Mapped
<1>1. CASE IngestFails(p) \/ ScoreFails(p) \/ SandboxFails(p) \/ Stop(p)
  BY <1>1, Unseen
  DEF IngestFails, ScoreFails, SandboxFails, Raise, Stop, storeVars, findingRows, childRows
<1>2. CASE PocFails(p)
  BY <1>2, Unseen DEF PocFails, RecordVerdict, findingRows
<1>3. CASE NoOutcome(p)
  <2>1. /\ Goto(p, "fire", "verdict_mark") /\ RecordVerdict(mem[p].cur, "INCONCLUSIVE")
        /\ Fired(mem[p].cur)
    BY <1>3 DEF NoOutcome, Fired
  <2>2. UNCHANGED <<findingState, approvals>>
    BY <2>1 DEF RecordVerdict, findingRows
  <2>3. \/ fired' = fired
        \/ fired' = [fired EXCEPT ![mem[p].cur] = IF @ < FiredCap THEN @ + 1 ELSE @]
    <3>1. fired \in [Finding -> 0..FiredCap]
      BY DEF RowsInvariant, TypeOK
    <3>2. QED
      BY <2>1, <3>1, FiredOrNot
  <2>4. QED
    BY <2>1, <2>2, <2>3, Unseen, RunMapped DEF Goto
<1>4. QED
  BY <1>1, <1>2, <1>3 DEF Fault

----------------------------------------------------------------------------
(* Verdicts *)

\* A verdict is only written for a finding that is on its way through the sandbox, and
\* what an exploit has shown is only replaced by INCONCLUSIVE
VerdictInTime ==
  \/ UNCHANGED verdicts
  \/ \E f \in Finding, v \in Verdict :
       /\ verdicts' = [verdicts EXCEPT ![f] = v]
       /\ findingState[f] \in {"APPROVED", "POC_GENERATED"}
       /\ v = "INCONCLUSIVE" \/ verdicts[f] \notin Concluded

LEMMA InTime ==
  ASSUME OneTerminal, OneScan, RowsInvariant, SequentialInvariant, NEW f \in Finding,
         NEW v \in Verdict, RecordVerdict(f, v),
         findingState[f] \in {"APPROVED", "POC_GENERATED"},
         v = "INCONCLUSIVE" \/ verdicts[f] \notin Concluded
  PROVE  VerdictInTime
BY DEF RecordVerdict, VerdictInTime

LEMMA VerdictsInTime ==
  ASSUME OneTerminal, OneScan, RowsInvariant, SequentialInvariant, [Next]_vars
  PROVE  VerdictInTime
<1> USE DEF Verdict
<1>1. ASSUME NEW p \in Proc, SweepOne(p) \/ SkipOne(p) \/ PocFails(p)
      PROVE  VerdictInTime
  <2>1. PICK f \in mem[p].todo, v \in {"INCONCLUSIVE", "REFUSED"} :
          /\ Goto(p, "sweep", "sweep_mark") \/ Goto(p, "skip", "skip_mark")
               \/ Goto(p, "detonate", "verdict_mark")
          /\ RecordVerdict(f, v)
          /\ v = "INCONCLUSIVE" \/ pc[p] = "detonate"
    BY <1>1 DEF SweepOne, SkipOne, PocFails, Goto
  <2>2. /\ f \in Finding /\ findingState[f] \in {"APPROVED", "POC_GENERATED"}
        /\ pc[p] = "detonate" => findingState[f] = "APPROVED"
    BY <2>1, Sequential DEF TypeOK, Local, Goto, InOrder, RowAsRead
  <2>3. findingState[f] = "APPROVED" => verdicts[f] \notin Concluded
    BY <2>2, Sequential DEF ProgressOK
  <2>4. QED
    BY <2>1, <2>2, <2>3, InTime
<1>2. ASSUME NEW p \in Proc, NoOutcome(p) \/ StoreVerdict(p)
      PROVE  VerdictInTime
  <2>0. TypeOK /\ ProcessOK(p) /\ InOrder(p) /\ FirstRun(p)
    BY Sequential
  <2>1. PICK f \in Finding : f = mem[p].cur
    BY <1>2, <2>0 DEF NoOutcome, StoreVerdict, Goto, ProcessOK, HandKnown, InHand, Stored
  <2>2. PICK v \in Verdict : RecordVerdict(f, v)
    BY <1>2, <2>0, <2>1 DEF NoOutcome, StoreVerdict, Goto, ProcessOK, LocalsOK
  <2>3. findingState[f] = "POC_GENERATED" /\ verdicts[f] \notin Concluded
    BY <1>2, <2>0, <2>1
    DEF NoOutcome, StoreVerdict, Goto, InHand, InOrder, HandAsRead, FirstRun
  <2>4. QED
    BY <2>2, <2>3, InTime
<1>3. ASSUME NEW p \in Proc, Launch(p) \/ IngestStep(p)
      PROVE  UNCHANGED verdicts
  BY <1>3
  DEF Launch, StartFresh, Resume, StartReview, CreateScan, IngestStep, BeginIngest, Ingest,
      EndIngest, BeginTriage, TriageOne, TriageMark, EndTriage, ScanStep, UpdateScanState,
      RecordFindings, SetTriage, Mark, UpdateFindingState, storeVars, childRows
<1>4. ASSUME NEW p \in Proc, ScoreStep(p), ~SweepOne(p)
      PROVE  UNCHANGED verdicts
  BY <1>4
  DEF ScoreStep, BeginScoring, ScoreRows, ScoreOne, ScoreMark, ScoreStatic, EndScoring,
      SweepMark, ScanStep, UpdateScanState, NextLoop, RecordScore, Mark, UpdateFindingState,
      storeVars, childRows
<1>5. ASSUME NEW p \in Proc, GateStep(p) \/ ReviewStep(p) \/ EndStep(p)
      PROVE  UNCHANGED verdicts
  BY <1>5
  DEF GateStep, ModeConflict, SkipGate, OpenGate, DecideOne, DecideMark, DecideSkip,
      CloseGate, ReviewStep, ReviewOne, ReviewMark, EndReview, EndStep, Complete, Fail,
      Finish, Raise, NextLoop, RecordApproval, Mark, UpdateFindingState, UpdateScanState,
      storeVars, childRows
<1>6. ASSUME NEW p \in Proc, DetonateStep(p), ~SkipOne(p), ~StoreVerdict(p)
      PROVE  UNCHANGED verdicts
  BY <1>6
  DEF DetonateStep, ApprovedRows, BeginDetonating, SandboxUp, GeneratePoc, PocMark, Fire,
      StoreEvidence, VerdictMark, EndDetonating, BeginSkipping, SkipMark, EndSkipping,
      ScanStep, UpdateScanState, NextLoop, RecordPoc, RecordEvidence, Mark,
      UpdateFindingState, storeVars, childRows
<1>7. ASSUME NEW p \in Proc, Fault(p), ~PocFails(p), ~NoOutcome(p)
      PROVE  UNCHANGED verdicts
  BY <1>7 DEF Fault, IngestFails, ScoreFails, SandboxFails, Raise, Stop, storeVars, childRows
<1>8. CASE Next
  BY <1>1, <1>2, <1>3, <1>4, <1>5, <1>6, <1>7, <1>8 DEF Next, Advance, VerdictInTime
<1>9. CASE UNCHANGED vars
  BY <1>9 DEF vars, storeVars, childRows, VerdictInTime
<1>10. QED
  BY <1>8, <1>9

----------------------------------------------------------------------------
(* The theorems *)

LEMMA NextMapped ==
  ASSUME OneTerminal, OneScan, RowsInvariant, SequentialInvariant, [Next]_vars
  PROVE  Mapped
<1>1. CASE Next
  <2>1. PICK p \in Proc : Launch(p) \/ Advance(p) \/ Fault(p)
    BY <1>1 DEF Next
  <2>2. QED
    BY <2>1, LaunchMapped, IngestStepMapped, ScoreStepMapped, GateStepMapped,
       DetonateStepMapped, EndStepMapped, ReviewStepMapped, FaultMapped
    DEF Advance
<1>2. CASE UNCHANGED vars
  BY <1>2, Unseen DEF vars, storeVars, findingRows, childRows
<1>3. QED
  BY <1>1, <1>2

\* Runs, resumes, reviews and crashes of one terminal on one scan never make more of a
\* finding than FindingLifecycle promises.
THEOREM PipelineImplementsLifecycle ==
  ASSUME OneTerminal, OneScan
  PROVE  Spec => ImplementsLifecycle
<1>1. Init => Lifecycle!Init
  BY DEF Init, StoreInit, Lifecycle!Init
<1>2. RowsInvariant /\ SequentialInvariant /\ [Next]_vars
        => [Lifecycle!Next]_(Lifecycle!lifecycleVars)
  BY NextMapped DEF Mapped
<1>3. QED
  BY <1>1, <1>2, RowsAlways, SequentialAlways, PTL
  DEF Spec, ImplementsLifecycle, Lifecycle!Spec

\* A rejected, verdicted or refused finding keeps its state and its verdict.
THEOREM TerminalFindingsStay ==
  ASSUME OneTerminal, OneScan
  PROVE  Spec => TerminalStays
<1>1. ASSUME RowsInvariant, SequentialInvariant, [Next]_vars, NEW f \in Finding,
             findingState[f] \in {"REJECTED", "VERDICTED", "REFUSED"}
      PROVE  findingState'[f] = findingState[f] /\ verdicts'[f] = verdicts[f]
  <2>0. /\ findingState \in [Finding -> FindingState \union {"NONE"}]
        /\ verdicts \in [Finding -> Verdict \union {"NONE"}]
    BY <1>1 DEF RowsInvariant, TypeOK, StoreTypeOK
  <2>1. Mapped
    BY <1>1, NextMapped
  <2>2. findingState'[f] = findingState[f]
    BY <1>1, <2>0, <2>1
    DEF Mapped, Lifecycle!Next, Lifecycle!lifecycleVars, Lifecycle!Arrive, Lifecycle!Advance,
        Lifecycle!Decide, Lifecycle!TakeEffect, Lifecycle!Launch
  <2>3. verdicts'[f] = verdicts[f]
    BY <1>1, <2>0, VerdictsInTime DEF VerdictInTime
  <2>4. QED
    BY <2>2, <2>3
<1>2. RowsInvariant /\ SequentialInvariant /\ [Next]_vars =>
        [\A f \in Finding :
           findingState[f] \in {"REJECTED", "VERDICTED", "REFUSED"}
             => findingState'[f] = findingState[f] /\ verdicts'[f] = verdicts[f]]_vars
  BY <1>1
<1>3. QED
  BY <1>2, RowsAlways, SequentialAlways, PTL DEF Spec, TerminalStays

\* What an exploit has shown is not turned into its opposite, nor into a refusal.
THEOREM VerdictsAreNotReversed ==
  ASSUME OneTerminal, OneScan
  PROVE  Spec => VerdictIsNotReversed
<1>1. RowsInvariant /\ SequentialInvariant /\ [Next]_vars =>
        [\A f \in Finding :
           verdicts[f] \in {"TRUE_POSITIVE", "FALSE_POSITIVE"}
             => verdicts'[f] \in {verdicts[f], "INCONCLUSIVE"}]_vars
  BY VerdictsInTime DEF VerdictInTime, Concluded, RowsInvariant, TypeOK, StoreTypeOK
<1>2. QED
  BY <1>1, RowsAlways, SequentialAlways, PTL DEF Spec, VerdictIsNotReversed

=============================================================================
