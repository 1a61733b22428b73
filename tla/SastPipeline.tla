--------------------------- MODULE SastPipeline ---------------------------
(***************************************************************************)
(* The SAST pipeline: `shieldclaw run --semgrep-output` (fresh or with     *)
(* --resume) and `shieldclaw approve`, working on one ScanStore.           *)
(*                                                                         *)
(* A process of Proc is an operator's terminal: it runs one command after  *)
(* the other, and any of them may be cut short at any point.  One element  *)
(* of Proc gives the sequential use of the tool, several the concurrent    *)
(* one.  Each step of a command makes at most one store call; what the     *)
(* code computes between two store calls is part of the second.  The LLM,  *)
(* the reviewer and Docker answer as they like.                            *)
(***************************************************************************)
EXTENDS ScanStore, Naturals

CONSTANTS
  Proc,           \* terminals
  NoFinding,      \* "no finding in hand"
  Mode,           \* the modes in which `run` is started
  Triage          \* classify(): the triage verdict of each finding

\* "conflict" is --interactive together with SHIELDCLAW_AUTO_APPROVE=1
RunMode == {"async", "interactive", "auto", "conflict"}

ASSUME PipelineAssumption ==
  /\ NoFinding \notin Finding
  /\ Mode \subseteq RunMode
  /\ Triage \in [Finding -> TriageVerdict]

VARIABLES
  pc,             \* where each process is
  mem,            \* the local variables of each process
  fired           \* observer: how often the exploit for a finding was launched

vars == <<storeVars, pc, mem, fired>>

Label == {"idle", "created", "ingesting", "ingested", "triaging", "triage",
          "triage_mark", "scoring", "score_rows", "score", "score_mark",
          "sweep", "sweep_mark", "decide", "decide_mark", "approved",
          "detonating", "sandbox", "detonate", "poc_mark", "fire", "observe",
          "verdict_mark", "skip", "skip_mark", "complete", "failed",
          "review", "review_mark"}

Local == [scan   : Scan \union {NoScan},         \* scan_id
          mode   : RunMode \union Decision \union {"none"},
          todo   : SUBSET Finding,               \* rows of the loop still to do
          cur    : Finding \union {NoFinding},   \* the row in hand
          write  : Decision \union Verdict \union {"none"},  \* written for it
          seen   : SUBSET Evidence]              \* outcome.evidence not yet stored

NoLocals == [scan |-> NoScan, mode |-> "none", todo |-> {}, cur |-> NoFinding,
             write |-> "none", seen |-> {}]

FiredCap == 2     \* fired counts no further: twice is already once too often

TypeOK ==
  /\ StoreTypeOK
  /\ pc    \in [Proc -> Label]
  /\ mem   \in [Proc -> Local]
  /\ fired \in [Finding -> 0..FiredCap]

Init ==
  /\ StoreInit
  /\ pc    = [p \in Proc |-> "idle"]
  /\ mem   = [p \in Proc |-> NoLocals]
  /\ fired = [f \in Finding |-> 0]

----------------------------------------------------------------------------
(* Helpers *)

Goto(p, from, to) == pc[p] = from /\ pc' = [pc EXCEPT ![p] = to]

Keep(p, m) == mem' = [mem EXCEPT ![p] = m]

Verifiable(f) == triage[f] = "DYNAMICALLY_VERIFIABLE"

\* Leave a loop at `from` with nothing left to do, for a loop at `to` over rows
NextLoop(p, from, to, rows) ==
  /\ Goto(p, from, to)
  /\ mem[p].todo = {}
  /\ Keep(p, [mem[p] EXCEPT !.todo = rows])
  /\ UNCHANGED <<storeVars, fired>>

\* Write the scan's state and go on
ScanStep(p, from, to, st) ==
  /\ Goto(p, from, to)
  /\ UpdateScanState(mem[p].scan, st)
  /\ UNCHANGED <<mem, fired>>

\* Row f leaves the loop and is in hand, about to be marked after v is written
Take(p, f, v) ==
  Keep(p, [mem[p] EXCEPT !.todo = @ \ {f}, !.cur = f, !.write = v])

\* Row f leaves the loop at once
Drop(p, f) == Keep(p, [mem[p] EXCEPT !.todo = @ \ {f}])

\* Mark the row in hand with a state, and drop it
Mark(p, from, to, st) ==
  /\ Goto(p, from, to)
  /\ UpdateFindingState(mem[p].cur, st)
  /\ Keep(p, [mem[p] EXCEPT !.cur = NoFinding, !.write = "none"])
  /\ UNCHANGED fired

\* ShieldClawError leaves the try block: only the scan id is still needed
Raise(p, from) ==
  /\ Goto(p, from, "failed")
  /\ Keep(p, [NoLocals EXCEPT !.scan = mem[p].scan])
  /\ UNCHANGED <<storeVars, fired>>

\* synthesize(): a non-zero exit code (124 is the timeout) decides alone; exit code
\* 0, or no exit code, needs a Tier-2 effect
Synthesize(E) ==
  IF "failed_exit" \in E THEN "FALSE_POSITIVE"
  ELSE IF "effect" \in E THEN "TRUE_POSITIVE" ELSE "INCONCLUSIVE"

----------------------------------------------------------------------------
(* Variants of some of the actions below with a plausible bug: no action   *)
(* uses them, they show that the properties can tell.                      *)

\* the sweep hands the finding back to the detonation loop
SweepMarkRetries(p) == Mark(p, "sweep_mark", "sweep", "APPROVED")

\* the sweep sends the finding back without a verdict of its own
SweepOneReopens(p) ==
  \E f \in mem[p].todo :
    /\ Goto(p, "sweep", "sweep")
    /\ UpdateFindingState(f, "APPROVED")
    /\ Drop(p, f)
    /\ UNCHANGED fired

\* no sweep of interrupted detonations
EndScoringNoSweep(p) == NextLoop(p, "score", "sweep", {})

\* the PoC is executed without being stored
GeneratePocUnstored(p) ==
  \E f \in mem[p].todo :
    /\ Goto(p, "detonate", "poc_mark")
    /\ Take(p, f, "none")
    /\ UNCHANGED <<storeVars, fired>>

\* the state is only written with the verdict
PocMarkLate(p) ==
  /\ Goto(p, "poc_mark", "fire")
  /\ UNCHANGED <<storeVars, mem, fired>>

\* the verdict is stored before its evidence
StoreVerdictEarly(p) ==
  /\ Goto(p, "observe", "verdict_mark")
  /\ RecordVerdict(mem[p].cur, mem[p].write)
  /\ UNCHANGED <<mem, fired>>

\* a PoC that could not be generated is marked as refused
VerdictMarkRefused(p) ==
  Mark(p, "verdict_mark", "detonate",
       IF mem[p].write = "TRUE_POSITIVE" THEN "VERDICTED" ELSE "REFUSED")

\* a report that does not parse is taken for one whose findings are stored already
IngestFailsQuietly(p) ==
  /\ Goto(p, "ingesting", "ingested")
  /\ UNCHANGED <<storeVars, mem, fired>>

\* a rejected finding is offered for review again
StartReviewAgain(p) ==
  \E s \in Scan, d \in Decision :
    LET pending == Pending(s, "SCORED") \union Pending(s, "REJECTED") IN
    \E rows \in {pending} \union {{f} : f \in pending} :
      /\ ScanExists(s)
      /\ rows # {}
      /\ Goto(p, "idle", "review")
      /\ Keep(p, [NoLocals EXCEPT !.scan = s, !.mode = d, !.todo = rows])
      /\ UNCHANGED <<storeVars, fired>>

\* --reject is recorded and not applied
ReviewMarkApproves(p) == Mark(p, "review_mark", "review", "APPROVED")

\* a failed scan cannot be resumed
ResumeUnfailed(p) ==
  \E s \in Scan, m \in Mode :
    /\ Goto(p, "idle", "scoring")
    /\ ScanExists(s) /\ scanState[s] # "FAILED"
    /\ Keep(p, [NoLocals EXCEPT !.scan = s, !.mode = m])
    /\ UNCHANGED <<storeVars, fired>>

\* findings that scoring has not reached are offered for approval
OpenGateEarly(p) ==
  /\ mem[p].mode \in {"interactive", "auto"}
  /\ NextLoop(p, "sweep", "decide",
              {f \in Pending(mem[p].scan, "TRIAGED") : Verifiable(f)})

\* a state the models do not have
TriageMarkUnknown(p) == Mark(p, "triage_mark", "triage", "AWAITING_APPROVAL")

----------------------------------------------------------------------------
(* `shieldclaw run`: fresh scan, ingest and triage *)

\* provider, store and create_scan; F are the findings of the Semgrep report
StartFresh(p) ==
  \E s \in Scan, m \in Mode, F \in SUBSET Finding :
    /\ Goto(p, "idle", "created")
    /\ CreateScan(s)
    /\ Keep(p, [NoLocals EXCEPT !.scan = s, !.mode = m, !.todo = F])
    /\ UNCHANGED fired

\* load_scan finds the scan, in whatever state it is: no ingest and no triage
Resume(p) ==
  \E s \in Scan, m \in Mode :
    /\ Goto(p, "idle", "scoring")
    /\ ScanExists(s)
    /\ Keep(p, [NoLocals EXCEPT !.scan = s, !.mode = m])
    /\ UNCHANGED <<storeVars, fired>>

BeginIngest(p) == ScanStep(p, "created", "ingesting", "INGESTING")

Ingest(p) ==
  /\ Goto(p, "ingesting", "ingested")
  /\ RecordFindings(mem[p].scan, mem[p].todo)
  /\ UNCHANGED <<mem, fired>>

IngestFails(p) == Raise(p, "ingesting")

EndIngest(p) == ScanStep(p, "ingested", "triaging", "INGESTED")

BeginTriage(p) == ScanStep(p, "triaging", "triage", "TRIAGING")

\* the loop is over the findings of the report, whichever scan stored them
TriageOne(p) ==
  \E f \in mem[p].todo :
    /\ Goto(p, "triage", "triage_mark")
    /\ SetTriage(f, Triage[f])
    /\ Take(p, f, "none")
    /\ UNCHANGED fired

TriageMark(p) == Mark(p, "triage_mark", "triage", "TRIAGED")

EndTriage(p) ==
  /\ mem[p].todo = {}
  /\ ScanStep(p, "triage", "scoring", "TRIAGED")

----------------------------------------------------------------------------
(* `shieldclaw run`: scoring, and the sweep of interrupted detonations *)

BeginScoring(p) == ScanStep(p, "scoring", "score_rows", "SCORING")

ScoreRows(p) == NextLoop(p, "score_rows", "score", Pending(mem[p].scan, "TRIAGED"))

ScoreOne(p) ==
  \E f \in mem[p].todo :
    /\ Verifiable(f)
    /\ Goto(p, "score", "score_mark")
    /\ RecordScore(f)
    /\ Take(p, f, "none")
    /\ UNCHANGED fired

\* scorer.score raises: no answer, an unreadable one, or a refusal
ScoreFails(p) ==
  /\ \E f \in mem[p].todo : Verifiable(f)
  /\ Raise(p, "score")

ScoreMark(p) == Mark(p, "score_mark", "score", "SCORED")

ScoreStatic(p) ==
  \E f \in mem[p].todo :
    /\ ~Verifiable(f)
    /\ Goto(p, "score", "score")
    /\ UpdateFindingState(f, "SCORED")
    /\ Drop(p, f)
    /\ UNCHANGED fired

EndScoring(p) == NextLoop(p, "score", "sweep", Pending(mem[p].scan, "POC_GENERATED"))

SweepOne(p) ==
  \E f \in mem[p].todo :
    /\ Goto(p, "sweep", "sweep_mark")
    /\ RecordVerdict(f, "INCONCLUSIVE")
    /\ Take(p, f, "INCONCLUSIVE")
    /\ UNCHANGED fired

SweepMark(p) == Mark(p, "sweep_mark", "sweep", "VERDICTED")

----------------------------------------------------------------------------
(* `shieldclaw run`: the approval gate *)

ModeConflict(p) ==
  /\ mem[p].mode = "conflict" /\ mem[p].todo = {}
  /\ Raise(p, "sweep")

SkipGate(p) ==
  /\ mem[p].mode = "async"
  /\ NextLoop(p, "sweep", "approved", {})

OpenGate(p) ==
  /\ mem[p].mode \in {"interactive", "auto"}
  /\ NextLoop(p, "sweep", "decide",
              {f \in Pending(mem[p].scan, "SCORED") : Verifiable(f)})

\* the reviewer answers y or n, or SHIELDCLAW_AUTO_APPROVE=1 answers for them
DecideOne(p) ==
  \E f \in mem[p].todo, d \in Decision :
    /\ mem[p].mode = "auto" => d = "APPROVED"
    /\ Goto(p, "decide", "decide_mark")
    /\ RecordApproval(f, d)
    /\ Take(p, f, d)
    /\ UNCHANGED fired

DecideMark(p) == Mark(p, "decide_mark", "decide", mem[p].write)

\* the reviewer answers s
DecideSkip(p) ==
  \E f \in mem[p].todo :
    /\ mem[p].mode = "interactive"
    /\ Goto(p, "decide", "decide")
    /\ Drop(p, f)
    /\ UNCHANGED <<storeVars, fired>>

CloseGate(p) == NextLoop(p, "decide", "approved", {})

----------------------------------------------------------------------------
(* `shieldclaw run`: PoC, detonation and verdict *)

\* the mode is not read any more
ApprovedRows(p) ==
  LET rows == Pending(mem[p].scan, "APPROVED") IN
  /\ Goto(p, "approved", IF rows = {} THEN "complete" ELSE "detonating")
  /\ Keep(p, [mem[p] EXCEPT !.todo = rows, !.mode = "none"])
  /\ UNCHANGED <<storeVars, fired>>

\* with a compose file, and without one
BeginDetonating(p) == ScanStep(p, "detonating", "sandbox", "DETONATING")
BeginSkipping(p)   == ScanStep(p, "detonating", "skip", "DETONATING")

SkipOne(p) ==
  \E f \in mem[p].todo :
    /\ Goto(p, "skip", "skip_mark")
    /\ RecordVerdict(f, "INCONCLUSIVE")
    /\ Take(p, f, "INCONCLUSIVE")
    /\ UNCHANGED fired

SkipMark(p) == Mark(p, "skip_mark", "skip", "VERDICTED")

EndSkipping(p) == NextLoop(p, "skip", "complete", {})

\* start_sandbox and get_target_container_id
SandboxUp(p) ==
  /\ Goto(p, "sandbox", "detonate")
  /\ UNCHANGED <<storeVars, mem, fired>>

SandboxFails(p) == Raise(p, "sandbox")

GeneratePoc(p) ==
  \E f \in mem[p].todo :
    /\ Goto(p, "detonate", "poc_mark")
    /\ RecordPoc(f)
    /\ Take(p, f, "none")
    /\ UNCHANGED fired

\* PocGenerator.generate raises: refused twice, or no usable answer
PocFails(p) ==
  \E f \in mem[p].todo, v \in {"REFUSED", "INCONCLUSIVE"} :
    /\ Goto(p, "detonate", "verdict_mark")
    /\ RecordVerdict(f, v)
    /\ Take(p, f, v)
    /\ UNCHANGED fired

PocMark(p) ==
  /\ Goto(p, "poc_mark", "fire")
  /\ UpdateFindingState(mem[p].cur, "POC_GENERATED")
  /\ UNCHANGED <<mem, fired>>

\* docker run returns, or is killed at the timeout: the observers report
Fire(p) ==
  \E E \in SUBSET Evidence :
    /\ Goto(p, "fire", "observe")
    /\ fired' = [fired EXCEPT ![mem[p].cur] = IF @ < FiredCap THEN @ + 1 ELSE @]
    /\ Keep(p, [mem[p] EXCEPT !.seen = E, !.write = Synthesize(E)])
    /\ UNCHANGED storeVars

\* target_dns is no compose service, Docker raises before the exploit starts, or
\* the exploit's own output reads like a Docker client error
NoOutcome(p) ==
  \E ran \in {0, 1} :
    /\ Goto(p, "fire", "verdict_mark")
    /\ RecordVerdict(mem[p].cur, "INCONCLUSIVE")
    /\ fired' = [fired EXCEPT ![mem[p].cur] = IF @ < FiredCap THEN @ + ran ELSE @]
    /\ Keep(p, [mem[p] EXCEPT !.write = "INCONCLUSIVE"])

StoreEvidence(p) ==
  \E e \in mem[p].seen :
    /\ Goto(p, "observe", "observe")
    /\ RecordEvidence(mem[p].cur, e)
    /\ Keep(p, [mem[p] EXCEPT !.seen = @ \ {e}])
    /\ UNCHANGED fired

StoreVerdict(p) ==
  /\ mem[p].seen = {}
  /\ Goto(p, "observe", "verdict_mark")
  /\ RecordVerdict(mem[p].cur, mem[p].write)
  /\ UNCHANGED <<mem, fired>>

VerdictMark(p) ==
  Mark(p, "verdict_mark", "detonate",
       IF mem[p].write = "REFUSED" THEN "REFUSED" ELSE "VERDICTED")

\* the sandbox is torn down
EndDetonating(p) == NextLoop(p, "detonate", "complete", {})

----------------------------------------------------------------------------
(* `shieldclaw run`: the end *)

\* the report is written, and the command returns
Finish(p, from, st) ==
  /\ Goto(p, from, "idle")
  /\ UpdateScanState(mem[p].scan, st)
  /\ Keep(p, NoLocals)
  /\ UNCHANGED fired

Complete(p) == Finish(p, "complete", "COMPLETE")
Fail(p)     == Finish(p, "failed", "FAILED")

----------------------------------------------------------------------------
(* `shieldclaw approve <scan> [<finding>|--all-pending|--auto] [--reject]` *)

StartReview(p) ==
  \E s \in Scan, d \in Decision :
    LET pending == Pending(s, "SCORED") IN
    \E rows \in {pending} \union {{f} : f \in pending} :
      /\ ScanExists(s)
      /\ rows # {}
      /\ Goto(p, "idle", "review")
      /\ Keep(p, [NoLocals EXCEPT !.scan = s, !.mode = d, !.todo = rows])
      /\ UNCHANGED <<storeVars, fired>>

ReviewOne(p) ==
  \E f \in mem[p].todo :
    /\ Goto(p, "review", "review_mark")
    /\ RecordApproval(f, mem[p].mode)
    /\ Take(p, f, mem[p].mode)
    /\ UNCHANGED fired

ReviewMark(p) == Mark(p, "review_mark", "review", mem[p].write)

EndReview(p) ==
  /\ Goto(p, "review", "idle")
  /\ mem[p].todo = {}
  /\ Keep(p, NoLocals)
  /\ UNCHANGED <<storeVars, fired>>

----------------------------------------------------------------------------
(* The process dies between two store calls: SIGKILL, Ctrl-C, end of input *)
(* at the prompt, or an exception that is no ShieldClawError.  The store   *)
(* keeps what was committed.                                               *)

Stop(p) ==
  /\ pc[p] # "idle"
  /\ pc'  = [pc EXCEPT ![p] = "idle"]
  /\ Keep(p, NoLocals)
  /\ UNCHANGED <<storeVars, fired>>

----------------------------------------------------------------------------

Launch(p) == StartFresh(p) \/ Resume(p) \/ StartReview(p)

IngestStep(p) ==
  \/ BeginIngest(p) \/ Ingest(p) \/ EndIngest(p)
  \/ BeginTriage(p) \/ TriageOne(p) \/ TriageMark(p) \/ EndTriage(p)

ScoreStep(p) ==
  \/ BeginScoring(p) \/ ScoreRows(p) \/ ScoreOne(p) \/ ScoreMark(p)
  \/ ScoreStatic(p) \/ EndScoring(p) \/ SweepOne(p) \/ SweepMark(p)

GateStep(p) ==
  \/ ModeConflict(p) \/ SkipGate(p) \/ OpenGate(p) \/ DecideOne(p)
  \/ DecideMark(p) \/ DecideSkip(p) \/ CloseGate(p)

DetonateStep(p) ==
  \/ ApprovedRows(p) \/ BeginDetonating(p) \/ SandboxUp(p) \/ GeneratePoc(p)
  \/ PocMark(p) \/ Fire(p) \/ StoreEvidence(p) \/ StoreVerdict(p)
  \/ VerdictMark(p) \/ EndDetonating(p) \/ BeginSkipping(p) \/ SkipOne(p)
  \/ SkipMark(p) \/ EndSkipping(p)

EndStep(p) == Complete(p) \/ Fail(p)

ReviewStep(p) == ReviewOne(p) \/ ReviewMark(p) \/ EndReview(p)

\* what a command does when everything around it works
Advance(p) ==
  IngestStep(p) \/ ScoreStep(p) \/ GateStep(p) \/ DetonateStep(p) \/ EndStep(p)
    \/ ReviewStep(p)

\* what goes wrong around it
Fault(p) ==
  \/ IngestFails(p) \/ ScoreFails(p) \/ PocFails(p) \/ SandboxFails(p)
  \/ NoOutcome(p) \/ Stop(p)

Next == \E p \in Proc : Launch(p) \/ Advance(p) \/ Fault(p)

Spec == Init /\ [][Next]_vars

----------------------------------------------------------------------------
(* Properties of every use: any number of terminals, scans and crashes *)

\* No state runs ahead of the row it stands for: whoever reads VERDICTED finds a
\* verdict, whoever resumes at POC_GENERATED finds the PoC, a finding past the gate
\* has a decision in the audit table and a verifiable one past scoring its score.
\* (Each handler writes the row first and the state second, and may die between.)
RowsBehindStates ==
  \A f \in Finding :
    /\ findingState[f] \in {"VERDICTED", "REFUSED"} => verdicts[f] # "NONE"
    /\ findingState[f] = "POC_GENERATED" => f \in pocs
    /\ findingState[f] \in {"APPROVED", "REJECTED"} => approvals[f] # "NONE"
    /\ findingState[f] \notin {"NONE", "INGESTED", "TRIAGED"} /\ Verifiable(f)
         => f \in scores

\* No store call fails on a foreign key (PRAGMA foreign_keys=ON), and no UPDATE
\* misses its row: whatever is written about a finding comes after the transaction
\* that stored it, and that one after its scan was created.
ForeignKeys ==
  /\ scores \union pocs \subseteq Stored
  /\ \A f \in Finding \ Stored :
       /\ findingState[f] = "NONE" /\ triage[f] = "NONE" /\ approvals[f] = "NONE"
       /\ evidence[f] = {} /\ verdicts[f] = "NONE"
  /\ \A f \in Stored : ScanExists(owner[f])

\* No exploit is launched for a finding that nobody ever decided on, or whose PoC
\* is not in the store.
LaunchedWasDecided ==
  \A f \in Finding : fired[f] > 0 => approvals[f] # "NONE" /\ f \in pocs

\* A TRUE_POSITIVE can be audited: the exploit ran, and the store holds the row of
\* the Tier-2 observer that corroborated it (evidence first, verdict second).
TruePositiveHasEvidence ==
  \A f \in Finding :
    verdicts[f] = "TRUE_POSITIVE" => fired[f] > 0 /\ "effect" \in evidence[f]

----------------------------------------------------------------------------
(* Properties of one terminal *)

\* The human gate: an exploit about to be launched has APPROVED on record, the last
\* decision taken on its finding.
ApprovalGate ==
  \A p \in Proc : pc[p] = "fire" => approvals[mem[p].cur] = "APPROVED"

----------------------------------------------------------------------------
(* Properties of one terminal and one scan: runs, resumes, reviews, crashes *)

\* No finding is detonated twice, however often the scan dies and is resumed.
LaunchedAtMostOnce == \A f \in Finding : fired[f] <= 1

\* A complete scan owes nothing: none of its findings waits to be scored or sits in
\* an interrupted detonation.
CompleteIsDrained ==
  \A f \in Stored :
    scanState[owner[f]] = "COMPLETE" => findingState[f] \notin {"TRIAGED", "POC_GENERATED"}

\* A complete scan has triaged every finding it ingested.
CompleteIsTriaged ==
  \A f \in Stored : scanState[owner[f]] = "COMPLETE" => findingState[f] # "INGESTED"

\* REFUSED is a refusal for good: the verdict says so and no exploit was launched.  A refusal
\* that is cut short between its verdict and its state leaves the row APPROVED; whatever a
\* resume makes of that, a finding is not left VERDICTED under a refusal.
RefusedWasNotLaunched ==
  \A f \in Finding :
    /\ findingState[f] = "REFUSED" => verdicts[f] = "REFUSED" /\ fired[f] = 0
    /\ findingState[f] = "VERDICTED" => verdicts[f] # "REFUSED"

\* A rejected, verdicted or refused finding stays so, with the verdict it has.
TerminalStays ==
  [][\A f \in Finding :
       findingState[f] \in {"REJECTED", "VERDICTED", "REFUSED"}
         => findingState'[f] = findingState[f] /\ verdicts'[f] = verdicts[f]]_vars

\* What an exploit has shown is not turned into its opposite, nor into a refusal: a crash
\* between the verdict and its state can cost a TRUE_POSITIVE or FALSE_POSITIVE, which the
\* sweep of interrupted detonations then replaces by INCONCLUSIVE, and nothing else can.
VerdictIsNotReversed ==
  [][\A f \in Finding :
       verdicts[f] \in {"TRUE_POSITIVE", "FALSE_POSITIVE"}
         => verdicts'[f] \in {verdicts[f], "INCONCLUSIVE"}]_vars

\* Only a dynamically verifiable finding is ever detonated.
OnlyVerifiableLaunched == \A f \in Finding : fired[f] > 0 => Verifiable(f)

\* The pipeline keeps the promises of FindingLifecycle.
Lifecycle == INSTANCE FindingLifecycle
               WITH state <- findingState, decision <- approvals,
                    launched <- {f \in Finding : fired[f] > 0}

ImplementsLifecycle == Lifecycle!Spec

=============================================================================
