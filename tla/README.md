# ShieldClaw: specification, model checking and proofs

ShieldClaw turns the findings of a Semgrep report into verdicts: it triages and
scores them, asks a person (or an environment variable) for an approval, has an
LLM write a proof of concept, detonates it in a Docker sandbox and derives a
verdict from what observers saw. Everything a run learns is kept in an SQLite
file beside the target, so that a run can be killed and resumed, and so that
`shieldclaw approve` in another terminal can decide between two runs.

What can go wrong here is what happens *between* the store's transactions: a run
dies there, a second terminal steps in there, an exploit that cannot be undone is
launched there. Then there is Docker, where every call may fail and everything that
was started must be removed, and there is the data, read from files, models and
containers by rules that a verdict depends on. This directory holds TLA+ models of the
three, their properties, what TLC finds on small instances and what TLAPS proves for
all of them.

Paths below are relative to `src/shield-claw/src/shieldclaw/`.

## 1. Inventory

| Part | State it keeps | Operations | Talks to |
| --- | --- | --- | --- |
| Scan store (`persistence/store.py`, `schema.sql`) | tables scans, findings, scores, approvals, pocs, evidence, verdicts | one method per read or write, each one connection and one transaction | called by run, approve, status |
| SAST pipeline (`orchestrator.py`, `_run_sast`, `_detonate_finding`) | local variables of one run | fresh run, resume: ingest, triage, score, sweep, gate, PoC, detonation, verdict, report | store, LLM, sandbox, prompt |
| Approval CLI (`__main__.py`, `_run_approve`) | the rows it read | decide one finding, all pending, auto | store |
| Approval prompt (`approval/gate.py`) | none | ask y / n / s; auto-approval switch | pipeline |
| Triage (`triage/classifier.py`) | the CWE table | classify one finding, deterministic | pipeline |
| Scorer (`scoring/`) | none | one LLM call; a score, or an exception that fails the scan | LLM |
| PoC generator, parser, providers (`intelligence/`) | the attempt number | two prompts at most; payload, refusal, bad answer, no connection | LLM |
| Sandbox (`sandbox/docker_orchestrator.py`) | containers, networks, an override file | start, find the target, detonate, tear down, clean up | Docker |
| Observers (`observer/`) | a snapshot taken before the detonation | before / after hooks | Docker, sandbox |
| Verdict (`verdict/synthesizer.py`) | none | evidence to verdict | pipeline |
| Legacy diff pipeline (`_run_legacy`, `context/`) | a small state machine, nothing persisted | context, exploit, detonation | LLM, sandbox |
| Reports (`reporting/`), status, argument checks | none | serialisation and printing | store |

What makes each of them correct:

- *Store*: children after parents; a row that exists is never lost; a replaced row
  is replaced for a reason.
- *Pipeline*: the gate (no exploit without an approval on record), at most one
  detonation per finding whatever dies and is resumed, terminal states that stay,
  a complete scan that owes nothing, verdicts that can be audited, resumes that
  finish what was started.
- *Approve*: decides pending, verifiable findings, and its record agrees with what
  then happens.
- *Triage, verdict, parser*: agree with their decision tables; a static mapping or
  a failed exit code wins.
- *PoC generator*: one retry after a refusal, none after anything else; a second
  refusal is reported as such.
- *Sandbox*: what was started is removed on every path; an exploit runs in the
  network of its own run; the timeout ends it.
- *Observers*: an effect is attributed to the exploit that caused it.

Hard behaviours: crashes between any two transactions; two terminals on one scan;
decisions taken on rows read earlier; ids that are the same in every scan of the
same report; partial failures (one score, one PoC, one observer); timeouts of
Docker and the LLM.

## 2. Modules

```
ScanStore --> SastPipeline --> PipelineInvariant --> PipelineSequence --> MCPipeline
                |    |               |                     |
                |    |               +--> PipelineProofs --+--> GateProofs
                |    |                                            +--> SequentialProofs
                |    |                                                   +--> LifecycleProofs
                |    +--> PipelineLiveness --> MCPipelineLiveness
                +-- INSTANCE FindingLifecycle  (abstract specification)

Sandbox --> SandboxInvariant --> MCSandbox
                   +--> SandboxProofs

Intake --+--> IntakeProofs --> ReportProofs ---+
         |                                     +--> DataPathProofs
         +--> DataPath --> DataPathInvariant --+
                ^                 +--> MCDataPath
Responses, Observation, Reports
```

The three specifications look at the same program from three sides. SastPipeline has
what is persisted and what may be interleaved there; Sandbox what lives on the Docker
host, for several commands at once; DataPath what one command makes of its inputs.
They meet at named places: `SandboxUp`, `SandboxFails` and `EndDetonating` of
SastPipeline stand for all of `start_sandbox` and `teardown` in Sandbox; its constant
`Triage` is what `Classify` gives for the finding; its `Evidence` is what `Observe` of
DataPath gathers, reduced to what decides the verdict; its PocFails and GeneratePoc are
the ends of DataPath's attempts.

**ScanStore** is the database. A variable is a table or a column; a row that is
not there is `"NONE"`, `NoScan`, or not in the set. An operator is a method, and one
transaction: `RecordFindings` is INSERT OR IGNORE (a finding that some scan has
stored keeps its row and its owner), `RecordApproval` and `RecordVerdict` replace,
`UpdateFindingState` names the finding in its WHERE clause and nothing else, neither
the scan nor the old state. `Pending` is `get_pending_findings`, restricted to the
rows the scan owns. Finding ids are uuid5 of rule, path and lines: the same finding
in every scan.

**SastPipeline** has one process per terminal (`Proc`). It runs one command after
the other: a fresh `run`, a `run --resume`, or an `approve`. `pc` is where the command
is, `mem` its local variables: the scan, the mode, the rows of the loop it is in
(read once, before the loop, as in the code), the row in hand and what was written
for it, the evidence not stored yet. One action is one store call with the code around
it, so that between any two of them a crash (`Stop`) or a step of another terminal
can fall. `fired` counts launched exploits and belongs to no program variable; it
saturates at `FiredCap` = 2, as "twice" is all a property needs to see.

| Code | Actions |
| --- | --- |
| `_run_sast` 362-392 | StartFresh, Resume, BeginIngest, Ingest, IngestFails, EndIngest, BeginTriage, TriageOne, TriageMark, EndTriage |
| 395-420 | BeginScoring, ScoreRows, ScoreOne, ScoreMark, ScoreStatic, ScoreFails, EndScoring, SweepOne, SweepMark |
| 425-491 | ModeConflict, SkipGate, OpenGate, DecideOne, DecideMark, DecideSkip, CloseGate |
| 493-531 | ApprovedRows, BeginDetonating, SandboxUp, SandboxFails, EndDetonating, BeginSkipping, SkipOne, SkipMark, EndSkipping |
| `_detonate_finding` 595-693 | GeneratePoc, PocFails, PocMark, Fire, NoOutcome, StoreEvidence, StoreVerdict, VerdictMark |
| 533-565 | Complete, Fail, Stop |
| `_run_approve` | StartReview, ReviewOne, ReviewMark, EndReview |

What answers from outside is nondeterministic: the report is any set of findings, a
score or a PoC may fail, the sandbox may not start, an exploit may leave any
evidence. `Evidence` keeps the two facts `synthesize` tells apart, a non-zero exit
code and a Tier-2 effect. The triage verdict is the constant `Triage`, one value per
finding, since `classify` is a function of the finding.

The definitions under "Variants" are actions with a plausible bug (a dropped
transaction, a missing sweep, a swapped order). No action uses them; each one replaces
its original in a run of its own, where the property it belongs to must fail.

**FindingLifecycle** is what the pipeline promises about a finding, without store,
processes or crashes: forward only, one decision taking effect, at most one launch,
after an approval. `ImplementsLifecycle` maps `findingState`, `approvals` and the set of
launched findings to it.

**PipelineInvariant** says what a process knows at each label, whoever else is at work;
**PipelineSequence** what it knows besides when nobody else is (section 5).

**PipelineLiveness** adds a bound on faults and fairness (section 4).

**Sandbox** is `sandbox/docker_orchestrator.py` with its two clients, the SAST run
(`Run \ Legacy`) and the legacy run. A command draws a fresh token, and the token
names its compose project, network, label and files: so a run *is* its token. Docker's
side is the containers of every run, their health, the networks, the exploit
containers, and the label override files on disk. One action is one Docker call; between
any two of them another command's step, a change of a service, the end of an exploit or
a fault can fall.

| Code | Actions |
| --- | --- |
| `start_sandbox` 172-203, `_cleanup_stale`, `_write_label_override` | Start, Prepare (legacy), Check, CleanupStale, WriteOverride, Create, Up |
| `_wait_for_compose_ready`, `_is_service_healthy` | Wait, ProbeHealthy, ProbeUnhealthy, Deadline, Ready |
| `detonate` 270-398 | NextShot, Launch, NoExitCode, Exits, TimesOut, Remove, EndShots |
| `teardown` 429-473, `_cleanup_override` | Down, Unlink, Rm |
| what may go wrong | PrepareFails, StartFails, Interrupt, Die |
| the environment | ServiceChanges, ExploitEnds |

`Create` is what `docker compose up` does while it is at work, one network and one
container at a time, so that it can be cut off with half a stack. The calls of `teardown`
are best effort in the code and here: each does its job, part of it or nothing, and
`failed`, which belongs to no program variable, keeps which did not. `waited` is the
time since the readiness loop set its deadline; it is the only clock. `Die` is the end
of a process without its finally blocks, after which nobody cleans up.

**SandboxInvariant** says what is known of one command at each of its labels (section 5).

**Intake**, **Responses**, **Observation** and **Reports** are the pure parts, as
operators: what the compose file, the Semgrep report, the verdict table, the diff and
the arguments are read as; what a model's answer becomes, in either provider, in the
parser, the retry and the scorer; what observers make of Docker's answers and `synthesize`
of evidence; what a report says. A text is a record of what the code looks for in it,
so a refusing text with a brace in it and a log line with an error word are values, not
strings. `Value` and `Raises`, `Got` and `Failure` tell a result from an exception, and
which exception: a ShieldClawError is caught and reported, any other goes through to
`main`.

**DataPath** runs one command over them, from `Reject` / `Dispatch` (the arguments) to
`Leave` (the exit code). `input` is chosen once; answers, runs of Docker, listings and
logs are chosen when they are asked for. `rows` are the findings as they are stored, in
the order of a hash, thus in any order. `effects`, `shown` and `answered` are observer
variables: who changed which kind of path in the target; for each telling line of the
target's log, how many lines came after it; how `docker diff` and `docker logs` ended.
They are what a verdict ought to rest on, and no action's guard reads them except through
the observers.

| Code | Actions |
| --- | --- |
| `main`, `_print_triage_summary` | Reject, Dispatch, Summarise, Leave |
| `_run_sast` | Ingest, IngestFails, Triage, ReadCompose, ReadComposeFails, ScoreAll, ScoreFails, Approve, SandboxUp, SandboxFails, NextFinding, EndFindings |
| `_detonate_finding` | Generate, GenerateAgain, Refused, GenerateFails, GenerateCrashes, SkipUnknownDns, CheckDns, Detonate, DetonateFails, DetonateCrashes, Observe, Judged |
| `_run_legacy` | AggregateContext, LegacyPoc, LegacyShot |
| the finally block of `run` | Report |

**DataPathInvariant** says what a command knows at each stage. Modules named `...Proofs`
hold theorems and their lemmas and define little else (section 5).

## 3. Runs

| Run | Instance | Shows |
| --- | --- | --- |
| `pipeline_sequential` | 1 terminal, 1 scan, 2 verifiable findings and a static one, all four modes | ApprovalGate, LaunchedAtMostOnce, CompleteIsDrained, RefusedWasNotLaunched, TerminalStays, VerdictIsNotReversed, ImplementsLifecycle, SequentialInvariant, TypeOK (750 000 states) |
| `pipeline_concurrent` | 2 terminals, 1 scan, 1 finding, interactive and automatic mode | RowsBehindStates, ForeignKeys, LaunchedWasDecided, TruePositiveHasEvidence, RowsInvariant (280 000 states) |
| `pipeline_liveness` | 1 terminal, 1 scan, 2 findings, at most 2 faults | InFlightSettles, ScanCompletes |
| `sandbox` | a SAST run with 2 services and up to 2 exploits, a legacy run with 1 service, on one host | StackStays, NoShotWhileStarting, WaitIsBounded, OneExploitAtATime, LeftoversWereRefused, LegacyReportTells, EveryRunReturns, StackInvariant, TypeOK (160 000 states) |
| `data_path` | one command, four families of inputs | ServicesAreExtracted, ExploitNamesAService, StaticIsNeverExploited, RefusedAfterRetry, TruePositiveHasACause, EffectIsNotMissed, FalsePositiveRan, EveryResultIsReported, ReportIsConsistent, ExitCodeTells, DataPathInvariant, TypeOK (260 000 states) |
| `rescan_reopens` | 1 terminal, 2 scans, 1 finding | TerminalStays fails |
| `bulk_approves_static` | 1 terminal, a verifiable and a static finding | OnlyVerifiableLaunched fails |
| `resume_skips_triage` | 1 terminal, 1 finding | CompleteIsTriaged fails |
| `two_resumes_detonate` | 2 terminals, 1 finding | LaunchedAtMostOnce fails |
| `decisions_race` | 2 terminals, 1 finding | ApprovalGate fails |
| `target_lookup_fails` | one finding, both services up, a token with "db" in its digest | LookupFindsTheTarget fails |
| `corroborated_by_failure` | one finding, a target whose log driver cannot be read | TruePositiveWasWitnessed fails |

The properties of the pipeline fall into three groups, and where each stops holding is part of the
result:

1. *Whatever is interleaved*: the store is consistent. Proved for every instance.
2. *One terminal*: an exploit about to be launched has APPROVED on record. Proved for any
   scans and findings. With a second terminal it fails (`decisions_race`): `approve` decides on rows it read earlier.
3. *One terminal and one scan*: at most one detonation, terminal states stay, and the
   rest of the lifecycle. Proved for any number of findings. With a second terminal an exploit is launched twice
   (`two_resumes_detonate`), with a second scan of the same report a concluded finding
   is reopened (`rescan_reopens`).

Two more fail even so: a finding is detonated only if it is verifiable
(`bulk_approves_static`), and a complete scan has triaged what it ingested
(`resume_skips_triage`).

What the sandbox run shows: whatever Docker answers and wherever a command is cut off, a
stack in use is never touched by another command, and what a command leaves on the host
when it returns is what Docker refused to remove. This is as much as can be promised.
Three lines of it were not obvious. A network stays when an exploit is still in it, as
`compose down` runs before the removal by label; an exploit outlives its timeout when
`docker kill` fails, and then runs beside the next one; a killed command (`Die`) leaves
everything, and no later command removes it, since stale cleanup asks for the new run's
own token, which nothing carries yet.

What the data path shows: a TRUE_POSITIVE has an exploit that exited with 0, a container
that was looked at and a cause that an observer was shown, and an effect is not missed when
one observer was shown it, whatever became of the other. TruePositiveHasACause lists the
causes, and not all of them are effects of the exploit in hand. The change may be older
(`ChangedBefore`: an earlier exploit of the same run, or the application's start), since
`docker diff` counts from the creation of the container; it may be the directory of a
scratch file, which `_is_noise` lets pass; and for a CWE without patterns of its own it may
be the complaint of a `docker logs` that failed (`corroborated_by_failure`). What is no
cause is as much a part of it: a `docker diff` that failed, an observer that was not
answered or raised, a log that was cut and has nothing telling in what is left. That the
cause is the exploit's own is claimed by no property. Besides, the target may not be looked at because of
the token (`target_lookup_fails`).

The seven disagreements that a run shows are listed in PROJECT.json with the lines of the
documentation they contradict. Six more were met while modelling and are listed without a
run, as they are facts of one call. OpenAI's content filter is not retried. An exploit that
prints bytes that are not UTF-8 ends the scan, as do a report and a compose file that are
not. `docker diff` is compared with no baseline, and its filter passes the directory
of a scratch file. The model has all six (`Attempt`, DetonateCrashes, Summarise,
ReadComposeFails, `ChangedBefore`, `IsNoise`).

Bounds. In the pipeline, the findings of one run interact only through the loops they share, and a
loop treats its rows in any order: two rows show one being worked on while the other
waits, and the static one is the row that must be passed over. A single finding is
enough for the races, which are all on one row. Two terminals are the smallest number
that race; one command of each kind fits between any two steps of the other, any
number of times, as nothing bounds how many commands a terminal runs. Symmetry is used
in the safety runs of the pipeline only (terminals, scans and verifiable findings are
interchangeable).

In the sandbox, two commands are enough as tokens are all that relates them, and one
of each kind is needed because their error paths differ. Two services show a stack that is
half there or half healthy; two exploits show one that outlives its turn. StartWait = 2
with PollInterval = 1 and ProbeTimeout = 1 lets the readiness loop pass twice and overrun
its deadline; `WaitBound` is the overrun it may have, in terms of the three.

In the data path, each family has the inputs its question needs and is small in the rest.
Compose files of up to four lines at three indentations hold a key before, inside and
after `services`, a nested key, and a service in one line; that is every case the text
scan tells apart. Reports with one result vary rule, severity and CWEs, and the user's
verdict table; reports with two vary what the two share (rule, place, both), with both
providers, an application that writes a file, a scratch file or nothing, or whose log cannot
be read. Two lines of log (`MaxLogLines`) with three to be logged let one be cut. The legacy family varies the
source of the diff, files that cannot be decoded, and the arguments.

## 4. Fairness

`PipelineLiveness` assumes of each terminal:

- WF of `Advance`: a command that was started and can take a step takes one. The code is
  sequential, its subprocess and HTTP calls have timeouts, and the person at the prompt
  is assumed to answer.
- SF of `Resume`: an operator with an idle terminal and a scan in the store resumes it
  again and again, not spending the terminal on other commands for ever.
- at most `MaxFaults` faults (crashes, failed ingests, scores, PoCs, sandboxes). Without
  a bound every run may be killed, and nothing is finished.

Nothing is assumed of `StartFresh` and `StartReview`. `ScanCompletes` and
`InFlightSettles` then say that no crash, at whatever point, leaves the scan or a finding
where a resume does not get it out. Findings in SCORED are not in flight: they wait for a
person, possibly for ever. Findings in INGESTED do get stuck; that is the finding of
`resume_skips_triage`, and why InFlightSettles starts at TRIAGED.

`Sandbox` assumes WF of each command's `Step` (`FairSpec`), its own next step and not its
faults: every Docker call has a timeout, as the exploit has, and the readiness loop has a deadline.
Nothing is assumed of services, exploits or faults. `EveryRunReturns` then says that no
service that never gets healthy and no exploit that never ends keeps a command from its
report. DataPath claims nothing about progress.

## 5. Proofs

### Pipeline, whatever is interleaved

`PipelineProofs` proves, for any sets of terminals, scans and findings, any modes and any
triage, from the named assumptions `NoScanAssumption` and `PipelineAssumption` (the null
values are none of the ids; modes and triage verdicts are of their kind):

- `RowsAlways`: Spec => []RowsInvariant
- `TypeCorrect`, `StatesHaveRows`, `KeysHold`, `LaunchNeedsDecision`,
  `VerdictNeedsEvidence`: the five properties of the first group above, TypeOK included.

None of the five is inductive. That SCORED implies a score needs to know that a process
about to write SCORED holds a finding with a score row, and that its triage verdict has
not changed since; that TRUE_POSITIVE has its evidence needs to know, while evidence is
being stored, that the row of the effect is stored or still in hand. `RowsInvariant` adds
exactly this: `RowsKnown(l, rows)` and `HandKnown(l, f)` for what is known at label l about
the rows still to do and about the row in hand, `OutcomeKnown` for an outcome being stored.

All of it is *stable*: rows are added or replaced and never deleted, the triage verdict is
always the same. So the proof has two halves. For each store transaction a lemma says that
in a good state, given the rows it relies on, it keeps the store's properties and takes no
fact back (`Grows`). `Bystanders` then gives that what the other processes know survives,
and per action it remains to show that the process meets the precondition of its store call
and knows what its next label claims (`NextLoopSafe`, `ScanStepSafe`, `MarkSafe`, `TakeSafe`,
`RaiseSafe`, `FinishSafe` for the shapes most actions have).

TLC checks RowsInvariant in `pipeline_concurrent`.

### Pipeline, one terminal

Groups 2 and 3 hold under assumptions on the constants that each theorem states: `OneTerminal`
(`Proc` has at most one member) and `OneScan`. They cannot be dropped: `decisions_race` and
`two_resumes_detonate` are what a second terminal does, `rescan_reopens` what a second scan
does. Nothing is assumed of the number of findings, of modes, of triage or of faults: any
sequence of runs, resumes and reviews may be cut short at any label.

`GateProofs`, one terminal:

- `GateAlways`: Spec => []GateInvariant
- `GateHolds`: Spec => []ApprovalGate

A loop works on rows that it read before it began. GateInvariant says, label by label, that
they are still in the state they were read in, and so is the row in hand until it is marked
(`InOrder`); then APPROVED on record is kept by every transaction, the replacing
`RecordApproval` included, since a decision in hand is for a row still in SCORED. Each action
lemma needs that nobody else moves (`Alone`), which is where the assumption is used.

`SequentialProofs`, one terminal and one scan:

- `SequentialAlways`: Spec => []SequentialInvariant
- `LaunchedOnce`, `RefusedNeverRan`, `CompleteOwesNothing`: LaunchedAtMostOnce,
  RefusedWasNotLaunched and CompleteIsDrained.

SequentialInvariant is three invariants proved in this order, each from those before and from
RowsInvariant. GateInvariant is the first. `ForwardInvariant` relates what was done for a
finding to how far it has come: an exploit has run only if its finding is in POC_GENERATED or
VERDICTED, so one that is APPROVED has not run, and one in hand at `fire` neither (`FirstRun`);
a process about to write VERDICTED has stored a verdict that is not REFUSED, which is what
RefusedWasNotLaunched says of a refusal cut short;
a report is ingested into an empty store (`FreshRows`), which is what a second scan breaks.
`DrainInvariant` relates the scan to its findings: a run that is past its sweep leaves
nothing in POC_GENERATED but the row in hand, and one in its scoring loop has in it every
TRIAGED finding (`InLoop`), so that COMPLETE is reached with nothing owed.

`LifecycleProofs`, one terminal and one scan:

- `PipelineImplementsLifecycle`: Spec => ImplementsLifecycle, the refinement of FindingLifecycle
- `TerminalFindingsStay`, `VerdictsAreNotReversed`: the action properties TerminalStays and
  VerdictIsNotReversed.

A step of the pipeline maps to the lifecycle step that its store call makes on the finding in
hand (`SeenAdvance`, `SeenTakeEffect`, `SeenDecide`, `SeenLaunch`), or to a stutter when it
touches neither states, approvals nor launches (`Unseen`). That the lifecycle step is enabled
is what SequentialInvariant says of the row in hand. The lifecycle gives that states stay;
it knows no verdicts, so that they stay and are not reversed comes from `VerdictInTime`: a
verdict is recorded only for a finding on its way through detonation, and only INCONCLUSIVE
over a conclusive one.

TLC checks SequentialInvariant, which contains GateInvariant, in `pipeline_sequential`.

### Sandbox

`SandboxProofs` proves, for any commands, services per command, waiting times and numbers
of exploits, from `SandboxAssumption` (a command has services, and no time is negative, the
poll interval not zero):

- `StackAlways`: Spec => []StackInvariant
- `StackIsSafe`, `ShotsWaitForServices`, `WaitEnds`, `ExploitsDoNotOverlap`,
  `NothingIsForgotten`, `LegacyTells`, `SandboxTypeCorrect`: the seven safety properties
  of the sandbox run.

LeftoversWereRefused says something of commands that have returned only. To get there one
must know, after each call of teardown, that what it leaves was noted (`TeardownKnown`).
NoShotWhileStarting needs the part of the services that the current pass has probed
(`HealthKnown`), WaitIsBounded how far so many probes can have taken the clock
(`WaitKnown`, `ProbedBound`), OneExploitAtATime that nothing was raised before, as long as the
try block is not left (`EndKnown`). None of it relates two commands, which is what the token
is for: so `Bystander` shows once that a step of one command leaves what is known of the
others, and each action lemma only shows that its own command advances (`Advances`).
`PassSafe` and `RaiseSafe` stand for the many steps that only move on, and for every
exception.

TLC checks StackInvariant in `sandbox`.

### Data path

`IntakeProofs` proves what two readers compute, for inputs of any size:

- `ServicesFound`: the text scan of a compose file (`ComposeServiceNames`) returns the services
  YAML declares, if each is a block of its own and nothing else is called services
  (`PlainCompose`), for siblings at one indentation (`Aligned`).
- `TriageIsConservative`: a finding that `Classify` frees has no rule out of scope and no
  CWE that the table makes static, whatever the table and wherever the CWE is in the list.

The text scan is a set of lines, not a recursion, so no induction over the file is needed: a
line that is wrongly found, or missed, would be the first of its kind, and the first such
line contradicts its parent (`HasLeast`, from the well-foundedness of the naturals).

`DataPathProofs` proves, for any inputs, model answers, ends of `docker run`, listings and
logs, from `DataPathAssumption` (a detonation ends in one of four ways, a log is made of lines,
an application writes a file, a scratch file or nothing, results are numbered, and siblings
of a compose file are at one indentation, as otherwise
`docker compose` rejects it):

- `DataPathAlways`: Spec => []DataPathInvariant
- `ServicesAreFound`, `ExploitsNameAService`, `RefusalsAreRetried`, `TruePositivesHaveACause`,
  `EffectsAreNotMissed`, `FalsePositivesRan`, `ResultsAreReported`, `ReportsAreConsistent`,
  `ExitCodesTell`, `DataPathTypes`: ten of the run's properties, TypeOK included
- `StaticIsSpared`: StaticIsNeverExploited, if in addition two results of one rule on the same
  lines have the same CWEs (`RulesHaveTheirCwes`). They have, in what Semgrep writes, as CWEs
  are metadata of the rule. Without it the property is false: of two results with one id
  INSERT OR IGNORE keeps the first row, and triage writes the verdict of the last.

DataPathInvariant says of each stage where the rows come from (`Sourced`: a row has its CWEs and
its triage from results with its id, and what is approved or further was triaged as verifiable),
that the services are those of the file once it is read, what is in hand (`HandKnown`), and
that what is still owed is exactly the loop and the row in hand (`OwedKnown`), an equality, as
otherwise ending the loop would not show that nothing is owed. `IdsKnown` gives each id of the
report one row, in whatever order the store returns them; it is proved after the rest, on top
of it. EveryResultIsReported and ExitCodeTells need these two, the verdict properties what
`Synthesize` and the observers return (`SynthesizeIs`, `EvidenceIs`, `DiffIs`, `LogsAre`, for
logs of any length and any MaxLogLines). `LastLinesAre` says which positions of a log are
read, which relates `shown` to the lines an observer saw: one that saw a telling line was shown
one (TruePositiveHasACause), and a telling line with fewer than MaxLogLines after it was read
(EffectIsNotMissed). `EffectsAre` and `ChangesAre` do the same for the listing: what passes
the filter is a change in `effects`, and a changed file passes it.

`ReportProofs` has what ReportIsConsistent needs of a report. A loop over findings numbers a
rule, or lists a row, in the order of positions: `HasOrder` shows that there is such an
order for every finite set of numbers, the rank of a number being how many are no greater
(`RanksAre`), and `AscendingIs` that the number of a position in it is how many come before,
which is what RuleIndex counts. It is cardinalities throughout, and again no induction.

A stage changes little, so frame lemmas carry most of the proof: `RowsStay` when no row
changes, `RowsMove` when one advances, `JudgeKeeps` for every path that ends in a verdict and
`RaiseKeeps` for every exception. An action lemma supplies what is its own.

TLC checks DataPathInvariant in `data_path`; `input \in Inputs`, which the proof adds to it, is
left out there because the set is large.

Proving changed the model in three places. `RunResult` and `Synthesize` were CASE
expressions with overlapping guards, of which TLC takes the first and TLA+ any: they are IF
chains in the order of the code now. That a static finding is spared turned out to rest on
RulesHaveTheirCwes, which every report of the run satisfies. And the lists of a report are in
the order of positions by definition (`Ascending`), no longer by a library sort, of which the
prover knows nothing; the property of the groups says where each row is, not how many there are.

### Model-checked only

Every safety invariant, action property and refinement that a passing run checks has a
theorem. Liveness, that is InFlightSettles, ScanCompletes and EveryRunReturns, is out of the
prover's reach and stays with TLC.

## 6. Not modelled

- The text of prompts, reports, rationales: layout and data. The JSON report is a plain
  dump of its records.
- `status`, `list_scans`, `get_latest_scan`, `count_findings_by_state`: reads. The argument
  parser itself is argparse's. The dataclasses of `models.py` are the records of the models.
- Timestamps, notes, `decided_by`; metavariables and the raw JSON of a Semgrep result, which
  are carried along and never read by the pipeline.
- The truncation of a long diff, which only the model reads; environment variables that set
  images, timeouts and the seccomp profile; memory and capability limits of containers.
- SQLite itself: a transaction is atomic and durable, a failed one is a crash (`Stop`).
- Resume over the data path: DataPath has a new store, and SastPipeline has resumes over
  abstract data.
- Paths in a container's filesystem: a change is a file, or a scratch file below one of the
  noise prefixes together with its directory.

## 7. Plan

1. The steps of a liveness argument that are safety: an order on what a run still owes, that
   every step of `Advance` decreases and only a fault or a new command raises.
2. Lemmas about single operators, for any input: the name lookup of `Sandbox` against its
   token, and `Attempt` for both providers.
3. SastPipeline with two scans in automatic mode at once, as far as the state space allows.
