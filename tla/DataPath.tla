------------------------------ MODULE DataPath ------------------------------
(***************************************************************************)
(* One `shieldclaw run`, from its arguments to its exit code: what is read *)
(* becomes findings (Intake), the model's answers become exploits          *)
(* (Responses), what Docker shows becomes verdicts (Observation), and all  *)
(* of it a report (Reports).                                               *)
(*                                                                         *)
(* SastPipeline has the persistence and the interleavings of this run and  *)
(* Sandbox has its Docker calls; this module has its data.  So no process  *)
(* dies here, the store is new, and the scan is never resumed.             *)
(***************************************************************************)
EXTENDS Intake, Observation, Reports
INSTANCE Responses

CONSTANTS
  Inputs,         \* what a command may be given: arguments, files, an application
  Answers,        \* what a provider may get over HTTP
  Runs,           \* how docker run may end
  Listings,       \* what docker compose ps may list
  LogTexts        \* what the target may write to a log while it is watched

\* A detonation ends in one of four ways, a log is made of lines, an application writes to
\* its files or not, and a compose file that can be decoded is one that docker compose can
\* read: with another one there is no sandbox.
ASSUME DataPathAssumption ==
  /\ \A r \in Runs : r.ends \in {"success", "failure", "timeout", "docker"}
  /\ \A text \in LogTexts : text.out \in Seq(STRING) /\ text.err \in Seq(STRING)
  /\ \A i \in Inputs :
       LET results == i.semgrep.results IN
       /\ i.compose \in Seq([indent : Nat, name : STRING, form : STRING])
       /\ Aligned(i.compose)
       /\ i.app.writes \in DOMAIN Listed
       /\ DOMAIN results = 1 .. Len(results) /\ Len(results) \in Nat

VARIABLES
  stage,          \* where the command is
  input,          \* what it was given
  services,       \* _extract_compose_service_names
  rows,           \* the findings as they are stored, ordered by finding_id
  todo,           \* positions of the approved rows that are not yet done
  cur,            \* position of the row in hand
  attempt,        \* of PocGenerator.generate
  dns,            \* target_dns of the payload in hand
  target,         \* target_cid
  run,            \* how the detonation in hand ended
  effects,        \* observer: what has changed in the target, [by: a row, 0 itself; path]
  shown,          \* observer: for each 200 or error word that the target logged while
                  \* watched, how many lines it logged after that one
  answered,       \* observer: how docker diff and docker logs did, [diff, logs]
  error,          \* pipeline_error, or an exception that is no ShieldClawError
  report,         \* the rows as the report shows them
  exit            \* the exit code

vars == <<stage, input, services, rows, todo, cur, attempt, dns, target, run, effects,
          shown, answered, error, report, exit>>

findingVars == <<cur, attempt, dns, run, shown, answered>>

Stages == {"start", "summary", "ingest", "triage", "compose", "score", "approve",
           "sandbox", "next", "generate", "dns", "detonate", "observe", "judged",
           "aggregate", "legacy poc", "legacy shot", "report", "exit", "end"}

States == {"INGESTED", "TRIAGED", "SCORED", "APPROVED", "POC_GENERATED", "VERDICTED",
           "REFUSED"}

Verdicts == {NoVerdict, "TRUE_POSITIVE", "FALSE_POSITIVE", "INCONCLUSIVE", "REFUSED"}

\* how a call to Docker ends; what it prints may not be UTF-8
DockerEnds == {"ok", "fails", "unanswered", "garbled"}

Paths == UNION {Listed[where] : where \in DOMAIN Listed}

NoRun    == [ends |-> "none"]
Unasked  == [diff |-> "none", logs |-> "none"]
NoReport == [written |-> FALSE]

TypeOK ==
  /\ stage \in Stages
  /\ IsFiniteSet(services)
  /\ \A i \in DOMAIN rows : rows[i].state \in States /\ rows[i].verdict \in Verdicts
  /\ todo \subseteq DOMAIN rows
  /\ cur \in 0 .. Len(rows)
  /\ attempt \in 0 .. 2
  /\ run \in Runs \union {NoRun}
  /\ effects \subseteq [by : 0 .. Len(rows), path : Paths]
  /\ shown \subseteq Nat
  /\ answered \in [diff : DockerEnds, logs : DockerEnds] \union {Unasked}
  /\ error \in {"none", "shieldclaw", "other"}
  /\ exit \in {"none", "0", "1"}

Init ==
  /\ stage = "start"
  /\ input \in Inputs
  /\ services = {}
  /\ rows = <<>>
  /\ todo = {}
  /\ cur = 0 /\ attempt = 0 /\ dns = "none" /\ run = NoRun
  /\ shown = {} /\ answered = Unasked
  /\ target = NoTarget /\ effects = {}
  /\ error = "none" /\ report = NoReport /\ exit = "none"

----------------------------------------------------------------------------
(* Helpers *)

Provider == input.args.provider

CweVerdicts == LoadCweVerdicts(input.verdicts).value

Goto(from, to) == stage = from /\ stage' = to

\* _detonate_finding is left, and with it its local variables
LeaveFinding ==
  /\ cur' = 0 /\ attempt' = 0 /\ dns' = "none" /\ run' = NoRun
  /\ shown' = {} /\ answered' = Unasked

\* the sandbox is torn down, and with it the target
Teardown == target' = NoTarget /\ effects' = {}

\* a ShieldClawError, or any other exception: the finally blocks tear the sandbox down
\* and write the report
Raise(from, e) ==
  /\ Goto(from, "report")
  /\ error' = e
  /\ LeaveFinding /\ Teardown
  /\ UNCHANGED <<input, services, rows, todo, report, exit>>

\* which of the two a failed answer raises
ErrorOf(outcome) == IF outcome.kind = "crash" THEN "other" ELSE "shieldclaw"

\* what docker diff has to show of a change
Changes(who, where) == [by : {who}, path : Listed[where]]

\* every verdict comes with the state that goes with it
Judge(from, v, state) ==
  /\ Goto(from, "judged")
  /\ rows' = [rows EXCEPT ![cur].verdict = v, ![cur].state = state]

----------------------------------------------------------------------------
(* Variants with a plausible bug, used by no action *)

\* INSERT without OR IGNORE
IngestEvery ==
  LET parsed == ParseSemgrepJson(input.semgrep)
      found  == parsed.value
  IN /\ parsed.ok
     /\ Goto("ingest", "triage")
     /\ rows' = [k \in DOMAIN found |->
                  [rule |-> found[k].rule, place |-> found[k].place,
                   severity |-> found[k].severity, cwe |-> found[k].cwe,
                   triage |-> "none", state |-> "INGESTED", verdict |-> NoVerdict]]
     /\ UNCHANGED <<input, services, todo, findingVars, target, effects, error, report, exit>>

\* a payload goes out whatever it names
CheckDnsNot ==
  /\ Goto("dns", "detonate")
  /\ UNCHANGED <<input, services, rows, todo, findingVars, target, effects, error, report,
                 exit>>

\* an unexpected exception is not passed on
LeaveAlways ==
  /\ Goto("exit", "end")
  /\ exit' = "0"
  /\ UNCHANGED <<input, services, rows, todo, findingVars, target, effects, error, report>>

----------------------------------------------------------------------------
(* main *)

\* validation fails: exit 1, and no report
Reject ==
  /\ ~Validates(input.args)
  /\ Goto("start", "end")
  /\ exit' = "1"
  /\ UNCHANGED <<input, services, rows, todo, findingVars, target, effects, error, report>>

Dispatch ==
  /\ Validates(input.args)
  /\ Goto("start", IF Mode(input.args) = "sast" THEN "summary" ELSE "aggregate")
  /\ UNCHANGED <<input, services, rows, todo, findingVars, target, effects, error, report,
                 exit>>

\* _print_triage_summary loads the triage table and reads the report a first time; what it
\* does not catch leaves main before there is a pipeline
Summarise ==
  LET parsed == ParseSemgrepJson(input.semgrep)
      lost   == ~LoadCweVerdicts(input.verdicts).ok \/ (~parsed.ok /\ parsed.error = "other")
  IN /\ Goto("summary", IF lost THEN "end" ELSE "ingest")
     /\ exit' = IF lost THEN "1" ELSE exit
     /\ UNCHANGED <<input, services, rows, todo, findingVars, target, effects, error, report>>

----------------------------------------------------------------------------
(* _run_sast up to the sandbox *)

\* INSERT OR IGNORE: of several results of a rule on the same lines the first is kept.
\* The rows are ordered by a hash
Ingest ==
  LET parsed == ParseSemgrepJson(input.semgrep)
      found  == parsed.value
      kept   == {i \in DOMAIN found :
                   \A j \in 1 .. i - 1 : FindingId(found[j]) # FindingId(found[i])}
  IN /\ parsed.ok
     /\ Goto("ingest", "triage")
     /\ \E order \in SetToSeqs(kept) :
          rows' = [k \in DOMAIN order |->
                     [rule |-> found[order[k]].rule, place |-> found[order[k]].place,
                      severity |-> found[order[k]].severity, cwe |-> found[order[k]].cwe,
                      triage |-> "none", state |-> "INGESTED", verdict |-> NoVerdict]]
     /\ UNCHANGED <<input, services, todo, findingVars, target, effects, error, report, exit>>

IngestFails ==
  LET parsed == ParseSemgrepJson(input.semgrep)
  IN ~parsed.ok /\ Raise("ingest", parsed.error)

\* results are classified, rows updated by their key: the last result decides
Triage ==
  LET found   == ParseSemgrepJson(input.semgrep).value
      last(r) == found[Max({i \in DOMAIN found : FindingId(found[i]) = FindingId(r)})]
  IN
  /\ Goto("triage", "compose")
  /\ rows' = [i \in DOMAIN rows |->
                [rows[i] EXCEPT !.triage = Classify(CweVerdicts, last(rows[i])),
                                 !.state = "TRIAGED"]]
  /\ UNCHANGED <<input, services, todo, findingVars, target, effects, error, report, exit>>

\* a file that is not there any more has no lines
ReadCompose ==
  /\ input.repo.compose # "undecodable"
  /\ Goto("compose", "score")
  /\ services' = ComposeServiceNames(input.compose)
  /\ UNCHANGED <<input, rows, todo, findingVars, target, effects, error, report, exit>>

\* a file that is not UTF-8: the scan ends with it
ReadComposeFails == input.repo.compose = "undecodable" /\ Raise("compose", "other")

Verifiable == {i \in DOMAIN rows : rows[i].triage = "DYNAMICALLY_VERIFIABLE"}

\* every verifiable finding is scored, every other one passed
ScoreAll ==
  /\ Goto("score", "approve")
  /\ \A i \in Verifiable : \E answer \in Answers : Score(Provider, answer).kind = "got"
  /\ rows' = [i \in DOMAIN rows |-> [rows[i] EXCEPT !.state = "SCORED"]]
  /\ UNCHANGED <<input, services, todo, findingVars, target, effects, error, report, exit>>

\* one answer that is no score ends the scan; rows before it are SCORED
ScoreFails ==
  \E i \in Verifiable, answer \in Answers :
    LET score == Score(Provider, answer) IN
    /\ score.kind # "got"
    /\ Goto("score", "report")
    /\ error' = ErrorOf(score)
    /\ rows' = [j \in DOMAIN rows |->
                  IF j < i THEN [rows[j] EXCEPT !.state = "SCORED"] ELSE rows[j]]
    /\ UNCHANGED <<input, services, todo, findingVars, target, effects, report, exit>>

\* whichever gate is open; without an approval the scan is complete
Approve ==
  \E A \in SUBSET Verifiable :
    /\ Goto("approve", IF A = {} THEN "report" ELSE "sandbox")
    /\ todo' = A
    /\ rows' = [i \in DOMAIN rows |->
                  IF i \in A THEN [rows[i] EXCEPT !.state = "APPROVED"] ELSE rows[i]]
    /\ UNCHANGED <<input, services, findingVars, target, effects, error, report, exit>>

\* start_sandbox and get_target_container_id.  The application may have written files
SandboxUp ==
  \E listed \in Listings :
    /\ Goto("sandbox", "next")
    /\ target' = TargetContainer(listed, input.digest)
    /\ effects' = Changes(0, input.app.writes)
    /\ UNCHANGED <<input, services, rows, todo, findingVars, error, report, exit>>

SandboxFails == Raise("sandbox", "shieldclaw")

----------------------------------------------------------------------------
(* _detonate_finding *)

NextFinding ==
  /\ todo # {}
  /\ Goto("next", "generate")
  /\ cur' = Min(todo)
  /\ todo' = todo \ {Min(todo)}
  /\ attempt' = 1
  /\ UNCHANGED <<input, services, rows, dns, run, shown, answered, target, effects, error,
                 report, exit>>

EndFindings ==
  /\ todo = {}
  /\ Goto("next", "report")
  /\ Teardown
  /\ UNCHANGED <<input, services, rows, todo, findingVars, error, report, exit>>

\* an exploit: stored, and the row says so
Generate ==
  \E answer \in Answers :
    LET outcome == Attempt(Provider, answer, attempt) IN
    /\ outcome.kind = "got"
    /\ Goto("generate", "dns")
    /\ dns' = outcome.value
    /\ rows' = [rows EXCEPT ![cur].state = "POC_GENERATED"]
    /\ UNCHANGED <<input, services, todo, cur, attempt, run, shown, answered, target, effects,
                   error, report, exit>>

GenerateAgain ==
  \E answer \in Answers :
    /\ Attempt(Provider, answer, attempt).kind = "retry"
    /\ Goto("generate", "generate")
    /\ attempt' = attempt + 1
    /\ UNCHANGED <<input, services, rows, todo, cur, dns, run, shown, answered, target,
                   effects, error, report, exit>>

Refused ==
  \E answer \in Answers :
    /\ Attempt(Provider, answer, attempt).kind = "refusal"
    /\ Judge("generate", "REFUSED", "REFUSED")
    /\ UNCHANGED <<input, services, todo, findingVars, target, effects, error, report, exit>>

GenerateFails ==
  \E answer \in Answers :
    /\ Attempt(Provider, answer, attempt).kind \in {"response", "connection"}
    /\ Judge("generate", "INCONCLUSIVE", "VERDICTED")
    /\ UNCHANGED <<input, services, todo, findingVars, target, effects, error, report, exit>>

GenerateCrashes ==
  \E answer \in Answers :
    /\ Attempt(Provider, answer, attempt).kind = "crash"
    /\ Raise("generate", "other")

\* target_dns is no compose service, as far as services are known
SkipUnknownDns ==
  /\ services # {} /\ dns \notin services
  /\ Judge("dns", "INCONCLUSIVE", "VERDICTED")
  /\ UNCHANGED <<input, services, todo, findingVars, target, effects, error, report, exit>>

CheckDns ==
  /\ services = {} \/ dns \in services
  /\ Goto("dns", "detonate")
  /\ UNCHANGED <<input, services, rows, todo, findingVars, target, effects, error, report,
                 exit>>

\* docker run; the exploit may reach the target that is watched
Detonate ==
  \E r \in Runs, where \in DOMAIN Listed :
    /\ RunResult(r).kind = "code"
    /\ Goto("detonate", "observe")
    /\ run' = r
    /\ effects' = effects \union Changes(cur, where)
    /\ UNCHANGED <<input, services, rows, todo, cur, attempt, dns, shown, answered, target,
                   error, report, exit>>

DetonateFails ==
  \E r \in Runs, where \in DOMAIN Listed :
    /\ RunResult(r).kind = "error"
    /\ r.ends = "docker" => where = "nothing"
    /\ run' = r
    /\ effects' = effects \union Changes(cur, where)
    /\ Judge("detonate", "INCONCLUSIVE", "VERDICTED")
    /\ UNCHANGED <<input, services, todo, cur, attempt, dns, shown, answered, target, error,
                   report, exit>>

\* what an exploit prints is not UTF-8: the scan ends with it
DetonateCrashes ==
  /\ \E r \in Runs : RunResult(r).kind = "crash"
  /\ Raise("detonate", "other")

\* the CWE whose words are looked for in the log
ObserverCwe(r) == IF r.cwe = <<>> THEN "none" ELSE Head(r.cwe)

\* the after hooks and the verdict.  docker logs fails for a target whose log driver
\* cannot be read
Observe ==
  \E diff \in DockerEnds,
     logs \in IF input.app.readable THEN DockerEnds ELSE {"fails", "unanswered"},
     text \in LogTexts :
    LET cwe      == ObserverCwe(rows[cur])
        evidence == ExitCodeEvidence(RunResult(run).code)
                      \o DiffEvidence(target, diff, {change.path : change \in effects})
                      \o LogsEvidence(target, logs, cwe, text.out, text.err)
        all      == text.out \o text.err
        telling  == {i \in DOMAIN all : all[i] \in {"200"} \union ErrorWords(cwe)}
    IN /\ Judge("observe", Synthesize(evidence).verdict, "VERDICTED")
       /\ IF target = NoTarget
            THEN UNCHANGED <<shown, answered>>
            ELSE /\ shown' = {Len(all) - i : i \in telling}
                 /\ answered' = [diff |-> diff, logs |-> logs]
       /\ UNCHANGED <<input, services, todo, cur, attempt, dns, run, target, effects, error,
                      report, exit>>

Judged ==
  /\ Goto("judged", "next")
  /\ LeaveFinding
  /\ UNCHANGED <<input, services, rows, todo, target, effects, error, report, exit>>

----------------------------------------------------------------------------
(* _run_legacy: the context, an exploit, a detonation *)

AggregateContext ==
  LET context == Aggregate(input.repo, input.args.diff # "none") IN
  IF context.ok
    THEN /\ Goto("aggregate", "legacy poc")
         /\ UNCHANGED <<input, services, rows, todo, findingVars, target, effects, error,
                        report, exit>>
    ELSE Raise("aggregate", context.error)

LegacyPoc ==
  \E answer \in Answers :
    LET outcome == GenerateExploit(Provider, answer) IN
    IF outcome.kind = "got"
      THEN /\ Goto("legacy poc", "legacy shot")
           /\ UNCHANGED <<input, services, rows, todo, findingVars, target, effects, error,
                          report, exit>>
      ELSE Raise("legacy poc", ErrorOf(outcome))

\* start_sandbox and detonate without observers
LegacyShot ==
  \/ \E r \in Runs :
       /\ RunResult(r).kind = "code"
       /\ Goto("legacy shot", "report")
       /\ run' = r
       /\ UNCHANGED <<input, services, rows, todo, cur, attempt, dns, shown, answered, target,
                      effects, error, report, exit>>
  \/ Raise("legacy shot", "shieldclaw")
  \/ (\E r \in Runs : RunResult(r).kind = "crash") /\ Raise("legacy shot", "other")

----------------------------------------------------------------------------
(* The finally block, and the end of main *)

Report ==
  /\ Goto("report", "exit")
  /\ report' = [written |-> TRUE,
                error   |-> error = "shieldclaw",    \* pipeline_error
                outcome |-> run # NoRun,
                sarif   |-> SarifResults(rows),
                rules   |-> SarifRules(rows),
                groups  |-> MarkdownGroups(rows)]
  /\ UNCHANGED <<input, services, rows, todo, findingVars, target, effects, error, exit>>

Leave ==
  /\ Goto("exit", "end")
  /\ exit' = IF error = "other" THEN "1" ELSE "0"
  /\ UNCHANGED <<input, services, rows, todo, findingVars, target, effects, error, report>>

----------------------------------------------------------------------------

IntakeStep ==
  Ingest \/ IngestFails \/ Triage \/ ReadCompose \/ ReadComposeFails \/ ScoreAll \/ ScoreFails

DetonationStep ==
  \/ SandboxUp \/ SandboxFails \/ NextFinding \/ EndFindings \/ Generate \/ GenerateAgain
  \/ Refused \/ GenerateFails \/ GenerateCrashes \/ SkipUnknownDns \/ CheckDns \/ Detonate
  \/ DetonateFails \/ DetonateCrashes \/ Observe \/ Judged

Next ==
  \/ Reject \/ Dispatch \/ Summarise \/ IntakeStep \/ Approve \/ DetonationStep
  \/ AggregateContext \/ LegacyPoc \/ LegacyShot \/ Report \/ Leave

Spec == Init /\ [][Next]_vars

----------------------------------------------------------------------------
(* Properties *)

Judging(v) == stage = "judged" /\ rows[cur].verdict = v

\* The text scan of _extract_compose_service_names finds what YAML means, for every
\* compose file that gives each service a block of its own.
ServicesAreExtracted ==
  services # {} /\ PlainCompose(input.compose) => services = Declared(input.compose)

\* An exploit is detonated only against a name that is a service of the compose file,
\* whatever the model answered (_detonate_finding's check of target_dns).
ExploitNamesAService ==
  stage \in {"detonate", "observe"} /\ PlainCompose(input.compose)
    => dns \in Declared(input.compose) \/ Declared(input.compose) = {}

\* A finding that any of its CWEs makes static is never exploited, in whatever order and
\* shape the report has them (the "conservative" rule of classify).
StaticIsNeverExploited ==
  \A i \in DOMAIN rows :
    rows[i].state \in {"APPROVED", "POC_GENERATED", "VERDICTED", "REFUSED"}
      => /\ rows[i].rule \notin OutOfScope
         /\ \A k \in DOMAIN rows[i].cwe :
              rows[i].cwe[k] \in DOMAIN CweVerdicts
                => CweVerdicts[rows[i].cwe[k]] # "STATIC_ONLY"

\* A refusal is final after a second attempt only; with OpenAI's content filter, which
\* complete() raises outside the retry, sooner (PocGenerator.generate).
RefusedAfterRetry ==
  Judging("REFUSED") => attempt = 2 \/ Provider = "openai"

\* the exploit in hand has changed the target, or something had before it
Changed       == \E change \in effects : change.by = cur
ChangedBefore == \E change \in effects : change.by # cur

\* TRUE_POSITIVE needs an exploit that exited with 0, a container that was looked at, and
\* something that an observer was shown there: a change by the exploit, a telling line in the
\* log while it ran, or what the code takes for one of these.  That is a change older than the
\* exploit (docker diff has no baseline), the directory of a scratch file (_is_noise) or, for a
\* CWE without patterns of its own, the complaint of a docker logs that failed.  An observer
\* that Docker did not answer, a docker diff that failed and a log without telling lines, cut
\* or not, corroborate nothing, and the word of the exploit alone is never enough
\* (_has_tier2_corroboration).
TruePositiveHasACause ==
  Judging("TRUE_POSITIVE") =>
    /\ run.ends = "success"
    /\ target # NoTarget
    /\ \/ answered.diff = "ok" /\ (Changed \/ ChangedBefore)
       \/ answered.logs = "ok" /\ shown # {}
       \/ answered.logs = "fails" /\ ObserverCwe(rows[cur]) \notin SpecificCwe

\* An exploit that exited with 0 and had an effect is not left INCONCLUSIVE when one observer
\* was shown it, whatever became of the other: a changed file that is no scratch file, or a
\* telling line among the last MaxLogLines, standard error counting as after standard output.
EffectIsNotMissed ==
  Judging("INCONCLUSIVE") /\ run.ends = "success" /\ target # NoTarget =>
    /\ answered.diff = "ok" => \A change \in effects : change.path # "file"
    /\ answered.logs = "ok" => \A after \in shown : after >= MaxLogLines

\* FALSE_POSITIVE is said of an exploit that ran, or ran out of time: a Docker that
\* does not start it says nothing of the finding (_looks_like_docker_client_error).
FalsePositiveRan ==
  Judging("FALSE_POSITIVE") => run.ends \in {"failure", "timeout"}

\* Every result of the Semgrep report is in the report of the run, once for its rule and
\* lines, however the run ended (the finally block).
EveryResultIsReported ==
  report.written /\ rows # <<>> =>
    LET found == ParseSemgrepJson(input.semgrep).value IN
    \A i \in DOMAIN found :
      Cardinality({k \in DOMAIN report.sarif : report.sarif[k].id = FindingId(found[i])}) = 1

\* The index of a SARIF result is that of its rule, and a row is in one markdown group once,
\* however many rows share a rule or a heading.
ReportIsConsistent ==
  report.written /\ rows # <<>> =>
    /\ \A k \in DOMAIN report.sarif :
         \E n \in DOMAIN report.rules :
           n = report.sarif[k].index + 1 /\ report.rules[n] = report.sarif[k].rule
    /\ \A i \in DOMAIN rows :
         \E h \in DOMAIN report.groups : \E n \in DOMAIN report.groups[h] :
           \A g \in DOMAIN report.groups : \A m \in DOMAIN report.groups[g] :
             report.groups[g][m] = rows[i] <=> g = h /\ m = n

\* When the command exits with 0 there is a report, and it either has an error or an
\* outcome for all that was approved: exceptions that are no ShieldClawError, which the
\* report does not show, exit with 1.
ExitCodeTells ==
  exit = "0" =>
    /\ report.written
    /\ report.error \/ (IF Mode(input.args) = "legacy" THEN report.outcome
                        ELSE \A i \in DOMAIN rows :
                               rows[i].state \notin {"APPROVED", "POC_GENERATED"})

\* get_target_container_id: "returns the ID of the first non-database service".
LookupFindsTheTarget ==
  stage = "next" /\ (\E s \in Declared(input.compose) : s \notin DbService)
    => target # NoTarget

\* synthesize: TRUE_POSITIVE with a non-empty diff, "at least one HTTP 200 response OR a
\* stack trace [...] in the captured log window".
TruePositiveWasWitnessed ==
  Judging("TRUE_POSITIVE") => effects # {} \/ shown # {}

=============================================================================
