------------------------- MODULE DataPathInvariant -------------------------
(***************************************************************************)
(* What a command knows at each of its stages: where its rows come from,   *)
(* what it holds of the finding in hand, what it still owes and what it    *)
(* has reported.  DataPathInvariant is inductive, and the properties of    *)
(* DataPath about verdicts, services, triage and exit codes follow.        *)
(***************************************************************************)
EXTENDS DataPath

\* the findings of the report, if it can be read
Found ==
  LET parsed == ParseSemgrepJson(input.semgrep) IN IF parsed.ok THEN parsed.value ELSE <<>>

\* what they are classified as, if the triage table can be read
Classes ==
  IF LoadCweVerdicts(input.verdicts).ok
    THEN {Classify(CweVerdicts, Found[j]) : j \in DOMAIN Found}
    ELSE {}

\* what a row has of the report was found there, or made of what was found there
Row ==
  [rule     : {Found[j].rule : j \in DOMAIN Found},
   place    : {Found[j].place : j \in DOMAIN Found},
   severity : {Found[j].severity : j \in DOMAIN Found},
   cwe      : {Found[j].cwe : j \in DOMAIN Found},
   triage   : Classes \union {"none"},
   state    : States,
   verdict  : Verdicts]

\* stages at which rows may be there, none of which is approved
Intaking == {"triage", "compose", "score", "approve"}
InHand   == {"generate", "dns", "detonate", "observe"}
Shooting == {"sandbox", "next", "judged"} \union InHand
Legacy   == {"aggregate", "legacy poc", "legacy shot"}
Leaving  == {"report", "exit", "end"}

\* Two results of one rule on the same lines have the same CWEs, which are the rule's.  Semgrep
\* writes no other report; one that is edited by hand may have the CWEs of the first result
\* kept and those of the last one classified.
RulesHaveTheirCwes ==
  \A i \in Inputs :
    LET results == i.semgrep.results IN
    \A j, k \in DOMAIN results :
      results[j].rule = results[k].rule /\ results[j].place = results[k].place
        => results[j].cwe = results[k].cwe

----------------------------------------------------------------------------

\* A row is a result of the report, and its triage that of a result with its id.  Who is
\* approved, or has come further, was found to be verifiable.
Sourced(r) ==
  /\ \E j \in DOMAIN Found :
       FindingId(Found[j]) = FindingId(r) /\ Found[j].cwe = r.cwe
  /\ r.triage # "none" =>
       \E j \in DOMAIN Found : /\ FindingId(Found[j]) = FindingId(r)
                               /\ Classify(CweVerdicts, Found[j]) = r.triage
  /\ r.state \in {"APPROVED", "POC_GENERATED", "VERDICTED", "REFUSED"} =>
       r.triage = "DYNAMICALLY_VERIFIABLE"

RowsKnown ==
  /\ rows \in Seq(Row)
  /\ stage \in {"start", "summary", "ingest"} \union Legacy => rows = <<>>
  /\ \A i \in DOMAIN rows : Sourced(rows[i])
  /\ stage \in Intaking =>
       \A i \in DOMAIN rows : rows[i].state \in {"INGESTED", "TRIAGED", "SCORED"}

\* services are those of the file, once it is read
ServicesKnown ==
  /\ services \in {{}, ComposeServiceNames(input.compose)}
  /\ stage \in {"score", "approve"} \union Shooting =>
       services = ComposeServiceNames(input.compose)

\* the finding in hand, its attempt, its exploit; nothing is kept between two findings
HandKnown ==
  /\ IF stage \in InHand \union {"judged"}
       THEN cur \in DOMAIN rows /\ cur \notin todo /\ attempt \in 1 .. 2
       ELSE cur = 0 /\ attempt = 0 /\ shown = {} /\ answered = Unasked
  /\ stage \notin {"observe", "judged"} \union Leaving => run = NoRun
  /\ stage = "observe" => run # NoRun /\ RunResult(run).kind = "code"
  /\ stage \in {"detonate", "observe"} => services = {} \/ dns \in services

\* an approved row is still in the loop or in hand, unless the command was broken off
Owing == {i \in DOMAIN rows : rows[i].state \in {"APPROVED", "POC_GENERATED"}}

OwedKnown ==
  /\ todo \subseteq DOMAIN rows
  /\ stage \in {"sandbox", "next", "judged"} => Owing = todo
  /\ stage \in InHand => Owing = todo \union {cur}
  /\ stage \in Leaving /\ error = "none" => Owing = {}
  /\ stage \notin Leaving => error = "none"

\* the command is what its arguments say, what it triages by could be read, and a legacy one
\* that reports no error has run its exploit
ModeKnown ==
  /\ stage \in {"summary", "ingest"} \union Intaking \union Shooting => Mode(input.args) = "sast"
  /\ stage \in {"ingest"} \union Intaking => LoadCweVerdicts(input.verdicts).ok
  /\ stage \in Legacy => Mode(input.args) = "legacy"
  /\ stage \in {"report", "exit"} /\ Mode(input.args) = "legacy" /\ error = "none"
       => run # NoRun

\* the report tells an error, and a legacy report an outcome
ReportKnown ==
  /\ stage # "end" => exit = "none"
  /\ stage = "exit" => /\ report.written
                       /\ report.error = (error = "shieldclaw")
                       /\ report.outcome = (run # NoRun)

\* the ids of the report have a row each, once there are rows, and the report shows the rows
IdsKnown ==
  /\ \A i, k \in DOMAIN rows : FindingId(rows[i]) = FindingId(rows[k]) => i = k
  /\ rows # <<>> =>
       \A j \in DOMAIN Found : \E i \in DOMAIN rows : FindingId(rows[i]) = FindingId(Found[j])
  /\ report.written => /\ stage \in {"exit", "end"}
                       /\ report.sarif = SarifResults(rows)
                       /\ report.rules = SarifRules(rows)
                       /\ report.groups = MarkdownGroups(rows)

\* Every stage relies on what the ones before it have left.
StagesKnown ==
  /\ TypeOK
  /\ RowsKnown /\ ServicesKnown /\ HandKnown /\ OwedKnown /\ ModeKnown /\ ReportKnown
  /\ RefusedAfterRetry /\ TruePositiveHasACause /\ EffectIsNotMissed /\ FalsePositiveRan
  /\ ExitCodeTells

DataPathInvariant == StagesKnown /\ IdsKnown

=============================================================================
