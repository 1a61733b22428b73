------------------------------- MODULE Intake -------------------------------
(***************************************************************************)
(* What a command reads before it asks a model or Docker anything: its     *)
(* arguments (__main__.py), the compose file, the Semgrep report           *)
(* (ingest/semgrep.py), the triage table (triage/classifier.py) and, in    *)
(* legacy mode, the diff (context/aggregator.py).                          *)
(*                                                                         *)
(* Texts are abstracted to what the code tells apart.  A line of a compose *)
(* file, with its comment and blank lines left out, is a key at an         *)
(* indentation, which ends the line ("block") or has a value behind it.    *)
(***************************************************************************)
EXTENDS Naturals, Sequences, FiniteSets, SequencesExt

CONSTANTS
  PackagedVerdicts,   \* cwe_verdicts.toml of the package, [CWE id -> verdict]
  OutOfScope          \* rules with one of the _OUT_OF_SCOPE_PREFIXES

TriageVerdict == {"DYNAMICALLY_VERIFIABLE", "STATIC_ONLY", "OUT_OF_SCOPE"}

ASSUME IntakeAssumption ==
  \A c \in DOMAIN PackagedVerdicts : PackagedVerdicts[c] \in TriageVerdict

\* a result, or an exception: a ShieldClawError, or one that no handler expects
Value(v)  == [ok |-> TRUE, value |-> v]
Raises(e) == [ok |-> FALSE, error |-> e]

----------------------------------------------------------------------------
(* The compose file *)

\* the first line that reads "services:", at any indentation
ServicesLine(lines) ==
  SelectInSeq(lines, LAMBDA l : l.name = "services" /\ l.form = "block")

\* what is deeper than line i, up to the first line that is not
Below(lines, i) ==
  {j \in i + 1 .. Len(lines) : \A k \in i + 1 .. j : lines[k].indent > lines[i].indent}

\* variant: every key below is taken for a service
AllKeysBelow(lines) ==
  LET i == ServicesLine(lines) IN
  IF i = 0 THEN {}
  ELSE {lines[j].name : j \in {k \in Below(lines, i) : lines[k].form = "block"}}

\* the first key that ends its line gives the indentation of all services
ComposeServiceNames(lines) ==
  LET i    == ServicesLine(lines)
      keys == {j \in Below(lines, i) : lines[j].form = "block"}
  IN IF i = 0 \/ keys = {} THEN {}
     ELSE {lines[j].name : j \in {k \in keys : lines[k].indent = lines[Min(keys)].indent}}

\* What YAML says: line j belongs to the nearest earlier line that is less indented,
\* and the services are what belongs to the top-level key "services".
Parent(lines, j) == Max({0} \union {i \in 1 .. j - 1 : lines[i].indent < lines[j].indent})

TopServices(lines) ==
  SelectInSeq(lines, LAMBDA l : l.name = "services" /\ l.indent = 0)

Declared(lines) ==
  {lines[j].name : j \in {k \in 1 .. Len(lines) :
      TopServices(lines) # 0 /\ Parent(lines, k) = TopServices(lines)}}

\* YAML has what belongs to one key at one indentation.
Aligned(lines) ==
  \A i, j \in 1 .. Len(lines) :
    Parent(lines, i) = Parent(lines, j) => lines[i].indent = lines[j].indent

\* Every service is a block of its own, and no other key is called "services".
PlainCompose(lines) ==
  /\ \A j \in 1 .. Len(lines) : lines[j].name = "services" => j = TopServices(lines)
  /\ \A j \in 1 .. Len(lines) :
       j = TopServices(lines) \/ Parent(lines, j) = TopServices(lines)
         => lines[j].form = "block"

----------------------------------------------------------------------------
(* The Semgrep report *)

SeverityMap ==
  [INFO |-> "INFO", WARNING |-> "WARNING", WARN |-> "WARNING", ERROR |-> "ERROR",
   CRITICAL |-> "ERROR"]

\* extra.severity, "WARNING" when it is absent
NormaliseSeverity(raw) ==
  LET s == IF raw = "absent" THEN "WARNING" ELSE raw IN
  IF s \in DOMAIN SeverityMap THEN Value(SeverityMap[s]) ELSE Raises("shieldclaw")

\* extra.metadata.cwe: one text, a list of texts, or neither.  Blank items of a list
\* are left out, a single blank text is kept
NormaliseCwe(raw) ==
  CASE raw.shape = "text" -> raw.items
    [] raw.shape = "list" -> SelectSeq(raw.items, LAMBDA c : c # "")
    [] OTHER              -> <<>>

\* the required keys have their types, or an IngestError says which has not
ParseResult(raw) ==
  LET severity == NormaliseSeverity(raw.severity) IN
  IF raw.complete /\ severity.ok
    THEN Value([rule |-> raw.rule, place |-> raw.place, severity |-> severity.value,
                cwe |-> NormaliseCwe(raw.cwe)])
    ELSE Raises("shieldclaw")

\* All results or none.  The file may not be there, not be JSON, or not have the keys;
\* text that is not UTF-8 is a ValueError that nothing catches
ParseSemgrepJson(report) ==
  LET parsed == [i \in DOMAIN report.results |-> ParseResult(report.results[i])] IN
  IF report.file = "undecodable" THEN Raises("other")
  ELSE IF report.file = "malformed" \/ \E i \in DOMAIN parsed : ~parsed[i].ok
    THEN Raises("shieldclaw")
  ELSE Value([i \in DOMAIN parsed |-> parsed[i].value])

\* uuid5 of rule, path and lines; columns are no part of it
FindingId(f) == <<f.rule, f.place>>

----------------------------------------------------------------------------
(* Triage *)

\* A user's table: it may not be there, be "malformed" (no TOML, no [cwe_verdicts], a key
\* that is no CWE number), or have a verdict that is none: a ValueError nothing catches
ValidateCweVerdicts(user) ==
  IF user.file = "ok" /\ \A c \in DOMAIN user.verdicts : user.verdicts[c] \in TriageVerdict
    THEN Value(user.verdicts)
    ELSE Raises("other")

\* the user's verdicts over those of the package
LoadCweVerdicts(user) ==
  LET validated == ValidateCweVerdicts(user) IN
  IF user.file = "absent" THEN Value(PackagedVerdicts)
  ELSE IF validated.ok THEN Value(validated.value @@ PackagedVerdicts)
  ELSE validated

\* where a finding has a CWE that the table knows
MappedCwes(table, f) == {i \in DOMAIN f.cwe : f.cwe[i] \in DOMAIN table}

\* variant: the first mapped CWE decides
ClassifyByFirst(table, f) ==
  LET mapped == MappedCwes(table, f) IN
  IF f.rule \in OutOfScope \/ (f.severity = "INFO" /\ f.cwe = <<>>) THEN "OUT_OF_SCOPE"
  ELSE IF mapped # {} THEN table[f.cwe[Min(mapped)]]
  ELSE "STATIC_ONLY"

Classify(table, f) ==
  LET mapped == MappedCwes(table, f) IN
  IF f.rule \in OutOfScope \/ (f.severity = "INFO" /\ f.cwe = <<>>) THEN "OUT_OF_SCOPE"
  ELSE IF \E i \in mapped : table[f.cwe[i]] = "STATIC_ONLY" THEN "STATIC_ONLY"
  ELSE IF mapped # {} THEN table[f.cwe[Min(mapped)]]
  ELSE "STATIC_ONLY"

----------------------------------------------------------------------------
(* The legacy context: a compose file and a diff *)

\* a patch by name, else a patch lying in a directory that is no git repository, else
\* what git says
DiffSource(target, named) ==
  IF named THEN target.named
  ELSE IF ~target.git /\ target.patch # "none" THEN target.patch
  ELSE target.log

\* "absent" is a file that cannot be read or a git that fails, "blank" white space only.
\* What is "undecodable", no UTF-8, is a ValueError that nothing catches
Aggregate(target, named) ==
  LET diff == DiffSource(target, named) IN
  IF target.compose = "absent" THEN Raises("shieldclaw")
  ELSE IF "undecodable" \in {target.compose, diff} THEN Raises("other")
  ELSE IF diff \in {"absent", "blank"} THEN Raises("shieldclaw")
  ELSE Value(diff)

----------------------------------------------------------------------------
(* The arguments of `shieldclaw run` *)

\* validate_run_configuration: paths are checked as they are seen from the working
\* directory
Validates(args) ==
  /\ args.compose
  /\ args.diff    \in {"none", "usable"}
  /\ args.semgrep \in {"none", "usable"}
  /\ args.provider \in {"ollama", "openai"}
  /\ args.timeout \in 1 .. 120
  /\ ~(args.interactive /\ args.autoApprove)

\* Orchestrator.run: the report decides the mode, a resumed scan does not
Mode(args) == IF args.semgrep = "none" THEN "legacy" ELSE "sast"

=============================================================================
