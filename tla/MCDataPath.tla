----------------------------- MODULE MCDataPath -----------------------------
(* Small inputs for DataPath: four families, each with what its question needs *)
EXTENDS DataPathInvariant

MCPackagedVerdicts ==
  ("CWE-89"  :> "DYNAMICALLY_VERIFIABLE") @@ ("CWE-918" :> "DYNAMICALLY_VERIFIABLE") @@
  ("CWE-798" :> "STATIC_ONLY")

----------------------------------------------------------------------------
(* Compose files *)

Line(n, name, form) == [indent |-> n, name |-> name, form |-> form]

\* a line may be at the indentation of one before it that is still open, or deeper
\* than the last, and siblings have different names
ValidCompose(lines) ==
  /\ \A j \in DOMAIN lines : Parent(lines, j) = 0 => lines[j].indent = 0
  /\ Aligned(lines)
  /\ \A i, j \in DOMAIN lines :
       Parent(lines, i) = Parent(lines, j) /\ lines[i].name = lines[j].name => i = j

ComposeLines == [indent : 0..2, name : {"services", "web", "db"}, form : {"block", "value"}]

Composes == {lines \in UNION {[1..n -> ComposeLines] : n \in 0..4} : ValidCompose(lines)}

Plain   == <<Line(0, "services", "block"), Line(1, "web", "block"), Line(1, "db", "block")>>
\* web is given in one line, and is not found
Flow    == <<Line(0, "services", "block"), Line(1, "web", "value"), Line(1, "db", "block")>>
\* no service is found
AllFlow == <<Line(0, "services", "block"), Line(1, "web", "value")>>

----------------------------------------------------------------------------
(* Semgrep reports; the metadata of a result is that of its rule *)

Cwes(shape, items) == [shape |-> shape, items |-> items]

CweTexts ==
  {Cwes("none", <<>>), Cwes("text", <<"CWE-89">>), Cwes("text", <<"">>),
   Cwes("list", <<"CWE-89", "CWE-798">>), Cwes("list", <<"CWE-798", "CWE-89">>),
   Cwes("list", <<"CWE-1", "", "CWE-918">>), Cwes("list", <<"CWE-1">>)}

Result(rule, place, severity, cwe, complete) ==
  [rule |-> rule, place |-> place, severity |-> severity, cwe |-> cwe, complete |-> complete]

Good(rule, place, cwe) == Result(rule, place, "WARN", Cwes("text", <<cwe>>), TRUE)

Report1(results) == [file |-> "ok", results |-> results]

TriageReports ==
  {Report1(<<Result(rule, 1, severity, cwe, TRUE)>>) :
     rule \in {"sqli", "secrets.key"}, severity \in {"absent", "INFO", "HIGH"}, cwe \in CweTexts}
  \union {Report1(<<Good("sqli", 1, "CWE-89"), Result("sqli", 2, "ERROR", Cwes("none", <<>>), FALSE)>>)}
  \union {Report1(<<Good("ssrf", 1, "CWE-918"), Good("ssrf", 2, "CWE-918")>>)}
  \union {[file |-> f, results |-> <<>>] : f \in {"malformed", "undecodable", "ok"}}

PairReport == Report1(<<Good("sqli", 1, "CWE-89"), Good("ssrf", 1, "CWE-918")>>)

\* one finding: one result, one rule twice on the same lines
SingleReports ==
  {Report1(<<Good("ssrf", 1, "CWE-918")>>),
   Report1(<<Good("sqli", 1, "CWE-89"), Good("sqli", 1, "CWE-89")>>)}

\* a user's table may free a static CWE, or bind a verifiable one
NoTable == [file |-> "absent", verdicts |-> <<>>]

Tables ==
  {[file |-> "malformed", verdicts |-> <<>>]} \union
  {[file |-> "ok", verdicts |-> v] :
     v \in {"CWE-798" :> "DYNAMICALLY_VERIFIABLE", "CWE-89" :> "STATIC_ONLY",
            "CWE-89" :> "MAYBE"}}

----------------------------------------------------------------------------
(* Arguments *)

Args == [compose |-> TRUE, diff |-> "none", semgrep |-> "usable", provider |-> "ollama",
         timeout |-> 15, interactive |-> FALSE, autoApprove |-> TRUE]

LegacyArgs ==
  {[Args EXCEPT !.semgrep = "none", !.provider = p, !.diff = d] :
     p \in {"ollama", "openai"}, d \in {"none", "usable"}}

WrongArgs ==
  {[Args EXCEPT !.compose = FALSE], [Args EXCEPT !.semgrep = "empty"],
   [Args EXCEPT !.diff = "missing"], [Args EXCEPT !.timeout = 121],
   [Args EXCEPT !.timeout = 0], [Args EXCEPT !.provider = "other"],
   [Args EXCEPT !.interactive = TRUE]}

NoRepo == [compose |-> "text", git |-> FALSE, patch |-> "none", named |-> "absent",
           log |-> "absent"]

\* with a compose file that is not UTF-8
LatinRepo == [NoRepo EXCEPT !.compose = "undecodable"]

Repos == [compose : {"text"}, git : BOOLEAN, patch : {"none", "text"},
          named : {"absent", "text"}, log : {"absent", "blank", "text", "undecodable"}]
           \union {LatinRepo}

----------------------------------------------------------------------------
(* The families *)

Input(args, compose, semgrep, repo, digest, app) ==
  [args |-> args, compose |-> compose, semgrep |-> semgrep, verdicts |-> NoTable,
   repo |-> repo, digest |-> [db |-> digest], app |-> app]

App(writes, readable) == [writes |-> writes, readable |-> readable]

ComposeInputs ==
  {Input(Args, lines, Report1(<<>>), NoRepo, FALSE, App("nothing", TRUE)) : lines \in Composes}

TriageInputs ==
  {Input(Args, AllFlow, r, NoRepo, TRUE, App("nothing", TRUE)) : r \in TriageReports}
  \union
  {[Input(Args, AllFlow, Report1(<<Result("sqli", 1, "ERROR", cwe, TRUE)>>), NoRepo, TRUE,
          App("nothing", TRUE)) EXCEPT !.verdicts = t] : cwe \in CweTexts, t \in Tables}

DetonationInputs ==
  {Input(Args, Plain, PairReport, NoRepo, FALSE, App("nothing", TRUE))}
  \union
  {Input(Args, Plain, r, NoRepo, FALSE, app) :
     r \in SingleReports,
     app \in {App("nothing", TRUE), App("scratch", TRUE), App("nothing", FALSE)}}
  \union
  {Input([Args EXCEPT !.provider = "openai"], Plain, r, NoRepo, FALSE, App("nothing", TRUE)) :
     r \in SingleReports}
  \union
  {Input(Args, lines, Report1(<<Good("sqli", 1, "CWE-89")>>), NoRepo, digest, App("file", TRUE)) :
     lines \in {Plain, Flow}, digest \in BOOLEAN}
  \union
  {Input(Args, Plain, Report1(<<Good("sqli", 1, "CWE-89")>>), LatinRepo, FALSE, App("file", TRUE))}

LegacyInputs ==
  {Input(args, Plain, Report1(<<>>), repo, FALSE, App("nothing", TRUE)) :
     args \in LegacyArgs, repo \in Repos}
  \union
  {Input(args, Plain, Report1(<<>>), NoRepo, FALSE, App("nothing", TRUE)) : args \in WrongArgs}

MCInputs == ComposeInputs \union TriageInputs \union DetonationInputs \union LegacyInputs

\* one finding, a digest with "db" in it or an application whose log cannot be read
LookupInputs ==
  {Input(Args, Plain, Report1(<<Good("ssrf", 1, "CWE-918")>>), NoRepo, TRUE,
         App("nothing", TRUE))}

UnreadableInputs ==
  {Input(Args, Plain, Report1(<<Good("ssrf", 1, "CWE-918")>>), NoRepo, FALSE,
         App("nothing", FALSE))}

----------------------------------------------------------------------------
(* Answers, ends of docker run, logs *)

Text(refusing, phrase, json, host, port) ==
  [refusing |-> refusing, phrase |-> phrase, code |-> json # "none", json |-> json,
   dns |-> [text |-> IF port THEN host \o ":5000" ELSE host, host |-> host, port |-> port]]

MCAnswers ==
  {[body |-> b, text |-> Text(FALSE, FALSE, "none", "none", FALSE)] :
     b \in {"unreachable", "not json", "not object", "no content", "filtered"}}
  \union
  {[body |-> "text", text |-> t] :
     t \in {Text(TRUE, FALSE, "none", "none", FALSE), Text(TRUE, TRUE, "complete", "web", FALSE),
            Text(FALSE, FALSE, "none", "none", FALSE), Text(FALSE, FALSE, "unhashable", "none", FALSE),
            Text(FALSE, FALSE, "complete", "web", FALSE), Text(FALSE, FALSE, "complete", "db", TRUE),
            Text(FALSE, FALSE, "complete", "localhost", FALSE)}}

MCRuns ==
  [ends : {"success", "failure"}, output : {"plain", "like docker", "undecodable"}]
  \union [ends : {"timeout", "docker"}, output : {"plain"}]

MCListings == {<<>>, <<"db", "web">>, <<"db">>}

\* both services run
FullListing == {<<"db", "web">>}

MCLogTexts ==
  {[out |-> <<>>, err |-> <<>>], [out |-> <<"200">>, err |-> <<"plain">>],
   [out |-> <<"200">>, err |-> <<"plain", "plain">>], [out |-> <<"generic">>, err |-> <<>>],
   [out |-> <<"plain">>, err |-> <<"plain", "specific">>]}

=============================================================================
