------------------------------ MODULE Reports ------------------------------
(***************************************************************************)
(* What reporting/builder.py makes of the findings of a scan: the rules    *)
(* and results of a SARIF document, and the groups of a markdown report.   *)
(* A finding here is a record with at least rule, place, severity, state   *)
(* and verdict.                                                            *)
(***************************************************************************)
EXTENDS Naturals, Sequences, FiniteSets, SequencesExt

NoVerdict == "none"

Level(severity) ==
  CASE severity = "ERROR"   -> "error"
    [] severity = "WARNING" -> "warning"
    [] OTHER                -> "note"

\* the positions at which a rule occurs for the first time
FirstOfItsRule(findings) ==
  {i \in DOMAIN findings : \A j \in 1 .. i - 1 : findings[j].rule # findings[i].rule}

\* Positions in the order of the loop that goes through them
Ascending(positions) ==
  CHOOSE order \in SetToSeqs(positions) :
    \A j, k \in DOMAIN order : j < k => order[j] < order[k]

At(findings, positions) ==
  LET order == Ascending(positions) IN [n \in DOMAIN order |-> findings[order[n]]]

SarifRules(findings) ==
  LET firsts == At(findings, FirstOfItsRule(findings))
  IN [n \in DOMAIN firsts |-> firsts[n].rule]

\* variant: as if no rule came twice
IndexByFinding(findings, i) == i - 1

\* counted from 0
RuleIndex(findings, i) ==
  LET first == Min({j \in DOMAIN findings : findings[j].rule = findings[i].rule})
  IN Cardinality({j \in FirstOfItsRule(findings) : j < first})

SarifResults(findings) ==
  [i \in DOMAIN findings |->
     [id |-> <<findings[i].rule, findings[i].place>>, rule |-> findings[i].rule,
      index |-> RuleIndex(findings, i),
      level |-> Level(findings[i].severity), verdict |-> findings[i].verdict]]

\* a finding is listed under its verdict or, without one, under its state
Heading(f) == IF f.verdict # NoVerdict THEN f.verdict ELSE f.state

MarkdownGroups(findings) ==
  [h \in {Heading(findings[i]) : i \in DOMAIN findings} |->
     At(findings, {i \in DOMAIN findings : Heading(findings[i]) = h})]

=============================================================================
