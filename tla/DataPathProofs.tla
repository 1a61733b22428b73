--------------------------- MODULE DataPathProofs ---------------------------
(***************************************************************************)
(* Proofs that a command keeps DataPathInvariant, from its arguments to    *)
(* its exit code, whatever the model answers and Docker shows.             *)
(***************************************************************************)
EXTENDS DataPathInvariant, ReportProofs

\* The input is what it was when the command began.
CommandInvariant == input \in Inputs /\ StagesKnown

----------------------------------------------------------------------------
(* What a model's answer becomes *)

\* A refusal is followed by another attempt after the first only, and is final at the first
\* attempt only when the provider itself has raised it.
LEMMA AttemptIs ==
  ASSUME NEW provider, NEW answer, NEW n
  PROVE  /\ Attempt(provider, answer, n).kind = "retry" => n = 1
         /\ Attempt(provider, answer, n).kind = "refusal" => n # 1 \/ provider = "openai"
<1>1. provider # "openai" => MessageText(provider, answer).kind # "refusal"
  BY DEF MessageText, OllamaText, Failure, Got, Crash
<1>2. MessageText(provider, answer).kind # "retry"
  BY DEF MessageText, OpenaiText, OllamaText, Failure, Got, Crash
<1>3. ParseLlmResponse(MessageText(provider, answer).value).kind # "retry"
  BY DEF ParseLlmResponse, Failure, Got
<1> QED BY <1>1, <1>2, <1>3 DEF Attempt, Failure

----------------------------------------------------------------------------
(* What a detonation and the observers become *)

\* An exit code tells how the exploit ended.
LEMMA RunResultIs ==
  ASSUME NEW r, r.ends \in {"success", "failure", "timeout", "docker"},
         RunResult(r).kind = "code"
  PROVE  \/ r.ends = "success" /\ RunResult(r).code = 0
         \/ r.ends = "failure" /\ RunResult(r).code = 1
         \/ r.ends = "timeout" /\ RunResult(r).code = 124
BY DEF RunResult

\* An exploit that did not return an exit code did not succeed, when Docker says so.
LEMMA RunErrorIs ==
  ASSUME NEW r, r.ends \in {"success", "failure", "timeout", "docker"},
         RunResult(r).kind = "error"
  PROVE  r.ends # "success"
BY DEF RunResult

Seen == {<<>>, Tier2(FALSE), Tier2(TRUE)}

\* One observer says nothing, that it saw nothing, or that it saw something.
LEMMA EvidenceIs ==
  ASSUME NEW c, NEW d \in Seen, NEW l \in Seen,
         NEW e, e = ExitCodeEvidence(c) \o d \o l
  PROVE  /\ e # <<>>
         /\ ExitCodes(e) = {c}
         /\ Corroborated(e) <=> d = Tier2(TRUE) \/ l = Tier2(TRUE)
<1> DEFINE x == [tier |-> 1, code |-> c]
           no == [tier |-> 2, signal |-> FALSE]
           yes == [tier |-> 2, signal |-> TRUE]
<1>1. d \in {<<>>, <<no>>, <<yes>>} /\ l \in {<<>>, <<no>>, <<yes>>}
  BY DEF Seen, Tier2
<1>2. e = <<x>> \o d \o l
  BY DEF ExitCodeEvidence
<1>3. /\ x.tier = 1 /\ x.code = c
      /\ no.tier = 2 /\ ~no.signal
      /\ yes.tier = 2 /\ yes.signal /\ no # yes
  <2>1. no.signal = FALSE /\ yes.signal = TRUE OBVIOUS
  <2>2. no # yes
    <3> HIDE DEF no, yes
    <3> QED BY <2>1
  <2>3. x.tier = 1 /\ x.code = c /\ no.tier = 2 /\ yes.tier = 2 OBVIOUS
  <2>4. ~no.signal BY <2>1
  <2>5. yes.signal BY <2>1
  <2> HIDE DEF x, no, yes
  <2> QED BY <2>2, <2>3, <2>4, <2>5
<1> HIDE DEF x, no, yes
<1> DEFINE S == {x, no, yes}
<1>4. /\ <<x>> \in Seq(S) /\ Len(<<x>>) = 1 /\ <<x>>[1] = x
      /\ d \in Seq(S) /\ Len(d) \in 0 .. 1 /\ (Len(d) = 1 => d[1] \in {no, yes})
      /\ l \in Seq(S) /\ Len(l) \in 0 .. 1 /\ (Len(l) = 1 => l[1] \in {no, yes})
  <2>1. ASSUME NEW o \in {<<>>, <<no>>, <<yes>>}
        PROVE  o \in Seq(S) /\ Len(o) \in 0 .. 1 /\ (Len(o) = 1 => o[1] \in {no, yes})
    <3>1. CASE o = <<>>
      BY <3>1
    <3>2. CASE o = <<no>>
      <4>1. o \in Seq(S) /\ Len(o) = 1 /\ o[1] = no BY <3>2
      <4> QED BY <4>1
    <3>3. CASE o = <<yes>>
      <4>1. o \in Seq(S) /\ Len(o) = 1 /\ o[1] = yes BY <3>3
      <4> QED BY <4>1
    <3> QED BY <3>1, <3>2, <3>3
  <2>2. <<x>> \in Seq(S) /\ Len(<<x>>) = 1 /\ <<x>>[1] = x OBVIOUS
  <2> HIDE DEF S
  <2> QED BY <1>1, <2>1, <2>2
<1>5. /\ d = <<yes>> <=> Len(d) = 1 /\ d[1] = yes
      /\ l = <<yes>> <=> Len(l) = 1 /\ l[1] = yes
  <2>1. ASSUME NEW o \in {<<>>, <<no>>, <<yes>>}
        PROVE  o = <<yes>> <=> Len(o) = 1 /\ o[1] = yes
    BY <1>3
  <2> QED BY <1>1, <2>1
<1> HIDE DEF S
<1>6. /\ <<x>> \o d \in Seq(S) /\ Len(<<x>> \o d) = 1 + Len(d)
      /\ (<<x>> \o d)[1] = x /\ (Len(d) = 1 => (<<x>> \o d)[2] = d[1])
  <2>1. /\ <<x>> \o d \in Seq(S) /\ Len(<<x>> \o d) = Len(<<x>>) + Len(d)
        /\ \A i \in 1 .. Len(<<x>>) + Len(d) :
             (<<x>> \o d)[i] = IF i <= Len(<<x>>) THEN <<x>>[i] ELSE d[i - Len(<<x>>)]
    BY <1>4, ConcatProperties
  <2> QED BY <1>4, <2>1
<1>7. /\ e \in Seq(S) /\ Len(e) = 1 + Len(d) + Len(l) /\ e[1] = x
      /\ Len(d) = 1 => e[2] = d[1]
      /\ Len(l) = 1 => e[2 + Len(d)] = l[1]
  <2>1. /\ e \in Seq(S) /\ Len(e) = 1 + Len(d) + Len(l)
        /\ \A i \in 1 .. 1 + Len(d) + Len(l) :
             e[i] = IF i <= 1 + Len(d) THEN (<<x>> \o d)[i] ELSE l[i - (1 + Len(d))]
    BY <1>2, <1>4, <1>6, ConcatProperties
  <2> QED BY <1>4, <1>6, <2>1
<1>8. DOMAIN e = 1 .. 1 + Len(d) + Len(l)
  BY <1>7, LenProperties
<1>9. \A i \in DOMAIN e :
         \/ i = 1
         \/ i = 2 /\ Len(d) = 1
         \/ i = 2 + Len(d) /\ Len(l) = 1
  <2> TAKE i \in DOMAIN e
  <2>1. i \in Nat /\ 1 <= i /\ i <= 1 + Len(d) + Len(l) BY <1>4, <1>8
  <2>2. Len(d) = 0 \/ Len(d) = 1 BY <1>4
  <2>3. Len(l) = 0 \/ Len(l) = 1 BY <1>4
  <2>4. CASE Len(d) = 0 BY <2>1, <2>3, <2>4
  <2>5. CASE Len(d) = 1 BY <2>1, <2>3, <2>5
  <2> QED BY <2>2, <2>4, <2>5
<1>10. 1 \in DOMAIN e /\ \A i \in DOMAIN e : i # 1 => e[i] \in {no, yes}
  BY <1>4, <1>7, <1>8, <1>9
<1>11. \A i \in DOMAIN e : /\ e[i].tier = 1 <=> i = 1
                           /\ e[i].tier = 2 /\ e[i].signal <=> e[i] = yes
  <2> TAKE i \in DOMAIN e
  <2>1. e[i] \in {x, no, yes} /\ (i = 1 => e[i] = x) /\ (i # 1 => e[i] \in {no, yes})
    BY <1>7, <1>10
  <2>2. CASE i = 1 BY <1>3, <2>1, <2>2
  <2>3. CASE i # 1
    <3>1. CASE e[i] = no BY <1>3, <2>3, <3>1
    <3>2. CASE e[i] = yes BY <1>3, <2>3, <3>2
    <3> QED BY <2>1, <2>3, <3>1, <3>2
  <2> QED BY <2>2, <2>3
<1>12. {j \in DOMAIN e : e[j].tier = 1} = {1}
  BY <1>10, <1>11
<1>13. ExitCodes(e) = {c}
  BY <1>3, <1>7, <1>12 DEF ExitCodes
<1>14. Corroborated(e) <=> \E i \in DOMAIN e : e[i] = yes
  BY <1>11 DEF Corroborated
<1>15. (\E i \in DOMAIN e : e[i] = yes) <=> d = <<yes>> \/ l = <<yes>>
  <2>1. ASSUME NEW i \in DOMAIN e, e[i] = yes PROVE d = <<yes>> \/ l = <<yes>>
    <3>1. i # 1 BY <1>3, <1>7, <2>1
    <3> QED BY <1>5, <1>7, <1>9, <2>1, <3>1
  <2>2. ASSUME d = <<yes>> PROVE \E i \in DOMAIN e : e[i] = yes
    <3>1. 2 \in DOMAIN e /\ e[2] = yes BY <1>4, <1>5, <1>7, <1>8, <2>2
    <3> QED BY <3>1
  <2>3. ASSUME l = <<yes>> PROVE \E i \in DOMAIN e : e[i] = yes
    <3>1. 2 + Len(d) \in DOMAIN e /\ e[2 + Len(d)] = yes BY <1>4, <1>5, <1>7, <1>8, <2>3
    <3> QED BY <3>1
  <2> QED BY <2>1, <2>2, <2>3
<1>16. e # <<>>
  BY <1>8, <1>10
<1> QED BY <1>13, <1>14, <1>15, <1>16 DEF Tier2, yes

LEMMA Tier2Is ==
  /\ Tier2(TRUE) # Tier2(FALSE)
  /\ \A b \in BOOLEAN : Tier2(b) # <<>>
<1>1. [tier |-> 2, signal |-> TRUE].signal # [tier |-> 2, signal |-> FALSE].signal
  OBVIOUS
<1>2. Tier2(TRUE)[1] # Tier2(FALSE)[1]
  BY <1>1 DEF Tier2
<1> QED BY <1>2 DEF Tier2

\* The diff shows something when the container is there, Docker answers and what it lists is not
\* all noise.
LEMMA DiffIs ==
  ASSUME NEW tgt, NEW docker, NEW paths
  PROVE  /\ DiffEvidence(tgt, docker, paths) \in Seen
         /\ DiffEvidence(tgt, docker, paths) = Tier2(TRUE)
              <=> tgt # NoTarget /\ docker = "ok" /\ \E path \in paths : ~IsNoise(path)
<1>1. CASE Unseen(tgt, docker)
  <2>1. DiffEvidence(tgt, docker, paths) \in {<<>>, Tier2(FALSE)}
    BY <1>1 DEF DiffEvidence, Unsaid
  <2>2. ~(tgt # NoTarget /\ docker = "ok")
    BY <1>1 DEF Unseen
  <2> QED BY <2>1, <2>2, Tier2Is DEF Seen
<1>2. CASE ~Unseen(tgt, docker)
  <2> DEFINE b == docker = "ok" /\ \E path \in paths : ~IsNoise(path)
  <2>1. DiffEvidence(tgt, docker, paths) = Tier2(b)
    BY <1>2 DEF DiffEvidence
  <2>2. tgt # NoTarget
    BY <1>2 DEF Unseen
  <2>3. CASE b
    <3>1. Tier2(b) = Tier2(TRUE) BY <2>3
    <3> QED BY <2>1, <2>2, <2>3, <3>1 DEF Seen
  <2>4. CASE ~b
    <3>1. Tier2(b) = Tier2(FALSE) BY <2>4
    <3> QED BY <2>1, <2>2, <2>4, <3>1, Tier2Is DEF Seen
  <2> QED BY <2>3, <2>4
<1> QED BY <1>1, <1>2

\* The last lines of a log are lines of it, and a line is among them when fewer than MaxLogLines
\* come after it.
LEMMA LastLinesAre ==
  ASSUME NEW out \in Seq(STRING), NEW err \in Seq(STRING)
  PROVE  /\ \A i \in DOMAIN LastLines(out, err) :
              \E j \in DOMAIN (out \o err) : LastLines(out, err)[i] = (out \o err)[j]
         /\ \A j \in DOMAIN (out \o err) :
              Len(out \o err) - j < MaxLogLines =>
                \E i \in DOMAIN LastLines(out, err) : LastLines(out, err)[i] = (out \o err)[j]
<1> DEFINE all == out \o err
<1>1. all \in Seq(STRING) /\ Len(all) \in Nat /\ DOMAIN all = 1 .. Len(all)
  BY ConcatProperties, LenProperties
<1>2. MaxLogLines \in Nat
  BY ObservationAssumption
<1> HIDE DEF all
<1>3. CASE Len(all) <= MaxLogLines
  <2>1. LastLines(out, err) = all BY <1>3 DEF LastLines, all
  <2> QED BY <2>1 DEF all
<1>4. CASE ~(Len(all) <= MaxLogLines)
  <2> DEFINE m == Len(all) - MaxLogLines + 1
             last == SubSeq(all, m, Len(all))
  <2>1. LastLines(out, err) = last
    BY <1>4 DEF LastLines, all
  <2>2. m \in 1 .. Len(all) + 1
    BY <1>1, <1>2, <1>4
  <2>3. \A i \in m .. Len(all) : all[i] \in STRING
    BY <1>1, <2>2, ElementOfSeq
  <2> HIDE DEF m
  <2>4. /\ last \in Seq(STRING)
        /\ Len(last) = IF m <= Len(all) THEN Len(all) - m + 1 ELSE 0
        /\ \A i \in 1 .. Len(all) - m + 1 : last[i] = all[m + i - 1]
    BY <1>1, <2>2, <2>3, SubSeqProperties
  <2>5. DOMAIN last = 1 .. Len(last) /\ Len(last) \in Nat
    BY <2>4, LenProperties
  <2> HIDE DEF last
  <2>6. ASSUME NEW i \in DOMAIN last PROVE m + i - 1 \in DOMAIN all /\ last[i] = all[m + i - 1]
    <3>1. Len(last) <= Len(all) - m + 1
      BY <1>1, <2>2, <2>4
    <3>2. i \in 1 .. Len(all) - m + 1
      BY <1>1, <2>2, <2>5, <3>1
    <3>3. m + i - 1 \in 1 .. Len(all)
      BY <1>1, <2>2, <3>2
    <3> QED BY <1>1, <2>4, <3>2, <3>3
  <2>7. ASSUME NEW j \in DOMAIN all, Len(all) - j < MaxLogLines
        PROVE  \E i \in DOMAIN last : last[i] = all[j]
    <3>1. j - m + 1 \in 1 .. Len(all) - m + 1 /\ m <= Len(all)
      BY <1>1, <1>2, <1>4, <2>7 DEF m
    <3>2. j - m + 1 \in DOMAIN last
      BY <2>4, <2>5, <3>1
    <3>3. last[j - m + 1] = all[j]
      <4>1. last[j - m + 1] = all[m + (j - m + 1) - 1] BY <2>4, <3>1
      <4>2. m + (j - m + 1) - 1 = j BY <1>1, <2>2
      <4> QED BY <4>1, <4>2
    <3> QED BY <3>2, <3>3
  <2> QED BY <2>1, <2>6, <2>7 DEF all
<1> QED BY <1>3, <1>4

IsTelling(cwe, line) == line \in {"200"} \union ErrorWords(cwe)

\* The complaint of docker logs is a generic error word.
LEMMA ComplaintTells == \A cwe : IsTelling(cwe, "generic") <=> cwe \notin SpecificCwe
BY DEF IsTelling, ErrorWords

\* The log shows something when the container is there and Docker answers, with a telling line
\* of the log or, when it fails, with a complaint that counts for the CWE; a telling line that
\* is not pushed out is shown.
LEMMA LogsAre ==
  ASSUME NEW tgt, NEW docker \in DockerEnds, NEW cwe,
         NEW out \in Seq(STRING), NEW err \in Seq(STRING),
         NEW all, all = out \o err
  PROVE  LET e == LogsEvidence(tgt, docker, cwe, out, err) IN
         /\ e \in Seen
         /\ e = Tier2(TRUE) =>
              /\ tgt # NoTarget
              /\ \/ docker = "ok" /\ \E i \in DOMAIN all : IsTelling(cwe, all[i])
                 \/ docker = "fails" /\ cwe \notin SpecificCwe
         /\ tgt # NoTarget /\ docker = "ok" =>
              \A i \in DOMAIN all :
                IsTelling(cwe, all[i]) /\ Len(all) - i < MaxLogLines => e = Tier2(TRUE)
<1> DEFINE e == LogsEvidence(tgt, docker, cwe, out, err)
           lines == IF docker = "fails" THEN <<"generic">> ELSE LastLines(out, err)
           b == \E i \in DOMAIN lines : lines[i] \in {"200"} \union ErrorWords(cwe)
<1>1. CASE Unseen(tgt, docker)
  <2>1. e \in {<<>>, Tier2(FALSE)}
    BY <1>1 DEF LogsEvidence, Unsaid
  <2>2. ~(tgt # NoTarget /\ docker = "ok")
    BY <1>1 DEF Unseen
  <2> HIDE DEF e
  <2>3. e \in Seen /\ e # Tier2(TRUE) BY <2>1, Tier2Is DEF Seen
  <2> QED BY <2>2, <2>3 DEF e
<1>2. CASE ~Unseen(tgt, docker)
  <2>1. e = Tier2(b)
    BY <1>2 DEF LogsEvidence
  <2>2. tgt # NoTarget /\ docker \in {"ok", "fails"}
    BY <1>2 DEF Unseen, DockerEnds
  <2>3. ASSUME docker = "fails", b PROVE cwe \notin SpecificCwe
    <3>1. lines = <<"generic">> BY <2>3
    <3>2. "generic" \in {"200"} \union ErrorWords(cwe) BY <2>3, <3>1
    <3> QED BY <3>2, ComplaintTells DEF IsTelling
  <2>4. ASSUME docker = "ok", b PROVE \E j \in DOMAIN all : IsTelling(cwe, all[j])
    <3>1. PICK i \in DOMAIN LastLines(out, err) :
              LastLines(out, err)[i] \in {"200"} \union ErrorWords(cwe)
      BY <2>4
    <3>2. PICK j \in DOMAIN all : LastLines(out, err)[i] = all[j]
      BY LastLinesAre
    <3> QED BY <3>1, <3>2 DEF IsTelling
  <2>5. ASSUME docker = "ok", NEW j \in DOMAIN all, IsTelling(cwe, all[j]),
               Len(all) - j < MaxLogLines
        PROVE  b
    <3>1. PICK i \in DOMAIN LastLines(out, err) : LastLines(out, err)[i] = all[j]
      BY <2>5, LastLinesAre
    <3>2. lines = LastLines(out, err)
      BY <2>5
    <3>3. LastLines(out, err)[i] \in {"200"} \union ErrorWords(cwe)
      BY <2>5, <3>1 DEF IsTelling
    <3> QED BY <3>2, <3>3
  <2> HIDE DEF e, b
  <2>6. e \in Seen /\ (e = Tier2(TRUE) <=> b)
    <3>1. CASE b
      <4>1. b = TRUE BY <3>1 DEF b
      <4> QED BY <2>1, <3>1, <4>1 DEF Seen
    <3>2. CASE ~b
      <4>1. b = FALSE BY <3>2 DEF b
      <4> QED BY <2>1, <3>2, <4>1, Tier2Is DEF Seen
    <3> QED BY <3>1, <3>2
  <2> QED BY <2>2, <2>3, <2>4, <2>5, <2>6 DEF e
<1> QED BY <1>1, <1>2

\* With one exit code, TRUE_POSITIVE needs it to be 0 and a signal, and 0 without a signal
\* is INCONCLUSIVE; anything else is FALSE_POSITIVE (synthesize).
LEMMA SynthesizeIs ==
  ASSUME NEW e, NEW c, e # <<>>, ExitCodes(e) = {c}
  PROVE  Synthesize(e).verdict = IF c # 0 THEN "FALSE_POSITIVE"
                                 ELSE IF Corroborated(e) THEN "TRUE_POSITIVE"
                                 ELSE "INCONCLUSIVE"
<1>1. {c} # {} /\ ({c} = {0} <=> c = 0)
  OBVIOUS
<1> QED BY <1>1 DEF Synthesize

----------------------------------------------------------------------------
(* What a step leaves alone *)

\* A row is judged by the same report as before.
LEMMA SameReport ==
  ASSUME input' = input
  PROVE  Row' = Row /\ \A r : Sourced(r)' <=> Sourced(r)
BY DEF Row, Found, Classes, Sourced, CweVerdicts

\* The exceptions of the readers are of the two kinds that are told apart.
LEMMA ErrorsAre ==
  /\ \A report_ : ~ParseSemgrepJson(report_).ok =>
       ParseSemgrepJson(report_).error \in {"shieldclaw", "other"}
  /\ \A repo, named : ~Aggregate(repo, named).ok =>
       Aggregate(repo, named).error \in {"shieldclaw", "other"}
  /\ \A outcome : ErrorOf(outcome) \in {"shieldclaw", "other"}
BY DEF ParseSemgrepJson, Aggregate, Raises, Value, ErrorOf

\* What docker diff has to show of a change is a change by whoever made it.
LEMMA ChangesAre ==
  \A where \in DOMAIN Listed : \A who : Changes(who, where) \subseteq [by : {who}, path : Paths]
<1> SUFFICES ASSUME NEW where \in DOMAIN Listed, NEW who
             PROVE  Changes(who, where) \subseteq [by : {who}, path : Paths]
  OBVIOUS
<1>1. Listed[where] \subseteq Paths
  BY DEF Paths
<1> QED BY <1>1 DEF Changes

LEMMA EffectsAre ==
  ASSUME NEW n \in Nat, NEW who \in 0 .. n, NEW where \in DOMAIN Listed,
         NEW before \in SUBSET [by : 0 .. n, path : Paths]
  PROVE  before \union Changes(who, where) \subseteq [by : 0 .. n, path : Paths]
<1>1. Changes(who, where) \subseteq [by : {who}, path : Paths]
  BY ChangesAre
<1> QED BY <1>1

LEMMA RunIsNoNull == \A r \in Runs : r # NoRun
<1> SUFFICES ASSUME NEW r \in Runs, r = NoRun PROVE FALSE OBVIOUS
<1>1. r.ends \in {"success", "failure", "timeout", "docker"} BY DataPathAssumption
<1>2. NoRun.ends = "none" BY DEF NoRun
<1> QED BY <1>1, <1>2

----------------------------------------------------------------------------
(* Steps that leave the rows alone *)

RowsAsBefore ==
  /\ input' = input /\ rows' = rows
  /\ (rows \in Seq(Row))' /\ (\A i \in DOMAIN rows : Sourced(rows[i]))'
  /\ Len(rows) \in Nat /\ DOMAIN rows = 1 .. Len(rows)
  /\ rows = <<>> <=> DOMAIN rows = {}

LEMMA RowsStay ==
  ASSUME CommandInvariant, input' = input, rows' = rows
  PROVE  RowsAsBefore
<1>1. rows \in Seq(Row) /\ \A i \in DOMAIN rows : Sourced(rows[i])
  BY DEF CommandInvariant, StagesKnown, RowsKnown
<1>2. Len(rows) \in Nat /\ DOMAIN rows = 1 .. Len(rows)
  BY <1>1, LenProperties
<1>3. rows = <<>> <=> DOMAIN rows = {}
  BY <1>1, <1>2, EmptySeq
<1> QED BY <1>1, <1>2, <1>3, SameReport DEF RowsAsBefore

\* What the application has written before the first exploit.
LEMMA WrittenAtStart ==
  ASSUME CommandInvariant, SandboxUp
  PROVE  effects' \subseteq [by : 0 .. Len(rows), path : Paths]
<1>1. effects' = Changes(0, input.app.writes) /\ input.app.writes \in DOMAIN Listed
  BY DataPathAssumption DEF SandboxUp, CommandInvariant
<1>2. effects' \subseteq [by : {0}, path : Paths]
  BY <1>1, ChangesAre
<1>3. 0 \in 0 .. Len(rows)
  <2>1. rows \in Seq(Row) BY DEF CommandInvariant, StagesKnown, RowsKnown
  <2>2. Len(rows) \in Nat BY <2>1, LenProperties
  <2> QED BY <2>2
<1> QED BY <1>2, <1>3

\* The start of a command, and what it reads besides the report.
LEMMA StartKeeps ==
  ASSUME CommandInvariant, Reject \/ Dispatch \/ Summarise \/ ReadCompose \/ SandboxUp
  PROVE  CommandInvariant'
<1>0. RowsAsBefore
  BY RowsStay DEF Reject, Dispatch, Summarise, ReadCompose, SandboxUp
<1> USE <1>0
    DEF RowsAsBefore, CommandInvariant, StagesKnown, TypeOK, RowsKnown, ServicesKnown,
        HandKnown, Owing, OwedKnown, ModeKnown, ReportKnown, RefusedAfterRetry,
        TruePositiveHasACause, EffectIsNotMissed, FalsePositiveRan, ExitCodeTells, Judging, Goto,
        findingVars, Stages, InHand, Shooting, Legacy, Leaving, Intaking
<1>1. CASE Reject BY <1>1 DEF Reject
<1>2. CASE Dispatch BY <1>2 DEF Dispatch, Mode
<1>3. CASE Summarise BY <1>3 DEF Summarise
<1>4. CASE ReadCompose
  <2>1. IsFiniteSet(ComposeServiceNames(input.compose))
    BY NamesAreFinite, DataPathAssumption DEF Lines
  <2> QED BY <1>4, <2>1 DEF ReadCompose
<1>5. CASE SandboxUp
  <2>1. effects' \subseteq [by : 0 .. Len(rows), path : Paths]
    BY <1>5, WrittenAtStart
  <2>2. /\ stage = "sandbox" /\ stage' = "next"
        /\ UNCHANGED <<input, services, rows, todo, findingVars, error, report, exit>>
    BY <1>5 DEF SandboxUp
  <2> QED BY <2>1, <2>2
<1> QED BY <1>1, <1>2, <1>3, <1>4, <1>5

\* Whatever is raised, nothing is left in hand, and the report has it.
LEMMA RaiseKeeps ==
  ASSUME CommandInvariant, NEW from \in Stages \ ({"start", "judged"} \union Leaving),
         NEW e \in {"shieldclaw", "other"}, Raise(from, e)
  PROVE  CommandInvariant'
<1>0. RowsAsBefore
  BY RowsStay DEF Raise
<1> USE <1>0 DEF RowsAsBefore, CommandInvariant, StagesKnown, Raise, Goto, LeaveFinding,
                 Teardown
<1>1. TypeOK' /\ (input \in Inputs)'
  <2>1. shown' \subseteq Nat
        /\ answered' \in [diff : DockerEnds, logs : DockerEnds] \union {Unasked}
    OBVIOUS
  <2>2. 0 \in 0 .. Len(rows)
    OBVIOUS
  <2>3. stage' \in Stages /\ (IsFiniteSet(services))'
    BY DEF TypeOK, Stages
  <2>4. \A i \in DOMAIN rows : rows[i].state \in States /\ rows[i].verdict \in Verdicts
    BY DEF TypeOK
  <2>5. (\A i \in DOMAIN rows : rows[i].state \in States /\ rows[i].verdict \in Verdicts)'
    BY <2>4
  <2>6. (todo \subseteq DOMAIN rows)' /\ (cur \in 0 .. Len(rows))'
        /\ (effects \subseteq [by : 0 .. Len(rows), path : Paths])'
    BY <2>2 DEF TypeOK
  <2>7. attempt' \in 0 .. 2 /\ run' \in Runs \union {NoRun}
    OBVIOUS
  <2>8. error' \in {"none", "shieldclaw", "other"} /\ exit' \in {"none", "0", "1"}
    BY DEF TypeOK
  <2> QED BY <2>1, <2>3, <2>5, <2>6, <2>7, <2>8 DEF TypeOK
<1>2. RowsKnown' /\ ServicesKnown'
  BY DEF RowsKnown, ServicesKnown, Intaking, Shooting, InHand, Legacy
<1>3. HandKnown' /\ OwedKnown'
  BY DEF HandKnown, OwedKnown, InHand, Leaving
<1>4. ModeKnown' /\ ReportKnown'
  BY DEF ModeKnown, ReportKnown, OwedKnown, Intaking, Shooting, InHand, Legacy, Leaving
<1>5. (RefusedAfterRetry /\ TruePositiveHasACause /\ EffectIsNotMissed)'
  BY DEF RefusedAfterRetry, TruePositiveHasACause, EffectIsNotMissed, Judging
<1>6. FalsePositiveRan' /\ ExitCodeTells'
  <2>1. exit = "none"
    BY DEF ReportKnown, Leaving
  <2> QED BY <2>1 DEF FalsePositiveRan, ExitCodeTells, Judging
<1> QED BY <1>1, <1>2, <1>3, <1>4, <1>5, <1>6

LEMMA RaisesKeep ==
  ASSUME CommandInvariant,
         \/ IngestFails \/ ReadComposeFails \/ SandboxFails \/ GenerateCrashes
         \/ DetonateCrashes \/ AggregateContext \/ LegacyPoc \/ LegacyShot
  PROVE  CommandInvariant'
<1>1. \A e \in {"shieldclaw", "other"} :
        /\ Raise("ingest", e) => CommandInvariant'
        /\ Raise("compose", e) => CommandInvariant'
        /\ Raise("sandbox", e) => CommandInvariant'
        /\ Raise("generate", e) => CommandInvariant'
        /\ Raise("detonate", e) => CommandInvariant'
        /\ Raise("aggregate", e) => CommandInvariant'
        /\ Raise("legacy poc", e) => CommandInvariant'
        /\ Raise("legacy shot", e) => CommandInvariant'
  BY RaiseKeeps DEF Stages, Leaving
<1>2. CASE IngestFails BY <1>1, <1>2, ErrorsAre DEF IngestFails
<1>3. CASE SandboxFails BY <1>1, <1>3 DEF SandboxFails
<1>4. CASE GenerateCrashes BY <1>1, <1>4 DEF GenerateCrashes
<1>5. CASE DetonateCrashes BY <1>1, <1>5 DEF DetonateCrashes
<1>6. CASE AggregateContext
  <2>1. CASE Aggregate(input.repo, input.args.diff # "none").ok
    <3>0. RowsAsBefore
      BY <1>6, <2>1, RowsStay DEF AggregateContext
    <3> QED BY <1>6, <2>1, <3>0
      DEF RowsAsBefore, AggregateContext, CommandInvariant, StagesKnown, TypeOK, RowsKnown,
          ServicesKnown, HandKnown, Owing, OwedKnown, ModeKnown, ReportKnown, RefusedAfterRetry,
          TruePositiveHasACause, EffectIsNotMissed, FalsePositiveRan, ExitCodeTells, Judging,
          Goto, findingVars, Stages, InHand, Shooting, Legacy, Leaving, Intaking
  <2> QED BY <1>1, <1>6, <2>1, ErrorsAre DEF AggregateContext
<1>7. CASE LegacyPoc
  <2>1. PICK answer \in Answers :
          LET outcome == GenerateExploit(Provider, answer) IN
          IF outcome.kind = "got"
          THEN /\ Goto("legacy poc", "legacy shot")
               /\ UNCHANGED <<input, services, rows, todo, findingVars, target, effects, error,
                              report, exit>>
          ELSE Raise("legacy poc", ErrorOf(outcome))
    BY <1>7 DEF LegacyPoc
  <2>2. CASE GenerateExploit(Provider, answer).kind = "got"
    <3>0. RowsAsBefore
      BY <2>1, <2>2, RowsStay
    <3> QED BY <2>1, <2>2, <3>0
      DEF RowsAsBefore, CommandInvariant, StagesKnown, TypeOK, RowsKnown, ServicesKnown,
          HandKnown, Owing, OwedKnown, ModeKnown, ReportKnown, RefusedAfterRetry,
          TruePositiveHasACause, EffectIsNotMissed, FalsePositiveRan, ExitCodeTells, Judging,
          Goto, findingVars, Stages, InHand, Shooting, Legacy, Leaving, Intaking
  <2> QED BY <1>1, <2>1, <2>2, ErrorsAre
<1>8. CASE LegacyShot
  <2>1. CASE \E r \in Runs :
               /\ RunResult(r).kind = "code"
               /\ Goto("legacy shot", "report")
               /\ run' = r
               /\ UNCHANGED <<input, services, rows, todo, cur, attempt, dns, shown, answered,
                              target, effects, error, report, exit>>
    <3>0. RowsAsBefore
      BY <2>1, RowsStay
    <3>1. run' \in Runs /\ run' # NoRun
      BY <2>1, RunIsNoNull
    <3>2. /\ Goto("legacy shot", "report")
          /\ UNCHANGED <<input, services, rows, todo, cur, attempt, dns, shown, answered,
                         target, effects, error, report, exit>>
      BY <2>1
    <3> QED BY <3>0, <3>1, <3>2
      DEF RowsAsBefore, CommandInvariant, StagesKnown, TypeOK, RowsKnown, ServicesKnown,
          HandKnown, Owing, OwedKnown, ModeKnown, ReportKnown, RefusedAfterRetry,
          TruePositiveHasACause, EffectIsNotMissed, FalsePositiveRan, ExitCodeTells, Judging,
          Goto, findingVars, Stages, InHand, Shooting, Legacy, Leaving, Intaking
  <2> QED BY <1>1, <1>8, <2>1 DEF LegacyShot
<1>9. CASE ReadComposeFails BY <1>1, <1>9 DEF ReadComposeFails
<1> QED BY <1>2, <1>3, <1>4, <1>5, <1>6, <1>7, <1>8, <1>9

\* From one finding to the next, and out.
LEMMA LoopKeeps ==
  ASSUME CommandInvariant,
         \/ NextFinding \/ EndFindings \/ GenerateAgain \/ CheckDns \/ Detonate \/ Judged
         \/ Report \/ Leave
  PROVE  CommandInvariant'
<1>0. RowsAsBefore
  BY RowsStay DEF NextFinding, EndFindings, GenerateAgain, CheckDns, Detonate, Judged, Report,
                  Leave
<1> USE <1>0
    DEF RowsAsBefore, CommandInvariant, StagesKnown, TypeOK, RowsKnown, ServicesKnown,
        HandKnown, Owing, OwedKnown, ModeKnown, ReportKnown, RefusedAfterRetry,
        TruePositiveHasACause, EffectIsNotMissed, FalsePositiveRan, ExitCodeTells, Judging, Goto,
        findingVars, Stages, InHand, Shooting, Legacy, Leaving, Intaking
<1>1. CASE NextFinding
  <2>1. todo \subseteq Nat /\ todo # {} BY <1>1 DEF NextFinding
  <2>2. Min(todo) \in todo BY <2>1, MinOf
  <2> QED BY <1>1, <2>2 DEF NextFinding
<1>2. CASE EndFindings
  <2> USE <1>2 DEF EndFindings, Teardown
  <2>1. TypeOK' /\ (input \in Inputs)'
    OBVIOUS
  <2>2. RowsKnown' /\ ServicesKnown'
    OBVIOUS
  <2>3. HandKnown' /\ OwedKnown'
    OBVIOUS
  <2>4. ModeKnown' /\ ReportKnown'
    OBVIOUS
  <2>5. (RefusedAfterRetry /\ TruePositiveHasACause /\ EffectIsNotMissed)'
    OBVIOUS
  <2>6. FalsePositiveRan' /\ ExitCodeTells'
    OBVIOUS
  <2> QED BY <2>1, <2>2, <2>3, <2>4, <2>5, <2>6
<1>3. CASE GenerateAgain BY <1>3, AttemptIs DEF GenerateAgain
<1>4. CASE CheckDns BY <1>4 DEF CheckDns
<1>5. CASE Detonate
  <2>1. run' \in Runs /\ run' # NoRun /\ RunResult(run').kind = "code"
    BY <1>5, RunIsNoNull DEF Detonate
  <2>2. /\ Goto("detonate", "observe")
        /\ \E where \in DOMAIN Listed : effects' = effects \union Changes(cur, where)
        /\ UNCHANGED <<input, services, rows, todo, cur, attempt, dns, shown, answered, target,
                       error, report, exit>>
    BY <1>5 DEF Detonate
  <2>3. cur \in 0 .. Len(rows) /\ effects \subseteq [by : 0 .. Len(rows), path : Paths]
    OBVIOUS
  <2>4. effects' \subseteq [by : 0 .. Len(rows), path : Paths]
    BY <2>2, <2>3, EffectsAre
  <2> QED BY <2>1, <2>2, <2>4
<1>6. CASE Judged
  <2> USE <1>6 DEF Judged, LeaveFinding
  <2>1. TypeOK' /\ (input \in Inputs)'
    <3>1. shown' = {} /\ answered' = Unasked
      OBVIOUS
    <3> QED BY <3>1
  <2>2. RowsKnown' /\ ServicesKnown'
    OBVIOUS
  <2>3. HandKnown' /\ OwedKnown'
    OBVIOUS
  <2>4. ModeKnown' /\ ReportKnown'
    OBVIOUS
  <2>5. (RefusedAfterRetry /\ TruePositiveHasACause /\ EffectIsNotMissed)'
    OBVIOUS
  <2>6. FalsePositiveRan' /\ ExitCodeTells'
    OBVIOUS
  <2> QED BY <2>1, <2>2, <2>3, <2>4, <2>5, <2>6
<1>7. CASE Report
  <2> USE <1>7 DEF Report
  <2>1. TypeOK' /\ (input \in Inputs)'
    OBVIOUS
  <2>2. RowsKnown' /\ ServicesKnown'
    OBVIOUS
  <2>3. HandKnown' /\ OwedKnown'
    OBVIOUS
  <2>4. ModeKnown' /\ ReportKnown'
    <3>1. /\ report'.written
          /\ report'.error = (error = "shieldclaw")
          /\ report'.outcome = (run # NoRun)
      OBVIOUS
    <3> QED BY <3>1
  <2>5. (RefusedAfterRetry /\ TruePositiveHasACause /\ EffectIsNotMissed)'
    OBVIOUS
  <2>6. FalsePositiveRan' /\ ExitCodeTells'
    OBVIOUS
  <2> QED BY <2>1, <2>2, <2>3, <2>4, <2>5, <2>6
<1>8. CASE Leave BY <1>8 DEF Leave
<1> QED BY <1>1, <1>2, <1>3, <1>4, <1>5, <1>6, <1>7, <1>8

----------------------------------------------------------------------------
(* Steps that change rows *)

RowsMoved ==
  /\ (rows \in Seq(Row))'
  /\ DOMAIN rows' = DOMAIN rows /\ DOMAIN rows = 1 .. Len(rows)
  /\ Len(rows') = Len(rows) /\ Len(rows) \in Nat
  /\ \A i \in DOMAIN rows : rows[i] \in Row /\ rows'[i] \in Row /\ Sourced(rows[i])
  /\ \A r : Sourced(r)' <=> Sourced(r)

\* Row for row, the rows are changed in fields only.
LEMMA RowsMove ==
  ASSUME CommandInvariant, input' = input, rows' \in [DOMAIN rows -> Row]
  PROVE  RowsMoved
<1>1. rows \in Seq(Row) /\ \A i \in DOMAIN rows : Sourced(rows[i])
  BY DEF CommandInvariant, StagesKnown, RowsKnown
<1>2. Len(rows) \in Nat /\ DOMAIN rows = 1 .. Len(rows) /\ rows \in [1 .. Len(rows) -> Row]
  BY <1>1, LenProperties
<1>3. rows' \in [1 .. Len(rows) -> Row]
  BY <1>2
<1>4. rows' \in Seq(Row)
  BY <1>2, <1>3, IsASeq
<1>5. Len(rows') = Len(rows)
  BY <1>2, <1>3, <1>4, LenProperties
<1>6. Row' = Row /\ \A r : Sourced(r)' <=> Sourced(r)
  BY SameReport
<1> QED BY <1>1, <1>2, <1>3, <1>4, <1>5, <1>6 DEF RowsMoved

LEMMA TwoFields ==
  ASSUME NEW f, NEW c \in DOMAIN f, NEW v, NEW s
  PROVE  [f EXCEPT ![c].verdict = v, ![c].state = s]
           = [f EXCEPT ![c] = [f[c] EXCEPT !.verdict = v, !.state = s]]
OBVIOUS

LEMMA SameVerdict ==
  ASSUME NEW r \in Row, NEW s
  PROVE  [r EXCEPT !.state = s] = [r EXCEPT !.verdict = r.verdict, !.state = s]
BY DEF Row

\* One row gets a state, and perhaps a verdict.
LEMMA RowGets ==
  ASSUME CommandInvariant, input' = input, cur \in DOMAIN rows,
         NEW v \in Verdicts, NEW s \in States,
         \/ rows' = [rows EXCEPT ![cur].verdict = v, ![cur].state = s]
         \/ rows' = [rows EXCEPT ![cur].state = s] /\ v = rows[cur].verdict
  PROVE  /\ RowsMoved
         /\ rows'[cur].verdict = v /\ rows'[cur].state = s
         /\ rows'[cur] = [rows[cur] EXCEPT !.verdict = v, !.state = s]
         /\ \A i \in DOMAIN rows : i # cur => rows'[i] = rows[i]
<1>1. rows \in Seq(Row)
  BY DEF CommandInvariant, StagesKnown, RowsKnown
<1>2. rows \in [DOMAIN rows -> Row]
  BY <1>1, LenProperties
<1>3. rows[cur] \in Row
  BY <1>2
<1>4. [rows EXCEPT ![cur].verdict = v, ![cur].state = s]
        = [rows EXCEPT ![cur] = [rows[cur] EXCEPT !.verdict = v, !.state = s]]
  BY TwoFields
<1>5. v = rows[cur].verdict =>
        [rows[cur] EXCEPT !.state = s] = [rows[cur] EXCEPT !.verdict = v, !.state = s]
  BY <1>3, SameVerdict
<1>6. rows' = [rows EXCEPT ![cur] = [rows[cur] EXCEPT !.verdict = v, !.state = s]]
  BY <1>4, <1>5
<1>9. [rows[cur] EXCEPT !.verdict = v, !.state = s] \in Row
  BY <1>3 DEF Row
<1>7. /\ rows' \in [DOMAIN rows -> Row]
      /\ rows'[cur] = [rows[cur] EXCEPT !.verdict = v, !.state = s]
      /\ \A i \in DOMAIN rows : i # cur => rows'[i] = rows[i]
  BY <1>2, <1>9, <1>6
<1>8. rows'[cur].verdict = v /\ rows'[cur].state = s
  BY <1>3, <1>7 DEF Row
<1> QED BY <1>7, <1>8, RowsMove

LEMMA SourcedStay ==
  ASSUME input' = input, \A i \in DOMAIN rows' : Sourced(rows'[i])
  PROVE  (\A i \in DOMAIN rows : Sourced(rows[i]))'
BY DEF Sourced, Found, CweVerdicts

\* What a verdict needs: every way to judge the finding in hand has to bring it along.
Justified(v) ==
  /\ v = "REFUSED" => attempt = 2 \/ Provider = "openai"
  /\ v = "TRUE_POSITIVE" =>
       /\ run'.ends = "success" /\ target # NoTarget
       /\ \/ answered'.diff = "ok" /\ effects' # {}
          \/ answered'.logs = "ok" /\ shown' # {}
          \/ answered'.logs = "fails" /\ ObserverCwe(rows[cur]) \notin SpecificCwe
  /\ v = "INCONCLUSIVE" /\ run'.ends = "success" /\ target # NoTarget =>
       /\ answered'.diff = "ok" => \A change \in effects' : change.path # "file"
       /\ answered'.logs = "ok" => \A after \in shown' : after >= MaxLogLines
  /\ v = "FALSE_POSITIVE" => run'.ends \in {"failure", "timeout"}

\* A finding that is judged is no longer owed, and nothing else of it changes.
LEMMA JudgeKeeps ==
  ASSUME CommandInvariant, NEW from \in InHand, NEW v \in Verdicts,
         NEW s \in {"VERDICTED", "REFUSED"}, Judge(from, v, s), Justified(v),
         run' \in Runs \union {NoRun}, effects' \subseteq [by : 0 .. Len(rows), path : Paths],
         shown' \subseteq Nat,
         answered' \in [diff : DockerEnds, logs : DockerEnds] \union {Unasked},
         UNCHANGED <<input, services, todo, cur, attempt, dns, target, error, report, exit>>
  PROVE  CommandInvariant'
<1>1. stage = from /\ stage' = "judged" /\ stage \in InHand
  BY DEF Judge, Goto
<1>2. cur \in DOMAIN rows /\ cur \notin todo /\ attempt \in 1 .. 2
  BY <1>1 DEF CommandInvariant, StagesKnown, HandKnown
<1>3. /\ RowsMoved
      /\ rows'[cur].verdict = v /\ rows'[cur].state = s
      /\ rows'[cur] = [rows[cur] EXCEPT !.verdict = v, !.state = s]
      /\ \A i \in DOMAIN rows : i # cur => rows'[i] = rows[i]
  BY <1>2, RowGets DEF Judge, States
<1>4. Owing = todo \union {cur} /\ todo \subseteq DOMAIN rows
  BY <1>1 DEF CommandInvariant, StagesKnown, OwedKnown
<1>5. error = "none" /\ exit = "none"
  BY <1>1 DEF CommandInvariant, StagesKnown, OwedKnown, ReportKnown, InHand, Leaving
<1>6. TypeOK' /\ (input \in Inputs)'
  <2>1. \A i \in DOMAIN rows' : rows'[i].state \in States /\ rows'[i].verdict \in Verdicts
    BY <1>3 DEF RowsMoved, Row
  <2>2. DOMAIN rows' = DOMAIN rows /\ Len(rows') = Len(rows)
    BY <1>3 DEF RowsMoved
  <2> QED BY <1>1, <2>1, <2>2 DEF CommandInvariant, StagesKnown, TypeOK, Stages
<1>7. RowsKnown'
  <2>1. rows[cur].triage = "DYNAMICALLY_VERIFIABLE" /\ Sourced(rows[cur])
    BY <1>2, <1>3, <1>4 DEF Owing, Sourced, RowsMoved
  <2>2. Sourced(rows'[cur])
    <3>1. rows[cur] \in Row BY <1>2, <1>3 DEF RowsMoved
    <3>2. /\ rows'[cur].rule = rows[cur].rule /\ rows'[cur].place = rows[cur].place
          /\ rows'[cur].cwe = rows[cur].cwe /\ rows'[cur].triage = rows[cur].triage
      BY <1>3, <3>1 DEF Row
    <3> QED BY <2>1, <3>2 DEF Sourced, FindingId
  <2>3. \A i \in DOMAIN rows' : Sourced(rows'[i])
    BY <1>3, <2>2 DEF RowsMoved
  <2>4. (rows \in Seq(Row))' /\ (\A i \in DOMAIN rows : Sourced(rows[i]))'
    BY <1>3, <2>3, SourcedStay DEF RowsMoved
  <2> QED BY <1>1, <2>4 DEF RowsKnown, Intaking, Legacy
<1>8. ServicesKnown'
  BY <1>1 DEF CommandInvariant, StagesKnown, ServicesKnown, Shooting
<1>9. HandKnown'
  <2>1. DOMAIN rows' = DOMAIN rows BY <1>3 DEF RowsMoved
  <2> QED BY <1>1, <1>2, <2>1 DEF HandKnown, InHand, Leaving
<1>10. OwedKnown'
  <2>1. DOMAIN rows' = DOMAIN rows BY <1>3 DEF RowsMoved
  <2>2. Owing' = todo
    <3>1. s \notin {"APPROVED", "POC_GENERATED"}
      OBVIOUS
    <3>2. \A i \in DOMAIN rows :
            rows'[i].state \in {"APPROVED", "POC_GENERATED"} <=> i \in Owing /\ i # cur
      BY <1>3, <3>1 DEF Owing
    <3> QED BY <1>2, <1>4, <2>1, <3>2 DEF Owing
  <2> QED BY <1>1, <1>4, <1>5, <2>1, <2>2 DEF OwedKnown, InHand, Leaving
<1>11. ModeKnown'
  BY <1>1 DEF CommandInvariant, StagesKnown, ModeKnown, Shooting, Intaking, InHand, Legacy
<1>12. ReportKnown'
  BY <1>1, <1>5 DEF ReportKnown
<1>13. (RefusedAfterRetry /\ TruePositiveHasACause /\ EffectIsNotMissed /\ FalsePositiveRan)'
  <2>1. RefusedAfterRetry' /\ EffectIsNotMissed' /\ FalsePositiveRan'
    BY <1>3 DEF RefusedAfterRetry, EffectIsNotMissed, FalsePositiveRan, Judging, Justified,
                Provider
  <2>2. ObserverCwe(rows'[cur]) = ObserverCwe(rows[cur])
    <3>1. rows[cur] \in Row BY <1>2, <1>3 DEF RowsMoved
    <3>2. rows'[cur].cwe = rows[cur].cwe BY <1>3, <3>1 DEF Row
    <3> QED BY <3>2 DEF ObserverCwe
  <2>3. effects' # {} => (Changed \/ ChangedBefore)'
    BY DEF Changed, ChangedBefore
  <2>4. TruePositiveHasACause'
    BY <1>3, <2>2, <2>3 DEF TruePositiveHasACause, Judging, Justified
  <2> QED BY <2>1, <2>4
<1>14. ExitCodeTells'
  BY <1>5 DEF ExitCodeTells
<1> QED BY <1>6, <1>7, <1>8, <1>9, <1>10, <1>11, <1>12, <1>13, <1>14
  DEF CommandInvariant, StagesKnown

LEMMA JudgesKeep ==
  ASSUME CommandInvariant, Refused \/ GenerateFails \/ SkipUnknownDns \/ DetonateFails
  PROVE  CommandInvariant'
<1>1. /\ run \in Runs \union {NoRun} /\ effects \subseteq [by : 0 .. Len(rows), path : Paths]
      /\ shown \subseteq Nat
      /\ answered \in [diff : DockerEnds, logs : DockerEnds] \union {Unasked}
  BY DEF CommandInvariant, StagesKnown, TypeOK
<1>2. stage \in {"generate", "dns", "detonate"} => run = NoRun /\ run.ends = "none"
  BY DEF CommandInvariant, StagesKnown, HandKnown, Leaving, NoRun
<1>3. CASE Refused
  <2>1. PICK answer \in Answers : Attempt(Provider, answer, attempt).kind = "refusal"
    BY <1>3 DEF Refused
  <2>2. Judge("generate", "REFUSED", "REFUSED")
        /\ UNCHANGED <<input, services, todo, findingVars, target, effects, error, report, exit>>
    BY <1>3 DEF Refused
  <2>3. stage = "generate" /\ attempt \in 1 .. 2
    BY <2>2 DEF Judge, Goto, CommandInvariant, StagesKnown, HandKnown, InHand
  <2>4. Justified("REFUSED")
    BY <2>1, <2>3, AttemptIs DEF Justified
  <2> QED BY <1>1, <2>2, <2>4, JudgeKeeps DEF findingVars, InHand, Verdicts
<1>4. CASE GenerateFails
  <2>1. Judge("generate", "INCONCLUSIVE", "VERDICTED")
        /\ UNCHANGED <<input, services, todo, findingVars, target, effects, error, report, exit>>
    BY <1>4 DEF GenerateFails
  <2>2. Justified("INCONCLUSIVE")
    BY <1>2, <2>1 DEF Justified, Judge, Goto, findingVars
  <2> QED BY <1>1, <2>1, <2>2, JudgeKeeps DEF findingVars, InHand, Verdicts
<1>5. CASE SkipUnknownDns
  <2>1. Judge("dns", "INCONCLUSIVE", "VERDICTED")
        /\ UNCHANGED <<input, services, todo, findingVars, target, effects, error, report, exit>>
    BY <1>5 DEF SkipUnknownDns
  <2>2. Justified("INCONCLUSIVE")
    BY <1>2, <2>1 DEF Justified, Judge, Goto, findingVars
  <2> QED BY <1>1, <2>1, <2>2, JudgeKeeps DEF findingVars, InHand, Verdicts
<1>6. CASE DetonateFails
  <2>1. PICK r \in Runs, where \in DOMAIN Listed :
          /\ RunResult(r).kind = "error"
          /\ run' = r
          /\ effects' = effects \union Changes(cur, where)
    BY <1>6 DEF DetonateFails
  <2>2. Judge("detonate", "INCONCLUSIVE", "VERDICTED")
        /\ UNCHANGED <<input, services, todo, cur, attempt, dns, shown, answered, target, error,
                       report, exit>>
    BY <1>6 DEF DetonateFails
  <2>3. run'.ends # "success"
    BY <2>1, RunErrorIs, DataPathAssumption
  <2>4. effects' \subseteq [by : 0 .. Len(rows), path : Paths]
    <3>1. cur \in 0 .. Len(rows) /\ Len(rows) \in Nat
      <4>1. rows \in Seq(Row) BY DEF CommandInvariant, StagesKnown, RowsKnown
      <4> QED BY <4>1, LenProperties DEF CommandInvariant, StagesKnown, TypeOK
    <3> QED BY <1>1, <2>1, <3>1, EffectsAre
  <2>5. Justified("INCONCLUSIVE")
    BY <2>3 DEF Justified
  <2> QED BY <1>1, <2>1, <2>2, <2>4, <2>5, JudgeKeeps DEF InHand, Verdicts
<1> QED BY <1>3, <1>4, <1>5, <1>6

\* The verdict of a detonation says what the observers saw of it.
LEMMA ObserveKeeps ==
  ASSUME CommandInvariant, Observe
  PROVE  CommandInvariant'
<1> DEFINE cwe  == ObserverCwe(rows[cur])
           code == RunResult(run).code
           seen == {change.path : change \in effects}
<1>1. PICK diff \in DockerEnds,
           logs \in IF input.app.readable THEN DockerEnds ELSE {"fails", "unanswered"},
           text \in LogTexts :
        LET evidence == ExitCodeEvidence(code) \o DiffEvidence(target, diff, seen)
                          \o LogsEvidence(target, logs, cwe, text.out, text.err)
            all      == text.out \o text.err
            telling  == {i \in DOMAIN all : all[i] \in {"200"} \union ErrorWords(cwe)}
        IN /\ Judge("observe", Synthesize(evidence).verdict, "VERDICTED")
           /\ IF target = NoTarget
                THEN UNCHANGED <<shown, answered>>
                ELSE /\ shown' = {Len(all) - i : i \in telling}
                     /\ answered' = [diff |-> diff, logs |-> logs]
           /\ UNCHANGED <<input, services, todo, cur, attempt, dns, run, target, effects,
                          error, report, exit>>
  BY DEF Observe
<1> DEFINE d        == DiffEvidence(target, diff, seen)
           l        == LogsEvidence(target, logs, cwe, text.out, text.err)
           evidence == ExitCodeEvidence(code) \o d \o l
           all      == text.out \o text.err
           v        == Synthesize(evidence).verdict
<1>2. Judge("observe", v, "VERDICTED")
      /\ UNCHANGED <<input, services, todo, cur, attempt, dns, run, target, effects,
                     error, report, exit>>
  BY <1>1
<1>3. /\ target = NoTarget => shown' = shown /\ answered' = answered
      /\ target # NoTarget =>
           /\ shown' = {Len(all) - i : i \in {j \in DOMAIN all : IsTelling(cwe, all[j])}}
           /\ answered' = [diff |-> diff, logs |-> logs]
  BY <1>1 DEF IsTelling
<1>5. /\ stage = "observe" /\ run # NoRun /\ RunResult(run).kind = "code"
      /\ run \in Runs /\ effects \subseteq [by : 0 .. Len(rows), path : Paths]
      /\ shown \subseteq Nat
      /\ answered \in [diff : DockerEnds, logs : DockerEnds] \union {Unasked}
  BY <1>2 DEF Judge, Goto, CommandInvariant, StagesKnown, TypeOK, HandKnown
<1>6. /\ text.out \in Seq(STRING) /\ text.err \in Seq(STRING)
      /\ run.ends \in {"success", "failure", "timeout", "docker"}
  BY <1>5, DataPathAssumption
<1> HIDE DEF cwe, code, seen
<1>7. \/ run.ends = "success" /\ code = 0
      \/ run.ends = "failure" /\ code = 1
      \/ run.ends = "timeout" /\ code = 124
  BY <1>5, <1>6, RunResultIs DEF code
<1>8. d \in Seen /\ (d = Tier2(TRUE) <=>
                     target # NoTarget /\ diff = "ok" /\ \E path \in seen : ~IsNoise(path))
  BY DiffIs
<1>9. /\ l \in Seen
      /\ l = Tier2(TRUE) =>
           /\ target # NoTarget
           /\ \/ logs = "ok" /\ \E i \in DOMAIN all : IsTelling(cwe, all[i])
              \/ logs = "fails" /\ cwe \notin SpecificCwe
      /\ target # NoTarget /\ logs = "ok" =>
           \A i \in DOMAIN all :
             IsTelling(cwe, all[i]) /\ Len(all) - i < MaxLogLines => l = Tier2(TRUE)
  <2>1. logs \in DockerEnds
    BY DEF DockerEnds
  <2>2. text.out \in Seq(STRING) /\ text.err \in Seq(STRING)
    BY <1>6
  <2>3. all = text.out \o text.err
    OBVIOUS
  <2> HIDE DEF all
  <2> QED BY <2>1, <2>2, <2>3, LogsAre
<1>15. d \in Seen /\ l \in Seen
  BY <1>8, <1>9
<1> HIDE DEF d, l
<1>10. /\ evidence # <<>> /\ ExitCodes(evidence) = {code}
       /\ Corroborated(evidence) <=> d = Tier2(TRUE) \/ l = Tier2(TRUE)
  BY <1>15, EvidenceIs
<1> HIDE DEF evidence
<1>11. v = IF code # 0 THEN "FALSE_POSITIVE"
           ELSE IF d = Tier2(TRUE) \/ l = Tier2(TRUE) THEN "TRUE_POSITIVE"
           ELSE "INCONCLUSIVE"
  <2>1. v = IF code # 0 THEN "FALSE_POSITIVE"
            ELSE IF Corroborated(evidence) THEN "TRUE_POSITIVE" ELSE "INCONCLUSIVE"
    BY <1>10, SynthesizeIs
  <2> QED BY <1>10, <2>1
<1> HIDE DEF v
<1>12. v \in Verdicts
  BY <1>11 DEF Verdicts
<1>13. /\ Len(all) \in Nat /\ MaxLogLines \in Nat
       /\ DOMAIN all = 1 .. Len(all)
  BY <1>6, ConcatProperties, LenProperties, ObservationAssumption
<1> HIDE DEF all
<1>4. /\ shown' \subseteq Nat
      /\ answered' \in [diff : DockerEnds, logs : DockerEnds] \union {Unasked}
  <2>1. CASE target = NoTarget BY <1>3, <1>5, <2>1
  <2>2. CASE target # NoTarget
    <3>1. \A i \in DOMAIN all : Len(all) - i \in Nat
      BY <1>13
    <3>2. shown' \subseteq Nat
      BY <1>3, <2>2, <3>1
    <3>3. diff \in DockerEnds /\ logs \in DockerEnds
      BY DEF DockerEnds
    <3>4. answered' \in [diff : DockerEnds, logs : DockerEnds]
      BY <1>3, <2>2, <3>3
    <3> QED BY <3>2, <3>4
  <2> QED BY <2>1, <2>2
<1>14. Justified(v)
  <2>1. v # "REFUSED"
    BY <1>11
  <2>2. ASSUME v = "TRUE_POSITIVE"
        PROVE  /\ run'.ends = "success" /\ target # NoTarget
               /\ \/ answered'.diff = "ok" /\ effects' # {}
                  \/ answered'.logs = "ok" /\ shown' # {}
                  \/ answered'.logs = "fails" /\ cwe \notin SpecificCwe
    <3>1. code = 0 /\ (d = Tier2(TRUE) \/ l = Tier2(TRUE))
      BY <1>11, <2>2
    <3>2. run.ends = "success" /\ run' = run /\ effects' = effects
      BY <1>2, <1>7, <3>1
    <3>3. target # NoTarget
      BY <1>8, <1>9, <3>1
    <3>4. answered'.diff = diff /\ answered'.logs = logs
      BY <1>3, <3>3
    <3>5. CASE d = Tier2(TRUE)
      BY <1>8, <3>2, <3>3, <3>4, <3>5 DEF seen
    <3>6. CASE l = Tier2(TRUE)
      <4>1. (\E i \in DOMAIN all : IsTelling(cwe, all[i])) => shown' # {}
        BY <1>3, <3>3
      <4> QED BY <1>9, <3>2, <3>3, <3>4, <3>6, <4>1
    <3> QED BY <3>1, <3>5, <3>6
  <2>3. ASSUME v = "INCONCLUSIVE", run'.ends = "success", target # NoTarget
        PROVE  /\ answered'.diff = "ok" => \A change \in effects' : change.path # "file"
               /\ answered'.logs = "ok" => \A after \in shown' : after >= MaxLogLines
    <3>1. d # Tier2(TRUE) /\ l # Tier2(TRUE)
      BY <1>11, <2>3
    <3>2. answered'.diff = diff /\ answered'.logs = logs /\ effects' = effects
      BY <1>2, <1>3, <2>3
    <3>3. diff = "ok" => \A change \in effects : change.path # "file"
      <4>1. diff = "ok" => \A change \in effects : IsNoise(change.path)
        BY <1>8, <2>3, <3>1 DEF seen
      <4> QED BY <4>1 DEF IsNoise
    <3>4. ASSUME logs = "ok", NEW after \in shown' PROVE after >= MaxLogLines
      <4>1. PICK i \in DOMAIN all : IsTelling(cwe, all[i]) /\ after = Len(all) - i
        BY <1>3, <2>3
      <4>2. ~(Len(all) - i < MaxLogLines)
        BY <1>9, <2>3, <3>1, <3>4, <4>1
      <4> QED BY <1>13, <4>1, <4>2
    <3> QED BY <3>2, <3>3, <3>4
  <2>4. v = "FALSE_POSITIVE" => run'.ends \in {"failure", "timeout"}
    BY <1>2, <1>7, <1>11
  <2> QED BY <2>1, <2>2, <2>3, <2>4 DEF Justified, cwe
<1> QED BY <1>2, <1>4, <1>5, <1>12, <1>14, JudgeKeeps DEF InHand

----------------------------------------------------------------------------
(* The steps before the sandbox, and the payload *)

\* A payload is stored with its finding, which stays owed.
LEMMA GenerateKeeps ==
  ASSUME CommandInvariant, Generate
  PROVE  CommandInvariant'
<1>1. /\ stage = "generate" /\ stage' = "dns"
      /\ rows' = [rows EXCEPT ![cur].state = "POC_GENERATED"]
      /\ UNCHANGED <<input, services, todo, cur, attempt, run, shown, answered, target, effects,
                     error, report, exit>>
  BY DEF Generate, Goto
<1>2. cur \in DOMAIN rows /\ cur \notin todo /\ attempt \in 1 .. 2 /\ run = NoRun
  BY <1>1 DEF CommandInvariant, StagesKnown, HandKnown, InHand, Leaving
<1>3. Owing = todo \union {cur} /\ todo \subseteq DOMAIN rows
  BY <1>1 DEF CommandInvariant, StagesKnown, OwedKnown, InHand
<1>4. error = "none" /\ exit = "none"
  BY <1>1 DEF CommandInvariant, StagesKnown, OwedKnown, ReportKnown, Leaving
<1>5. rows[cur].verdict \in Verdicts
  BY <1>2 DEF CommandInvariant, StagesKnown, TypeOK
<1>6. /\ RowsMoved
      /\ rows'[cur].state = "POC_GENERATED"
      /\ rows'[cur] = [rows[cur] EXCEPT !.verdict = rows[cur].verdict, !.state = "POC_GENERATED"]
      /\ \A i \in DOMAIN rows : i # cur => rows'[i] = rows[i]
  BY <1>1, <1>2, <1>5, RowGets DEF States
<1>7. DOMAIN rows' = DOMAIN rows /\ Len(rows') = Len(rows)
  BY <1>6 DEF RowsMoved
<1>8. TypeOK' /\ (input \in Inputs)'
  <2>1. \A i \in DOMAIN rows' : rows'[i].state \in States /\ rows'[i].verdict \in Verdicts
    BY <1>6 DEF RowsMoved, Row
  <2> QED BY <1>1, <1>7, <2>1 DEF CommandInvariant, StagesKnown, TypeOK, Stages
<1>9. RowsKnown'
  <2>1. rows[cur].triage = "DYNAMICALLY_VERIFIABLE" /\ Sourced(rows[cur])
    BY <1>2, <1>3, <1>6 DEF Owing, Sourced, RowsMoved
  <2>2. Sourced(rows'[cur])
    <3>1. rows[cur] \in Row BY <1>2, <1>6 DEF RowsMoved
    <3>2. /\ rows'[cur].rule = rows[cur].rule /\ rows'[cur].place = rows[cur].place
          /\ rows'[cur].cwe = rows[cur].cwe /\ rows'[cur].triage = rows[cur].triage
      BY <1>6, <3>1 DEF Row
    <3> QED BY <2>1, <3>2 DEF Sourced, FindingId
  <2>3. \A i \in DOMAIN rows' : Sourced(rows'[i])
    BY <1>6, <2>2 DEF RowsMoved
  <2>4. (rows \in Seq(Row))' /\ (\A i \in DOMAIN rows : Sourced(rows[i]))'
    BY <1>1, <1>6, <2>3, SourcedStay DEF RowsMoved
  <2> QED BY <1>1, <2>4 DEF RowsKnown, Intaking, Legacy
<1>10. ServicesKnown'
  BY <1>1 DEF CommandInvariant, StagesKnown, ServicesKnown, Shooting, InHand
<1>11. HandKnown'
  BY <1>1, <1>2, <1>7 DEF HandKnown, InHand, Leaving
<1>12. OwedKnown'
  <2>1. Owing' = Owing
    <3>1. \A i \in DOMAIN rows :
            rows'[i].state \in {"APPROVED", "POC_GENERATED"} <=> i \in Owing
      BY <1>3, <1>6 DEF Owing
    <3> QED BY <1>7, <3>1 DEF Owing
  <2> QED BY <1>1, <1>3, <1>4, <1>7, <2>1 DEF OwedKnown, InHand, Leaving
<1>13. ModeKnown'
  BY <1>1 DEF CommandInvariant, StagesKnown, ModeKnown, Shooting, Intaking, InHand, Legacy
<1>14. ReportKnown'
  BY <1>1, <1>4 DEF ReportKnown
<1>15. (RefusedAfterRetry /\ TruePositiveHasACause /\ EffectIsNotMissed /\ FalsePositiveRan)'
  BY <1>1 DEF RefusedAfterRetry, TruePositiveHasACause, EffectIsNotMissed, FalsePositiveRan,
              Judging
<1>16. ExitCodeTells'
  BY <1>1, <1>4 DEF ExitCodeTells
<1> QED BY <1>8, <1>9, <1>10, <1>11, <1>12, <1>13, <1>14, <1>15, <1>16
  DEF CommandInvariant, StagesKnown

\* Before the sandbox rows get a triage verdict, a score or an approval, all at once.
LEMMA ClassesKeep ==
  ASSUME CommandInvariant, rows' \in [DOMAIN rows -> Row],
         \A i \in DOMAIN rows : Sourced(rows'[i]),
         UNCHANGED <<input, services, findingVars, target, effects, report, exit>>,
         stage \in {"triage", "score", "approve"},
         stage' \in {"compose", "approve", "sandbox", "report"},
         stage = "triage" => stage' = "compose",
         error' \in {"none", "shieldclaw", "other"}, stage' # "report" => error' = "none",
         todo' \subseteq DOMAIN rows, stage' = "sandbox" => Owing' = todo',
         stage' = "report" /\ error' = "none" => Owing' = {},
         stage' \in {"compose", "approve"} =>
           \A i \in DOMAIN rows : rows'[i].state \in {"INGESTED", "TRIAGED", "SCORED"}
  PROVE  CommandInvariant'
<1>1. RowsMoved
  BY RowsMove
<1>2. DOMAIN rows' = DOMAIN rows /\ Len(rows') = Len(rows)
  BY <1>1 DEF RowsMoved
<1>3. /\ stage \notin InHand \union {"judged", "observe"} \union Leaving
      /\ stage' \notin InHand \union {"judged", "observe", "exit", "end"} \union Legacy
      /\ cur = 0 /\ attempt = 0 /\ shown = {} /\ answered = Unasked /\ run = NoRun
      /\ exit = "none"
  BY DEF CommandInvariant, StagesKnown, HandKnown, ReportKnown, InHand, Leaving, Legacy
<1>4. TypeOK' /\ (input \in Inputs)'
  <2>1. \A i \in DOMAIN rows' : rows'[i].state \in States /\ rows'[i].verdict \in Verdicts
    BY <1>1 DEF RowsMoved, Row
  <2> QED BY <1>2, <2>1 DEF CommandInvariant, StagesKnown, TypeOK, Stages, findingVars
<1>5. RowsKnown'
  <2>1. (rows \in Seq(Row))' /\ (\A i \in DOMAIN rows : Sourced(rows[i]))'
    BY <1>1, <1>2, SourcedStay DEF RowsMoved
  <2> QED BY <1>2, <1>3, <2>1 DEF RowsKnown, Intaking, Legacy
<1>6. ServicesKnown'
  BY DEF CommandInvariant, StagesKnown, ServicesKnown, Shooting, InHand
<1>7. HandKnown'
  BY <1>3 DEF HandKnown, Leaving, findingVars
<1>8. OwedKnown'
  BY <1>2, <1>3 DEF OwedKnown, Leaving
<1>9. ModeKnown'
  <2>1. Mode(input.args) = "sast" /\ LoadCweVerdicts(input.verdicts).ok
    BY DEF CommandInvariant, StagesKnown, ModeKnown, Intaking
  <2> QED BY <1>3, <2>1 DEF ModeKnown
<1>10. ReportKnown'
  BY <1>3 DEF ReportKnown
<1>11. (RefusedAfterRetry /\ TruePositiveHasACause /\ EffectIsNotMissed /\ FalsePositiveRan)'
  BY <1>3 DEF RefusedAfterRetry, TruePositiveHasACause, EffectIsNotMissed, FalsePositiveRan,
              Judging
<1>12. ExitCodeTells'
  BY <1>3 DEF ExitCodeTells
<1> QED BY <1>4, <1>5, <1>6, <1>7, <1>8, <1>9, <1>10, <1>11, <1>12
  DEF CommandInvariant, StagesKnown

\* A report that can be read has a finding for each of its results, with the result's rule
\* and place, and CWEs made of the result's.
LEMMA ParsedResults ==
  ASSUME NEW semgrep, ParseSemgrepJson(semgrep).ok
  PROVE  LET found == ParseSemgrepJson(semgrep).value IN
         /\ DOMAIN found = DOMAIN semgrep.results
         /\ \A i \in DOMAIN found : /\ found[i].rule = semgrep.results[i].rule
                                    /\ found[i].place = semgrep.results[i].place
                                    /\ found[i].cwe = NormaliseCwe(semgrep.results[i].cwe)
<1> DEFINE parsed == [i \in DOMAIN semgrep.results |-> ParseResult(semgrep.results[i])]
<1>1. /\ ParseSemgrepJson(semgrep).value = [i \in DOMAIN parsed |-> parsed[i].value]
      /\ \A i \in DOMAIN parsed : parsed[i].ok
  BY DEF ParseSemgrepJson, Raises, Value
<1>2. ASSUME NEW i \in DOMAIN semgrep.results
      PROVE  /\ parsed[i].value.rule = semgrep.results[i].rule
             /\ parsed[i].value.place = semgrep.results[i].place
             /\ parsed[i].value.cwe = NormaliseCwe(semgrep.results[i].cwe)
  <2>1. ParseResult(semgrep.results[i]).ok
    BY <1>1
  <2>2. ParseResult(semgrep.results[i]).value
          = [rule |-> semgrep.results[i].rule, place |-> semgrep.results[i].place,
             severity |-> NormaliseSeverity(semgrep.results[i].severity).value,
             cwe |-> NormaliseCwe(semgrep.results[i].cwe)]
    BY <2>1 DEF ParseResult, Raises, Value
  <2> QED BY <2>2
<1> QED BY <1>1, <1>2

\* The findings of one id have the same CWEs.
LEMMA SameCwes ==
  ASSUME RulesHaveTheirCwes, input \in Inputs, NEW j \in DOMAIN Found, NEW k \in DOMAIN Found,
         FindingId(Found[j]) = FindingId(Found[k])
  PROVE  Found[j].cwe = Found[k].cwe
<1>1. ParseSemgrepJson(input.semgrep).ok
  BY DEF Found
<1>2. /\ DOMAIN Found = DOMAIN input.semgrep.results
      /\ \A i \in DOMAIN Found : /\ Found[i].rule = input.semgrep.results[i].rule
                                 /\ Found[i].place = input.semgrep.results[i].place
                                 /\ Found[i].cwe = NormaliseCwe(input.semgrep.results[i].cwe)
  BY <1>1, ParsedResults DEF Found
<1>3. Found[j].rule = Found[k].rule /\ Found[j].place = Found[k].place
  BY DEF FindingId
<1>4. input.semgrep.results[j].cwe = input.semgrep.results[k].cwe
  BY <1>2, <1>3 DEF RulesHaveTheirCwes
<1> QED BY <1>2, <1>4

LEMMA FoundIsNumbered ==
  ASSUME input \in Inputs, ParseSemgrepJson(input.semgrep).ok
  PROVE  \E n \in Nat : DOMAIN Found = 1 .. n
BY ParsedResults, DataPathAssumption DEF Found

\* What is ingested are the findings, and none of them is looked at yet.
LEMMA IngestKeeps ==
  ASSUME CommandInvariant, Ingest
  PROVE  CommandInvariant'
<1> DEFINE kept == {i \in DOMAIN Found :
                      \A j \in 1 .. i - 1 : FindingId(Found[j]) # FindingId(Found[i])}
           row(f) == [rule |-> f.rule, place |-> f.place, severity |-> f.severity, cwe |-> f.cwe,
                      triage |-> "none", state |-> "INGESTED", verdict |-> NoVerdict]
<1>1. ParseSemgrepJson(input.semgrep).ok /\ Found = ParseSemgrepJson(input.semgrep).value
  BY DEF Ingest, Found
<1>2. /\ stage = "ingest" /\ stage' = "triage"
      /\ UNCHANGED <<input, services, todo, findingVars, target, effects, error, report, exit>>
      /\ \E order \in SetToSeqs(kept) : rows' = [k \in DOMAIN order |-> row(Found[order[k]])]
  <2>1. /\ stage = "ingest" /\ stage' = "triage"
        /\ UNCHANGED <<input, services, todo, findingVars, target, effects, error, report, exit>>
    BY DEF Ingest, Goto
  <2> DEFINE found == ParseSemgrepJson(input.semgrep).value
             first == {i \in DOMAIN found :
                         \A j \in 1 .. i - 1 : FindingId(found[j]) # FindingId(found[i])}
  <2>2. \E order \in SetToSeqs(first) : rows' = [k \in DOMAIN order |-> row(found[order[k]])]
    BY Zenon DEF Ingest
  <2>3. found = Found /\ first = kept
    BY <1>1
  <2> HIDE DEF found, first, row, kept
  <2> QED BY <2>1, <2>2, <2>3
<1>3. PICK order \in SetToSeqs(kept) : rows' = [k \in DOMAIN order |-> row(Found[order[k]])]
  BY <1>2
<1>4. Cardinality(kept) \in Nat
  <2>1. PICK n \in Nat : DOMAIN Found = 1 .. n
    BY <1>1, FoundIsNumbered DEF CommandInvariant, StagesKnown
  <2>2. IsFiniteSet(1 .. n)
    BY <2>1, FS_Interval
  <2>3. IsFiniteSet(kept)
    BY <2>1, <2>2, FS_Subset
  <2> QED BY <2>3, FS_CardinalityType
<1>5. order \in [1 .. Cardinality(kept) -> kept]
  BY DEF SetToSeqs
<1> DEFINE n == Cardinality(kept)
<1>6. n \in Nat /\ DOMAIN order = 1 .. n /\ \A k \in 1 .. n : order[k] \in DOMAIN Found
  BY <1>4, <1>5
<1> HIDE DEF n, kept
<1>7. \A j \in DOMAIN Found : row(Found[j]) \in Row
  BY DEF Row, States, Verdicts
<1>8. \A j \in DOMAIN Found :
        /\ Sourced(row(Found[j]))
        /\ row(Found[j]).state = "INGESTED" /\ row(Found[j]).verdict = NoVerdict
  BY DEF Sourced, FindingId
<1> HIDE DEF row
<1>9. \A k \in 1 .. n : rows'[k] = row(Found[order[k]])
  BY <1>3, <1>6
<1>10. rows' \in [1 .. n -> Row]
  BY <1>3, <1>6, <1>7
<1>11. rows' \in Seq(Row) /\ Len(rows') = n /\ DOMAIN rows' = 1 .. n
  <2>1. rows' = [k \in 1 .. n |-> rows'[k]] /\ \A k \in 1 .. n : rows'[k] \in Row
    BY <1>10
  <2>2. [k \in 1 .. n |-> rows'[k]] \in Seq(Row)
    BY <1>6, <2>1, IsASeq
  <2>3. rows' \in Seq(Row)
    BY <2>1, <2>2
  <2> QED BY <1>6, <1>10, <2>3, LenProperties
<1>12. \A i \in DOMAIN rows' :
         Sourced(rows'[i]) /\ rows'[i].state = "INGESTED" /\ rows'[i].verdict = NoVerdict
  BY <1>6, <1>8, <1>9, <1>11
<1>13. rows = <<>> /\ cur = 0 /\ attempt = 0 /\ shown = {} /\ answered = Unasked /\ run = NoRun
       /\ error = "none" /\ exit = "none"
  BY <1>2 DEF CommandInvariant, StagesKnown, RowsKnown, HandKnown, OwedKnown, ReportKnown,
              InHand, Leaving
<1>14. todo = {} /\ effects \subseteq [by : 0 .. 0, path : Paths]
  BY <1>13 DEF CommandInvariant, StagesKnown, TypeOK
<1>15. TypeOK' /\ (input \in Inputs)'
  <2>1. \A i \in DOMAIN rows' : rows'[i].state \in States /\ rows'[i].verdict \in Verdicts
    BY <1>12 DEF States, Verdicts
  <2>2. 0 \in 0 .. n /\ effects \subseteq [by : 0 .. n, path : Paths]
    BY <1>6, <1>14
  <2> QED BY <1>2, <1>6, <1>11, <1>13, <1>14, <2>1, <2>2
    DEF CommandInvariant, StagesKnown, TypeOK, Stages, findingVars
<1>16. RowsKnown'
  <2>1. (\A i \in DOMAIN rows : Sourced(rows[i]))'
    BY <1>2, <1>12, SourcedStay
  <2>2. (rows \in Seq(Row))'
    BY <1>2, <1>11, SameReport
  <2> QED BY <1>2, <1>12, <2>1, <2>2 DEF RowsKnown, Intaking, Legacy
<1>17. ServicesKnown'
  BY <1>2 DEF CommandInvariant, StagesKnown, ServicesKnown, Shooting, InHand
<1>18. HandKnown'
  BY <1>2, <1>13 DEF HandKnown, InHand, Leaving, findingVars
<1>19. OwedKnown'
  BY <1>2, <1>13, <1>14 DEF OwedKnown, InHand, Leaving
<1>20. ModeKnown'
  BY <1>2 DEF CommandInvariant, StagesKnown, ModeKnown, Shooting, Intaking, InHand, Legacy
<1>21. ReportKnown'
  BY <1>2, <1>13 DEF ReportKnown
<1>22. (RefusedAfterRetry /\ TruePositiveHasACause /\ EffectIsNotMissed /\ FalsePositiveRan)'
  BY <1>2 DEF RefusedAfterRetry, TruePositiveHasACause, EffectIsNotMissed, FalsePositiveRan,
              Judging
<1>23. ExitCodeTells'
  BY <1>2, <1>13 DEF ExitCodeTells
<1> QED BY <1>15, <1>16, <1>17, <1>18, <1>19, <1>20, <1>21, <1>22, <1>23
  DEF CommandInvariant, StagesKnown

\* Triage sets two fields of a row.
LEMMA ClassedRow ==
  ASSUME NEW r \in Row, NEW t \in Classes
  PROVE  LET c == [r EXCEPT !.triage = t, !.state = "TRIAGED"] IN
         /\ c \in Row
         /\ c.rule = r.rule /\ c.place = r.place /\ c.cwe = r.cwe
         /\ c.triage = t /\ c.state = "TRIAGED"
<1> DEFINE c == [r EXCEPT !.triage = t, !.state = "TRIAGED"]
<1>1. "TRIAGED" \in States
  BY DEF States
<1> DEFINE rules   == {Found[j].rule : j \in DOMAIN Found}
           places  == {Found[j].place : j \in DOMAIN Found}
           severe  == {Found[j].severity : j \in DOMAIN Found}
           cwes    == {Found[j].cwe : j \in DOMAIN Found}
           classes == Classes \union {"none"}
<1>2. Row = [rule : rules, place : places, severity : severe, cwe : cwes, triage : classes,
             state : States, verdict : Verdicts]
  BY Zenon DEF Row
<1>3. t \in classes
  OBVIOUS
<1> HIDE DEF rules, places, severe, cwes, classes
<1>4. r \in [rule : rules, place : places, severity : severe, cwe : cwes, triage : classes,
             state : States, verdict : Verdicts]
  BY <1>2
<1>5. c \in [rule : rules, place : places, severity : severe, cwe : cwes, triage : classes,
             state : States, verdict : Verdicts]
  BY <1>1, <1>3, <1>4
<1>6. /\ c.rule = r.rule /\ c.place = r.place /\ c.cwe = r.cwe
      /\ c.triage = t /\ c.state = "TRIAGED"
  BY <1>4
<1> QED BY <1>2, <1>5, <1>6

\* A row is classified as a result with its id is.
LEMMA TriageKeeps ==
  ASSUME CommandInvariant, Triage
  PROVE  CommandInvariant'
<1> DEFINE last(r) == Found[Max({i \in DOMAIN Found : FindingId(Found[i]) = FindingId(r)})]
           class(r) == Classify(CweVerdicts, last(r))
<1>1. rows \in Seq(Row) /\ \A i \in DOMAIN rows : Sourced(rows[i]) /\ rows[i] \in Row
  <2>1. rows \in Seq(Row) /\ \A i \in DOMAIN rows : Sourced(rows[i])
    BY DEF CommandInvariant, StagesKnown, RowsKnown
  <2>2. rows \in [1 .. Len(rows) -> Row]
    BY <2>1, LenProperties
  <2> QED BY <2>1, <2>2
<1>2. ASSUME NEW i \in DOMAIN rows
      PROVE  /\ ParseSemgrepJson(input.semgrep).ok
             /\ \E j \in DOMAIN Found : /\ FindingId(Found[j]) = FindingId(rows[i])
                                        /\ class(rows[i]) = Classify(CweVerdicts, Found[j])
  <2> DEFINE S == {j \in DOMAIN Found : FindingId(Found[j]) = FindingId(rows[i])}
  <2>1. S # {}
    BY <1>1 DEF Sourced
  <2>2. ParseSemgrepJson(input.semgrep).ok
    BY <2>1 DEF Found
  <2>3. PICK n \in Nat : DOMAIN Found = 1 .. n
    BY <2>2, FoundIsNumbered DEF CommandInvariant, StagesKnown
  <2>4. S \subseteq 0 .. n
    BY <2>3
  <2>5. Max(S) \in S
    BY <2>1, <2>3, <2>4, MaxOf
  <2> QED BY <2>2, <2>5
<1>3. /\ stage = "triage" /\ stage' = "compose"
      /\ UNCHANGED <<input, services, todo, findingVars, target, effects, error, report, exit>>
  BY DEF Triage, Goto
<1>4. \A i \in DOMAIN rows :
        rows'[i] = [rows[i] EXCEPT !.triage = class(rows[i]), !.state = "TRIAGED"]
  BY <1>2 DEF Triage, Found
<1>5. DOMAIN rows' = DOMAIN rows /\ rows' = [i \in DOMAIN rows |-> rows'[i]]
  BY DEF Triage
<1> HIDE DEF class
<1>6. ASSUME NEW i \in DOMAIN rows
      PROVE  rows'[i] \in Row /\ Sourced(rows'[i]) /\ rows'[i].state = "TRIAGED"
  <2>1. class(rows[i]) \in Classes
    <3>1. LoadCweVerdicts(input.verdicts).ok
      BY <1>3 DEF CommandInvariant, StagesKnown, ModeKnown, Intaking
    <3> QED BY <1>2, <3>1 DEF Classes
  <2>2. rows[i] \in Row
        /\ rows'[i] = [rows[i] EXCEPT !.triage = class(rows[i]), !.state = "TRIAGED"]
    BY <1>1, <1>4
  <2>3. /\ rows'[i] \in Row
        /\ rows'[i].rule = rows[i].rule /\ rows'[i].place = rows[i].place
        /\ rows'[i].cwe = rows[i].cwe /\ rows'[i].triage = class(rows[i])
        /\ rows'[i].state = "TRIAGED"
    <3> DEFINE c == [rows[i] EXCEPT !.triage = class(rows[i]), !.state = "TRIAGED"]
    <3>1. /\ c \in Row
          /\ c.rule = rows[i].rule /\ c.place = rows[i].place /\ c.cwe = rows[i].cwe
          /\ c.triage = class(rows[i]) /\ c.state = "TRIAGED"
      BY <2>1, <2>2, ClassedRow
    <3>2. rows'[i] = c
      BY <2>2
    <3> HIDE DEF c
    <3> QED BY <3>1, <3>2
  <2>4. FindingId(rows'[i]) = FindingId(rows[i])
    BY <2>3 DEF FindingId
  <2>5. Sourced(rows'[i])
    BY <1>1, <1>2, <2>3, <2>4 DEF Sourced
  <2> QED BY <2>3, <2>5
<1>7. rows' \in [DOMAIN rows -> Row]
  BY <1>5, <1>6
<1>8. error = "none" /\ todo \subseteq DOMAIN rows
  BY <1>3 DEF CommandInvariant, StagesKnown, OwedKnown, Leaving
<1> QED BY <1>3, <1>6, <1>7, <1>8, ClassesKeep

\* Scores and approvals change the state of rows, and approvals that of verifiable ones only.
LEMMA GatesKeep ==
  ASSUME CommandInvariant, ScoreAll \/ ScoreFails \/ Approve
  PROVE  CommandInvariant'
<1>1. rows \in Seq(Row) /\ \A i \in DOMAIN rows : Sourced(rows[i]) /\ rows[i] \in Row
  <2>1. rows \in Seq(Row) /\ \A i \in DOMAIN rows : Sourced(rows[i])
    BY DEF CommandInvariant, StagesKnown, RowsKnown
  <2>2. rows \in [1 .. Len(rows) -> Row]
    BY <2>1, LenProperties
  <2> QED BY <2>1, <2>2
<1>2. stage \in {"score", "approve"} =>
        /\ error = "none" /\ todo \subseteq DOMAIN rows
        /\ \A i \in DOMAIN rows : rows[i].state \in {"INGESTED", "TRIAGED", "SCORED"}
  BY DEF CommandInvariant, StagesKnown, OwedKnown, RowsKnown, Leaving, Intaking
<1>3. ASSUME NEW i \in DOMAIN rows, NEW s \in {"SCORED", "APPROVED"},
             s = "APPROVED" => rows[i].triage = "DYNAMICALLY_VERIFIABLE"
      PROVE  LET r == [rows[i] EXCEPT !.state = s] IN
             r \in Row /\ Sourced(r) /\ r.state = s
  <2> DEFINE r == [rows[i] EXCEPT !.state = s]
  <2>1. r \in Row
    BY <1>1 DEF Row, States
  <2>2. /\ r.rule = rows[i].rule /\ r.place = rows[i].place
        /\ r.cwe = rows[i].cwe /\ r.triage = rows[i].triage /\ r.state = s
    BY <1>1 DEF Row
  <2> HIDE DEF r
  <2>3. Sourced(r)
    BY <1>1, <1>3, <2>2 DEF Sourced, FindingId
  <2> QED BY <2>1, <2>2, <2>3 DEF r
<1>4. CASE ScoreAll
  <2>1. /\ stage = "score" /\ stage' = "approve"
        /\ rows' = [i \in DOMAIN rows |-> [rows[i] EXCEPT !.state = "SCORED"]]
        /\ UNCHANGED <<input, services, todo, findingVars, target, effects, error, report, exit>>
    BY <1>4 DEF ScoreAll, Goto
  <2>2. \A i \in DOMAIN rows :
          rows'[i] \in Row /\ Sourced(rows'[i]) /\ rows'[i].state = "SCORED"
    BY <1>3, <2>1
  <2>3. rows' \in [DOMAIN rows -> Row]
    BY <2>1, <2>2
  <2> QED BY <1>2, <2>1, <2>2, <2>3, ClassesKeep
<1>5. CASE ScoreFails
  <2>1. PICK i \in Verifiable, answer \in Answers :
          /\ stage = "score" /\ stage' = "report"
          /\ error' = ErrorOf(Score(Provider, answer))
          /\ rows' = [j \in DOMAIN rows |->
                        IF j < i THEN [rows[j] EXCEPT !.state = "SCORED"] ELSE rows[j]]
          /\ UNCHANGED <<input, services, todo, findingVars, target, effects, report, exit>>
    BY <1>5 DEF ScoreFails, Goto
  <2>2. \A j \in DOMAIN rows :
          /\ rows'[j] \in Row /\ Sourced(rows'[j])
          /\ rows'[j].state \in {"INGESTED", "TRIAGED", "SCORED"}
    BY <1>1, <1>2, <1>3, <2>1
  <2>3. rows' \in [DOMAIN rows -> Row]
    BY <2>1, <2>2
  <2>4. error' \in {"shieldclaw", "other"}
    BY <2>1, ErrorsAre
  <2> QED BY <1>2, <2>1, <2>2, <2>3, <2>4, ClassesKeep
<1>6. CASE Approve
  <2>1. PICK A \in SUBSET Verifiable :
          /\ stage = "approve" /\ stage' = IF A = {} THEN "report" ELSE "sandbox"
          /\ todo' = A
          /\ rows' = [i \in DOMAIN rows |->
                        IF i \in A THEN [rows[i] EXCEPT !.state = "APPROVED"] ELSE rows[i]]
          /\ UNCHANGED <<input, services, findingVars, target, effects, error, report, exit>>
    BY <1>6 DEF Approve, Goto
  <2>2. A \subseteq DOMAIN rows /\ \A i \in A : rows[i].triage = "DYNAMICALLY_VERIFIABLE"
    BY DEF Verifiable
  <2>3. \A i \in DOMAIN rows :
          /\ rows'[i] \in Row /\ Sourced(rows'[i])
          /\ IF i \in A THEN rows'[i].state = "APPROVED"
             ELSE rows'[i].state \in {"INGESTED", "TRIAGED", "SCORED"}
    BY <1>1, <1>2, <1>3, <2>1, <2>2
  <2>4. rows' \in [DOMAIN rows -> Row] /\ DOMAIN rows' = DOMAIN rows
    BY <2>1, <2>3
  <2>5. Owing' = A
    <3>1. \A i \in DOMAIN rows : rows'[i].state \in {"APPROVED", "POC_GENERATED"} <=> i \in A
      BY <2>3
    <3> QED BY <2>2, <2>4, <3>1 DEF Owing
  <2> QED BY <1>2, <2>1, <2>2, <2>3, <2>4, <2>5, ClassesKeep
<1> QED BY <1>4, <1>5, <1>6

----------------------------------------------------------------------------
(* The invariant *)

LEMMA DataPathStart == Init => CommandInvariant
<1> SUFFICES ASSUME Init PROVE CommandInvariant OBVIOUS
<1>1. rows \in Seq(Row) /\ DOMAIN rows = {} /\ Len(rows) = 0
  BY EmptySeq DEF Init
<1>2. IsFiniteSet(services)
  BY FS_EmptySet DEF Init
<1>3. TypeOK
  <2>1. shown = {} /\ answered = Unasked
    BY DEF Init
  <2> QED BY <1>1, <1>2, <2>1 DEF Init, TypeOK, Stages
<1>4. RowsKnown /\ ServicesKnown
  BY <1>1 DEF Init, RowsKnown, ServicesKnown, Intaking, Shooting, InHand, Legacy
<1>5. HandKnown /\ OwedKnown
  BY <1>1 DEF Init, HandKnown, OwedKnown, InHand, Leaving
<1>6. ModeKnown /\ ReportKnown
  BY DEF Init, ModeKnown, ReportKnown, Intaking, Shooting, InHand, Legacy
<1>7. RefusedAfterRetry /\ TruePositiveHasACause /\ EffectIsNotMissed /\ FalsePositiveRan
      /\ ExitCodeTells
  BY DEF Init, RefusedAfterRetry, TruePositiveHasACause, EffectIsNotMissed, FalsePositiveRan,
         ExitCodeTells, Judging
<1> QED BY <1>3, <1>4, <1>5, <1>6, <1>7 DEF CommandInvariant, StagesKnown, Init

LEMMA DataPathStutters ==
  ASSUME CommandInvariant, UNCHANGED vars
  PROVE  CommandInvariant'
<1>1. /\ stage' = stage /\ input' = input /\ services' = services /\ rows' = rows /\ todo' = todo
      /\ cur' = cur /\ attempt' = attempt /\ dns' = dns /\ target' = target /\ run' = run
      /\ effects' = effects /\ shown' = shown /\ answered' = answered /\ error' = error
      /\ report' = report /\ exit' = exit
  BY DEF vars
<1>2. TypeOK'
  BY <1>1 DEF CommandInvariant, StagesKnown, TypeOK
<1>3. RowsKnown'
  BY <1>1, SameReport DEF CommandInvariant, StagesKnown, RowsKnown
<1>4. ServicesKnown' /\ HandKnown'
  BY <1>1 DEF CommandInvariant, StagesKnown, ServicesKnown, HandKnown
<1>5. OwedKnown' /\ ModeKnown' /\ ReportKnown'
  BY <1>1 DEF CommandInvariant, StagesKnown, OwedKnown, Owing, ModeKnown, ReportKnown
<1>6. (RefusedAfterRetry /\ TruePositiveHasACause /\ EffectIsNotMissed /\ FalsePositiveRan)'
  BY <1>1 DEF CommandInvariant, StagesKnown, RefusedAfterRetry, TruePositiveHasACause,
              EffectIsNotMissed, FalsePositiveRan, Judging, Provider, Changed, ChangedBefore
<1>7. ExitCodeTells'
  BY <1>1 DEF CommandInvariant, StagesKnown, ExitCodeTells
<1> QED BY <1>1, <1>2, <1>3, <1>4, <1>5, <1>6, <1>7 DEF CommandInvariant, StagesKnown

LEMMA DataPathSteps == CommandInvariant /\ [Next]_vars => CommandInvariant'
<1> SUFFICES ASSUME CommandInvariant, [Next]_vars PROVE CommandInvariant'
  OBVIOUS
<1>1. CASE Reject \/ Dispatch \/ Summarise \/ ReadCompose \/ SandboxUp
  BY <1>1, StartKeeps
<1>2. CASE \/ IngestFails \/ ReadComposeFails \/ SandboxFails \/ GenerateCrashes
           \/ DetonateCrashes \/ AggregateContext \/ LegacyPoc \/ LegacyShot
  BY <1>2, RaisesKeep
<1>3. CASE \/ NextFinding \/ EndFindings \/ GenerateAgain \/ CheckDns \/ Detonate \/ Judged
           \/ Report \/ Leave
  BY <1>3, LoopKeeps
<1>4. CASE Refused \/ GenerateFails \/ SkipUnknownDns \/ DetonateFails
  BY <1>4, JudgesKeep
<1>5. CASE Observe BY <1>5, ObserveKeeps
<1>6. CASE Generate BY <1>6, GenerateKeeps
<1>7. CASE Ingest BY <1>7, IngestKeeps
<1>8. CASE Triage BY <1>8, TriageKeeps
<1>9. CASE ScoreAll \/ ScoreFails \/ Approve BY <1>9, GatesKeep
<1>10. CASE UNCHANGED vars BY <1>10, DataPathStutters
<1> QED BY <1>1, <1>2, <1>3, <1>4, <1>5, <1>6, <1>7, <1>8, <1>9, <1>10
  DEF Next, IntakeStep, DetonationStep

LEMMA CommandAlways == Spec => []CommandInvariant
<1>1. Init => CommandInvariant BY DataPathStart
<1>2. CommandInvariant /\ [Next]_vars => CommandInvariant' BY DataPathSteps
<1> QED BY <1>1, <1>2, PTL DEF Spec

----------------------------------------------------------------------------
(* The ids *)

IdsKept ==
  /\ DOMAIN rows' = DOMAIN rows
  /\ \A i \in DOMAIN rows : FindingId(rows'[i]) = FindingId(rows[i])

LEMMA SynthesizedIs == \A e : Synthesize(e).verdict \in Verdicts
BY DEF Synthesize, Verdicts

\* A verdict is no part of what identifies a finding.
LEMMA JudgeKeepsIds ==
  ASSUME CommandInvariant, input' = input, NEW from \in InHand, NEW v \in Verdicts,
         NEW s \in States, Judge(from, v, s)
  PROVE  IdsKept
<1>1. cur \in DOMAIN rows
  BY DEF Judge, Goto, CommandInvariant, StagesKnown, HandKnown
<1>2. /\ RowsMoved
      /\ rows'[cur] = [rows[cur] EXCEPT !.verdict = v, !.state = s]
      /\ \A i \in DOMAIN rows : i # cur => rows'[i] = rows[i]
  BY <1>1, RowGets DEF Judge
<1>3. rows[cur] \in Row /\ DOMAIN rows' = DOMAIN rows
  BY <1>1, <1>2 DEF RowsMoved
<1>4. rows'[cur].rule = rows[cur].rule /\ rows'[cur].place = rows[cur].place
  BY <1>2, <1>3 DEF Row
<1> QED BY <1>2, <1>3, <1>4 DEF IdsKept, FindingId

\* Only Ingest makes findings.
LEMMA IdsStay ==
  ASSUME CommandInvariant, [Next]_vars, ~Ingest
  PROVE  input' = input /\ IdsKept
<1>1. rows \in Seq(Row) /\ \A i \in DOMAIN rows : rows[i] \in Row
  <2>1. rows \in Seq(Row)
    BY DEF CommandInvariant, StagesKnown, RowsKnown
  <2>2. rows \in [1 .. Len(rows) -> Row]
    BY <2>1, LenProperties
  <2> QED BY <2>1, <2>2
<1>2. \A i \in DOMAIN rows :
        /\ \A t, s : FindingId([rows[i] EXCEPT !.triage = t, !.state = s]) = FindingId(rows[i])
        /\ \A s : FindingId([rows[i] EXCEPT !.state = s]) = FindingId(rows[i])
  BY <1>1 DEF Row, FindingId
<1>3. CASE \/ Reject \/ Dispatch \/ Summarise \/ ReadCompose \/ ReadComposeFails \/ SandboxUp
           \/ IngestFails
           \/ SandboxFails \/ GenerateCrashes \/ DetonateCrashes \/ AggregateContext \/ LegacyPoc
           \/ LegacyShot \/ NextFinding \/ EndFindings \/ GenerateAgain \/ CheckDns \/ Detonate
           \/ Judged \/ Report \/ Leave \/ UNCHANGED vars
  <2>1. input' = input /\ rows' = rows
    BY <1>3
    DEF Reject, Dispatch, Summarise, ReadCompose, ReadComposeFails, SandboxUp, IngestFails,
        SandboxFails, GenerateCrashes, DetonateCrashes, AggregateContext, LegacyPoc, LegacyShot,
        NextFinding, EndFindings, GenerateAgain, CheckDns, Detonate, Judged, Report, Leave, vars, Raise
  <2> QED BY <2>1 DEF IdsKept
<1>4. CASE Refused \/ GenerateFails \/ SkipUnknownDns \/ DetonateFails \/ Observe
  <2>1. input' = input
    BY <1>4 DEF Refused, GenerateFails, SkipUnknownDns, DetonateFails, Observe
  <2>2. ASSUME Refused \/ GenerateFails \/ SkipUnknownDns \/ DetonateFails PROVE IdsKept
    <3>1. \/ Judge("generate", "REFUSED", "REFUSED")
          \/ \E from \in InHand : Judge(from, "INCONCLUSIVE", "VERDICTED")
      BY <2>2 DEF Refused, GenerateFails, SkipUnknownDns, DetonateFails, InHand
    <3> QED BY <2>1, <3>1, JudgeKeepsIds DEF InHand, Verdicts, States
  <2>3. ASSUME Observe PROVE IdsKept
    <3>1. \E e : Judge("observe", Synthesize(e).verdict, "VERDICTED")
      BY <2>3 DEF Observe
    <3> QED BY <2>1, <3>1, SynthesizedIs, JudgeKeepsIds DEF InHand, States
  <2> QED BY <1>4, <2>1, <2>2, <2>3
<1>5. CASE Generate
  <2>1. input' = input /\ stage = "generate" /\ rows' = [rows EXCEPT ![cur].state = "POC_GENERATED"]
    BY <1>5 DEF Generate, Goto
  <2>2. cur \in DOMAIN rows
    BY <2>1 DEF CommandInvariant, StagesKnown, HandKnown, InHand
  <2> QED BY <1>2, <2>1, <2>2 DEF IdsKept
<1>6. CASE Triage
  <2>1. input' = input BY <1>6 DEF Triage
  <2> QED BY <1>2, <1>6, <2>1 DEF Triage, IdsKept
<1>7. CASE ScoreAll \/ ScoreFails \/ Approve
  <2>1. input' = input BY <1>7 DEF ScoreAll, ScoreFails, Approve
  <2>2. CASE ScoreAll BY <1>2, <2>1, <2>2 DEF ScoreAll, IdsKept
  <2>3. CASE ScoreFails
    <3>1. PICK i \in Verifiable :
            rows' = [j \in DOMAIN rows |->
                       IF j < i THEN [rows[j] EXCEPT !.state = "SCORED"] ELSE rows[j]]
      BY <2>3 DEF ScoreFails
    <3>2. \A j \in DOMAIN rows : FindingId(rows'[j]) = FindingId(rows[j])
      BY <1>2, <3>1
    <3> QED BY <2>1, <3>1, <3>2 DEF IdsKept
  <2>4. CASE Approve
    <3>1. PICK A \in SUBSET Verifiable :
            rows' = [i \in DOMAIN rows |->
                       IF i \in A THEN [rows[i] EXCEPT !.state = "APPROVED"] ELSE rows[i]]
      BY <2>4 DEF Approve
    <3>2. \A j \in DOMAIN rows : FindingId(rows'[j]) = FindingId(rows[j])
      BY <1>2, <3>1
    <3> QED BY <2>1, <3>1, <3>2 DEF IdsKept
  <2> QED BY <1>7, <2>2, <2>3, <2>4
<1> QED BY <1>3, <1>4, <1>5, <1>6, <1>7 DEF Next, IntakeStep, DetonationStep

\* Of the results with one id, the first is kept.
LEMMA IngestedOnce ==
  ASSUME CommandInvariant, Ingest
  PROVE  /\ \A i, k \in DOMAIN rows' : FindingId(rows'[i]) = FindingId(rows'[k]) => i = k
         /\ \A j \in DOMAIN Found : \E i \in DOMAIN rows' :
              FindingId(rows'[i]) = FindingId(Found[j])
<1> DEFINE kept == {i \in DOMAIN Found :
                      \A j \in 1 .. i - 1 : FindingId(Found[j]) # FindingId(Found[i])}
           n == Cardinality(kept)
<1>1. ParseSemgrepJson(input.semgrep).ok /\ Found = ParseSemgrepJson(input.semgrep).value
  BY DEF Ingest, Found
<1>2. PICK m \in Nat : DOMAIN Found = 1 .. m
  BY <1>1, FoundIsNumbered DEF CommandInvariant
<1>3. IsFiniteSet(kept) /\ n \in Nat
  <2>1. IsFiniteSet(1 .. m)
    BY <1>2, FS_Interval
  <2>2. IsFiniteSet(kept)
    BY <1>2, <2>1, FS_Subset
  <2> QED BY <2>2, FS_CardinalityType
<1>4. PICK order \in SetToSeqs(kept) :
        /\ DOMAIN rows' = DOMAIN order
        /\ \A k \in DOMAIN order : FindingId(rows'[k]) = FindingId(Found[order[k]])
  <2> DEFINE found == ParseSemgrepJson(input.semgrep).value
             first == {i \in DOMAIN found :
                         \A j \in 1 .. i - 1 : FindingId(found[j]) # FindingId(found[i])}
  <2>1. PICK order \in SetToSeqs(first) :
          rows' = [k \in DOMAIN order |->
                     [rule |-> found[order[k]].rule, place |-> found[order[k]].place,
                      severity |-> found[order[k]].severity, cwe |-> found[order[k]].cwe,
                      triage |-> "none", state |-> "INGESTED", verdict |-> NoVerdict]]
    BY Zenon DEF Ingest
  <2>2. found = Found /\ first = kept
    BY <1>1
  <2>3. DOMAIN rows' = DOMAIN order
        /\ \A k \in DOMAIN order : FindingId(rows'[k]) = FindingId(found[order[k]])
    BY <2>1 DEF FindingId
  <2> HIDE DEF found, first, kept
  <2> QED BY <2>1, <2>2, <2>3
<1>5. order \in [1 .. n -> kept] /\ \A i, k \in 1 .. n : i # k => order[i] # order[k]
  BY DEF SetToSeqs
<1>6. order \in Surjection(1 .. n, kept)
  <2>1. order \in Injection(1 .. n, kept)
    BY <1>5 DEF Injection, IsInjective
  <2>2. Cardinality(1 .. n) = n
    BY <1>3, FS_Interval
  <2> QED BY <1>3, <2>1, <2>2, FS_Injection
<1>7. \A i, k \in kept : FindingId(Found[i]) = FindingId(Found[k]) => i = k
  BY <1>2
<1>8. ASSUME NEW j \in DOMAIN Found
      PROVE  \E i \in kept : FindingId(Found[i]) = FindingId(Found[j])
  <2> DEFINE same == {i \in DOMAIN Found : FindingId(Found[i]) = FindingId(Found[j])}
  <2>1. same \subseteq Nat /\ same # {}
    BY <1>2
  <2>2. PICK i \in same : \A x \in same : i <= x
    BY <2>1, HasLeast
  <2>3. i \in kept
    BY <1>2, <2>2
  <2> QED BY <2>2, <2>3
<1> HIDE DEF kept, n
<1>9. \A i \in kept : \E k \in 1 .. n : order[k] = i
  BY <1>6 DEF Surjection
<1> QED BY <1>4, <1>5, <1>7, <1>8, <1>9

\* The report is written once, at the end.
LEMMA ReportStays ==
  ASSUME CommandInvariant, [Next]_vars
  PROVE  /\ ~Report => report' = report
         /\ stage \in {"exit", "end"} => stage' \in {"exit", "end"} /\ rows' = rows
         /\ Report => /\ stage = "report" /\ stage' = "exit" /\ rows' = rows
                      /\ report'.sarif = SarifResults(rows)
                      /\ report'.rules = SarifRules(rows)
                      /\ report'.groups = MarkdownGroups(rows)
<1>1. CASE Report
  BY <1>1 DEF Report, Goto
<1>2. CASE Leave \/ UNCHANGED vars
  BY <1>2 DEF Leave, vars, Report, Goto
<1>3. CASE Reject \/ Dispatch \/ Summarise \/ Ingest \/ Triage \/ ReadCompose \/ ScoreAll
           \/ ScoreFails \/ Approve \/ SandboxUp \/ NextFinding \/ EndFindings
  <2>1. report' = report /\ stage \notin {"exit", "end", "report"}
    BY <1>3
    DEF Reject, Dispatch, Summarise, Ingest, Triage, ReadCompose, ScoreAll, ScoreFails, Approve,
        SandboxUp, NextFinding, EndFindings, Goto
  <2> QED BY <2>1 DEF Report, Goto
<1>4. CASE IngestFails \/ ReadComposeFails \/ SandboxFails \/ GenerateCrashes \/ DetonateCrashes
           \/ AggregateContext \/ LegacyPoc \/ LegacyShot
  <2>1. report' = report /\ stage \notin {"exit", "end", "report"}
    BY <1>4
    DEF IngestFails, ReadComposeFails, SandboxFails, GenerateCrashes, DetonateCrashes,
        AggregateContext, LegacyPoc, LegacyShot, Raise, Goto
  <2> QED BY <2>1 DEF Report, Goto
<1>5. CASE Generate \/ GenerateAgain \/ CheckDns \/ Detonate \/ Judged
  <2>1. report' = report /\ stage \notin {"exit", "end", "report"}
    BY <1>5 DEF Generate, GenerateAgain, CheckDns, Detonate, Judged, Goto
  <2> QED BY <2>1 DEF Report, Goto
<1>6. CASE Refused \/ GenerateFails \/ SkipUnknownDns \/ DetonateFails
  <2>1. report' = report /\ stage \notin {"exit", "end", "report"}
    BY <1>6 DEF Refused, GenerateFails, SkipUnknownDns, DetonateFails, Judge, Goto
  <2> QED BY <2>1 DEF Report, Goto
<1>7. CASE Observe
  <2>1. report' = report /\ stage \notin {"exit", "end", "report"}
    BY <1>7 DEF Observe, Judge, Goto
  <2> QED BY <2>1 DEF Report, Goto
<1> QED BY <1>1, <1>2, <1>3, <1>4, <1>5, <1>6, <1>7 DEF Next, IntakeStep, DetonationStep

LEMMA IdsSteps == CommandInvariant /\ IdsKnown /\ [Next]_vars => IdsKnown'
<1> SUFFICES ASSUME CommandInvariant, IdsKnown, [Next]_vars PROVE IdsKnown'
  OBVIOUS
<1>1. report'.written => /\ stage' \in {"exit", "end"}
                         /\ report'.sarif = SarifResults(rows')
                         /\ report'.rules = SarifRules(rows')
                         /\ report'.groups = MarkdownGroups(rows')
  BY ReportStays DEF IdsKnown
<1>2. CASE Ingest
  <2>1. Found' = Found
    BY <1>2 DEF Ingest, Found
  <2> QED BY <1>1, <1>2, <2>1, IngestedOnce DEF IdsKnown
<1>3. CASE ~Ingest
  <2>1. input' = input /\ IdsKept
    BY <1>3, IdsStay
  <2>2. Found' = Found
    BY <2>1 DEF Found
  <2>3. rows' # <<>> => rows # <<>>
    <3>1. rows \in Seq(Row)
      BY DEF CommandInvariant, StagesKnown, RowsKnown
    <3>2. (rows \in Seq(Row))'
      BY DataPathSteps DEF CommandInvariant, StagesKnown, RowsKnown
    <3> QED BY <2>1, <3>1, <3>2, EmptySeq, LenProperties DEF IdsKept
  <2>4. \A i, k \in DOMAIN rows' : FindingId(rows'[i]) = FindingId(rows'[k]) => i = k
    BY <2>1 DEF IdsKept, IdsKnown
  <2>5. rows' # <<>> => \A j \in DOMAIN Found' : \E i \in DOMAIN rows' :
                          FindingId(rows'[i]) = FindingId(Found'[j])
    BY <2>1, <2>2, <2>3 DEF IdsKept, IdsKnown
  <2> QED BY <1>1, <2>4, <2>5 DEF IdsKnown
<1> QED BY <1>2, <1>3

LEMMA IdsAlways == Spec => []IdsKnown
<1>1. Init => IdsKnown
  BY DEF Init, IdsKnown, NoReport
<1> QED BY <1>1, CommandAlways, IdsSteps, PTL DEF Spec

----------------------------------------------------------------------------
(* What follows *)

\* A command knows at each stage what the stages before it have left, whatever the report, the
\* model, Docker and the target's log are.
THEOREM DataPathAlways == Spec => []DataPathInvariant
<1>1. CommandInvariant /\ IdsKnown => DataPathInvariant
  BY DEF CommandInvariant, DataPathInvariant
<1> QED BY <1>1, CommandAlways, IdsAlways, PTL

\* The command is in its types.
THEOREM DataPathTypes == Spec => []TypeOK
<1>1. CommandInvariant => TypeOK BY DEF CommandInvariant, StagesKnown
<1> QED BY <1>1, CommandAlways, PTL

\* A finding is REFUSED after a second attempt only, unless OpenAI's content filter says so
\* (PocGenerator.generate).
THEOREM RefusalsAreRetried == Spec => []RefusedAfterRetry
<1>1. CommandInvariant => RefusedAfterRetry BY DEF CommandInvariant, StagesKnown
<1> QED BY <1>1, CommandAlways, PTL

\* A TRUE_POSITIVE has an exploit that exited with 0, a container that was looked at, and an
\* observer that Docker answered with a change or a telling line, for logs of any length and any
\* number of findings before it, or with the complaint that reads like one (synthesize and the
\* observers).
THEOREM TruePositivesHaveACause == Spec => []TruePositiveHasACause
<1>1. CommandInvariant => TruePositiveHasACause BY DEF CommandInvariant, StagesKnown
<1> QED BY <1>1, CommandAlways, PTL

\* One observer that was shown an effect makes the verdict of an exploit that exited with 0,
\* wherever in the last MaxLogLines lines of a log of any length the effect is.
THEOREM EffectsAreNotMissed == Spec => []EffectIsNotMissed
<1>1. CommandInvariant => EffectIsNotMissed BY DEF CommandInvariant, StagesKnown
<1> QED BY <1>1, CommandAlways, PTL

\* A FALSE_POSITIVE is said of an exploit that ran (DockerOrchestrator.detonate).
THEOREM FalsePositivesRan == Spec => []FalsePositiveRan
<1>1. CommandInvariant => FalsePositiveRan BY DEF CommandInvariant, StagesKnown
<1> QED BY <1>1, CommandAlways, PTL

\* Exit code 0 means a report with an error or an outcome for all that was approved (main and
\* the finally block of Orchestrator.run).
THEOREM ExitCodesTell == Spec => []ExitCodeTells
<1>1. CommandInvariant => ExitCodeTells BY DEF CommandInvariant, StagesKnown
<1> QED BY <1>1, CommandAlways, PTL

\* Of a compose file that gives each service a block of its own, the services are found
\* (_extract_compose_service_names).
THEOREM ServicesAreFound == Spec => []ServicesAreExtracted
<1>1. CommandInvariant => ServicesAreExtracted
  <2> SUFFICES ASSUME CommandInvariant, services # {}, PlainCompose(input.compose)
               PROVE  services = Declared(input.compose)
    BY DEF ServicesAreExtracted
  <2>1. services = ComposeServiceNames(input.compose)
    BY DEF CommandInvariant, StagesKnown, ServicesKnown
  <2>2. input.compose \in Lines /\ Aligned(input.compose)
    BY DataPathAssumption DEF CommandInvariant, StagesKnown, Lines
  <2> QED BY <2>1, <2>2, ServicesFound
<1> QED BY <1>1, CommandAlways, PTL

\* An exploit that goes out names a service of such a file, whatever the model answered
\* (_detonate_finding).
THEOREM ExploitsNameAService == Spec => []ExploitNamesAService
<1>1. CommandInvariant => ExploitNamesAService
  <2> SUFFICES ASSUME CommandInvariant, stage \in {"detonate", "observe"},
                      PlainCompose(input.compose)
               PROVE  dns \in Declared(input.compose) \/ Declared(input.compose) = {}
    BY DEF ExploitNamesAService
  <2>1. services = ComposeServiceNames(input.compose) /\ (services = {} \/ dns \in services)
    BY DEF CommandInvariant, StagesKnown, ServicesKnown, HandKnown, Shooting, InHand
  <2>2. input.compose \in Lines /\ Aligned(input.compose)
    BY DataPathAssumption DEF CommandInvariant, StagesKnown, Lines
  <2> QED BY <2>1, <2>2, ServicesFound
<1> QED BY <1>1, CommandAlways, PTL

\* A finding with a CWE that is STATIC_ONLY is never approved, let alone exploited: classify is
\* conservative, and of several results with one id it does not matter which one is kept and
\* which one is classified, as they have the same CWEs.
THEOREM StaticIsSpared ==
  ASSUME RulesHaveTheirCwes
  PROVE  Spec => []StaticIsNeverExploited
<1>1. CommandInvariant => StaticIsNeverExploited
  <2> SUFFICES ASSUME CommandInvariant, NEW i \in DOMAIN rows,
                      rows[i].state \in {"APPROVED", "POC_GENERATED", "VERDICTED", "REFUSED"}
               PROVE  /\ rows[i].rule \notin OutOfScope
                      /\ \A k \in DOMAIN rows[i].cwe :
                           rows[i].cwe[k] \in DOMAIN CweVerdicts
                             => CweVerdicts[rows[i].cwe[k]] # "STATIC_ONLY"
    BY DEF StaticIsNeverExploited
  <2>1. Sourced(rows[i])
    BY DEF CommandInvariant, StagesKnown, RowsKnown
  <2>2. PICK j \in DOMAIN Found :
          FindingId(Found[j]) = FindingId(rows[i]) /\ Found[j].cwe = rows[i].cwe
    BY <2>1 DEF Sourced
  <2>3. PICK k \in DOMAIN Found :
          /\ FindingId(Found[k]) = FindingId(rows[i])
          /\ Classify(CweVerdicts, Found[k]) = "DYNAMICALLY_VERIFIABLE"
    BY <2>1 DEF Sourced
  <2>4. Found[k].cwe = rows[i].cwe
    BY <2>2, <2>3, SameCwes DEF CommandInvariant, StagesKnown
  <2>5. Found[k].rule = rows[i].rule
    BY <2>3 DEF FindingId
  <2> QED BY <2>3, <2>4, <2>5, TriageIsConservative
<1> QED BY <1>1, CommandAlways, PTL

\* Every result of a report that was ingested is in the report of the run, once for its rule and
\* lines (INSERT OR IGNORE, and the finally block of Orchestrator.run).
THEOREM ResultsAreReported == Spec => []EveryResultIsReported
<1>1. CommandInvariant /\ IdsKnown => EveryResultIsReported
  <2> DEFINE found == ParseSemgrepJson(input.semgrep).value
  <2> SUFFICES ASSUME CommandInvariant, IdsKnown, report.written, rows # <<>>,
                      NEW i \in DOMAIN found
               PROVE  Cardinality({k \in DOMAIN report.sarif :
                                     report.sarif[k].id = FindingId(found[i])}) = 1
    BY DEF EveryResultIsReported
  <2>1. found = Found
    <3>1. rows \in Seq(Row) /\ \A k \in DOMAIN rows : Sourced(rows[k])
      BY DEF CommandInvariant, StagesKnown, RowsKnown
    <3>2. DOMAIN rows # {}
      BY <3>1, EmptySeq, LenProperties
    <3>3. DOMAIN Found # {}
      BY <3>1, <3>2 DEF Sourced
    <3> QED BY <3>3 DEF Found
  <2>2. PICK r \in DOMAIN rows : FindingId(rows[r]) = FindingId(found[i])
    BY <2>1 DEF IdsKnown
  <2>3. DOMAIN report.sarif = DOMAIN rows
        /\ \A k \in DOMAIN rows : report.sarif[k].id = FindingId(rows[k])
    BY DEF IdsKnown, SarifResults, FindingId
  <2>4. {k \in DOMAIN report.sarif : report.sarif[k].id = FindingId(found[i])} = {r}
    BY <2>2, <2>3 DEF IdsKnown
  <2> QED BY <2>4, FS_Singleton
<1> QED BY <1>1, CommandAlways, IdsAlways, PTL

\* The index of a SARIF result is that of its rule, and a row is listed once in the markdown
\* report, however many findings share a rule or a heading (ReportBuilder).
THEOREM ReportsAreConsistent == Spec => []ReportIsConsistent
<1>1. CommandInvariant /\ IdsKnown => ReportIsConsistent
  <2> SUFFICES ASSUME CommandInvariant, IdsKnown, report.written
               PROVE  ReportIsConsistent
    BY DEF ReportIsConsistent
  <2>1. /\ report.sarif = SarifResults(rows) /\ report.rules = SarifRules(rows)
        /\ report.groups = MarkdownGroups(rows)
        /\ \A j, k \in DOMAIN rows : FindingId(rows[j]) = FindingId(rows[k]) => j = k
    BY DEF IdsKnown
  <2>2. Len(rows) \in Nat /\ DOMAIN rows = 1 .. Len(rows)
    <3>1. rows \in Seq(Row) BY DEF CommandInvariant, StagesKnown, RowsKnown
    <3> QED BY <3>1, LenProperties
  <2>3. ASSUME NEW k \in DOMAIN report.sarif
        PROVE  \E n \in DOMAIN report.rules :
                 n = report.sarif[k].index + 1 /\ report.rules[n] = report.sarif[k].rule
    <3>1. /\ k \in DOMAIN rows
          /\ report.sarif[k].index = RuleIndex(rows, k) /\ report.sarif[k].rule = rows[k].rule
      BY <2>1 DEF SarifResults
    <3> QED BY <2>1, <2>2, <3>1, RuleIndexIs
  <2>4. ASSUME NEW i \in DOMAIN rows
        PROVE  \E h \in DOMAIN report.groups : \E n \in DOMAIN report.groups[h] :
                 \A g \in DOMAIN report.groups : \A m \in DOMAIN report.groups[g] :
                   report.groups[g][m] = rows[i] <=> g = h /\ m = n
    <3>1. \A j, k \in DOMAIN rows : rows[j] = rows[k] => j = k
      BY <2>1
    <3>2. \A groups : groups = MarkdownGroups(rows) =>
            \E h \in DOMAIN groups : \E n \in DOMAIN groups[h] :
              \A g \in DOMAIN groups : \A m \in DOMAIN groups[g] :
                groups[g][m] = rows[i] <=> g = h /\ m = n
      BY <2>2, <3>1, GroupsAre
    <3> QED BY <2>1, <3>2
  <2> QED BY <2>3, <2>4 DEF ReportIsConsistent
<1> QED BY <1>1, CommandAlways, IdsAlways, PTL

=============================================================================
