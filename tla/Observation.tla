---------------------------- MODULE Observation ----------------------------
(***************************************************************************)
(* From a detonation to a verdict: the container that is looked at         *)
(* (DockerOrchestrator.get_target_container_id), the three observers       *)
(* (observer/*.py), the reading of docker run's result                     *)
(* (DockerOrchestrator.detonate) and verdict/synthesizer.py.               *)
(*                                                                         *)
(* A log line is known by what the code searches for: "200" (an HTTP 200), *)
(* a "generic" error word, a "specific" one of the finding's CWE, or none  *)
(* of these ("plain").  An evidence payload is the record of what it says. *)
(***************************************************************************)
EXTENDS Naturals, Sequences, SequencesExt

CONSTANTS
  DbService,      \* services with one of the _db_keywords in their name
  SpecificCwe,    \* the CWEs with log patterns of their own
  MaxLogLines     \* _MAX_LOG_LINES

ASSUME ObservationAssumption == MaxLogLines \in Nat

NoTarget == "none"

----------------------------------------------------------------------------
(* The target container *)

\* The keywords are searched in "<project>-<service>-1", and the project is "sc" and 20
\* hex digits, with a "db" among them or not.  listed: what `docker compose ps` lists
TargetContainer(listed, digest) ==
  LET i == SelectInSeq(listed, LAMBDA s : s \notin DbService /\ ~digest.db)
  IN IF i = 0 THEN NoTarget ELSE listed[i]

----------------------------------------------------------------------------
(* docker run *)

\* variant: whatever reads like Docker is Docker
RunResultByOutput(run) ==
  IF run.ends = "timeout" THEN [kind |-> "code", code |-> 124]
  ELSE IF run.output = "undecodable" THEN [kind |-> "crash"]
  ELSE IF run.output = "like docker" THEN [kind |-> "error"]
  ELSE IF run.ends = "docker" THEN [kind |-> "code", code |-> 125]
  ELSE [kind |-> "code", code |-> IF run.ends = "failure" THEN 1 ELSE 0]

\* An exit code; a DetonationError, also when an exploit that failed has said something
\* that reads like Docker; or, for output that is not UTF-8, a ValueError
RunResult(run) ==
  IF run.ends = "timeout" THEN [kind |-> "code", code |-> 124]
  ELSE IF run.ends = "docker" THEN [kind |-> "error"]
  ELSE IF run.output = "undecodable" THEN [kind |-> "crash"]
  ELSE IF run.ends = "failure" /\ run.output = "like docker" THEN [kind |-> "error"]
  ELSE [kind |-> "code", code |-> IF run.ends = "failure" THEN 1 ELSE 0]

----------------------------------------------------------------------------
(* The observers, after the detonation *)

ExitCodeEvidence(code) == <<[tier |-> 1, code |-> code]>>

\* A hook that raises (the output is not UTF-8, say) leaves a warning and no evidence;
\* without a target, or a Docker that answers, the observer says so
Tier2(signal) == <<[tier |-> 2, signal |-> signal]>>
Unseen(target, docker) == target = NoTarget \/ docker \in {"unanswered", "garbled"}
Unsaid(target, docker) == IF target # NoTarget /\ docker = "garbled" THEN <<>> ELSE Tier2(FALSE)

\* What `docker diff` lists of a changed file, or of one changed below /tmp or another of the
\* _NOISE_PREFIXES: there, also the directory the file is in
Listed == [nothing |-> {}, file |-> {"file"}, scratch |-> {"scratch", "scratch directory"}]

\* A prefix ends in "/": "/tmp/x" has it, "/tmp" itself has not
IsNoise(path) == path = "scratch"

\* The exit code of `docker diff` is not looked at: when it fails there are no changes.
\* paths: what is listed, which is what has changed since the container was created
DiffEvidence(target, docker, paths) ==
  IF Unseen(target, docker) THEN Unsaid(target, docker)
  ELSE Tier2(docker = "ok" /\ \E path \in paths : ~IsNoise(path))

\* standard output, then standard error, and the last lines of that
LastLines(out, err) ==
  LET all == out \o err IN
  IF Len(all) <= MaxLogLines THEN all
  ELSE SubSeq(all, Len(all) - MaxLogLines + 1, Len(all))

\* for a CWE with patterns of its own the generic words do not count
ErrorWords(cwe) == IF cwe \in SpecificCwe THEN {"specific"} ELSE {"generic"}

\* Nor is the exit code of `docker logs`: its complaint ("Error response from daemon")
\* is read as a line of the log
LogsEvidence(target, docker, cwe, out, err) ==
  LET lines == IF docker = "fails" THEN <<"generic">> ELSE LastLines(out, err) IN
  IF Unseen(target, docker) THEN Unsaid(target, docker)
  ELSE Tier2(\E i \in DOMAIN lines : lines[i] \in {"200"} \union ErrorWords(cwe))

----------------------------------------------------------------------------
(* synthesize *)

\* variant: every observer has to see something
CorroboratedByAll(evidence) ==
  \A i \in DOMAIN evidence : evidence[i].tier = 2 => evidence[i].signal

\* variant: it is enough that an observer reports
CorroboratedByAny(evidence) == \E i \in DOMAIN evidence : evidence[i].tier = 2

Corroborated(evidence) ==
  \E i \in DOMAIN evidence : evidence[i].tier = 2 /\ evidence[i].signal

ExitCodes(evidence) == {evidence[i].code : i \in {j \in DOMAIN evidence : evidence[j].tier = 1}}

\* the first rule that applies; confidence in percent
Synthesize(evidence) ==
  LET codes == ExitCodes(evidence) IN
  IF evidence = <<>> THEN [verdict |-> "INCONCLUSIVE", confidence |-> 10]
  ELSE IF codes = {} THEN
    IF Corroborated(evidence) THEN [verdict |-> "TRUE_POSITIVE", confidence |-> 70]
    ELSE [verdict |-> "INCONCLUSIVE", confidence |-> 20]
  ELSE IF codes = {0} THEN
    IF Corroborated(evidence) THEN [verdict |-> "TRUE_POSITIVE", confidence |-> 95]
    ELSE [verdict |-> "INCONCLUSIVE", confidence |-> 50]
  ELSE [verdict |-> "FALSE_POSITIVE", confidence |-> IF codes = {124} THEN 85 ELSE 80]

=============================================================================
