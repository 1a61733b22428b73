-------------------------- MODULE PipelineSequence --------------------------
(***************************************************************************)
(* What holds when one terminal works on the store, one command after the  *)
(* other, each possibly cut short.  Rows are then found in the state in    *)
(* which they were read: GateInvariant says so label by label, for any     *)
(* number of scans.  With a single scan no report brings a known finding   *)
(* back, so findings never move backward: SequentialInvariant.  Both are   *)
(* inductive together with RowsInvariant.                                  *)
(***************************************************************************)
EXTENDS PipelineInvariant

OneTerminal == \A p, q \in Proc : p = q
OneScan     == \A s, t \in Scan : s = t

----------------------------------------------------------------------------
(* One terminal *)

\* The rows of a loop at label l are in the state that the loop selected
RowAsRead(l, f) ==
  /\ l \in {"score", "score_mark"} => findingState[f] = "TRIAGED"
  /\ l \in {"sweep", "sweep_mark"} => findingState[f] = "POC_GENERATED"
  /\ l \in {"decide", "decide_mark", "review", "review_mark"} => findingState[f] = "SCORED"
  /\ l \in {"detonating", "sandbox", "detonate", "poc_mark", "fire", "observe",
            "verdict_mark", "skip", "skip_mark"} => findingState[f] = "APPROVED"

\* and so is the row in hand, until the command itself has marked it
HandAsRead(l, f) ==
  /\ l = "score_mark" => findingState[f] = "TRIAGED"
  /\ l \in {"sweep_mark", "fire", "observe"} => findingState[f] = "POC_GENERATED"
  /\ l \in {"decide_mark", "review_mark"} => findingState[f] = "SCORED"
  /\ l \in {"poc_mark", "skip_mark"} => findingState[f] = "APPROVED"
  /\ l = "verdict_mark" => findingState[f] \in {"APPROVED", "POC_GENERATED"}

InOrder(p) ==
  /\ \A f \in mem[p].todo : RowAsRead(pc[p], f)
  /\ pc[p] \in InHand => mem[p].cur \notin mem[p].todo /\ HandAsRead(pc[p], mem[p].cur)
  /\ pc[p] \in {"decide_mark", "review_mark"} => approvals[mem[p].cur] = mem[p].write

\* What is on its way to the sandbox has APPROVED on record
ApprovedOnRecord ==
  \A f \in Finding :
    findingState[f] \in {"APPROVED", "POC_GENERATED"} => approvals[f] = "APPROVED"

\* The decision on record is the one that took effect: a command that is cut short between
\* record_approval and update_finding_state leaves a row that the next one decides anew.
GateInvariant == ApprovedOnRecord /\ \A p \in Proc : InOrder(p)

----------------------------------------------------------------------------
(* One terminal and one scan *)

Concluded == {"TRUE_POSITIVE", "FALSE_POSITIVE"}

\* How far a finding has come says what was done for it
ProgressOK ==
  \A f \in Finding :
    /\ fired[f] <= 1
    /\ fired[f] > 0 => findingState[f] \in {"POC_GENERATED", "VERDICTED"}
    /\ verdicts[f] \in Concluded => findingState[f] \in {"POC_GENERATED", "VERDICTED"}
    /\ findingState[f] = "REFUSED" => verdicts[f] = "REFUSED"
    /\ findingState[f] = "VERDICTED" => verdicts[f] # "REFUSED"

\* a report is ingested into an empty store, and its findings are triaged once
FreshRows(p) ==
  /\ pc[p] \in {"created", "ingesting"} => Stored = {}
  /\ pc[p] \in {"ingested", "triaging", "triage", "triage_mark"} =>
       \A f \in mem[p].todo : findingState[f] = "INGESTED"
  /\ pc[p] = "triage_mark" => findingState[mem[p].cur] = "INGESTED"

\* an exploit that is about to run has not run before, and its outcome is news
FirstRun(p) ==
  /\ pc[p] = "fire" => fired[mem[p].cur] = 0
  /\ pc[p] \in {"fire", "observe"} => verdicts[mem[p].cur] \notin Concluded
  /\ pc[p] = "observe" => mem[p].write # "REFUSED"
  /\ pc[p] = "verdict_mark" /\ mem[p].write = "REFUSED" =>
       findingState[mem[p].cur] = "APPROVED" /\ verdicts[mem[p].cur] = "REFUSED"
  /\ pc[p] = "verdict_mark" /\ mem[p].write # "REFUSED" => verdicts[mem[p].cur] # "REFUSED"
  /\ pc[p] \in {"sweep_mark", "skip_mark"} => verdicts[mem[p].cur] # "REFUSED"

\* Findings only move forward, and nothing is done for one of them twice.
ForwardInvariant == ProgressOK /\ \A p \in Proc : FreshRows(p) /\ FirstRun(p)

Swept == {"decide", "decide_mark", "approved", "detonating", "sandbox", "detonate",
          "poc_mark", "fire", "observe", "verdict_mark", "skip", "skip_mark", "complete"}

InLoop(p) == mem[p].todo \union (IF pc[p] \in InHand THEN {mem[p].cur} ELSE {})

\* what a run has left behind by the time it reaches a label
Drained(p) ==
  /\ pc[p] \notin {"idle", "scoring", "review", "review_mark"} =>
       \A s \in Scan : scanState[s] # "COMPLETE"
  /\ \A f \in Finding :
       /\ findingState[f] = "TRIAGED" =>
            /\ pc[p] \in {"score", "score_mark"} => f \in InLoop(p)
            /\ pc[p] \notin {"sweep", "sweep_mark"} \union Swept
       /\ findingState[f] = "POC_GENERATED" =>
            /\ pc[p] \in {"sweep", "sweep_mark"} => f \in InLoop(p)
            /\ pc[p] \in Swept =>
                 pc[p] \in {"fire", "observe", "verdict_mark"} /\ f = mem[p].cur

\* A scan that is complete owes nothing, and a run that is on its way there has in its
\* loop what it still owes.
DrainInvariant ==
  /\ (\E s \in Scan : scanState[s] = "COMPLETE") =>
       \A f \in Finding : findingState[f] \notin {"TRIAGED", "POC_GENERATED"}
  /\ \A p \in Proc : Drained(p)

\* Every finding is where the one command left it: no state is lost, repeated or reversed
\* by any sequence of runs, resumes, reviews and crashes.
SequentialInvariant == GateInvariant /\ ForwardInvariant /\ DrainInvariant

=============================================================================
