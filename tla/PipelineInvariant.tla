------------------------- MODULE PipelineInvariant -------------------------
(***************************************************************************)
(* The inductive invariant behind the properties of SastPipeline that hold *)
(* for any number of terminals and scans.  What a process relies on while  *)
(* it holds a finding in its local variables is a fact about the store     *)
(* that no other process can take back: rows are added and replaced, never *)
(* deleted.  So it is enough to say what is known at each label.           *)
(***************************************************************************)
EXTENDS SastPipeline

\* f has been triaged, and scored if that is to be done
Ready(f) == triage[f] = Triage[f] /\ (Verifiable(f) => f \in scores)

Decided(f) == approvals[f] # "NONE"

\* where the row in hand is in use
InHand == {"triage_mark", "score_mark", "sweep_mark", "decide_mark", "poc_mark",
           "fire", "observe", "verdict_mark", "skip_mark", "review_mark"}

\* loops over scored rows, and what is done to the row in hand after scoring
Scored     == {"sweep", "sweep_mark", "decide", "decide_mark", "detonating", "sandbox",
               "detonate", "poc_mark", "fire", "observe", "verdict_mark", "skip",
               "skip_mark", "review", "review_mark"}
Detonating == {"detonating", "sandbox", "detonate", "poc_mark", "fire", "observe",
               "verdict_mark"}

\* The shape of the local variables at each label
LocalsOK(p) ==
  /\ pc[p] # "idle" => mem[p].scan \in Scan /\ ScanExists(mem[p].scan)
  /\ pc[p] \in {"decide_mark", "review_mark"} => mem[p].write \in Decision
  /\ pc[p] = "observe" => mem[p].write \in Verdict
  /\ pc[p] \in {"review", "review_mark"} => mem[p].mode \in Decision

\* What is known, at label l, about the rows of a loop that are still to do
RowsKnown(l, rows) ==
  \A f \in rows :
    /\ l \notin {"created", "ingesting"} => f \in Stored
    /\ l \in {"score", "score_mark"} => triage[f] = Triage[f]
    /\ l \in Scored => Ready(f)
    /\ l \in Detonating => Decided(f)

\* What is known, at label l, about the row in hand
HandKnown(l, f) ==
  l \in InHand =>
    /\ f \in Stored
    /\ triage[f] = Triage[f]
    /\ l = "score_mark" => f \in scores
    /\ l \in Scored => Ready(f)
    /\ l \in {"decide_mark", "review_mark"} => Decided(f)
    /\ l \in {"poc_mark", "fire", "observe"} => Decided(f) /\ f \in pocs
    /\ l \in {"sweep_mark", "skip_mark", "verdict_mark"} => verdicts[f] # "NONE"

\* An outcome whose evidence is being stored comes from an exploit that ran, and what
\* would corroborate a TRUE_POSITIVE is stored or still to be
OutcomeKnown(p) ==
  pc[p] = "observe" =>
    /\ fired[mem[p].cur] > 0
    /\ mem[p].write = "TRUE_POSITIVE" =>
         "effect" \in mem[p].seen \union evidence[mem[p].cur]

ProcessOK(p) ==
  /\ LocalsOK(p)
  /\ RowsKnown(pc[p], mem[p].todo)
  /\ HandKnown(pc[p], mem[p].cur)
  /\ OutcomeKnown(p)

\* What a row's state says about triage and scoring
StatesOK ==
  \A f \in Finding :
    /\ findingState[f] \notin {"NONE", "INGESTED"} => triage[f] = Triage[f]
    /\ findingState[f] \notin {"NONE", "INGESTED", "TRIAGED"} => Ready(f)

\* What holds of the store, whatever the processes are doing
StoreOK ==
  /\ ForeignKeys
  /\ RowsBehindStates
  /\ StatesOK
  /\ LaunchedWasDecided
  /\ TruePositiveHasEvidence

\* The rows that each process relies on between two store calls are in the store,
\* and so are those that the states stand for.
RowsInvariant == TypeOK /\ StoreOK /\ \A p \in Proc : ProcessOK(p)

=============================================================================
