-------------------------- MODULE PipelineLiveness --------------------------
(***************************************************************************)
(* What the pipeline eventually does, when at most MaxFaults things go     *)
(* wrong around it (a killed process, an LLM or Docker failure, a report   *)
(* that does not parse) and the operator keeps coming back to the scan.    *)
(***************************************************************************)
EXTENDS SastPipeline

CONSTANT MaxFaults

ASSUME MaxFaultsAssumption == MaxFaults \in Nat

VARIABLE faults

liveVars == <<vars, faults>>

LiveInit == Init /\ faults = 0

LiveNext ==
  \E p \in Proc :
    \/ (Launch(p) \/ Advance(p)) /\ UNCHANGED faults
    \/ Fault(p) /\ faults < MaxFaults /\ faults' = faults + 1

(* A started command runs on: the LLM and Docker calls have timeouts and    *)
(* the reviewer answers.  The operator resumes: an open terminal is not     *)
(* spent on other commands for ever.  Nothing is assumed of StartFresh and  *)
(* StartReview: no scan has to be started, no finding to be reviewed.       *)
Fairness ==
  \A p \in Proc : WF_liveVars(Advance(p) /\ UNCHANGED faults)
                    /\ SF_liveVars(Resume(p) /\ UNCHANGED faults)

LiveSpec == LiveInit /\ [][LiveNext]_liveVars /\ Fairness

\* Resuming finishes what a crash interrupted: a finding that waits to be scored,
\* was approved, or was in detonation when the process died does not stay so.
InFlightSettles ==
  \A f \in Finding :
    findingState[f] \in {"TRIAGED", "APPROVED", "POC_GENERATED"}
      ~> findingState[f] \in {"SCORED", "REJECTED", "VERDICTED", "REFUSED"}

\* A scan that was created is complete one day, whatever state it was left in.
ScanCompletes == \A s \in Scan : ScanExists(s) ~> scanState[s] = "COMPLETE"

=============================================================================
