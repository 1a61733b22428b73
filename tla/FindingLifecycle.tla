-------------------------- MODULE FindingLifecycle --------------------------
(***************************************************************************)
(* What the pipeline promises about one finding, whatever process works on *)
(* it and however often that process dies: it only ever moves forward, it  *)
(* is detonated only after an approval, at most once, and never again once *)
(* it has been concluded.                                                  *)
(***************************************************************************)

CONSTANT Finding

VARIABLES
  state,          \* where each finding stands
  decision,       \* the last decision on record for it
  launched        \* the findings whose exploit was launched

lifecycleVars == <<state, decision, launched>>

Init ==
  /\ state    = [f \in Finding |-> "NONE"]
  /\ decision = [f \in Finding |-> "NONE"]
  /\ launched = {}

Advance(f, from, to) ==
  /\ state[f] = from
  /\ state' = [state EXCEPT ![f] = to]
  /\ UNCHANGED <<decision, launched>>

\* the findings of one report arrive together
Arrive(F) ==
  /\ \A f \in F : state[f] = "NONE"
  /\ state' = [f \in Finding |-> IF f \in F THEN "INGESTED" ELSE state[f]]
  /\ UNCHANGED <<decision, launched>>

\* a decision is put on record, and may be replaced until it takes effect
Decide(f, d) ==
  /\ state[f] = "SCORED"
  /\ decision' = [decision EXCEPT ![f] = d]
  /\ UNCHANGED <<state, launched>>

TakeEffect(f) ==
  /\ decision[f] \in {"APPROVED", "REJECTED"}
  /\ Advance(f, "SCORED", decision[f])

Launch(f) ==
  /\ state[f] = "POC_GENERATED"
  /\ decision[f] = "APPROVED"
  /\ f \notin launched
  /\ launched' = launched \union {f}
  /\ UNCHANGED <<state, decision>>

Next ==
  \/ \E F \in SUBSET Finding : Arrive(F)
  \/ \E f \in Finding :
       \/ Advance(f, "INGESTED", "TRIAGED")
       \/ Advance(f, "TRIAGED", "SCORED")
       \/ \E d \in {"APPROVED", "REJECTED"} : Decide(f, d)
       \/ TakeEffect(f)
       \/ Advance(f, "APPROVED", "POC_GENERATED")
       \/ Launch(f)
       \/ Advance(f, "POC_GENERATED", "VERDICTED")
       \/ Advance(f, "APPROVED", "VERDICTED")
       \/ Advance(f, "APPROVED", "REFUSED")

Spec == Init /\ [][Next]_lifecycleVars

=============================================================================
