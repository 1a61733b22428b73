-------------------------- MODULE SandboxInvariant --------------------------
(***************************************************************************)
(* The inductive invariant behind the safety properties of Sandbox: what   *)
(* is known of one command, and of its part of the Docker host, at each of *)
(* its labels.  It says nothing that relates two commands.                 *)
(***************************************************************************)
EXTENDS Sandbox

\* no container before compose up, no network either if there is none; all of the stack
\* once compose up has returned
StackKnown(r) ==
  /\ pc[r] \in {"idle", "prepare", "check", "stale", "override"}
       => \A s \in Service : <<r, s>> \notin container
  /\ pc[r] = "up" /\ (\E s \in Service : <<r, s>> \in container) => r \in network
  /\ pc[r] \in Using => r \in network /\ \A s \in ServicesOf(r) : <<r, s>> \in container

\* the services that this pass of the readiness loop has probed do not start any more,
\* nor does any service once the loop is left
HealthKnown(r) ==
  /\ pc[r] = "probe" =>
       /\ probed[r] < Len(Services[r])
       /\ \A i \in 1..probed[r] : health[<<r, Services[r][i]>>] # "starting"
  /\ pc[r] \in {"ready", "shot", "launch", "exploit", "remove"} =>
       \A s \in ServicesOf(r) : health[<<r, s>>] # "starting"

\* what n probes of a pass that began before the deadline can have taken it to
ProbedBound(n) == StartWait + n * 2 * ProbeTimeout

\* time is counted in the readiness loop only
WaitKnown(r) ==
  /\ pc[r] = "wait"  => waited[r] < WaitBound(r)
  /\ pc[r] = "probe" => waited[r] < ProbedBound(probed[r])
  /\ pc[r] \notin {"wait", "probe"} => waited[r] = 0

\* an exploit that is there is the one in hand, or could not be removed, or the command
\* was cut off
ShotKnown(r) ==
  /\ pc[r] \in {"launch", "exploit", "remove"} => shot[r] > 0
  /\ \A n \in 1..MaxShots : <<r, n>> \in attackers =>
       \/ n = shot[r] /\ pc[r] \in {"exploit", "remove"}
       \/ "remove" \in failed[r]
       \/ error[r] = "other" \/ pc[r] = "dead"

\* nothing has been raised yet in the try block; a legacy command that has left it has an
\* exit code or an error
EndKnown(r) ==
  /\ pc[r] \in {"idle"} \union Trying => error[r] = "none"
  /\ r \in Legacy /\ pc[r] \in TearingDown \union {"done"}
       => outcome[r] \/ error[r] # "none"

\* what is still there after a call of teardown that removes it was noted
TeardownKnown(r) ==
  /\ pc[r] \in {"unlink", "rm", "done"} =>
       /\ (\E s \in Service : <<r, s>> \in container) => "down" \in failed[r]
       /\ r \in network => "down" \in failed[r]
  /\ pc[r] \in {"rm", "done"} /\ r \in override => "unlink" \in failed[r]
  /\ pc[r] = "done" =>
       /\ (\E s \in Service : <<r, s>> \in container) => "rm" \in failed[r]
       /\ (\E n \in 1..MaxShots : <<r, n>> \in attackers) => "rm" \in failed[r]

RunKnown(r) ==
  /\ StackKnown(r)
  /\ HealthKnown(r)
  /\ WaitKnown(r)
  /\ ShotKnown(r)
  /\ EndKnown(r)
  /\ TeardownKnown(r)

\* Every command knows, at each label, what its next steps rely on: what compose up has
\* made of its stack, which services have been probed, which exploit is in hand, which
\* call of teardown has failed (the sequential flow of start_sandbox, detonate, teardown).
StackInvariant == TypeOK /\ \A r \in Run : RunKnown(r)

=============================================================================
