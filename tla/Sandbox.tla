------------------------------ MODULE Sandbox ------------------------------
(***************************************************************************)
(* DockerOrchestrator (sandbox/docker_orchestrator.py) and its two         *)
(* clients, the SAST pipeline and the legacy diff pipeline of              *)
(* orchestrator.py, as several commands use one Docker host.               *)
(*                                                                         *)
(* Each command draws a fresh token (uuid4), which is its result_id, its   *)
(* compose project, its network and its label: a run IS its token here.    *)
(* A step is one Docker call with the code around it.  Every call may      *)
(* fail or time out; services become healthy, and die, as they like; a     *)
(* command may be interrupted (an exception, Ctrl-C) or killed.            *)
(***************************************************************************)
EXTENDS Naturals, Sequences, FiniteSets

CONSTANTS
  Run,            \* commands, and their tokens
  Legacy,         \* the commands without --semgrep-output
  Service,        \* compose services
  Services,       \* what `docker compose config --services` lists, per command
  StartWait,      \* _start_wait, _poll_interval and _DOCKER_INFO_TIMEOUT,
  PollInterval,   \*   in units of time
  ProbeTimeout,
  MaxShots        \* approved findings of one command, at most

ASSUME SandboxAssumption ==
  /\ Legacy \subseteq Run
  /\ Services \in [Run -> Seq(Service) \ {<<>>}]
  /\ StartWait \in Nat /\ PollInterval \in Nat \ {0} /\ ProbeTimeout \in Nat
  /\ MaxShots \in Nat \ {0}

VARIABLES
  pc,             \* where each command is
  probed,         \* services found healthy in this pass of the readiness loop
  waited,         \* time since the deadline of the readiness loop was set
  shot,           \* number of the detonation in hand
  outcome,        \* exit_code of a legacy run is set
  error,          \* what left the try block: a ShieldClawError, or anything else
  failed,         \* observer: the Docker calls that did not do their job
  container,      \* Docker: the compose containers, by run and service
  health,         \* Docker: their health, followed while a command asks for it
  network,        \* Docker: the runs whose network exists
  attackers,      \* Docker: the exploit containers, by run and detonation
  override        \* disk: the runs whose label override file exists

client == <<pc, probed, waited, shot, outcome, error, failed>>
docker == <<container, network, attackers, override>>
host   == <<health, docker>>
vars   == <<client, host>>

Label == {"idle", "prepare", "check", "stale", "override", "up", "wait", "probe",
          "ready", "shot", "launch", "exploit", "remove", "down", "unlink", "rm",
          "done", "dead"}

\* inside the try block; in teardown; using the stack
Trying      == {"prepare", "check", "stale", "override", "up", "wait", "probe",
                "ready", "shot", "launch", "exploit", "remove"}
TearingDown == {"down", "unlink", "rm"}
Using       == {"wait", "probe", "ready", "shot", "launch", "exploit", "remove"}

Health == {"starting", "healthy", "exited"}

ServicesOf(r) == {Services[r][i] : i \in 1..Len(Services[r])}

\* the longest a readiness loop can take: a pass that starts just before the
\* deadline, probes every service under both names, and sleeps
WaitBound(r) == StartWait + Len(Services[r]) * 2 * ProbeTimeout + PollInterval

TypeOK ==
  /\ pc        \in [Run -> Label]
  /\ probed    \in [Run -> Nat]
  /\ waited    \in [Run -> Nat]
  /\ shot      \in [Run -> 0..MaxShots]
  /\ outcome   \in [Run -> BOOLEAN]
  /\ error     \in [Run -> {"none", "shieldclaw", "other"}]
  /\ failed    \in [Run -> SUBSET {"remove", "down", "unlink", "rm"}]
  /\ container \subseteq Run \X Service
  /\ health    \in [Run \X Service -> Health]
  /\ network   \subseteq Run
  /\ attackers \subseteq Run \X (1..MaxShots)
  /\ override  \subseteq Run

Init ==
  /\ pc        = [r \in Run |-> "idle"]
  /\ probed    = [r \in Run |-> 0]
  /\ waited    = [r \in Run |-> 0]
  /\ shot      = [r \in Run |-> 0]
  /\ outcome   = [r \in Run |-> FALSE]
  /\ error     = [r \in Run |-> "none"]
  /\ failed    = [r \in Run |-> {}]
  /\ container = {}
  /\ health    = [c \in Run \X Service |-> "starting"]
  /\ network   = {}
  /\ attackers = {}
  /\ override  = {}

----------------------------------------------------------------------------
(* Helpers *)

Goto(r, from, to) == pc[r] = from /\ pc' = [pc EXCEPT ![r] = to]

\* a step that asks Docker something, learns nothing it keeps, and goes on
Pass(r, from, to) ==
  /\ Goto(r, from, to)
  /\ UNCHANGED <<probed, waited, shot, outcome, error, failed, host>>

\* nobody asks for the health of r's containers any more
Unfollowed(r) == [c \in Run \X Service |-> IF c[1] = r THEN "starting" ELSE health[c]]

\* variant with a plausible bug, as those below: an exception goes past the finally block
RaisePastTeardown(r, from, e) ==
  /\ Goto(r, from, "done")
  /\ error'  = [error EXCEPT ![r] = e]
  /\ waited' = [waited EXCEPT ![r] = 0]
  /\ probed' = [probed EXCEPT ![r] = 0]
  /\ health' = Unfollowed(r)
  /\ UNCHANGED <<shot, outcome, failed, docker>>

\* an exception leaves the try block: the finally block tears down
Raise(r, from, e) ==
  /\ Goto(r, from, "down")
  /\ error'  = [error EXCEPT ![r] = e]
  /\ waited' = [waited EXCEPT ![r] = 0]
  /\ probed' = [probed EXCEPT ![r] = 0]
  /\ health' = Unfollowed(r)
  /\ UNCHANGED <<shot, outcome, failed, docker>>

Project(r) == {c \in container : c[1] = r}

\* variant: any run's label will do
LabelledByAnyone(r) == container

\* docker ps -qa --filter label=shieldclaw.run=<token>: every service has the label
\* by the override, an attacker by its --label
Labelled(r)          == Project(r)
LabelledAttackers(r) == {a \in attackers : a[1] = r}

\* the code after a detonation: the next finding, or (legacy) the end of the loop
AfterShot(r) == IF r \in Legacy THEN "down" ELSE "shot"

\* a Docker call of r did its job, or it did not
Note(r, call, ok) ==
  failed' = [failed EXCEPT ![r] = IF ok THEN @ ELSE @ \union {call}]

----------------------------------------------------------------------------
(* Variants with a plausible bug, used by no action *)

\* the deadline is computed anew in every pass
WaitAgain(r) ==
  /\ Goto(r, "wait", "probe")
  /\ probed' = [probed EXCEPT ![r] = 0]
  /\ waited' = [waited EXCEPT ![r] = 0]
  /\ UNCHANGED <<shot, outcome, error, failed, host>>

\* one healthy service is taken for all
ProbeAny(r) ==
  \E d \in 0 .. 2 * ProbeTimeout :
    /\ health[<<r, Services[r][probed[r] + 1]>>] = "healthy"
    /\ Goto(r, "probe", "ready")
    /\ probed' = [probed EXCEPT ![r] = 0]
    /\ waited' = [waited EXCEPT ![r] = 0]
    /\ UNCHANGED <<shot, outcome, error, failed, host>>

\* an unhealthy service does not end the pass
ProbeOn(r) ==
  \E d \in 0 .. 2 * ProbeTimeout :
    /\ Goto(r, "probe", "probe")
    /\ waited' = [waited EXCEPT ![r] = @ + d + PollInterval]
    /\ waited'[r] <= 2 * WaitBound(r)      \* a bound for the checker
    /\ UNCHANGED <<probed, shot, outcome, error, failed, host>>

\* the exploit is taken for dead when its docker client is
TimesOutOnly(r) == Pass(r, "exploit", AfterShot(r))

\* what Docker said when the exploit did not start is forgotten
LaunchFailsQuietly(r) == Pass(r, "launch", AfterShot(r))

\* the exploit gets the number of the next finding
LaunchMisnumbered(r) ==
  /\ Goto(r, "launch", "exploit")
  /\ attackers' = attackers \union {<<r, shot[r] + 1>>}
  /\ UNCHANGED <<probed, waited, shot, outcome, error, failed,
                 health, container, network, override>>

----------------------------------------------------------------------------
(* start_sandbox *)

Start(r) == Pass(r, "idle", IF r \in Legacy THEN "prepare" ELSE "check")

\* legacy only: aggregate() and generate_exploit() before there is a sandbox
Prepare(r) == Pass(r, "prepare", "check")

\* _ensure_docker and _probe_attacker_image
Check(r) == Pass(r, "check", "stale")

\* _cleanup_stale: what carries this run's own token
CleanupStale(r) ==
  /\ Goto(r, "stale", "override")
  /\ container' = container \ Labelled(r)
  /\ attackers' = attackers \ LabelledAttackers(r)
  /\ UNCHANGED <<probed, waited, shot, outcome, error, failed, health, network, override>>

\* the services are listed, and each gets the label
WriteOverride(r) ==
  /\ Goto(r, "override", "up")
  /\ override' = override \union {r}
  /\ UNCHANGED <<probed, waited, shot, outcome, error, failed,
                 health, container, network, attackers>>

\* compose up is at work: the network first, then the services one by one
Create(r) ==
  /\ pc[r] = "up"
  /\ \/ /\ r \notin network
        /\ network' = network \union {r}
        /\ UNCHANGED container
     \/ \E s \in ServicesOf(r) :
          /\ r \in network
          /\ <<r, s>> \notin container
          /\ container' = container \union {<<r, s>>}
          /\ UNCHANGED network
  /\ UNCHANGED <<client, health, attackers, override>>

\* compose up returns, and the deadline is set
Up(r) ==
  /\ \A s \in ServicesOf(r) : <<r, s>> \in container
  /\ Pass(r, "up", "wait")

\* a call of start_sandbox fails or times out, compose up wherever it is
StartFails(r) ==
  \E from \in {"check", "stale", "override", "up"} : Raise(r, from, "shieldclaw")

\* the head of the readiness loop: one more pass, or the deadline has passed
Wait(r) ==
  /\ waited[r] < StartWait
  /\ Goto(r, "wait", "probe")
  /\ probed' = [probed EXCEPT ![r] = 0]
  /\ UNCHANGED <<waited, shot, outcome, error, failed, host>>

Deadline(r) ==
  /\ waited[r] >= StartWait
  /\ Raise(r, "wait", "shieldclaw")

\* _is_service_healthy for the next service, under one name or the other
ProbeHealthy(r) ==
  \E d \in 0 .. 2 * ProbeTimeout :
    LET more == probed[r] + 1 < Len(Services[r]) IN
    /\ health[<<r, Services[r][probed[r] + 1]>>] = "healthy"
    /\ Goto(r, "probe", IF more THEN "probe" ELSE "ready")
    /\ probed' = [probed EXCEPT ![r] = IF more THEN @ + 1 ELSE 0]
    /\ waited' = [waited EXCEPT ![r] = IF more THEN @ + d ELSE 0]
    /\ UNCHANGED <<shot, outcome, error, failed, host>>

\* it is not healthy, or Docker does not tell: the pass ends, sleep
ProbeUnhealthy(r) ==
  \E d \in 0 .. 2 * ProbeTimeout :
    /\ Goto(r, "probe", "wait")
    /\ waited' = [waited EXCEPT ![r] = @ + d + PollInterval]
    /\ UNCHANGED <<probed, shot, outcome, error, failed, host>>

\* the grace sleep and get_target_container_id, which changes nothing and never raises
Ready(r) == Pass(r, "ready", "shot")

----------------------------------------------------------------------------
(* detonate, once per approved finding; once in all for a legacy run *)

\* there is a payload for it, and target_dns is a compose service
NextShot(r) ==
  /\ shot[r] < MaxShots
  /\ Goto(r, "shot", "launch")
  /\ shot' = [shot EXCEPT ![r] = @ + 1]
  /\ UNCHANGED <<probed, waited, outcome, error, failed, host>>

\* no finding is left (a legacy run has always one)
EndShots(r) == r \notin Legacy /\ Pass(r, "shot", "down")

\* _ensure_docker, the before hooks, docker run
Launch(r) ==
  /\ Goto(r, "launch", "exploit")
  /\ attackers' = attackers \union {<<r, shot[r]>>}
  /\ UNCHANGED <<probed, waited, shot, outcome, error, failed,
                 health, container, network, override>>

\* DockerNotAvailableError or DetonationError: an INCONCLUSIVE finding, a failed
\* legacy run.  Also when the exploit has run and its output reads like Docker's
NoExitCode(r) ==
  \/ r \notin Legacy /\ Pass(r, "launch", "shot")
  \/ r \in Legacy /\ Raise(r, "launch", "shieldclaw")
  \/ r \notin Legacy /\ <<r, shot[r]>> \notin attackers /\ Pass(r, "exploit", "shot")
  \/ /\ r \in Legacy /\ <<r, shot[r]>> \notin attackers
     /\ Raise(r, "exploit", "shieldclaw")

\* docker run returns the exit code of the exploit; --rm has removed it
Exits(r) ==
  /\ <<r, shot[r]>> \notin attackers
  /\ Goto(r, "exploit", AfterShot(r))
  /\ outcome' = [outcome EXCEPT ![r] = r \in Legacy]
  /\ UNCHANGED <<probed, waited, shot, error, failed, host>>

\* the timeout kills the docker client, not the container
TimesOut(r) == Pass(r, "exploit", "remove")

\* docker kill and docker rm -f, best effort; exit code 124, and the after hooks
Remove(r) ==
  /\ Goto(r, "remove", AfterShot(r))
  /\ attackers' \in {attackers, attackers \ {<<r, shot[r]>>}}
  /\ Note(r, "remove", <<r, shot[r]>> \notin attackers')
  /\ outcome' = [outcome EXCEPT ![r] = r \in Legacy]
  /\ UNCHANGED <<probed, waited, shot, error, health, container, network,
                 override>>

----------------------------------------------------------------------------
(* teardown; the report, and an exception that is no ShieldClawError, follow *)

\* docker compose down -v.  Docker does not remove a network that a container still
\* uses, and an attacker is no container of the project
Down(r) ==
  \/ /\ Goto(r, "down", "unlink")
     /\ container' = container \ Project(r)
     /\ network' = IF LabelledAttackers(r) = {} THEN network \ {r} ELSE network
     /\ Note(r, "down", LabelledAttackers(r) = {})
     /\ health' = Unfollowed(r)
     /\ UNCHANGED <<probed, waited, shot, outcome, error, attackers, override>>
  \/ \E C \in SUBSET Project(r) :
     /\ Goto(r, "down", "unlink")
     /\ container' = container \ C
     /\ Note(r, "down", FALSE)
     /\ health' = Unfollowed(r)
     /\ UNCHANGED <<probed, waited, shot, outcome, error, network, attackers, override>>

Unlink(r) ==
  /\ Goto(r, "unlink", "rm")
  /\ override' \in {override, override \ {r}}
  /\ Note(r, "unlink", r \notin override')
  /\ UNCHANGED <<probed, waited, shot, outcome, error, health, container, network,
                 attackers>>

\* docker ps by label and docker rm -f for each, best effort; docker ps may fail, and
\* when it only exits non-zero its output reads like "none"
Rm(r) ==
  \E C \in SUBSET Labelled(r), A \in SUBSET LabelledAttackers(r) :
    /\ Goto(r, "rm", "done")
    /\ container' = container \ C
    /\ attackers' = attackers \ A
    /\ Note(r, "rm", C = Labelled(r) /\ A = LabelledAttackers(r))
    /\ UNCHANGED <<probed, waited, shot, outcome, error, health, network, override>>

----------------------------------------------------------------------------
(* What happens around it *)

\* aggregate() or generate_exploit() raises
PrepareFails(r) == Raise(r, "prepare", "shieldclaw")

\* Ctrl-C, or an exception that is no ShieldClawError
Interrupt(r) == \E from \in Trying : Raise(r, from, "other")

\* SIGKILL, SIGTERM, a second Ctrl-C: nothing more is done
Die(r) ==
  /\ \E from \in Trying \union TearingDown : Goto(r, from, "dead")
  /\ waited'  = [waited EXCEPT ![r] = 0]
  /\ probed'  = [probed EXCEPT ![r] = 0]
  /\ outcome' = [outcome EXCEPT ![r] = FALSE]
  /\ error'   = [error EXCEPT ![r] = "none"]
  /\ failed'  = [failed EXCEPT ![r] = {}]
  /\ health'  = Unfollowed(r)
  /\ UNCHANGED <<shot, docker>>

\* a service gets ready, or dies; followed for as long as a command looks at it
ServiceChanges ==
  \E c \in container :
    /\ pc[c[1]] \in {"up", "wait", "probe"}
    /\ \/ health[c] = "starting" /\ health' = [health EXCEPT ![c] = "healthy"]
       \/ health[c] # "exited" /\ health' = [health EXCEPT ![c] = "exited"]
    /\ UNCHANGED <<client, docker>>

\* an exploit ends by itself, and --rm removes it
ExploitEnds ==
  \E a \in attackers :
    /\ attackers' = attackers \ {a}
    /\ UNCHANGED <<client, health, container, network, override>>

----------------------------------------------------------------------------

StartStep(r) ==
  \/ Start(r) \/ Prepare(r) \/ Check(r) \/ CleanupStale(r)
  \/ WriteOverride(r) \/ Create(r) \/ Up(r) \/ Wait(r) \/ Deadline(r)
  \/ ProbeHealthy(r) \/ ProbeUnhealthy(r) \/ Ready(r)

DetonateStep(r) ==
  \/ NextShot(r) \/ EndShots(r) \/ Launch(r) \/ NoExitCode(r) \/ Exits(r)
  \/ TimesOut(r) \/ Remove(r)

TeardownStep(r) ==
  Down(r) \/ Unlink(r) \/ Rm(r)

Fault(r) == PrepareFails(r) \/ StartFails(r) \/ Interrupt(r) \/ Die(r)

Step(r) == StartStep(r) \/ DetonateStep(r) \/ TeardownStep(r)

Next == (\E r \in Run : Step(r) \/ Fault(r)) \/ ServiceChanges \/ ExploitEnds

Spec == Init /\ [][Next]_vars

\* every Docker call has a timeout, so a command that was started goes on
FairSpec == Spec /\ \A r \in Run : WF_vars(Step(r))

----------------------------------------------------------------------------
(* Properties *)

\* A stack in use stays: from the return of compose up to teardown all of its
\* containers and its network are there, whatever other commands clean up and tear
\* down on the host (_cleanup_stale and teardown are scoped to the token).
StackStays ==
  \A r \in Run :
    pc[r] \in Using => r \in network /\ \A s \in ServicesOf(r) : <<r, s>> \in container

\* No exploit is launched while a service of its stack still starts
\* (_wait_for_compose_ready asks for all of them, in one pass).
NoShotWhileStarting ==
  \A r \in Run :
    pc[r] \in {"shot", "launch", "exploit", "remove"}
      => \A s \in ServicesOf(r) : health[<<r, s>>] # "starting"

\* The readiness loop overruns its deadline by one pass and one sleep at most.
WaitIsBounded == \A r \in Run : waited[r] < WaitBound(r)

\* Exploits run one at a time: one that is still there when the next is launched,
\* or when the run tears down without an interruption, is one that Docker did not
\* remove when asked (the timeout ends the docker client only).
OneExploitAtATime ==
  \A a \in attackers :
    LET r == a[1] IN
    \/ a[2] = shot[r] /\ pc[r] \in {"exploit", "remove"}
    \/ "remove" \in failed[r]
    \/ error[r] = "other" \/ pc[r] = "dead"

\* What a command leaves behind on the host when it returns is what Docker refused to
\* remove: a container only if compose down and the removal by label both failed, an
\* exploit if the removal by label failed, a network if compose down failed, the
\* override file if it could not be unlinked.  Holds however the command ended, also
\* when start_sandbox failed half way or an exception went through.
LeftoversWereRefused ==
  \A r \in Run : pc[r] = "done" =>
    /\ Project(r) # {} => "down" \in failed[r] /\ "rm" \in failed[r]
    /\ LabelledAttackers(r) # {} => "rm" \in failed[r]
    /\ r \in network => "down" \in failed[r]
    /\ r \in override => "unlink" \in failed[r]

\* A legacy report without an error has an exit code, unless main() reports the
\* exception that went through.
LegacyReportTells ==
  \A r \in Legacy : pc[r] = "done" => outcome[r] \/ error[r] # "none"

\* Every command returns, unless it is killed: whatever Docker answers, and however
\* long services and exploits take.
EveryRunReturns == \A r \in Run : pc[r] # "idle" ~> pc[r] \in {"done", "dead"}

=============================================================================
