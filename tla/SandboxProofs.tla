--------------------------- MODULE SandboxProofs ---------------------------
(***************************************************************************)
(* StackInvariant is an invariant of the sandbox, for any commands,        *)
(* services, waiting times and numbers of exploits, and so are the safety  *)
(* properties that follow from it.                                         *)
(*                                                                         *)
(* A step of one command leaves alone what belongs to the others           *)
(* (Untouched), so what is known of them survives (Bystander).  It         *)
(* remains, action by action, what is known of the command that took the   *)
(* step (Advances).                                                        *)
(***************************************************************************)
EXTENDS SandboxInvariant, TLAPS

\* what RunKnown says of a command is the same after the step
Untouched(q) ==
  /\ pc'[q] = pc[q] /\ probed'[q] = probed[q] /\ waited'[q] = waited[q]
  /\ shot'[q] = shot[q] /\ outcome'[q] = outcome[q] /\ error'[q] = error[q]
  /\ failed'[q] = failed[q]
  /\ \A s \in Service : /\ <<q, s>> \in container' <=> <<q, s>> \in container
                        /\ health'[<<q, s>>] = health[<<q, s>>]
  /\ q \in network' <=> q \in network
  /\ q \in override' <=> q \in override
  /\ \A n \in 1..MaxShots : <<q, n>> \in attackers' <=> <<q, n>> \in attackers

\* a good step of r
Advances(r) ==
  /\ TypeOK'
  /\ RunKnown(r)'
  /\ \A q \in Run \ {r} : Untouched(q)

----------------------------------------------------------------------------
(* Services and bounds *)

\* A command has at least one service, and each of its services is one.
LEMMA ServicesType ==
  ASSUME NEW r \in Run
  PROVE  /\ Services[r] \in Seq(Service)
         /\ Len(Services[r]) \in Nat \ {0}
         /\ ServicesOf(r) \subseteq Service
         /\ \A i \in 1..Len(Services[r]) : Services[r][i] \in ServicesOf(r)
         /\ \E s \in Service : s \in ServicesOf(r)
<1>1. Services[r] \in Seq(Service) /\ Services[r] # <<>>
  BY SandboxAssumption
<1>2. Len(Services[r]) \in Nat \ {0}
  BY <1>1
<1>3. \A i \in 1..Len(Services[r]) : Services[r][i] \in Service /\ Services[r][i] \in ServicesOf(r)
  BY <1>1 DEF ServicesOf
<1>4. Services[r][1] \in Service /\ Services[r][1] \in ServicesOf(r)
  BY <1>2, <1>3
<1> QED
  BY <1>1, <1>2, <1>3, <1>4 DEF ServicesOf

\* Each probe takes twice ProbeTimeout at most, and a pass ends before WaitBound.
LEMMA Bounds ==
  ASSUME NEW r \in Run
  PROVE  /\ WaitBound(r) \in Nat /\ 0 < WaitBound(r)
         /\ ProbedBound(0) = StartWait
         /\ \A n \in Nat : /\ ProbedBound(n) \in Nat
                           /\ ProbedBound(n + 1) = ProbedBound(n) + 2 * ProbeTimeout
                           /\ n <= Len(Services[r]) => ProbedBound(n) + PollInterval <= WaitBound(r)
<1> DEFINE t == 2 * ProbeTimeout
<1>1. StartWait \in Nat /\ PollInterval \in Nat \ {0} /\ ProbeTimeout \in Nat /\ t \in Nat
  BY SandboxAssumption
<1>2. Len(Services[r]) \in Nat
  BY ServicesType
<1>3. \A n \in Nat : n * 2 * ProbeTimeout = n * t /\ n * t \in Nat
  BY <1>1
<1>4. \A n \in Nat : (n + 1) * t = n * t + t
  BY <1>1
<1>5. \A n, m \in Nat : n <= m => n * t <= m * t
  <2> SUFFICES ASSUME NEW n \in Nat, NEW m \in Nat, n <= m PROVE n * t <= m * t
    OBVIOUS
  <2>1. PICK k \in Nat : m = n + k
    BY m - n \in Nat, m = n + (m - n)
  <2>2. (n + k) * t = n * t + k * t /\ k * t \in Nat
    BY <1>1
  <2> QED
    BY <2>1, <2>2, <1>3
<1>6. 0 * t = 0
  BY <1>1
<1> HIDE DEF t
<1> QED
  BY <1>1, <1>2, <1>3, <1>4, <1>5, <1>6 DEF WaitBound, ProbedBound, t

----------------------------------------------------------------------------
(* The other commands *)

\* What is known of a command survives a step that leaves alone what belongs to it.
LEMMA Bystander ==
  ASSUME TypeOK, NEW q \in Run, RunKnown(q), Untouched(q)
  PROVE  RunKnown(q)'
<1> USE DEF Untouched
<1>1. StackKnown(q)'
  BY ServicesType DEF RunKnown, StackKnown
<1>2. HealthKnown(q)'
  <2>1. \A s \in ServicesOf(q) : health'[<<q, s>>] = health[<<q, s>>]
    BY ServicesType
  <2>2. pc[q] = "probe" => \A i \in 1..probed[q] : i \in 1..Len(Services[q])
    BY ServicesType DEF RunKnown, HealthKnown, TypeOK
  <2>3. pc[q] = "probe" => \A i \in 1..probed[q] : Services[q][i] \in ServicesOf(q)
    BY <2>2, ServicesType
  <2> QED
    BY <2>1, <2>3 DEF RunKnown, HealthKnown
<1>3. WaitKnown(q)'
  BY DEF RunKnown, WaitKnown, WaitBound, ProbedBound
<1>4. ShotKnown(q)'
  BY DEF RunKnown, ShotKnown
<1>5. EndKnown(q)'
  BY DEF RunKnown, EndKnown
<1>6. TeardownKnown(q)'
  BY DEF RunKnown, TeardownKnown
<1> QED
  BY <1>1, <1>2, <1>3, <1>4, <1>5, <1>6 DEF RunKnown

\* A good step of one command keeps the invariant for all.
LEMMA AdvanceKeeps ==
  ASSUME StackInvariant, NEW r \in Run, Advances(r)
  PROVE  StackInvariant'
BY Bystander DEF StackInvariant, Advances

----------------------------------------------------------------------------
(* Steps that only move on, and exceptions *)

\* the moves of the steps that change nothing else
PassMoves ==
  {<<"idle", "prepare">>, <<"idle", "check">>, <<"prepare", "check">>, <<"check", "stale">>,
   <<"up", "wait">>, <<"ready", "shot">>, <<"shot", "down">>, <<"launch", "shot">>,
   <<"exploit", "shot">>, <<"exploit", "remove">>}

\* A step that only moves on claims no more at its new label, on these conditions.
LEMMA PassSafe ==
  ASSUME StackInvariant, NEW r \in Run, NEW from, NEW to, Pass(r, from, to),
         <<from, to>> \in PassMoves,
         to = "wait" => r \in network /\ \A s \in ServicesOf(r) : <<r, s>> \in container,
         to = "down" => r \notin Legacy,
         from = "exploit" /\ to = "shot" => <<r, shot[r]>> \notin attackers
  PROVE  Advances(r)
<1> USE DEF Pass, PassMoves, Goto, docker, host
<1>t. TypeOK'
  BY DEF StackInvariant, TypeOK, Label
<1>1. StackKnown(r)'
  BY DEF StackInvariant, TypeOK, RunKnown, StackKnown, Using
<1>2. HealthKnown(r)'
  BY DEF StackInvariant, TypeOK, RunKnown, HealthKnown
<1>3. WaitKnown(r)'
  BY Bounds DEF StackInvariant, TypeOK, RunKnown, WaitKnown
<1>4. ShotKnown(r)'
  BY DEF StackInvariant, TypeOK, RunKnown, ShotKnown
<1>5. EndKnown(r)'
  BY DEF StackInvariant, TypeOK, RunKnown, EndKnown, Trying, TearingDown
<1>6. TeardownKnown(r)'
  BY DEF StackInvariant, TypeOK, RunKnown, TeardownKnown
<1>u. \A q \in Run \ {r} : Untouched(q)
  BY DEF StackInvariant, TypeOK, Untouched
<1> QED
  BY <1>t, <1>1, <1>2, <1>3, <1>4, <1>5, <1>6, <1>u DEF Advances, RunKnown

\* An exception leaves the try block; a ShieldClawError never while the exploit in hand
\* is there.
LEMMA RaiseSafe ==
  ASSUME StackInvariant, NEW r \in Run, NEW from \in Trying,
         NEW e \in {"shieldclaw", "other"}, Raise(r, from, e),
         e = "other" \/ from \notin {"exploit", "remove"} \/ <<r, shot[r]>> \notin attackers
  PROVE  Advances(r)
<1> USE DEF Raise, Goto, Unfollowed, docker
<1>t. TypeOK'
  BY DEF StackInvariant, TypeOK, Label, Health
<1>1. StackKnown(r)'
  BY DEF StackInvariant, TypeOK, RunKnown, StackKnown, Using
<1>2. HealthKnown(r)'
  BY DEF StackInvariant, TypeOK, RunKnown, HealthKnown
<1>3. WaitKnown(r)'
  BY DEF StackInvariant, TypeOK, RunKnown, WaitKnown
<1>4. ShotKnown(r)'
  BY DEF StackInvariant, TypeOK, RunKnown, ShotKnown, EndKnown, Trying
<1>5. EndKnown(r)'
  BY DEF StackInvariant, TypeOK, RunKnown, EndKnown, Trying, TearingDown
<1>6. TeardownKnown(r)'
  BY DEF StackInvariant, TypeOK, RunKnown, TeardownKnown
<1>u. \A q \in Run \ {r} : Untouched(q)
  BY ServicesType DEF StackInvariant, TypeOK, Untouched
<1> QED
  BY <1>t, <1>1, <1>2, <1>3, <1>4, <1>5, <1>6, <1>u DEF Advances, RunKnown

----------------------------------------------------------------------------
(* start_sandbox *)

\* _cleanup_stale removes what carries the token of r.
LEMMA CleanupStaleSafe ==
  ASSUME StackInvariant, NEW r \in Run, CleanupStale(r)
  PROVE  Advances(r)
<1> USE DEF CleanupStale, Goto, Labelled, LabelledAttackers, Project
<1>t. TypeOK'
  BY DEF StackInvariant, TypeOK, Label
<1>1. StackKnown(r)'
  BY DEF StackInvariant, TypeOK, RunKnown, StackKnown, Using
<1>2. HealthKnown(r)'
  BY DEF StackInvariant, TypeOK, RunKnown, HealthKnown
<1>3. WaitKnown(r)'
  BY DEF StackInvariant, TypeOK, RunKnown, WaitKnown
<1>4. ShotKnown(r)'
  BY DEF StackInvariant, TypeOK, RunKnown, ShotKnown
<1>5. EndKnown(r)'
  BY DEF StackInvariant, TypeOK, RunKnown, EndKnown, Trying, TearingDown
<1>6. TeardownKnown(r)'
  BY DEF StackInvariant, TypeOK, RunKnown, TeardownKnown
<1>u. \A q \in Run \ {r} : Untouched(q)
  BY DEF StackInvariant, TypeOK, Untouched
<1> QED
  BY <1>t, <1>1, <1>2, <1>3, <1>4, <1>5, <1>6, <1>u DEF Advances, RunKnown

\* The override file is written.
LEMMA WriteOverrideSafe ==
  ASSUME StackInvariant, NEW r \in Run, WriteOverride(r)
  PROVE  Advances(r)
<1> USE DEF WriteOverride, Goto
<1>t. TypeOK'
  BY DEF StackInvariant, TypeOK, Label
<1>1. StackKnown(r)'
  BY DEF StackInvariant, TypeOK, RunKnown, StackKnown, Using
<1>2. HealthKnown(r)'
  BY DEF StackInvariant, TypeOK, RunKnown, HealthKnown
<1>3. WaitKnown(r)'
  BY DEF StackInvariant, TypeOK, RunKnown, WaitKnown
<1>4. ShotKnown(r)'
  BY DEF StackInvariant, TypeOK, RunKnown, ShotKnown
<1>5. EndKnown(r)'
  BY DEF StackInvariant, TypeOK, RunKnown, EndKnown, Trying, TearingDown
<1>6. TeardownKnown(r)'
  BY DEF StackInvariant, TypeOK, RunKnown, TeardownKnown
<1>u. \A q \in Run \ {r} : Untouched(q)
  BY DEF StackInvariant, TypeOK, Untouched
<1> QED
  BY <1>t, <1>1, <1>2, <1>3, <1>4, <1>5, <1>6, <1>u DEF Advances, RunKnown

\* compose up makes the network before the first container.
LEMMA CreateSafe ==
  ASSUME StackInvariant, NEW r \in Run, Create(r)
  PROVE  Advances(r)
<1>0. /\ pc[r] = "up"
      /\ UNCHANGED <<client, health, attackers, override>>
      /\ \/ r \notin network /\ network' = network \union {r} /\ container' = container
         \/ \E s \in Service :
              r \in network /\ network' = network /\ container' = container \union {<<r, s>>}
  BY ServicesType DEF Create
<1> USE <1>0 DEF client
<1>t. TypeOK'
  BY DEF StackInvariant, TypeOK, Label
<1>1. StackKnown(r)'
  BY DEF StackInvariant, TypeOK, RunKnown, StackKnown, Using
<1>2. HealthKnown(r)'
  BY DEF StackInvariant, TypeOK, RunKnown, HealthKnown
<1>3. WaitKnown(r)'
  BY DEF StackInvariant, TypeOK, RunKnown, WaitKnown
<1>4. ShotKnown(r)'
  BY DEF StackInvariant, TypeOK, RunKnown, ShotKnown
<1>5. EndKnown(r)'
  BY DEF StackInvariant, TypeOK, RunKnown, EndKnown, Trying, TearingDown
<1>6. TeardownKnown(r)'
  BY DEF StackInvariant, TypeOK, RunKnown, TeardownKnown
<1>u. \A q \in Run \ {r} : Untouched(q)
  BY DEF StackInvariant, TypeOK, Untouched
<1> QED
  BY <1>t, <1>1, <1>2, <1>3, <1>4, <1>5, <1>6, <1>u DEF Advances, RunKnown

\* compose up returns: the whole stack is there, the network because a container is.
LEMMA UpSafe ==
  ASSUME StackInvariant, NEW r \in Run, Up(r)
  PROVE  Advances(r)
<1>1. \A s \in ServicesOf(r) : <<r, s>> \in container
  BY DEF Up
<1>2. r \in network
  BY <1>1, ServicesType DEF Up, Pass, Goto, StackInvariant, RunKnown, StackKnown
<1> QED
  BY <1>1, <1>2, PassSafe DEF Up, PassMoves

\* A pass of the readiness loop begins before the deadline.
LEMMA WaitSafe ==
  ASSUME StackInvariant, NEW r \in Run, Wait(r)
  PROVE  Advances(r)
<1> USE DEF Wait, Goto, docker, host
<1>t. TypeOK'
  BY DEF StackInvariant, TypeOK, Label
<1>1. StackKnown(r)'
  BY DEF StackInvariant, TypeOK, RunKnown, StackKnown, Using
<1>2. HealthKnown(r)'
  BY ServicesType DEF StackInvariant, TypeOK, RunKnown, HealthKnown
<1>3. WaitKnown(r)'
  BY Bounds DEF StackInvariant, TypeOK, RunKnown, WaitKnown
<1>4. ShotKnown(r)'
  BY DEF StackInvariant, TypeOK, RunKnown, ShotKnown
<1>5. EndKnown(r)'
  BY DEF StackInvariant, TypeOK, RunKnown, EndKnown, Trying, TearingDown
<1>6. TeardownKnown(r)'
  BY DEF StackInvariant, TypeOK, RunKnown, TeardownKnown
<1>u. \A q \in Run \ {r} : Untouched(q)
  BY DEF StackInvariant, TypeOK, Untouched
<1> QED
  BY <1>t, <1>1, <1>2, <1>3, <1>4, <1>5, <1>6, <1>u DEF Advances, RunKnown

\* A service was found healthy: the pass goes on, or the loop is left.
LEMMA ProbeHealthySafe ==
  ASSUME StackInvariant, NEW r \in Run, ProbeHealthy(r)
  PROVE  Advances(r)
<1>0. PICK d \in 0 .. 2 * ProbeTimeout :
        LET more == probed[r] + 1 < Len(Services[r]) IN
        /\ health[<<r, Services[r][probed[r] + 1]>>] = "healthy"
        /\ Goto(r, "probe", IF more THEN "probe" ELSE "ready")
        /\ probed' = [probed EXCEPT ![r] = IF more THEN @ + 1 ELSE 0]
        /\ waited' = [waited EXCEPT ![r] = IF more THEN @ + d ELSE 0]
        /\ UNCHANGED <<shot, outcome, error, failed, host>>
  BY DEF ProbeHealthy
<1>n. /\ probed[r] \in Nat /\ probed[r] < Len(Services[r]) /\ Len(Services[r]) \in Nat
      /\ d \in Nat /\ d <= 2 * ProbeTimeout /\ 2 * ProbeTimeout \in Nat
      /\ waited[r] \in Nat /\ waited[r] + d \in Nat /\ PollInterval \in Nat
  BY <1>0, SandboxAssumption, ServicesType DEF StackInvariant, TypeOK, RunKnown, HealthKnown, Goto
<1> USE <1>0, <1>n DEF Goto, docker, host
<1>t. TypeOK'
  BY DEF StackInvariant, TypeOK, Label
<1>1. StackKnown(r)'
  BY DEF StackInvariant, TypeOK, RunKnown, StackKnown, Using
<1>2. HealthKnown(r)'
  <2>1. \A i \in 1 .. probed[r] + 1 : health[<<r, Services[r][i]>>] # "starting"
    <3>1. \A i \in 1 .. probed[r] : health[<<r, Services[r][i]>>] # "starting"
      BY DEF StackInvariant, RunKnown, HealthKnown
    <3>2. \A i \in 1 .. probed[r] + 1 : i \in 1 .. probed[r] \/ i = probed[r] + 1
      OBVIOUS
    <3> QED
      BY <3>1, <3>2
  <2>2. CASE probed[r] + 1 < Len(Services[r])
    BY <2>1, <2>2 DEF StackInvariant, TypeOK, HealthKnown
  <2>3. CASE ~(probed[r] + 1 < Len(Services[r]))
    <3>1. probed[r] + 1 = Len(Services[r])
      BY <2>3
    <3>2. \A s \in ServicesOf(r) : health[<<r, s>>] # "starting"
      BY <2>1, <3>1 DEF ServicesOf
    <3> QED
      BY <2>3, <3>2 DEF StackInvariant, TypeOK, HealthKnown
  <2> QED
    BY <2>2, <2>3
<1>3. WaitKnown(r)'
  <2>1. waited[r] < ProbedBound(probed[r])
    BY DEF StackInvariant, RunKnown, WaitKnown
  <2>2. /\ ProbedBound(probed[r] + 1) = ProbedBound(probed[r]) + 2 * ProbeTimeout
        /\ ProbedBound(probed[r]) \in Nat
    BY Bounds
  <2>3. waited[r] + d < ProbedBound(probed[r] + 1)
    BY <2>1, <2>2
  <2> QED
    BY <2>3 DEF StackInvariant, TypeOK, WaitKnown
<1>4. ShotKnown(r)'
  BY DEF StackInvariant, TypeOK, RunKnown, ShotKnown
<1>5. EndKnown(r)'
  BY DEF StackInvariant, TypeOK, RunKnown, EndKnown, Trying, TearingDown
<1>6. TeardownKnown(r)'
  BY DEF StackInvariant, TypeOK, RunKnown, TeardownKnown
<1>u. \A q \in Run \ {r} : Untouched(q)
  BY DEF StackInvariant, TypeOK, Untouched
<1> QED
  BY <1>t, <1>1, <1>2, <1>3, <1>4, <1>5, <1>6, <1>u DEF Advances, RunKnown

\* A service was not healthy: the pass ends, before WaitBound.
LEMMA ProbeUnhealthySafe ==
  ASSUME StackInvariant, NEW r \in Run, ProbeUnhealthy(r)
  PROVE  Advances(r)
<1>0. PICK d \in 0 .. 2 * ProbeTimeout :
        /\ Goto(r, "probe", "wait")
        /\ waited' = [waited EXCEPT ![r] = @ + d + PollInterval]
        /\ UNCHANGED <<probed, shot, outcome, error, failed, host>>
  BY DEF ProbeUnhealthy
<1>n. /\ probed[r] \in Nat /\ probed[r] + 1 \in Nat /\ Len(Services[r]) \in Nat
      /\ probed[r] + 1 <= Len(Services[r])
      /\ d \in Nat /\ d <= 2 * ProbeTimeout /\ 2 * ProbeTimeout \in Nat
      /\ waited[r] \in Nat /\ waited[r] + d \in Nat /\ PollInterval \in Nat
  BY <1>0, SandboxAssumption, ServicesType DEF StackInvariant, TypeOK, RunKnown, HealthKnown, Goto
<1> USE <1>0, <1>n DEF Goto, docker, host
<1>t. TypeOK'
  BY DEF StackInvariant, TypeOK, Label
<1>1. StackKnown(r)'
  BY DEF StackInvariant, TypeOK, RunKnown, StackKnown, Using
<1>2. HealthKnown(r)'
  BY DEF StackInvariant, TypeOK, RunKnown, HealthKnown
<1>3. WaitKnown(r)'
  <2>1. waited[r] < ProbedBound(probed[r])
    BY DEF StackInvariant, RunKnown, WaitKnown
  <2>2. /\ ProbedBound(probed[r] + 1) = ProbedBound(probed[r]) + 2 * ProbeTimeout
        /\ ProbedBound(probed[r]) \in Nat
        /\ WaitBound(r) \in Nat
    BY Bounds
  <2>3. ProbedBound(probed[r] + 1) + PollInterval <= WaitBound(r)
    BY Bounds
  <2>4. waited[r] + d + PollInterval < WaitBound(r)
    BY <2>1, <2>2, <2>3
  <2> QED
    BY <2>4 DEF StackInvariant, TypeOK, WaitKnown
<1>4. ShotKnown(r)'
  BY DEF StackInvariant, TypeOK, RunKnown, ShotKnown
<1>5. EndKnown(r)'
  BY DEF StackInvariant, TypeOK, RunKnown, EndKnown, Trying, TearingDown
<1>6. TeardownKnown(r)'
  BY DEF StackInvariant, TypeOK, RunKnown, TeardownKnown
<1>u. \A q \in Run \ {r} : Untouched(q)
  BY DEF StackInvariant, TypeOK, Untouched
<1> QED
  BY <1>t, <1>1, <1>2, <1>3, <1>4, <1>5, <1>6, <1>u DEF Advances, RunKnown

----------------------------------------------------------------------------
(* detonate *)

\* The next exploit gets the next number.
LEMMA NextShotSafe ==
  ASSUME StackInvariant, NEW r \in Run, NextShot(r)
  PROVE  Advances(r)
<1>n. shot[r] \in Nat /\ shot[r] + 1 \in 1 .. MaxShots
  BY SandboxAssumption DEF NextShot, StackInvariant, TypeOK
<1> USE <1>n DEF NextShot, Goto, docker, host
<1>t. TypeOK'
  BY DEF StackInvariant, TypeOK, Label
<1>1. StackKnown(r)'
  BY DEF StackInvariant, TypeOK, RunKnown, StackKnown, Using
<1>2. HealthKnown(r)'
  BY DEF StackInvariant, TypeOK, RunKnown, HealthKnown
<1>3. WaitKnown(r)'
  BY DEF StackInvariant, TypeOK, RunKnown, WaitKnown
<1>4. ShotKnown(r)'
  BY DEF StackInvariant, TypeOK, RunKnown, ShotKnown
<1>5. EndKnown(r)'
  BY DEF StackInvariant, TypeOK, RunKnown, EndKnown, Trying, TearingDown
<1>6. TeardownKnown(r)'
  BY DEF StackInvariant, TypeOK, RunKnown, TeardownKnown
<1>u. \A q \in Run \ {r} : Untouched(q)
  BY DEF StackInvariant, TypeOK, Untouched
<1> QED
  BY <1>t, <1>1, <1>2, <1>3, <1>4, <1>5, <1>6, <1>u DEF Advances, RunKnown

\* docker run: the exploit in hand is there.
LEMMA LaunchSafe ==
  ASSUME StackInvariant, NEW r \in Run, Launch(r)
  PROVE  Advances(r)
<1>n. shot[r] \in 1 .. MaxShots
  BY SandboxAssumption DEF Launch, Goto, StackInvariant, TypeOK, RunKnown, ShotKnown
<1> USE <1>n DEF Launch, Goto
<1>t. TypeOK'
  BY DEF StackInvariant, TypeOK, Label
<1>1. StackKnown(r)'
  BY DEF StackInvariant, TypeOK, RunKnown, StackKnown, Using
<1>2. HealthKnown(r)'
  BY DEF StackInvariant, TypeOK, RunKnown, HealthKnown
<1>3. WaitKnown(r)'
  BY DEF StackInvariant, TypeOK, RunKnown, WaitKnown
<1>4. ShotKnown(r)'
  BY DEF StackInvariant, TypeOK, RunKnown, ShotKnown
<1>5. EndKnown(r)'
  BY DEF StackInvariant, TypeOK, RunKnown, EndKnown, Trying, TearingDown
<1>6. TeardownKnown(r)'
  BY DEF StackInvariant, TypeOK, RunKnown, TeardownKnown
<1>u. \A q \in Run \ {r} : Untouched(q)
  BY DEF StackInvariant, TypeOK, Untouched
<1> QED
  BY <1>t, <1>1, <1>2, <1>3, <1>4, <1>5, <1>6, <1>u DEF Advances, RunKnown

\* docker run returns, and the exploit in hand is gone.
LEMMA ExitsSafe ==
  ASSUME StackInvariant, NEW r \in Run, Exits(r)
  PROVE  Advances(r)
<1> USE DEF Exits, AfterShot, Goto, docker, host
<1>t. TypeOK'
  BY DEF StackInvariant, TypeOK, Label
<1>1. StackKnown(r)'
  BY DEF StackInvariant, TypeOK, RunKnown, StackKnown, Using
<1>2. HealthKnown(r)'
  BY DEF StackInvariant, TypeOK, RunKnown, HealthKnown
<1>3. WaitKnown(r)'
  BY DEF StackInvariant, TypeOK, RunKnown, WaitKnown
<1>4. ShotKnown(r)'
  BY DEF StackInvariant, TypeOK, RunKnown, ShotKnown
<1>5. EndKnown(r)'
  BY DEF StackInvariant, TypeOK, RunKnown, EndKnown, Trying, TearingDown
<1>6. TeardownKnown(r)'
  BY DEF StackInvariant, TypeOK, RunKnown, TeardownKnown
<1>u. \A q \in Run \ {r} : Untouched(q)
  BY DEF StackInvariant, TypeOK, Untouched
<1> QED
  BY <1>t, <1>1, <1>2, <1>3, <1>4, <1>5, <1>6, <1>u DEF Advances, RunKnown

\* The exploit is removed, or it was noted that it was not.
LEMMA RemoveSafe ==
  ASSUME StackInvariant, NEW r \in Run, Remove(r)
  PROVE  Advances(r)
<1> USE DEF Remove, AfterShot, Note, Goto
<1>t. TypeOK'
  BY DEF StackInvariant, TypeOK, Label
<1>1. StackKnown(r)'
  BY DEF StackInvariant, TypeOK, RunKnown, StackKnown, Using
<1>2. HealthKnown(r)'
  BY DEF StackInvariant, TypeOK, RunKnown, HealthKnown
<1>3. WaitKnown(r)'
  BY DEF StackInvariant, TypeOK, RunKnown, WaitKnown
<1>4. ShotKnown(r)'
  BY DEF StackInvariant, TypeOK, RunKnown, ShotKnown
<1>5. EndKnown(r)'
  BY DEF StackInvariant, TypeOK, RunKnown, EndKnown, Trying, TearingDown
<1>6. TeardownKnown(r)'
  BY DEF StackInvariant, TypeOK, RunKnown, TeardownKnown
<1>u. \A q \in Run \ {r} : Untouched(q)
  BY DEF StackInvariant, TypeOK, Untouched
<1> QED
  BY <1>t, <1>1, <1>2, <1>3, <1>4, <1>5, <1>6, <1>u DEF Advances, RunKnown

\* No exit code: an INCONCLUSIVE finding, or an error that ends a legacy run.
LEMMA NoExitCodeSafe ==
  ASSUME StackInvariant, NEW r \in Run, NoExitCode(r)
  PROVE  Advances(r)
<1>1. CASE \/ Raise(r, "launch", "shieldclaw")
           \/ <<r, shot[r]>> \notin attackers /\ Raise(r, "exploit", "shieldclaw")
  BY <1>1, RaiseSafe DEF Trying
<1>2. CASE \/ Pass(r, "launch", "shot")
           \/ <<r, shot[r]>> \notin attackers /\ Pass(r, "exploit", "shot")
  BY <1>2, PassSafe DEF PassMoves
<1> QED
  BY <1>1, <1>2 DEF NoExitCode

----------------------------------------------------------------------------
(* teardown *)

\* What compose down leaves was noted.
LEMMA DownSafe ==
  ASSUME StackInvariant, NEW r \in Run, Down(r)
  PROVE  Advances(r)
<1>0. /\ Goto(r, "down", "unlink")
      /\ health' = Unfollowed(r)
      /\ UNCHANGED <<probed, waited, shot, outcome, error, attackers, override>>
  BY DEF Down
<1>b. /\ container' \subseteq container
      /\ \A c \in container : c[1] # r => c \in container'
      /\ network' \in {network, network \ {r}}
      /\ \/ failed' = [failed EXCEPT ![r] = @ \union {"down"}]
         \/ /\ failed' = failed
            /\ r \notin network' /\ \A s \in Service : <<r, s>> \notin container'
  BY DEF Down, Note, Project, StackInvariant, TypeOK
<1> USE <1>0, <1>b DEF Goto
<1>t. TypeOK'
  BY DEF StackInvariant, TypeOK, Label, Health, Unfollowed
<1>1. StackKnown(r)'
  BY DEF StackInvariant, TypeOK, RunKnown, StackKnown, Using
<1>2. HealthKnown(r)'
  BY DEF StackInvariant, TypeOK, RunKnown, HealthKnown
<1>3. WaitKnown(r)'
  BY DEF StackInvariant, TypeOK, RunKnown, WaitKnown
<1>4. ShotKnown(r)'
  BY DEF StackInvariant, TypeOK, RunKnown, ShotKnown
<1>5. EndKnown(r)'
  BY DEF StackInvariant, TypeOK, RunKnown, EndKnown, Trying, TearingDown
<1>6. TeardownKnown(r)'
  <2>1. "down" \in failed'[r] \/ (r \notin network' /\ \A s \in Service : <<r, s>> \notin container')
    BY DEF StackInvariant, TypeOK
  <2>2. pc'[r] = "unlink"
    BY DEF StackInvariant, TypeOK
  <2> QED
    BY <2>1, <2>2 DEF TeardownKnown
<1>u. \A q \in Run \ {r} : Untouched(q)
  BY ServicesType DEF StackInvariant, TypeOK, Untouched, Unfollowed
<1> QED
  BY <1>t, <1>1, <1>2, <1>3, <1>4, <1>5, <1>6, <1>u DEF Advances, RunKnown

\* An override file that stays was noted.
LEMMA UnlinkSafe ==
  ASSUME StackInvariant, NEW r \in Run, Unlink(r)
  PROVE  Advances(r)
<1> USE DEF Unlink, Note, Goto
<1>t. TypeOK'
  BY DEF StackInvariant, TypeOK, Label
<1>1. StackKnown(r)'
  BY DEF StackInvariant, TypeOK, RunKnown, StackKnown, Using
<1>2. HealthKnown(r)'
  BY DEF StackInvariant, TypeOK, RunKnown, HealthKnown
<1>3. WaitKnown(r)'
  BY DEF StackInvariant, TypeOK, RunKnown, WaitKnown
<1>4. ShotKnown(r)'
  BY DEF StackInvariant, TypeOK, RunKnown, ShotKnown
<1>5. EndKnown(r)'
  BY DEF StackInvariant, TypeOK, RunKnown, EndKnown, Trying, TearingDown
<1>6. TeardownKnown(r)'
  BY DEF StackInvariant, TypeOK, RunKnown, TeardownKnown
<1>u. \A q \in Run \ {r} : Untouched(q)
  BY DEF StackInvariant, TypeOK, Untouched
<1> QED
  BY <1>t, <1>1, <1>2, <1>3, <1>4, <1>5, <1>6, <1>u DEF Advances, RunKnown

\* What the removal by label leaves was noted.
LEMMA RmSafe ==
  ASSUME StackInvariant, NEW r \in Run, Rm(r)
  PROVE  Advances(r)
<1>0. /\ Goto(r, "rm", "done")
      /\ UNCHANGED <<probed, waited, shot, outcome, error, health, network, override>>
  BY DEF Rm
<1>b. /\ container' \subseteq container /\ attackers' \subseteq attackers
      /\ \A c \in container : c[1] # r => c \in container'
      /\ \A a \in attackers : a[1] # r => a \in attackers'
      /\ \/ failed' = [failed EXCEPT ![r] = @ \union {"rm"}]
         \/ /\ failed' = failed
            /\ \A s \in Service : <<r, s>> \notin container'
            /\ \A n \in 1..MaxShots : <<r, n>> \notin attackers'
  <2>1. PICK C \in SUBSET Labelled(r), A \in SUBSET LabelledAttackers(r) :
          /\ container' = container \ C
          /\ attackers' = attackers \ A
          /\ Note(r, "rm", C = Labelled(r) /\ A = LabelledAttackers(r))
    BY DEF Rm
  <2>2. /\ \A c \in Labelled(r) : c[1] = r
        /\ \A a \in LabelledAttackers(r) : a[1] = r
        /\ \A s \in Service : <<r, s>> \in container => <<r, s>> \in Labelled(r)
        /\ \A n \in 1..MaxShots : <<r, n>> \in attackers => <<r, n>> \in LabelledAttackers(r)
    BY DEF Labelled, LabelledAttackers, Project
  <2>3. CASE C = Labelled(r) /\ A = LabelledAttackers(r)
    <3>1. failed' = failed
      BY <2>1, <2>3 DEF Note, StackInvariant, TypeOK
    <3> QED
      BY <2>1, <2>2, <2>3, <3>1
  <2>4. CASE ~(C = Labelled(r) /\ A = LabelledAttackers(r))
    <3>1. failed' = [failed EXCEPT ![r] = @ \union {"rm"}]
      BY <2>1, <2>4 DEF Note
    <3> QED
      BY <2>1, <2>2, <3>1
  <2> QED
    BY <2>3, <2>4
<1> USE <1>0, <1>b DEF Goto
<1>t. TypeOK'
  BY DEF StackInvariant, TypeOK, Label
<1>1. StackKnown(r)'
  BY DEF StackInvariant, TypeOK, RunKnown, StackKnown, Using
<1>2. HealthKnown(r)'
  BY DEF StackInvariant, TypeOK, RunKnown, HealthKnown
<1>3. WaitKnown(r)'
  BY DEF StackInvariant, TypeOK, RunKnown, WaitKnown
<1>4. ShotKnown(r)'
  BY DEF StackInvariant, TypeOK, RunKnown, ShotKnown
<1>5. EndKnown(r)'
  BY DEF StackInvariant, TypeOK, RunKnown, EndKnown, Trying, TearingDown
<1>6. TeardownKnown(r)'
  <2>1. /\ pc[r] = "rm" /\ pc'[r] = "done" /\ TeardownKnown(r)
        /\ failed[r] \subseteq failed'[r]
    BY DEF StackInvariant, TypeOK, RunKnown
  <2>2. \/ "rm" \in failed'[r]
        \/ /\ \A s \in Service : <<r, s>> \notin container'
           /\ \A n \in 1..MaxShots : <<r, n>> \notin attackers'
    BY DEF StackInvariant, TypeOK
  <2> QED
    BY <2>1, <2>2 DEF TeardownKnown
<1>u. \A q \in Run \ {r} : Untouched(q)
  BY DEF StackInvariant, TypeOK, Untouched
<1> QED
  BY <1>t, <1>1, <1>2, <1>3, <1>4, <1>5, <1>6, <1>u DEF Advances, RunKnown

----------------------------------------------------------------------------
(* Faults, and what happens around it *)

\* A command that is killed knows nothing and owes nothing.
LEMMA DieSafe ==
  ASSUME StackInvariant, NEW r \in Run, Die(r)
  PROVE  Advances(r)
<1> USE DEF Die, Goto, Unfollowed, docker
<1>t. TypeOK'
  BY DEF StackInvariant, TypeOK, Label, Health, Trying, TearingDown
<1>1. StackKnown(r)'
  BY DEF StackInvariant, TypeOK, RunKnown, StackKnown, Using
<1>2. HealthKnown(r)'
  BY DEF StackInvariant, TypeOK, RunKnown, HealthKnown
<1>3. WaitKnown(r)'
  BY DEF StackInvariant, TypeOK, RunKnown, WaitKnown
<1>4. ShotKnown(r)'
  BY DEF StackInvariant, TypeOK, RunKnown, ShotKnown, Trying, TearingDown
<1>5. EndKnown(r)'
  BY DEF StackInvariant, TypeOK, RunKnown, EndKnown, Trying, TearingDown
<1>6. TeardownKnown(r)'
  BY DEF StackInvariant, TypeOK, RunKnown, TeardownKnown
<1>u. \A q \in Run \ {r} : Untouched(q)
  BY DEF StackInvariant, TypeOK, Untouched
<1> QED
  BY <1>t, <1>1, <1>2, <1>3, <1>4, <1>5, <1>6, <1>u DEF Advances, RunKnown

\* Whatever a fault interrupts, teardown finds what it relies on.
LEMMA FaultSafe ==
  ASSUME StackInvariant, NEW r \in Run, Fault(r)
  PROVE  Advances(r)
<1>1. CASE PrepareFails(r)
  BY <1>1, RaiseSafe DEF PrepareFails, Trying
<1>2. CASE StartFails(r)
  BY <1>2, RaiseSafe DEF StartFails, Trying
<1>3. CASE Interrupt(r)
  BY <1>3, RaiseSafe DEF Interrupt
<1> QED
  BY <1>1, <1>2, <1>3, DieSafe DEF Fault

\* So does every step of a command that is not interrupted.
LEMMA StepSafe ==
  ASSUME StackInvariant, NEW r \in Run, Step(r)
  PROVE  Advances(r)
<1>1. CASE StartStep(r)
  <2>1. CASE Deadline(r)
    BY <2>1, RaiseSafe DEF Deadline, Trying
  <2>2. CASE Start(r) \/ Prepare(r) \/ Check(r) \/ Ready(r)
    BY <2>2, PassSafe DEF Start, Prepare, Check, Ready, PassMoves
  <2> QED
    BY <1>1, <2>1, <2>2, CleanupStaleSafe, WriteOverrideSafe, CreateSafe, UpSafe, WaitSafe,
       ProbeHealthySafe, ProbeUnhealthySafe
       DEF StartStep
<1>2. CASE DetonateStep(r)
  <2>1. CASE EndShots(r) \/ TimesOut(r)
    BY <2>1, PassSafe DEF EndShots, TimesOut, PassMoves
  <2> QED
    BY <1>2, <2>1, NextShotSafe, LaunchSafe, NoExitCodeSafe, ExitsSafe, RemoveSafe
       DEF DetonateStep
<1>3. CASE TeardownStep(r)
  BY <1>3, DownSafe, UnlinkSafe, RmSafe DEF TeardownStep
<1> QED
  BY <1>1, <1>2, <1>3 DEF Step

\* A service does not start again, and no label rests on its being healthy.
LEMMA ServiceChangesSafe ==
  ASSUME StackInvariant, ServiceChanges
  PROVE  StackInvariant'
<1>1. PICK c \in container, h \in {"healthy", "exited"} :
        /\ health' = [health EXCEPT ![c] = h]
        /\ UNCHANGED <<client, docker>>
  BY DEF ServiceChanges
<1>2. TypeOK'
  BY <1>1 DEF StackInvariant, TypeOK, Health, client, docker
<1>3. ASSUME NEW r \in Run PROVE RunKnown(r)'
  <2>1. \A s \in Service : health[<<r, s>>] # "starting" => health'[<<r, s>>] # "starting"
    BY <1>1 DEF StackInvariant, TypeOK
  <2>2. HealthKnown(r)'
    <3>1. pc[r] = "probe" => \A i \in 1..probed[r] : Services[r][i] \in Service
      BY ServicesType DEF StackInvariant, TypeOK, RunKnown, HealthKnown
    <3>2. ServicesOf(r) \subseteq Service
      BY ServicesType
    <3> QED
      BY <1>1, <2>1, <3>1, <3>2 DEF StackInvariant, RunKnown, HealthKnown, client
  <2> QED
    BY <1>1, <2>2 DEF StackInvariant, RunKnown, StackKnown, WaitKnown, ShotKnown, EndKnown,
                      TeardownKnown, client, docker
<1> QED
  BY <1>2, <1>3 DEF StackInvariant

\* An exploit that is gone breaks nothing.
LEMMA ExploitEndsSafe ==
  ASSUME StackInvariant, ExploitEnds
  PROVE  StackInvariant'
<1>1. /\ attackers' \subseteq attackers
      /\ UNCHANGED <<client, health, container, network, override>>
  BY DEF ExploitEnds
<1>2. TypeOK'
  BY <1>1 DEF StackInvariant, TypeOK, client
<1>3. ASSUME NEW r \in Run PROVE RunKnown(r)'
  BY <1>1 DEF StackInvariant, RunKnown, StackKnown, HealthKnown, WaitKnown, ShotKnown, EndKnown,
              TeardownKnown, client
<1> QED
  BY <1>2, <1>3 DEF StackInvariant

----------------------------------------------------------------------------
(* The theorems *)

\* Nothing is there, and nothing has been done.
LEMMA InitSafe == Init => StackInvariant
<1> SUFFICES ASSUME Init PROVE StackInvariant
  OBVIOUS
<1>1. TypeOK
  BY SandboxAssumption DEF Init, TypeOK, Label, Health
<1>2. ASSUME NEW r \in Run PROVE RunKnown(r)
  BY <1>2 DEF Init, RunKnown, StackKnown, HealthKnown, WaitKnown, ShotKnown, EndKnown,
              TeardownKnown, Using, TearingDown
<1> QED
  BY <1>1, <1>2 DEF StackInvariant

\* No step of the host or of a command breaks the invariant.
LEMMA NextSafe == StackInvariant /\ [Next]_vars => StackInvariant'
<1> SUFFICES ASSUME StackInvariant, [Next]_vars PROVE StackInvariant'
  OBVIOUS
<1>1. ASSUME NEW r \in Run, Step(r) \/ Fault(r) PROVE StackInvariant'
  BY <1>1, StepSafe, FaultSafe, AdvanceKeeps
<1>2. CASE UNCHANGED vars
  <2>1. TypeOK'
    BY <1>2 DEF StackInvariant, TypeOK, vars, client, host, docker
  <2>2. \A q \in Run : Untouched(q)
    BY <1>2 DEF Untouched, vars, client, host, docker
  <2> QED
    BY <2>1, <2>2, Bystander DEF StackInvariant
<1> QED
  BY <1>1, <1>2, ServiceChangesSafe, ExploitEndsSafe DEF Next

\* At every label a command knows what its next steps rely on.
THEOREM StackAlways == Spec => []StackInvariant
BY InitSafe, NextSafe, PTL DEF Spec

\* The variables have their types (TypeOK), for any instance.
THEOREM SandboxTypeCorrect == Spec => []TypeOK
<1>1. StackInvariant => TypeOK
  BY DEF StackInvariant
<1> QED
  BY <1>1, StackAlways, PTL

\* From compose up to teardown the stack of a command stays, whatever other commands
\* clean up and tear down on the host.
THEOREM StackIsSafe == Spec => []StackStays
<1>1. StackInvariant => StackStays
  BY DEF StackInvariant, RunKnown, StackKnown, StackStays
<1> QED
  BY <1>1, StackAlways, PTL

\* No exploit is launched before every service of its stack was found healthy.
THEOREM ShotsWaitForServices == Spec => []NoShotWhileStarting
<1>1. StackInvariant => NoShotWhileStarting
  BY DEF StackInvariant, RunKnown, HealthKnown, NoShotWhileStarting
<1> QED
  BY <1>1, StackAlways, PTL

\* The readiness loop overruns its deadline by one pass and one sleep at most.
THEOREM WaitEnds == Spec => []WaitIsBounded
<1>1. StackInvariant => WaitIsBounded
  <2> SUFFICES ASSUME StackInvariant, NEW r \in Run PROVE waited[r] < WaitBound(r)
    BY DEF WaitIsBounded
  <2>1. /\ waited[r] \in Nat /\ probed[r] \in Nat
        /\ WaitKnown(r) /\ (pc[r] = "probe" => probed[r] < Len(Services[r]))
    BY DEF StackInvariant, TypeOK, RunKnown, HealthKnown
  <2>2. pc[r] = "probe" => probed[r] <= Len(Services[r])
    BY <2>1, ServicesType
  <2>3. PollInterval \in Nat \ {0}
    BY SandboxAssumption
  <2>4. CASE pc[r] = "probe"
    <3>1. /\ ProbedBound(probed[r]) \in Nat
          /\ ProbedBound(probed[r]) + PollInterval <= WaitBound(r)
      BY <2>1, <2>2, <2>4, Bounds
    <3>0. WaitBound(r) \in Nat
      BY Bounds
    <3>2. waited[r] < ProbedBound(probed[r])
      BY <2>1, <2>4 DEF WaitKnown
    <3> QED
      BY <2>1, <2>3, <3>0, <3>1, <3>2
  <2>5. CASE pc[r] # "probe"
    BY <2>1, <2>5, Bounds DEF WaitKnown
  <2> QED
    BY <2>4, <2>5
<1> QED
  BY <1>1, StackAlways, PTL

\* An exploit that runs beside the next one, or beside teardown, is one that Docker did
\* not remove when its timeout was over, or the command was cut off.
THEOREM ExploitsDoNotOverlap == Spec => []OneExploitAtATime
<1>1. StackInvariant => OneExploitAtATime
  <2> SUFFICES ASSUME StackInvariant, NEW a \in attackers
               PROVE  LET r == a[1] IN
                      \/ a[2] = shot[r] /\ pc[r] \in {"exploit", "remove"}
                      \/ "remove" \in failed[r]
                      \/ error[r] = "other" \/ pc[r] = "dead"
    BY DEF OneExploitAtATime
  <2>1. a[1] \in Run /\ a[2] \in 1..MaxShots /\ a = <<a[1], a[2]>>
    BY DEF StackInvariant, TypeOK
  <2>2. ShotKnown(a[1])
    BY <2>1 DEF StackInvariant, RunKnown
  <2> QED
    BY <2>1, <2>2 DEF ShotKnown
<1> QED
  BY <1>1, StackAlways, PTL

\* What a command leaves on the host when it returns is what Docker refused to remove,
\* on every path through start_sandbox, detonate and teardown.
THEOREM NothingIsForgotten == Spec => []LeftoversWereRefused
<1>1. StackInvariant => LeftoversWereRefused
  <2> SUFFICES ASSUME StackInvariant, NEW r \in Run, pc[r] = "done"
               PROVE  /\ Project(r) # {} => "down" \in failed[r] /\ "rm" \in failed[r]
                      /\ LabelledAttackers(r) # {} => "rm" \in failed[r]
                      /\ r \in network => "down" \in failed[r]
                      /\ r \in override => "unlink" \in failed[r]
    BY DEF LeftoversWereRefused
  <2>1. TeardownKnown(r)
    BY DEF StackInvariant, RunKnown
  <2>2. /\ \A c \in Project(r) : c[2] \in Service /\ <<r, c[2]>> \in container
        /\ \A a \in LabelledAttackers(r) : a[2] \in 1..MaxShots /\ <<r, a[2]>> \in attackers
    <3>1. /\ \A c \in container : c[2] \in Service /\ c = <<c[1], c[2]>>
          /\ \A a \in attackers : a[2] \in 1..MaxShots /\ a = <<a[1], a[2]>>
      BY DEF StackInvariant, TypeOK
    <3> QED
      BY <3>1 DEF Project, LabelledAttackers
  <2>3. /\ Project(r) # {} => \E s \in Service : <<r, s>> \in container
        /\ LabelledAttackers(r) # {} => \E n \in 1..MaxShots : <<r, n>> \in attackers
    BY <2>2
  <2> QED
    BY <2>1, <2>2, <2>3 DEF TeardownKnown
<1> QED
  BY <1>1, StackAlways, PTL

\* A legacy run returns with an exit code or with an error, never with neither.
THEOREM LegacyTells == Spec => []LegacyReportTells
<1>1. StackInvariant => LegacyReportTells
  BY SandboxAssumption DEF StackInvariant, RunKnown, EndKnown, LegacyReportTells, TearingDown
<1> QED
  BY <1>1, StackAlways, PTL

=============================================================================
