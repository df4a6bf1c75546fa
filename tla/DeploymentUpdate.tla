-------------------------- MODULE DeploymentUpdate --------------------------
(***************************************************************************)
(* Updating the deployment from the web: deployment-update.service.ts, the *)
(* Docker engine behind docker-engine.client.ts, and the script of         *)
(* update-script.ts that runs in the container of the updater.             *)
(*                                                                         *)
(* A start inspects the container of the last update, reads the published  *)
(* release, pulls the runner's image, replaces the container and starts    *)
(* it. The container pulls, makes a backup and replaces both services, the *)
(* backend among them, and waits until both run the release. Updating is   *)
(* taken to be enabled and configured as assertRunnable demands.           *)
(***************************************************************************)
EXTENDS Integers, FiniteSets

CONSTANTS
    MaxReleases,   \* bound on the releases that are published
    MaxAttempts,   \* bound on the starts
    MaxFaults,     \* bound on the calls and steps that fail, and on the crashes
    StartsAnswer   \* whether Docker answers every call that starts a container

BoundsAssumption ==
    {MaxReleases, MaxAttempts, MaxFaults} \subseteq Nat /\ StartsAnswer \in BOOLEAN

Services == {"backend", "frontend"}

VARIABLES
    published,  \* the newest release, 0 before the first
    backend,    \* the memory of the backend: starting, startFailure
    attempt,    \* the start under way, if any
    container,  \* the container of the updater, if there is one
    late,       \* the containers Docker starts after the call has timed out
    services,   \* the release each service runs
    healthy,    \* the services that are healthy
    attempts,   \* how many starts there were
    faults      \* how many faults there were

vars == <<published, backend, attempt, container, late, services, healthy,
          attempts, faults>>

Fresh == [starting |-> FALSE, startFailure |-> {}]

Init ==
    /\ published = 0 /\ backend = Fresh
    /\ attempt = {} /\ container = {} /\ late = {}
    /\ services = [s \in Services |-> 0] /\ healthy = Services
    /\ attempts = 0 /\ faults = 0

Running(found) == \E c \in found : c.state = "running"

(* What a container says of its update. Docker reports the exit code 0     *)
(* also for a container that was never started.                            *)
\* Mutant: the exit code alone decides.
MutantResult(c) ==
    [attempt |-> c.attempt, succeeded |-> c.code = 0, revision |-> c.revision]

Result(c) ==
    [attempt |-> c.attempt, succeeded |-> c.code = 0 /\ c.state # "created",
     revision |-> c.revision]

Failure(a) == {[attempt |-> a.id, succeeded |-> FALSE, revision |-> a.target]}

Fault == faults < MaxFaults /\ faults' = faults + 1
-----------------------------------------------------------------------------
(***************************************************************************)
(* A start. Every step is one call, and each may fail or time out; a call  *)
(* that changes something may have done so before it failed.               *)
(***************************************************************************)
Host == <<published, late, services, healthy>>

StartUpdate ==
    /\ ~backend.starting /\ attempts < MaxAttempts
    /\ attempts' = attempts + 1
    /\ backend' = [backend EXCEPT !.starting = TRUE]
    /\ attempt' = {[id |-> attempts', step |-> "inspect", found |-> {}, target |-> 0]}
    /\ UNCHANGED <<Host, container, faults>>

At(step) == {a \in attempt : a.step = step}

GoesOn(a, step) == attempt' = {[a EXCEPT !.step = step]} /\ UNCHANGED backend

(* The end of a start: the guard is always released. A failure is kept     *)
(* unless the container was created, whose own result counts then.         *)
Ends(failure) ==
    /\ attempt' = {}
    /\ backend' = [starting |-> FALSE, startFailure |-> failure]

\* Mutant: a conflict leaves the guard.
MutantConflict == attempt' = {} /\ UNCHANGED backend

Conflict == Ends(backend.startFailure)

\* Mutant: the start does not look whether an update is running.
MutantInspect ==
    \E a \in At("inspect") :
        /\ GoesOn([a EXCEPT !.found = container], "release")
        /\ UNCHANGED <<Host, container, attempts, faults>>

Inspect ==
    \E a \in At("inspect") :
        /\ IF Running(container) THEN Conflict
           ELSE GoesOn([a EXCEPT !.found = container], "release")
        /\ UNCHANGED <<Host, container, attempts, faults>>

FetchRelease ==
    \E a \in At("release") :
        /\ IF published = 0 THEN Ends(Failure(a))
           ELSE GoesOn([a EXCEPT !.target = published], "pull")
        /\ UNCHANGED <<Host, container, attempts, faults>>

PullImage ==
    \E a \in At("pull") :
        /\ GoesOn(a, IF a.found = {} THEN "create" ELSE "remove")
        /\ UNCHANGED <<Host, container, attempts, faults>>

(* By name and by force, whatever the container does by then.              *)
RemoveContainer ==
    \E a \in At("remove") :
        /\ container # {} /\ container' = {}
        /\ GoesOn(a, "create")
        /\ UNCHANGED <<Host, attempts, faults>>

Created(a) ==
    {[attempt |-> a.id, revision |-> a.target, state |-> "created", step |-> "pull",
      backedUp |-> FALSE, code |-> 0]}

CreateContainer ==
    \E a \in At("create") :
        /\ IF container = {} THEN container' = Created(a) /\ GoesOn(a, "start")
           ELSE Ends(Failure(a)) /\ UNCHANGED container
        /\ UNCHANGED <<Host, attempts, faults>>

Started(c) == {[c EXCEPT !.state = "running"]}

\* Mutant: an earlier failure is kept.
MutantStartContainer ==
    \E a \in At("start"), c \in container :
        /\ container' = Started(c)
        /\ Ends(backend.startFailure)
        /\ UNCHANGED <<Host, attempts, faults>>

StartContainer ==
    \E a \in At("start"), c \in container :
        /\ container' = Started(c)
        /\ Ends({})
        /\ UNCHANGED <<Host, attempts, faults>>

CallFails ==
    \E a \in attempt :
        /\ Fault /\ (StartsAnswer => a.step # "start")
        /\ Ends(IF a.step = "start" THEN backend.startFailure ELSE Failure(a))
        /\ CASE a.step = "remove" -> container' \in {container, {}} /\ UNCHANGED late
             [] a.step = "create" /\ container = {} ->
                    container' \in {container, Created(a)} /\ UNCHANGED late
             [] a.step = "start" ->
                    \/ container' \in {container, UNION {Started(c) : c \in container}}
                       /\ UNCHANGED late
                    \/ late' = late \cup {a.id} /\ UNCHANGED container
             [] OTHER -> UNCHANGED <<container, late>>
        /\ UNCHANGED <<published, services, healthy, attempts>>

StartedLate ==
    \E id \in late :
        /\ late' = late \ {id}
        /\ container' = UNION {IF c.attempt = id THEN Started(c) ELSE {c} : c \in container}
        /\ UNCHANGED <<published, backend, attempt, services, healthy, attempts, faults>>
-----------------------------------------------------------------------------
(***************************************************************************)
(* The script. It ends at the first step that fails, and the container is  *)
(* stopped when the time of the whole update is over.                      *)
(***************************************************************************)
Busy(step) == {c \in container : c.state = "running" /\ c.step = step}

Memory == <<published, late, attempts>>

Exited(c, code) == {[c EXCEPT !.state = "exited", !.code = code]}

\* Mutant: the services are replaced before the backup is made.
MutantPull ==
    \E c \in Busy("pull") :
        /\ container' = {[c EXCEPT !.step = "up"]}
        /\ UNCHANGED <<Memory, backend, attempt, services, healthy, faults>>

Pull ==
    \E c \in Busy("pull") :
        /\ container' = {[c EXCEPT !.step = "backup"]}
        /\ UNCHANGED <<Memory, backend, attempt, services, healthy, faults>>

Backup ==
    \E c \in Busy("backup") :
        /\ container' = {[c EXCEPT !.step = "up", !.backedUp = TRUE]}
        /\ UNCHANGED <<Memory, backend, attempt, services, healthy, faults>>

(* What the backend had in memory, and the requests it was serving, are    *)
(* gone when it is replaced or crashes.                                    *)
Restarts == backend' = Fresh /\ attempt' = {}

Up ==
    \E c \in Busy("up") :
        LET old == {s \in Services : services[s] # c.revision} IN
        \/ \E s \in old :
              /\ services' = [services EXCEPT ![s] = c.revision]
              /\ healthy' = healthy \ {s}
              /\ IF s = "backend" THEN Restarts ELSE UNCHANGED <<backend, attempt>>
              /\ UNCHANGED <<published, late, container, attempts, faults>>
        \/ /\ old = {}
           /\ container' = {[c EXCEPT !.step = "wait"]}
           /\ UNCHANGED <<Memory, backend, attempt, services, healthy, faults>>

BecomesHealthy ==
    \E s \in Services \ healthy :
        /\ healthy' = healthy \cup {s}
        /\ UNCHANGED <<Memory, backend, attempt, container, services, faults>>

Ready(c) == \A s \in Services : s \in healthy /\ services[s] = c.revision

Verified ==
    \E c \in Busy("wait") :
        /\ Ready(c)
        /\ container' = Exited(c, 0)
        /\ UNCHANGED <<Memory, backend, attempt, services, healthy, faults>>

(* A step that fails (1), no health in time (42), no backup script (43), or *)
(* the time of the whole update is over (124).                             *)
ScriptFails ==
    \E c \in container, code \in {1, 42, 43, 124} :
        /\ c.state = "running"
        /\ code = 42 => c.step = "wait"
        /\ code = 43 => c.step = "backup"
        /\ container' = Exited(c, code)
        /\ UNCHANGED <<Memory, backend, attempt, services, healthy, faults>>
-----------------------------------------------------------------------------
(***************************************************************************)
(* The environment, and the status.                                        *)
(***************************************************************************)
Publish ==
    /\ published < MaxReleases /\ published' = published + 1
    /\ UNCHANGED <<backend, attempt, container, late, services, healthy, attempts, faults>>

Crash ==
    /\ Fault /\ Restarts
    /\ UNCHANGED <<published, container, late, services, healthy, attempts>>

(* What a status request says. It is answered by the backend that runs     *)
(* then, which may be another one than made the start.                     *)
Status ==
    LET running == backend.starting \/ Running(container) IN
    [running |-> running,
     result |-> IF running THEN {}
                ELSE IF backend.startFailure # {} THEN backend.startFailure
                ELSE {Result(c) : c \in container}]

Starting ==
    \/ Inspect \/ FetchRelease \/ PullImage \/ RemoveContainer
    \/ CreateContainer \/ StartContainer

Script == Pull \/ Backup \/ Up \/ Verified

Next ==
    \/ StartUpdate \/ Starting \/ CallFails \/ StartedLate
    \/ Script \/ ScriptFails \/ BecomesHealthy
    \/ Publish \/ Crash

(* Every call of a start is answered, fails or times out, and so is every  *)
(* step of the script; a service need not become healthy.                  *)
Fairness == WF_vars(Starting \/ CallFails) /\ WF_vars(Script \/ ScriptFails)

Spec == Init /\ [][Next]_vars /\ Fairness
-----------------------------------------------------------------------------
TypeOK ==
    /\ published \in 0..MaxReleases /\ attempts \in 0..MaxAttempts /\ faults \in 0..MaxFaults
    /\ backend.starting \in BOOLEAN /\ backend.starting <=> attempt # {}
    /\ Cardinality(container) <= 1 /\ Cardinality(attempt) <= 1
    /\ \A c \in container : c.state \in {"created", "running", "exited"}
    /\ services \in [Services -> 0..MaxReleases] /\ healthy \subseteq Services

(* An update counts as successful only if both services run its release,   *)
(* whatever failed, was killed or started again in between                 *)
(* ("应用健康且两个容器的提交版本均匹配才显示成功").                          *)
SuccessIsDeployed ==
    \A r \in Status.result :
        r.succeeded => \A s \in Services : services[s] = r.revision

(* An updater that is running is never removed                             *)
(* ("does not remove an updater while it is running").                     *)
KeepsRunning ==
    Running(container) => container' # {}
RunningIsNotRemoved == [][KeepsRunning]_vars

(* The failure of a start does not hide the result of a later update       *)
(* ("保留容器让后续查询确认结果").                                           *)
LastResultCounts ==
    \A c \in container : \A r \in Status.result :
        c.state = "exited" => r.attempt >= c.attempt

(* No service is replaced without a backup of this update, and none goes   *)
(* back to an older release.                                               *)
UpgradesBackedUp ==
    services' # services =>
      /\ \A s \in Services : services'[s] >= services[s]
      /\ \A c \in container : c.backedUp
BackedUpUpgrades == [][UpgradesBackedUp]_vars

(* A start ends, and the next one is not refused for ever; so does the     *)
(* update.                                                                 *)
StartEnds == backend.starting ~> ~backend.starting
UpdateEnds == Running(container) ~> ~Running(container)
=============================================================================
