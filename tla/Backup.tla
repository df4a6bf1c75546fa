------------------------------- MODULE Backup -------------------------------
(***************************************************************************)
(* The backups: backup.sh, with verify-backup.sh as one of its steps,      *)
(* beside an application that goes on storing and removing files. Every    *)
(* start, by the schedule of the day or by an update, is a run of its own. *)
(*                                                                         *)
(* A run holds a lock on the directory of backups. It dumps the database,  *)
(* archives the files, restores the dump into a container without network  *)
(* and compares; only then is its directory renamed to a formal backup and *)
(* recorded as the last success, and formal backups that are too old are   *)
(* removed. A step may hang; the supervisor of the run then sends it TERM  *)
(* and, when that does not end it, KILL.                                   *)
(***************************************************************************)
EXTENDS Integers, FiniteSets

CONSTANTS
    Files,      \* the files the application can store
    KeepDays,   \* BACKUP_KEEP_DAYS
    MaxRuns,    \* bound on the starts
    MaxDays,    \* bound on the days that pass
    MaxFaults   \* bound on the failed steps, signals and damages

BoundsAssumption ==
    {MaxRuns, MaxDays, MaxFaults} \subseteq Nat /\ KeepDays \in Nat \ {0}

Runs == 1 .. MaxRuns
Manual == 0       \* an old backup somebody made by hand

VARIABLES
    stored,       \* how far each file is: none, written, live, deleted, gone
    runs,         \* the runs: step, day, files to archive, state of verification
    lock,         \* the processes that have the lock's file open
    dirs,         \* the directories: {} or one record
    lastSuccess,  \* the run that last-success.txt names, if any
    containers,   \* the runs whose container is there
    late,         \* the runs whose container Docker makes after the time-out
    excused,      \* containers that were reported, came late, or were left by KILL
    day,
    faults

vars == <<stored, runs, lock, dirs, lastSuccess, containers, late, excused, day, faults>>

Directory(kind, touched) ==
    [kind |-> kind, touched |-> touched, rows |-> {}, files |-> {}, damaged |-> {},
     whole |-> TRUE, marked |-> TRUE]

Idle == [step |-> "off", begun |-> 0, listed |-> {}, attempted |-> FALSE, passed |-> FALSE,
         removing |-> {}]

Init ==
    /\ stored \in [Files -> {"none", "live"}]
    /\ runs = [r \in Runs |-> Idle]
    /\ lock = {}
    /\ dirs = [d \in Runs \cup {Manual} |->
                 IF d = Manual THEN {Directory("manual", -KeepDays - 1)} ELSE {}]
    /\ lastSuccess = {}
    /\ containers = {} /\ late = {} /\ excused = {}
    /\ day = 0 /\ faults = 0

(* The steps of the script that has the lock.                              *)
Verifying == {"sums", "create", "restore", "compare", "cleanup"}
Working == {"prepare", "dump", "list", "archive", "seal", "publish", "record", "rotate"}
              \cup Verifying
Alive == Working \cup {"stopping"}
Ended == {"refused", "done", "failed", "killed"}

OnDisk == {f \in Files : stored[f] \in {"written", "live", "deleted"}}
Live == {f \in Files : stored[f] = "live"}

Environment == <<stored, day>>
Fault == faults < MaxFaults /\ faults' = faults + 1
-----------------------------------------------------------------------------
(***************************************************************************)
(* The application writes a file before its row and deletes the row before *)
(* the file. The days pass.                                                *)
(***************************************************************************)
NextStage == [none |-> "written", written |-> "live", live |-> "deleted", deleted |-> "gone"]

Application ==
    \E f \in Files :
        /\ stored[f] \in DOMAIN NextStage
        /\ stored' = [stored EXCEPT ![f] = NextStage[@]]
        /\ UNCHANGED <<runs, lock, dirs, lastSuccess, containers, late, excused, day, faults>>

(* The budget of a run is a day at the most.                               *)
DayPasses ==
    /\ day < MaxDays
    /\ \A r \in Runs : runs[r].step \in Alive => runs[r].begun = day
    /\ day' = day + 1
    /\ UNCHANGED <<stored, runs, lock, dirs, lastSuccess, containers, late, excused, faults>>
-----------------------------------------------------------------------------
(***************************************************************************)
(* A run. Only its main process has the lock, not the processes it starts. *)
(***************************************************************************)
Goes(r, step) == runs' = [runs EXCEPT ![r].step = step]

Begins(r) == runs' = [runs EXCEPT ![r].step = "prepare", ![r].begun = day]

\* Mutant: flock is not asked whether somebody has the lock.
MutantStart ==
    \E r \in Runs :
        /\ runs[r].step = "off" /\ \A q \in 1 .. r - 1 : runs[q].step # "off"
        /\ Begins(r) /\ lock' = lock \cup {r}
        /\ UNCHANGED <<Environment, dirs, lastSuccess, containers, late, excused, faults>>

Start ==
    \E r \in Runs :
        /\ runs[r].step = "off" /\ \A q \in 1 .. r - 1 : runs[q].step # "off"
        /\ IF lock = {}
           THEN Begins(r) /\ lock' = {r}
           ELSE Goes(r, "refused") /\ UNCHANGED lock
        /\ UNCHANGED <<Environment, dirs, lastSuccess, containers, late, excused, faults>>

Step(r, from, to) == runs[r].step = from /\ Goes(r, to)

Changes(r, dir) == dirs' = [dirs EXCEPT ![r] = {dir}]

Prepare(r) ==
    /\ Step(r, "prepare", "dump")
    /\ Changes(r, Directory("partial", day))
    /\ UNCHANGED <<Environment, lock, lastSuccess, containers, late, excused, faults>>

(* The dump is of one moment, the archive is not.                          *)
Dump(r) ==
    /\ Step(r, "dump", "list")
    /\ \E dir \in dirs[r] : Changes(r, [dir EXCEPT !.rows = Live])
    /\ UNCHANGED <<Environment, lock, lastSuccess, containers, late, excused, faults>>

List(r) ==
    /\ runs[r].step = "list"
    /\ runs' = [runs EXCEPT ![r].step = "archive", ![r].listed = OnDisk]
    /\ UNCHANGED <<Environment, lock, dirs, lastSuccess, containers, late, excused, faults>>

Read(r) ==
    /\ runs[r].step = "archive"
    /\ \E dir \in dirs[r] : \E f \in OnDisk \ dir.files :
          Changes(r, [dir EXCEPT !.files = @ \cup {f}])
    /\ UNCHANGED <<Environment, runs, lock, lastSuccess, containers, late, excused, faults>>

Archived(r) ==
    /\ \E dir \in dirs[r] : runs[r].listed \cap OnDisk \subseteq dir.files
    /\ runs[r].step = "archive"
    /\ runs' = [runs EXCEPT ![r].step = "seal", ![r].listed = {}]
    /\ UNCHANGED <<Environment, lock, dirs, lastSuccess, containers, late, excused, faults>>

Seal(r) ==
    /\ Step(r, "seal", "sums")
    /\ \E dir \in dirs[r] : Changes(r, [dir EXCEPT !.touched = day])
    /\ UNCHANGED <<Environment, lock, lastSuccess, containers, late, excused, faults>>
-----------------------------------------------------------------------------
(***************************************************************************)
(* The verification. It removes its container whatever happens, once it    *)
(* has asked for it.                                                       *)
(***************************************************************************)
Verdict(r, good) ==
    runs' = [runs EXCEPT ![r].step = "cleanup", ![r].passed = good]

(* What was damaged before it was sealed has good sums; unpacking the       *)
(* archive or restoring the dump refuses it.                               *)
CheckSums(r) ==
    /\ runs[r].step = "sums"
    /\ \E dir \in dirs[r] :
          IF dir.damaged = {} THEN Goes(r, "create") ELSE Verdict(r, FALSE)
    /\ UNCHANGED <<Environment, lock, dirs, lastSuccess, containers, late, excused, faults>>

CreateContainer(r) ==
    /\ runs[r].step = "create"
    /\ runs' = [runs EXCEPT ![r].step = "restore", ![r].attempted = TRUE]
    /\ containers' = containers \cup {r}
    /\ UNCHANGED <<Environment, lock, dirs, lastSuccess, late, excused, faults>>

(* The call times out; the container was made, is made later, or never is. *)
\* Mutant: the container counts as asked for when the call has returned.
MutantCreateTimesOut(r) ==
    /\ runs[r].step = "create" /\ Fault
    /\ runs' = [runs EXCEPT ![r].step = "cleanup"]
    /\ \/ containers' = containers \cup {r} /\ UNCHANGED late
       \/ late' = late \cup {r} /\ UNCHANGED containers
       \/ UNCHANGED <<containers, late>>
    /\ UNCHANGED <<Environment, lock, dirs, lastSuccess, excused>>

CreateTimesOut(r) ==
    /\ runs[r].step = "create" /\ Fault
    /\ runs' = [runs EXCEPT ![r].step = "cleanup", ![r].attempted = TRUE]
    /\ \/ containers' = containers \cup {r} /\ UNCHANGED late
       \/ late' = late \cup {r} /\ UNCHANGED containers
       \/ UNCHANGED <<containers, late>>
    /\ UNCHANGED <<Environment, lock, dirs, lastSuccess, excused>>

ContainerComesLate ==
    \E r \in late :
        /\ late' = late \ {r}
        /\ containers' = containers \cup {r}
        /\ excused' = IF runs[r].step \in Alive THEN excused ELSE excused \cup {r}
        /\ UNCHANGED <<Environment, runs, lock, dirs, lastSuccess, faults>>

Restore(r) ==
    /\ Step(r, "restore", "compare")
    /\ UNCHANGED <<Environment, lock, dirs, lastSuccess, containers, late, excused, faults>>

\* Mutant: the files of the database are not looked for.
MutantCompare(r) ==
    /\ runs[r].step = "compare"
    /\ Verdict(r, TRUE)
    /\ UNCHANGED <<Environment, lock, dirs, lastSuccess, containers, late, excused, faults>>

Compare(r) ==
    /\ runs[r].step = "compare"
    /\ \E dir \in dirs[r] : Verdict(r, dir.rows \subseteq dir.files)
    /\ UNCHANGED <<Environment, lock, dirs, lastSuccess, containers, late, excused, faults>>

(* Docker may fail to remove the container, which is then reported.        *)
RemoveContainer(r) ==
    IF ~runs[r].attempted
    THEN UNCHANGED <<containers, excused, faults>>
    ELSE \/ containers' = containers \ {r} /\ UNCHANGED <<excused, faults>>
         \/ Fault /\ excused' = excused \cup {r} /\ UNCHANGED containers

Exits(r, step) ==
    /\ runs' = [runs EXCEPT ![r] = [Idle EXCEPT !.step = step]]
    /\ lock' = lock \ {r}

Cleanup(r) ==
    /\ runs[r].step = "cleanup"
    /\ RemoveContainer(r)
    /\ IF runs[r].passed
       THEN /\ runs' = [runs EXCEPT ![r].step = "publish", ![r].attempted = FALSE]
            /\ UNCHANGED lock
       ELSE Exits(r, "failed")
    /\ UNCHANGED <<Environment, dirs, lastSuccess, late>>
-----------------------------------------------------------------------------
(***************************************************************************)
(* The end of a run that passed: the directory gets its name, the success  *)
(* is recorded, old backups go.                                            *)
(***************************************************************************)
Publish(r) ==
    /\ Step(r, "publish", "record")
    /\ \E dir \in dirs[r] : Changes(r, [dir EXCEPT !.kind = "rent"])
    /\ UNCHANGED <<Environment, lock, lastSuccess, containers, late, excused, faults>>

Record(r) ==
    /\ Step(r, "record", "rotate")
    /\ lastSuccess' = {r}
    /\ UNCHANGED <<Environment, lock, dirs, containers, late, excused, faults>>

(* What find and the loop below it select.                                 *)
\* Mutant: directories of any name, verified or not.
MutantExpired(d) ==
    \E dir \in dirs[d] : day - dir.touched > KeepDays

\* Mutant: backups of any age.
MutantAnyAge(d) ==
    \E dir \in dirs[d] : dir.kind = "rent" /\ dir.marked

Expired(d) ==
    \E dir \in dirs[d] : dir.kind = "rent" /\ day - dir.touched > KeepDays /\ dir.marked

(* rm removes the files of a directory one by one, which makes what is left *)
(* of it new; the files that show that it was verified go first or last.   *)
RemoveSome(r) ==
    /\ runs[r].step = "rotate" /\ runs[r].removing = {}
    /\ \E d \in DOMAIN dirs : \E dir \in dirs[d], marked \in BOOLEAN :
          /\ Expired(d)
          /\ Changes(d, [dir EXCEPT !.whole = FALSE, !.marked = marked, !.touched = day])
          /\ runs' = [runs EXCEPT ![r].removing = {d}]
    /\ UNCHANGED <<Environment, lock, lastSuccess, containers, late, excused, faults>>

RemoveRest(r) ==
    /\ \E d \in runs[r].removing : dirs' = [dirs EXCEPT ![d] = {}]
    /\ runs[r].step = "rotate"
    /\ runs' = [runs EXCEPT ![r].removing = {}]
    /\ UNCHANGED <<Environment, lock, lastSuccess, containers, late, excused, faults>>

Rotated(r) ==
    /\ runs[r].step = "rotate" /\ runs[r].removing = {}
    /\ \A d \in DOMAIN dirs : ~Expired(d)
    /\ Exits(r, "done")
    /\ UNCHANGED <<Environment, dirs, lastSuccess, containers, late, excused, faults>>
-----------------------------------------------------------------------------
(***************************************************************************)
(* What goes wrong. A failed step ends the script, with what it has made;  *)
(* a verification still removes its container. last-success.txt is empty   *)
(* when it cannot be written.                                              *)
(***************************************************************************)
StepFails(r) ==
    /\ runs[r].step \in Working \ {"cleanup", "create"} /\ Fault
    /\ IF runs[r].step \in Verifying
       THEN Verdict(r, FALSE) /\ UNCHANGED lock
       ELSE Exits(r, "failed")
    /\ lastSuccess' = IF runs[r].step = "record" THEN {} ELSE lastSuccess
    /\ UNCHANGED <<Environment, dirs, containers, late, excused>>

Damage(r) ==
    /\ runs[r].step \in {"list", "archive", "seal"} \cup Verifying /\ Fault
    /\ \E dir \in dirs[r] : Changes(r, [dir EXCEPT !.damaged = @ \cup {runs[r].step}])
    /\ UNCHANGED <<Environment, runs, lock, lastSuccess, containers, late, excused>>

(* The budget of the verification ends, and TERM does not end it.          *)
VerificationKilled(r) ==
    /\ runs[r].step \in Verifying /\ Fault
    /\ excused' = excused \cup {r}
    /\ Exits(r, "failed")
    /\ UNCHANGED <<Environment, dirs, lastSuccess, containers, late>>

(* The budget of the run ends, or somebody stops it.                       *)
Terminate(r) ==
    /\ runs[r].step \in Working
    /\ Goes(r, "stopping")
    /\ UNCHANGED <<Environment, lock, dirs, lastSuccess, containers, late, excused, faults>>

(* The process that is at work is ended before the lock is given back.     *)
Stopped(r) ==
    /\ runs[r].step = "stopping"
    /\ RemoveContainer(r)
    /\ Exits(r, "failed")
    /\ UNCHANGED <<Environment, dirs, lastSuccess, late>>

\* Mutant: the processes a run has started have the lock too.
MutantKilled(r) ==
    /\ Step(r, "stopping", "killed")
    /\ excused' = excused \cup {r}
    /\ UNCHANGED <<Environment, lock, dirs, lastSuccess, containers, late, faults>>

Killed(r) ==
    /\ runs[r].step = "stopping"
    /\ Exits(r, "killed")
    /\ excused' = excused \cup {r}
    /\ UNCHANGED <<Environment, dirs, lastSuccess, containers, late, faults>>

(* A verification that its run did not outwait ends on its own.            *)
LeftVerificationEnds(r) ==
    /\ runs[r].step \in {"killed", "failed"} /\ r \in containers \cap excused
    /\ containers' = containers \ {r}
    /\ UNCHANGED <<Environment, runs, lock, dirs, lastSuccess, late, excused, faults>>
-----------------------------------------------------------------------------
Works(r) ==
    \/ Prepare(r) \/ Dump(r) \/ List(r) \/ Read(r) \/ Archived(r) \/ Seal(r)
    \/ CheckSums(r) \/ CreateContainer(r) \/ Restore(r) \/ Compare(r) \/ Cleanup(r)
    \/ Publish(r) \/ Record(r) \/ RemoveSome(r) \/ RemoveRest(r) \/ Rotated(r)

Fails(r) == StepFails(r) \/ CreateTimesOut(r) \/ Damage(r) \/ VerificationKilled(r)

Supervised(r) == Terminate(r) \/ Killed(r)

Next ==
    \/ Application \/ DayPasses
    \/ Start \/ ContainerComesLate
    \/ \E r \in Runs :
          Works(r) \/ Fails(r) \/ Supervised(r) \/ Stopped(r) \/ LeftVerificationEnds(r)

(* Nothing is sure to go on but timeout, which sends its signals in time.  *)
Fairness == \A r \in Runs : WF_vars(Terminate(r)) /\ WF_vars(Killed(r))

Spec == Init /\ [][Next]_vars /\ Fairness

TypeOK ==
    /\ \A r \in Runs : runs[r].step \in Alive \cup Ended \cup {"off"}
    /\ \A d \in DOMAIN dirs : Cardinality(dirs[d]) <= 1
    /\ lock \subseteq {r \in Runs : runs[r].step \in Alive}
    /\ lastSuccess \in {{}} \cup {{r} : r \in Runs}
    /\ containers \cup late \cup excused \subseteq Runs

(* A formal backup has every file that its database names, and its archive *)
(* and dump are as they were sealed when the verification read them, with  *)
(* whatever the application stored or removed meanwhile                    *)
(* ("若备份期间附件被删除导致不完整，任务会失败").                             *)
FormalIsVerified ==
    \A r \in Runs : \A dir \in dirs[r] : dir.kind = "rent" =>
        /\ dir.rows \subseteq dir.files
        /\ dir.damaged \cap {"list", "archive", "seal"} = {}

(* Two runs are never at work at once, and a lock is never left behind     *)
(* that would refuse a retry ("因此超时退出后可重新执行").                    *)
OneAtATime ==
    /\ Cardinality({r \in Runs : runs[r].step \in Alive}) <= 1
    /\ \A r \in lock : runs[r].step \in Alive

(* The run that last-success.txt names has its backup, whole, however many *)
(* runs failed, were killed or removed old backups since.                  *)
LastSuccessIsThere ==
    \A r \in lastSuccess : \E dir \in dirs[r] : dir.kind = "rent" /\ dir.whole

(* A container is only left where that was reported, came after the time   *)
(* out, or was beyond a verification that was killed.                      *)
LeftoversAreKnown ==
    \A r \in containers : runs[r].step \in Alive \/ r \in excused

(* What was not made by a verified run is never removed ("旧手工备份不会删除"). *)
KeepsOthers ==
    \A d \in DOMAIN dirs : \A dir \in dirs[d] : dir.kind # "rent" => dirs'[d] # {}
OthersAreKept == [][KeepsOthers]_vars

HasBackup == \E d \in DOMAIN dirs : \E dir \in dirs[d] : dir.kind = "rent" /\ dir.whole

(* Once there is a verified backup there always is one.                    *)
KeepsABackup ==
    HasBackup => HasBackup'
NeverWithoutBackup == [][KeepsABackup]_vars

(* A backup ends whatever hangs ("备份与恢复校验均有总时限").                 *)
BackupEnds == \A r \in Runs : runs[r].step = "prepare" ~> runs[r].step \in Ended

(* Said of failures: they do not touch the last success                    *)
(* ("失败保留 `.partial-*`，不修改最近成功记录").                             *)
(* It does not hold: the rotation runs after the success is recorded.      *)
FailureKeepsLastSuccess ==
    \A r \in Runs : runs[r].step \in {"failed", "killed"} => lastSuccess # {r}

(* Said of every backup: that it has its dump, archive and log             *)
(* ("每份备份包含 `database.dump`、`storage.tar.gz`").                        *)
(* It does not hold: the rotation removes a directory file by file.        *)
FormalIsWhole ==
    \A r \in Runs : \A dir \in dirs[r] :
        dir.kind = "rent" /\ ~dir.whole => lock # {}
=============================================================================
