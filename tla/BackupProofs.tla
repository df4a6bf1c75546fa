----------------------------- MODULE BackupProofs -----------------------------
(***************************************************************************)
(* Proofs about Backup, for any number of runs, days, files and failures:  *)
(* one run is at work at a time, what has a formal name is verified, the   *)
(* containers that are left are known, and the rotation removes neither    *)
(* what it does not know nor the last good backup.                         *)
(*                                                                         *)
(* The budget of a run, a day at the most, is what keeps the rotation from *)
(* the backup it has just made: BACKUP_KEEP_DAYS is at least one.          *)
(***************************************************************************)
EXTENDS Backup, FiniteSetTheorems, TLAPS

Directories == Runs \cup {Manual}

\* What the verification reads, and the other steps with a directory that has no name yet.
Sealed == {"list", "archive", "seal"}
Unnamed == {"dump", "list", "archive", "seal", "publish"} \cup Verifying
Named == {"record", "rotate"}

Run ==
    [step : Alive \cup Ended \cup {"off"}, begun : Nat, listed : SUBSET Files,
     attempted : BOOLEAN, passed : BOOLEAN, removing : SUBSET Directories]

Contents ==
    [kind : {"manual", "partial", "rent"}, touched : Int, rows : SUBSET Files,
     files : SUBSET Files, damaged : SUBSET (Sealed \cup Verifying), whole : BOOLEAN, marked : BOOLEAN]

Types ==
    /\ stored \in [Files -> {"none", "written", "live", "deleted", "gone"}]
    /\ runs \in [Runs -> Run]
    /\ dirs \in [Directories -> {{}} \cup {{dir} : dir \in Contents}]
    /\ lock \subseteq Runs
    /\ lastSuccess \in {{}} \cup {{r} : r \in Runs}
    /\ containers \subseteq Runs /\ late \subseteq Runs /\ excused \subseteq Runs
    /\ day \in Nat /\ faults \in Nat

\* The lock is had by the run that is at work, and by no other.
LockInv ==
    /\ lock = {r \in Runs : runs[r].step \in Alive}
    /\ \A q, r \in lock : q = r

Intact(dir) == dir.damaged \cap Sealed = {}
Complete(dir) == dir.rows \subseteq dir.files

\* What the directory of a run is like at each step, and what the run remembers.
Fits(q, dir) ==
    /\ q.step \in Unnamed => dir.kind = "partial"
    /\ q.step \in Named => dir.kind = "rent"
    /\ q.step \in Unnamed \cup Named => dir.whole /\ q.begun <= dir.touched
    /\ q.step \in {"create", "restore", "compare"} => Intact(dir)
    /\ q.passed => Intact(dir) /\ Complete(dir)

Stage(r) ==
    LET q == runs[r] IN
    /\ q.step \in {"off", "prepare"} => dirs[r] = {}
    /\ q.step \in Alive => q.begun <= day /\ day <= q.begun + 1
    /\ q.step \in Unnamed \cup Named => dirs[r] # {}
    /\ \A dir \in dirs[r] : Fits(q, dir)
    /\ q.passed => q.step \in {"cleanup", "publish", "stopping"} \cup Named
    /\ q.step = "publish" => q.passed
    /\ q.attempted => q.step \in {"restore", "compare", "cleanup", "stopping"}
    /\ q.removing # {} => q.step \in {"rotate", "stopping"}
    /\ \A d \in q.removing : d # r /\ \A dir \in dirs[d] : dir.kind = "rent"
    /\ q.step = "rotate" => lastSuccess = {r}

\* Containers have a run that will remove them, or are known.
LeftInv ==
    /\ \A r \in containers : r \in excused \/ (runs[r].step \in Alive /\ runs[r].attempted)
    /\ \A r \in late : \/ runs[r].step \in Ended
                       \/ /\ runs[r].step \in {"cleanup", "stopping"}
                          /\ runs[r].attempted /\ ~runs[r].passed

BackupInv ==
    /\ Types /\ LockInv /\ LeftInv
    /\ \A r \in Runs : Stage(r)
    /\ FormalIsVerified /\ LastSuccessIsThere

-----------------------------------------------------------------------------
LEMMA IdleIsRun == ASSUME NEW step \in Ended PROVE [Idle EXCEPT !.step = step] \in Run
  BY DEF Idle, Run

LEMMA DirectoryIs ==
    ASSUME NEW kind \in {"manual", "partial"}, NEW touched \in Int
    PROVE  Directory(kind, touched) \in Contents
  BY DEF Directory, Contents

LEMMA InitTypes == BoundsAssumption /\ Init => Types /\ LockInv
  <1> SUFFICES ASSUME BoundsAssumption, Init PROVE Types /\ LockInv OBVIOUS
  <1>1. runs \in [Runs -> Run] BY DEF Init, Idle, Run
  <1>2. dirs \in [Directories -> {{}} \cup {{dir} : dir \in Contents}]
    <2>1. Directory("manual", -KeepDays - 1) \in Contents BY DirectoryIs DEF BoundsAssumption
    <2> QED BY <2>1 DEF Init, Directories
  <1>3. \A r \in Runs : runs[r].step \notin Alive
    BY DEF Init, Idle, Alive, Working, Verifying
  <1> QED BY <1>1, <1>2, <1>3 DEF Types, LockInv, Init

\* A directory whose contents change is there before and after.
LEMMA ChangedTypes ==
    ASSUME Types, NEW d \in Directories, NEW dir \in Contents, Changes(d, dir)
    PROVE  dirs' \in [Directories -> {{}} \cup {{x} : x \in Contents}]
  BY DEF Types, Changes

LEMMA ContentsOf == ASSUME Types, NEW d \in Directories, NEW dir \in dirs[d]
                    PROVE  dir \in Contents /\ dirs[d] = {dir}
  BY DEF Types

LEMMA GoesTypes ==
    ASSUME Types, NEW r \in Runs, NEW step \in Alive \cup Ended, Goes(r, step)
    PROVE  runs' \in [Runs -> Run]
  <1>1. [runs[r] EXCEPT !.step = step] \in Run BY DEF Types, Run
  <1> QED BY <1>1 DEF Types, Goes

LEMMA ExitsTypes ==
    ASSUME Types, NEW r \in Runs, NEW step \in Ended, Exits(r, step)
    PROVE  runs' \in [Runs -> Run] /\ lock' \subseteq Runs
  BY IdleIsRun DEF Types, Exits

LEMMA VerdictTypes ==
    ASSUME Types, NEW r \in Runs, NEW good \in BOOLEAN, Verdict(r, good)
    PROVE  runs' \in [Runs -> Run]
  <1>1. [runs[r] EXCEPT !.step = "cleanup", !.passed = good] \in Run
    BY DEF Types, Run, Alive, Working, Verifying
  <1> QED BY <1>1 DEF Types, Verdict

LEMMA NextTypes == BoundsAssumption /\ Types /\ [Next]_vars => Types'
  <1> SUFFICES ASSUME BoundsAssumption, Types, [Next]_vars PROVE Types' OBVIOUS
  <1> USE DEF Environment
  <1>0. CASE UNCHANGED vars BY <1>0 DEF vars, Types
  <1>1. CASE Application BY <1>1 DEF Application, NextStage, Types
  <1>2. CASE DayPasses BY <1>2 DEF DayPasses, Types
  <1>3. CASE Start
    <2>1. PICK r \in Runs : IF lock = {} THEN Begins(r) /\ lock' = {r}
                            ELSE Goes(r, "refused") /\ UNCHANGED lock
      BY <1>3 DEF Start
    <2>2. runs' \in [Runs -> Run] /\ lock' \subseteq Runs
      <3>1. CASE lock = {}
        <4>1. [runs[r] EXCEPT !.step = "prepare", !.begun = day] \in Run
          BY DEF Types, Run, Alive, Working
        <4> QED BY <2>1, <3>1, <4>1 DEF Begins, Types
      <3>2. CASE lock # {} BY <2>1, <3>2, GoesTypes DEF Ended, Types
      <3> QED BY <3>1, <3>2
    <2> QED BY <1>3, <2>2 DEF Start, Types
  <1>4. CASE ContainerComesLate BY <1>4 DEF ContainerComesLate, Types
  <1>5. ASSUME NEW r \in Runs, Works(r) PROVE Types'
    <2>0. r \in Directories BY DEF Directories
    <2>1. CASE Prepare(r)
      <3>1. Directory("partial", day) \in Contents BY DirectoryIs DEF Types
      <3>2. runs' \in [Runs -> Run] BY <2>1, GoesTypes DEF Prepare, Step, Alive, Working
      <3> QED BY <2>0, <2>1, <3>1, <3>2, ChangedTypes DEF Prepare, Types
    <2>2. CASE Dump(r)
      <3>1. PICK dir \in dirs[r] : Changes(r, [dir EXCEPT !.rows = Live]) BY <2>2 DEF Dump
      <3>2. [dir EXCEPT !.rows = Live] \in Contents BY <2>0, ContentsOf DEF Contents, Live
      <3>3. runs' \in [Runs -> Run] BY <2>2, GoesTypes DEF Dump, Step, Alive, Working
      <3> QED BY <2>0, <2>2, <3>1, <3>2, <3>3, ChangedTypes DEF Dump, Types
    <2>3. CASE List(r)
      <3>1. [runs[r] EXCEPT !.step = "archive", !.listed = OnDisk] \in Run
        BY DEF Types, Run, Alive, Working, OnDisk
      <3> QED BY <2>3, <3>1 DEF List, Types
    <2>4. CASE Read(r)
      <3>1. PICK dir \in dirs[r], f \in OnDisk : Changes(r, [dir EXCEPT !.files = @ \cup {f}])
        BY <2>4 DEF Read
      <3>2. [dir EXCEPT !.files = @ \cup {f}] \in Contents
        BY <2>0, ContentsOf DEF Contents, OnDisk
      <3> QED BY <2>0, <2>4, <3>1, <3>2, ChangedTypes DEF Read, Types
    <2>5. CASE Archived(r)
      <3>1. [runs[r] EXCEPT !.step = "seal", !.listed = {}] \in Run
        BY DEF Types, Run, Alive, Working
      <3> QED BY <2>5, <3>1 DEF Archived, Types
    <2>6. CASE Seal(r)
      <3>1. PICK dir \in dirs[r] : Changes(r, [dir EXCEPT !.touched = day]) BY <2>6 DEF Seal
      <3>2. [dir EXCEPT !.touched = day] \in Contents BY <2>0, ContentsOf DEF Contents, Types
      <3>3. runs' \in [Runs -> Run] BY <2>6, GoesTypes DEF Seal, Step, Alive, Working, Verifying
      <3> QED BY <2>0, <2>6, <3>1, <3>2, <3>3, ChangedTypes DEF Seal, Types
    <2>7. CASE CheckSums(r)
      <3>1. runs' \in [Runs -> Run]
        BY <2>7, GoesTypes, VerdictTypes DEF CheckSums, Alive, Working, Verifying
      <3> QED BY <2>7, <3>1 DEF CheckSums, Types
    <2>8. CASE CreateContainer(r)
      <3>1. [runs[r] EXCEPT !.step = "restore", !.attempted = TRUE] \in Run
        BY DEF Types, Run, Alive, Working, Verifying
      <3> QED BY <2>8, <3>1 DEF CreateContainer, Types
    <2>9. CASE Restore(r)
      <3>1. runs' \in [Runs -> Run]
        BY <2>9, GoesTypes DEF Restore, Step, Alive, Working, Verifying
      <3> QED BY <2>9, <3>1 DEF Restore, Types
    <2>10. CASE Compare(r)
      <3>1. runs' \in [Runs -> Run] BY <2>10, VerdictTypes DEF Compare
      <3> QED BY <2>10, <3>1 DEF Compare, Types
    <2>11. CASE Cleanup(r)
      <3>1. runs' \in [Runs -> Run] /\ lock' \subseteq Runs
        <4>1. CASE runs[r].passed
          <5>1. [runs[r] EXCEPT !.step = "publish", !.attempted = FALSE] \in Run
            BY DEF Types, Run, Alive, Working
          <5> QED BY <2>11, <4>1, <5>1 DEF Cleanup, Types
        <4>2. CASE ~runs[r].passed BY <2>11, <4>2, ExitsTypes DEF Cleanup, Ended
        <4> QED BY <4>1, <4>2
      <3> QED BY <2>11, <3>1 DEF Cleanup, RemoveContainer, Fault, Types
    <2>12. CASE Publish(r)
      <3>1. PICK dir \in dirs[r] : Changes(r, [dir EXCEPT !.kind = "rent"]) BY <2>12 DEF Publish
      <3>2. [dir EXCEPT !.kind = "rent"] \in Contents BY <2>0, ContentsOf DEF Contents
      <3>3. runs' \in [Runs -> Run] BY <2>12, GoesTypes DEF Publish, Step, Alive, Working
      <3> QED BY <2>0, <2>12, <3>1, <3>2, <3>3, ChangedTypes DEF Publish, Types
    <2>13. CASE Record(r)
      <3>1. runs' \in [Runs -> Run] BY <2>13, GoesTypes DEF Record, Step, Alive, Working
      <3> QED BY <2>13, <3>1 DEF Record, Types
    <2>14. CASE RemoveSome(r)
      <3>0. PICK d \in DOMAIN dirs : \E dir \in dirs[d], marked \in BOOLEAN :
              /\ Changes(d, [dir EXCEPT !.whole = FALSE, !.marked = marked, !.touched = day])
              /\ runs' = [runs EXCEPT ![r].removing = {d}]
        BY <2>14 DEF RemoveSome
      <3>1. PICK dir \in dirs[d], marked \in BOOLEAN :
              /\ Changes(d, [dir EXCEPT !.whole = FALSE, !.marked = marked, !.touched = day])
              /\ runs' = [runs EXCEPT ![r].removing = {d}]
        BY <3>0
      <3>2. d \in Directories BY DEF Types
      <3>3. [dir EXCEPT !.whole = FALSE, !.marked = marked, !.touched = day] \in Contents
        <4>1. dir \in Contents BY <3>2, ContentsOf
        <4>2. day \in Int BY DEF Types
        <4> QED BY <4>1, <4>2 DEF Contents
      <3>4. [runs[r] EXCEPT !.removing = {d}] \in Run BY <3>2 DEF Types, Run
      <3> QED BY <2>14, <3>1, <3>2, <3>3, <3>4, ChangedTypes DEF RemoveSome, Types
    <2>15. CASE RemoveRest(r)
      <3>1. [runs[r] EXCEPT !.removing = {}] \in Run BY DEF Types, Run
      <3> QED BY <2>15, <3>1 DEF RemoveRest, Types
    <2>16. CASE Rotated(r) BY <2>16, ExitsTypes DEF Rotated, Ended, Types
    <2> QED BY <1>5, <2>1, <2>2, <2>3, <2>4, <2>5, <2>6, <2>7, <2>8, <2>9, <2>10, <2>11,
               <2>12, <2>13, <2>14, <2>15, <2>16 DEF Works
  <1>6. ASSUME NEW r \in Runs, Fails(r) PROVE Types'
    <2>0. r \in Directories BY DEF Directories
    <2>1. CASE StepFails(r)
      <3>1. runs' \in [Runs -> Run] /\ lock' \subseteq Runs
        BY <2>1, VerdictTypes, ExitsTypes DEF StepFails, Ended, Types
      <3> QED BY <2>1, <3>1 DEF StepFails, Fault, Types
    <2>2. CASE CreateTimesOut(r)
      <3>1. [runs[r] EXCEPT !.step = "cleanup", !.attempted = TRUE] \in Run
        BY DEF Types, Run, Alive, Working, Verifying
      <3> QED BY <2>2, <3>1 DEF CreateTimesOut, Fault, Types
    <2>3. CASE Damage(r)
      <3>1. PICK dir \in dirs[r] : Changes(r, [dir EXCEPT !.damaged = @ \cup {runs[r].step}])
        BY <2>3 DEF Damage
      <3>2. [dir EXCEPT !.damaged = @ \cup {runs[r].step}] \in Contents
        BY <2>0, <2>3, ContentsOf DEF Contents, Damage, Sealed
      <3> QED BY <2>0, <2>3, <3>1, <3>2, ChangedTypes DEF Damage, Fault, Types
    <2>4. CASE VerificationKilled(r)
      <3>1. runs' \in [Runs -> Run] /\ lock' \subseteq Runs
        BY <2>4, ExitsTypes DEF VerificationKilled, Ended
      <3> QED BY <2>4, <3>1 DEF VerificationKilled, Fault, Types
    <2> QED BY <1>6, <2>1, <2>2, <2>3, <2>4 DEF Fails
  <1>7. ASSUME NEW r \in Runs, Supervised(r) PROVE Types'
    <2>1. CASE Terminate(r)
      <3>1. runs' \in [Runs -> Run] BY <2>1, GoesTypes DEF Terminate, Alive
      <3> QED BY <2>1, <3>1 DEF Terminate, Types
    <2>2. CASE Killed(r)
      <3>1. runs' \in [Runs -> Run] /\ lock' \subseteq Runs BY <2>2, ExitsTypes DEF Killed, Ended
      <3> QED BY <2>2, <3>1 DEF Killed, Types
    <2> QED BY <1>7, <2>1, <2>2 DEF Supervised
  <1>8. ASSUME NEW r \in Runs, Stopped(r) PROVE Types'
    <2>1. runs' \in [Runs -> Run] /\ lock' \subseteq Runs BY <1>8, ExitsTypes DEF Stopped, Ended
    <2> QED BY <1>8, <2>1 DEF Stopped, RemoveContainer, Fault, Types
  <1>9. ASSUME NEW r \in Runs, LeftVerificationEnds(r) PROVE Types'
    BY <1>9 DEF LeftVerificationEnds, Types
  <1> QED BY <1>0, <1>1, <1>2, <1>3, <1>4, <1>5, <1>6, <1>7, <1>8, <1>9 DEF Next

-----------------------------------------------------------------------------
(* One run at a time                                                       *)

RunMoves(r) == Works(r) \/ Fails(r) \/ Supervised(r) \/ Stopped(r)

\* A run that moves is at work; it alone changes, and gives the lock back when it ends.
LEMMA OneMoves ==
    ASSUME Types, NEW r \in Runs, RunMoves(r)
    PROVE  /\ runs[r].step \in Alive
           /\ \A q \in Runs \ {r} : runs'[q] = runs[q]
           /\ \/ runs'[r].step \in Alive /\ UNCHANGED lock
              \/ \E step \in Ended : Exits(r, step)
           /\ UNCHANGED day
  <1> USE DEF Environment, Step, Goes, Verdict, Alive, Working, Verifying, Types, Run
  <1>1. CASE Prepare(r) \/ Dump(r) \/ List(r) \/ Read(r) \/ Archived(r) \/ Seal(r)
    BY <1>1 DEF Prepare, Dump, List, Read, Archived, Seal
  <1>2. CASE CheckSums(r) \/ CreateContainer(r) \/ Restore(r) \/ Compare(r)
    BY <1>2 DEF CheckSums, CreateContainer, Restore, Compare
  <1>3. CASE Cleanup(r)
    <2>1. CASE runs[r].passed BY <1>3, <2>1 DEF Cleanup
    <2>2. CASE ~runs[r].passed BY <1>3, <2>2 DEF Cleanup, Exits, Ended
    <2> QED BY <2>1, <2>2
  <1>4. CASE Publish(r) \/ Record(r) \/ RemoveSome(r) \/ RemoveRest(r)
    <2>1. CASE Publish(r) \/ Record(r) BY <2>1 DEF Publish, Record
    <2>2. CASE RemoveSome(r) \/ RemoveRest(r)
      <3>1. PICK some : runs' = [runs EXCEPT ![r].removing = some] /\ runs[r].step = "rotate"
                        /\ UNCHANGED <<Environment, lock>>
        BY <2>2 DEF RemoveSome, RemoveRest
      <3> QED BY <3>1
    <2> QED BY <1>4, <2>1, <2>2
  <1>5. CASE Rotated(r) \/ Stopped(r) \/ Killed(r) \/ VerificationKilled(r)
    BY <1>5 DEF Rotated, Stopped, Killed, VerificationKilled, Exits, Ended
  <1>6. CASE StepFails(r)
    <2>1. CASE runs[r].step \in Verifying BY <1>6, <2>1 DEF StepFails
    <2>2. CASE runs[r].step \notin Verifying BY <1>6, <2>2 DEF StepFails, Exits, Ended
    <2> QED BY <2>1, <2>2
  <1>7. CASE CreateTimesOut(r) \/ Damage(r) \/ Terminate(r)
    BY <1>7 DEF CreateTimesOut, Damage, Terminate
  <1> QED BY <1>1, <1>2, <1>3, <1>4, <1>5, <1>6, <1>7 DEF RunMoves, Works, Fails, Supervised

LEMMA ExitedIs ==
    ASSUME Types, NEW r \in Runs, NEW step \in Ended, Exits(r, step)
    PROVE  /\ runs'[r] = [Idle EXCEPT !.step = step] /\ runs'[r].step = step
           /\ runs'[r].step \notin Alive /\ lock' = lock \ {r}
  BY DEF Exits, Types, Idle, Ended, Alive, Working, Verifying

LEMMA NextLocks == Types /\ LockInv /\ [Next]_vars => LockInv'
  <1> SUFFICES ASSUME Types, LockInv, [Next]_vars PROVE LockInv' OBVIOUS
  <1>0. CASE UNCHANGED <<runs, lock>> BY <1>0 DEF LockInv
  <1>1. CASE Start
    <2>1. PICK r \in Runs : /\ runs[r].step = "off"
                            /\ IF lock = {} THEN Begins(r) /\ lock' = {r}
                               ELSE Goes(r, "refused") /\ UNCHANGED lock
      BY <1>1 DEF Start
    <2>2. CASE lock = {}
      BY <2>1, <2>2 DEF LockInv, Begins, Types, Run, Alive, Working
    <2>3. CASE lock # {}
      <3>1. runs[r].step \notin Alive /\ runs'[r].step \notin Alive
        BY <2>1, <2>3 DEF Goes, Types, Run, Alive, Working, Verifying
      <3>2. \A q \in Runs \ {r} : runs'[q] = runs[q] BY <2>1, <2>3 DEF Goes, Types
      <3> QED BY <2>1, <2>3, <3>1, <3>2 DEF LockInv
    <2> QED BY <2>2, <2>3
  <1>2. ASSUME NEW r \in Runs, RunMoves(r) PROVE LockInv'
    <2>1. CASE runs'[r].step \in Alive /\ UNCHANGED lock
      BY <1>2, <2>1, OneMoves DEF LockInv
    <2>2. CASE \E step \in Ended : Exits(r, step)
      BY <1>2, <2>2, OneMoves, ExitedIs DEF LockInv
    <2> QED BY <1>2, <2>1, <2>2, OneMoves
  <1> QED BY <1>0, <1>1, <1>2
          DEF Next, RunMoves, vars, Application, DayPasses, ContainerComesLate, LeftVerificationEnds

\* Whoever is at work has the lock.
LEMMA LockIsOne == ASSUME Types, LockInv PROVE OneAtATime
<1>1. Cardinality(lock) <= 1
  <2>1. CASE lock = {} BY <2>1, FS_EmptySet
  <2>2. CASE lock # {}
    <3>1. PICK r \in lock : TRUE BY <2>2
    <3>2. lock = {r} BY <3>1 DEF LockInv
    <3> QED BY <3>2, FS_Singleton
  <2> QED BY <2>1, <2>2
<1> QED BY <1>1 DEF LockInv, OneAtATime

(***************************************************************************)
(* No two runs are at work at a time, and the lock is had by the one that  *)
(* is: a run that ended or was killed does not keep others from starting.  *)
(***************************************************************************)
THEOREM OneRunAtATime == BoundsAssumption /\ Spec => []OneAtATime
<1>1. BoundsAssumption /\ Init => Types /\ LockInv BY InitTypes
<1>2. BoundsAssumption /\ Types /\ LockInv /\ [Next]_vars => (Types /\ LockInv)'
  BY NextTypes, NextLocks
<1>4. BoundsAssumption => BoundsAssumption' BY DEF BoundsAssumption
<1> QED BY <1>1, <1>2, <1>4, LockIsOne, PTL DEF Spec

-----------------------------------------------------------------------------
(* The stages of a run                                                     *)

LEMMA EndedStage ==
    ASSUME Types, NEW r \in Runs, NEW step \in Ended, Exits(r, step)
    PROVE  Stage(r)'
  <1>1. runs'[r] = [Idle EXCEPT !.step = step] BY ExitedIs
  <1>2. /\ runs'[r].step = step /\ runs'[r].passed = FALSE /\ runs'[r].attempted = FALSE
        /\ runs'[r].removing = {}
    BY <1>1 DEF Idle
  <1>3. step \notin {"off"} \cup Alive \cup Unnamed \cup Named
    BY DEF Ended, Alive, Working, Verifying, Unnamed, Named
  <1>4. \A dir : Fits(runs'[r], dir) BY <1>2, <1>3 DEF Fits, Unnamed, Named, Alive, Working, Verifying
  <1> QED BY <1>2, <1>3, <1>4 DEF Stage, Alive, Working, Verifying, Unnamed, Named

\* What a run remembers beside its step.
Same(p, q) == p.begun = q.begun /\ p.attempted = q.attempted /\ p.passed = q.passed /\ p.removing = q.removing

LEMMA ItsDirectory ==
    ASSUME Types, NEW r \in Runs, Stage(r), runs[r].step \in Unnamed \cup Named
    PROVE  \E dir \in Contents : dirs[r] = {dir} /\ Fits(runs[r], dir)
  BY DEF Types, Stage, Directories

LEMMA Changed ==
    ASSUME Types, NEW r \in Runs, NEW dir, Changes(r, dir)
    PROVE  dirs'[r] = {dir} /\ \A d \in Directories \ {r} : dirs'[d] = dirs[d]
  BY DEF Types, Changes, Directories

LEMMA Went ==
    ASSUME Types, NEW r \in Runs, NEW step, Goes(r, step)
    PROVE  runs'[r].step = step /\ Same(runs'[r], runs[r])
  <1>1. runs'[r] = [runs[r] EXCEPT !.step = step] /\ runs[r] \in Run BY DEF Types, Goes
  <1> QED BY <1>1 DEF Same, Run

\* A step that goes on, with one directory that fits.
LEMMA StageGoesOn ==
    ASSUME Types, NEW r \in Runs, Stage(r), runs[r].step \in Working, UNCHANGED day,
           Same(runs'[r], runs[r]), runs'[r].step \in Working \ {"prepare"},
           runs[r].removing = {}, ~runs[r].attempted,
           NEW dir, dirs'[r] = {dir}, Fits(runs'[r], dir),
           runs[r].passed => runs'[r].step \in {"cleanup", "publish"} \cup Named,
           runs'[r].step = "publish" => runs[r].passed,
           runs'[r].step = "rotate" => lastSuccess' = {r}
    PROVE  Stage(r)'
  BY DEF Stage, Same, Alive, Working, Verifying, Unnamed, Named

\* The steps of the run before the verification.
LEMMA MakingStage ==
    ASSUME BackupInv, NEW r \in Runs,
           Prepare(r) \/ Dump(r) \/ List(r) \/ Read(r) \/ Archived(r) \/ Seal(r)
    PROVE  Stage(r)'
  <1> USE DEF Environment, Step
  <1>0. Types /\ Stage(r) /\ day \in Nat BY DEF BackupInv, Types
  <1>1. /\ runs[r] \in Run /\ UNCHANGED day
        /\ runs[r].step \in {"prepare", "dump", "list", "archive", "seal"}
    BY <1>0 DEF Types, Prepare, Dump, List, Read, Archived, Seal
  <1>2. /\ runs[r].step \in Working /\ ~runs[r].attempted /\ ~runs[r].passed
        /\ runs[r].removing = {} /\ runs[r].begun <= day
    BY <1>0, <1>1 DEF Stage, Named, Alive, Working
  <1>3. CASE Prepare(r)
    <2>1. runs'[r].step = "dump" /\ Same(runs'[r], runs[r]) BY <1>0, <1>3, Went DEF Prepare
    <2>2. dirs'[r] = {Directory("partial", day)} BY <1>0, <1>3, Changed DEF Prepare
    <2>3. Fits(runs'[r], Directory("partial", day))
      BY <1>2, <2>1 DEF Fits, Directory, Same, Named
    <2> QED BY <1>0, <1>1, <1>2, <2>1, <2>2, <2>3, StageGoesOn DEF Working
  <1>4. CASE ~Prepare(r)
    <2>1. runs[r].step \in Unnamed BY <1>4 DEF Dump, List, Read, Archived, Seal, Unnamed
    <2>2. PICK dir \in Contents : dirs[r] = {dir} /\ Fits(runs[r], dir)
      BY <1>0, <2>1, ItsDirectory
    <2>3. /\ runs'[r].step \in {"list", "archive", "seal", "sums"} /\ Same(runs'[r], runs[r])
      <3>1. CASE Dump(r) \/ Seal(r) BY <1>0, <3>1, Went DEF Dump, Seal
      <3>2. CASE Read(r) BY <3>2 DEF Read, Same
      <3>3. CASE List(r) BY <1>0, <1>1, <3>3 DEF List, Same, Types, Run
      <3>4. CASE Archived(r) BY <1>0, <1>1, <3>4 DEF Archived, Same, Types, Run
      <3> QED BY <1>4, <3>1, <3>2, <3>3, <3>4
    <2>4. \E new : /\ dirs'[r] = {new} /\ new.kind = dir.kind /\ new.whole = dir.whole
                   /\ runs[r].begun <= new.touched
      <3>0. runs[r].begun <= dir.touched BY <2>1, <2>2 DEF Fits
      <3>1. CASE Dump(r)
        <4>1. Changes(r, [dir EXCEPT !.rows = Live]) BY <2>2, <3>1 DEF Dump
        <4> QED BY <1>0, <3>0, <4>1, Changed DEF Contents
      <3>2. CASE List(r) \/ Archived(r) BY <2>2, <3>0, <3>2 DEF List, Archived
      <3>3. CASE Read(r)
        <4>1. PICK f : Changes(r, [dir EXCEPT !.files = @ \cup {f}]) BY <2>2, <3>3 DEF Read
        <4> QED BY <1>0, <3>0, <4>1, Changed DEF Contents
      <3>4. CASE Seal(r)
        <4>1. Changes(r, [dir EXCEPT !.touched = day]) BY <2>2, <3>4 DEF Seal
        <4> QED BY <1>0, <1>2, <4>1, Changed DEF Contents
      <3> QED BY <1>4, <3>1, <3>2, <3>3, <3>4
    <2>5. PICK new : /\ dirs'[r] = {new} /\ new.kind = dir.kind /\ new.whole = dir.whole
                     /\ runs[r].begun <= new.touched
      BY <2>4
    <2>6. Fits(runs'[r], new)
      BY <1>2, <2>1, <2>2, <2>3, <2>5 DEF Fits, Same, Named
    <2> QED BY <1>0, <1>1, <1>2, <2>3, <2>5, <2>6, StageGoesOn DEF Working, Verifying
  <1> QED BY <1>3, <1>4

\* The steps of the verification, those that fail included, and damage at any time.
LEMMA VerifyingStage ==
    ASSUME BackupInv, NEW r \in Runs,
           \/ CheckSums(r) \/ CreateContainer(r) \/ Restore(r) \/ Compare(r)
           \/ CreateTimesOut(r)
           \/ StepFails(r) /\ runs[r].step \in Verifying
    PROVE  Stage(r)'
  <1> USE DEF Environment, Step, Verifying
  <1>0. Types /\ Stage(r) /\ runs[r] \in Run BY DEF BackupInv, Types
  <1>1. /\ runs[r].step \in {"sums", "create", "restore", "compare"}
        /\ UNCHANGED <<day, dirs>>
    BY DEF CheckSums, CreateContainer, Restore, Compare, CreateTimesOut, StepFails, Working
  <1>2. PICK dir \in Contents : dirs[r] = {dir} /\ Fits(runs[r], dir)
    BY <1>0, <1>1, ItsDirectory DEF Unnamed
  <1>3. ~runs[r].passed /\ runs[r].removing = {} BY <1>0, <1>1 DEF Stage, Named
  <1>4. /\ runs'[r].begun = runs[r].begun /\ runs'[r].removing = {}
        /\ runs'[r].step \in {"create", "restore", "compare", "cleanup"}
        /\ runs'[r].step = "create" => Intact(dir) /\ ~runs'[r].attempted
        /\ runs'[r].step \in {"restore", "compare"} => runs[r].step \in {"create", "restore"}
        /\ runs'[r].passed => /\ runs'[r].step = "cleanup" /\ runs[r].step = "compare"
                              /\ Complete(dir)
    <2>1. CASE CheckSums(r)
      <3>1. CASE dir.damaged = {}
        <4>1. Goes(r, "create") BY <1>2, <2>1, <3>1 DEF CheckSums
        <4>2. runs'[r].step = "create" /\ Same(runs'[r], runs[r]) BY <1>0, <4>1, Went
        <4>3. ~runs[r].attempted BY <1>0, <2>1 DEF Stage, CheckSums
        <4> QED BY <1>3, <3>1, <4>2, <4>3 DEF Same, Intact
      <3>2. CASE dir.damaged # {}
        <4>1. Verdict(r, FALSE) BY <1>2, <2>1, <3>2 DEF CheckSums
        <4> QED BY <1>0, <1>3, <4>1 DEF Verdict, Types, Run
      <3> QED BY <3>1, <3>2
    <2>2. CASE CreateContainer(r) \/ CreateTimesOut(r)
      <3>1. PICK step \in {"restore", "cleanup"} :
              runs' = [runs EXCEPT ![r].step = step, ![r].attempted = TRUE]
        BY <2>2 DEF CreateContainer, CreateTimesOut
      <3>2. runs[r].step = "create" BY <2>2 DEF CreateContainer, CreateTimesOut
      <3> QED BY <1>0, <1>3, <3>1, <3>2 DEF Types, Run
    <2>3. CASE Restore(r)
      <3>1. runs'[r].step = "compare" /\ Same(runs'[r], runs[r]) BY <1>0, <2>3, Went DEF Restore
      <3> QED BY <1>3, <2>3, <3>1 DEF Same, Restore
    <2>4. CASE Compare(r)
      <3>1. Verdict(r, dir.rows \subseteq dir.files) BY <1>2, <2>4 DEF Compare
      <3> QED BY <1>0, <1>3, <2>4, <3>1 DEF Compare, Complete, Verdict, Types, Run
    <2>5. CASE StepFails(r)
      <3>1. Verdict(r, FALSE) BY <1>1, <2>5 DEF StepFails
      <3> QED BY <1>0, <1>3, <3>1 DEF Verdict, Types, Run
    <2> QED BY <2>1, <2>2, <2>3, <2>4, <2>5
  <1>5. Fits(runs'[r], dir)
    BY <1>1, <1>2, <1>4 DEF Fits, Unnamed, Named
  <1> QED BY <1>0, <1>1, <1>2, <1>3, <1>4, <1>5 DEF Stage, Alive, Working, Unnamed, Named

LEMMA DamagedStage == ASSUME BackupInv, NEW r \in Runs, Damage(r) PROVE Stage(r)'
  <1>0. Types /\ Stage(r) BY DEF BackupInv
  <1>1. /\ runs[r].step \in Unnamed /\ UNCHANGED <<runs, day, lastSuccess>>
        /\ runs[r].step \in {"list", "archive", "seal"} => ~runs[r].passed
    BY <1>0 DEF Damage, Environment, Unnamed, Stage, Named
  <1>2. PICK dir \in Contents : dirs[r] = {dir} /\ Fits(runs[r], dir) BY <1>0, <1>1, ItsDirectory
  <1> DEFINE new == [dir EXCEPT !.damaged = @ \cup {runs[r].step}]
  <1>3. Changes(r, new) BY <1>2 DEF Damage
  <1>4. dirs'[r] = {new} /\ \A d \in Directories \ {r} : dirs'[d] = dirs[d]
    BY <1>0, <1>3, Changed
  <1>5. /\ new.kind = dir.kind /\ new.whole = dir.whole /\ new.touched = dir.touched
        /\ Complete(dir) => Complete(new)
        /\ Intact(dir) /\ runs[r].step \notin {"list", "archive", "seal"} => Intact(new)
    BY <1>2 DEF Contents, Complete, Intact, Sealed
  <1> HIDE DEF new
  <1>6. Fits(runs'[r], new) BY <1>1, <1>2, <1>5 DEF Fits
  <1>7. \A d \in runs[r].removing : FALSE BY <1>0, <1>1 DEF Stage, Unnamed, Verifying
  <1> QED BY <1>0, <1>1, <1>4, <1>6, <1>7 DEF Stage, Unnamed, Verifying

LEMMA CleanedStage == ASSUME BackupInv, NEW r \in Runs, Cleanup(r), runs[r].passed PROVE Stage(r)'
  <1>0. Types /\ Stage(r) /\ runs[r] \in Run BY DEF BackupInv, Types
  <1>1. runs[r].step = "cleanup" /\ UNCHANGED <<day, dirs>> BY DEF Cleanup, Environment
  <1>2. PICK dir \in Contents : dirs[r] = {dir} /\ Fits(runs[r], dir)
    BY <1>0, <1>1, ItsDirectory DEF Unnamed, Verifying
  <1>3. /\ runs'[r].step = "publish" /\ runs'[r].passed /\ ~runs'[r].attempted
        /\ runs'[r].begun = runs[r].begun /\ runs'[r].removing = runs[r].removing
    BY <1>0 DEF Cleanup, Types, Run
  <1>4. runs[r].removing = {} BY <1>0, <1>1 DEF Stage
  <1>5. Fits(runs'[r], dir)
    BY <1>1, <1>2, <1>3 DEF Fits, Unnamed, Named, Verifying
  <1> QED BY <1>0, <1>1, <1>2, <1>3, <1>4, <1>5
          DEF Stage, Alive, Working, Verifying, Unnamed, Named

LEMMA PublishedStage ==
    ASSUME BackupInv, NEW r \in Runs, Publish(r) \/ Record(r)
    PROVE  Stage(r)'
  <1> USE DEF Environment, Step
  <1>0. Types /\ Stage(r) /\ runs[r] \in Run BY DEF BackupInv, Types
  <1>1. /\ runs[r].step \in {"publish", "record"} /\ UNCHANGED day
        /\ runs'[r].step = IF runs[r].step = "publish" THEN "record" ELSE "rotate"
        /\ Same(runs'[r], runs[r])
    BY <1>0, Went DEF Publish, Record
  <1>2. PICK dir \in Contents : dirs[r] = {dir} /\ Fits(runs[r], dir)
    BY <1>0, <1>1, ItsDirectory DEF Unnamed, Named
  <1>3. ~runs[r].attempted /\ runs[r].removing = {} BY <1>0, <1>1 DEF Stage
  <1>4. \E new : dirs'[r] = {new} /\ Fits(runs'[r], new)
    <2>1. CASE Publish(r)
      <3>1. Changes(r, [dir EXCEPT !.kind = "rent"]) BY <1>2, <2>1 DEF Publish
      <3>2. PICK new : new = [dir EXCEPT !.kind = "rent"] OBVIOUS
      <3>3. dirs'[r] = {new} BY <1>0, <3>1, <3>2, Changed
      <3>4. /\ new.kind = "rent" /\ new.whole = dir.whole /\ new.touched = dir.touched
            /\ Complete(dir) => Complete(new)
            /\ Intact(dir) => Intact(new)
        BY <3>2 DEF Contents, Complete, Intact
      <3>5. runs[r].step = "publish" BY <2>1 DEF Publish
      <3> QED BY <1>1, <1>2, <3>3, <3>4, <3>5 DEF Fits, Same, Unnamed, Named, Verifying
    <2>2. CASE Record(r)
      <3>1. runs[r].step = "record" /\ dirs' = dirs BY <2>2 DEF Record
      <3> QED BY <1>1, <1>2, <3>1 DEF Fits, Same, Unnamed, Named, Verifying
    <2> QED BY <2>1, <2>2
  <1>5. PICK new : dirs'[r] = {new} /\ Fits(runs'[r], new) BY <1>4
  <1>6. runs'[r].step = "rotate" => lastSuccess' = {r} BY <1>1 DEF Publish, Record
  <1> QED BY <1>0, <1>1, <1>3, <1>5, <1>6, StageGoesOn DEF Working, Named

\* A run never finds its own backup too old: it was made yesterday at the earliest.
LEMMA OwnIsNew ==
    ASSUME BoundsAssumption, BackupInv, NEW r \in Runs, runs[r].step = "rotate"
    PROVE  /\ ~Expired(r)
           /\ \E dir \in dirs[r] : dir.kind = "rent" /\ dir.whole
  <1>0. Types /\ Stage(r) /\ runs[r] \in Run /\ day \in Nat BY DEF BackupInv, Types
  <1>1. PICK dir \in Contents : dirs[r] = {dir} /\ Fits(runs[r], dir)
    BY <1>0, ItsDirectory DEF Unnamed, Named
  <1>2. runs[r].begun <= dir.touched /\ dir.whole /\ dir.kind = "rent"
    BY <1>1 DEF Fits, Named
  <1>3. day <= runs[r].begun + 1 BY <1>0 DEF Stage, Alive, Working
  <1>4. dir.touched \in Int /\ runs[r].begun \in Nat BY <1>0 DEF Contents, Run
  <1>5. KeepDays >= 1 BY DEF BoundsAssumption
  <1>6. KeepDays \in Nat BY DEF BoundsAssumption
  <1>7. ~(day - dir.touched > KeepDays) BY <1>0, <1>2, <1>3, <1>4, <1>5, <1>6
  <1> QED BY <1>1, <1>2, <1>7 DEF Expired

\* What the rotation does: it rewrites or removes an old verified backup of another run.
LEMMA RotationStep ==
    ASSUME BoundsAssumption, BackupInv, NEW r \in Runs, RemoveSome(r) \/ RemoveRest(r)
    PROVE  \E d \in Directories :
             /\ d # r /\ \A dir \in dirs[d] : dir.kind = "rent"
             /\ \/ dirs' = [dirs EXCEPT ![d] = {}] /\ runs' = [runs EXCEPT ![r].removing = {}]
                \/ /\ runs' = [runs EXCEPT ![r].removing = {d}]
                   /\ \E dir \in dirs[d], new \in Contents :
                        /\ Changes(d, new)
                        /\ new.kind = "rent" /\ new.rows = dir.rows
                        /\ new.files = dir.files /\ new.damaged = dir.damaged
  <1>0. Types /\ Stage(r) /\ day \in Nat BY DEF BackupInv, Types
  <1>1. DOMAIN dirs = Directories BY <1>0 DEF Types
  <1>2. CASE RemoveSome(r)
    <2>1. PICK d \in Directories : \E dir \in dirs[d], marked \in BOOLEAN :
            /\ Expired(d)
            /\ Changes(d, [dir EXCEPT !.whole = FALSE, !.marked = marked, !.touched = day])
            /\ runs' = [runs EXCEPT ![r].removing = {d}]
      BY <1>1, <1>2 DEF RemoveSome
    <2>2. PICK dir \in dirs[d], marked \in BOOLEAN :
            /\ Expired(d)
            /\ Changes(d, [dir EXCEPT !.whole = FALSE, !.marked = marked, !.touched = day])
            /\ runs' = [runs EXCEPT ![r].removing = {d}]
      BY <2>1
    <2>3. dir \in Contents /\ dirs[d] = {dir} BY <1>0, ContentsOf
    <2>4. dir.kind = "rent" BY <2>2, <2>3 DEF Expired
    <2>5. d # r BY <1>2, <2>2, OwnIsNew DEF RemoveSome
    <2>6. PICK new : new = [dir EXCEPT !.whole = FALSE, !.marked = marked, !.touched = day]
      OBVIOUS
    <2>7. /\ new \in Contents /\ new.kind = "rent" /\ new.rows = dir.rows
          /\ new.files = dir.files /\ new.damaged = dir.damaged
      <3>1. day \in Int BY <1>0
      <3> QED BY <2>3, <2>4, <2>6, <3>1 DEF Contents
    <2> QED BY <2>2, <2>3, <2>4, <2>5, <2>6, <2>7
  <1>3. CASE RemoveRest(r)
    <2>1. PICK d \in runs[r].removing : dirs' = [dirs EXCEPT ![d] = {}] BY <1>3 DEF RemoveRest
    <2>2. d \in Directories BY <1>0 DEF Types, Run
    <2> QED BY <1>0, <1>3, <2>1, <2>2 DEF RemoveRest, Stage
  <1> QED BY <1>2, <1>3

LEMMA RotatingStage ==
    ASSUME BoundsAssumption, BackupInv, NEW r \in Runs, RemoveSome(r) \/ RemoveRest(r)
    PROVE  Stage(r)'
  <1>0. Types /\ Stage(r) /\ runs[r] \in Run BY DEF BackupInv, Types
  <1>1. runs[r].step = "rotate" /\ UNCHANGED <<day, lastSuccess>>
    BY DEF RemoveSome, RemoveRest, Environment
  <1>2. PICK d \in Directories :
             /\ d # r /\ \A dir \in dirs[d] : dir.kind = "rent"
             /\ \/ dirs' = [dirs EXCEPT ![d] = {}] /\ runs' = [runs EXCEPT ![r].removing = {}]
                \/ /\ runs' = [runs EXCEPT ![r].removing = {d}]
                   /\ \E dir \in dirs[d], new \in Contents :
                        /\ Changes(d, new)
                        /\ new.kind = "rent" /\ new.rows = dir.rows
                        /\ new.files = dir.files /\ new.damaged = dir.damaged
    BY RotationStep
  <1>3. /\ \A x \in dirs'[d] : x.kind = "rent"
        /\ dirs'[r] = dirs[r]
    BY <1>0, <1>2 DEF Changes, Types, Directories
  <1>4. PICK some : runs' = [runs EXCEPT ![r].removing = some] /\ some \subseteq {d} BY <1>2
  <1>5. /\ runs'[r].step = "rotate" /\ runs'[r].begun = runs[r].begun
        /\ runs'[r].passed = runs[r].passed /\ runs'[r].attempted = runs[r].attempted
        /\ runs'[r].removing \subseteq {d}
    BY <1>0, <1>1, <1>4 DEF Types, Run
  <1>6. \A dir \in dirs[r] : Fits(runs[r], dir) => Fits(runs'[r], dir) BY <1>1, <1>5 DEF Fits
  <1> QED BY <1>0, <1>1, <1>2, <1>3, <1>5, <1>6 DEF Stage, Alive, Working, Unnamed, Named, Verifying

LEMMA TerminatedStage == ASSUME BackupInv, NEW r \in Runs, Terminate(r) PROVE Stage(r)'
  <1>0. Types /\ Stage(r) BY DEF BackupInv
  <1>1. runs'[r].step = "stopping" /\ Same(runs'[r], runs[r]) BY <1>0, Went DEF Terminate
  <1>2. UNCHANGED <<day, dirs>> /\ runs[r].step \in Alive BY DEF Terminate, Environment, Alive
  <1>3. \A dir : Fits(runs[r], dir) => Fits(runs'[r], dir)
    BY <1>1 DEF Fits, Same, Unnamed, Named, Verifying
  <1> QED BY <1>0, <1>1, <1>2, <1>3 DEF Stage, Same, Unnamed, Named, Verifying, Alive, Working

LEMMA StageOfRun ==
    ASSUME BoundsAssumption, BackupInv, NEW r \in Runs, RunMoves(r)
    PROVE  Stage(r)'
  <1>0. Types BY DEF BackupInv
  <1>1. CASE \E step \in Ended : Exits(r, step) BY <1>0, <1>1, EndedStage
  <1>2. CASE \A step \in Ended : ~Exits(r, step)
    <2>1. CASE Cleanup(r) BY <1>2, <2>1, CleanedStage DEF Cleanup, Ended
    <2>2. CASE StepFails(r) BY <1>2, <2>2, VerifyingStage DEF StepFails, Ended
    <2>3. ~(Rotated(r) \/ VerificationKilled(r) \/ Killed(r) \/ Stopped(r))
      BY <1>2 DEF Rotated, VerificationKilled, Killed, Stopped, Ended
    <2> QED BY <2>1, <2>2, <2>3, MakingStage, VerifyingStage, DamagedStage, PublishedStage,
               RotatingStage, TerminatedStage DEF RunMoves, Works, Fails, Supervised
  <1> QED BY <1>1, <1>2

-----------------------------------------------------------------------------
(* The directories                                                         *)

Verified(dir) == Intact(dir) /\ Complete(dir)

\* A run fills its own directory, which has no formal name before it is verified.
Fills(r) ==
    /\ \A dir \in dirs[r] : dir.kind = "partial"
    /\ \E new \in Contents : Changes(r, new) /\ (new.kind = "partial" \/ Verified(new))
    /\ UNCHANGED lastSuccess

\* The rotation of r rewrites or removes the old verified backup d, and has its own.
Rotates(r, d) ==
    /\ d # r /\ \A dir \in dirs[d] : dir.kind = "rent"
    /\ \E dir \in dirs[r] : dir.kind = "rent" /\ dir.whole
    /\ lastSuccess = {r} /\ UNCHANGED lastSuccess
    /\ \/ dirs' = [dirs EXCEPT ![d] = {}]
       \/ \E dir \in dirs[d], new \in Contents :
            /\ Changes(d, new) /\ new.kind = "rent"
            /\ Verified(dir) => Verified(new)

\* Directories stay as they are; the last success may be recorded, or its record lost.
Stay ==
    /\ UNCHANGED dirs
    /\ lastSuccess' \subseteq lastSuccess \cup
         {r \in Runs : \E dir \in dirs[r] : dir.kind = "rent" /\ dir.whole}

LEMMA RunDirectories ==
    ASSUME BoundsAssumption, BackupInv, Types', NEW r \in Runs, RunMoves(r)
    PROVE  Stay \/ Fills(r) \/ \E d \in Directories : Rotates(r, d)
  <1> USE DEF Environment, Step
  <1>0. Types /\ r \in Directories /\ Stage(r) BY DEF Directories, BackupInv
  <1>1. CASE \/ List(r) \/ Archived(r) \/ CheckSums(r) \/ CreateContainer(r) \/ Restore(r)
             \/ Compare(r) \/ Cleanup(r) \/ Rotated(r) \/ CreateTimesOut(r)
             \/ VerificationKilled(r) \/ Supervised(r) \/ Stopped(r)
    BY <1>1 DEF Stay, List, Archived, CheckSums, CreateContainer, Restore, Compare, Cleanup,
                Rotated, CreateTimesOut, VerificationKilled, Supervised, Terminate, Killed, Stopped
  <1>2. CASE StepFails(r) BY <1>2 DEF Stay, StepFails
  <1>3. CASE Record(r)
    <2>1. runs[r].step = "record" BY <1>3 DEF Record
    <2>2. \E dir \in dirs[r] : dir.kind = "rent" /\ dir.whole
      <3>1. PICK dir \in Contents : dirs[r] = {dir} /\ Fits(runs[r], dir)
        BY <1>0, <2>1, ItsDirectory DEF Named
      <3> QED BY <2>1, <3>1 DEF Fits, Named
    <2> QED BY <1>3, <2>2 DEF Stay, Record
  <1>4. CASE Prepare(r)
    <2>1. dirs[r] = {} BY <1>0, <1>4 DEF Prepare, Stage
    <2>2. Directory("partial", day) \in Contents BY <1>0, DirectoryIs DEF Types
    <2>3. Directory("partial", day).kind = "partial" BY DEF Directory
    <2> QED BY <1>4, <2>1, <2>2, <2>3 DEF Fills, Prepare
  <1>5. CASE Dump(r) \/ Read(r) \/ Seal(r) \/ Damage(r) \/ Publish(r)
    <2>1. runs[r].step \in Unnamed
      BY <1>5 DEF Dump, Read, Seal, Damage, Publish, Unnamed
    <2>2. PICK dir \in Contents : dirs[r] = {dir} /\ Fits(runs[r], dir)
      BY <1>0, <2>1, ItsDirectory
    <2>3. dir.kind = "partial" BY <2>1, <2>2 DEF Fits
    <2>4. \E new : Changes(r, new) /\ (new.kind = "partial" \/ Verified(new))
      <3>1. CASE Dump(r)
        <4>1. Changes(r, [dir EXCEPT !.rows = Live]) BY <2>2, <3>1 DEF Dump
        <4> QED BY <2>3, <4>1 DEF Contents
      <3>2. CASE Read(r)
        <4>1. PICK f : Changes(r, [dir EXCEPT !.files = @ \cup {f}]) BY <2>2, <3>2 DEF Read
        <4> QED BY <2>3, <4>1 DEF Contents
      <3>3. CASE Seal(r)
        <4>1. Changes(r, [dir EXCEPT !.touched = day]) BY <2>2, <3>3 DEF Seal
        <4> QED BY <2>3, <4>1 DEF Contents
      <3>4. CASE Damage(r)
        <4>1. Changes(r, [dir EXCEPT !.damaged = @ \cup {runs[r].step}])
          BY <2>2, <3>4 DEF Damage
        <4> QED BY <2>3, <4>1 DEF Contents
      <3>5. CASE Publish(r)
        <4>1. Changes(r, [dir EXCEPT !.kind = "rent"]) BY <2>2, <3>5 DEF Publish
        <4>2. Verified(dir) BY <1>0, <2>2, <3>5 DEF Fits, Stage, Publish, Verified
        <4>3. Verified([dir EXCEPT !.kind = "rent"])
          BY <4>2 DEF Contents, Verified, Intact, Complete
        <4> QED BY <4>1, <4>3
      <3> QED BY <1>5, <3>1, <3>2, <3>3, <3>4, <3>5
    <2>5. PICK new : Changes(r, new) /\ (new.kind = "partial" \/ Verified(new)) BY <2>4
    <2>6. new \in Contents BY <1>0, <2>5, Changed DEF Types
    <2>7. UNCHANGED lastSuccess BY <1>5 DEF Dump, Read, Seal, Damage, Publish
    <2> QED BY <2>2, <2>3, <2>5, <2>6, <2>7 DEF Fills
  <1>6. CASE RemoveSome(r) \/ RemoveRest(r)
    <2>1. runs[r].step = "rotate" /\ UNCHANGED lastSuccess BY <1>6 DEF RemoveSome, RemoveRest
    <2>2. lastSuccess = {r} BY <1>0, <2>1 DEF Stage
    <2>3. \E dir \in dirs[r] : dir.kind = "rent" /\ dir.whole BY <2>1, OwnIsNew
    <2>4. \A dir, new : new.rows = dir.rows /\ new.files = dir.files /\ new.damaged = dir.damaged
                           => (Verified(dir) => Verified(new))
      BY DEF Verified, Intact, Complete
    <2> QED BY <1>6, <2>1, <2>2, <2>3, <2>4, RotationStep DEF Rotates
  <1> QED BY <1>1, <1>2, <1>3, <1>4, <1>5, <1>6 DEF RunMoves, Works, Fails

LEMMA DirectorySteps ==
    ASSUME BoundsAssumption, BackupInv, Types', [Next]_vars
    PROVE  \/ Stay
           \/ \E r \in Runs : Fills(r)
           \/ \E r \in Runs, d \in Directories : Rotates(r, d)
  <1>1. CASE UNCHANGED vars \/ Application \/ DayPasses \/ Start \/ ContainerComesLate
    BY <1>1 DEF Stay, vars, Application, DayPasses, Start, ContainerComesLate
  <1>2. ASSUME NEW r \in Runs, LeftVerificationEnds(r) PROVE Stay
    BY <1>2 DEF Stay, LeftVerificationEnds
  <1> QED BY <1>1, <1>2, RunDirectories DEF Next, RunMoves

LEMMA StagesKept ==
    ASSUME BoundsAssumption, BackupInv, Types', [Next]_vars, NEW q \in Runs
    PROVE  Stage(q)'
  <1>0. Types /\ Stage(q) /\ runs[q] \in Run /\ day \in Nat BY DEF BackupInv, Types
  <1>1. CASE UNCHANGED <<runs, dirs, day, lastSuccess>> BY <1>0, <1>1 DEF Stage
  <1>2. CASE DayPasses
    <2>1. /\ UNCHANGED <<runs, dirs, lastSuccess>> /\ day' = day + 1
          /\ runs[q].step \in Alive => runs[q].begun = day
      BY <1>2 DEF DayPasses
    <2> QED BY <1>0, <2>1 DEF Stage
  <1>3. CASE Start
    <2>1. PICK r \in Runs : /\ runs[r].step = "off"
                            /\ Begins(r) \/ Goes(r, "refused")
                            /\ UNCHANGED <<dirs, day, lastSuccess>>
      BY <1>3 DEF Start, Environment
    <2>2. CASE q = r
      <3>1. /\ runs'[q].step \in {"prepare", "refused"}
            /\ runs'[q].step = "prepare" => runs'[q].begun = day
            /\ runs'[q].attempted = runs[q].attempted /\ runs'[q].passed = runs[q].passed
            /\ runs'[q].removing = runs[q].removing
        BY <1>0, <2>1, <2>2 DEF Begins, Goes, Types, Run
      <3>2. dirs[q] = {} /\ ~runs[q].attempted /\ ~runs[q].passed /\ runs[q].removing = {}
        BY <1>0, <2>1, <2>2 DEF Stage, Named
      <3> QED BY <1>0, <2>1, <3>1, <3>2
              DEF Stage, Alive, Working, Verifying, Unnamed, Named
    <2>3. CASE q # r
      <3>1. runs'[q] = runs[q] BY <1>0, <2>1, <2>3 DEF Begins, Goes, Types
      <3> QED BY <1>0, <2>1, <3>1 DEF Stage
    <2> QED BY <2>2, <2>3
  <1>4. ASSUME NEW r \in Runs, RunMoves(r) PROVE Stage(q)'
    <2>1. CASE q = r BY <1>4, <2>1, StageOfRun
    <2>2. CASE q # r
      <3>1. runs'[q] = runs[q] /\ runs[q].step \notin Alive
        BY <1>0, <1>4, <2>2, OneMoves DEF BackupInv, LockInv
      <3>2. /\ ~runs[q].attempted /\ ~runs[q].passed /\ runs[q].removing = {}
            /\ runs[q].step \notin Unnamed \cup Named \cup {"prepare"}
        BY <1>0, <3>1 DEF Stage, Unnamed, Named, Alive, Working, Verifying
      <3>3. dirs[q] = {} => dirs'[q] = {}
        BY <1>0, <1>4, <2>2, RunDirectories
           DEF Stay, Fills, Rotates, Changes, Types, Directories
      <3>4. \A dir : Fits(runs'[q], dir)
        BY <3>1, <3>2 DEF Fits, Unnamed, Verifying
      <3> QED BY <1>0, <3>1, <3>2, <3>3, <3>4 DEF Stage, Named
    <2> QED BY <2>1, <2>2
  <1> QED BY <1>1, <1>2, <1>3, <1>4
          DEF Next, RunMoves, vars, Application, ContainerComesLate, LeftVerificationEnds, Environment

-----------------------------------------------------------------------------
(* Formal backups                                                          *)

LEMMA FormalKept ==
    ASSUME BoundsAssumption, BackupInv, Types', [Next]_vars
    PROVE  FormalIsVerified'
  <1>1. FormalIsVerified <=> \A r \in Runs : \A dir \in dirs[r] : dir.kind = "rent" => Verified(dir)
    BY DEF FormalIsVerified, Verified, Intact, Complete, Sealed
  <1>2. FormalIsVerified' <=> \A r \in Runs : \A dir \in dirs'[r] : dir.kind = "rent" => Verified(dir)
    BY DEF FormalIsVerified, Verified, Intact, Complete, Sealed
  <1>3. Types /\ FormalIsVerified BY DEF BackupInv
  <1>4. SUFFICES ASSUME NEW r \in Runs, NEW dir \in dirs'[r], dir.kind = "rent"
                 PROVE  Verified(dir)
    BY <1>2
  <1>5. CASE dir \in dirs[r] BY <1>1, <1>3, <1>4, <1>5
  <1>6. CASE dir \notin dirs[r]
    <2>1. CASE Stay BY <1>6, <2>1 DEF Stay
    <2>2. ASSUME NEW q \in Runs, Fills(q) PROVE Verified(dir)
      <3>1. PICK new \in Contents : Changes(q, new) /\ (new.kind = "partial" \/ Verified(new))
        BY <2>2 DEF Fills
      <3> QED BY <1>3, <1>4, <1>6, <3>1 DEF Changes, Types, Directories
    <2>3. ASSUME NEW q \in Runs, NEW d \in Directories, Rotates(q, d) PROVE Verified(dir)
      <3>1. dirs' # [dirs EXCEPT ![d] = {}]
        BY <1>3, <1>6 DEF Types, Directories
      <3>2. PICK old \in dirs[d], new \in Contents :
              Changes(d, new) /\ new.kind = "rent" /\ (Verified(old) => Verified(new))
        BY <2>3, <3>1 DEF Rotates
      <3>3. d = r /\ dir = new BY <1>3, <1>6, <3>2 DEF Changes, Types, Directories
      <3>4. old.kind = "rent" BY <2>3 DEF Rotates
      <3> QED BY <1>1, <1>3, <3>2, <3>3, <3>4
    <2> QED BY <2>1, <2>2, <2>3, DirectorySteps
  <1> QED BY <1>5, <1>6

LEMMA LastSuccessKept ==
    ASSUME BoundsAssumption, BackupInv, Types', [Next]_vars
    PROVE  LastSuccessIsThere'
  <1>0. Types /\ LastSuccessIsThere BY DEF BackupInv
  <1>1. SUFFICES ASSUME NEW r \in lastSuccess'
                 PROVE  \E dir \in dirs'[r] : dir.kind = "rent" /\ dir.whole
    BY DEF LastSuccessIsThere
  <1>2. CASE Stay BY <1>0, <1>2 DEF Stay, LastSuccessIsThere
  <1>3. ASSUME NEW q \in Runs, Fills(q)
        PROVE  \E dir \in dirs'[r] : dir.kind = "rent" /\ dir.whole
    <2>1. r \in lastSuccess BY <1>3 DEF Fills
    <2>2. PICK dir \in dirs[r] : dir.kind = "rent" /\ dir.whole
      BY <1>0, <2>1 DEF LastSuccessIsThere
    <2>3. q # r BY <1>3, <2>2 DEF Fills
    <2> QED BY <1>0, <1>3, <2>2, <2>3 DEF Fills, Changes, Types, Directories
  <1>4. ASSUME NEW q \in Runs, NEW d \in Directories, Rotates(q, d)
        PROVE  \E dir \in dirs'[r] : dir.kind = "rent" /\ dir.whole
    <2>1. r = q BY <1>4 DEF Rotates
    <2>2. dirs'[q] = dirs[q] BY <1>0, <1>4 DEF Rotates, Changes, Types, Directories
    <2> QED BY <1>4, <2>1, <2>2 DEF Rotates
  <1> QED BY <1>2, <1>3, <1>4, DirectorySteps

-----------------------------------------------------------------------------
(* Containers                                                              *)

\* What a run has asked for, it removes or reports before it ends.
LEMMA RemovedOrKnown ==
    ASSUME Types, LeftInv, NEW r \in Runs, runs[r].step \in Alive, RemoveContainer(r)
    PROVE  /\ containers' \subseteq containers /\ excused \subseteq excused'
           /\ r \in containers' => r \in excused'
  BY DEF LeftInv, RemoveContainer, Types

LEMMA LeftKept ==
    ASSUME BoundsAssumption, BackupInv, Types', [Next]_vars
    PROVE  LeftInv'
  <1> USE DEF Environment, Step
  <1>0. Types /\ LeftInv /\ LockInv /\ \A r \in Runs : Stage(r) BY DEF BackupInv
  <1>1. CASE UNCHANGED <<runs, containers, late, excused>> BY <1>1, <1>0 DEF LeftInv
  <1>2. CASE Start
    <2>1. PICK r \in Runs : /\ runs[r].step = "off"
                            /\ Begins(r) \/ Goes(r, "refused")
                            /\ UNCHANGED <<containers, late, excused>>
      BY <1>2 DEF Start
    <2>2. /\ r \notin late /\ (r \in containers => r \in excused)
      BY <1>0, <2>1 DEF LeftInv, Ended, Alive, Working, Verifying
    <2>3. \A q \in Runs \ {r} : runs'[q] = runs[q] BY <1>0, <2>1 DEF Begins, Goes, Types
    <2> QED BY <1>0, <2>1, <2>2, <2>3 DEF LeftInv, Types
  <1>3. CASE ContainerComesLate
    <2>1. PICK r \in late :
            /\ late' = late \ {r}
            /\ containers' = containers \cup {r}
            /\ excused' = IF runs[r].step \in Alive THEN excused ELSE excused \cup {r}
            /\ UNCHANGED runs
      BY <1>3 DEF ContainerComesLate
    <2>2. runs[r].step \in Alive => runs[r].attempted
      BY <1>0 DEF LeftInv, Ended, Alive, Working, Verifying
    <2> QED BY <1>0, <2>1, <2>2 DEF LeftInv
  <1>4. ASSUME NEW r \in Runs, RunMoves(r) PROVE LeftInv'
    <2>0. /\ runs[r].step \in Alive /\ runs[r] \in Run /\ Stage(r)
          /\ \A q \in Runs \ {r} : runs'[q] = runs[q]
      BY <1>0, <1>4, OneMoves DEF Types
    <2>1. \* It is enough to look at the run that moves.
          ASSUME \A q \in containers' \ {r} : q \in containers,
                 \A q \in late' \ {r} : q \in late,
                 excused \subseteq excused',
                 r \in containers' => r \in excused' \/ (runs'[r].step \in Alive /\ runs'[r].attempted),
                 r \in late' => \/ runs'[r].step \in Ended
                                \/ /\ runs'[r].step \in {"cleanup", "stopping"}
                                   /\ runs'[r].attempted /\ ~runs'[r].passed
          PROVE  LeftInv'
      BY <1>0, <2>0, <2>1 DEF LeftInv, Types
    <2>2. ASSUME NEW step \in Ended, Exits(r, step), UNCHANGED late,
                 UNCHANGED containers \/ RemoveContainer(r), excused \subseteq excused',
                 RemoveContainer(r) \/ ~runs[r].attempted \/ r \in excused'
          PROVE  LeftInv'
      <3>1. runs'[r].step \in Ended BY <1>0, <2>2, ExitedIs
      <3>2. r \in containers' => r \in excused'
        BY <1>0, <2>0, <2>2, RemovedOrKnown DEF LeftInv
      <3>3. containers' \subseteq containers BY <1>0, <2>0, <2>2, RemovedOrKnown
      <3> QED BY <2>1, <2>2, <3>1, <3>2, <3>3
    <2>3. CASE Rotated(r) \/ (StepFails(r) /\ runs[r].step \notin Verifying)
      <3>1. ~runs[r].attempted
        BY <2>0, <2>3 DEF Rotated, StepFails, Stage, Working, Verifying
      <3>2. \E step \in Ended : Exits(r, step) BY <2>3 DEF Rotated, StepFails, Ended
      <3> QED BY <2>2, <2>3, <3>1, <3>2 DEF Rotated, StepFails
    <2>4. CASE VerificationKilled(r) \/ Killed(r)
      <3>1. \E step \in Ended : Exits(r, step) BY <2>4 DEF VerificationKilled, Killed, Ended
      <3>2. r \in excused' BY <2>4 DEF VerificationKilled, Killed
      <3> QED BY <2>2, <2>4, <3>1, <3>2 DEF VerificationKilled, Killed
    <2>5. CASE Stopped(r) \/ (Cleanup(r) /\ ~runs[r].passed)
      <3>1. \E step \in Ended : Exits(r, step) BY <2>5 DEF Stopped, Cleanup, Ended
      <3>2. RemoveContainer(r) /\ UNCHANGED late BY <2>5 DEF Stopped, Cleanup
      <3>3. excused \subseteq excused' BY <1>0, <2>0, <3>2, RemovedOrKnown
      <3> QED BY <2>2, <3>1, <3>2, <3>3
    <2>6. CASE Cleanup(r) /\ runs[r].passed
      <3>1. r \notin late BY <1>0, <2>0, <2>6 DEF LeftInv, Ended, Cleanup
      <3>2. RemoveContainer(r) /\ UNCHANGED late BY <2>6 DEF Cleanup
      <3> QED BY <1>0, <2>0, <2>1, <3>1, <3>2, RemovedOrKnown
    <2>7. CASE CreateContainer(r) \/ CreateTimesOut(r)
      <3>1. PICK step \in {"restore", "cleanup"} :
              /\ runs' = [runs EXCEPT ![r].step = step, ![r].attempted = TRUE]
              /\ late' = late \/ (step = "cleanup" /\ late' = late \cup {r})
        <4>1. CASE CreateContainer(r) BY <4>1 DEF CreateContainer
        <4>2. CASE CreateTimesOut(r) BY <4>2 DEF CreateTimesOut
        <4> QED BY <2>7, <4>1, <4>2
      <3>2. /\ runs[r].step = "create" /\ UNCHANGED excused
            /\ containers' \subseteq containers \cup {r}
        BY <2>7 DEF CreateContainer, CreateTimesOut
      <3>3. r \notin late BY <1>0, <3>2 DEF LeftInv, Ended
      <3>4. ~runs[r].passed BY <2>0, <3>2 DEF Stage, Named
      <3>5. runs'[r].step = step /\ runs'[r].attempted /\ runs'[r].passed = runs[r].passed
        BY <1>0, <2>0, <3>1 DEF Types, Run
      <3>6. step \in Alive BY DEF Alive, Working, Verifying
      <3> QED BY <2>1, <3>1, <3>2, <3>3, <3>4, <3>5, <3>6
    <2>8. CASE Terminate(r)
      <3>1. runs'[r].step = "stopping" /\ Same(runs'[r], runs[r])
        BY <1>0, <2>8, Went DEF Terminate
      <3>2. r \in late => runs[r].attempted /\ ~runs[r].passed
        BY <1>0, <2>0 DEF LeftInv, Alive, Working, Verifying, Ended
      <3> QED BY <1>0, <2>0, <2>1, <2>8, <3>1, <3>2 DEF Terminate, Same, Alive, LeftInv
    <2>9. CASE \/ Prepare(r) \/ Dump(r) \/ List(r) \/ Read(r) \/ Archived(r) \/ Seal(r)
               \/ CheckSums(r) \/ Restore(r) \/ Compare(r)
               \/ Publish(r) \/ Record(r) \/ RemoveSome(r) \/ RemoveRest(r) \/ Damage(r)
               \/ (StepFails(r) /\ runs[r].step \in Verifying)
      <3>1. UNCHANGED <<containers, late, excused>>
        BY <2>9 DEF Prepare, Dump, List, Read, Archived, Seal, CheckSums, Restore, Compare,
                    Publish, Record, RemoveSome, RemoveRest, Damage, StepFails
      <3>2. \/ UNCHANGED runs
            \/ /\ runs[r].step \notin {"cleanup", "stopping"}
               /\ runs'[r].step \in Alive /\ runs'[r].attempted = runs[r].attempted
        <4> USE DEF Alive, Working, Verifying
        <4>1. CASE Prepare(r) \/ Dump(r) \/ Seal(r) \/ Restore(r) \/ Publish(r) \/ Record(r)
          <5>1. PICK step \in Working : Goes(r, step)
            BY <4>1 DEF Prepare, Dump, Seal, Restore, Publish, Record
          <5> QED BY <1>0, <4>1, <5>1, Went
                  DEF Same, Prepare, Dump, Seal, Restore, Publish, Record
        <4>2. CASE List(r) \/ Archived(r)
          <5>1. PICK step \in Working, listed \in SUBSET Files :
                  runs' = [runs EXCEPT ![r].step = step, ![r].listed = listed]
            BY <4>2 DEF List, Archived, OnDisk
          <5>2. runs[r].step \in {"list", "archive"} BY <4>2 DEF List, Archived
          <5> QED BY <1>0, <2>0, <5>1, <5>2 DEF Types, Run
        <4>3. CASE CheckSums(r) \/ Compare(r) \/ (StepFails(r) /\ runs[r].step \in Verifying)
          <5>1. /\ runs[r].step \in Verifying \ {"cleanup"}
                /\ Goes(r, "create") \/ \E good : Verdict(r, good)
            BY <4>3 DEF CheckSums, Compare, StepFails
          <5>2. CASE Goes(r, "create") BY <1>0, <5>1, <5>2, Went DEF Same
          <5>3. CASE \E good : Verdict(r, good)
            <6>1. PICK good : runs' = [runs EXCEPT ![r].step = "cleanup", ![r].passed = good]
              BY <5>3 DEF Verdict
            <6> QED BY <1>0, <2>0, <5>1, <6>1 DEF Types, Run
          <5> QED BY <5>1, <5>2, <5>3
        <4>4. CASE RemoveSome(r) \/ RemoveRest(r)
          <5>1. PICK some : runs' = [runs EXCEPT ![r].removing = some]
            BY <4>4 DEF RemoveSome, RemoveRest
          <5>2. runs[r].step = "rotate" BY <4>4 DEF RemoveSome, RemoveRest
          <5> QED BY <1>0, <2>0, <5>1, <5>2 DEF Types, Run
        <4>5. CASE Read(r) \/ Damage(r) BY <4>5 DEF Read, Damage
        <4> QED BY <2>9, <4>1, <4>2, <4>3, <4>4, <4>5
      <3>3. r \in late => runs[r].step \in {"cleanup", "stopping"}
        BY <1>0, <2>0 DEF LeftInv, Alive, Working, Verifying, Ended
      <3> QED BY <1>0, <2>0, <2>1, <3>1, <3>2, <3>3 DEF LeftInv
    <2> QED BY <1>4, <2>3, <2>4, <2>5, <2>6, <2>7, <2>8, <2>9
            DEF RunMoves, Works, Fails, Supervised
  <1>5. ASSUME NEW r \in Runs, LeftVerificationEnds(r) PROVE LeftInv'
    BY <1>0, <1>5 DEF LeftInv, LeftVerificationEnds
  <1> QED BY <1>1, <1>2, <1>3, <1>4, <1>5
          DEF Next, RunMoves, vars, Application, DayPasses

-----------------------------------------------------------------------------
LEMMA InitBackup == BoundsAssumption /\ Init => BackupInv
  <1> SUFFICES ASSUME BoundsAssumption, Init PROVE BackupInv OBVIOUS
  <1>1. Types /\ LockInv BY InitTypes
  <1>2. \A r \in Runs : dirs[r] = {} /\ runs[r] = Idle
    BY DEF Init, Runs, Manual
  <1>3. \A r \in Runs : Stage(r)
    BY <1>2 DEF Stage, Idle, Fits, Unnamed, Named, Verifying, Alive, Working
  <1>4. LeftInv BY DEF Init, LeftInv
  <1>5. FormalIsVerified /\ LastSuccessIsThere
    BY <1>2 DEF Init, FormalIsVerified, LastSuccessIsThere
  <1> QED BY <1>1, <1>3, <1>4, <1>5 DEF BackupInv

LEMMA NextBackup == BoundsAssumption /\ BackupInv /\ [Next]_vars => BackupInv'
  <1> SUFFICES ASSUME BoundsAssumption, BackupInv, [Next]_vars PROVE BackupInv' OBVIOUS
  <1>1. Types' /\ LockInv' BY NextTypes, NextLocks DEF BackupInv
  <1>2. Runs' = Runs BY DEF Runs
  <1>3. \A r \in Runs : Stage(r)' BY <1>1, StagesKept
  <1>4. LeftInv' BY <1>1, LeftKept
  <1>5. FormalIsVerified' BY <1>1, FormalKept
  <1>6. LastSuccessIsThere' BY <1>1, LastSuccessKept
  <1> QED BY <1>1, <1>3, <1>4, <1>5, <1>6 DEF BackupInv

(***************************************************************************)
(* The inductive invariant: one run at work, the stage of each, containers *)
(* known, formal backups verified, the last success there.                 *)
(***************************************************************************)
THEOREM BackupsStaySound == BoundsAssumption /\ Spec => []BackupInv
<1>1. BoundsAssumption => BoundsAssumption' BY DEF BoundsAssumption
<1> QED BY <1>1, InitBackup, NextBackup, PTL DEF Spec

(***************************************************************************)
(* What has a formal name was sealed undamaged and holds every file that   *)
(* its database names, whatever is stored and removed meanwhile, and       *)
(* whichever step of whichever run fails or is killed.                     *)
(***************************************************************************)
THEOREM FormalAlwaysVerified == BoundsAssumption /\ Spec => []FormalIsVerified
<1>1. BackupInv => FormalIsVerified BY DEF BackupInv
<1> QED BY <1>1, BackupsStaySound, PTL

(* The backup that last-success.txt names is there and whole.              *)
THEOREM LastSuccessAlwaysThere == BoundsAssumption /\ Spec => []LastSuccessIsThere
<1>1. BackupInv => LastSuccessIsThere BY DEF BackupInv
<1> QED BY <1>1, BackupsStaySound, PTL

(* A container that no run at work will remove is one that was reported,   *)
(* came late or was left by a verification that was killed.                *)
THEOREM LeftoversAlwaysKnown == BoundsAssumption /\ Spec => []LeftoversAreKnown
<1>1. BackupInv => LeftoversAreKnown BY DEF BackupInv, LeftInv, LeftoversAreKnown
<1> QED BY <1>1, BackupsStaySound, PTL

(***************************************************************************)
(* What the invariant says of every state, and what a step may never do.   *)
(***************************************************************************)
LEMMA BackupTells ==
    ASSUME BackupInv
    PROVE  TypeOK /\ FormalIsVerified /\ OneAtATime /\ LeftoversAreKnown /\ LastSuccessIsThere
<1>1. \A d \in DOMAIN dirs : Cardinality(dirs[d]) <= 1
  <2> SUFFICES ASSUME NEW d \in Directories PROVE Cardinality(dirs[d]) <= 1
    BY DEF BackupInv, Types
  <2>0. dirs[d] = {} \/ \E dir \in Contents : dirs[d] = {dir} BY DEF BackupInv, Types
  <2>1. CASE dirs[d] = {}
    <3>1. Cardinality(dirs[d]) = 0 BY <2>1, FS_EmptySet
    <3> QED BY <3>1
  <2>2. CASE dirs[d] # {}
    <3>1. PICK dir : dirs[d] = {dir} BY <2>0, <2>2
    <3>2. Cardinality(dirs[d]) = 1 BY <3>1, FS_Singleton
    <3> QED BY <3>2
  <2> QED BY <2>1, <2>2
<1>2. TypeOK BY <1>1 DEF TypeOK, BackupInv, Types, Run, LockInv
<1>3. LeftoversAreKnown BY DEF BackupInv, LeftInv, LeftoversAreKnown
<1> QED BY <1>2, <1>3, LockIsOne DEF BackupInv

LEMMA BackupSteps ==
    ASSUME BoundsAssumption, BackupInv, BackupInv', [Next]_vars
    PROVE  KeepsOthers /\ KeepsABackup
<1>0. Types /\ Types' /\ DOMAIN dirs = Directories /\ DOMAIN dirs' = Directories
  BY DEF BackupInv, Types
<1>1. CASE Stay
  <2>1. UNCHANGED dirs BY <1>1 DEF Stay
  <2>2. KeepsOthers BY <2>1 DEF KeepsOthers
  <2>3. KeepsABackup BY <2>1 DEF KeepsABackup, HasBackup
  <2> QED BY <2>2, <2>3
<1>2. ASSUME NEW r \in Runs, Fills(r) PROVE KeepsOthers /\ KeepsABackup
  <2>1. PICK new \in Contents : Changes(r, new) BY <1>2 DEF Fills
  <2>2. dirs'[r] = {new} /\ \A d \in Directories \ {r} : dirs'[d] = dirs[d]
    BY <1>0, <2>1, Changed
  <2>3. KeepsOthers BY <1>0, <2>2 DEF KeepsOthers
  <2>4. ASSUME HasBackup PROVE HasBackup'
    <3>1. PICK d \in Directories : \E dir \in dirs[d] : dir.kind = "rent" /\ dir.whole
      BY <1>0, <2>4 DEF HasBackup
    <3>2. d # r BY <1>2, <3>1 DEF Fills
    <3>3. dirs'[d] = dirs[d] BY <2>2, <3>2
    <3> QED BY <1>0, <3>1, <3>3 DEF HasBackup
  <2> QED BY <2>3, <2>4 DEF KeepsABackup
<1>3. ASSUME NEW r \in Runs, NEW d \in Directories, Rotates(r, d)
      PROVE  KeepsOthers /\ KeepsABackup
  <2>1. \A x \in Directories \ {d} : dirs'[x] = dirs[x]
    BY <1>0, <1>3 DEF Rotates, Changes, Types
  <2>2. d # r /\ \A dir \in dirs[d] : dir.kind = "rent" BY <1>3 DEF Rotates
  <2>3. KeepsOthers BY <1>0, <2>1, <2>2 DEF KeepsOthers
  <2>4. \E dir \in dirs[r] : dir.kind = "rent" /\ dir.whole BY <1>3 DEF Rotates
  <2>5. r \in Directories BY DEF Directories
  <2>6. HasBackup' BY <1>0, <2>1, <2>2, <2>4, <2>5 DEF HasBackup
  <2> QED BY <2>3, <2>6 DEF KeepsABackup
<1> QED BY <1>0, <1>1, <1>2, <1>3, DirectorySteps

(***************************************************************************)
(* No step removes what no verified run made, or the last whole backup:    *)
(* the rotation runs beside a backup of its own, which is new.             *)
(***************************************************************************)
THEOREM RotationKeeps == BoundsAssumption /\ Spec => OthersAreKept /\ NeverWithoutBackup
<1>1. BoundsAssumption /\ BackupInv /\ BackupInv' /\ [Next]_vars => [KeepsOthers]_vars /\ [KeepsABackup]_vars
  <2>1. ASSUME BoundsAssumption, BackupInv, BackupInv', [Next]_vars PROVE KeepsOthers /\ KeepsABackup
    BY <2>1, BackupSteps
  <2> QED BY <2>1
<1>2. BoundsAssumption => BoundsAssumption' BY DEF BoundsAssumption
<1> QED BY <1>1, <1>2, BackupsStaySound, PTL DEF Spec, OthersAreKept, NeverWithoutBackup
=============================================================================
