------------------------------ MODULE MCServer ------------------------------
(***************************************************************************)
(* What the server prints, stores, backs up and replaces: two instances of *)
(* ReceiptIssuing and of Backup, one of ChineseCurrency and one of         *)
(* DeploymentUpdate, of which a behaviour is one, which part names. The    *)
(* variables of the others are not in use, those of "receipts" stay as     *)
(* they are at first.                                                      *)
(***************************************************************************)
EXTENDS ReceiptIssuing, TLC

CONSTANTS
    CopyFiles, CopyRuns, CopyDays,               \* of Backup, with files that change
    RotationFiles, RotationRuns, RotationDays,   \* of Backup, on several days
    KeepDays, MaxBackupFaults,                   \* of both
    MaxReleases, MaxAttempts, MaxUpdateFaults, StartsAnswer   \* of DeploymentUpdate

VARIABLES part,
    printSource, printReceipts, printTemp, printRequest,
    amount,
    stored, runs, lock, dirs, lastSuccess, containers, delayed, excused, day, backupFaults,
    published, backend, attempt, container, late, services, healthy, attempts, updateFaults

\* Requests die and storing fails too, but no two requests are of one day.
Printing == INSTANCE ReceiptIssuing WITH
    source <- printSource, receipts <- printReceipts, temp <- printTemp,
    request <- printRequest, Days <- {1, 2}, MaxReceipts <- 1,
    Separate <- {"source", "day"}, Faults <- {"crash", "render", "store"}

\* Sections with every pattern of zeros, their other digits all different.
Patterns ==
    {a + b + c + d : a \in {0, 2000}, b \in {0, 400}, c \in {0, 60}, d \in {0, 8}}

Words == INSTANCE ChineseCurrency WITH
    Sections <- Patterns, TopSections <- {0, 1, 10, 20}, Decimals <- {0, 3, 50, 53}

\* Files are stored and removed while a second run may start.
Copying == INSTANCE Backup WITH
    late <- delayed, faults <- backupFaults, Files <- CopyFiles,
    MaxRuns <- CopyRuns, MaxDays <- CopyDays, MaxFaults <- MaxBackupFaults

\* Backups on several days.
Rotation == INSTANCE Backup WITH
    late <- delayed, faults <- backupFaults, Files <- RotationFiles,
    MaxRuns <- RotationRuns, MaxDays <- RotationDays, MaxFaults <- MaxBackupFaults

Update == INSTANCE DeploymentUpdate WITH
    faults <- updateFaults, MaxFaults <- MaxUpdateFaults

ASSUME ServerAssumption ==
    /\ Words!DigitsAssumption
    /\ Copying!BoundsAssumption /\ Rotation!BoundsAssumption /\ Update!BoundsAssumption
-----------------------------------------------------------------------------
Unused(x) == x = "not in use"

printVars == <<printSource, printReceipts, printTemp, printRequest>>
backupVars == <<stored, runs, lock, dirs, lastSuccess, containers, delayed, excused,
                day, backupFaults>>
updateVars == <<published, backend, attempt, container, late, services, healthy,
                attempts, updateFaults>>

PrintUnused ==
    Unused(printSource) /\ Unused(printReceipts) /\ Unused(printTemp) /\ Unused(printRequest)
BackupUnused ==
    /\ Unused(stored) /\ Unused(runs) /\ Unused(lock) /\ Unused(dirs)
    /\ Unused(lastSuccess) /\ Unused(containers) /\ Unused(delayed) /\ Unused(excused)
    /\ Unused(day) /\ Unused(backupFaults)
UpdateUnused ==
    /\ Unused(published) /\ Unused(backend) /\ Unused(attempt) /\ Unused(container)
    /\ Unused(late) /\ Unused(services) /\ Unused(healthy) /\ Unused(attempts)
    /\ Unused(updateFaults)

Parts == {"receipts", "printing", "words", "copying", "rotation", "update"}

MCInit ==
    /\ part \in Parts
    /\ Init
    /\ IF part = "printing" THEN Printing!Init ELSE PrintUnused
    /\ IF part = "words" THEN Words!Init ELSE Unused(amount)
    /\ CASE part = "copying"  -> Copying!Init
         [] part = "rotation" -> Rotation!Init
         [] OTHER             -> BackupUnused
    /\ IF part = "update" THEN Update!Init ELSE UpdateUnused

MCNext ==
    \/ /\ part = "receipts" /\ Next
       /\ UNCHANGED <<part, printVars, amount, backupVars, updateVars>>
    \/ /\ part = "printing" /\ Printing!Next
       /\ UNCHANGED <<part, vars, amount, backupVars, updateVars>>
    \/ /\ part = "words" /\ Words!Edit
       /\ UNCHANGED <<part, vars, printVars, backupVars, updateVars>>
    \/ /\ part = "copying" /\ Copying!Next
       /\ UNCHANGED <<part, vars, printVars, amount, updateVars>>
    \/ /\ part = "rotation" /\ Rotation!Next
       /\ UNCHANGED <<part, vars, printVars, amount, updateVars>>
    \/ /\ part = "update" /\ Update!Next
       /\ UNCHANGED <<part, vars, printVars, amount, backupVars>>

MCSpec == MCInit /\ [][MCNext]_<<part, vars, printVars, amount, backupVars, updateVars>>

Symmetry == Permutations(Slots)
-----------------------------------------------------------------------------
(* The conjuncts are the properties of the modules.                        *)

(***************************************************************************)
(* What is printed: each receipt its own page, though requests die and     *)
(* printing or storing fails, as long as no two requests are of one day    *)
(* or source; and the words of an amount, which read as that amount.       *)
(***************************************************************************)
PrintedRight ==
    /\ part = "printing" => Printing!ReceiptsHold
    /\ part = "words" => Words!ReadsBack /\ Words!ZerosAreSingle

(***************************************************************************)
(* What has a formal name is complete and verified, one run is at work at  *)
(* a time, what it leaves is known, and the rotation never removes the     *)
(* last good backup or what it does not know.                              *)
(***************************************************************************)
BackupsHold ==
    /\ [](part = "copying" => /\ Copying!TypeOK /\ Copying!FormalIsVerified
                              /\ Copying!OneAtATime /\ Copying!LeftoversAreKnown)
    /\ [](part = "rotation" => Rotation!LastSuccessIsThere)
    /\ [][part = "rotation" => Rotation!KeepsOthers /\ Rotation!KeepsABackup]_backupVars

(***************************************************************************)
(* What is called a success is deployed, and no service is replaced        *)
(* without a backup or by an older release. As long as Docker answers every*)
(* call that starts a container, the status tells the result of the last   *)
(* update and no update removes the container of one that runs.            *)
(***************************************************************************)
UpdatesCount ==
    /\ [](part = "update" => /\ Update!TypeOK /\ Update!SuccessIsDeployed
                             /\ StartsAnswer => Update!LastResultCounts)
    /\ [][part = "update" => /\ Update!UpgradesBackedUp
                             /\ StartsAnswer => Update!KeepsRunning]_updateVars
=============================================================================
