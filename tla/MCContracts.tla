----------------------------- MODULE MCContracts -----------------------------
(***************************************************************************)
(* Contracts and what is kept with them: two instances of                  *)
(* ContractOccupancy and of DepositAccounts and one of StoredFiles, of     *)
(* which a behaviour is one, which part names. The variables of the others *)
(* are not in use, those of "mixed" stay as they are at first.             *)
(***************************************************************************)
EXTENDS ContractOccupancy, TLC

CONSTANTS OrderlyContracts, Leases, OrderlyDays, OrderlyHistory,  \* of the orderly clients
          MaxChosen, MaxPicks, MaxStored, MaxUploadFaults         \* of the uploads

VARIABLES part,
    apartUnits, apartMeters, apartContracts, apartHistory, apartRequest, apartToday,
    disk, rows, live, attached, dialog, uploads, stored, origin, picks, faults,
    agreements, records, saves, edits

OneLease == {[start |-> 1, end |-> 2]}
ThreeLeases == {[start |-> 1, end |-> 2], [start |-> 2, end |-> 3], [start |-> 3, end |-> 3]}

\* Clients of which no two are at work on one unit at a time. Both units get their rows, so
\* that requests about two units are under way together, and contracts move between them.
Orderly == INSTANCE ContractOccupancy WITH
    units <- apartUnits, meters <- apartMeters, contracts <- apartContracts,
    history <- apartHistory, request <- apartRequest, today <- apartToday,
    Contracts <- OrderlyContracts, Spans <- Leases, Rents <- {1}, Files <- {},
    LastDay <- OrderlyDays, MaxHistory <- OrderlyHistory, Apart <- TRUE

\* Files that can be stored and one that cannot.
Selectable == Codes \cup {"unfit"}

Uploading == INSTANCE StoredFiles WITH
    request <- uploads, Dialogs <- Clients, Files <- Selectable, Unfit <- {"unfit"},
    MaxFaults <- MaxUploadFaults

TrimName(n) == CASE n = "a " -> "a" [] n = " " -> "" [] OTHER -> n

Agreement(names, amounts, days) ==
    [unit : {"u1", "u2"}, tenant : names, agreed : amounts, start : days, deleted : {FALSE}]

\* Two contracts in any relation: the first is that of one unit and tenant.
AnyPair ==
    LET any == Agreement({"a", "a ", "b", " "}, {1, 2}, {1, 2})
    IN  {p \in [{1, 2} -> any] : p[1].unit = "u1" /\ p[1].tenant = "a" /\ p[1].agreed = 2}

Accounts == INSTANCE DepositAccounts WITH
    contracts <- agreements, Contracts <- {1, 2}, Records <- Clients, Units <- {"u1", "u2"},
    Names <- {"a", "a ", "b", " "}, Trim <- TrimName, Blank <- "", Amounts <- {1, 2},
    Days <- {1, 2}, Initially <- AnyPair, MaxSaves <- 1, MaxEdits <- 0

\* One unit, one tenant, and what a change can make of them while a record is saved.
SamePair == [{1, 2} -> {[unit |-> "u1", tenant |-> "a", agreed |-> 1, start |-> 1, deleted |-> FALSE]}]

Edited == INSTANCE DepositAccounts WITH
    contracts <- agreements, Contracts <- {1, 2}, Records <- {"r"}, Units <- {"u1", "u2"},
    Names <- {"a", "b"}, Trim <- TrimName, Blank <- "", Amounts <- {1}, Days <- {1},
    Initially <- SamePair, MaxSaves <- 2, MaxEdits <- 2

ASSUME ContractsAssumption ==
    /\ Orderly!OccupancyConstants
    /\ Uploading!LimitsAssumption /\ IsFiniteSet(Selectable)
    /\ Accounts!NumbersAssumption /\ Edited!NumbersAssumption
-----------------------------------------------------------------------------
Unused(x) == x = "not in use"

orderlyVars == <<apartUnits, apartMeters, apartContracts, apartHistory, apartRequest, apartToday>>
uploadVars == <<disk, rows, live, attached, dialog, uploads, stored, origin, picks, faults>>
depositVars == <<agreements, records, saves, edits>>

OrderlyUnused ==
    /\ Unused(apartUnits) /\ Unused(apartMeters) /\ Unused(apartContracts)
    /\ Unused(apartHistory) /\ Unused(apartRequest) /\ Unused(apartToday)
UploadUnused ==
    /\ Unused(disk) /\ Unused(rows) /\ Unused(live) /\ Unused(attached) /\ Unused(dialog)
    /\ Unused(uploads) /\ Unused(stored) /\ Unused(origin) /\ Unused(picks) /\ Unused(faults)
DepositUnused ==
    Unused(agreements) /\ Unused(records) /\ Unused(saves) /\ Unused(edits)

Parts == {"mixed", "orderly", "uploading", "accounts", "edited"}

MCInit ==
    /\ part \in Parts
    /\ Init
    /\ IF part = "orderly" THEN Orderly!Init ELSE OrderlyUnused
    /\ IF part = "uploading" THEN Uploading!Init ELSE UploadUnused
    /\ CASE part = "accounts" -> Accounts!Init
         [] part = "edited"   -> Edited!Init
         [] OTHER             -> DepositUnused

MCNext ==
    \/ part = "mixed" /\ Next /\ UNCHANGED <<part, orderlyVars, uploadVars, depositVars>>
    \/ part = "orderly" /\ Orderly!Next /\ UNCHANGED <<part, vars, uploadVars, depositVars>>
    \/ part = "uploading" /\ Uploading!Next /\ UNCHANGED <<part, vars, orderlyVars, depositVars>>
    \/ part = "accounts" /\ Accounts!Next /\ UNCHANGED <<part, vars, orderlyVars, uploadVars>>
    \/ part = "edited" /\ Edited!Next /\ UNCHANGED <<part, vars, orderlyVars, uploadVars>>

MCSpec == MCInit /\ [][MCNext]_<<part, vars, orderlyVars, uploadVars, depositVars>>

Symmetry ==
    Permutations(Clients) \cup Permutations(Units) \cup Permutations(Codes)
        \cup Permutations(OrderlyContracts)
-----------------------------------------------------------------------------
(* The conjuncts are the properties of the modules.                        *)

(* As long as no two requests are about one unit, leases lie apart, a      *)
(* removed unit is empty, and both pages give a unit one status.           *)
OrderlyUnitsHold == part = "orderly" => Orderly!TypeOK /\ Orderly!RowsAgree

(* What a user saves is attached, once, and stays attached, with uploads   *)
(* that fail half way and are repeated.                                    *)
UploadsHold ==
    /\ [](part = "uploading" => /\ Uploading!TypeOK
                                /\ Uploading!RowsHaveFiles /\ Uploading!AttachedOnce)
    /\ [][part = "uploading" => Uploading!AttachesChosen /\ Uploading!KeepsAttached]_uploadVars

(***************************************************************************)
(* The accounts hold the money of all records and propose what settles     *)
(* them; a record keeps a unit and a tenant its contract really had, and a *)
(* removed one stays removed, when contracts change while it is saved.     *)
(***************************************************************************)
DepositsHold ==
    /\ [](part = "accounts" => /\ Accounts!NoMoneyLost /\ Accounts!AccountIsOfList
                               /\ Accounts!ProposalSettles)
    /\ [](part = "edited" => Edited!TypeOK /\ Edited!SnapshotWasTrue)
    /\ [][part = "edited" => Edited!RevivedByAReader]_depositVars
=============================================================================
