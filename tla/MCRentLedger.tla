---------------------------- MODULE MCRentLedger ----------------------------
(***************************************************************************)
(* Small instances of RentLedger and of what is shown of it, and of the    *)
(* schedules of leases by themselves. A behaviour is of one of them, which *)
(* "part" names: the instalments of one lease as days pass, payments that  *)
(* move between two contracts, the tenants' reconciliation of two, and a   *)
(* lease that grows day by day. Every part begins with the same empty      *)
(* ledger.                                                                 *)
(***************************************************************************)
EXTENDS RentReconciliation

VARIABLES part, term

Annual(end, rent)     == [start |-> 20240131, end |-> end, rent |-> rent, halves |-> FALSE]
Semiannual(end, rent) == [start |-> 20240131, end |-> end, rent |-> rent, halves |-> TRUE]

\* One instalment, two, and another end inside the second; three in halves with an odd cent,
\* of which the second has the first annual one's due date too; one year in halves.
Leases == {Annual(20250130, 3), Annual(20260130, 3), Semiannual(20250228, 3),
           Semiannual(20250130, 3)}

\* Before the lease, between its instalments and after them.
DaysOfLease == {20240130, 20240801, 20250201}

\* Before all generated due dates but the first, and after them.
EarlyAndLate == {20240201, 20250201}

Instalments == INSTANCE RentLedger WITH
    Lease <- {Annual(20250130, 3), Annual(20260130, 3), Semiannual(20250228, 3)},
    Amounts <- {1, 4}

Moves == INSTANCE RentLedger WITH
    Lease <- {Annual(20260130, 3)},
    Days <- {20240130}, Dates <- {20240201}, Amounts <- {2, 4}

Shown == INSTANCE RentLedger WITH
    Lease <- {Annual(20260130, 3), Semiannual(20250130, 3)},
    Days <- {20240801}, Dates <- {20240201}, Amounts <- {2, 4}

Calendar == INSTANCE MCRentSchedule WITH
    lease <- term, Starts <- {20230831, 20231031, 20240131, 20240229, 20230301, 20241201},
    Rents <- {1, 100001}, Horizon <- 20260401
-----------------------------------------------------------------------------
MCInit ==
    \/ part = "instalments" /\ Instalments!Init /\ term = "not in use"
    \/ part = "moves" /\ Moves!Init /\ term = "not in use"
    \/ part = "tenants" /\ Shown!Init /\ term = "not in use"
    \/ part = "calendar" /\ Moves!Init /\ Calendar!Init

OneContract == Cardinality(DOMAIN lease') <= 1

MCNext ==
    \/ part = "instalments" /\ Instalments!Next /\ OneContract /\ UNCHANGED <<part, term>>
    \/ part = "moves" /\ Moves!Next /\ UNCHANGED <<part, term>>
    \/ part = "tenants" /\ Shown!Next /\ UNCHANGED <<part, term>>
    \/ part = "calendar" /\ Calendar!Extend /\ UNCHANGED <<part, vars>>

MCSpec == MCInit /\ [][MCNext]_<<part, term, vars>>

ContractSymmetry == Permutations(Contract)
-----------------------------------------------------------------------------
(* The instalments of a lease tile it from anniversary to anniversary, add *)
(* up to its rent, and keep their periods when it grows by a day.          *)
CalendarHolds ==
    /\ [](part = "calendar" => /\ Calendar!PeriodsTileLease /\ Calendar!AnniversaryKept
                               /\ Calendar!YearsAddUp)
    /\ [][part = "calendar" => Calendar!LongerKeepsPeriods]_term
=============================================================================
