--------------------------- MODULE MCRentSchedule ---------------------------
(***************************************************************************)
(* Leases of every length up to Horizon: a lease of one day, extended day  *)
(* by day. The calendar here is the reference: it only knows the day after *)
(* a day.                                                                  *)
(***************************************************************************)
EXTENDS RentSchedule

CONSTANTS Starts, Rents, Horizon

VARIABLE lease

MonthLengths(y) == <<31, IF LeapYear(y) THEN 29 ELSE 28,
                     31, 30, 31, 30, 31, 31, 30, 31, 30, 31>>

NextDay(date) ==
  IF Day(date) < MonthLengths(Year(date))[Month(date)] THEN date + 1
  ELSE IF Month(date) < 12 THEN Date(Year(date), Month(date) + 1, 1)
  ELSE Date(Year(date) + 1, 1, 1)

Init ==
  \E start \in Starts, rent \in Rents, halves \in BOOLEAN :
    lease = [start |-> start, end |-> start, rent |-> rent, halves |-> halves]

Extend ==
  /\ lease.end < Horizon
  /\ lease' = [lease EXCEPT !.end = NextDay(@)]

Spec == Init /\ [][Extend]_lease

Schedule == BuildRentSchedule(lease)

(***************************************************************************)
(* The periods follow each other without a gap or an overlap from the      *)
(* lease's first day to its last: buildRentSchedule, whatever the lengths  *)
(* of the months. A day in no period would never be billed.                *)
(***************************************************************************)
PeriodsTileLease ==
  LET n == Len(Schedule) IN
  /\ n > 0
  /\ Schedule[1].start = lease.start
  /\ Schedule[n].end = lease.end
  /\ \A s \in 1 .. n : Schedule[s].start <= Schedule[s].end
  /\ \A s \in 1 .. n - 1 : Schedule[s + 1].start = NextDay(Schedule[s].end)

(***************************************************************************)
(* A lease that starts on the 31st, or on 29 February, is billed on the    *)
(* last day of shorter months and on its own day again afterwards:         *)
(* addLeaseMonths counts from the first day each time.                     *)
(***************************************************************************)
AnniversaryKept ==
  \A s \in DOMAIN Schedule :
    LET due == Schedule[s].due IN
    \/ Day(due) = Day(lease.start)
    \/ Day(due) < Day(lease.start) /\ Day(NextDay(due)) = 1

(***************************************************************************)
(* The instalments of a year add up to the annual rent to the cent, and no *)
(* instalment is more than a cent above another: the ceil and floor of     *)
(* buildRentSchedule.                                                      *)
(***************************************************************************)
YearsAddUp ==
  LET perYear == IF lease.halves THEN 2 ELSE 1
      n       == Len(Schedule)
  IN  \A s \in 1 .. n - perYear + 1 :
        /\ perYear = 1 => Schedule[s].amount = lease.rent
        /\ perYear = 2 => Schedule[s].amount + Schedule[s + 1].amount = lease.rent
        /\ Schedule[1].amount - Schedule[s].amount \in {0, 1}

(***************************************************************************)
(* A longer lease keeps the periods that were complete, and adds at most   *)
(* one: the check of syncContractSchedules accepts an extension because of *)
(* this, however the months fall.                                          *)
(***************************************************************************)
LongerKeepsPeriods ==
  /\ \A s \in 1 .. Len(Schedule) - 1 : Schedule'[s] = Schedule[s]
  /\ [Schedule'[Len(Schedule)] EXCEPT !.end = lease.end] = Schedule[Len(Schedule)]
  /\ Len(Schedule') - Len(Schedule) \in {0, 1}
ExtensionKeepsPeriods == [][LongerKeepsPeriods]_lease
=============================================================================
