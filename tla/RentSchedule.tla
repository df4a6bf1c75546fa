---------------------------- MODULE RentSchedule ----------------------------
(***************************************************************************)
(* The instalments of a lease: rent-receivables/rent-schedule.ts.          *)
(*                                                                         *)
(* A date is the number yyyymmdd, which is ordered like the ISO string     *)
(* that the code compares. Amounts are cents. A lease is a record          *)
(* [start, end, rent, halves]: its first and last day, the annual rent and *)
(* whether it is billed semiannually.                                      *)
(***************************************************************************)
EXTENDS Integers, Sequences

Date(y, m, d) == y * 10000 + m * 100 + d
Year(date)  == date \div 10000
Month(date) == (date \div 100) % 100
Day(date)   == date % 100

LeapYear(y) == (y % 4 = 0 /\ y % 100 # 0) \/ y % 400 = 0

DaysInMonth(y, m) ==
  CASE m = 2             -> IF LeapYear(y) THEN 29 ELSE 28
    [] m \in {4, 6, 9, 11} -> 30
    [] OTHER             -> 31

\* Month indices count from the first month of year zero.
MonthIndex(date) == Year(date) * 12 + Month(date) - 1

\* Mutant: a day the month does not have runs over into the next one.
MutantDayIn(y, m, day) ==
  IF day <= DaysInMonth(y, m) THEN day ELSE 100 + day - DaysInMonth(y, m)

\* The day of the month is the lease's own, unless the month is too short.
DayIn(y, m, day) == IF day <= DaysInMonth(y, m) THEN day ELSE DaysInMonth(y, m)

AddLeaseMonths(start, months) ==
  LET index == MonthIndex(start) + months
      y     == index \div 12
      m     == (index % 12) + 1
  IN  Date(y, m, DayIn(y, m, Day(start)))

\* Mutant: the last day of February is the 28th.
MutantPreviousIsoDate(date) ==
  IF Day(date) > 1 THEN date - 1
  ELSE IF Month(date) = 3 THEN Date(Year(date), 2, 28)
  ELSE IF Month(date) > 1 THEN Date(Year(date), Month(date) - 1,
                                    DaysInMonth(Year(date), Month(date) - 1))
  ELSE Date(Year(date) - 1, 12, 31)

PreviousIsoDate(date) ==
  IF Day(date) > 1 THEN date - 1
  ELSE IF Month(date) > 1 THEN Date(Year(date), Month(date) - 1,
                                    DaysInMonth(Year(date), Month(date) - 1))
  ELSE Date(Year(date) - 1, 12, 31)

\* Mutant: both halves are rounded up.
MutantInstalment(lease, index) ==
  IF lease.halves THEN (lease.rent + 1) \div 2 ELSE lease.rent

\* The first half of a year takes the odd cent.
Instalment(lease, index) ==
  IF ~lease.halves THEN lease.rent
  ELSE IF index % 2 = 0 THEN (lease.rent + 1) \div 2 ELSE lease.rent \div 2

IntervalMonths(lease) == IF lease.halves THEN 6 ELSE 12

\* Every period is counted from the lease's first day.
PeriodStart(lease, index) == AddLeaseMonths(lease.start, index * IntervalMonths(lease))

\* Mutant: the last period runs to its full length.
MutantPeriodEnd(lease, index) == PreviousIsoDate(PeriodStart(lease, index + 1))

PeriodEnd(lease, index) ==
  LET full == PreviousIsoDate(PeriodStart(lease, index + 1))
  IN  IF full <= lease.end THEN full ELSE lease.end

\* The loop ends at the first period that starts after the lease does. No
\* period starts that many months after the start.
Indices(lease) ==
  {i \in 0 .. (MonthIndex(lease.end) - MonthIndex(lease.start)) \div IntervalMonths(lease) :
     PeriodStart(lease, i) <= lease.end}

\* Instalments by sequence number, which is the index plus one.
BuildRentSchedule(lease) ==
  [s \in {i + 1 : i \in Indices(lease)} |->
     [start  |-> PeriodStart(lease, s - 1),
      end    |-> PeriodEnd(lease, s - 1),
      due    |-> PeriodStart(lease, s - 1),
      amount |-> Instalment(lease, s - 1)]]
=============================================================================
