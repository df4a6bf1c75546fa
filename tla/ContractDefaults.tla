-------------------------- MODULE ContractDefaults --------------------------
(***************************************************************************)
(* What the contract form of UnitsView.vue fills in by itself: the dates   *)
(* of a renewal, the penalty for early termination and the safety manager. *)
(* Dates are the numbers yyyymmdd of RentSchedule, amounts are cents, and  *)
(* one party stands for both. For an optional value {} is none, {x} is x.  *)
(***************************************************************************)
EXTENDS RentSchedule, FiniteSets

CONSTANTS
    Starts,    \* first days the user picks
    Rents,     \* annual rents the user enters
    Contacts,  \* names of contacts and of safety managers, "" among them
    Horizon,   \* bound on the first day of a lease
    MaxEdits   \* bound on the fields changed in one form

NamesAssumption == "" \in Contacts
RentsAssumption == Rents \subseteq Nat
BoundsAssumption == Horizon \in Nat /\ MaxEdits \in Nat

VARIABLES
    latest,  \* the newest contract of the unit, if any
    form,    \* the form, and whether the dialog shows it
    hand     \* which fields of the form the user filled by hand

vars == <<latest, form, hand>>
-----------------------------------------------------------------------------
(***************************************************************************)
(* Dates as JavaScript reckons them: a day past the end of a month is a    *)
(* day of the next one.                                                    *)
(***************************************************************************)
Rolled(y, m, d) ==
    IF d <= DaysInMonth(y, m) THEN Date(y, m, d)
    ELSE IF m < 12 THEN Date(y, m + 1, d - DaysInMonth(y, m))
    ELSE Date(y + 1, 1, d - 31)

\* Mutant: the lease ends on the anniversary, not on the day before.
MutantDeriveContractEndDate(start) == Rolled(Year(start) + 1, Month(start), Day(start))

DeriveContractEndDate(start) ==
    PreviousIsoDate(Rolled(Year(start) + 1, Month(start), Day(start)))

\* Mutant: the renewal starts on the last day of the old lease.
MutantDeriveNextDate(date) == date

DeriveNextDate(date) == Rolled(Year(date), Month(date), Day(date) + 1)

(* A twelfth of the rent to the cent; half a cent may go either way.       *)
DefaultEarlyTerminationPenalty(rent) == {(rent + 5) \div 12, (rent + 6) \div 12}

DefaultSafetyManager(manager, previous, contact) ==
    IF manager = "" \/ manager = previous THEN contact ELSE manager

\* Mutant: the managers of a contract being edited follow its contacts, too.
MutantWatched(old, new) ==
    IF old.contact = new.contact THEN new
    ELSE [new EXCEPT !.manager = DefaultSafetyManager(@, old.contact, new.contact)]

(* The watcher of the contacts runs after every change of them.            *)
Watched(old, new) ==
    IF old.contact = new.contact \/ new.editing THEN new
    ELSE [new EXCEPT !.manager = DefaultSafetyManager(@, old.contact, new.contact)]
-----------------------------------------------------------------------------
Reset == [visible |-> TRUE, editing |-> FALSE, start |-> {}, end |-> {}, rent |-> 0,
          penalty |-> 0, usesDefault |-> TRUE, contact |-> "", manager |-> ""]

Init ==
    /\ latest = {}
    /\ form = [Reset EXCEPT !.visible = FALSE]
    /\ hand = {}

Open(new) ==
    /\ ~form.visible
    /\ form' = Watched(form, new)
    /\ hand' = {}
    /\ UNCHANGED latest

OpenFirst == latest = {} /\ Open(Reset)

(* A renewal starts the day after the newest contract ends and repeats its *)
(* terms; its manager is the contact, not the manager it had before.       *)
OpenRenewal ==
    \E c \in latest :
        LET start == DeriveNextDate(c.end) IN
        /\ start <= Horizon
        /\ \E penalty \in DefaultEarlyTerminationPenalty(c.rent) :
              Open([Reset EXCEPT !.start = {start}, !.end = {DeriveContractEndDate(start)},
                                 !.rent = c.rent, !.penalty = penalty,
                                 !.contact = c.contact, !.manager = c.contact])

OpenEdit ==
    \E c \in latest :
        Open([Reset EXCEPT !.editing = TRUE, !.start = {c.start}, !.end = {c.end},
                           !.rent = c.rent, !.penalty = c.penalty, !.usesDefault = FALSE,
                           !.contact = c.contact,
                           !.manager = IF c.manager = "" THEN c.contact ELSE c.manager])

Change(field, new) ==
    /\ form.visible /\ Cardinality(hand) < MaxEdits
    /\ form # new
    /\ form' = Watched(form, new)
    /\ hand' = hand \cup {field}
    /\ UNCHANGED latest

HandleContractStartDateChange ==
    \E start \in Starts :
        Change("start", IF form.editing THEN [form EXCEPT !.start = {start}]
                        ELSE [form EXCEPT !.start = {start},
                                          !.end = {DeriveContractEndDate(start)}])

EnterEnd ==
    \E start \in form.start :
        Change("end", [form EXCEPT !.end = {PreviousIsoDate(AddLeaseMonths(start, 18))}])

\* Mutant: the penalty follows the rent also after it was entered by hand.
MutantHandleContractAnnualRentUpdate ==
    \E rent \in Rents : \E penalty \in DefaultEarlyTerminationPenalty(rent) :
        Change("rent", [form EXCEPT !.rent = rent, !.penalty = penalty])

HandleContractAnnualRentUpdate ==
    \E rent \in Rents : \E penalty \in DefaultEarlyTerminationPenalty(rent) :
        Change("rent", IF form.usesDefault
                       THEN [form EXCEPT !.rent = rent, !.penalty = penalty]
                       ELSE [form EXCEPT !.rent = rent])

EnterPenalty == Change("penalty", [form EXCEPT !.penalty = 7, !.usesDefault = FALSE])

EnterContact == \E name \in Contacts : Change("contact", [form EXCEPT !.contact = name])

EnterManager == \E name \in Contacts : Change("manager", [form EXCEPT !.manager = name])

Valid ==
    /\ form.start # {} /\ form.end # {} /\ form.rent > 0 /\ form.manager # ""
    /\ \A s \in form.start, e \in form.end : s <= e

Save ==
    /\ form.visible /\ Valid
    /\ latest' = {[start |-> s, end |-> e, rent |-> form.rent, penalty |-> form.penalty,
                   contact |-> form.contact, manager |-> form.manager] :
                     s \in form.start, e \in form.end}
    /\ form' = [form EXCEPT !.visible = FALSE]
    /\ UNCHANGED hand

Next ==
    \/ OpenFirst \/ OpenRenewal \/ OpenEdit \/ Save
    \/ HandleContractStartDateChange \/ EnterEnd
    \/ HandleContractAnnualRentUpdate \/ EnterPenalty \/ EnterContact \/ EnterManager

Spec == Init /\ [][Next]_vars
-----------------------------------------------------------------------------
(***************************************************************************)
(* The number of instalments that rent-schedule-preview.ts counts.         *)
(***************************************************************************)
\* Mutant: an instalment due on the last day of the lease is not counted.
MutantPreviewCount(start, end, months) ==
    CHOOSE n \in 0..((Year(end) - Year(start) + 1) * 12) :
        /\ AddLeaseMonths(start, n * months) >= end
        /\ \A i \in 0..(n - 1) : AddLeaseMonths(start, i * months) < end

PreviewCount(start, end, months) ==
    CHOOSE n \in 0..((Year(end) - Year(start) + 1) * 12) :
        /\ AddLeaseMonths(start, n * months) > end
        /\ \A i \in 0..(n - 1) : AddLeaseMonths(start, i * months) <= end

Lease(start, end) == [start |-> start, end |-> end, rent |-> form.rent, halves |-> FALSE]

(* The end that the form derives makes a lease of one annual instalment,   *)
(* whatever the lengths of the months and of the year - but for a lease    *)
(* that starts on 29 February: the form ends it on 28 February, the day on *)
(* which the schedule of the backend begins a second full year.            *)
DefaultLeaseIsOneInstalment ==
    form.visible /\ ~form.editing /\ "end" \notin hand =>
        \A s \in form.start, e \in form.end :
            Len(BuildRentSchedule(Lease(s, e))) = IF s % 10000 = 229 THEN 2 ELSE 1

(* A renewal continues the newest lease without a gap and without a common *)
(* day, so that it passes the backend's check of the days.                 *)
RenewalFollows ==
    form.visible /\ ~form.editing /\ "start" \notin hand =>
        \A s \in form.start, c \in latest : s > c.end /\ PreviousIsoDate(s) = c.end

(* The preview counts the instalments that the backend builds.             *)
PreviewAgrees ==
    \A s \in form.start, e \in form.end :
        s <= e => /\ PreviewCount(s, e, 12) = Len(BuildRentSchedule(Lease(s, e)))
                  /\ PreviewCount(s, e, 6) =
                        Len(BuildRentSchedule([Lease(s, e) EXCEPT !.halves = TRUE]))

(* The penalty of a new contract is a twelfth of its rent until it is      *)
(* entered by hand, and what is entered by hand stays.                     *)
PenaltyFollowsRent ==
    form.visible =>
        /\ ~form.editing /\ "penalty" \notin hand =>
              form.penalty \in DefaultEarlyTerminationPenalty(form.rent)
        /\ "penalty" \in hand => form.penalty = 7

(* "Editing an existing contract keeps its manager" (README.md:28): in an  *)
(* edited contract only the user changes a manager that was saved.         *)
SavedManagerKept ==
    form.visible /\ form.editing /\ "manager" \notin hand =>
        \A c \in latest : c.manager # "" => form.manager = c.manager

(* "Once a manager is given by hand it no longer changes with the contact" *)
(* (README.md:28).                                                         *)
(* It does not hold: a manager who is the contact is replaced with it.     *)
ManualManagerKept ==
    [][form.visible /\ form'.visible /\ "manager" \in hand /\ form.manager # ""
          /\ form'.contact # form.contact => form'.manager = form.manager]_vars
=============================================================================
