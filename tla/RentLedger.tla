----------------------------- MODULE RentLedger -----------------------------
(***************************************************************************)
(* Rent of the contracts: instalments (rent-receivables), payments         *)
(* (rent-payments) and the allocations that connect them, one whole        *)
(* request at a time. RentLedgerTx takes the requests apart.               *)
(*                                                                         *)
(* A contract, a payment or an instalment exists when it is in the domain  *)
(* of its function. Soft deletion of a payment takes it out; a contract    *)
(* keeps its rows when it is removed, and nothing touches them any more.   *)
(* Every request may be refused, which changes nothing and is no step.     *)
(***************************************************************************)
EXTENDS RentSchedule, RentAllocation

CONSTANTS Contract, Lease,      \* leases a contract may be given
          Payment,              \* payment ids, ordered as in the database
          Days,                 \* days that come
          Dates,                \* dates that users enter
          Amounts               \* amounts that users enter, in cents

ASSUME LedgerConstants ==
  /\ Payment \subseteq Int
  /\ Lease \subseteq [start : Int, end : Int, rent : Nat, halves : BOOLEAN]
  /\ Days \cup Dates \subseteq Int \ {0}
  /\ Amounts \subseteq Nat \ {0}

VARIABLES today,
          lease,         \* by contract created
          removed,       \* contracts deleted
          schedules,     \* by contract, by sequence number
          payments,      \* by payment in force
          used,          \* payment ids given out
          allocations    \* by contract: rows [payment, sequence, amount]

vars == <<today, lease, removed, schedules, payments, used, allocations>>

Plan == [l \in Lease |-> BuildRentSchedule(l)]

Live(c) == c \in DOMAIN lease \ removed

PaymentRows == [contract : Contract, date : Dates, amount : Amounts]

Put(f, x, v) == [y \in DOMAIN f \cup {x} |-> IF y = x THEN v ELSE f[y]]

Drop(f, x) == Restrict(f, DOMAIN f \ {x})

PaymentsOf(pay, c) == Restrict(pay, {p \in DOMAIN pay : pay[p].contract = c})

\* What activeAllocatedAmount adds up for an instalment.
Allocated(rows, s) == SumFunction([r \in {x \in rows : x.sequence = s} |-> r.amount])

(***************************************************************************)
(* The date an operation works with is read inside its transaction, which  *)
(* may commit after the next midnight.                                     *)
(***************************************************************************)
AsOf == {d \in Days : d <= today /\ ~ \E e \in Days : d < e /\ e < today}

\* rebuildPaymentAllocations for each contract of a set.
Rebuilt(contracts, sch, pay) ==
  [c \in Contract |-> IF c \in contracts THEN Allocate(sch[c], PaymentsOf(pay, c))
                                         ELSE allocations[c]]

-----------------------------------------------------------------------------
(* syncContractSchedules *)

\* Mutant: an instalment paid in advance may be replaced.
MutantProtected(sch, rows, day) == {s \in DOMAIN sch : sch[s].due <= day}

\* Instalments that are due or have a payment allocated to them.
Protected(sch, rows, day) ==
  {s \in DOMAIN sch : sch[s].due <= day \/ Allocated(rows, s) > 0}

\* Mutant: the end of a protected period is not compared.
MutantSyncAccepted(generated, sch, protected) ==
  \A s \in protected : /\ s \in DOMAIN generated
                       /\ generated[s].start = sch[s].start
                       /\ generated[s].due = sch[s].due

SyncAccepted(generated, sch, protected) ==
  \A s \in protected : /\ s \in DOMAIN generated
                       /\ generated[s].start = sch[s].start
                       /\ generated[s].end = sch[s].end
                       /\ generated[s].due = sch[s].due

\* Protected instalments stay, with their amount; the others are generated.
Synced(generated, sch, protected) ==
  [s \in DOMAIN generated |-> IF s \in protected THEN sch[s] ELSE generated[s]]

-----------------------------------------------------------------------------
(* Requests *)

Init ==
  /\ today \in Days
  /\ lease = << >>
  /\ removed = {}
  /\ schedules = [c \in Contract |-> << >>]
  /\ payments = << >>
  /\ used = {}
  /\ allocations = [c \in Contract |-> {}]

\* A new contract has no instalments to protect and no payments.
CreateContract(c, l) ==
  /\ c \notin DOMAIN lease
  /\ lease' = Put(lease, c, l)
  /\ schedules' = [schedules EXCEPT ![c] = Plan[l]]
  /\ allocations' = Rebuilt({c}, schedules', payments)
  /\ UNCHANGED <<today, removed, payments, used>>

\* Instalments are only synchronised when dates, rent or billing change.
UpdateContract(c, l, day) ==
  LET generated == Plan[l]
      protected == Protected(schedules[c], allocations[c], day)
  IN
  /\ Live(c)
  /\ l # lease[c]
  /\ SyncAccepted(generated, schedules[c], protected)
  /\ lease' = [lease EXCEPT ![c] = l]
  /\ schedules' = [schedules EXCEPT ![c] = Synced(generated, @, protected)]
  /\ allocations' = Rebuilt({c}, schedules', payments)
  /\ UNCHANGED <<today, removed, payments, used>>

RemoveContract(c) ==
  /\ Live(c)
  /\ removed' = removed \cup {c}
  /\ UNCHANGED <<today, lease, schedules, payments, used, allocations>>

\* A field of a PATCH that is not sent.
Unsent == 0

Edited(row, due, amount) ==
  [row EXCEPT !.due = IF due = Unsent THEN @ ELSE due,
              !.amount = IF amount = Unsent THEN @ ELSE amount]

\* PATCH of an instalment that is neither due nor paid, to any due date.
EditSchedule(c, s, due, amount, day) ==
  /\ Live(c)
  /\ s \in DOMAIN schedules[c]
  /\ schedules[c][s].due > day
  /\ Allocated(allocations[c], s) = 0
  /\ schedules' = [schedules EXCEPT ![c][s] = Edited(@, due, amount)]
  /\ allocations' = Rebuilt({c}, schedules', payments)
  /\ UNCHANGED <<today, lease, removed, payments, used>>

\* Mutant: the contract need not be there.
MutantCreatePayment(p, row) ==
  /\ p \notin used
  /\ payments' = Put(payments, p, row)
  /\ used' = used \cup {p}
  /\ allocations' = Rebuilt({row.contract}, schedules, payments')
  /\ UNCHANGED <<today, lease, removed, schedules>>

CreatePayment(p, row) ==
  /\ p \notin used
  /\ Live(row.contract)
  /\ payments' = Put(payments, p, row)
  /\ used' = used \cup {p}
  /\ allocations' = Rebuilt({row.contract}, schedules, payments')
  /\ UNCHANGED <<today, lease, removed, schedules>>

\* Mutant: only the contract that the payment is moved to is rebuilt.
MutantAffected(p, row) == {row.contract}

\* The contracts of a payment before and after a change.
Affected(p, row) == {payments[p].contract, row.contract}

UpdatePayment(p, row) ==
  /\ p \in DOMAIN payments
  /\ \A c \in {payments[p].contract, row.contract} : Live(c)
  /\ payments' = Put(payments, p, row)
  /\ allocations' = Rebuilt(Affected(p, row), schedules, payments')
  /\ UNCHANGED <<today, lease, removed, schedules, used>>

\* Mutant: the allocations of a deleted payment stay.
MutantRemovePayment(p) ==
  /\ p \in DOMAIN payments
  /\ Live(payments[p].contract)
  /\ payments' = Drop(payments, p)
  /\ UNCHANGED <<today, lease, removed, schedules, used, allocations>>

RemovePayment(p) ==
  /\ p \in DOMAIN payments
  /\ Live(payments[p].contract)
  /\ payments' = Drop(payments, p)
  /\ allocations' = Rebuilt({payments[p].contract}, schedules, payments')
  /\ UNCHANGED <<today, lease, removed, schedules, used>>

\* Midnight in Shanghai.
Tomorrow ==
  /\ \E d \in Days : /\ d > today
                     /\ \A e \in Days : e > today => d <= e
                     /\ today' = d
  /\ UNCHANGED <<lease, removed, schedules, payments, used, allocations>>

Next ==
  \/ \E c \in Contract :
       \/ \E l \in Lease : CreateContract(c, l)
       \/ \E l \in Lease, day \in AsOf : UpdateContract(c, l, day)
       \/ RemoveContract(c)
       \/ \E s \in DOMAIN schedules[c], day \in AsOf,
             due \in Dates \cup {Unsent}, amount \in Amounts \cup {Unsent} :
            EditSchedule(c, s, due, amount, day)
  \/ \E p \in Payment :
       \/ \E row \in PaymentRows : CreatePayment(p, row) \/ UpdatePayment(p, row)
       \/ RemovePayment(p)
  \/ Tomorrow

Spec == Init /\ [][Next]_vars

-----------------------------------------------------------------------------
(* Properties *)

ScheduleRows == [start : Int, end : Int, due : Int, amount : Nat]

\* Types, and which rows there are: instalments, payments and allocations are of
\* contracts that were created.
TypeOK ==
  /\ today \in Days
  /\ DOMAIN lease \subseteq Contract
  /\ \A c \in DOMAIN lease : lease[c] \in Lease
  /\ removed \subseteq DOMAIN lease
  /\ DOMAIN schedules = Contract
  /\ \A c \in DOMAIN lease : \A s \in DOMAIN schedules[c] : schedules[c][s] \in ScheduleRows
  /\ DOMAIN payments \subseteq used
  /\ used \subseteq Payment
  /\ \A p \in DOMAIN payments : payments[p] \in PaymentRows /\ payments[p].contract \in DOMAIN lease
  /\ DOMAIN allocations = Contract
  /\ \A c \in Contract \ DOMAIN lease : DOMAIN schedules[c] = {} /\ allocations[c] = {}

(***************************************************************************)
(* After any sequence of requests the allocations of every contract are    *)
(* what a first-in-first-out settlement of its instalments and payments    *)
(* gives: the prefix sums of migration 1712600000000. No request may leave *)
(* allocations of earlier rows, also not in the contract a payment left.   *)
(***************************************************************************)
AllocationsAreFifo ==
  \A c \in Contract :
    allocations[c] = PrefixSums(schedules[c], PaymentsOf(payments, c))

(***************************************************************************)
(* The allocations of every contract are what rebuildPaymentAllocations    *)
(* would write now: no request forgets a contract whose rows it changed.   *)
(***************************************************************************)
AllocationsFollowRows ==
  \A c \in DOMAIN lease :
    allocations[c] = Allocate(schedules[c], PaymentsOf(payments, c))

(***************************************************************************)
(* The instalments of a contract cover exactly the periods of its lease,   *)
(* although syncContractSchedules keeps some rows and replaces others, and *)
(* update() of an instalment moves its due date.                           *)
(***************************************************************************)
PeriodsFollowLease ==
  \A c \in DOMAIN lease :
    LET generated == Plan[lease[c]] IN
    /\ DOMAIN schedules[c] = DOMAIN generated
    /\ \A s \in DOMAIN generated : /\ schedules[c][s].start = generated[s].start
                                   /\ schedules[c][s].end = generated[s].end

(***************************************************************************)
(* An instalment that was due before the last midnight, or that has a      *)
(* payment allocated, is not changed or dropped by any request:            *)
(* PROTECTED_SCHEDULE_ERROR in syncContractSchedules and the checks of     *)
(* update().                                                               *)
(***************************************************************************)
ClosedRowsKept ==
  [][\A c \in DOMAIN lease : \A s \in DOMAIN schedules[c] :
       \/ \A d \in AsOf : schedules[c][s].due <= d
       \/ Allocated(allocations[c], s) > 0
       => s \in DOMAIN schedules'[c] /\ schedules'[c][s] = schedules[c][s]]_vars
=============================================================================
