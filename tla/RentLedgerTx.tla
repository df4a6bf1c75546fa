---------------------------- MODULE RentLedgerTx ----------------------------
(***************************************************************************)
(* The requests of RentLedger as transactions of PostgreSQL at READ        *)
(* COMMITTED, several at a time. Each locks contract rows in the order of  *)
(* their ids, then its payment's row, reads the rows of its contracts, and *)
(* commits what it computed from them.                                     *)
(*                                                                         *)
(* A transaction changes nothing before its commit, which is when others   *)
(* see it, and may fail at any moment before. Creating a contract needs no *)
(* lock and reads no row of others: it is the step of RentLedger.          *)
(***************************************************************************)
EXTENDS RentLedger

CONSTANT Worker         \* requests in flight at once

ASSUME ContractsOrdered == Contract \subseteq Int

VARIABLES step,         \* "idle", "locking", "checked", "writing"
          request,      \* what is asked
          wait,         \* contracts still to lock
          locks,        \* contracts locked
          seen          \* the rows read, and the day

txVars == <<step, request, wait, locks, seen>>
allVars == <<vars, txVars>>

(***************************************************************************)
(* Requests. One that changes a payment remembers the contract it was      *)
(* found in, before any lock (paymentIdentity).                            *)
(***************************************************************************)
NoRequest == [kind |-> "none"]

CreatePaymentRequests ==
  [kind : {"create payment"}, payment : Payment, row : PaymentRows]

UpdatePaymentRequests ==
  [kind : {"update payment"}, payment : Payment, row : PaymentRows, from : Contract]

RemovePaymentRequests ==
  [kind : {"remove payment"}, payment : Payment, from : Contract]

UpdateContractRequests == [kind : {"update contract"}, contract : Contract, lease : Lease]

RemoveContractRequests == [kind : {"remove contract"}, contract : Contract]

EditRequests ==
  [kind : {"edit"}, contract : Contract, sequence : Int,
   due : Dates \cup {Unsent}, amount : Amounts \cup {Unsent}]

NothingSeen == [schedules |-> << >>, payments |-> << >>, allocations |-> << >>, day |-> 0]

ChangesPayment(r) == r.kind \in {"update payment", "remove payment"}

\* The contracts a request locks.
ContractsOf(r) ==
  CASE r.kind = "create payment" -> {r.row.contract}
    [] r.kind = "update payment" -> {r.from, r.row.contract}
    [] r.kind = "remove payment" -> {r.from}
    [] OTHER                     -> {r.contract}

\* Mutant: the contract of the form before the contract the payment is in.
MutantNextToLock(w) ==
  IF request[w].kind = "update payment" /\ request[w].row.contract \in wait[w]
  THEN request[w].row.contract
  ELSE CHOOSE c \in wait[w] : TRUE

\* lockContracts goes by sorted ids.
NextToLock(w) == CHOOSE c \in wait[w] : \A d \in wait[w] : c <= d

\* Mutant: the contract is read without a lock.
MutantContractFree(w, c) == TRUE

ContractFree(w, c) == \A v \in Worker \ {w} : c \notin locks[v]

PaymentFree(w, p) ==
  \A v \in Worker \ {w} :
    step[v] \in {"checked", "writing"} /\ ChangesPayment(request[v]) => request[v].payment # p

-----------------------------------------------------------------------------
(* Steps *)

TxInit ==
  /\ Init
  /\ step = [w \in Worker |-> "idle"]
  /\ request = [w \in Worker |-> NoRequest]
  /\ wait = [w \in Worker |-> {}]
  /\ locks = [w \in Worker |-> {}]
  /\ seen = [w \in Worker |-> NothingSeen]

Begin(w, r) ==
  /\ step[w] = "idle"
  /\ step' = [step EXCEPT ![w] = "locking"]
  /\ request' = [request EXCEPT ![w] = r]
  /\ wait' = [wait EXCEPT ![w] = ContractsOf(r)]
  /\ UNCHANGED <<vars, locks, seen>>

\* The id of a new payment is a fresh UUID.
BeginCreatePayment(w, p, row) ==
  /\ p \notin used
  /\ \A v \in Worker : request[v].kind = "create payment" => request[v].payment # p
  /\ Begin(w, [kind |-> "create payment", payment |-> p, row |-> row])

BeginUpdatePayment(w, p, row) ==
  /\ p \in DOMAIN payments
  /\ Begin(w, [kind |-> "update payment", payment |-> p, row |-> row,
               from |-> payments[p].contract])

BeginRemovePayment(w, p) ==
  /\ p \in DOMAIN payments
  /\ Begin(w, [kind |-> "remove payment", payment |-> p, from |-> payments[p].contract])

BeginUpdateContract(w, c, l) ==
  Begin(w, [kind |-> "update contract", contract |-> c, lease |-> l])

BeginRemoveContract(w, c) == Begin(w, [kind |-> "remove contract", contract |-> c])

\* The instalment is found by its id before the lock. One that is replaced by
\* another of the same number before it is read again is not told apart from it:
\* the code refuses where the model may go on.
BeginEdit(w, c, s, due, amount) ==
  /\ s \in DOMAIN schedules[c]
  /\ Begin(w, [kind |-> "edit", contract |-> c, sequence |-> s, due |-> due, amount |-> amount])

\* SELECT ... FOR UPDATE, which looks at the row again after waiting for it.
LockContract(w) ==
  /\ step[w] = "locking"
  /\ wait[w] # {}
  /\ LET c == NextToLock(w) IN
     /\ ContractFree(w, c)
     /\ Live(c)
     /\ wait' = [wait EXCEPT ![w] = @ \ {c}]
     /\ locks' = [locks EXCEPT ![w] = @ \cup {c}]
  /\ UNCHANGED <<vars, step, request, seen>>

\* Mutant: the payment is not looked at again under the lock.
MutantSamePayment(r) == r.payment \in DOMAIN payments

\* assertPaymentContractUnchanged
SamePayment(r) ==
  /\ r.payment \in DOMAIN payments
  /\ payments[r.payment].contract = r.from

LockPayment(w) ==
  /\ step[w] = "locking"
  /\ wait[w] = {}
  /\ ChangesPayment(request[w])
  /\ PaymentFree(w, request[w].payment)
  /\ SamePayment(request[w])
  /\ step' = [step EXCEPT ![w] = "checked"]
  /\ UNCHANGED <<vars, request, wait, locks, seen>>

\* Mutant: the rows are read while the transaction waits for its lock.
MutantLocksHeld(w) ==
  step[w] = IF ChangesPayment(request[w]) THEN "checked" ELSE "locking"

LocksHeld(w) ==
  /\ wait[w] = {}
  /\ step[w] = IF ChangesPayment(request[w]) THEN "checked" ELSE "locking"

PaymentsIn(pay, contracts) == Restrict(pay, {p \in DOMAIN pay : pay[p].contract \in contracts})

\* The rows of the request's contracts, and the date in Shanghai.
RowsSeen(w) ==
  LET contracts == ContractsOf(request[w]) IN
  [schedules   |-> Restrict(schedules, contracts),
   payments    |-> PaymentsIn(payments, contracts),
   allocations |-> Restrict(allocations, contracts),
   day         |-> today]

\* What syncContractSchedules and update() of an instalment refuse.
Accepts(r, rows) ==
  CASE r.kind = "update contract" ->
         LET c == r.contract IN
         /\ r.lease # lease[c]
         /\ SyncAccepted(Plan[r.lease], rows.schedules[c],
                         Protected(rows.schedules[c], rows.allocations[c], rows.day))
    [] r.kind = "edit" ->
         LET c == r.contract IN
         /\ r.sequence \in DOMAIN rows.schedules[c]
         /\ rows.schedules[c][r.sequence].due > rows.day
         /\ Allocated(rows.allocations[c], r.sequence) = 0
    [] OTHER -> TRUE

Read(w) ==
  /\ LocksHeld(w)
  /\ Accepts(request[w], RowsSeen(w))
  /\ seen' = [seen EXCEPT ![w] = RowsSeen(w)]
  /\ step' = [step EXCEPT ![w] = "writing"]
  /\ UNCHANGED <<vars, request, wait, locks>>

\* The end of a transaction, committed or not, releases its locks.
End(w) ==
  /\ step' = [step EXCEPT ![w] = "idle"]
  /\ request' = [request EXCEPT ![w] = NoRequest]
  /\ wait' = [wait EXCEPT ![w] = {}]
  /\ locks' = [locks EXCEPT ![w] = {}]
  /\ seen' = [seen EXCEPT ![w] = NothingSeen]

\* A contract, a payment or an instalment is not there any more, or not as it was.
Refuse(w) ==
  /\ \/ /\ step[w] = "locking"
        /\ wait[w] # {}
        /\ ContractFree(w, NextToLock(w))
        /\ ~Live(NextToLock(w))
     \/ /\ step[w] = "locking"
        /\ wait[w] = {}
        /\ ChangesPayment(request[w])
        /\ PaymentFree(w, request[w].payment)
        /\ ~SamePayment(request[w])
     \/ LocksHeld(w) /\ ~Accepts(request[w], RowsSeen(w))
  /\ End(w)
  /\ UNCHANGED vars

\* An error of the database, a lost connection, the end of the process.
Fail(w) ==
  /\ step[w] # "idle"
  /\ End(w)
  /\ UNCHANGED vars

Writes(w, kind) == step[w] = "writing" /\ request[w].kind = kind /\ End(w)

\* Both saves of a payment: the rows as read, with the payment as asked.
PaymentSaved(r, rows) ==
  /\ payments' = Put(payments, r.payment, r.row)
  /\ allocations' = Rebuilt(ContractsOf(r), rows.schedules, Put(rows.payments, r.payment, r.row))

CommitCreatePayment(w) ==
  /\ Writes(w, "create payment")
  /\ PaymentSaved(request[w], seen[w])
  /\ used' = used \cup {request[w].payment}
  /\ UNCHANGED <<today, lease, removed, schedules>>

CommitUpdatePayment(w) ==
  /\ Writes(w, "update payment")
  /\ PaymentSaved(request[w], seen[w])
  /\ UNCHANGED <<today, lease, removed, schedules, used>>

CommitRemovePayment(w) ==
  LET p == request[w].payment IN
  /\ Writes(w, "remove payment")
  /\ payments' = Drop(payments, p)
  /\ allocations' = Rebuilt({request[w].from}, seen[w].schedules, Drop(seen[w].payments, p))
  /\ UNCHANGED <<today, lease, removed, schedules, used>>

\* The instalments of a contract are replaced by ones computed from the rows read.
SchedulesSaved(c, new, rows) ==
  /\ schedules' = [schedules EXCEPT ![c] = new]
  /\ allocations' = Rebuilt({c}, [rows.schedules EXCEPT ![c] = new], rows.payments)

CommitUpdateContract(w) ==
  LET c         == request[w].contract
      rows      == seen[w]
      generated == Plan[request[w].lease]
      protected == Protected(rows.schedules[c], rows.allocations[c], rows.day)
  IN
  /\ Writes(w, "update contract")
  /\ lease' = [lease EXCEPT ![c] = request[w].lease]
  /\ SchedulesSaved(c, Synced(generated, rows.schedules[c], protected), rows)
  /\ UNCHANGED <<today, removed, payments, used>>

CommitEdit(w) ==
  LET c    == request[w].contract
      rows == seen[w]
      row  == Edited(rows.schedules[c][request[w].sequence], request[w].due, request[w].amount)
  IN
  /\ Writes(w, "edit")
  /\ SchedulesSaved(c, [rows.schedules[c] EXCEPT ![request[w].sequence] = row], rows)
  /\ UNCHANGED <<today, lease, removed, payments, used>>

CommitRemoveContract(w) ==
  /\ Writes(w, "remove contract")
  /\ removed' = removed \cup {request[w].contract}
  /\ UNCHANGED <<today, lease, schedules, payments, used, allocations>>

\* Bound: no transaction lives through two midnights.
Midnight ==
  /\ \A w \in Worker : step[w] = "writing" => seen[w].day = today
  /\ Tomorrow
  /\ UNCHANGED txVars

TxCreateContract(c, l) == CreateContract(c, l) /\ UNCHANGED txVars

Commit(w) ==
  \/ CommitCreatePayment(w) \/ CommitUpdatePayment(w) \/ CommitRemovePayment(w)
  \/ CommitUpdateContract(w) \/ CommitEdit(w) \/ CommitRemoveContract(w)

Proceed(w) == LockContract(w) \/ LockPayment(w) \/ Read(w) \/ Refuse(w) \/ Commit(w)

Ask(w) ==
  \/ \E p \in Payment :
       \/ \E row \in PaymentRows : BeginCreatePayment(w, p, row) \/ BeginUpdatePayment(w, p, row)
       \/ BeginRemovePayment(w, p)
  \/ \E c \in DOMAIN lease :
       \/ \E l \in Lease : BeginUpdateContract(w, c, l)
       \/ BeginRemoveContract(w, c)
       \/ \E s \in DOMAIN schedules[c] :
            \E due \in Dates \cup {Unsent}, amount \in Amounts \cup {Unsent} :
              BeginEdit(w, c, s, due, amount)

TxNext ==
  \/ \E w \in Worker : Ask(w) \/ Proceed(w) \/ Fail(w)
  \/ \E c \in Contract, l \in Lease : TxCreateContract(c, l)
  \/ Midnight

(***************************************************************************)
(* PostgreSQL queues the waiters for a row, so a transaction that waits    *)
(* for a lock that is released again and again gets it.                    *)
(***************************************************************************)
TxSafety == TxInit /\ [][TxNext]_allVars
TxSpec == TxSafety /\ \A w \in Worker : SF_allVars(Proceed(w))

-----------------------------------------------------------------------------
(* Properties *)

(***************************************************************************)
(* What a transaction read of its contracts is unchanged until it commits: *)
(* the locks of lockContracts, update() and remove() are the only thing    *)
(* that makes the allocations it then writes those of the rows in force.   *)
(***************************************************************************)
SeenIsCurrent ==
  \A w \in Worker : step[w] = "writing" =>
    [RowsSeen(w) EXCEPT !.day = seen[w].day] = seen[w]

(***************************************************************************)
(* However transactions interleave, fail, or straddle midnight, what they  *)
(* do to the ledger are whole requests of RentLedger, one after another:   *)
(* a payment moved while its old and its new contract are edited, removed  *)
(* or paid leaves what some order of the requests would have left.         *)
(***************************************************************************)
ImplementsLedger == Spec

(***************************************************************************)
(* Every transaction ends, without a failure to help it: moves of two      *)
(* payments between two contracts, in opposite directions, do not wait for *)
(* each other (sortedContractIds).                                         *)
(***************************************************************************)
TransactionsEnd == \A w \in Worker : []<>(step[w] = "idle")
=============================================================================
