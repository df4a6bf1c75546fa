-------------------------- MODULE MCRentTransactions --------------------------
(***************************************************************************)
(* Two instances of RentLedgerTx, of which a behaviour is one, which part  *)
(* names: "extended", where the lease of one contract is extended while    *)
(* its second instalment falls due, and "crossing", where two payments     *)
(* cross between two contracts. The variables of the first stay as they    *)
(* are at first while the other is at work.                                *)
(***************************************************************************)
EXTENDS MCRentLedgerTx

VARIABLES part, day, leases, deleted, instalments, received, taken, settled,
          crossStep, crossRequest, crossWait, crossLocks, crossSeen

Crossing == INSTANCE RentLedgerTx WITH
    today <- day, lease <- leases, removed <- deleted, schedules <- instalments,
    payments <- received, used <- taken, allocations <- settled,
    step <- crossStep, request <- crossRequest, wait <- crossWait, locks <- crossLocks,
    seen <- crossSeen, Contract <- {1, 2}, Lease <- OneLease, Days <- {20240201}

\* The ledger that the crossing payments write.
Ledger == INSTANCE RentLedger WITH
    today <- day, lease <- leases, removed <- deleted, schedules <- instalments,
    payments <- received, used <- taken, allocations <- settled,
    Contract <- {1, 2}, Lease <- OneLease, Days <- {20240201}

crossVars == <<day, leases, deleted, instalments, received, taken, settled,
               crossStep, crossRequest, crossWait, crossLocks, crossSeen>>
-----------------------------------------------------------------------------
Unused(x) == x = "not in use"

MCInit ==
  /\ TxInit
  /\ \/ /\ part = "extended"
        /\ Unused(day) /\ Unused(leases) /\ Unused(deleted) /\ Unused(instalments)
        /\ Unused(received) /\ Unused(taken) /\ Unused(settled) /\ Unused(crossStep)
        /\ Unused(crossRequest) /\ Unused(crossWait) /\ Unused(crossLocks) /\ Unused(crossSeen)
     \/ part = "crossing" /\ Crossing!TxInit /\ today = 20240201

MCNext ==
  \/ part = "extended" /\ TxNext /\ UNCHANGED <<part, crossVars>>
  \/ part = "crossing" /\ Crossing!TxNext /\ UNCHANGED <<part, allVars>>

MCSpec ==
  /\ MCInit /\ [][MCNext]_<<part, allVars, crossVars>>
  /\ \A w \in Worker : SF_crossVars(part = "crossing" /\ Crossing!Proceed(w))

(***************************************************************************)
(* Each commit of a payment that crosses is a whole request of the ledger  *)
(* (ImplementsLedger in RentLedgerTx): the allocations of both contracts   *)
(* are those of the payments in force, though the other payment crossed    *)
(* meanwhile; and neither waits for the other for ever (TransactionsEnd).  *)
(***************************************************************************)
CrossingsHold ==
  /\ [][part = "crossing" => Ledger!Next]_<<day, leases, deleted, instalments, received, taken, settled>>
  /\ \A w \in Worker : []<>(part = "crossing" => crossStep[w] = "idle")
===============================================================================
