----------------------------- MODULE RentViews ------------------------------
(***************************************************************************)
(* What the pages show of a ledger: the list of instalments, the summary   *)
(* of a contract (both rent-receivables.service.ts) and the reconciliation *)
(* of a tenant (rent-reconciliation.service.ts) and the arrears on the     *)
(* page of units (units-page.query.ts, in SQL). They compute the same      *)
(* figures each in its own way.                                            *)
(***************************************************************************)
EXTENDS RentLedger

\* Mutant: the list takes an instalment for due from the day after.
MutantIsDue(row) == row.due < today

IsDue(row) == row.due <= today

PeriodStatus(row, paid) ==
  CASE IsDue(row) /\ paid >= row.amount    -> "settled"
    [] IsDue(row) /\ paid < row.amount     -> "overdue"
    [] ~IsDue(row) /\ paid = 0             -> "not_due"
    [] ~IsDue(row) /\ paid \in 1 .. row.amount - 1 -> "partially_prepaid"
    [] OTHER                               -> "prepaid"

(* serializeSchedule: a row of the list *)
ListRow(c, s) ==
  LET row         == schedules[c][s]
      paid        == Allocated(allocations[c], s)
      duePaid     == IF IsDue(row) THEN Smaller(paid, row.amount) ELSE 0
      outstanding == IF IsDue(row) THEN Larger(row.amount - duePaid, 0) ELSE 0
  IN
  [dueReceivable |-> IF IsDue(row) THEN row.amount ELSE 0,
   duePaid       |-> duePaid,
   outstanding   |-> outstanding,
   prepaid       |-> IF IsDue(row) THEN 0 ELSE paid,
   status        |-> IF ~IsDue(row) THEN PeriodStatus(row, paid)
                     ELSE IF outstanding = 0 THEN "settled" ELSE "overdue"]

(* getContractSummaries *)
Summary(c) ==
  LET paid(s)  == Allocated(allocations[c], s)
      due      == {s \in DOMAIN schedules[c] : schedules[c][s].due <= today}
      future   == DOMAIN schedules[c] \ due
      received == SumFunction(AmountsOf(PaymentsOf(payments, c)))
      dueReceivable == SumFunction([s \in due |-> schedules[c][s].amount])
      duePaid == SumFunction([s \in due |-> Smaller(schedules[c][s].amount, paid(s))])
  IN
  [dueReceivable |-> dueReceivable,
   duePaid       |-> duePaid,
   outstanding   |-> Larger(dueReceivable - duePaid, 0),
   prepaid       |-> SumFunction([s \in future |-> paid(s)]),
   unallocated   |-> Larger(received - SumFunction([s \in DOMAIN schedules[c] |-> paid(s)]), 0)]

\* activeAllocation: the reconciliation leaves out allocations of deleted payments.
ActivePaid(c, s) == Allocated({r \in allocations[c] : r.payment \in DOMAIN payments}, s)

(* buildTenantLedger, for a tenant with the contracts given, all years *)
TenantLedger(contracts) ==
  LET rows     == UNION {{c} \X DOMAIN schedules[c] : c \in contracts}
      due      == {x \in rows : schedules[x[1]][x[2]].due <= today}
      paid(x)  == ActivePaid(x[1], x[2])
      received == SumFunction([p \in {q \in DOMAIN payments : payments[q].contract \in contracts} |->
                                 payments[p].amount])
      dueReceivable == SumFunction([x \in due |-> schedules[x[1]][x[2]].amount])
      duePaid       == SumFunction([x \in due |-> paid(x)])
  IN
  [dueReceivable |-> dueReceivable,
   duePaid       |-> duePaid,
   outstanding   |-> Larger(dueReceivable - duePaid, 0),
   prepaid       |-> SumFunction([x \in rows \ due |-> paid(x)]),
   unallocated   |-> Larger(received - SumFunction([x \in rows |-> paid(x)]), 0)]

\* UNITS_PAGE_QUERY: what the contracts of a unit owe.
PageOutstanding(contracts) ==
  SumFunction([c \in contracts |->
    SumFunction([s \in {t \in DOMAIN schedules[c] : IsDue(schedules[c][t])} |->
      Larger(schedules[c][s].amount - Allocated(allocations[c], s), 0)])])

-----------------------------------------------------------------------------
(* Properties *)

LiveContracts == {c \in DOMAIN lease : Live(c)}

(***************************************************************************)
(* The views show the same: the rows of the list add up to the summary of  *)
(* the contract, the summaries to the tenant's reconciliation and to the   *)
(* arrears of the unit, and list and reconciliation give each instalment   *)
(* the same status. Each takes its own minimum, maximum or filter in its   *)
(* own place.                                                              *)
(***************************************************************************)
ViewsAgree ==
  /\ \A c \in LiveContracts :
       /\ \A field \in {"dueReceivable", "duePaid", "outstanding", "prepaid"} :
            Summary(c)[field] = SumFunction([s \in DOMAIN schedules[c] |-> ListRow(c, s)[field]])
       /\ \A s \in DOMAIN schedules[c] :
            ListRow(c, s).status = PeriodStatus(schedules[c][s], ActivePaid(c, s))
  /\ \A field \in DOMAIN TenantLedger(LiveContracts) :
       TenantLedger(LiveContracts)[field]
         = SumFunction([c \in LiveContracts |-> Summary(c)[field]])
  /\ \A contracts \in SUBSET LiveContracts :
       PageOutstanding(contracts) = SumFunction([c \in contracts |-> Summary(c).outstanding])

(***************************************************************************)
(* Every cent received is shown once: as paid, as paid in advance or as    *)
(* unallocated; and every cent due as paid or outstanding. The max(_, 0)   *)
(* of getContractSummaries would hide a cent counted twice.                *)
(***************************************************************************)
CentsConserved ==
  \A c \in LiveContracts :
    LET received == SumFunction(AmountsOf(PaymentsOf(payments, c)))
    IN  /\ received = Summary(c).duePaid + Summary(c).prepaid + Summary(c).unallocated
        /\ Summary(c).dueReceivable = Summary(c).duePaid + Summary(c).outstanding

(***************************************************************************)
(* A contract in arrears has no credit and nothing paid in advance: money  *)
(* goes to the instalment due first, also after a due date was moved or a  *)
(* payment was moved to another contract.                                  *)
(***************************************************************************)
ArrearsExcludeCredit ==
  \A c \in LiveContracts :
    Summary(c).outstanding > 0 => Summary(c).prepaid = 0 /\ Summary(c).unallocated = 0

(***************************************************************************)
(* What the pages may never do with the cents of a ledger: show another    *)
(* sum of them on another page, lose or repeat one received, or show a     *)
(* credit beside an instalment overdue.                                    *)
(***************************************************************************)
FiguresAgree == ViewsAgree /\ CentsConserved /\ ArrearsExcludeCredit
=============================================================================
