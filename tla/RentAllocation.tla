--------------------------- MODULE RentAllocation ---------------------------
(***************************************************************************)
(* How rent payments are spread over the instalments of one contract:      *)
(* rent-receivables/rent-allocation.ts, and the prefix sums with which     *)
(* migration 1712600000000 did the same in SQL for the rows that existed   *)
(* before.                                                                 *)
(*                                                                         *)
(* Instalments are a function from sequence numbers to rows with a due     *)
(* date and an amount, payments one from ids to rows with a date and an    *)
(* amount. Amounts are cents; fromCents and toCents are exact on them.     *)
(***************************************************************************)
EXTENDS Integers, SequencesExt

PaymentBefore(pay, p, q) ==
  pay[p].date < pay[q].date \/ (pay[p].date = pay[q].date /\ p < q)

\* Mutant: instalments in the order of their numbers, whatever their due dates.
MutantScheduleBefore(sch, s, t) == s < t

ScheduleBefore(sch, s, t) ==
  sch[s].due < sch[t].due \/ (sch[s].due = sch[t].due /\ s < t)

\* The rows with a positive amount.
Rows(amounts) ==
  {[payment |-> x[1], sequence |-> x[2], amount |-> amounts[x]] :
     x \in {y \in DOMAIN amounts : amounts[y] > 0}}

Smaller(a, b) == IF a < b THEN a ELSE b
Larger(a, b) == IF a < b THEN b ELSE a

\* The elements of a set in an order, which is given as its pairs.
InOrder(set, before) ==
  CHOOSE line \in [1 .. Cardinality(set) -> set] :
    \A i, j \in DOMAIN line : i < j => <<line[i], line[j]>> \in before

PaymentOrder(pay) ==
  {x \in (DOMAIN pay) \X (DOMAIN pay) : PaymentBefore(pay, x[1], x[2])}

ScheduleOrder(sch) ==
  {x \in (DOMAIN sch) \X (DOMAIN sch) : ScheduleBefore(sch, x[1], x[2])}

\* Mutant: the payment keeps what it has handed over.
MutantHandOver(loop, p, s, allocated) ==
  [remaining |-> loop.remaining,
   available |-> [loop.available EXCEPT ![s] = @ - allocated],
   amounts   |-> [loop.amounts EXCEPT ![<<p, s>>] = allocated]]

HandOver(loop, p, s, allocated) ==
  [remaining |-> [loop.remaining EXCEPT ![p] = @ - allocated],
   available |-> [loop.available EXCEPT ![s] = @ - allocated],
   amounts   |-> [loop.amounts EXCEPT ![<<p, s>>] = allocated]]

\* A payment and an instalment: they hand over what both sides still have.
Meet(loop, p, s) == HandOver(loop, p, s, Smaller(loop.remaining[p], loop.available[s]))

\* A payment meets the instalments one after the other.
Spend(start, p, instalments) ==
  LET after[i \in 0 .. Len(instalments)] ==
        IF i = 0 THEN start ELSE Meet(after[i - 1], p, instalments[i])
  IN  after[Len(instalments)]

\* The payments are spent one after the other.
Settle(start, line, instalments) ==
  LET after[i \in 0 .. Len(line)] ==
        IF i = 0 THEN start ELSE Spend(after[i - 1], line[i], instalments)
  IN  after[Len(line)]

Unsettled(sch, pay) ==
  [remaining |-> [p \in DOMAIN pay |-> pay[p].amount],
   available |-> [s \in DOMAIN sch |-> sch[s].amount],
   amounts   |-> [x \in (DOMAIN pay) \X (DOMAIN sch) |-> 0]]

Allocate(sch, pay) ==
  Rows(Settle(Unsettled(sch, pay), InOrder(DOMAIN pay, PaymentOrder(pay)),
              InOrder(DOMAIN sch, ScheduleOrder(sch))).amounts)

AmountsOf(rows) == [x \in DOMAIN rows |-> rows[x].amount]

PaidBefore(pay, p) ==
  SumFunctionOnSet(AmountsOf(pay), {q \in DOMAIN pay : PaymentBefore(pay, q, p)})

DueBefore(sch, s) ==
  SumFunctionOnSet(AmountsOf(sch), {t \in DOMAIN sch : ScheduleBefore(sch, t, s)})

\* What the stretch of the line that a payment covers has in common with an instalment's.
Overlap(sch, pay, p, s) ==
  Smaller(PaidBefore(pay, p) + pay[p].amount, DueBefore(sch, s) + sch[s].amount)
    - Larger(PaidBefore(pay, p), DueBefore(sch, s))

\* The reference: lay all payments and all instalments end to end, each in its
\* order, on one line of cents; a payment pays for the instalments it overlaps.
PrefixSums(sch, pay) ==
  Rows([x \in (DOMAIN pay) \X (DOMAIN sch) |-> Larger(Overlap(sch, pay, x[1], x[2]), 0)])
=============================================================================
