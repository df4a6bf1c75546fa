------------------------- MODULE RentReconciliation -------------------------
(***************************************************************************)
(* The reconciliation of tenants, rent-reconciliation.service.ts, over a   *)
(* ledger: the list by year, tenant and status, and the detail with the    *)
(* periods and their payments. Tenants are those whom the contracts name;  *)
(* `name' gives every contract its tenant's name, so that one tenant may   *)
(* have several contracts.                                                 *)
(***************************************************************************)
EXTENDS RentViews

CONSTANTS
    Names,        \* the names contracts can give, one of them blank
    BlankName,
    Unknown       \* the name shown for a blank one

NormalizeTenantName(n) == IF n = BlankName THEN Unknown ELSE n

YearOf(row) == row.start \div 10000

(* The instalments of contracts that are not deleted, by tenant.           *)
LiveRows == UNION {{<<c, s>> : s \in DOMAIN schedules[c]} : c \in LiveContracts}

RowsOf(name, tenant) == {x \in LiveRows : NormalizeTenantName(name[x[1]]) = tenant}

PaymentsOfTenant(name, tenant) ==
    {p \in DOMAIN payments : /\ payments[p].contract \in LiveContracts
                             /\ NormalizeTenantName(name[payments[p].contract]) = tenant}

\* Mutant: the year is that the period ends in.
MutantSelected(rows, year) ==
    {x \in rows : \A y \in year : schedules[x[1]][x[2]].end \div 10000 = y}

(* The year is that a period starts in; none selects all.                  *)
Selected(rows, year) == {x \in rows : \A y \in year : YearOf(schedules[x[1]][x[2]]) = y}

AvailableYears == {YearOf(schedules[x[1]][x[2]]) : x \in LiveRows}

(* serializePeriod: a payment that is allocated twice is one line.         *)
\* Mutant: the allocations of every tenant's contracts.
MutantActive(x) ==
    {r \in UNION {allocations[c] : c \in LiveContracts} :
        r.sequence = x[2] /\ r.payment \in DOMAIN payments}

Active(x) ==
    {r \in allocations[x[1]] : r.sequence = x[2] /\ r.payment \in DOMAIN payments}

Lines(x) ==
    [p \in {r.payment : r \in Active(x)} |->
        SumFunction([r \in {q \in Active(x) : q.payment = p} |-> r.amount])]

SerializePeriod(x) ==
    LET row == schedules[x[1]][x[2]]
        paid == SumFunction([r \in Active(x) |-> r.amount])
    IN  [due |-> row.due, receivable |-> row.amount, paid |-> paid,
         outstanding |-> IF IsDue(row) THEN Larger(row.amount - paid, 0) ELSE 0,
         prepaid |-> IF IsDue(row) THEN 0 ELSE paid,
         status |-> PeriodStatus(row, paid), payments |-> Lines(x)]

\* Mutant: what is paid in advance goes before what is not allocated.
MutantLedgerStatus(outstanding, unallocated, prepaid) ==
    CASE prepaid > 0     -> "prepaid"
      [] prepaid = 0 /\ outstanding > 0 -> "outstanding"
      [] prepaid = 0 /\ outstanding = 0 /\ unallocated > 0 -> "credit"
      [] OTHER           -> "settled"

LedgerStatus(outstanding, unallocated, prepaid) ==
    CASE outstanding > 0 -> "outstanding"
      [] outstanding = 0 /\ unallocated > 0 -> "credit"
      [] outstanding = 0 /\ unallocated = 0 /\ prepaid > 0 -> "prepaid"
      [] OTHER           -> "settled"

(* What is not allocated is that of all years.                             *)
Unallocated(rows, received) ==
    Larger(SumFunction([p \in received |-> payments[p].amount])
             - SumFunction([x \in rows |-> SumFunction([r \in Active(x) |-> r.amount])]), 0)

BuildTenantLedger(tenant, schedulesOfTenant, paymentsOfTenant, year) ==
    LET rows == Selected(schedulesOfTenant, year)
        periods == [x \in rows |-> SerializePeriod(x)]
        due == {x \in rows : periods[x].due <= today}
        dueReceivable == SumFunction([x \in due |-> periods[x].receivable])
        duePaid == SumFunction([x \in due |-> periods[x].paid])
        outstanding == Larger(dueReceivable - duePaid, 0)
        prepaid == SumFunction([x \in rows \ due |-> periods[x].paid])
        unallocated == Unallocated(schedulesOfTenant, paymentsOfTenant)
    IN  [tenant |-> tenant, periods |-> periods, dueReceivable |-> dueReceivable,
         duePaid |-> duePaid, outstanding |-> outstanding, prepaid |-> prepaid,
         unallocated |-> unallocated,
         lastPayment |-> {payments[p].date : p \in UNION {DOMAIN periods[x].payments : x \in rows}},
         status |-> LedgerStatus(outstanding, unallocated, prepaid)]

(* loadLedgers: a tenant without a period in the year has none.            *)
Tenants(name, year) ==
    {NormalizeTenantName(name[x[1]]) : x \in Selected(LiveRows, year)}

LedgerOf(name, tenant, year) ==
    BuildTenantLedger(tenant, RowsOf(name, tenant), PaymentsOfTenant(name, tenant), year)

Ledgers(name, year) == {LedgerOf(name, t, year) : t \in Tenants(name, year)}

(* list and detail, of what loadLedgers gave. A keyword is a tenant's      *)
(* whole name here.                                                        *)
ListOf(ledgers, keyword, status) ==
    {l \in ledgers : keyword \subseteq {l.tenant} /\ status \subseteq {l.status}}

\* Mutant: the tenant is looked for by the name as it was given.
MutantDetailOf(ledgers, tenant) == {l \in ledgers : l.tenant = tenant}

DetailOf(ledgers, tenant) == {l \in ledgers : l.tenant = NormalizeTenantName(tenant)}
-----------------------------------------------------------------------------
(* Properties *)

\* The names that the contracts there are may give.
AllNames == [LiveContracts -> Names]

\* All years, or one of those that can be chosen.
YearsAsked == {{}} \cup {{y} : y \in AvailableYears}

(***************************************************************************)
(* The ledgers of the years a tenant can be looked at in add up to the     *)
(* ledger of all years, and each says the same of what is not allocated:   *)
(* no period is in two years or in none, also after due dates were moved   *)
(* into another year.                                                      *)
(***************************************************************************)
LedgersOfYearsAddUp(whole, ofYears) ==
    /\ \A field \in {"dueReceivable", "duePaid", "outstanding", "prepaid"} :
          whole[field] = SumFunction([l \in ofYears |-> l[field]])
    /\ \A l \in ofYears : l.unallocated = whole.unallocated

(***************************************************************************)
(* A ledger is what its periods say: what they show as outstanding and as  *)
(* paid in advance adds up to its figures; it is in arrears when one of    *)
(* them is, settled only when nothing is owed, paid in advance or left     *)
(* over.                                                                   *)
(***************************************************************************)
StatusOfPeriods(l) ==
    LET of(s) == {x \in DOMAIN l.periods : l.periods[x].status = s} IN
    /\ \A field \in {"outstanding", "prepaid"} :
          l[field] = SumFunction([x \in DOMAIN l.periods |-> l.periods[x][field]])
    /\ l.status = "outstanding" <=> of("overdue") # {}
    /\ l.status = "settled" =>
          DOMAIN l.periods = of("settled") \cup of("not_due") /\ l.unallocated = 0
    /\ l.status = "prepaid" => of("prepaid") \cup of("partially_prepaid") # {}

(***************************************************************************)
(* Every payment of a tenant is shown with all of its money: the lines of  *)
(* the periods and what is not allocated add up to what was received, and  *)
(* no payment has lines for more than its amount.                          *)
(***************************************************************************)
LinesAddUp(l, received) ==
    LET line == [p \in received |->
            SumFunction([x \in {y \in DOMAIN l.periods : p \in DOMAIN l.periods[y].payments} |->
                           l.periods[x].payments[p]])]
    IN  /\ \A p \in received : line[p] <= payments[p].amount
        /\ UNION {DOMAIN l.periods[x].payments : x \in DOMAIN l.periods} \subseteq received
        /\ SumFunction(line) + l.unallocated
             = SumFunction([p \in received |-> payments[p].amount])

(***************************************************************************)
(* A tenant's detail of a year is there exactly when the list of that year *)
(* has the tenant, and the filters by its tenant and status find only it.  *)
(***************************************************************************)
ListHasDetails(ledgers) ==
    \A n \in Names :
        LET tenant == {NormalizeTenantName(n)}
            detail == DetailOf(ledgers, n)
        IN  /\ detail # {} <=> tenant \subseteq {l.tenant : l \in ledgers}
            /\ ListOf(ledgers, tenant, {l.status : l \in detail}) = detail
            /\ Cardinality(detail) <= 1

(***************************************************************************)
(* What the reconciliation of a tenant shows in one way it shows in every  *)
(* other: year by year and whole, as a status and as periods, as lines of  *)
(* payments and as sums, in the list and in the detail.                    *)
(***************************************************************************)
TenantsAgree ==
    \A name \in AllNames :
        LET all == Ledgers(name, {})
            ofYears == UNION {Ledgers(name, {y}) : y \in AvailableYears}
        IN  /\ \A l \in all :
                  /\ LedgersOfYearsAddUp(l, {m \in ofYears : m.tenant = l.tenant})
                  /\ LinesAddUp(l, PaymentsOfTenant(name, l.tenant))
            /\ \A l \in all \cup ofYears : StatusOfPeriods(l)
            /\ \A year \in YearsAsked : ListHasDetails(Ledgers(name, year))
=============================================================================
