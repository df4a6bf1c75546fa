--------------------------- MODULE UtilityBilling ---------------------------
(***************************************************************************)
(* Water and power charges (backend/src/utilities) of one unit, one type   *)
(* and one contract: meters, prefilled readings, charge records and their  *)
(* items. No handler of this service opens a transaction of its own: an    *)
(* update deletes the items of its record and saves the record with new    *)
(* ones later, and a payment writes back the row it read. The receipts     *)
(* that forbid a change are in ReceiptIssuing.                             *)
(*                                                                         *)
(* Readings, usages and amounts are hundredths. repository.save() is one   *)
(* transaction: it writes every column of the entity it is given, inserts  *)
(* the items that the database no longer has, and fails when the database  *)
(* has items the entity does not know (their recordId cannot be null).     *)
(***************************************************************************)
EXTENDS Naturals, FiniteSets, FiniteSetsExt

CONSTANTS Meters, Records,
          Tabs,        \* browser tabs, each with at most one request in flight
          Readings,    \* what a meter may show
          Multipliers,
          Terms,       \* what a contract may charge: price per unit and line loss
          Vouchers,    \* stored files that prove a payment
          LastDay,     \* BOUND: days
          PaidDays,    \* days of payment that are sent; 0 when none is
          MaxSaves,    \* BOUND: sets of items ever inserted
          Orderly,     \* readings are entered through the prefilled form in one tab, dated
                       \* today, and only the newest record is edited or removed
          Faults       \* subset of {"crash"}

ASSUME BillingConstants ==
    /\ Readings \subseteq Nat /\ Multipliers \subseteq Nat
    /\ Terms \subseteq [price : Nat, loss : Nat]
    /\ LastDay \in Nat \ {0} /\ MaxSaves \in Nat /\ PaidDays \subseteq 0..LastDay
    /\ Orderly \in BOOLEAN /\ Faults \subseteq {"crash"}

VARIABLES meters,   \* the meter configurations
          terms,    \* the contract's price and line loss
          records,  \* the charge records
          items,    \* their items, with the save that inserted them
          request,  \* what each tab is doing
          saves,    \* how many sets of items were inserted, which also orders createdAt
          today

vars == <<meters, terms, records, items, request, saves, today>>

Days == 1..LastDay
NoDay == 0
NoMeter == [state |-> "new"]
Meter == [state : {"enabled", "disabled", "removed"}, initial : Readings, multiplier : Multipliers]

Input == [previous : Readings, current : Readings]
Line == [previous : Readings, current : Readings, amount : Nat]
NotRead == [read |-> FALSE]
Lines == [Meters -> Line \cup {NotRead}]
NoLines == [m \in Meters |-> NotRead]
NoItems == [save |-> 0, lines |-> NoLines]
Items == [save : 1..MaxSaves, lines : Lines] \cup {NoItems}

NoRow == [state |-> "new"]
Row == [state : {"live", "removed"}, paid : BOOLEAN, paidAt : Days \cup {NoDay},
        from : Days, to : Days, amount : Nat, vouchers : SUBSET Vouchers, made : 1..MaxSaves]

Idle == [step |-> "idle"]
Form == [step : {"form"}, shown : [Meters -> Input \cup {NotRead}], from : Days]
Entry == [step : {"computed"}, record : Records, new : BOOLEAN,
          lines : Lines, from : Days, to : Days]
Update == [step : {"loaded", "cleared"}, record : Records, row : Row, lines : Lines]
Payment == [step : {"paying"}, record : Records, row : Row, items : Items, sends : BOOLEAN]

TypeOK ==
    /\ meters \in [Meters -> Meter \cup {NoMeter}]
    /\ terms \in Terms
    /\ records \in [Records -> Row \cup {NoRow}]
    /\ items \in [Records -> Items]
    /\ request \in [Tabs -> {Idle} \cup Form \cup Entry \cup Update \cup Payment]
    /\ saves \in 0..MaxSaves /\ today \in Days

Configured(m) == meters[m].state \in {"enabled", "disabled"}
Live(r) == records[r].state = "live"
LinesIn(r) == IF Live(r) THEN items[r].lines ELSE NoLines

\* The records of the list in getPrefill: currentReadAt DESC, createdAt DESC.
After(r, q) ==
    \/ records[r].to > records[q].to
    \/ records[r].to = records[q].to /\ records[r].made > records[q].made
ReadIn(m) == {r \in Records : LinesIn(r)[m] # NotRead}

Latest(S) == CHOOSE r \in S : \A q \in S \ {r} : After(r, q)
Newest(r) == Live(r) /\ \A q \in Records \ {r} : Live(q) => After(r, q)

Alone(t) == Orderly => \A u \in Tabs : request[u] = Idle \/ u = t
Finish(t) == request' = [request EXCEPT ![t] = Idle]

-----------------------------------------------------------------------------
(* calculateUtilityCharge. A half is rounded up; in the code the binary   *)
(* fraction decides, and the instances have no halves.                    *)

Round2(n, d) == (2 * n + d) \div (2 * d)
Usage(x, multiplier) == (x.current - x.previous) * multiplier
AdjustedUsage(usage, tm) == Round2(usage * (100 + tm.loss), 100)
Amount(adjusted, tm) == Round2(adjusted * tm.price, 100)

Charge(x, m) == Amount(AdjustedUsage(Usage(x, meters[m].multiplier), terms), terms)
ChargedLines(input) ==
    [m \in Meters |-> IF input[m] = NotRead THEN NotRead
                      ELSE [previous |-> input[m].previous, current |-> input[m].current,
                            amount |-> Charge(input[m], m)]]
Total(lines) == MapThenSumSet(LAMBDA m : lines[m].amount, {m \in Meters : lines[m] # NotRead})

-----------------------------------------------------------------------------
(* Meters and contract *)

CreateMeter(m, initial, multiplier) ==
    /\ meters[m] = NoMeter
    /\ meters' = [meters EXCEPT ![m] = [state |-> "enabled", initial |-> initial, multiplier |-> multiplier]]
    /\ UNCHANGED <<terms, records, items, request, saves, today>>

UpdateMeter(m, state, initial) ==
    /\ Configured(m)
    /\ meters' = [meters EXCEPT ![m].state = state, ![m].initial = initial]
    /\ UNCHANGED <<terms, records, items, request, saves, today>>

RemoveMeter(m) ==
    /\ Configured(m)
    /\ meters' = [meters EXCEPT ![m].state = "removed"]
    /\ UNCHANGED <<terms, records, items, request, saves, today>>

\* PUT /contracts changes the price or the line loss of later records.
ChangeTerms(tm) ==
    /\ terms' = tm
    /\ UNCHANGED <<meters, records, items, request, saves, today>>

-----------------------------------------------------------------------------
(* Reading a form, and saving a record *)

\* Mutant: only the newest record is asked, whether or not it has the meter.
MutantPreviousReading(m) ==
    LET live == {r \in Records : Live(r)} IN
    IF live # {} /\ LinesIn(Latest(live))[m] # NotRead
    THEN LinesIn(Latest(live))[m].current ELSE meters[m].initial

\* The latest item of the meter in any record, or the meter's first reading.
PreviousReading(m) ==
    IF ReadIn(m) = {} THEN meters[m].initial ELSE LinesIn(Latest(ReadIn(m)))[m].current

\* getPrefill, and the form of the page: its date is that of the meter that comes first by
\* name, so that of any, or today.
Prefill(t) ==
    LET enabled == {m \in Meters : meters[m].state = "enabled"} IN
    /\ request[t] = Idle /\ Alone(t)
    /\ \E from \in {today} \cup {records[Latest(ReadIn(m))].to : m \in {k \in enabled : ReadIn(k) # {}}} :
         request' = [request EXCEPT ![t] = [step |-> "form", from |-> from,
                       shown |-> [m \in Meters |->
                         IF m \in enabled THEN [previous |-> PreviousReading(m), current |-> PreviousReading(m)]
                         ELSE NotRead]]]
    /\ UNCHANGED <<meters, terms, records, items, saves, today>>

CloseForm(t) ==
    /\ request[t].step = "form"
    /\ Finish(t)
    /\ UNCHANGED <<meters, terms, records, items, saves, today>>

\* Mutant: readings may go back.
MutantCompute(t, r, new, input, from, to) ==
    /\ to >= from
    /\ \A m \in Meters : input[m] # NotRead => Configured(m)
    /\ request' = [request EXCEPT ![t] = [step |-> "computed", record |-> r, new |-> new,
                     lines |-> ChargedLines(input), from |-> from, to |-> to]]
    /\ UNCHANGED <<meters, terms, records, items, saves, today>>

\* saveRecord as far as it reads the contract and the meters: dates and readings must not
\* go back, and the meters must be there. Whether they are enabled does not matter.
Compute(t, r, new, input, from, to) ==
    /\ to >= from
    /\ \A m \in Meters : input[m] # NotRead =>
         Configured(m) /\ input[m].current >= input[m].previous
    /\ request' = [request EXCEPT ![t] = [step |-> "computed", record |-> r, new |-> new,
                     lines |-> ChargedLines(input), from |-> from, to |-> to]]
    /\ UNCHANGED <<meters, terms, records, items, saves, today>>

SamePrevious(input, lines) ==
    \A m \in Meters : IF lines[m] = NotRead THEN input[m] = NotRead
                      ELSE input[m] # NotRead /\ input[m].previous = lines[m].previous

\* The prefilled form is submitted: somebody typed what the meters show now.
Submit(t) ==
    /\ request[t].step = "form"
    /\ \E r \in Records, input \in [Meters -> Input \cup {NotRead}] :
         /\ records[r] = NoRow
         /\ SamePrevious(input, request[t].shown)
         /\ Compute(t, r, TRUE, input, request[t].from, today)

\* Any other POST: readings that were typed over what the form proposed.
SubmitTyped(t, r, input, from, to) ==
    /\ request[t] = Idle /\ ~Orderly
    /\ records[r] = NoRow
    /\ Compute(t, r, TRUE, input, from, to)

\* PUT /utilities/:id, from a form that was opened with the record.
SubmitEdit(t, r, input, from, to) ==
    /\ request[t] = Idle /\ Alone(t)
    /\ records[r] # NoRow
    /\ Orderly => /\ Newest(r) /\ from = records[r].from /\ to = records[r].to
                  /\ SamePrevious(input, LinesIn(r))
    /\ Compute(t, r, FALSE, input, from, to)

\* A record of its own: unpaid, with the items that were computed.
SaveNew(t) ==
    LET q == request[t] IN
    /\ q.step = "computed" /\ q.new /\ records[q.record] = NoRow
    /\ saves < MaxSaves
    /\ saves' = saves + 1
    /\ records' = [records EXCEPT ![q.record] =
                     [state |-> "live", paid |-> FALSE, paidAt |-> NoDay, from |-> q.from, to |-> q.to,
                      amount |-> Total(q.lines), vouchers |-> {}, made |-> saves']]
    /\ items' = [items EXCEPT ![q.record] = [save |-> saves', lines |-> q.lines]]
    /\ Finish(t)
    /\ UNCHANGED <<meters, terms, today>>

\* findRecordOrFail; what the update changes is set on the row that was found.
LoadForUpdate(t) ==
    LET q == request[t] IN
    /\ q.step = "computed" /\ ~q.new /\ Live(q.record)
    /\ request' = [request EXCEPT ![t] =
                     [step |-> "loaded", record |-> q.record, lines |-> q.lines,
                      row |-> [records[q.record] EXCEPT !.from = q.from, !.to = q.to,
                                                        !.amount = Total(q.lines)]]]
    /\ UNCHANGED <<meters, terms, records, items, saves, today>>

DeleteItems(t) ==
    LET q == request[t] IN
    /\ q.step = "loaded"
    /\ items' = [items EXCEPT ![q.record] = NoItems]
    /\ request' = [request EXCEPT ![t].step = "cleared"]
    /\ UNCHANGED <<meters, terms, records, saves, today>>

\* Mutant: the row is saved whatever items it has by then, and keeps them.
MutantSaveUpdate(t) ==
    LET q == request[t] IN
    /\ q.step = "cleared" /\ saves < MaxSaves
    /\ saves' = saves + 1
    /\ records' = [records EXCEPT ![q.record] = q.row]
    /\ items' = [items EXCEPT ![q.record] =
                   IF items[q.record] = NoItems THEN [save |-> saves', lines |-> q.lines] ELSE items[q.record]]
    /\ Finish(t)
    /\ UNCHANGED <<meters, terms, today>>

SaveUpdate(t) ==
    LET q == request[t] IN
    /\ q.step = "cleared" /\ items[q.record] = NoItems
    /\ saves < MaxSaves
    /\ saves' = saves + 1
    /\ records' = [records EXCEPT ![q.record] = q.row]
    /\ items' = [items EXCEPT ![q.record] = [save |-> saves', lines |-> q.lines]]
    /\ Finish(t)
    /\ UNCHANGED <<meters, terms, today>>

\* Mutant: a record that was unpaid gets no date of payment when none was sent.
MutantPaidOn(row, day) == IF day # NoDay THEN day ELSE row.paidAt

\* The date sent, or the one it had, or today.
PaidOn(row, day) == IF day # NoDay THEN day ELSE IF row.paid THEN row.paidAt ELSE today

\* markAsPaid: the row is found, and written back with its items later. Vouchers that were
\* not sent are kept as they were read.
Pay(t, r, day, files, sends) ==
    /\ request[t] = Idle /\ Alone(t)
    /\ Live(r)
    /\ ~sends => files = records[r].vouchers
    /\ request' = [request EXCEPT ![t] =
                     [step |-> "paying", record |-> r, items |-> items[r], sends |-> sends,
                      row |-> [records[r] EXCEPT !.paid = TRUE, !.paidAt = PaidOn(records[r], day),
                                                 !.vouchers = files]]]
    /\ UNCHANGED <<meters, terms, records, items, saves, today>>

\* Items that were deleted meanwhile are inserted again.
SavePayment(t) ==
    LET q == request[t] IN
    /\ q.step = "paying" /\ items[q.record] \in {q.items, NoItems}
    /\ records' = [records EXCEPT ![q.record] = q.row]
    /\ items' = [items EXCEPT ![q.record] = q.items]
    /\ Finish(t)
    /\ UNCHANGED <<meters, terms, saves, today>>

\* A record or a meter is not there, a receipt forbids the change, the items do not fit
\* the row, or the connection is lost.
RequestFails(t) ==
    /\ request[t].step \in {"computed", "loaded", "cleared", "paying"}
    /\ Finish(t)
    /\ UNCHANGED <<meters, terms, records, items, saves, today>>

\* The row and its items stay, and no query finds them any more.
RemoveRecord(r) ==
    /\ Live(r)
    /\ Orderly => Newest(r) /\ \A t \in Tabs : request[t] = Idle
    /\ records' = [records EXCEPT ![r].state = "removed"]
    /\ UNCHANGED <<meters, terms, items, request, saves, today>>

Crash ==
    /\ "crash" \in Faults
    /\ \E t \in Tabs : request[t] # Idle
    /\ request' = [t \in Tabs |-> Idle]
    /\ UNCHANGED <<meters, terms, records, items, saves, today>>

NextDay ==
    /\ today < LastDay
    /\ today' = today + 1
    /\ UNCHANGED <<meters, terms, records, items, request, saves>>

Init ==
    /\ meters = [m \in Meters |-> NoMeter]
    /\ terms \in Terms
    /\ records = [r \in Records |-> NoRow]
    /\ items = [r \in Records |-> NoItems]
    /\ request = [t \in Tabs |-> Idle]
    /\ saves = 0 /\ today = 1

TabStep(t) ==
    \/ Prefill(t) \/ CloseForm(t) \/ Submit(t)
    \/ \E r \in Records, input \in [Meters -> Input \cup {NotRead}], from \in Days, to \in Days :
         SubmitTyped(t, r, input, from, to) \/ SubmitEdit(t, r, input, from, to)
    \/ SaveNew(t) \/ LoadForUpdate(t) \/ DeleteItems(t) \/ SaveUpdate(t)
    \/ \E r \in Records, day \in PaidDays, files \in SUBSET Vouchers, sends \in BOOLEAN :
         Pay(t, r, day, files, sends)
    \/ SavePayment(t) \/ RequestFails(t)

MeterStep ==
    \E m \in Meters :
      \/ \E i \in Readings, k \in Multipliers : CreateMeter(m, i, k)
      \/ \E s \in {"enabled", "disabled"}, i \in Readings : UpdateMeter(m, s, i)
      \/ RemoveMeter(m)

Next ==
    \/ \E t \in Tabs : TabStep(t)
    \/ MeterStep
    \/ \E tm \in Terms : ChangeTerms(tm)
    \/ \E r \in Records : RemoveRecord(r)
    \/ Crash \/ NextDay

Spec == Init /\ [][Next]_vars

-----------------------------------------------------------------------------
(* Properties *)

\* The items of a record add up to its amount, unless an update has deleted them and not
\* saved yet, or never will (saveRecord, markAsPaid: lines 168-179, 246-283).
ItemsMatchAmount ==
    \A r \in Records : records[r] # NoRow =>
        items[r] = NoItems \/ Total(items[r].lines) = records[r].amount

\* A record is paid if and only if it has a date of payment, however updates and payments
\* overwrite each other (markAsPaid: lines 170-175; saveRecord: lines 257-260).
PaidHasDate == \A r \in Records : records[r] # NoRow => (records[r].paid <=> records[r].paidAt # NoDay)

\* What a meter counted is billed once: the readings of two records never overlap, and each
\* record but the first goes on from a reading that another ends with (getPrefill).
ReadingsChain ==
    \A m \in Meters : \A r \in ReadIn(m) :
        LET x == LinesIn(r)[m] IN
        /\ \A q \in ReadIn(m) \ {r} : x.current <= LinesIn(q)[m].previous
                                        \/ LinesIn(q)[m].current <= x.previous
        /\ \/ \E q \in ReadIn(m) \ {r} : LinesIn(q)[m].current = x.previous
           \/ \A q \in ReadIn(m) : x.previous <= LinesIn(q)[m].previous

\* The columns of a record fit its items and each other, though no handler has a transaction;
\* and orderly readings are billed once.
BillsConsistent == ItemsMatchAmount /\ PaidHasDate /\ (Orderly => ReadingsChain)

\* Only a payment that sends a list of vouchers changes those of a record: one that sends a
\* date or a method alone, and an update of the readings, keep them (lines 171-173, 252).
\* It does not hold: the row is written back as it was read, vouchers included.
VouchersKept ==
    [][\A r \in Records : records[r] # NoRow /\ records'[r].vouchers # records[r].vouchers =>
          \E t \in Tabs : /\ request[t].step = "paying" /\ request[t].record = r
                          /\ request[t].sends /\ request'[t] = Idle]_vars
=============================================================================
