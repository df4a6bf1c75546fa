------------------------ MODULE UtilityBillingProofs ------------------------
(***************************************************************************)
(* The rows of UtilityBilling stay consistent however their handlers       *)
(* interleave, for any number of records, meters and tabs; and readings    *)
(* entered in turn are billed once.                                        *)
(*                                                                         *)
(* RowsInv is what the code can keep without a transaction: every row and  *)
(* every set of items that a handler holds agree with each other, and a    *)
(* save writes both or none. ReadInv says of orderly requests that the     *)
(* lines they hold go on from those of all other records, and that each    *)
(* record goes on from the ones before it. The latter alone would not be   *)
(* kept when a record without usage is removed: what another record goes   *)
(* on from must be one that is older.                                      *)
(***************************************************************************)
EXTENDS UtilityBilling, WellFoundedInduction, TLAPS

OnRecords(f) == f = [r \in Records |-> f[r]]
OnTabs(f) == f = [t \in Tabs |-> f[t]]

Matches(its, amount) == its = NoItems \/ Total(its.lines) = amount
Dated(row) == row.paid <=> row.paidAt # NoDay
IsRow(row) == DOMAIN row = {"state", "paid", "paidAt", "from", "to", "amount", "vouchers", "made"}
SoundRow(row) == IsRow(row) /\ Dated(row)

IsUpdate(q) == q = [step |-> q.step, record |-> q.record, lines |-> q.lines, row |-> q.row]

\* What a handler in flight will write: its record, and a row that is true of its items.
Pending(q) ==
    /\ q.step \in {"computed", "loaded", "cleared", "paying"} => q.record \in Records
    /\ q.step \in {"loaded", "cleared"} =>
         IsUpdate(q) /\ SoundRow(q.row) /\ q.row.amount = Total(q.lines)
    /\ q.step = "paying" => SoundRow(q.row) /\ Matches(q.items, q.row.amount)

RowsInv ==
    /\ OnRecords(records) /\ OnRecords(items) /\ OnTabs(request)
    /\ today \in Days
    /\ \A r \in Records : records[r] # NoRow => SoundRow(records[r]) /\ Matches(items[r], records[r].amount)
    /\ \A t \in Tabs : Pending(request[t])

\* A request that fails, ends or only reads leaves the rows as they are.
LEMMA IdleIsPending == Pending(Idle)
  BY DEF Pending, Idle

LEMMA InitIsSound == Init => RowsInv
  BY IdleIsPending, BillingConstants DEF Init, RowsInv, OnRecords, OnTabs, Days, NoRow

\* The steps of a tab that write no row: they replace its request by a sound one.
LEMMA RequestSteps ==
    ASSUME RowsInv, UNCHANGED <<records, items, today>>,
           NEW t \in Tabs, NEW q, Pending(q), request' = [request EXCEPT ![t] = q]
    PROVE  RowsInv'
  <1>1. OnTabs(request)' /\ \A u \in Tabs : Pending(request'[u])
    BY DEF RowsInv, OnTabs
  <1> QED BY <1>1 DEF RowsInv, OnRecords, Matches, Days

\* The steps of a tab that write a row with its items and end the request.
LEMMA SavingSteps ==
    ASSUME RowsInv, UNCHANGED today, NEW t \in Tabs, NEW r \in Records, NEW row, NEW its,
           SoundRow(row), Matches(its, row.amount),
           records' = [records EXCEPT ![r] = row], items' = [items EXCEPT ![r] = its],
           request' = [request EXCEPT ![t] = Idle]
    PROVE  RowsInv'
  <1>1. OnRecords(records)' /\ OnRecords(items)'
    BY DEF RowsInv, OnRecords
  <1>2. OnTabs(request)' /\ \A u \in Tabs : Pending(request'[u])
    BY IdleIsPending DEF RowsInv, OnTabs
  <1>3. \A x \in Records : records'[x] # NoRow => SoundRow(records'[x]) /\ Matches(items'[x], records'[x].amount)
    BY DEF RowsInv, OnRecords
  <1> QED BY <1>1, <1>2, <1>3 DEF RowsInv, Days

LEMMA NextIsSound == RowsInv /\ [Next]_vars => RowsInv'
  <1> SUFFICES ASSUME RowsInv, [Next]_vars PROVE RowsInv'
    OBVIOUS
  <1> USE DEF Finish
  <1>1. ASSUME NEW t \in Tabs, Prefill(t) PROVE RowsInv'
    <2>1. PICK from, shown : request' = [request EXCEPT ![t] = [step |-> "form", from |-> from, shown |-> shown]]
      BY <1>1 DEF Prefill
    <2>2. Pending([step |-> "form", from |-> from, shown |-> shown])
      BY DEF Pending
    <2> QED BY <2>1, <2>2, RequestSteps, <1>1 DEF Prefill
  <1>2. ASSUME NEW t \in Tabs, CloseForm(t) \/ RequestFails(t) PROVE RowsInv'
    BY <1>2, IdleIsPending, RequestSteps DEF CloseForm, RequestFails
  <1>3. ASSUME NEW t \in Tabs, NEW r \in Records, NEW new, NEW input, NEW from, NEW to,
               Compute(t, r, new, input, from, to)
        PROVE  RowsInv'
    <2> DEFINE q == [step |-> "computed", record |-> r, new |-> new,
                     lines |-> ChargedLines(input), from |-> from, to |-> to]
    <2>1. Pending(q)
      BY DEF Pending
    <2> QED BY <2>1, <1>3, RequestSteps DEF Compute
  <1>4. ASSUME NEW t \in Tabs, Submit(t) PROVE RowsInv'
    BY <1>3, <1>4 DEF Submit
  <1>5. ASSUME NEW t \in Tabs, NEW r \in Records, NEW input, NEW from, NEW to,
               SubmitTyped(t, r, input, from, to) \/ SubmitEdit(t, r, input, from, to)
        PROVE  RowsInv'
    BY <1>3, <1>5 DEF SubmitTyped, SubmitEdit
  <1>6. ASSUME NEW t \in Tabs, SaveNew(t) PROVE RowsInv'
    <2> DEFINE row == [state |-> "live", paid |-> FALSE, paidAt |-> NoDay, from |-> request[t].from,
                       to |-> request[t].to, amount |-> Total(request[t].lines), vouchers |-> {},
                       made |-> saves']
               its == [save |-> saves', lines |-> request[t].lines]
    <2>1. SoundRow(row) /\ Matches(its, row.amount)
      BY DEF SoundRow, IsRow, Dated, Matches, NoDay
    <2>2. request[t].record \in Records
      BY <1>6 DEF SaveNew, RowsInv, Pending
    <2>3. /\ records' = [records EXCEPT ![request[t].record] = row]
          /\ items' = [items EXCEPT ![request[t].record] = its]
          /\ request' = [request EXCEPT ![t] = Idle] /\ UNCHANGED today
      BY <1>6 DEF SaveNew
    <2> HIDE DEF row, its
    <2> QED BY <2>1, <2>2, <2>3, SavingSteps
  <1>7. ASSUME NEW t \in Tabs, LoadForUpdate(t) PROVE RowsInv'
    <2>1. PICK r : r = request[t].record
      OBVIOUS
    <2>2. PICK row : row = [records[r] EXCEPT !.from = request[t].from, !.to = request[t].to,
                                              !.amount = Total(request[t].lines)]
      OBVIOUS
    <2>3. r \in Records /\ SoundRow(records[r])
      BY <1>7, <2>1 DEF LoadForUpdate, RowsInv, Pending, Live, NoRow
    <2>4. SoundRow(row) /\ row.amount = Total(request[t].lines)
      BY <2>2, <2>3 DEF SoundRow, IsRow, Dated
    <2>5. PICK q : q = [step |-> "loaded", record |-> r, lines |-> request[t].lines, row |-> row]
      OBVIOUS
    <2>6. Pending(q)
      <3>1. IsUpdate(q)
        BY <2>5 DEF IsUpdate
      <3> QED BY <2>3, <2>4, <2>5, <3>1 DEF Pending
    <2>7. request' = [request EXCEPT ![t] = q] /\ UNCHANGED <<records, items, today>>
      BY <1>7, <2>1, <2>2, <2>5 DEF LoadForUpdate
    <2> QED BY <2>6, <2>7, RequestSteps
  <1>8. ASSUME NEW t \in Tabs, DeleteItems(t) PROVE RowsInv'
    <2>1. OnRecords(items)' /\ \A r \in Records : items'[r] = items[r] \/ items'[r] = NoItems
      BY <1>8 DEF DeleteItems, RowsInv, OnRecords
    <2>2. OnTabs(request)'
      BY <1>8 DEF DeleteItems, RowsInv, OnTabs
    <2>3. PICK q : q = [step |-> "cleared", record |-> request[t].record, lines |-> request[t].lines,
                        row |-> request[t].row]
      OBVIOUS
    <2>4. [request[t] EXCEPT !.step = "cleared"] = q
      <3>1. request[t] = [step |-> "loaded", record |-> q.record, lines |-> q.lines, row |-> q.row]
        BY <1>8, <2>3 DEF DeleteItems, RowsInv, Pending, IsUpdate
      <3> QED BY <2>3, <3>1
    <2>5. Pending(q)
      <3>1. IsUpdate(q)
        BY <2>3 DEF IsUpdate
      <3> QED BY <1>8, <2>3, <3>1 DEF DeleteItems, RowsInv, Pending
    <2>6. \A u \in Tabs : Pending(request'[u])
      BY <1>8, <2>4, <2>5 DEF DeleteItems, RowsInv, OnTabs
    <2> QED BY <1>8, <2>1, <2>2, <2>6 DEF DeleteItems, RowsInv, OnRecords, Matches, Days
  <1>9. ASSUME NEW t \in Tabs, SaveUpdate(t) PROVE RowsInv'
    <2>1. PICK its : its = [save |-> saves', lines |-> request[t].lines]
      OBVIOUS
    <2>2. request[t].record \in Records /\ SoundRow(request[t].row) /\ Matches(its, request[t].row.amount)
      BY <1>9, <2>1 DEF SaveUpdate, RowsInv, Pending, Matches
    <2> QED BY <1>9, <2>1, <2>2, SavingSteps DEF SaveUpdate
  <1>10. ASSUME NEW t \in Tabs, NEW r \in Records, NEW day \in PaidDays, NEW files, NEW sends,
                Pay(t, r, day, files, sends)
         PROVE  RowsInv'
    <2>1. PICK on : on = PaidOn(records[r], day)
      OBVIOUS
    <2>2. SoundRow(records[r]) /\ Matches(items[r], records[r].amount)
      BY <1>10 DEF Pay, RowsInv, Live, NoRow
    <2>3. on # NoDay
      BY <2>1, <2>2 DEF PaidOn, SoundRow, Dated, RowsInv, Days, NoDay
    <2>4. PICK row : row = [records[r] EXCEPT !.paid = TRUE, !.paidAt = on, !.vouchers = files]
      OBVIOUS
    <2>5. SoundRow(row) /\ row.amount = records[r].amount
      BY <2>2, <2>3, <2>4 DEF SoundRow, IsRow, Dated
    <2>6. PICK q : q = [step |-> "paying", record |-> r, items |-> items[r], sends |-> sends, row |-> row]
      OBVIOUS
    <2>7. Pending(q)
      BY <2>2, <2>5, <2>6 DEF Pending
    <2>8. request' = [request EXCEPT ![t] = q] /\ UNCHANGED <<records, items, today>>
      BY <1>10, <2>1, <2>4, <2>6 DEF Pay
    <2> QED BY <2>7, <2>8, RequestSteps
  <1>11. ASSUME NEW t \in Tabs, SavePayment(t) PROVE RowsInv'
    <2>1. /\ request[t].record \in Records /\ SoundRow(request[t].row)
          /\ Matches(request[t].items, request[t].row.amount)
      BY <1>11 DEF SavePayment, RowsInv, Pending
    <2> QED BY <1>11, <2>1, SavingSteps DEF SavePayment
  <1>12. ASSUME NEW r \in Records, RemoveRecord(r) PROVE RowsInv'
    <2>1. PICK row : row = [records[r] EXCEPT !.state = "removed"]
      OBVIOUS
    <2>2. SoundRow(records[r])
      BY <1>12 DEF RemoveRecord, RowsInv, Live, NoRow
    <2>3. SoundRow(row) /\ row.amount = records[r].amount
      BY <2>1, <2>2 DEF SoundRow, IsRow, Dated
    <2>4. records' = [records EXCEPT ![r] = row] /\ UNCHANGED <<items, request, today>>
      BY <1>12, <2>1 DEF RemoveRecord
    <2>5. OnRecords(records)'
      BY <2>4 DEF RowsInv, OnRecords
    <2>6. \A x \in Records : records'[x] # NoRow => SoundRow(records'[x]) /\ Matches(items'[x], records'[x].amount)
      BY <2>3, <2>4, <1>12 DEF RowsInv, OnRecords, RemoveRecord, Live, NoRow
    <2> QED BY <2>4, <2>5, <2>6 DEF RowsInv, OnRecords, OnTabs, Days
  <1>13. CASE Crash
    BY <1>13, IdleIsPending DEF Crash, RowsInv, OnTabs, OnRecords, Days
  <1>14. CASE NextDay
    BY <1>14, BillingConstants DEF NextDay, RowsInv, OnTabs, OnRecords, Days
  <1>15. CASE MeterStep \/ (\E tm \in Terms : ChangeTerms(tm)) \/ UNCHANGED vars
    BY <1>15 DEF MeterStep, CreateMeter, UpdateMeter, RemoveMeter, ChangeTerms, vars, RowsInv,
                OnTabs, OnRecords, Days
  <1>16. ASSUME NEW t \in Tabs, TabStep(t) PROVE RowsInv'
    BY <1>1, <1>2, <1>4, <1>5, <1>6, <1>7, <1>8, <1>9, <1>10, <1>11, <1>16 DEF TabStep
  <1> QED BY <1>12, <1>13, <1>14, <1>15, <1>16 DEF Next

LEMMA RowsStaySound == Spec => []RowsInv
  BY InitIsSound, NextIsSound, PTL DEF Spec

\* The items of a record add up to its amount, unless an update deleted them and did not save
\* (saveRecord, markAsPaid): for any number of records, meters, tabs and crashes.
THEOREM ItemsAlwaysMatchAmount == Spec => []ItemsMatchAmount
  <1>1. RowsInv => ItemsMatchAmount
    BY DEF RowsInv, ItemsMatchAmount, Matches
  <1> QED BY <1>1, RowsStaySound, PTL

\* A record is paid exactly when it has a date of payment (markAsPaid, saveRecord).
THEOREM PaidAlwaysHasDate == Spec => []PaidHasDate
  <1>1. RowsInv => PaidHasDate
    BY DEF RowsInv, PaidHasDate, SoundRow, Dated
  <1> QED BY <1>1, RowsStaySound, PTL

-----------------------------------------------------------------------------
(* Readings, while requests are orderly *)

ReadLine(x) == x.previous \in Readings /\ x.current \in Readings /\ x.previous <= x.current

\* A value is where the readings of a meter in some records end.
GoesOn(m, value, S) ==
    /\ \A r \in S : LinesIn(r)[m].current <= value
    /\ S # {} => \E r \in S : LinesIn(r)[m].current = value

\* The lines of a record go on from the readings of all the others, or of those before it.
Follows(lines, r) ==
    \A m \in Meters : lines[m] # NotRead =>
        ReadLine(lines[m]) /\ GoesOn(m, lines[m].previous, ReadIn(m) \ {r})
Earlier(r, m) == {q \in ReadIn(m) : After(r, q)}
Chained ==
    \A m \in Meters : \A r \in ReadIn(m) :
        ReadLine(LinesIn(r)[m]) /\ GoesOn(m, LinesIn(r)[m].previous, Earlier(r, m))

\* Rows are made one by one, none of a later day.
Aged ==
    /\ saves \in Nat
    /\ \A r \in Records : records[r] # NoRow =>
         /\ records[r].state \in {"live", "removed"}
         /\ records[r].to \in Nat /\ records[r].to <= today
         /\ records[r].made \in Nat /\ records[r].made <= saves
    /\ \A r, q \in Records :
         records[r] # NoRow /\ records[q] # NoRow /\ r # q => records[r].made # records[q].made

SameAge(row, r) == row.state = "live" /\ row.to = records[r].to /\ row.made = records[r].made

\* What an orderly request will write: lines that go on from the others, in the newest record.
Prepared(q) ==
    /\ q.step = "form" =>
         \A m \in Meters : q.shown[m] # NotRead => GoesOn(m, q.shown[m].previous, ReadIn(m))
    /\ q.step \in {"computed", "loaded", "cleared"} => Follows(q.lines, q.record)
    /\ q.step = "computed" =>
         IF q.new THEN q.to \in Nat /\ q.to <= today /\ \A r \in Records : Live(r) => records[r].to <= q.to
         ELSE Newest(q.record) /\ q.to = records[q.record].to
    /\ q.step \in {"loaded", "cleared"} =>
         IsUpdate(q) /\ Newest(q.record) /\ SameAge(q.row, q.record)
    /\ q.step = "paying" => Live(q.record) /\ SameAge(q.row, q.record) /\ q.items = items[q.record]

Solo == \A t, u \in Tabs : request[t] # Idle /\ request[u] # Idle => t = u

ReadInv == Aged /\ Solo /\ Chained /\ \A t \in Tabs : Prepared(request[t])

LEMMA IdleIsPrepared == Prepared(Idle)
  BY DEF Prepared, Idle

\* Of any natural numbers one is the least.
LEMMA LeastNat == ASSUME NEW T \in SUBSET Nat, T # {}
                  PROVE  \E x \in T : \A y \in T : x <= y
  <1> DEFINE R == {ss \in Nat \X Nat : ss[1] < ss[2]}
  <1>1. IsWellFoundedOn(R, Nat) BY NatLessThanWellFounded DEF OpToRel
  <1> HIDE DEF R
  <1>2. PICK x \in T : \A y \in T : <<y, x>> \notin R BY <1>1, WFMin
  <1>3. \A y \in T : ~ (y < x) BY <1>2 DEF R
  <1> QED BY <1>3

\* After is a strict order of the live records.
LEMMA AfterOrders ==
    ASSUME RowsInv, Aged, NEW r \in Records, NEW q \in Records, Live(r), Live(q)
    PROVE  /\ r # q => After(r, q) \/ After(q, r)
           /\ ~ (After(r, q) /\ After(q, r))
  <1>1. records[r] # NoRow /\ records[q] # NoRow
    BY DEF Live, NoRow
  <1> QED BY <1>1 DEF Aged, After

\* So any live records have a latest one.
LEMMA LatestIs ==
    ASSUME RowsInv, Aged, NEW S \in SUBSET Records, S # {}, \A r \in S : Live(r)
    PROVE  Latest(S) \in S /\ \A q \in S \ {Latest(S)} : After(Latest(S), q)
  <1>1. today \in Nat /\ saves \in Nat
    BY BillingConstants DEF RowsInv, Aged, Days
  <1>2. \A r \in S : /\ records[r].to \in Nat /\ records[r].to <= today
                     /\ records[r].made \in Nat /\ records[r].made <= saves
    BY DEF Aged, Live, NoRow
  <1>3. PICK l \in S : \A r \in S : records[r].to <= records[l].to
    <2>1. PICK B : B = {today - records[r].to : r \in S}
      OBVIOUS
    <2>2. \A r \in S : today - records[r].to \in Nat
      BY <1>1, <1>2
    <2>3. B \in SUBSET Nat /\ B # {}
      BY <2>1, <2>2
    <2>4. PICK day \in B : \A x \in B : day <= x
      BY <2>3, LeastNat
    <2>5. PICK l \in S : day = today - records[l].to
      BY <2>1, <2>4
    <2>6. \A r \in S : today - records[l].to <= today - records[r].to
      BY <2>1, <2>4, <2>5
    <2> QED BY <1>1, <1>2, <2>5, <2>6
  <1>4. PICK L : L = {r \in S : records[r].to = records[l].to}
    OBVIOUS
  <1>5. PICK k \in L : \A r \in L : records[r].made <= records[k].made
    <2>1. PICK B : B = {saves - records[r].made : r \in L}
      OBVIOUS
    <2>2. \A r \in L : saves - records[r].made \in Nat
      BY <1>1, <1>2, <1>4
    <2>3. B \in SUBSET Nat /\ B # {}
      BY <1>3, <1>4, <2>1, <2>2
    <2>4. PICK age \in B : \A x \in B : age <= x
      BY <2>3, LeastNat
    <2>5. PICK k \in L : age = saves - records[k].made
      BY <2>1, <2>4
    <2>6. \A r \in L : saves - records[k].made <= saves - records[r].made
      BY <2>1, <2>4, <2>5
    <2> QED BY <1>1, <1>2, <1>4, <2>5, <2>6
  <1>6. \A q \in S \ {k} : After(k, q)
    <2> SUFFICES ASSUME NEW q \in S \ {k} PROVE After(k, q)
      OBVIOUS
    <2>1. k \in S /\ records[k].to = records[l].to
      BY <1>4, <1>5
    <2>2. records[q].to <= records[k].to
      BY <1>1, <1>2, <1>3, <2>1
    <2>3. CASE records[q].to < records[k].to
      BY <2>3 DEF After
    <2>4. CASE records[q].to = records[k].to
      <3>1. records[q].made <= records[k].made
        BY <1>4, <1>5, <2>1, <2>4
      <3>2. records[q].made # records[k].made
        BY <2>1 DEF Aged, Live, NoRow
      <3> QED BY <1>2, <2>1, <2>4, <3>1, <3>2 DEF After
    <2> QED BY <1>2, <2>1, <2>2, <2>3, <2>4
  <1>7. k \in S
    BY <1>4, <1>5
  <1> QED BY <1>6, <1>7 DEF Latest

LEMMA ReadIsLive == ASSUME NEW m \in Meters, NEW r \in ReadIn(m) PROVE r \in Records /\ Live(r)
  BY DEF ReadIn, LinesIn, NoLines

\* The prefilled reading is where the readings of the meter end.
LEMMA PrefillGoesOn ==
    ASSUME RowsInv, Aged, Chained, NEW m \in Meters
    PROVE  GoesOn(m, PreviousReading(m), ReadIn(m))
  <1>1. CASE ReadIn(m) = {}
    BY <1>1 DEF GoesOn
  <1>2. CASE ReadIn(m) # {}
    <2>1. PICK l : l = Latest(ReadIn(m))
      OBVIOUS
    <2>2. l \in ReadIn(m) /\ \A q \in ReadIn(m) \ {l} : After(l, q)
      BY <1>2, <2>1, LatestIs, ReadIsLive DEF ReadIn
    <2>3. PICK x : x = LinesIn(l)[m]
      OBVIOUS
    <2>4. /\ x.previous \in Nat /\ x.current \in Nat /\ x.previous <= x.current
          /\ \A q \in Earlier(l, m) : LinesIn(q)[m].current <= x.previous
      BY <2>2, <2>3, BillingConstants DEF Chained, ReadLine, GoesOn
    <2>5. \A q \in ReadIn(m) : LinesIn(q)[m].current \in Nat
      BY BillingConstants DEF Chained, ReadLine
    <2>6. \A q \in ReadIn(m) : LinesIn(q)[m].current <= x.current
      <3> SUFFICES ASSUME NEW q \in ReadIn(m), q # l PROVE LinesIn(q)[m].current <= x.current
        BY <2>3, <2>4
      <3>1. q \in Earlier(l, m)
        BY <2>2 DEF Earlier
      <3> QED BY <2>4, <2>5, <3>1
    <2>7. PreviousReading(m) = x.current
      BY <1>2, <2>1, <2>3 DEF PreviousReading
    <2> QED BY <2>2, <2>3, <2>6, <2>7 DEF GoesOn
  <1> QED BY <1>1, <1>2

\* Lines and ages that stay keep the chain.
LEMMA SameRowsKeep ==
    ASSUME UNCHANGED <<records, items>>
    PROVE  /\ Chained => Chained'
           /\ \A lines, r : Follows(lines, r) => Follows(lines, r)'
           /\ \A m, v : GoesOn(m, v, ReadIn(m)) => GoesOn(m, v, ReadIn(m))'
           /\ \A r : Newest(r) => Newest(r)'
  BY DEF Chained, Follows, GoesOn, ReadIn, LinesIn, Earlier, After, Live, Newest

LEMMA TodayKeeps ==
    ASSUME RowsInv, Aged, UNCHANGED <<records, items, saves>>, today' \in Nat, today <= today'
    PROVE  Aged' /\ \A q : Prepared(q) => Prepared(q)'
  <1>1. today \in Nat
    BY BillingConstants DEF RowsInv, Days
  <1>2. Aged'
    BY <1>1 DEF Aged
  <1>3. ASSUME NEW q, Prepared(q) PROVE Prepared(q)'
    <2>1. q.step = "form" =>
            \A m \in Meters : q.shown[m] # NotRead => GoesOn(m, q.shown[m].previous, ReadIn(m))'
      BY <1>3, SameRowsKeep DEF Prepared
    <2>2. q.step \in {"computed", "loaded", "cleared"} => Follows(q.lines, q.record)'
      BY <1>3, SameRowsKeep DEF Prepared
    <2>3. q.step = "computed" =>
            IF q.new THEN q.to \in Nat /\ q.to <= today'
                          /\ \A r \in Records : Live(r)' => records'[r].to <= q.to
            ELSE Newest(q.record)' /\ q.to = records'[q.record].to
      <3>1. CASE q.step = "computed" /\ q.new
        BY <1>1, <1>3, <3>1 DEF Prepared, Live
      <3>2. CASE q.step = "computed" /\ ~q.new
        BY <1>3, <3>2, SameRowsKeep DEF Prepared
      <3> QED BY <3>1, <3>2
    <2>4. /\ q.step \in {"loaded", "cleared"} => IsUpdate(q) /\ Newest(q.record)' /\ SameAge(q.row, q.record)'
          /\ q.step = "paying" => Live(q.record)' /\ SameAge(q.row, q.record)' /\ q.items = items'[q.record]
      BY <1>3, SameRowsKeep DEF Prepared, SameAge, Live
    <2> QED BY <2>1, <2>2, <2>3, <2>4 DEF Prepared
  <1> QED BY <1>2, <1>3

\* A step that changes no row: at most the request of one tab, by one that is prepared.
LEMMA QuietSteps ==
    ASSUME RowsInv, ReadInv, UNCHANGED <<records, items, saves, today>>,
           NEW t \in Tabs, NEW q, request' = [request EXCEPT ![t] = q], Prepared(q),
           \A u \in Tabs : request[u] = Idle \/ u = t
    PROVE  ReadInv'
  <1>1. today \in Nat
    BY BillingConstants DEF RowsInv, Days
  <1>2. Aged' /\ \A x : Prepared(x) => Prepared(x)'
    BY <1>1, TodayKeeps DEF ReadInv
  <1>3. Chained'
    BY SameRowsKeep DEF ReadInv
  <1>4. \A u \in Tabs : request'[u] = IF u = t THEN q ELSE request[u]
    BY DEF RowsInv, OnTabs
  <1>5. Solo'
    BY <1>4 DEF Solo
  <1>6. ASSUME NEW u \in Tabs PROVE Prepared(request[u])'
    <2>1. PICK x : x = request'[u]
      OBVIOUS
    <2>2. Prepared(x)
      BY <1>4, <2>1 DEF ReadInv
    <2>3. Prepared(x)'
      BY <1>2, <2>2
    <2> QED BY <2>1, <2>3
  <1> QED BY <1>2, <1>3, <1>5, <1>6 DEF ReadInv

\* The newest record, or one that no query found, is written or goes; the others stay.
LEMMA NewestWritten ==
    ASSUME RowsInv, Aged, Aged', RowsInv', Chained, NEW z \in Records, Newest(z) \/ ~Live(z),
           \A q \in Records \ {z} : records'[q] = records[q] /\ items'[q] = items[q],
           Live(z)' => /\ \A q \in Records \ {z} : Live(q) => After(z, q)'
                       /\ \A m \in Meters : LinesIn(z)'[m] # NotRead =>
                            /\ ReadLine(LinesIn(z)'[m])
                            /\ GoesOn(m, LinesIn(z)'[m].previous, ReadIn(m) \ {z})
    PROVE  /\ Chained'
           /\ \A m \in Meters : ReadIn(m)' \ {z} = ReadIn(m) \ {z}
           /\ \A m \in Meters : \A v : GoesOn(m, v, ReadIn(m) \ {z}) => GoesOn(m, v, ReadIn(m) \ {z})'
  <1>1. \A q \in Records \ {z} : LinesIn(q)' = LinesIn(q) /\ Live(q)' = Live(q)
    BY DEF LinesIn, Live
  <1>2. \A m : ReadIn(m)' \ {z} = ReadIn(m) \ {z}
    BY <1>1 DEF ReadIn
  <1>3. ASSUME NEW m, NEW v, NEW S \in SUBSET (Records \ {z})
        PROVE  GoesOn(m, v, S) <=> /\ \A r \in S : LinesIn(r)'[m].current <= v
                                   /\ S # {} => \E r \in S : LinesIn(r)'[m].current = v
    BY <1>1 DEF GoesOn
  <1>4. \A m, v : GoesOn(m, v, ReadIn(m) \ {z}) => GoesOn(m, v, ReadIn(m) \ {z})'
    <2> SUFFICES ASSUME NEW m, NEW v, GoesOn(m, v, ReadIn(m) \ {z})
                 PROVE  GoesOn(m, v, ReadIn(m) \ {z})'
      OBVIOUS
    <2>1. PICK S : S = ReadIn(m) \ {z}
      OBVIOUS
    <2>2. S \in SUBSET (Records \ {z}) /\ ReadIn(m)' \ {z} = S
      BY <1>2, <2>1 DEF ReadIn
    <2>3. /\ \A r \in S : LinesIn(r)'[m].current <= v
          /\ S # {} => \E r \in S : LinesIn(r)'[m].current = v
      BY <1>3, <2>1, <2>2
    <2> QED BY <2>2, <2>3 DEF GoesOn
  <1>5. ASSUME NEW m \in Meters, NEW r \in ReadIn(m)'
        PROVE  ReadLine(LinesIn(r)'[m]) /\ GoesOn(m, LinesIn(r)[m].previous, Earlier(r, m))'
    <2>1. r \in Records /\ Live(r)' /\ LinesIn(r)'[m] # NotRead
      BY <1>5 DEF ReadIn, LinesIn, NoLines
    <2>2. CASE r = z
      <3>1. Earlier(r, m)' = ReadIn(m)' \ {z}
        <4>1. ~After(z, z)'
          BY <2>1, <2>2 DEF Aged, After, Live, NoRow
        <4>2. \A q \in ReadIn(m)' \ {z} : After(z, q)'
          BY <1>1, <2>1, <2>2 DEF ReadIn, LinesIn, NoLines
        <4> QED BY <2>2, <4>1, <4>2 DEF Earlier
      <3>2. ReadLine(LinesIn(z)'[m]) /\ GoesOn(m, LinesIn(z)'[m].previous, ReadIn(m) \ {z})
        BY <2>1, <2>2
      <3>3. PICK v : v = LinesIn(z)'[m].previous
        OBVIOUS
      <3>4. GoesOn(m, v, ReadIn(m) \ {z})'
        BY <1>4, <3>2, <3>3
      <3>5. GoesOn(m, LinesIn(z)[m].previous, Earlier(z, m))'
        BY <2>2, <3>1, <3>3, <3>4 DEF GoesOn
      <3> QED BY <2>2, <3>2, <3>5
    <2>3. CASE r # z
      <3>1. r \in ReadIn(m) /\ Live(r)
        BY <1>1, <1>2, <2>1, <2>3, <1>5
      <3>2. z \notin Earlier(r, m)
        BY <2>1, <2>3, <3>1, AfterOrders, ReadIsLive DEF Earlier, Newest
      <3>3. z \notin Earlier(r, m)'
        <4>1. CASE z \in ReadIn(m)'
          <5>1. Live(z)'
            BY <4>1 DEF ReadIn, LinesIn, NoLines
          <5>2. After(z, r)'
            BY <2>1, <2>3, <3>1, <5>1
          <5>3. ~After(r, z)'
            BY <2>1, <5>1, <5>2 DEF Aged, After, Live, NoRow
          <5> QED BY <5>3 DEF Earlier
        <4> QED BY <4>1 DEF Earlier
      <3>4. Earlier(r, m)' = Earlier(r, m)
        <4>1. \A q \in Records \ {z} : After(r, q)' = After(r, q)
          BY <2>1, <2>3 DEF After
        <4> QED BY <1>2, <3>2, <3>3, <4>1 DEF Earlier, ReadIn
      <3>5. PICK v : v = LinesIn(r)[m].previous
        OBVIOUS
      <3>6. ReadLine(LinesIn(r)[m]) /\ GoesOn(m, v, Earlier(r, m))
        BY <3>1, <3>5 DEF Chained
      <3>7. PICK S : S = Earlier(r, m)
        OBVIOUS
      <3>8. S \in SUBSET (Records \ {z})
        BY <3>2, <3>7 DEF Earlier, ReadIn
      <3>9. /\ \A q \in S : LinesIn(q)'[m].current <= v
            /\ S # {} => \E q \in S : LinesIn(q)'[m].current = v
        BY <1>3, <3>6, <3>7, <3>8
      <3>10. LinesIn(r)' = LinesIn(r)
        BY <1>1, <2>1, <2>3
      <3> QED BY <3>4, <3>5, <3>6, <3>7, <3>9, <3>10 DEF GoesOn
    <2> QED BY <2>2, <2>3
  <1>6. Chained'
    BY <1>5 DEF Chained, ReadLine
  <1> QED BY <1>2, <1>4, <1>6

\* A step that ends all requests needs ages and chain only.
LEMMA RequestsEnd ==
    ASSUME Aged', Chained', \A t \in Tabs : request'[t] = Idle
    PROVE  ReadInv'
  <1>1. ASSUME NEW t \in Tabs PROVE Prepared(request[t])'
    <2>1. \A x : x = Idle => Prepared(x)'
      BY DEF Prepared, Idle
    <2> QED BY <2>1
  <1> QED BY <1>1 DEF ReadInv, Solo

\* Orderly tabs take turns.
LEMMA Turns ==
    ASSUME RowsInv, ReadInv, NEW t \in Tabs, request[t] # Idle \/ \A u \in Tabs : request[u] = Idle \/ u = t
    PROVE  \A u \in Tabs : request[u] = Idle \/ u = t
  BY DEF ReadInv, Solo

\* What is submitted has lines that were read, and are those of the input.
LEMMA ChargedIs ==
    ASSUME NEW input \in [Meters -> Input \cup {NotRead}], NEW m \in Meters,
           ChargedLines(input)[m] # NotRead,
           \A k \in Meters : input[k] # NotRead => input[k].current >= input[k].previous
    PROVE  /\ input[m] # NotRead
           /\ ReadLine(ChargedLines(input)[m])
           /\ ChargedLines(input)[m].previous = input[m].previous
  <1>1. input[m] # NotRead /\ input[m] \in Input
    BY DEF ChargedLines
  <1>2. input[m].previous <= input[m].current
    BY <1>1, BillingConstants DEF Input
  <1> QED BY <1>1, <1>2 DEF ChargedLines, ReadLine, Input

LEMMA PrefillKeeps ==
    ASSUME RowsInv, ReadInv, Orderly, NEW t \in Tabs, Prefill(t)
    PROVE  ReadInv'
  <1>1. PICK from, shown :
          /\ request' = [request EXCEPT ![t] = [step |-> "form", from |-> from, shown |-> shown]]
          /\ shown = [m \in Meters |->
                        IF m \in {k \in Meters : meters[k].state = "enabled"}
                        THEN [previous |-> PreviousReading(m), current |-> PreviousReading(m)]
                        ELSE NotRead]
    BY DEF Prefill
  <1>2. PICK q : q = [step |-> "form", from |-> from, shown |-> shown]
    OBVIOUS
  <1>3. \A m \in Meters : shown[m] # NotRead => shown[m].previous = PreviousReading(m)
    BY <1>1
  <1>4. Prepared(q)
    BY <1>2, <1>3, PrefillGoesOn DEF Prepared, ReadInv
  <1>5. \A u \in Tabs : request[u] = Idle \/ u = t
    BY DEF Prefill, Alone
  <1>6. request' = [request EXCEPT ![t] = q] /\ UNCHANGED <<records, items, saves, today>>
    BY <1>1, <1>2 DEF Prefill
  <1> QED BY <1>4, <1>5, <1>6, QuietSteps

LEMMA EndKeeps ==
    ASSUME RowsInv, ReadInv, NEW t \in Tabs, CloseForm(t) \/ RequestFails(t)
    PROVE  ReadInv'
  <1>1. request[t] # Idle
    BY DEF CloseForm, RequestFails, Idle
  <1> QED BY <1>1, Turns, IdleIsPrepared, QuietSteps DEF CloseForm, RequestFails, Finish

LEMMA SubmitKeeps ==
    ASSUME RowsInv, ReadInv, Orderly, NEW t \in Tabs, Submit(t)
    PROVE  ReadInv'
  <1>1. PICK r \in Records, input \in [Meters -> Input \cup {NotRead}] :
          /\ records[r] = NoRow /\ SamePrevious(input, request[t].shown)
          /\ Compute(t, r, TRUE, input, request[t].from, today)
    BY DEF Submit
  <1>2. PICK q : q = [step |-> "computed", record |-> r, new |-> TRUE, lines |-> ChargedLines(input),
                      from |-> request[t].from, to |-> today]
    OBVIOUS
  <1>3. Follows(q.lines, r)
    <2> SUFFICES ASSUME NEW m \in Meters, ChargedLines(input)[m] # NotRead
                 PROVE  /\ ReadLine(ChargedLines(input)[m])
                        /\ GoesOn(m, ChargedLines(input)[m].previous, ReadIn(m) \ {r})
      BY <1>2 DEF Follows
    <2>1. /\ input[m] # NotRead /\ ReadLine(ChargedLines(input)[m])
          /\ ChargedLines(input)[m].previous = input[m].previous
      BY <1>1, ChargedIs DEF Compute
    <2>2. request[t].shown[m] # NotRead /\ input[m].previous = request[t].shown[m].previous
      BY <1>1, <2>1 DEF SamePrevious
    <2>3. GoesOn(m, input[m].previous, ReadIn(m))
      BY <2>2 DEF Submit, ReadInv, Prepared
    <2>4. ReadIn(m) \ {r} = ReadIn(m)
      BY <1>1 DEF ReadIn, LinesIn, Live, NoRow, NoLines
    <2> QED BY <2>1, <2>3, <2>4
  <1>4. today \in Nat /\ \A x \in Records : Live(x) => records[x].to <= today
    BY BillingConstants DEF RowsInv, Days, ReadInv, Aged, Live, NoRow
  <1>5. Prepared(q)
    BY <1>2, <1>3, <1>4 DEF Prepared
  <1>6. request[t] # Idle
    BY DEF Submit, Idle
  <1>7. request' = [request EXCEPT ![t] = q] /\ UNCHANGED <<records, items, saves, today>>
    BY <1>1, <1>2 DEF Compute
  <1> QED BY <1>5, <1>6, <1>7, Turns, QuietSteps

LEMMA SubmitEditKeeps ==
    ASSUME RowsInv, ReadInv, Orderly, NEW t \in Tabs, NEW r \in Records,
           NEW input \in [Meters -> Input \cup {NotRead}], NEW from, NEW to,
           SubmitEdit(t, r, input, from, to)
    PROVE  ReadInv'
  <1>1. /\ Newest(r) /\ to = records[r].to /\ SamePrevious(input, LinesIn(r))
        /\ Compute(t, r, FALSE, input, from, to)
    BY DEF SubmitEdit
  <1>2. PICK q : q = [step |-> "computed", record |-> r, new |-> FALSE, lines |-> ChargedLines(input),
                      from |-> from, to |-> to]
    OBVIOUS
  <1>3. Follows(q.lines, r)
    <2> SUFFICES ASSUME NEW m \in Meters, ChargedLines(input)[m] # NotRead
                 PROVE  /\ ReadLine(ChargedLines(input)[m])
                        /\ GoesOn(m, ChargedLines(input)[m].previous, ReadIn(m) \ {r})
      BY <1>2 DEF Follows
    <2>1. /\ input[m] # NotRead /\ ReadLine(ChargedLines(input)[m])
          /\ ChargedLines(input)[m].previous = input[m].previous
      BY <1>1, ChargedIs DEF Compute
    <2>2. LinesIn(r)[m] # NotRead /\ input[m].previous = LinesIn(r)[m].previous
      BY <1>1, <2>1 DEF SamePrevious
    <2>3. r \in ReadIn(m)
      BY <2>2 DEF ReadIn
    <2>4. Earlier(r, m) = ReadIn(m) \ {r}
      <3>1. ~After(r, r)
        BY <1>1, AfterOrders DEF ReadInv, Newest
      <3>2. \A x \in ReadIn(m) \ {r} : After(r, x)
        BY <1>1, ReadIsLive DEF Newest
      <3> QED BY <3>1, <3>2 DEF Earlier
    <2> QED BY <2>1, <2>2, <2>3, <2>4 DEF ReadInv, Chained
  <1>4. Prepared(q)
    BY <1>1, <1>2, <1>3 DEF Prepared
  <1>5. \A u \in Tabs : request[u] = Idle \/ u = t
    BY DEF SubmitEdit, Alone
  <1>6. request' = [request EXCEPT ![t] = q] /\ UNCHANGED <<records, items, saves, today>>
    BY <1>1, <1>2 DEF Compute
  <1> QED BY <1>4, <1>5, <1>6, QuietSteps

LEMMA LoadKeeps ==
    ASSUME RowsInv, ReadInv, NEW t \in Tabs, LoadForUpdate(t)
    PROVE  ReadInv'
  <1>1. PICK r : r = request[t].record
    OBVIOUS
  <1>2. PICK row : row = [records[r] EXCEPT !.from = request[t].from, !.to = request[t].to,
                                            !.amount = Total(request[t].lines)]
    OBVIOUS
  <1>3. r \in Records /\ SoundRow(records[r]) /\ Live(r)
    BY <1>1 DEF LoadForUpdate, RowsInv, Pending, Live, NoRow
  <1>4. Newest(r) /\ request[t].to = records[r].to /\ Follows(request[t].lines, r)
    BY <1>1 DEF LoadForUpdate, ReadInv, Prepared
  <1>5. SameAge(row, r)
    BY <1>2, <1>3, <1>4 DEF SameAge, SoundRow, IsRow, Live
  <1>6. PICK q : q = [step |-> "loaded", record |-> r, lines |-> request[t].lines, row |-> row]
    OBVIOUS
  <1>7. Prepared(q)
    <2>1. IsUpdate(q)
      BY <1>6 DEF IsUpdate
    <2> QED BY <1>4, <1>5, <1>6, <2>1 DEF Prepared
  <1>8. request[t] # Idle
    BY DEF LoadForUpdate, Idle
  <1>9. request' = [request EXCEPT ![t] = q] /\ UNCHANGED <<records, items, saves, today>>
    BY <1>1, <1>2, <1>6 DEF LoadForUpdate
  <1> QED BY <1>7, <1>8, <1>9, Turns, QuietSteps

LEMMA PayKeeps ==
    ASSUME RowsInv, ReadInv, Orderly, NEW t \in Tabs, NEW r \in Records, NEW day, NEW files, NEW sends,
           Pay(t, r, day, files, sends)
    PROVE  ReadInv'
  <1>1. PICK row : row = [records[r] EXCEPT !.paid = TRUE, !.paidAt = PaidOn(records[r], day),
                                            !.vouchers = files]
    OBVIOUS
  <1>2. SoundRow(records[r]) /\ Live(r)
    BY DEF Pay, RowsInv, Live, NoRow
  <1>3. SameAge(row, r)
    BY <1>1, <1>2 DEF SameAge, SoundRow, IsRow, Live
  <1>4. PICK q : q = [step |-> "paying", record |-> r, items |-> items[r], sends |-> sends, row |-> row]
    OBVIOUS
  <1>5. Prepared(q)
    BY <1>2, <1>3, <1>4 DEF Prepared
  <1>6. \A u \in Tabs : request[u] = Idle \/ u = t
    BY DEF Pay, Alone
  <1>7. request' = [request EXCEPT ![t] = q] /\ UNCHANGED <<records, items, saves, today>>
    BY <1>1, <1>4 DEF Pay
  <1> QED BY <1>5, <1>6, <1>7, QuietSteps

LEMMA SaveNewKeeps ==
    ASSUME RowsInv, RowsInv', ReadInv, NEW t \in Tabs, SaveNew(t)
    PROVE  ReadInv'
  <1>1. PICK z : z = request[t].record
    OBVIOUS
  <1>2. PICK row : row = [state |-> "live", paid |-> FALSE, paidAt |-> NoDay, from |-> request[t].from,
                          to |-> request[t].to, amount |-> Total(request[t].lines), vouchers |-> {},
                          made |-> saves']
    OBVIOUS
  <1>3. PICK its : its = [save |-> saves', lines |-> request[t].lines]
    OBVIOUS
  <1>4. /\ z \in Records /\ records[z] = NoRow /\ saves' = saves + 1 /\ today' = today
        /\ records' = [records EXCEPT ![z] = row] /\ items' = [items EXCEPT ![z] = its]
        /\ request' = [request EXCEPT ![t] = Idle]
    BY <1>1, <1>2, <1>3 DEF SaveNew, Finish, RowsInv, Pending
  <1>5. /\ Follows(its.lines, z) /\ row.state = "live" /\ row.made = saves + 1
        /\ row.to \in Nat /\ row.to <= today /\ \A r \in Records : Live(r) => records[r].to <= row.to
    BY <1>1, <1>2, <1>3, <1>4 DEF SaveNew, ReadInv, Prepared
  <1>6. /\ records'[z] = row /\ items'[z] = its
        /\ \A q \in Records \ {z} : records'[q] = records[q] /\ items'[q] = items[q]
    BY <1>4 DEF RowsInv, OnRecords
  <1>7. Aged'
    <2>1. \A r \in Records \ {z} : records[r] # NoRow =>
            records[r].made \in Nat /\ records[r].made <= saves' /\ records[r].made # row.made
      BY <1>4, <1>5 DEF ReadInv, Aged
    <2> QED BY <1>4, <1>5, <1>6, <2>1 DEF ReadInv, Aged
  <1>8. Live(z)' /\ LinesIn(z)' = its.lines /\ ~Live(z)
    BY <1>4, <1>5, <1>6 DEF Live, LinesIn, NoRow
  <1>9. \A q \in Records \ {z} : Live(q) => After(z, q)'
    <2> SUFFICES ASSUME NEW q \in Records \ {z}, Live(q) PROVE After(z, q)'
      OBVIOUS
    <2>1. records[q].to \in Nat /\ records[q].to <= row.to /\ records[q].made \in Nat /\ records[q].made < row.made
      BY <1>5 DEF ReadInv, Aged, Live, NoRow
    <2> QED BY <1>5, <1>6, <2>1 DEF After
  <1>10. Chained'
    BY <1>4, <1>5, <1>6, <1>7, <1>8, <1>9, NewestWritten DEF ReadInv, Follows
  <1>11. \A u \in Tabs : request'[u] = Idle
    <2>1. request[t] # Idle
      BY DEF SaveNew, Idle
    <2> QED BY <1>4, <2>1 DEF ReadInv, Solo, RowsInv, OnTabs
  <1> QED BY <1>7, <1>10, <1>11, RequestsEnd

\* The newest row keeps its age when it is written again.
LEMMA AgeKept ==
    ASSUME RowsInv, Aged, NEW z \in Records, Live(z), saves' \in Nat, saves <= saves', today' = today,
           \A q \in Records \ {z} : records'[q] = records[q],
           records'[z].state \in {"live", "removed"},
           records'[z].to = records[z].to, records'[z].made = records[z].made
    PROVE  Aged' /\ \A q, r \in Records : After(q, r)' = After(q, r)
  <1>1. \A r \in Records : records'[r] # NoRow =>
          /\ records[r] # NoRow /\ records'[r].to = records[r].to /\ records'[r].made = records[r].made
          /\ records'[r].state \in {"live", "removed"}
    BY DEF Aged, Live, NoRow
  <1>2. \A r \in Records : records'[r].to = records[r].to /\ records'[r].made = records[r].made
    OBVIOUS
  <1>3. Aged'
    BY <1>1 DEF Aged
  <1> QED BY <1>2, <1>3 DEF After

LEMMA SaveUpdateKeeps ==
    ASSUME RowsInv, RowsInv', ReadInv, NEW t \in Tabs, SaveUpdate(t)
    PROVE  ReadInv'
  <1>1. PICK z : z = request[t].record
    OBVIOUS
  <1>2. PICK its : its = [save |-> saves', lines |-> request[t].lines]
    OBVIOUS
  <1>3. PICK row : row = request[t].row
    OBVIOUS
  <1>4. /\ z \in Records /\ saves' = saves + 1 /\ today' = today
        /\ records' = [records EXCEPT ![z] = row] /\ items' = [items EXCEPT ![z] = its]
        /\ request' = [request EXCEPT ![t] = Idle]
    BY <1>1, <1>2, <1>3 DEF SaveUpdate, Finish, RowsInv, Pending
  <1>5. Follows(its.lines, z) /\ Newest(z) /\ SameAge(row, z)
    BY <1>1, <1>2, <1>3 DEF SaveUpdate, ReadInv, Prepared
  <1>6. /\ records'[z] = row /\ items'[z] = its
        /\ \A q \in Records \ {z} : records'[q] = records[q] /\ items'[q] = items[q]
    BY <1>4 DEF RowsInv, OnRecords
  <1>7. Aged' /\ \A q, r \in Records : After(q, r)' = After(q, r)
    BY <1>4, <1>5, <1>6, AgeKept DEF ReadInv, Aged, SameAge, Newest
  <1>8. Live(z)' /\ LinesIn(z)' = its.lines
    BY <1>5, <1>6 DEF Live, LinesIn, SameAge
  <1>9. \A q \in Records \ {z} : Live(q) => After(z, q)'
    BY <1>4, <1>5, <1>7 DEF Newest
  <1>10. Chained'
    BY <1>4, <1>5, <1>6, <1>7, <1>8, <1>9, NewestWritten DEF ReadInv, Follows
  <1>11. \A u \in Tabs : request'[u] = Idle
    <2>1. request[t] # Idle
      BY DEF SaveUpdate, Idle
    <2> QED BY <1>4, <2>1 DEF ReadInv, Solo, RowsInv, OnTabs
  <1> QED BY <1>7, <1>10, <1>11, RequestsEnd

LEMMA DeleteItemsKeeps ==
    ASSUME RowsInv, RowsInv', ReadInv, NEW t \in Tabs, DeleteItems(t)
    PROVE  ReadInv'
  <1>1. PICK z : z = request[t].record
    OBVIOUS
  <1>2. PICK q : q = [step |-> "cleared", record |-> z, lines |-> request[t].lines, row |-> request[t].row]
    OBVIOUS
  <1>3. /\ Follows(q.lines, z) /\ Newest(z) /\ SameAge(q.row, z)
        /\ request[t] = [step |-> "loaded", record |-> z, lines |-> q.lines, row |-> q.row]
    BY <1>1, <1>2 DEF DeleteItems, ReadInv, Prepared, IsUpdate
  <1>4. /\ z \in Records /\ UNCHANGED <<records, saves, today>>
        /\ items' = [items EXCEPT ![z] = NoItems] /\ request' = [request EXCEPT ![t] = q]
    <2>1. z \in Records /\ UNCHANGED <<records, saves, today>> /\ items' = [items EXCEPT ![z] = NoItems]
      BY <1>1 DEF DeleteItems, RowsInv, Pending
    <2>2. [request[t] EXCEPT !.step = "cleared"] = q
      BY <1>2, <1>3
    <2>3. request' = [request EXCEPT ![t] = q]
      BY <2>2 DEF DeleteItems
    <2> QED BY <2>1, <2>3
  <1>5. \A x \in Records \ {z} : records'[x] = records[x] /\ items'[x] = items[x]
    BY <1>4 DEF RowsInv, OnRecords
  <1>6. Aged'
    BY <1>4 DEF ReadInv, Aged
  <1>7. \A m \in Meters : LinesIn(z)'[m] = NotRead
    BY <1>4 DEF LinesIn, NoItems, NoLines, RowsInv, OnRecords
  <1>8. \A x \in Records \ {z} : Live(x) => After(z, x)'
    BY <1>3, <1>4 DEF Newest, After
  <1>9. /\ Chained'
        /\ \A m \in Meters : \A v : GoesOn(m, v, ReadIn(m) \ {z}) => GoesOn(m, v, ReadIn(m) \ {z})'
    BY <1>3, <1>4, <1>5, <1>6, <1>7, <1>8, NewestWritten DEF ReadInv
  <1>10. Prepared(q)'
    <2>1. Follows(q.lines, z)'
      BY <1>3, <1>9 DEF Follows
    <2>2. Newest(z)' /\ SameAge(q.row, z)'
      BY <1>3, <1>4 DEF Newest, SameAge, Live, After
    <2>3. IsUpdate(q)
      BY <1>2 DEF IsUpdate
    <2> QED BY <1>2, <2>1, <2>2, <2>3 DEF Prepared
  <1>11. \A u \in Tabs : request'[u] = IF u = t THEN q ELSE Idle
    <2>1. request[t] # Idle
      BY <1>3 DEF Idle
    <2> QED BY <1>4, <2>1 DEF ReadInv, Solo, RowsInv, OnTabs
  <1>12. Solo'
    BY <1>11 DEF Solo
  <1>13. ASSUME NEW u \in Tabs PROVE Prepared(request[u])'
    <2>1. \A x : x = Idle => Prepared(x)'
      BY DEF Prepared, Idle
    <2>2. \A x : x = q => Prepared(x)'
      BY <1>10
    <2> QED BY <1>11, <2>1, <2>2
  <1> QED BY <1>6, <1>9, <1>12, <1>13 DEF ReadInv

LEMMA SavePaymentKeeps ==
    ASSUME RowsInv, RowsInv', ReadInv, NEW t \in Tabs, SavePayment(t)
    PROVE  ReadInv'
  <1>1. PICK z : z = request[t].record
    OBVIOUS
  <1>2. PICK row : row = request[t].row
    OBVIOUS
  <1>3. z \in Records /\ Live(z) /\ SameAge(row, z) /\ request[t].items = items[z]
    BY <1>1, <1>2 DEF SavePayment, RowsInv, Pending, ReadInv, Prepared
  <1>4. /\ records' = [records EXCEPT ![z] = row] /\ items' = [items EXCEPT ![z] = items[z]]
        /\ request' = [request EXCEPT ![t] = Idle] /\ UNCHANGED <<saves, today>>
    BY <1>1, <1>2, <1>3 DEF SavePayment, Finish
  <1>5. records'[z] = row /\ \A q \in Records \ {z} : records'[q] = records[q]
    BY <1>3, <1>4 DEF RowsInv, OnRecords
  <1>6. Aged' /\ \A q, r \in Records : After(q, r)' = After(q, r)
    <2>1. saves \in Nat /\ saves <= saves
      BY DEF ReadInv, Aged
    <2> QED BY <1>3, <1>4, <1>5, <2>1, AgeKept DEF ReadInv, SameAge
  <1>7. \A q \in Records : Live(q)' = Live(q) /\ items'[q] = items[q]
    BY <1>3, <1>4, <1>5 DEF Live, SameAge, RowsInv, OnRecords
  <1>8. \A q \in Records : LinesIn(q)' = LinesIn(q)
    BY <1>7 DEF LinesIn
  <1>9. \A m : ReadIn(m)' = ReadIn(m)
    BY <1>8 DEF ReadIn
  <1>10. \A m, r : r \in Records => Earlier(r, m)' = Earlier(r, m)
    BY <1>6, <1>9 DEF Earlier, ReadIn
  <1>11. \A m, v : \A S \in SUBSET Records : GoesOn(m, v, S) => GoesOn(m, v, S)'
    BY <1>8 DEF GoesOn
  <1>12. Chained'
    <2> SUFFICES ASSUME NEW m \in Meters, NEW r \in ReadIn(m)
                 PROVE  ReadLine(LinesIn(r)[m])' /\ GoesOn(m, LinesIn(r)[m].previous, Earlier(r, m))'
      BY <1>9 DEF Chained
    <2>1. r \in Records
      BY DEF ReadIn
    <2>2. PICK v, S : v = LinesIn(r)[m].previous /\ S = Earlier(r, m)
      OBVIOUS
    <2>3. ReadLine(LinesIn(r)[m]) /\ GoesOn(m, v, S) /\ S \in SUBSET Records
      BY <2>2 DEF ReadInv, Chained, Earlier, ReadIn
    <2>4. GoesOn(m, v, S)'
      BY <1>11, <2>3
    <2> QED BY <1>8, <1>10, <2>1, <2>2, <2>3, <2>4 DEF ReadLine
  <1>13. \A u \in Tabs : request'[u] = Idle
    <2>1. request[t] # Idle
      BY DEF SavePayment, Idle
    <2> QED BY <1>4, <2>1 DEF ReadInv, Solo, RowsInv, OnTabs
  <1> QED BY <1>6, <1>12, <1>13, RequestsEnd

LEMMA RemoveKeeps ==
    ASSUME RowsInv, RowsInv', ReadInv, Orderly, NEW z \in Records, RemoveRecord(z)
    PROVE  ReadInv'
  <1>1. SoundRow(records[z]) /\ Live(z) /\ Newest(z)
    BY DEF RemoveRecord, RowsInv, Live, NoRow
  <1>2. /\ records'[z].state = "removed"
        /\ records'[z].to = records[z].to /\ records'[z].made = records[z].made
        /\ \A q \in Records \ {z} : records'[q] = records[q] /\ items'[q] = items[q]
        /\ UNCHANGED <<items, request, saves, today>>
    BY <1>1 DEF RemoveRecord, RowsInv, OnRecords, SoundRow, IsRow
  <1>3. Aged'
    <2>1. saves \in Nat /\ saves <= saves'
      BY <1>2 DEF ReadInv, Aged
    <2> QED BY <1>1, <1>2, <2>1, AgeKept DEF ReadInv
  <1>4. ~Live(z)'
    BY <1>2 DEF Live
  <1>5. Chained'
    BY <1>1, <1>2, <1>3, <1>4, NewestWritten DEF ReadInv
  <1> QED BY <1>2, <1>3, <1>5, RequestsEnd DEF RemoveRecord

LEMMA ReadingsKept == Orderly /\ RowsInv /\ ReadInv /\ [Next]_vars => ReadInv'
  <1> SUFFICES ASSUME Orderly, RowsInv, ReadInv, [Next]_vars PROVE ReadInv'
    OBVIOUS
  <1>1. RowsInv'
    BY NextIsSound
  <1>2. ASSUME NEW t \in Tabs, TabStep(t) PROVE ReadInv'
    BY <1>1, <1>2, PrefillKeeps, EndKeeps, SubmitKeeps, SubmitEditKeeps, SaveNewKeeps, LoadKeeps,
       DeleteItemsKeeps, SaveUpdateKeeps, PayKeeps, SavePaymentKeeps DEF TabStep, SubmitTyped
  <1>3. CASE Crash
    <2>1. Aged' /\ Chained' /\ \A t \in Tabs : request'[t] = Idle
      BY <1>3, SameRowsKeep DEF Crash, ReadInv, Aged
    <2> QED BY <2>1, RequestsEnd
  <1>4. CASE UNCHANGED <<records, items, request, saves>> /\ today' \in {today, today + 1}
    <2>1. today' \in Nat /\ today <= today'
      BY <1>4, BillingConstants DEF RowsInv, Days
    <2>2. Aged' /\ \A q : Prepared(q) => Prepared(q)'
      BY <1>4, <2>1, TodayKeeps DEF ReadInv
    <2>3. Chained' /\ Solo'
      BY <1>4, SameRowsKeep DEF ReadInv, Solo
    <2>4. ASSUME NEW u \in Tabs PROVE Prepared(request[u])'
      <3>1. PICK x : x = request[u]
        OBVIOUS
      <3>2. Prepared(x)'
        BY <2>2, <3>1 DEF ReadInv
      <3> QED BY <1>4, <3>1, <3>2
    <2> QED BY <2>2, <2>3, <2>4 DEF ReadInv
  <1>5. CASE NextDay \/ MeterStep \/ (\E tm \in Terms : ChangeTerms(tm)) \/ UNCHANGED vars
    BY <1>4, <1>5 DEF NextDay, MeterStep, CreateMeter, UpdateMeter, RemoveMeter, ChangeTerms, vars
  <1> QED BY <1>1, <1>2, <1>3, <1>5, RemoveKeeps DEF Next

LEMMA ReadingsInitially == Init => ReadInv
  <1> SUFFICES ASSUME Init PROVE ReadInv
    OBVIOUS
  <1>1. Aged /\ Solo /\ \A t \in Tabs : Prepared(request[t])
    BY IdleIsPrepared DEF Init, Aged, Solo
  <1>2. \A m \in Meters : ReadIn(m) = {}
    BY DEF Init, ReadIn, LinesIn, Live, NoRow, NoLines
  <1> QED BY <1>1, <1>2 DEF ReadInv, Chained

LEMMA ChainFollows == RowsInv /\ ReadInv => ReadingsChain
  <1> SUFFICES ASSUME RowsInv, ReadInv, NEW m \in Meters, NEW r \in ReadIn(m)
               PROVE  /\ \A q \in ReadIn(m) \ {r} : \/ LinesIn(r)[m].current <= LinesIn(q)[m].previous
                                                   \/ LinesIn(q)[m].current <= LinesIn(r)[m].previous
                      /\ \/ \E q \in ReadIn(m) \ {r} : LinesIn(q)[m].current = LinesIn(r)[m].previous
                         \/ \A q \in ReadIn(m) : LinesIn(r)[m].previous <= LinesIn(q)[m].previous
    BY DEF ReadingsChain
  <1>1. \A q \in ReadIn(m) : /\ LinesIn(q)[m].previous \in Nat /\ LinesIn(q)[m].current \in Nat
                             /\ LinesIn(q)[m].previous <= LinesIn(q)[m].current
                             /\ q \in Records /\ Live(q)
    BY BillingConstants, ReadIsLive DEF ReadInv, Chained, ReadLine
  <1>2. \A q \in ReadIn(m) \ {r} : r \in Earlier(q, m) \/ q \in Earlier(r, m)
    BY <1>1, AfterOrders DEF ReadInv, Earlier
  <1>3. \A p, q \in ReadIn(m) : p \in Earlier(q, m) => LinesIn(p)[m].current <= LinesIn(q)[m].previous
    BY DEF ReadInv, Chained, GoesOn
  <1>4. CASE Earlier(r, m) = {}
    <2>1. \A q \in ReadIn(m) \ {r} : LinesIn(r)[m].current <= LinesIn(q)[m].previous
      BY <1>2, <1>3, <1>4
    <2>2. \A q \in ReadIn(m) : LinesIn(r)[m].previous <= LinesIn(q)[m].previous
      BY <1>1, <2>1
    <2> QED BY <2>1, <2>2
  <1>5. CASE Earlier(r, m) # {}
    <2>1. PICK q \in Earlier(r, m) : LinesIn(q)[m].current = LinesIn(r)[m].previous
      BY <1>5 DEF ReadInv, Chained, GoesOn
    <2>2. q \in ReadIn(m) \ {r}
      <3>1. ~After(r, r)
        BY <1>1, AfterOrders DEF ReadInv
      <3> QED BY <3>1 DEF Earlier
    <2> QED BY <1>2, <1>3, <2>1, <2>2
  <1> QED BY <1>4, <1>5

\* What a meter counts is billed once (getPrefill), as long as readings are entered through the
\* form in turn: for any number of records, meters, tabs, days and crashes.
THEOREM ReadingsAlwaysChain == Spec => [](Orderly => ReadingsChain)
  <1>1. Init => (Orderly => ReadInv)
    BY ReadingsInitially
  <1>2. RowsInv /\ (Orderly => ReadInv) /\ [Next]_vars => (Orderly => ReadInv)'
    BY ReadingsKept
  <1>3. RowsInv /\ (Orderly => ReadInv) => (Orderly => ReadingsChain)
    BY ChainFollows
  <1> QED BY <1>1, <1>2, <1>3, RowsStaySound, PTL DEF Spec

\* So the columns of a record fit its items and each other, and readings are billed once.
THEOREM BillsAlwaysConsistent == Spec => []BillsConsistent
  <1>1. ItemsMatchAmount /\ PaidHasDate /\ (Orderly => ReadingsChain) => BillsConsistent
    BY DEF BillsConsistent
  <1> QED BY <1>1, ItemsAlwaysMatchAmount, PaidAlwaysHasDate, ReadingsAlwaysChain, PTL
=============================================================================
