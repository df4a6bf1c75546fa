---------------------- MODULE ContractOccupancyProofs ----------------------
(***************************************************************************)
(* Codes and histories for any number of units, contracts and clients.     *)
(*                                                                         *)
(* The codes are unique because the index also covers removed units, which *)
(* the update of a unit may bring back. The history follows the rent       *)
(* because the step that sets the rent appends the entry that ends with it.*)
(* Needed for that: a contract without a row has no history, and a request *)
(* that is about to write holds a rent.                                    *)
(***************************************************************************)
EXTENDS ContractOccupancy, SequenceTheorems, TLAPS

TermsSteps == {"contract's unit found", "range free"}
TermsFields == {"step", "contract", "new", "unit", "span", "rent", "files", "seen"}
RowFields == {"state", "unit", "span", "rent", "files"}

\* A history: any entries whose parts are rents.
Entries == [before : SUBSET Rents, after : Rents]

RequestsHoldRents ==
    /\ DOMAIN request = Clients
    /\ \A c \in Clients : request[c].step \in TermsSteps =>
         DOMAIN request[c] = TermsFields /\ request[c].rent \in Rents

\* The codes of all rows differ, those of removed units included.
CodesDiffer ==
    /\ DOMAIN units = Units
    /\ \A u, v \in Units : u # v /\ units[u] # Missing /\ units[v] # Missing => units[u].code # units[v].code
    /\ \A u \in Units : units[u] # Missing => DOMAIN units[u] = {"state", "code"}

RemovalSteps == {"no contracts", "no meters"}

\* A unit that is counted and then removed has a row.
RemovalsHaveRows ==
    /\ DOMAIN request = Clients
    /\ \A c \in Clients : request[c].step \in RemovalSteps =>
         DOMAIN request[c] = {"step", "unit"} /\ request[c].unit \in Units /\ units[request[c].unit] # Missing

-----------------------------------------------------------------------------
(* Which steps change what *)

\* The steps that neither touch a contract nor a history.
LEMMA RowsOnlyChangeBy ==
  ASSUME Next
  PROVE  \/ UNCHANGED <<contracts, history>>
         \/ \E c \in Clients : UpdateUnit(c) \/ InsertContract(c) \/ UpdateContract(c)
         \/ \E k \in Contracts : RemoveContract(k) \/ \E files \in SUBSET Files : AddAttachments(k, files)
  <1>1. ASSUME NEW c \in Clients, UnitStep(c)
        PROVE  UNCHANGED <<contracts, history>> \/ UpdateUnit(c)
    BY <1>1 DEF UnitStep, CreateUnit, InsertUnit, FindUnit, CheckCode, CountContracts, CountMeters,
       DeleteUnit, CreateMeter, InsertMeter
  <1>2. ASSUME NEW c \in Clients, ContractStep(c)
        PROVE  UNCHANGED <<contracts, history>> \/ InsertContract(c) \/ UpdateContract(c)
    BY <1>2 DEF ContractStep, OpenForm, SubmitNew, SubmitForm, FindUnitOfContract, CheckRange
  <1>3. ASSUME NEW c \in Clients, GiveUp(c) PROVE UNCHANGED <<contracts, history>>
    BY <1>3 DEF GiveUp
  <1>4. ASSUME NEW m \in Meters, RemoveMeter(m) PROVE UNCHANGED <<contracts, history>>
    BY <1>4 DEF RemoveMeter
  <1>5. ASSUME NextDay PROVE UNCHANGED <<contracts, history>>
    BY <1>5 DEF NextDay
  <1> QED BY <1>1, <1>2, <1>3, <1>4, <1>5 DEF Next

\* The rows of units change when one is inserted, updated or removed.
LEMMA UnitsOnlyChangeBy ==
  ASSUME Next
  PROVE  UNCHANGED units \/ \E c \in Clients : InsertUnit(c) \/ UpdateUnit(c) \/ DeleteUnit(c)
  <1>1. ASSUME NEW c \in Clients, UnitStep(c)
        PROVE  UNCHANGED units \/ InsertUnit(c) \/ UpdateUnit(c) \/ DeleteUnit(c)
    BY <1>1 DEF UnitStep, CreateUnit, FindUnit, CheckCode, CountContracts, CountMeters,
       CreateMeter, InsertMeter
  <1>2. ASSUME NEW c \in Clients, ContractStep(c) PROVE UNCHANGED units
    BY <1>2 DEF ContractStep, OpenForm, SubmitNew, SubmitForm, FindUnitOfContract, CheckRange,
       InsertContract, UpdateContract
  <1>3. ASSUME NEW c \in Clients, GiveUp(c) PROVE UNCHANGED units
    BY <1>3 DEF GiveUp
  <1>4. ASSUME NEW m \in Meters, RemoveMeter(m) PROVE UNCHANGED units
    BY <1>4 DEF RemoveMeter
  <1>5. ASSUME NEW k \in Contracts, NEW files, AddAttachments(k, files) PROVE UNCHANGED units
    BY <1>5 DEF AddAttachments
  <1>6. ASSUME NEW k \in Contracts, RemoveContract(k) PROVE UNCHANGED units
    BY <1>6 DEF RemoveContract
  <1>7. ASSUME NextDay PROVE UNCHANGED units
    BY <1>7 DEF NextDay
  <1> QED BY <1>1, <1>2, <1>3, <1>4, <1>5, <1>6, <1>7 DEF Next

\* A request begins, moves on by one step, ends, or is left alone.
LEMMA RequestsOnlyChangeBy ==
  ASSUME Next
  PROVE  \/ UNCHANGED request
         \/ \E c \in Clients :
              \/ \E q : q.step \notin TermsSteps /\ Begin(c, q)
              \/ \E k, new, u, span, files, seen : \E rent \in Rents :
                   FindUnitOfContract(c, k, new, u, span, rent, files, seen)
              \/ \E step : step \notin TermsSteps /\ request[c].step \notin TermsSteps /\ Proceed(c, step)
              \/ CheckRange(c)
  <1>1. ASSUME NEW c \in Clients, UnitStep(c)
        PROVE  \/ \E q : q.step \notin TermsSteps /\ Begin(c, q)
               \/ \E step : step \notin TermsSteps /\ request[c].step \notin TermsSteps /\ Proceed(c, step)
    <2>1. ASSUME NEW u \in Units, NEW code \in Codes, CreateUnit(c, u, code)
          PROVE \E q : q.step \notin TermsSteps /\ Begin(c, q)
      BY <2>1 DEF CreateUnit, TermsSteps
    <2>2. ASSUME NEW u \in Units, NEW code \in Codes, FindUnit(c, u, code)
          PROVE \E q : q.step \notin TermsSteps /\ Begin(c, q)
      BY <2>2 DEF FindUnit, TermsSteps
    <2>3. ASSUME NEW u \in Units, CountContracts(c, u)
          PROVE \E q : q.step \notin TermsSteps /\ Begin(c, q)
      BY <2>3 DEF CountContracts, TermsSteps
    <2>4. ASSUME NEW u \in Units, NEW m \in Meters, CreateMeter(c, m, u)
          PROVE \E q : q.step \notin TermsSteps /\ Begin(c, q)
      BY <2>4 DEF CreateMeter, TermsSteps
    <2>5. ASSUME InsertUnit(c) \/ UpdateUnit(c) \/ DeleteUnit(c) \/ InsertMeter(c)
          PROVE \E q : q.step \notin TermsSteps /\ Begin(c, q)
      BY <2>5 DEF InsertUnit, UpdateUnit, DeleteUnit, InsertMeter, Finish, Begin, Idle, TermsSteps
    <2>6. ASSUME CheckCode(c) \/ CountMeters(c)
          PROVE \E step : step \notin TermsSteps /\ request[c].step \notin TermsSteps /\ Proceed(c, step)
      BY <2>6 DEF CheckCode, CountMeters, TermsSteps
    <2> QED BY <1>1, <2>1, <2>2, <2>3, <2>4, <2>5, <2>6 DEF UnitStep
  <1>2. ASSUME NEW c \in Clients, ContractStep(c)
        PROVE  \/ \E q : q.step \notin TermsSteps /\ Begin(c, q)
               \/ \E k, new, u, span, files, seen : \E rent \in Rents :
                    FindUnitOfContract(c, k, new, u, span, rent, files, seen)
               \/ CheckRange(c)
    <2>1. ASSUME NEW k \in Contracts, OpenForm(c, k)
          PROVE \E q : q.step \notin TermsSteps /\ Begin(c, q)
      BY <2>1 DEF OpenForm, TermsSteps
    <2>2. ASSUME InsertContract(c) \/ UpdateContract(c)
          PROVE \E q : q.step \notin TermsSteps /\ Begin(c, q)
      BY <2>2 DEF InsertContract, UpdateContract, Finish, Begin, Idle, TermsSteps
    <2>3. ASSUME NEW u \in Units, NEW span \in Spans, NEW rent \in Rents, NEW files \in SUBSET Files,
                 SubmitForm(c, u, span, rent, files) \/ \E k \in Contracts : SubmitNew(c, k, u, span, rent, files)
          PROVE \E k, new, v, s, fs, seen : \E r \in Rents : FindUnitOfContract(c, k, new, v, s, r, fs, seen)
      BY <2>3 DEF SubmitForm, SubmitNew
    <2> QED BY <1>2, <2>1, <2>2, <2>3 DEF ContractStep
  <1>3. ASSUME NEW c \in Clients, GiveUp(c)
        PROVE  \E q : q.step \notin TermsSteps /\ Begin(c, q)
    BY <1>3 DEF GiveUp, Finish, Begin, Idle, TermsSteps
  <1>4. ASSUME \/ \E m \in Meters : RemoveMeter(m)
               \/ \E k \in Contracts, files \in (SUBSET Files) \ {{}} : AddAttachments(k, files)
               \/ \E k \in Contracts : RemoveContract(k)
               \/ NextDay
        PROVE  UNCHANGED request
    BY <1>4 DEF RemoveMeter, AddAttachments, RemoveContract, NextDay
  <1> QED BY <1>1, <1>2, <1>3, <1>4 DEF Next

LEMMA HeldRentsKept ==
  ASSUME RequestsHoldRents, [Next]_vars
  PROVE  RequestsHoldRents'
  <1>1. CASE UNCHANGED request
    BY <1>1 DEF RequestsHoldRents
  <1>2. ASSUME NEW c \in Clients, NEW q, q.step \notin TermsSteps, Begin(c, q)
        PROVE  RequestsHoldRents'
    BY <1>2 DEF RequestsHoldRents, Begin
  <1>3. ASSUME NEW c \in Clients, NEW k, NEW new, NEW u, NEW span, NEW files, NEW seen, NEW rent \in Rents,
               FindUnitOfContract(c, k, new, u, span, rent, files, seen)
        PROVE  RequestsHoldRents'
    <2>1. PICK q : /\ q = [step |-> "contract's unit found", contract |-> k, new |-> new, unit |-> u,
                           span |-> span, rent |-> rent, files |-> files, seen |-> seen]
                   /\ request' = [request EXCEPT ![c] = q]
      BY <1>3 DEF FindUnitOfContract, Begin
    <2>2. DOMAIN q = TermsFields /\ q.rent \in Rents
      BY <2>1 DEF TermsFields
    <2> QED BY <2>1, <2>2 DEF RequestsHoldRents
  <1>4. ASSUME NEW c \in Clients, NEW step, step \notin TermsSteps, request[c].step \notin TermsSteps,
               Proceed(c, step)
        PROVE  RequestsHoldRents'
    BY <1>4 DEF RequestsHoldRents, Proceed
  <1>5. ASSUME NEW c \in Clients, CheckRange(c)
        PROVE  RequestsHoldRents'
    BY <1>5 DEF RequestsHoldRents, CheckRange, Proceed, TermsSteps, TermsFields
  <1>6. CASE UNCHANGED vars
    BY <1>1, <1>6 DEF vars
  <1> QED BY <1>1, <1>2, <1>3, <1>4, <1>5, <1>6, RequestsOnlyChangeBy

-----------------------------------------------------------------------------
(* Histories *)

LEMMA AppendedEntries ==
  ASSUME NEW h \in Seq(Entries), NEW before \in SUBSET Rents, NEW after \in Rents, before # {after}
  PROVE  /\ Appended(h, before, after) = Append(h, [before |-> before, after |-> after])
         /\ Appended(h, before, after) \in Seq(Entries)
         /\ Len(Appended(h, before, after)) = Len(h) + 1
         /\ \A i \in 1..Len(h) : Appended(h, before, after)[i] = h[i]
         /\ Appended(h, before, after)[Len(h) + 1] = [before |-> before, after |-> after]
  <1>1. [before |-> before, after |-> after] \in Entries
    BY DEF Entries
  <1>2. Appended(h, before, after) = Append(h, [before |-> before, after |-> after])
    BY DEF Appended
  <1> QED BY <1>1, <1>2

\* What HistoryFollowsRent says of one contract.
Follows(h, rent) ==
    /\ h # <<>> /\ h[1].before = {}
    /\ \A i \in 2..Len(h) : h[i].before = {h[i-1].after} /\ h[i].before # {h[i].after}
    /\ h[Len(h)].after = rent

LEMMA FirstEntry ==
  ASSUME NEW rent \in Rents
  PROVE  Appended(<<>>, {}, rent) \in Seq(Entries) /\ Follows(Appended(<<>>, {}, rent), rent)
  <1> DEFINE a == Appended(<<>>, {}, rent)
             first == [before |-> {}, after |-> rent]
  <1>1. first \in Entries /\ first.before = {} /\ first.after = rent
    BY DEF Entries
  <1>2. a = Append(<<>>, first)
    BY DEF Appended
  <1> HIDE DEF a, first
  <1>3. a \in Seq(Entries) /\ Len(a) = 1 /\ a[1] = first
    BY <1>1, <1>2
  <1>4. Follows(a, rent)
    <2>1. a # <<>>
      BY <1>3
    <2> QED BY <1>1, <1>3, <2>1 DEF Follows
  <1> QED BY <1>3, <1>4 DEF a

LEMMA NextEntry ==
  ASSUME NEW h \in Seq(Entries), NEW old \in Rents, NEW rent \in Rents, Follows(h, old)
  PROVE  Appended(h, {old}, rent) \in Seq(Entries) /\ Follows(Appended(h, {old}, rent), rent)
  <1>1. CASE old = rent
    BY <1>1 DEF Appended
  <1>2. CASE old # rent
    <2> DEFINE a == Appended(h, {old}, rent)
    <2>1. /\ a \in Seq(Entries) /\ Len(a) = Len(h) + 1
          /\ \A i \in 1..Len(h) : a[i] = h[i]
          /\ a[Len(h) + 1] = [before |-> {old}, after |-> rent]
      <3>1. {old} \in SUBSET Rents /\ {old} # {rent}
        BY <1>2
      <3> QED BY <3>1, AppendedEntries
    <2>2. Len(h) \in Nat /\ Len(h) >= 1
      BY DEF Follows
    <2> HIDE DEF a
    <2>3. a # <<>> /\ a[1].before = {}
      BY <2>1, <2>2 DEF Follows
    <2>4. ASSUME NEW i \in 2..Len(a)
          PROVE  a[i].before = {a[i-1].after} /\ a[i].before # {a[i].after}
      <3>1. CASE i = Len(h) + 1
        <4>1. a[i].before = {old} /\ a[i].after = rent
          BY <2>1, <3>1
        <4>2. a[i-1] = h[Len(h)]
          BY <2>1, <2>2, <3>1
        <4>3. h[Len(h)].after = old
          BY DEF Follows
        <4> QED BY <1>2, <4>1, <4>2, <4>3
      <3>2. CASE i # Len(h) + 1
        BY <2>1, <2>2, <2>4, <3>2 DEF Follows
      <3> QED BY <3>1, <3>2
    <2>5. a[Len(a)].after = rent
      BY <2>1, <2>2
    <2>6. Follows(a, rent)
      BY <2>3, <2>4, <2>5 DEF Follows
    <2> QED BY <2>1, <2>6 DEF a
  <1> QED BY <1>1, <1>2

\* The part of the invariant that is about one contract.
Good(row, h) ==
    /\ h \in Seq(Entries)
    /\ \/ row = Missing /\ h = <<>>
       \/ row # Missing /\ DOMAIN row = RowFields /\ row.rent \in Rents /\ Follows(h, row.rent)

AllGood ==
    /\ DOMAIN contracts = Contracts /\ DOMAIN history = Contracts
    /\ \A k \in Contracts : Good(contracts[k], history[k])

LEMMA RowIsNotMissing ==
  ASSUME NEW row, DOMAIN row = RowFields
  PROVE  row # Missing
  <1>1. "unit" \in DOMAIN row
    BY DEF RowFields
  <1>2. DOMAIN Missing = {"state"}
    BY DEF Missing
  <1> QED BY <1>1, <1>2

LEMMA MissingIsNew == Missing.state = "new"
  BY DEF Missing

\* Changing a field of a row that is not the rent.
LEMMA UnitKeepsGood ==
  ASSUME NEW row, NEW h, Good(row, h), NEW u
  PROVE  Good([row EXCEPT !.unit = u], h)
  <1>1. CASE row = Missing
    BY <1>1 DEF Good, Missing
  <1>2. CASE row # Missing
    <2>1. DOMAIN [row EXCEPT !.unit = u] = RowFields /\ [row EXCEPT !.unit = u].rent = row.rent
      BY <1>2 DEF Good, RowFields
    <2> QED BY <1>2, <2>1, RowIsNotMissing DEF Good
  <1> QED BY <1>1, <1>2

LEMMA FilesKeepGood ==
  ASSUME NEW row, NEW h, Good(row, h), NEW files
  PROVE  Good([row EXCEPT !.files = files], h)
  <1>1. CASE row = Missing
    BY <1>1 DEF Good, Missing
  <1>2. CASE row # Missing
    <2>1. DOMAIN [row EXCEPT !.files = files] = RowFields /\ [row EXCEPT !.files = files].rent = row.rent
      BY <1>2 DEF Good, RowFields
    <2> QED BY <1>2, <2>1, RowIsNotMissing DEF Good
  <1> QED BY <1>1, <1>2

LEMMA RemovalKeepsGood ==
  ASSUME NEW row, NEW h, Good(row, h), row # Missing
  PROVE  Good([row EXCEPT !.state = "removed"], h)
  <1>1. DOMAIN [row EXCEPT !.state = "removed"] = RowFields /\ [row EXCEPT !.state = "removed"].rent = row.rent
    BY DEF Good, RowFields
  <1> QED BY <1>1, RowIsNotMissing DEF Good

LEMMA AllGoodKept ==
  ASSUME RequestsHoldRents, AllGood, [Next]_vars
  PROVE  AllGood'
  <1>1. CASE UNCHANGED <<contracts, history>>
    BY <1>1 DEF AllGood
  <1>2. ASSUME NEW c \in Clients, UpdateUnit(c) PROVE AllGood'
    <2>1. DOMAIN contracts' = Contracts /\ UNCHANGED history
      BY <1>2 DEF UpdateUnit
    <2>2. ASSUME NEW k \in Contracts PROVE Good(contracts'[k], history[k])
      <3>1. PICK u : contracts'[k] = [contracts[k] EXCEPT !.unit = u] \/ contracts'[k] = contracts[k]
        BY <1>2 DEF UpdateUnit
      <3>2. Good(contracts[k], history[k])
        BY DEF AllGood
      <3>3. Good([contracts[k] EXCEPT !.unit = u], history[k])
        BY <3>2, UnitKeepsGood
      <3> QED BY <3>1, <3>2, <3>3
    <2> QED BY <2>1, <2>2 DEF AllGood
  <1>3. ASSUME NEW c \in Clients, InsertContract(c) PROVE AllGood'
    <2>1. PICK q : q = request[c]
      OBVIOUS
    <2>2. /\ q.step = "range free" /\ contracts[q.contract] = Missing
          /\ contracts' = [contracts EXCEPT ![q.contract] = RowOf(q)]
          /\ history' = [history EXCEPT ![q.contract] = Appended(history[q.contract], {}, q.rent)]
      BY <1>3, <2>1 DEF InsertContract
    <2>3. q.rent \in Rents
      BY <2>1, <2>2 DEF RequestsHoldRents, TermsSteps
    <2>4. DOMAIN RowOf(q) = RowFields /\ RowOf(q).rent = q.rent
      BY DEF RowOf, RowFields
    <2>5. CASE q.contract \in Contracts
      <3>1. history[q.contract] = <<>>
        BY <2>2, <2>5 DEF AllGood, Good
      <3>2. Good(RowOf(q), history'[q.contract])
        BY <2>2, <2>3, <2>4, <2>5, <3>1, FirstEntry, RowIsNotMissing DEF Good, AllGood
      <3> QED BY <2>2, <2>5, <3>2 DEF AllGood
    <2>6. CASE q.contract \notin Contracts
      BY <2>2, <2>6 DEF AllGood
    <2> QED BY <2>5, <2>6
  <1>4. ASSUME NEW c \in Clients, UpdateContract(c) PROVE AllGood'
    <2>1. PICK q : q = request[c]
      OBVIOUS
    <2>2. /\ q.step = "range free" /\ Live(q.contract)
          /\ contracts' = [contracts EXCEPT ![q.contract] = RowOf(q)]
          /\ history' = [history EXCEPT ![q.contract] =
                           Appended(history[q.contract], {contracts[q.contract].rent}, q.rent)]
      BY <1>4, <2>1 DEF UpdateContract
    <2>3. q.rent \in Rents
      BY <2>1, <2>2 DEF RequestsHoldRents, TermsSteps
    <2>4. DOMAIN RowOf(q) = RowFields /\ RowOf(q).rent = q.rent
      BY DEF RowOf, RowFields
    <2>5. CASE q.contract \in Contracts
      <3>1. contracts[q.contract] # Missing
        BY <2>2, MissingIsNew DEF Live
      <3>2. /\ contracts[q.contract].rent \in Rents /\ history[q.contract] \in Seq(Entries)
            /\ Follows(history[q.contract], contracts[q.contract].rent)
        BY <2>5, <3>1 DEF AllGood, Good
      <3>3. Good(RowOf(q), history'[q.contract])
        BY <2>2, <2>3, <2>4, <2>5, <3>2, NextEntry, RowIsNotMissing DEF Good, AllGood
      <3> QED BY <2>2, <2>5, <3>3 DEF AllGood
    <2>6. CASE q.contract \notin Contracts
      BY <2>2, <2>6 DEF AllGood
    <2> QED BY <2>5, <2>6
  <1>5. ASSUME NEW k \in Contracts, RemoveContract(k) PROVE AllGood'
    <2>1. PICK row : row = [contracts[k] EXCEPT !.state = "removed"]
      OBVIOUS
    <2>2. /\ contracts[k] # Missing /\ UNCHANGED history
          /\ contracts' = [contracts EXCEPT ![k] = row]
      BY <1>5, <2>1, MissingIsNew DEF RemoveContract, Live
    <2>3. Good(row, history[k])
      BY <2>1, <2>2, RemovalKeepsGood DEF AllGood
    <2> QED BY <2>2, <2>3 DEF AllGood
  <1>6. ASSUME NEW k \in Contracts, NEW files \in SUBSET Files, AddAttachments(k, files) PROVE AllGood'
    <2>1. PICK row : row = [contracts[k] EXCEPT !.files = contracts[k].files \cup files]
      OBVIOUS
    <2>2. UNCHANGED history /\ contracts' = [contracts EXCEPT ![k] = row]
      BY <1>6, <2>1 DEF AddAttachments
    <2>3. Good(row, history[k])
      BY <2>1, FilesKeepGood DEF AllGood
    <2> QED BY <2>2, <2>3 DEF AllGood
  <1>7. CASE UNCHANGED vars
    BY <1>1, <1>7 DEF vars
  <1> QED BY <1>1, <1>2, <1>3, <1>4, <1>5, <1>6, <1>7, RowsOnlyChangeBy

LEMMA InitHistories == Init => RequestsHoldRents /\ AllGood
  <1>1. Idle.step \notin TermsSteps
    BY DEF Idle, TermsSteps
  <1>2. ASSUME Init PROVE RequestsHoldRents
    BY <1>1, <1>2 DEF Init, RequestsHoldRents
  <1>3. ASSUME Init PROVE AllGood
    BY <1>3 DEF Init, AllGood, Good
  <1> QED BY <1>2, <1>3

\* However edits of a contract interleave and fail, the history of its rent starts with the
\* first rent, has no gap and no idle entry, and ends with the rent it has.
THEOREM HistoryAlwaysFollowsRent == Spec => []HistoryFollowsRent
  <1>1. Init => RequestsHoldRents /\ AllGood
    BY InitHistories
  <1>2. RequestsHoldRents /\ AllGood /\ [Next]_vars => (RequestsHoldRents /\ AllGood)'
    BY HeldRentsKept, AllGoodKept
  <1>3. AllGood => HistoryFollowsRent
    <2> SUFFICES ASSUME AllGood, NEW k \in Contracts, contracts[k] # Missing
                 PROVE  Follows(history[k], contracts[k].rent)
      BY DEF HistoryFollowsRent, Follows
    <2> QED BY DEF AllGood, Good
  <1> QED BY <1>1, <1>2, <1>3, PTL DEF Spec

-----------------------------------------------------------------------------
(* Codes *)

\* A request that is about to remove a unit is left alone, or counted its contracts or meters.
LEMMA RemovalsOnlyChangeBy ==
  ASSUME [Next]_vars, DOMAIN request = Clients, NEW d \in Clients, request'[d].step \in RemovalSteps
  PROVE  request'[d] = request[d] \/ CountMeters(d) \/ \E u \in Units : CountContracts(d, u)
  <1>1. ASSUME NEW c \in Clients, NEW q, q.step \notin RemovalSteps, Begin(c, q)
        PROVE  request'[d] = request[d]
    BY <1>1 DEF Begin
  <1>2. ASSUME NEW c \in Clients, c # d, \/ CountMeters(c) \/ CheckCode(c) \/ CheckRange(c)
                                         \/ \E u \in Units : CountContracts(c, u)
        PROVE  request'[d] = request[d]
    BY <1>2 DEF CountMeters, CheckCode, CheckRange, CountContracts, Begin, Proceed
  <1>3. ASSUME \/ CheckCode(d) \/ CheckRange(d)
        PROVE  request'[d].step \notin RemovalSteps
    <2>1. PICK step : /\ request' = [request EXCEPT ![d].step = step]
                      /\ step \notin RemovalSteps /\ request[d].step \notin RemovalSteps
      BY <1>3 DEF CheckCode, CheckRange, Proceed, RemovalSteps
    <2> QED BY <2>1
  <1>4. ASSUME NEW c \in Clients, UnitStep(c)
        PROVE  request'[d] = request[d] \/ CountMeters(d) \/ \E u \in Units : CountContracts(d, u)
    <2>1. ASSUME NEW u \in Units, NEW code \in Codes, CreateUnit(c, u, code)
          PROVE \E q : q.step \notin RemovalSteps /\ Begin(c, q)
      BY <2>1 DEF CreateUnit, RemovalSteps
    <2>2. ASSUME NEW u \in Units, NEW code \in Codes, FindUnit(c, u, code)
          PROVE \E q : q.step \notin RemovalSteps /\ Begin(c, q)
      BY <2>2 DEF FindUnit, RemovalSteps
    <2>3. ASSUME NEW u \in Units, NEW m \in Meters, CreateMeter(c, m, u)
          PROVE \E q : q.step \notin RemovalSteps /\ Begin(c, q)
      BY <2>3 DEF CreateMeter, RemovalSteps
    <2>4. ASSUME InsertUnit(c) \/ UpdateUnit(c) \/ DeleteUnit(c) \/ InsertMeter(c)
          PROVE \E q : q.step \notin RemovalSteps /\ Begin(c, q)
      BY <2>4 DEF InsertUnit, UpdateUnit, DeleteUnit, InsertMeter, Finish, Begin, Idle, RemovalSteps
    <2> QED BY <1>1, <1>2, <1>3, <1>4, <2>1, <2>2, <2>3, <2>4 DEF UnitStep
  <1>5. ASSUME NEW c \in Clients, ContractStep(c)
        PROVE  request'[d] = request[d]
    <2>1. ASSUME NEW k \in Contracts, OpenForm(c, k)
          PROVE \E q : q.step \notin RemovalSteps /\ Begin(c, q)
      BY <2>1 DEF OpenForm, RemovalSteps
    <2>2. ASSUME InsertContract(c) \/ UpdateContract(c)
          PROVE \E q : q.step \notin RemovalSteps /\ Begin(c, q)
      BY <2>2 DEF InsertContract, UpdateContract, Finish, Begin, Idle, RemovalSteps
    <2>3. ASSUME NEW u \in Units, NEW span \in Spans, NEW rent \in Rents, NEW files \in SUBSET Files,
                 SubmitForm(c, u, span, rent, files) \/ \E k \in Contracts : SubmitNew(c, k, u, span, rent, files)
          PROVE \E q : q.step \notin RemovalSteps /\ Begin(c, q)
      BY <2>3 DEF SubmitForm, SubmitNew, FindUnitOfContract, RemovalSteps
    <2> QED BY <1>1, <1>2, <1>3, <1>5, <2>1, <2>2, <2>3 DEF ContractStep
  <1>6. ASSUME NEW c \in Clients, GiveUp(c)
        PROVE  request'[d] = request[d]
    <2>1. \E q : q.step \notin RemovalSteps /\ Begin(c, q)
      BY <1>6 DEF GiveUp, Finish, Begin, Idle, RemovalSteps
    <2> QED BY <1>1, <2>1
  <1>7. ASSUME \/ \E m \in Meters : RemoveMeter(m)
               \/ \E k \in Contracts, files \in (SUBSET Files) \ {{}} : AddAttachments(k, files)
               \/ \E k \in Contracts : RemoveContract(k)
               \/ NextDay \/ UNCHANGED vars
        PROVE  UNCHANGED request
    BY <1>7 DEF RemoveMeter, AddAttachments, RemoveContract, NextDay, vars
  <1> QED BY <1>4, <1>5, <1>6, <1>7 DEF Next

LEMMA RowsStay ==
  ASSUME CodesDiffer, RemovalsHaveRows, [Next]_vars, NEW u \in Units, units[u] # Missing
  PROVE  units'[u] # Missing
  <1>1. CASE UNCHANGED units \/ UNCHANGED vars
    BY <1>1 DEF vars
  <1>2. ASSUME NEW c \in Clients, InsertUnit(c) \/ UpdateUnit(c) PROVE units'[u] # Missing
    <2>1. PICK unit, row : /\ row = [state |-> "live", code |-> request[c].code]
                           /\ units' = [units EXCEPT ![unit] = row]
      BY <1>2 DEF InsertUnit, UpdateUnit
    <2>2. row.state = "live"
      BY <2>1
    <2> QED BY <2>1, <2>2, MissingIsNew DEF CodesDiffer
  <1>3. ASSUME NEW c \in Clients, DeleteUnit(c) PROVE units'[u] # Missing
    <2>1. PICK unit : unit = request[c].unit
      OBVIOUS
    <2>2. PICK row : row = [units[unit] EXCEPT !.state = "removed"]
      OBVIOUS
    <2>3. units' = [units EXCEPT ![unit] = row]
      BY <1>3, <2>1, <2>2 DEF DeleteUnit
    <2>4. CASE unit = u
      <3>1. DOMAIN row = {"state", "code"}
        BY <2>2, <2>4 DEF CodesDiffer
      <3>2. row # Missing
        BY <3>1 DEF Missing
      <3> QED BY <2>3, <2>4, <3>2 DEF CodesDiffer
    <2>5. CASE unit # u
      BY <2>3, <2>5 DEF CodesDiffer
    <2> QED BY <2>4, <2>5
  <1> QED BY <1>1, <1>2, <1>3, UnitsOnlyChangeBy

LEMMA RemovalsKept ==
  ASSUME CodesDiffer, RemovalsHaveRows, [Next]_vars
  PROVE  RemovalsHaveRows'
  <1>1. DOMAIN request' = Clients
    <2>1. ASSUME Next PROVE DOMAIN request' = DOMAIN request
      <3>1. \A c, q : Begin(c, q) => DOMAIN request' = DOMAIN request
        BY DEF Begin
      <3>2. \A c, step : Proceed(c, step) => DOMAIN request' = DOMAIN request
        BY DEF Proceed
      <3>3. \A c, k, new, u, span, rent, files, seen :
              FindUnitOfContract(c, k, new, u, span, rent, files, seen) => DOMAIN request' = DOMAIN request
        BY <3>1 DEF FindUnitOfContract
      <3>4. \A c : CheckRange(c) => DOMAIN request' = DOMAIN request
        BY <3>2 DEF CheckRange
      <3> QED BY <2>1, <3>1, <3>2, <3>3, <3>4, RequestsOnlyChangeBy
    <2> QED BY <2>1 DEF RemovalsHaveRows, vars
  <1>2. ASSUME NEW d \in Clients, request'[d].step \in RemovalSteps
        PROVE  /\ DOMAIN request'[d] = {"step", "unit"} /\ request'[d].unit \in Units
               /\ units'[request'[d].unit] # Missing
    <2>1. CASE request'[d] = request[d]
      BY <1>2, <2>1, RowsStay DEF RemovalsHaveRows
    <2>2. CASE CountMeters(d)
      <3>1. PICK q : q = [request[d] EXCEPT !.step = "no meters"]
        OBVIOUS
      <3>2. request' = [request EXCEPT ![d] = q] /\ request[d].step \in RemovalSteps /\ UNCHANGED units
        BY <2>2, <3>1 DEF CountMeters, Proceed, RemovalSteps
      <3>3. DOMAIN q = {"step", "unit"} /\ q.unit = request[d].unit
        BY <3>1, <3>2 DEF RemovalsHaveRows
      <3> QED BY <3>2, <3>3 DEF RemovalsHaveRows
    <2>3. ASSUME NEW u \in Units, CountContracts(d, u)
          PROVE  /\ DOMAIN request'[d] = {"step", "unit"} /\ request'[d].unit \in Units
                 /\ units'[request'[d].unit] # Missing
      <3>1. PICK q : q = [step |-> "no contracts", unit |-> u]
        OBVIOUS
      <3>2. request' = [request EXCEPT ![d] = q] /\ units[u].state = "live" /\ UNCHANGED units
        BY <2>3, <3>1 DEF CountContracts, Begin, LiveUnit
      <3>3. DOMAIN q = {"step", "unit"} /\ q.unit = u
        BY <3>1
      <3>4. units[u] # Missing
        BY <3>2, MissingIsNew
      <3> QED BY <3>2, <3>3, <3>4 DEF RemovalsHaveRows
    <2>4. DOMAIN request = Clients
      BY DEF RemovalsHaveRows
    <2> QED BY <1>2, <2>1, <2>2, <2>3, <2>4, RemovalsOnlyChangeBy
  <1> QED BY <1>1, <1>2 DEF RemovalsHaveRows

LEMMA CodesDifferKept ==
  ASSUME CodesDiffer, RemovalsHaveRows, [Next]_vars
  PROVE  CodesDiffer'
  <1>1. CASE UNCHANGED units
    BY <1>1 DEF CodesDiffer
  <1>2. ASSUME NEW c \in Clients, InsertUnit(c) \/ UpdateUnit(c) PROVE CodesDiffer'
    <2>1. PICK unit, row : /\ row = [state |-> "live", code |-> request[c].code]
                           /\ unit = request[c].unit /\ IndexAllows(unit, row.code)
                           /\ units' = [units EXCEPT ![unit] = row]
      BY <1>2 DEF InsertUnit, UpdateUnit
    <2>2. DOMAIN row = {"state", "code"}
      BY <2>1
    <2> QED BY <2>1, <2>2 DEF CodesDiffer, IndexAllows
  <1>3. ASSUME NEW c \in Clients, DeleteUnit(c) PROVE CodesDiffer'
    <2>1. PICK unit : unit = request[c].unit
      OBVIOUS
    <2>2. PICK row : row = [units[unit] EXCEPT !.state = "removed"]
      OBVIOUS
    <2>3. units' = [units EXCEPT ![unit] = row]
      BY <1>3, <2>1, <2>2 DEF DeleteUnit
    <2>4. DOMAIN row = DOMAIN units[unit]
      BY <2>2
    <2>5. CASE unit \in Units /\ units[unit] # Missing
      <3>1. row.code = units[unit].code /\ DOMAIN row = {"state", "code"}
        BY <2>2, <2>4, <2>5 DEF CodesDiffer
      <3> QED BY <2>3, <2>5, <3>1 DEF CodesDiffer
    <2>6. unit \in Units /\ units[unit] # Missing
      BY <1>3, <2>1 DEF DeleteUnit, RemovalsHaveRows, RemovalSteps
    <2> QED BY <2>5, <2>6
  <1>4. CASE UNCHANGED vars
    BY <1>1, <1>4 DEF vars
  <1> QED BY <1>1, <1>2, <1>3, <1>4, UnitsOnlyChangeBy

\* Two units that are in use never have the same code, for any number of requests.
THEOREM CodesAlwaysUnique == Spec => []CodesUnique
  <1>1. Init => CodesDiffer /\ RemovalsHaveRows
    <2>1. Idle.step \notin RemovalSteps
      BY DEF Idle, RemovalSteps
    <2>2. Init => RemovalsHaveRows
      BY <2>1 DEF Init, RemovalsHaveRows
    <2> QED BY <2>2 DEF Init, CodesDiffer
  <1>2. CodesDiffer /\ RemovalsHaveRows /\ [Next]_vars => (CodesDiffer /\ RemovalsHaveRows)'
    BY CodesDifferKept, RemovalsKept
  <1>3. CodesDiffer => CodesUnique
    BY MissingIsNew DEF CodesDiffer, CodesUnique, LiveUnit
  <1> QED BY <1>1, <1>2, <1>3, PTL DEF Spec

-----------------------------------------------------------------------------
(* Units in turn: no two requests are about one unit *)

EditSteps == {"unit found", "code checked"}

RowTypes ==
    /\ units \in [Units -> Unit \cup {Missing}]
    /\ meters \in [Meters -> Meter \cup {Missing}]
    /\ contracts \in [Contracts -> Contract \cup {Missing}]
    /\ request \in [Clients -> Requests]
    /\ today \in Nat

\* The units of a client's request. A new contract has no other unit than the one it asks for.
Own(c) ==
    LET q == request[c] IN
    IF q.step \in TermsSteps
    THEN {q.unit} \cup IF ~q.new /\ Live(q.contract) THEN {contracts[q.contract].unit} ELSE {}
    ELSE IF q.step \in {"idle", "form"} THEN {} ELSE {q.unit}

InTurn == \A c, d \in Clients : c # d => Own(c) \cap Own(d) = {}

\* What the checks of a request found still holds.
Found(c) ==
    LET q == request[c] IN
    /\ q.step = "form" \/ (q.step \in TermsSteps /\ ~q.new) => contracts[q.contract] # Missing
    /\ q.step \in TermsSteps \cup EditSteps \cup RemovalSteps \cup {"meter's unit found"} => LiveUnit(q.unit)
    /\ q.step \in EditSteps =>
         /\ \A k \in q.leases : contracts[k] # Missing /\ contracts[k].unit = q.unit
         /\ \A m \in q.meters : meters[m] # Missing /\ meters[m].unit = q.unit
    /\ q.step = "range free" =>
         \A k \in LeasesOf(q.unit) \ {q.contract} : ~Overlap(q.span, contracts[k].span)
    /\ q.step \in RemovalSteps => LeasesOf(q.unit) = {}
    /\ q.step = "no meters" => MetersOf(q.unit) = {}

TurnInv == InTurn /\ (\A c \in Clients : Found(c)) /\ LeasesApart /\ RemovedUnitEmpty

\* The request of a step is of its kind.
LEMMA RequestKinds ==
  ASSUME NEW q \in Requests
  PROVE  /\ q.step = "code free" => q \in NewUnit
         /\ q.step \in EditSteps => q \in EditUnit
         /\ q.step \in RemovalSteps => q \in Removal
         /\ q.step = "meter's unit found" => q \in NewMeter
         /\ q.step = "form" => q \in Form
         /\ q.step \in TermsSteps => q \in Terms
         /\ q.step = "idle" => q = Idle
  <1> USE DEF EditSteps, RemovalSteps, TermsSteps
  <1>1. q \in NewUnit => q.step = "code free"
    BY DEF NewUnit
  <1>2. q \in EditUnit => q.step \in EditSteps
    BY DEF EditUnit
  <1>3. q \in Removal => q.step \in RemovalSteps
    BY DEF Removal
  <1>4. q \in NewMeter => q.step = "meter's unit found"
    BY DEF NewMeter
  <1>5. q \in Form => q.step = "form"
    BY DEF Form
  <1>6. q \in Terms => q.step \in TermsSteps
    BY DEF Terms
  <1>7. q = Idle => q.step = "idle"
    BY DEF Idle
  <1> QED BY <1>1, <1>2, <1>3, <1>4, <1>5, <1>6, <1>7 DEF Requests

LEMMA InitTurns == Init => RowTypes /\ TurnInv
  <1> SUFFICES ASSUME Init PROVE RowTypes /\ TurnInv
    OBVIOUS
  <1>1. RowTypes
    BY DEF Init, RowTypes, Requests
  <1>2. \A c \in Clients : request[c].step = "idle"
    BY DEF Init, Idle
  <1>3. InTurn /\ \A c \in Clients : Found(c)
    BY <1>2 DEF InTurn, Own, Found, TermsSteps, EditSteps, RemovalSteps
  <1>4. LeasesApart /\ RemovedUnitEmpty
    BY DEF Init, LeasesApart, RemovedUnitEmpty, Live, Missing
  <1> QED BY <1>1, <1>3, <1>4 DEF TurnInv

LEMMA UnitStepTypes ==
  ASSUME RowTypes, NEW c \in Clients, Found(c), UnitStep(c)
  PROVE  RowTypes'
  <1> USE DEF RowTypes
  <1>1. ASSUME NEW u \in Units, NEW code \in Codes, CreateUnit(c, u, code) PROVE RowTypes'
    <2>1. [step |-> "code free", unit |-> u, code |-> code] \in Requests
      BY DEF Requests, NewUnit
    <2> QED BY <1>1, <2>1 DEF CreateUnit, Begin
  <1>2. ASSUME NEW u \in Units, NEW code \in Codes, FindUnit(c, u, code) PROVE RowTypes'
    <2> DEFINE q == [step |-> IF code = units[u].code THEN "code checked" ELSE "unit found",
                     unit |-> u, code |-> code, leases |-> LeasesOf(u), meters |-> MetersOf(u)]
    <2>1. LeasesOf(u) \in SUBSET Contracts /\ MetersOf(u) \in SUBSET Meters
      BY DEF LeasesOf, MetersOf
    <2>2. q \in EditUnit
      BY <2>1 DEF EditUnit
    <2>3. request' = [request EXCEPT ![c] = q] /\ UNCHANGED <<units, meters, contracts, history, today>>
      BY <1>2 DEF FindUnit, Begin
    <2> HIDE DEF q
    <2> QED BY <2>2, <2>3 DEF Requests
  <1>3. ASSUME NEW u \in Units, CountContracts(c, u) PROVE RowTypes'
    <2>1. [step |-> "no contracts", unit |-> u] \in Requests
      BY DEF Requests, Removal
    <2> QED BY <1>3, <2>1 DEF CountContracts, Begin
  <1>4. ASSUME NEW u \in Units, NEW m \in Meters, CreateMeter(c, m, u) PROVE RowTypes'
    <2>1. [step |-> "meter's unit found", meter |-> m, unit |-> u] \in Requests
      BY DEF Requests, NewMeter
    <2> QED BY <1>4, <2>1 DEF CreateMeter, Begin
  <1>5. Idle \in Requests
    BY DEF Requests
  <1>6. ASSUME InsertUnit(c) PROVE RowTypes'
    <2>1. request[c] \in NewUnit
      BY <1>6, RequestKinds DEF InsertUnit
    <2>2. [state |-> "live", code |-> request[c].code] \in Unit
      BY <2>1 DEF NewUnit, Unit
    <2> QED BY <1>5, <1>6, <2>2 DEF InsertUnit, Finish
  <1>7. ASSUME CheckCode(c) PROVE RowTypes'
    <2>1. request[c] \in EditUnit
      BY <1>7, RequestKinds DEF CheckCode, EditSteps
    <2>2. [request[c] EXCEPT !.step = "code checked"] \in Requests
      BY <2>1 DEF EditUnit, Requests
    <2> QED BY <1>7, <2>2 DEF CheckCode, Proceed
  <1>8. ASSUME UpdateUnit(c) PROVE RowTypes'
    <2>1. request[c] \in EditUnit
      BY <1>8, RequestKinds DEF UpdateUnit, EditSteps
    <2>2. [state |-> "live", code |-> request[c].code] \in Unit
      BY <2>1 DEF EditUnit, Unit
    <2>3. \A k \in Contracts : [contracts[k] EXCEPT !.unit = request[c].unit] \in Contract \cup {Missing}
      <3> SUFFICES ASSUME NEW k \in Contracts
                   PROVE [contracts[k] EXCEPT !.unit = request[c].unit] \in Contract \cup {Missing}
        OBVIOUS
      <3>1. CASE contracts[k] \in Contract
        BY <2>1, <3>1 DEF EditUnit, Contract
      <3>2. CASE contracts[k] = Missing
        BY <3>2 DEF Missing
      <3> QED BY <3>1, <3>2
    <2>4. \A m \in Meters : [meters[m] EXCEPT !.unit = request[c].unit] \in Meter \cup {Missing}
      <3> SUFFICES ASSUME NEW m \in Meters
                   PROVE [meters[m] EXCEPT !.unit = request[c].unit] \in Meter \cup {Missing}
        OBVIOUS
      <3>1. CASE meters[m] \in Meter
        BY <2>1, <3>1 DEF EditUnit, Meter
      <3>2. CASE meters[m] = Missing
        BY <3>2 DEF Missing
      <3> QED BY <3>1, <3>2
    <2>5. contracts' \in [Contracts -> Contract \cup {Missing}]
      BY <1>8, <2>3 DEF UpdateUnit
    <2>6. meters' \in [Meters -> Meter \cup {Missing}]
      BY <1>8, <2>4 DEF UpdateUnit
    <2> QED BY <1>5, <1>8, <2>2, <2>5, <2>6 DEF UpdateUnit, Finish
  <1>9. ASSUME CountMeters(c) PROVE RowTypes'
    <2>1. request[c] \in Removal
      BY <1>9, RequestKinds DEF CountMeters, RemovalSteps
    <2>2. [request[c] EXCEPT !.step = "no meters"] \in Requests
      BY <2>1 DEF Removal, Requests
    <2> QED BY <1>9, <2>2 DEF CountMeters, Proceed
  <1>10. ASSUME DeleteUnit(c) PROVE RowTypes'
    <2>1. request[c] \in Removal /\ units[request[c].unit].state = "live"
      <3>1. request[c].step \in RemovalSteps
        BY <1>10 DEF DeleteUnit, RemovalSteps
      <3> QED BY <3>1, RequestKinds DEF Found, LiveUnit
    <2>2. units[request[c].unit] \in Unit
      <3>1. request[c].unit \in Units
        BY <2>1 DEF Removal
      <3> QED BY <2>1, <3>1, MissingIsNew
    <2>3. [units[request[c].unit] EXCEPT !.state = "removed"] \in Unit
      BY <2>2 DEF Unit
    <2> QED BY <1>5, <1>10, <2>3 DEF DeleteUnit, Finish
  <1>11. ASSUME InsertMeter(c) PROVE RowTypes'
    <2>1. request[c] \in NewMeter
      BY <1>11, RequestKinds DEF InsertMeter
    <2>2. [state |-> "live", unit |-> request[c].unit] \in Meter
      BY <2>1 DEF NewMeter, Meter
    <2> QED BY <1>5, <1>11, <2>2 DEF InsertMeter, Finish
  <1> QED BY <1>1, <1>2, <1>3, <1>4, <1>6, <1>7, <1>8, <1>9, <1>10, <1>11 DEF UnitStep

LEMMA ContractStepTypes ==
  ASSUME RowTypes, NEW c \in Clients, ContractStep(c)
  PROVE  RowTypes'
  <1> USE DEF RowTypes
  <1>1. ASSUME NEW k \in Contracts, NEW new \in BOOLEAN, NEW u \in Units, NEW span \in Spans,
               NEW rent \in Rents, NEW files \in SUBSET Files, NEW seen \in SUBSET Files,
               FindUnitOfContract(c, k, new, u, span, rent, files, seen)
        PROVE  RowTypes'
    <2> DEFINE q == [step |-> "contract's unit found", contract |-> k, new |-> new, unit |-> u,
                     span |-> span, rent |-> rent, files |-> files, seen |-> seen]
    <2>1. q \in Terms
      BY DEF Terms
    <2>2. request' = [request EXCEPT ![c] = q] /\ UNCHANGED <<units, meters, contracts, history, today>>
      BY <1>1 DEF FindUnitOfContract, Begin
    <2> HIDE DEF q
    <2> QED BY <2>1, <2>2 DEF Requests
  <1>2. ASSUME NEW u \in Units, NEW span \in Spans, NEW rent \in Rents, NEW files \in SUBSET Files,
               NEW k \in Contracts, SubmitNew(c, k, u, span, rent, files)
        PROVE  RowTypes'
    <2>1. {} \in SUBSET Files /\ TRUE \in BOOLEAN
      OBVIOUS
    <2> QED BY <1>1, <1>2, <2>1 DEF SubmitNew
  <1>3. ASSUME NEW u \in Units, NEW span \in Spans, NEW rent \in Rents, NEW files \in SUBSET Files,
               SubmitForm(c, u, span, rent, files)
        PROVE  RowTypes'
    <2>1. request[c] \in Form
      BY <1>3, RequestKinds DEF SubmitForm
    <2>2. request[c].contract \in Contracts /\ request[c].files \in SUBSET Files /\ FALSE \in BOOLEAN
      BY <2>1 DEF Form
    <2> QED BY <1>1, <1>3, <2>2 DEF SubmitForm
  <1>4. ASSUME NEW k \in Contracts, OpenForm(c, k) PROVE RowTypes'
    <2>1. contracts[k] \in Contract
      BY <1>4 DEF OpenForm, Live, Missing
    <2>2. [step |-> "form", contract |-> k, files |-> contracts[k].files] \in Requests
      BY <2>1 DEF Contract, Form, Requests
    <2> QED BY <1>4, <2>2 DEF OpenForm, Begin
  <1>5. ASSUME CheckRange(c) PROVE RowTypes'
    <2>1. request[c] \in Terms
      BY <1>5, RequestKinds DEF CheckRange, TermsSteps
    <2>2. [request[c] EXCEPT !.step = "range free"] \in Requests
      BY <2>1 DEF Terms, Requests
    <2> QED BY <1>5, <2>2 DEF CheckRange, Proceed
  <1>6. ASSUME InsertContract(c) \/ UpdateContract(c) PROVE RowTypes'
    <2>1. request[c] \in Terms
      BY <1>6, RequestKinds DEF InsertContract, UpdateContract, TermsSteps
    <2>2. RowOf(request[c]) \in Contract
      BY <2>1 DEF RowOf, Terms, Contract
    <2>3. Idle \in Requests
      BY DEF Requests
    <2> QED BY <1>6, <2>2, <2>3 DEF InsertContract, UpdateContract, Finish
  <1> QED BY <1>2, <1>3, <1>4, <1>5, <1>6 DEF ContractStep

LEMMA TypesKept ==
  ASSUME RowTypes, \A c \in Clients : Found(c), [Next]_vars
  PROVE  RowTypes'
  <1> USE DEF RowTypes
  <1>1. ASSUME NEW c \in Clients, GiveUp(c) PROVE RowTypes'
    <2>1. Idle \in Requests
      BY DEF Requests
    <2> QED BY <1>1, <2>1 DEF GiveUp, Finish
  <1>2. ASSUME NEW m \in Meters, RemoveMeter(m) PROVE RowTypes'
    <2>1. meters[m] \in Meter
      BY <1>2 DEF RemoveMeter, Missing
    <2>2. [meters[m] EXCEPT !.state = "removed"] \in Meter
      BY <2>1 DEF Meter
    <2> QED BY <1>2, <2>2 DEF RemoveMeter
  <1>3. ASSUME NEW k \in Contracts, NEW files \in SUBSET Files, AddAttachments(k, files) PROVE RowTypes'
    <2>1. contracts[k] \in Contract
      BY <1>3 DEF AddAttachments, Live, Missing
    <2>2. [contracts[k] EXCEPT !.files = @ \cup files] \in Contract
      BY <2>1 DEF Contract
    <2> QED BY <1>3, <2>2 DEF AddAttachments
  <1>4. ASSUME NEW k \in Contracts, RemoveContract(k) PROVE RowTypes'
    <2>1. contracts[k] \in Contract
      BY <1>4 DEF RemoveContract, Live, Missing
    <2>2. [contracts[k] EXCEPT !.state = "removed"] \in Contract
      BY <2>1 DEF Contract
    <2> QED BY <1>4, <2>2 DEF RemoveContract
  <1>5. CASE NextDay
    BY <1>5 DEF NextDay
  <1>6. CASE UNCHANGED vars
    BY <1>6 DEF vars
  <1> QED BY <1>1, <1>2, <1>3, <1>4, <1>5, <1>6, UnitStepTypes, ContractStepTypes DEF Next

\* A step leaves the rows of other units than those of W alone: their leases and meters can
\* only end, and the units themselves stay what they are.
Elsewhere(W) ==
    /\ \A u \in Units \ W : /\ LiveUnit(u) => units'[u].state = "live"
                            /\ units'[u].state = "removed" => units[u].state = "removed"
    /\ \A k \in Contracts :
         /\ contracts[k] # Missing =>
              contracts'[k] # Missing /\ (contracts'[k].state = "live" => Live(k))
         /\ contracts[k] # Missing /\ contracts[k].unit \notin W =>
              contracts'[k].unit = contracts[k].unit /\ contracts'[k].span = contracts[k].span
         /\ contracts'[k].state = "live" /\ contracts'[k].unit \notin W =>
              contracts[k] # Missing /\ contracts[k].unit \notin W
    /\ \A m \in Meters :
         /\ meters[m] # Missing =>
              meters'[m] # Missing /\ (meters'[m].state = "live" => meters[m].state = "live")
         /\ meters[m] # Missing /\ meters[m].unit \notin W => meters'[m].unit = meters[m].unit
         /\ meters'[m].state = "live" /\ meters'[m].unit \notin W =>
              meters[m] # Missing /\ meters[m].unit \notin W

LEMMA LeasesShrink ==
  ASSUME NEW W, Elsewhere(W), NEW u, u \notin W
  PROVE  /\ LeasesOf(u)' \subseteq LeasesOf(u) /\ MetersOf(u)' \subseteq MetersOf(u)
         /\ \A k \in LeasesOf(u)' : contracts'[k].span = contracts[k].span
  <1>1. ASSUME NEW k \in LeasesOf(u)'
        PROVE  k \in LeasesOf(u) /\ contracts'[k].span = contracts[k].span
    <2>1. k \in Contracts /\ contracts'[k].state = "live" /\ contracts'[k].unit = u
      BY DEF LeasesOf, Live
    <2>2. contracts[k] # Missing /\ contracts[k].unit \notin W
      BY <2>1 DEF Elsewhere
    <2> QED BY <2>1, <2>2 DEF Elsewhere, LeasesOf
  <1>2. ASSUME NEW m \in MetersOf(u)' PROVE m \in MetersOf(u)
    <2>1. m \in Meters /\ meters'[m].state = "live" /\ meters'[m].unit = u
      BY DEF MetersOf
    <2>2. meters[m] # Missing /\ meters[m].unit \notin W
      BY <2>1 DEF Elsewhere
    <2> QED BY <2>1, <2>2 DEF Elsewhere, MetersOf
  <1> QED BY <1>1, <1>2

\* What another request found still holds, and it has no more units than before.
LEMMA StillFound ==
  ASSUME RowTypes, NEW W, Elsewhere(W), NEW d \in Clients, Found(d), Own(d) \cap W = {},
         request'[d] = request[d]
  PROVE  Found(d)' /\ Own(d)' \subseteq Own(d)
  <1>1. PICK q : q = request[d] /\ q \in Requests /\ q = request'[d]
    BY DEF RowTypes
  <1>2. /\ q.step \in EditSteps => q \in EditUnit
        /\ q.step \in RemovalSteps => q \in Removal
        /\ q.step = "meter's unit found" => q \in NewMeter
        /\ q.step = "form" => q \in Form
        /\ q.step \in TermsSteps => q \in Terms
    BY <1>1, RequestKinds
  <1>3. q.step \in TermsSteps \cup EditSteps \cup RemovalSteps \cup {"meter's unit found"} =>
          q.unit \in Units \ W
    <2>1. q.step \in TermsSteps \cup EditSteps \cup RemovalSteps \cup {"meter's unit found"} =>
            q.unit \in Own(d)
      BY <1>1 DEF Own, TermsSteps, EditSteps, RemovalSteps
    <2>2. q.step \in TermsSteps \cup EditSteps \cup RemovalSteps \cup {"meter's unit found"} =>
            q.unit \in Units
      BY <1>2 DEF Terms, EditUnit, Removal, NewMeter
    <2> QED BY <2>1, <2>2
  <1>4. q.step = "form" \/ (q.step \in TermsSteps /\ ~q.new) =>
          q.contract \in Contracts /\ contracts[q.contract] # Missing /\ contracts'[q.contract] # Missing
    <2>1. q.step = "form" \/ q.step \in TermsSteps => q.contract \in Contracts
      BY <1>2 DEF Form, Terms
    <2>2. q.step = "form" \/ (q.step \in TermsSteps /\ ~q.new) => contracts[q.contract] # Missing
      BY <1>1 DEF Found
    <2> QED BY <2>1, <2>2 DEF Elsewhere
  <1>5. q.step \in TermsSteps \cup EditSteps \cup RemovalSteps \cup {"meter's unit found"} =>
          units'[q.unit].state = "live"
    BY <1>1, <1>3 DEF Found, Elsewhere
  <1>6. q.step \in EditSteps =>
          /\ \A k \in q.leases : contracts'[k] # Missing /\ contracts'[k].unit = q.unit
          /\ \A m \in q.meters : meters'[m] # Missing /\ meters'[m].unit = q.unit
    <2> SUFFICES ASSUME q.step \in EditSteps
                 PROVE  /\ \A k \in q.leases : contracts'[k] # Missing /\ contracts'[k].unit = q.unit
                        /\ \A m \in q.meters : meters'[m] # Missing /\ meters'[m].unit = q.unit
      OBVIOUS
    <2>1. q.unit \notin W /\ q.leases \subseteq Contracts /\ q.meters \subseteq Meters
      BY <1>2, <1>3 DEF EditUnit
    <2>2. /\ \A k \in q.leases : contracts[k] # Missing /\ contracts[k].unit = q.unit
          /\ \A m \in q.meters : meters[m] # Missing /\ meters[m].unit = q.unit
      BY <1>1 DEF Found
    <2> QED BY <2>1, <2>2 DEF Elsewhere
  <1>7. q.step = "range free" =>
          \A k \in LeasesOf(q.unit)' \ {q.contract} : ~Overlap(q.span, contracts'[k].span)
    <2>1. q.step = "range free" => q.unit \notin W
      BY <1>3 DEF TermsSteps
    <2>2. q.step = "range free" =>
            \A k \in LeasesOf(q.unit) \ {q.contract} : ~Overlap(q.span, contracts[k].span)
      BY <1>1 DEF Found
    <2> QED BY <2>1, <2>2, LeasesShrink
  <1>8. /\ q.step \in RemovalSteps => LeasesOf(q.unit)' = {}
        /\ q.step = "no meters" => MetersOf(q.unit)' = {}
    <2>1. /\ q.step \in RemovalSteps => LeasesOf(q.unit) = {} /\ q.unit \notin W
          /\ q.step = "no meters" => MetersOf(q.unit) = {} /\ q.unit \notin W
      BY <1>1, <1>3 DEF Found, RemovalSteps
    <2> QED BY <2>1, LeasesShrink
  <1>9. Found(d)'
    BY <1>1, <1>4, <1>5, <1>6, <1>7, <1>8 DEF Found, LiveUnit
  <1>10. Own(d)' \subseteq Own(d)
    <2>1. CASE q.step \in TermsSteps /\ ~q.new /\ contracts'[q.contract].state = "live"
      <3>1. Live(q.contract)
        BY <1>4, <2>1 DEF Elsewhere
      <3>2. contracts[q.contract].unit \in Own(d)
        BY <1>1, <2>1, <3>1 DEF Own
      <3>3. contracts'[q.contract].unit = contracts[q.contract].unit
        BY <1>4, <2>1, <3>2 DEF Elsewhere
      <3> QED BY <1>1, <2>1, <3>1, <3>3 DEF Own, Live
    <2>2. CASE ~ (q.step \in TermsSteps /\ ~q.new /\ contracts'[q.contract].state = "live")
      BY <1>1, <2>2 DEF Own, Live
    <2> QED BY <2>1, <2>2
  <1> QED BY <1>9, <1>10

\* One request moves, or none; the rows of W are its own, and agree after the step.
LEMMA TurnKept ==
  ASSUME RowTypes, RowTypes', TurnInv, NEW W, Elsewhere(W),
         NEW moved \in SUBSET Clients, \A c, d \in moved : c = d,
         \A d \in Clients \ moved : request'[d] = request[d] /\ Own(d) \cap W = {},
         \A c \in moved : Found(c)' /\ \A d \in Clients \ moved : Own(c)' \cap Own(d) = {},
         \A u \in Units \cap W :
           /\ units'[u].state = "removed" => LeasesOf(u)' = {} /\ MetersOf(u)' = {}
           /\ \A j, k \in LeasesOf(u)' : j # k => ~Overlap(contracts'[j].span, contracts'[k].span)
  PROVE  TurnInv'
  <1>1. \A d \in Clients \ moved : Found(d)' /\ Own(d)' \subseteq Own(d)
    BY StillFound DEF TurnInv
  <1>2. \A c \in Clients : Found(c)'
    BY <1>1
  <1>3. InTurn'
    <2> SUFFICES ASSUME NEW c \in Clients, NEW d \in Clients, c # d PROVE Own(c)' \cap Own(d)' = {}
      BY DEF InTurn
    <2>1. Own(c) \cap Own(d) = {}
      BY DEF TurnInv, InTurn
    <2> QED BY <1>1, <2>1
  <1>4. ASSUME NEW u \in Units
        PROVE  /\ units'[u].state = "removed" => LeasesOf(u)' = {} /\ MetersOf(u)' = {}
               /\ \A j, k \in LeasesOf(u)' : j # k => ~Overlap(contracts'[j].span, contracts'[k].span)
    <2>1. CASE u \in W
      BY <2>1
    <2>2. CASE u \notin W
      <3>1. /\ LeasesOf(u)' \subseteq LeasesOf(u) /\ MetersOf(u)' \subseteq MetersOf(u)
            /\ \A k \in LeasesOf(u)' : contracts'[k].span = contracts[k].span
        BY <2>2, LeasesShrink
      <3>2. units'[u].state = "removed" => units[u].state = "removed"
        BY <2>2 DEF Elsewhere
      <3>3. \A j, k \in LeasesOf(u) : j # k => ~Overlap(contracts[j].span, contracts[k].span)
        BY DEF TurnInv, LeasesApart, LeasesOf
      <3>4. units[u].state = "removed" => LeasesOf(u) = {} /\ MetersOf(u) = {}
        BY DEF TurnInv, RemovedUnitEmpty
      <3> QED BY <3>1, <3>2, <3>3, <3>4
    <2> QED BY <2>1, <2>2
  <1>5. RemovedUnitEmpty'
    BY <1>4 DEF RemovedUnitEmpty
  <1>6. LeasesApart'
    <2> SUFFICES ASSUME NEW j \in Contracts, NEW k \in Contracts, j # k, Live(j)', Live(k)',
                        contracts'[j].unit = contracts'[k].unit
                 PROVE  ~Overlap(contracts'[j].span, contracts'[k].span)
      BY DEF LeasesApart
    <2>1. PICK u : u = contracts'[j].unit
      OBVIOUS
    <2>2. contracts'[j] \in Contract
      BY DEF RowTypes, Live, Missing
    <2>3. u \in Units
      BY <2>1, <2>2 DEF Contract
    <2>4. j \in LeasesOf(u)' /\ k \in LeasesOf(u)'
      BY <2>1 DEF LeasesOf
    <2> QED BY <1>4, <2>3, <2>4
  <1> QED BY <1>2, <1>3, <1>5, <1>6 DEF TurnInv

LEMMA NothingWritten == UNCHANGED <<units, meters, contracts>> => Elsewhere({})
  BY DEF Elsewhere, LiveUnit, Live, Missing

\* A request begins or goes on, without a write: the units it claims are free or its own.
LEMMA ClaimKeepsTurn ==
  ASSUME Apart, RowTypes, RowTypes', TurnInv, UNCHANGED <<units, meters, contracts>>,
         NEW c \in Clients, \A d \in Clients \ {c} : request'[d] = request[d],
         NEW set, Free(set), Own(c)' \subseteq set \cup Own(c), Found(c)'
  PROVE  TurnInv'
  <1>1. Elsewhere({})
    BY NothingWritten
  <1>2. ASSUME NEW d \in Clients \ {c} PROVE Own(c)' \cap Own(d) = {}
    <2>1. Own(d) \subseteq About(request[d])
      BY DEF Own, About, TermsSteps
    <2>2. About(request[d]) \cap set = {} /\ Own(c) \cap Own(d) = {}
      BY DEF Free, TurnInv, InTurn
    <2> QED BY <2>1, <2>2
  <1>3. {c} \in SUBSET Clients /\ \A x, y \in {c} : x = y
    OBVIOUS
  <1>4. \A d \in Clients \ {c} : request'[d] = request[d] /\ Own(d) \cap {} = {}
    OBVIOUS
  <1>5. \A x \in {c} : Found(x)' /\ \A d \in Clients \ {c} : Own(x)' \cap Own(d) = {}
    BY <1>2
  <1>6. \A u \in Units \cap {} :
          /\ units'[u].state = "removed" => LeasesOf(u)' = {} /\ MetersOf(u)' = {}
          /\ \A j, k \in LeasesOf(u)' : j # k => ~Overlap(contracts'[j].span, contracts'[k].span)
    OBVIOUS
  <1> QED BY <1>1, <1>3, <1>4, <1>5, <1>6, TurnKept

LEMMA FreeOfNothing == Free({})
  BY DEF Free

\* The steps of requests about units that write nothing.
LEMMA UnitLookupsKeepTurn ==
  ASSUME Apart, RowTypes, RowTypes', TurnInv, NEW c \in Clients,
         \/ \E u \in Units : \/ \E code \in Codes : CreateUnit(c, u, code) \/ FindUnit(c, u, code)
                             \/ CountContracts(c, u)
                             \/ \E m \in Meters : CreateMeter(c, m, u)
         \/ CheckCode(c) \/ CountMeters(c)
  PROVE  TurnInv'
  <1>1. request \in [Clients -> Requests] /\ Found(c)
    BY DEF RowTypes, TurnInv
  <1> USE DEF TermsSteps, EditSteps, RemovalSteps
  <1>2. ASSUME NEW u \in Units, NEW code \in Codes, CreateUnit(c, u, code) PROVE TurnInv'
    <2> DEFINE q == [step |-> "code free", unit |-> u, code |-> code]
    <2>1. /\ UNCHANGED <<units, meters, contracts>> /\ Free({u})
          /\ request'[c] = q /\ \A d \in Clients \ {c} : request'[d] = request[d]
      BY <1>1, <1>2 DEF CreateUnit, Begin
    <2>2. q.step = "code free" /\ q.unit = u
      OBVIOUS
    <2> HIDE DEF q
    <2>3. Own(c)' \subseteq {u} \cup Own(c) /\ Found(c)'
      BY <2>1, <2>2 DEF Own, Found
    <2> QED BY <2>1, <2>3, ClaimKeepsTurn
  <1>3. ASSUME NEW u \in Units, NEW code \in Codes, FindUnit(c, u, code) PROVE TurnInv'
    <2> DEFINE q == [step |-> IF code = units[u].code THEN "code checked" ELSE "unit found",
                     unit |-> u, code |-> code, leases |-> LeasesOf(u), meters |-> MetersOf(u)]
    <2>1. /\ UNCHANGED <<units, meters, contracts>> /\ Free({u}) /\ LiveUnit(u)
          /\ request'[c] = q /\ \A d \in Clients \ {c} : request'[d] = request[d]
      BY <1>1, <1>3 DEF FindUnit, Begin
    <2>2. /\ \A k \in LeasesOf(u) : contracts'[k] # Missing /\ contracts'[k].unit = u
          /\ \A m \in MetersOf(u) : meters'[m] # Missing /\ meters'[m].unit = u
      <3>1. \A k \in LeasesOf(u) : contracts[k].state = "live" /\ contracts[k].unit = u
        BY DEF LeasesOf, Live
      <3>2. \A m \in MetersOf(u) : meters[m].state = "live" /\ meters[m].unit = u
        BY DEF MetersOf
      <3> QED BY <2>1, <3>1, <3>2, MissingIsNew
    <2>3. /\ q.step \in EditSteps /\ q.unit = u
          /\ q.leases = LeasesOf(u) /\ q.meters = MetersOf(u)
      OBVIOUS
    <2> HIDE DEF q
    <2>4. Own(c)' \subseteq {u} \cup Own(c)
      BY <2>1, <2>3 DEF Own
    <2>5. Found(c)'
      BY <2>1, <2>2, <2>3 DEF Found, LiveUnit
    <2> QED BY <2>1, <2>4, <2>5, ClaimKeepsTurn
  <1>4. ASSUME NEW u \in Units, CountContracts(c, u) PROVE TurnInv'
    <2> DEFINE q == [step |-> "no contracts", unit |-> u]
    <2>1. /\ UNCHANGED <<units, meters, contracts>> /\ Free({u}) /\ LiveUnit(u) /\ LeasesOf(u) = {}
          /\ request'[c] = q /\ \A d \in Clients \ {c} : request'[d] = request[d]
      BY <1>1, <1>4 DEF CountContracts, Begin
    <2>2. LeasesOf(u)' = {} /\ LiveUnit(u)'
      BY <2>1 DEF LeasesOf, LiveUnit, Live
    <2>3. q.step = "no contracts" /\ q.unit = u
      OBVIOUS
    <2> HIDE DEF q
    <2>4. Own(c)' \subseteq {u} \cup Own(c) /\ Found(c)'
      BY <2>1, <2>2, <2>3 DEF Own, Found
    <2> QED BY <2>1, <2>4, ClaimKeepsTurn
  <1>5. ASSUME NEW u \in Units, NEW m \in Meters, CreateMeter(c, m, u) PROVE TurnInv'
    <2> DEFINE q == [step |-> "meter's unit found", meter |-> m, unit |-> u]
    <2>1. /\ UNCHANGED <<units, meters, contracts>> /\ Free({u}) /\ LiveUnit(u)
          /\ request'[c] = q /\ \A d \in Clients \ {c} : request'[d] = request[d]
      BY <1>1, <1>5 DEF CreateMeter, Begin
    <2>2. q.step = "meter's unit found" /\ q.unit = u
      OBVIOUS
    <2> HIDE DEF q
    <2>3. Own(c)' \subseteq {u} \cup Own(c) /\ Found(c)'
      BY <2>1, <2>2 DEF Own, Found, LiveUnit
    <2> QED BY <2>1, <2>3, ClaimKeepsTurn
  <1>6. ASSUME CheckCode(c) PROVE TurnInv'
    <2>1. request[c] \in EditUnit
      BY <1>1, <1>6, RequestKinds DEF CheckCode
    <2>2. /\ UNCHANGED <<units, meters, contracts>>
          /\ request'[c].step = "code checked" /\ request'[c].unit = request[c].unit
          /\ request'[c].leases = request[c].leases /\ request'[c].meters = request[c].meters
          /\ request[c].step = "unit found"
          /\ \A d \in Clients \ {c} : request'[d] = request[d]
      BY <1>1, <1>6, <2>1 DEF CheckCode, Proceed, EditUnit
    <2>3. Own(c)' \subseteq {} \cup Own(c)
      BY <2>2 DEF Own
    <2>4. Found(c)'
      BY <1>1, <2>2 DEF Found, LiveUnit
    <2> QED BY <2>2, <2>3, <2>4, FreeOfNothing, ClaimKeepsTurn
  <1>7. ASSUME CountMeters(c) PROVE TurnInv'
    <2>1. request[c] \in Removal
      BY <1>1, <1>7, RequestKinds DEF CountMeters
    <2>2. /\ UNCHANGED <<units, meters, contracts>>
          /\ request'[c].step = "no meters" /\ request'[c].unit = request[c].unit
          /\ request[c].step = "no contracts" /\ MetersOf(request[c].unit) = {}
          /\ \A d \in Clients \ {c} : request'[d] = request[d]
      BY <1>1, <1>7, <2>1 DEF CountMeters, Proceed, Removal
    <2>3. Own(c)' \subseteq {} \cup Own(c)
      BY <2>2 DEF Own
    <2>4. PICK u : u = request[c].unit
      OBVIOUS
    <2>5. LeasesOf(u)' = {} /\ MetersOf(u)' = {} /\ LiveUnit(u)'
      BY <1>1, <2>2, <2>4 DEF Found, LiveUnit, LeasesOf, MetersOf, Live
    <2>6. Found(c)'
      BY <2>2, <2>4, <2>5 DEF Found
    <2> QED BY <2>2, <2>3, <2>6, FreeOfNothing, ClaimKeepsTurn
  <1> QED BY <1>2, <1>3, <1>4, <1>5, <1>6, <1>7

\* The steps of requests about contracts that write nothing.
LEMMA ContractLookupsKeepTurn ==
  ASSUME Apart, RowTypes, RowTypes', TurnInv, NEW c \in Clients,
         \/ \E k \in Contracts : OpenForm(c, k)
         \/ \E u \in Units, span \in Spans, rent \in Rents, files \in SUBSET Files :
              \/ \E k \in Contracts : SubmitNew(c, k, u, span, rent, files)
              \/ SubmitForm(c, u, span, rent, files)
         \/ CheckRange(c) \/ GiveUp(c)
  PROVE  TurnInv'
  <1>1. request \in [Clients -> Requests] /\ Found(c)
    BY DEF RowTypes, TurnInv
  <1> USE DEF TermsSteps, EditSteps, RemovalSteps
  <1>2. ASSUME NEW k \in Contracts, OpenForm(c, k) PROVE TurnInv'
    <2> DEFINE q == [step |-> "form", contract |-> k, files |-> contracts[k].files]
    <2>1. /\ UNCHANGED <<units, meters, contracts>> /\ Live(k)
          /\ request'[c] = q /\ \A d \in Clients \ {c} : request'[d] = request[d]
      BY <1>1, <1>2 DEF OpenForm, Begin
    <2>2. Own(c)' \subseteq {} \cup Own(c) /\ Found(c)'
      BY <2>1 DEF Own, Found, Live, Missing
    <2> QED BY <2>1, <2>2, FreeOfNothing, ClaimKeepsTurn
  <1>3. ASSUME NEW k \in Contracts, NEW new \in BOOLEAN, NEW u \in Units, NEW span, NEW rent,
               NEW files, NEW seen, FindUnitOfContract(c, k, new, u, span, rent, files, seen),
               ~new => contracts[k] # Missing
        PROVE  TurnInv'
    <2> DEFINE q == [step |-> "contract's unit found", contract |-> k, new |-> new, unit |-> u,
                     span |-> span, rent |-> rent, files |-> files, seen |-> seen]
               set == {u} \cup IF new THEN {} ELSE {contracts[k].unit}
    <2>1. /\ UNCHANGED <<units, meters, contracts>> /\ Free(set) /\ LiveUnit(u)
          /\ request'[c] = q /\ \A d \in Clients \ {c} : request'[d] = request[d]
      BY <1>1, <1>3 DEF FindUnitOfContract, Begin
    <2>2. q.step = "contract's unit found" /\ q.contract = k /\ q.new = new /\ q.unit = u
      OBVIOUS
    <2> HIDE DEF q
    <2>3. Own(c)' \subseteq set \cup Own(c)
      BY <2>1, <2>2 DEF Own
    <2>4. Found(c)'
      BY <1>3, <2>1, <2>2 DEF Found, LiveUnit
    <2> HIDE DEF set
    <2> QED BY <2>1, <2>3, <2>4, ClaimKeepsTurn
  <1>4. ASSUME NEW u \in Units, NEW span, NEW rent, NEW files, NEW k \in Contracts,
               SubmitNew(c, k, u, span, rent, files)
        PROVE  TurnInv'
    BY <1>3, <1>4 DEF SubmitNew
  <1>5. ASSUME NEW u \in Units, NEW span, NEW rent, NEW files, SubmitForm(c, u, span, rent, files)
        PROVE  TurnInv'
    <2>1. request[c] \in Form /\ request[c].step = "form"
      BY <1>1, <1>5, RequestKinds DEF SubmitForm
    <2>2. request[c].contract \in Contracts /\ contracts[request[c].contract] # Missing
      BY <1>1, <2>1 DEF Form, Found
    <2> QED BY <1>3, <1>5, <2>2 DEF SubmitForm
  <1>6. ASSUME CheckRange(c) PROVE TurnInv'
    <2>1. request[c] \in Terms
      BY <1>1, <1>6, RequestKinds DEF CheckRange
    <2>2. /\ UNCHANGED <<units, meters, contracts>>
          /\ request'[c].step = "range free" /\ request'[c].unit = request[c].unit
          /\ request'[c].contract = request[c].contract /\ request'[c].new = request[c].new
          /\ request'[c].span = request[c].span
          /\ request[c].step = "contract's unit found"
          /\ \A d \in Clients \ {c} : request'[d] = request[d]
      BY <1>1, <1>6, <2>1 DEF CheckRange, Proceed, Terms
    <2>3. Own(c)' \subseteq {} \cup Own(c)
      BY <2>2 DEF Own, Live
    <2>4. PICK u, k : u = request[c].unit /\ k = request[c].contract
      OBVIOUS
    <2>5. \A j \in LeasesOf(u)' \ {k} : ~Overlap(request[c].span, contracts'[j].span)
      BY <1>6, <2>2, <2>4 DEF CheckRange, LeasesOf, Live
    <2>6. Found(c)'
      BY <1>1, <2>2, <2>4, <2>5 DEF Found, LiveUnit
    <2> QED BY <2>2, <2>3, <2>6, FreeOfNothing, ClaimKeepsTurn
  <1>7. ASSUME GiveUp(c) PROVE TurnInv'
    <2>1. /\ UNCHANGED <<units, meters, contracts>> /\ request'[c] = Idle
          /\ \A d \in Clients \ {c} : request'[d] = request[d]
      BY <1>1, <1>7 DEF GiveUp, Finish
    <2>2. Own(c)' \subseteq {} \cup Own(c) /\ Found(c)'
      BY <2>1 DEF Own, Found, Idle
    <2> QED BY <2>1, <2>2, FreeOfNothing, ClaimKeepsTurn
  <1> QED BY <1>2, <1>4, <1>5, <1>6, <1>7

\* A request ends with its write to the rows of W, which are its own and agree after it.
LEMMA WriteKeepsTurn ==
  ASSUME RowTypes, RowTypes', TurnInv, NEW c \in Clients, request' = [request EXCEPT ![c] = Idle],
         NEW W, Elsewhere(W), W \subseteq Own(c),
         \A u \in Units \cap W :
           /\ units'[u].state = "removed" => LeasesOf(u)' = {} /\ MetersOf(u)' = {}
           /\ \A j, k \in LeasesOf(u)' : j # k => ~Overlap(contracts'[j].span, contracts'[k].span)
  PROVE  TurnInv'
  <1>1. request'[c] = Idle /\ \A d \in Clients \ {c} : request'[d] = request[d]
    BY DEF RowTypes
  <1>2. Own(c)' = {} /\ Found(c)'
    <2>1. request'[c].step = "idle"
      BY <1>1 DEF Idle
    <2> QED BY <2>1 DEF Own, Found, TermsSteps, EditSteps, RemovalSteps
  <1>3. {c} \in SUBSET Clients /\ \A x, y \in {c} : x = y
    OBVIOUS
  <1>4. \A d \in Clients \ {c} : request'[d] = request[d] /\ Own(d) \cap W = {}
    BY <1>1 DEF TurnInv, InTurn
  <1>5. \A x \in {c} : Found(x)' /\ \A d \in Clients \ {c} : Own(x)' \cap Own(d) = {}
    BY <1>2
  <1> QED BY <1>3, <1>4, <1>5, TurnKept

\* A unit is inserted or updated: the update binds leases and meters that are bound already.
LEMMA UnitWritesKeepTurn ==
  ASSUME RowTypes, RowTypes', TurnInv, NEW c \in Clients, InsertUnit(c) \/ UpdateUnit(c)
  PROVE  TurnInv'
  <1>1. request' = [request EXCEPT ![c] = Idle]
    BY DEF InsertUnit, UpdateUnit, Finish
  <1>2. PICK u : u = request[c].unit
    OBVIOUS
  <1>3. PICK row : row.state = "live" /\ units' = [units EXCEPT ![u] = row]
    BY <1>2 DEF InsertUnit, UpdateUnit
  <1>4. \A v \in Units : /\ LiveUnit(v) => units'[v].state = "live"
                         /\ units'[v].state = "removed" => units[v].state = "removed"
    BY <1>3 DEF RowTypes, LiveUnit
  <1>5. /\ \A k \in Contracts : contracts'[k] = contracts[k]
        /\ \A m \in Meters : meters'[m] = meters[m]
    <2>1. CASE InsertUnit(c)
      BY <2>1 DEF InsertUnit
    <2>2. CASE UpdateUnit(c)
      <3>1. /\ \A k \in request[c].leases : contracts[k] # Missing /\ contracts[k].unit = u
            /\ \A m \in request[c].meters : meters[m] # Missing /\ meters[m].unit = u
        BY <1>2, <2>2 DEF UpdateUnit, TurnInv, Found, EditSteps
      <3>2. ASSUME NEW k \in Contracts PROVE contracts'[k] = contracts[k]
        <4>1. CASE k \in request[c].leases
          <5>1. contracts[k] \in Contract /\ contracts[k].unit = u
            BY <3>1, <4>1 DEF RowTypes
          <5>2. [contracts[k] EXCEPT !.unit = u] = contracts[k]
            BY <5>1 DEF Contract
          <5> QED BY <1>2, <2>2, <4>1, <5>2 DEF UpdateUnit
        <4>2. CASE k \notin request[c].leases
          BY <2>2, <4>2 DEF UpdateUnit
        <4> QED BY <4>1, <4>2
      <3>3. ASSUME NEW m \in Meters PROVE meters'[m] = meters[m]
        <4>1. CASE m \in request[c].meters
          <5>1. meters[m] \in Meter /\ meters[m].unit = u
            BY <3>1, <4>1 DEF RowTypes
          <5>2. [meters[m] EXCEPT !.unit = u] = meters[m]
            BY <5>1 DEF Meter
          <5> QED BY <1>2, <2>2, <4>1, <5>2 DEF UpdateUnit
        <4>2. CASE m \notin request[c].meters
          BY <2>2, <4>2 DEF UpdateUnit
        <4> QED BY <4>1, <4>2
      <3> QED BY <3>2, <3>3
    <2> QED BY <2>1, <2>2
  <1>6. Elsewhere({})
    BY <1>4, <1>5 DEF Elsewhere, Live, Missing
  <1>7. {} \subseteq Own(c)
    OBVIOUS
  <1>8. \A v \in Units \cap {} :
          /\ units'[v].state = "removed" => LeasesOf(v)' = {} /\ MetersOf(v)' = {}
          /\ \A j, k \in LeasesOf(v)' : j # k => ~Overlap(contracts'[j].span, contracts'[k].span)
    OBVIOUS
  <1> QED BY <1>1, <1>6, <1>7, <1>8, WriteKeepsTurn

\* A unit that was counted empty is removed; a meter is inserted for a live unit.
LEMMA EmptyKeepsTurn ==
  ASSUME RowTypes, RowTypes', TurnInv, NEW c \in Clients, DeleteUnit(c) \/ InsertMeter(c)
  PROVE  TurnInv'
  <1>1. request' = [request EXCEPT ![c] = Idle] /\ UNCHANGED contracts
    BY DEF DeleteUnit, InsertMeter, Finish
  <1>2. PICK u : u = request[c].unit
    OBVIOUS
  <1>3. u \in Own(c) /\ LiveUnit(u)
    BY <1>2 DEF DeleteUnit, InsertMeter, Own, TurnInv, Found, TermsSteps, EditSteps, RemovalSteps
  <1>4. \A v \in Units \ {u} : units'[v] = units[v]
    BY <1>2 DEF DeleteUnit, InsertMeter, RowTypes
  <1>5. \A x : LeasesOf(x)' = LeasesOf(x)
    BY <1>1 DEF LeasesOf, Live
  <1>6. Elsewhere({u}) /\ (units'[u].state = "removed" => LeasesOf(u)' = {} /\ MetersOf(u)' = {})
    <2>1. CASE DeleteUnit(c)
      <3>1. UNCHANGED meters
        BY <2>1 DEF DeleteUnit
      <3>2. LeasesOf(u) = {} /\ MetersOf(u) = {}
        BY <1>2, <2>1 DEF DeleteUnit, TurnInv, Found, RemovalSteps
      <3>3. MetersOf(u)' = MetersOf(u)
        BY <3>1 DEF MetersOf
      <3>4. Elsewhere({u})
        BY <1>1, <1>4, <3>1 DEF Elsewhere, LiveUnit, Live, Missing
      <3> QED BY <1>5, <3>2, <3>3, <3>4
    <2>2. CASE InsertMeter(c)
      <3>1. PICK n, row : /\ n = request[c].meter /\ row = [state |-> "live", unit |-> u]
                          /\ meters[n] = Missing /\ meters' = [meters EXCEPT ![n] = row]
                          /\ UNCHANGED units
        BY <1>2, <2>2 DEF InsertMeter
      <3>2. row.state = "live" /\ row.unit = u
        BY <3>1
      <3>3. \A x \in Meters : IF x = n THEN meters'[x] = row ELSE meters'[x] = meters[x]
        BY <3>1 DEF RowTypes
      <3>4. units'[u].state = "live"
        BY <1>3, <3>1 DEF LiveUnit
      <3> DEFINE W == {u}
      <3>5. \A v \in Units \ W : /\ LiveUnit(v) => units'[v].state = "live"
                                 /\ units'[v].state = "removed" => units[v].state = "removed"
        BY <1>1, <3>1 DEF LiveUnit
      <3>6. \A x \in Meters :
               /\ meters[x] # Missing =>
                    meters'[x] # Missing /\ (meters'[x].state = "live" => meters[x].state = "live")
               /\ meters[x] # Missing /\ meters[x].unit \notin W => meters'[x].unit = meters[x].unit
               /\ meters'[x].state = "live" /\ meters'[x].unit \notin W =>
                    meters[x] # Missing /\ meters[x].unit \notin W
        BY <3>1, <3>2, <3>3, MissingIsNew
      <3>7. \A k \in Contracts :
               /\ contracts[k] # Missing =>
                    contracts'[k] # Missing /\ (contracts'[k].state = "live" => Live(k))
               /\ contracts[k] # Missing /\ contracts[k].unit \notin W =>
                    contracts'[k].unit = contracts[k].unit /\ contracts'[k].span = contracts[k].span
               /\ contracts'[k].state = "live" /\ contracts'[k].unit \notin W =>
                    contracts[k] # Missing /\ contracts[k].unit \notin W
        BY <1>1, MissingIsNew DEF Live
      <3> HIDE DEF W
      <3>8. Elsewhere(W)
        BY <3>5, <3>6, <3>7 DEF Elsewhere
      <3> QED BY <3>4, <3>8 DEF W
    <2> QED BY <2>1, <2>2
  <1>7. \A j, k \in LeasesOf(u)' : j # k => ~Overlap(contracts'[j].span, contracts'[k].span)
    BY <1>1, <1>5 DEF TurnInv, LeasesApart, LeasesOf
  <1>8. {u} \subseteq Own(c)
    BY <1>3
  <1> QED BY <1>1, <1>6, <1>7, <1>8, WriteKeepsTurn

\* A contract is inserted or updated in a range that is still free.
LEMMA ContractWritesKeepTurn ==
  ASSUME RowTypes, RowTypes', TurnInv, NEW c \in Clients, InsertContract(c) \/ UpdateContract(c)
  PROVE  TurnInv'
  <1> DEFINE q == request[c]
  <1>1. request' = [request EXCEPT ![c] = Idle] /\ UNCHANGED <<units, meters>>
    BY DEF InsertContract, UpdateContract, Finish
  <1>2. q.step = "range free" /\ q \in Terms /\ q.contract \in Contracts /\ q.unit \in Units
    <2>1. q.step = "range free" /\ q \in Requests
      BY DEF InsertContract, UpdateContract, RowTypes
    <2>2. q \in Terms
      BY <2>1, RequestKinds DEF TermsSteps
    <2> QED BY <2>1, <2>2 DEF Terms
  <1>3. PICK k, u, row : k = q.contract /\ u = q.unit /\ row = RowOf(q)
    OBVIOUS
  <1>4. row.state = "live" /\ row.unit = u /\ row.span = q.span
    BY <1>3 DEF RowOf
  <1>5. k \in Contracts /\ u \in Units
    BY <1>2, <1>3
  <1>6. contracts'[k] = row /\ \A j \in Contracts \ {k} : contracts'[j] = contracts[j]
    BY <1>3, <1>5 DEF InsertContract, UpdateContract, RowTypes
  <1>7. /\ LiveUnit(u)
        /\ \A j \in LeasesOf(u) \ {k} : ~Overlap(row.span, contracts[j].span)
    BY <1>2, <1>3, <1>4 DEF TurnInv, Found, TermsSteps
  <1>8. \/ contracts[k] = Missing
        \/ Live(k) /\ contracts[k].unit \in Own(c) /\ contracts[k] \in Contract
    <2>1. CASE InsertContract(c)
      BY <1>3, <2>1 DEF InsertContract
    <2>2. CASE UpdateContract(c)
      <3>1. Live(k) /\ ~q.new
        BY <1>3, <2>2 DEF UpdateContract
      <3>2. contracts[k].unit \in Own(c)
        BY <1>2, <1>3, <3>1 DEF Own, TermsSteps
      <3>3. contracts[k] \in Contract
        BY <1>5, <3>1, MissingIsNew DEF RowTypes, Live
      <3> QED BY <3>1, <3>2, <3>3
    <2> QED BY <2>1, <2>2
  <1>9. u \in Own(c)
    BY <1>2, <1>3 DEF Own, TermsSteps
  <1> HIDE DEF q
  <1> DEFINE W == {u} \cup IF contracts[k] = Missing THEN {} ELSE {contracts[k].unit}
  <1>10. W \subseteq Own(c) /\ u \in W /\ (contracts[k] # Missing => contracts[k].unit \in W)
    BY <1>8, <1>9
  <1>11. row # Missing
    BY <1>4, MissingIsNew
  <1> HIDE DEF W
  <1>12. Elsewhere(W)
    <2>1. \A v \in Units \ W : /\ LiveUnit(v) => units'[v].state = "live"
                               /\ units'[v].state = "removed" => units[v].state = "removed"
      BY <1>1 DEF LiveUnit
    <2>2. \A j \in Contracts :
            /\ contracts[j] # Missing =>
                 contracts'[j] # Missing /\ (contracts'[j].state = "live" => Live(j))
            /\ contracts[j] # Missing /\ contracts[j].unit \notin W =>
                 contracts'[j].unit = contracts[j].unit /\ contracts'[j].span = contracts[j].span
            /\ contracts'[j].state = "live" /\ contracts'[j].unit \notin W =>
                 contracts[j] # Missing /\ contracts[j].unit \notin W
      <3> SUFFICES ASSUME NEW j \in Contracts
                   PROVE /\ contracts[j] # Missing =>
                              contracts'[j] # Missing /\ (contracts'[j].state = "live" => Live(j))
                         /\ contracts[j] # Missing /\ contracts[j].unit \notin W =>
                              contracts'[j].unit = contracts[j].unit /\ contracts'[j].span = contracts[j].span
                         /\ contracts'[j].state = "live" /\ contracts'[j].unit \notin W =>
                              contracts[j] # Missing /\ contracts[j].unit \notin W
        OBVIOUS
      <3>1. CASE j = k
        BY <1>4, <1>6, <1>8, <1>10, <1>11, <3>1
      <3>2. CASE j # k
        BY <1>6, <3>2, MissingIsNew DEF Live
      <3> QED BY <3>1, <3>2
    <2>3. \A m \in Meters :
            /\ meters[m] # Missing =>
                 meters'[m] # Missing /\ (meters'[m].state = "live" => meters[m].state = "live")
            /\ meters[m] # Missing /\ meters[m].unit \notin W => meters'[m].unit = meters[m].unit
            /\ meters'[m].state = "live" /\ meters'[m].unit \notin W =>
                 meters[m] # Missing /\ meters[m].unit \notin W
      BY <1>1, MissingIsNew
    <2> QED BY <2>1, <2>2, <2>3 DEF Elsewhere
  <1>13. ASSUME NEW v \in Units \cap W
         PROVE  /\ units'[v].state = "removed" => LeasesOf(v)' = {} /\ MetersOf(v)' = {}
                /\ \A i, j \in LeasesOf(v)' : i # j => ~Overlap(contracts'[i].span, contracts'[j].span)
    <2>1. units'[v].state # "removed"
      <3>1. CASE v = u
        BY <1>1, <1>7, <3>1 DEF LiveUnit
      <3>2. CASE v # u
        <4>1. Live(k) /\ contracts[k].unit = v
          BY <1>8, <3>2 DEF W
        <4>2. k \in LeasesOf(v)
          BY <1>5, <4>1 DEF LeasesOf
        <4> QED BY <1>1, <4>2 DEF TurnInv, RemovedUnitEmpty
      <3> QED BY <3>1, <3>2
    <2>2. \A j \in LeasesOf(v)' \ {k} : j \in LeasesOf(v) /\ contracts'[j] = contracts[j]
      BY <1>6 DEF LeasesOf, Live
    <2>3. \A i, j \in LeasesOf(v) : i # j => ~Overlap(contracts[i].span, contracts[j].span)
      BY DEF TurnInv, LeasesApart, LeasesOf
    <2>4. ASSUME NEW j \in LeasesOf(v)', j # k, k \in LeasesOf(v)'
          PROVE  ~Overlap(contracts'[k].span, contracts'[j].span) /\ ~Overlap(contracts'[j].span, contracts'[k].span)
      <3>1. v = u
        BY <1>4, <1>6, <2>4 DEF LeasesOf
      <3>2. ~Overlap(row.span, contracts[j].span)
        BY <1>7, <2>2, <2>4, <3>1
      <3>3. contracts'[k].span = row.span /\ contracts'[j].span = contracts[j].span
        BY <1>6, <2>2, <2>4
      <3>4. row.span \in Spans /\ contracts[j].span \in Spans
        <4>1. q.span \in Spans
          BY <1>2 DEF Terms
        <4>2. j \in Contracts /\ contracts[j].state = "live"
          BY <2>2, <2>4 DEF LeasesOf, Live
        <4>3. contracts[j] \in Contract
          BY <4>2, MissingIsNew DEF RowTypes
        <4> QED BY <1>4, <4>1, <4>3 DEF Contract
      <3>5. row.span.start \in Nat /\ row.span.end \in Nat
            /\ contracts[j].span.start \in Nat /\ contracts[j].span.end \in Nat
        BY <3>4, OccupancyConstants
      <3> QED BY <3>2, <3>3, <3>5 DEF Overlap
    <2>5. \A i, j \in LeasesOf(v)' : i # j => ~Overlap(contracts'[i].span, contracts'[j].span)
      BY <2>2, <2>3, <2>4
    <2> QED BY <2>1, <2>5
  <1> QED BY <1>1, <1>10, <1>12, <1>13, WriteKeepsTurn

\* What needs no request: a meter or a contract is removed, files are added, a day passes.
LEMMA OtherStepsKeepTurn ==
  ASSUME RowTypes, RowTypes', TurnInv, UNCHANGED request,
         \/ \E m \in Meters : RemoveMeter(m)
         \/ \E k \in Contracts, files \in SUBSET Files : AddAttachments(k, files)
         \/ \E k \in Contracts : RemoveContract(k)
         \/ NextDay \/ UNCHANGED vars
  PROVE  TurnInv'
  <1>1. Elsewhere({})
    <2>1. ASSUME NEW m \in Meters, RemoveMeter(m) PROVE Elsewhere({})
      <3>1. meters[m] \in Meter
        BY <2>1, MissingIsNew DEF RemoveMeter, RowTypes
      <3>2. meters'[m].state = "removed" /\ meters'[m].unit = meters[m].unit
        BY <2>1, <3>1 DEF RemoveMeter, RowTypes, Meter
      <3>3. (\A x \in Meters \ {m} : meters'[x] = meters[x]) /\ UNCHANGED <<units, contracts>>
        BY <2>1 DEF RemoveMeter, RowTypes
      <3> QED BY <3>1, <3>2, <3>3, MissingIsNew DEF Elsewhere, LiveUnit, Live
    <2>2. ASSUME NEW k \in Contracts, RemoveContract(k) \/ \E files \in SUBSET Files : AddAttachments(k, files)
          PROVE Elsewhere({})
      <3>1. contracts[k] \in Contract /\ Live(k)
        BY <2>2, MissingIsNew DEF RemoveContract, AddAttachments, Live, RowTypes
      <3>2. contracts'[k].unit = contracts[k].unit /\ contracts'[k].span = contracts[k].span
            /\ contracts'[k].state \in {"live", "removed"}
        BY <2>2, <3>1 DEF RemoveContract, AddAttachments, RowTypes, Contract
      <3>3. (\A x \in Contracts \ {k} : contracts'[x] = contracts[x]) /\ UNCHANGED <<units, meters>>
        BY <2>2 DEF RemoveContract, AddAttachments, RowTypes
      <3> QED BY <3>1, <3>2, <3>3, MissingIsNew DEF Elsewhere, LiveUnit, Live
    <2>3. NextDay \/ UNCHANGED vars => Elsewhere({})
      BY NothingWritten DEF NextDay, vars
    <2> QED BY <2>1, <2>2, <2>3
  <1>2. {} \in SUBSET Clients /\ \A x, y \in {} : x = y
    OBVIOUS
  <1>3. \A d \in Clients \ {} : request'[d] = request[d] /\ Own(d) \cap {} = {}
    OBVIOUS
  <1>4. \A x \in {} : Found(x)' /\ \A d \in Clients \ {} : Own(x)' \cap Own(d) = {}
    OBVIOUS
  <1>5. \A v \in Units \cap {} :
          /\ units'[v].state = "removed" => LeasesOf(v)' = {} /\ MetersOf(v)' = {}
          /\ \A j, k \in LeasesOf(v)' : j # k => ~Overlap(contracts'[j].span, contracts'[k].span)
    OBVIOUS
  <1> QED BY <1>1, <1>2, <1>3, <1>4, <1>5, TurnKept

LEMMA NextTurns ==
  ASSUME Apart, RowTypes, TurnInv, [Next]_vars
  PROVE  RowTypes' /\ TurnInv'
  <1>1. RowTypes'
    BY TypesKept DEF TurnInv
  <1>2. ASSUME NEW c \in Clients, UnitStep(c) \/ ContractStep(c) \/ GiveUp(c) PROVE TurnInv'
    BY <1>1, <1>2, UnitLookupsKeepTurn, ContractLookupsKeepTurn, UnitWritesKeepTurn,
       EmptyKeepsTurn, ContractWritesKeepTurn DEF UnitStep, ContractStep
  <1>3. ASSUME \/ \E m \in Meters : RemoveMeter(m)
               \/ \E k \in Contracts, files \in (SUBSET Files) \ {{}} : AddAttachments(k, files)
               \/ \E k \in Contracts : RemoveContract(k)
               \/ NextDay \/ UNCHANGED vars
        PROVE  TurnInv'
    <2>1. UNCHANGED request
      BY <1>3 DEF RemoveMeter, AddAttachments, RemoveContract, NextDay, vars
    <2> QED BY <1>1, <1>3, <2>1, OtherStepsKeepTurn
  <1> QED BY <1>1, <1>2, <1>3 DEF Next

\* Of leases that lie apart at most one runs today.
LEMMA OneRuns ==
  ASSUME RowTypes, LeasesApart, NEW u \in Units,
         NEW j \in LeasesOf(u), RunsToday(j), NEW k \in LeasesOf(u), RunsToday(k)
  PROVE  j = k
  <1>1. SUFFICES ASSUME j # k PROVE FALSE
    OBVIOUS
  <1>2. ~Overlap(contracts[j].span, contracts[k].span)
    BY <1>1 DEF LeasesApart, LeasesOf
  <1>3. contracts[j] \in Contract /\ contracts[k] \in Contract
    BY MissingIsNew DEF RowTypes, LeasesOf, Live
  <1>4. contracts[j].span \in Spans /\ contracts[k].span \in Spans
    BY <1>3 DEF Contract
  <1>5. /\ contracts[j].span.start \in Nat /\ contracts[j].span.end \in Nat
        /\ contracts[k].span.start \in Nat /\ contracts[k].span.end \in Nat
    BY <1>4, OccupancyConstants
  <1> QED BY <1>2, <1>5 DEF Overlap, RunsToday, RowTypes

\* The list and the page of units then look at the same lease, and count its days alike.
LEMMA OneStatus ==
  ASSUME RowTypes, LeasesApart
  PROVE  StatusesAgree
  <1> SUFFICES ASSUME NEW u \in Units PROVE ListStatus(u, ListActive(u)) = PageStatus(u)
    BY DEF StatusesAgree
  <1> DEFINE active == {k \in LeasesOf(u) : RunsToday(k)}
             expired == \E k \in LeasesOf(u) : contracts[k].span.end < today
  <1>1. \A k \in LeasesOf(u) :
          /\ contracts[k].span.start \in Nat /\ contracts[k].span.end \in Nat /\ today \in Nat
          /\ RunsToday(k) <=> contracts[k].span.start <= today /\ contracts[k].span.end >= today
          /\ EndsSoon(k) <=> DaysUntil(contracts[k].span.end) <= ExpiringDays
    <2> SUFFICES ASSUME NEW k \in LeasesOf(u)
                 PROVE  /\ contracts[k].span.start \in Nat /\ contracts[k].span.end \in Nat /\ today \in Nat
                        /\ RunsToday(k) <=> contracts[k].span.start <= today /\ contracts[k].span.end >= today
                        /\ EndsSoon(k) <=> DaysUntil(contracts[k].span.end) <= ExpiringDays
      OBVIOUS
    <2>1. contracts[k] \in Contract
      BY MissingIsNew DEF RowTypes, LeasesOf, Live
    <2>2. contracts[k].span \in Spans
      BY <2>1 DEF Contract
    <2>3. contracts[k].span.start \in Nat /\ contracts[k].span.end \in Nat /\ today \in Nat
      BY <2>2, OccupancyConstants DEF RowTypes
    <2> QED BY <2>3, OccupancyConstants DEF RunsToday, EndsSoon, DaysUntil
  <1>2. active = {k \in LeasesOf(u) : contracts[k].span.start <= today /\ contracts[k].span.end >= today}
    BY <1>1
  <1> HIDE DEF expired
  <1>3. CASE active = {}
    <2>1. ListActive(u) = {}
      BY <1>3 DEF ListActive, Newest
    <2>2. PageStatus(u) = IF expired THEN "expired" ELSE "vacant"
      BY <1>2, <1>3 DEF PageStatus, expired
    <2>3. ListStatus(u, {}) = IF expired THEN "expired" ELSE "vacant"
      BY DEF ListStatus, expired
    <2> QED BY <2>1, <2>2, <2>3
  <1>4. CASE active # {}
    <2>1. PICK k \in LeasesOf(u) : RunsToday(k)
      BY <1>4
    <2>2. active = {k}
      BY <2>1, OneRuns
    <2> HIDE DEF active
    <2>3. Newest(active) = {k}
      BY <1>1, <2>1, <2>2 DEF Newest
    <2>4. ListActive(u) = {k}
      BY <2>3 DEF ListActive, active
    <2>5. ListStatus(u, {k}) = IF EndsSoon(k) THEN "expiring" ELSE "occupied"
      BY <1>1, <2>1 DEF ListStatus
    <2>6. PageStatus(u) = IF EndsSoon(k) THEN "expiring" ELSE "occupied"
      <3>1. CASE EndsSoon(k)
        BY <1>2, <1>4, <2>3, <3>1 DEF PageStatus
      <3>2. CASE ~EndsSoon(k)
        BY <1>2, <1>4, <2>3, <3>2 DEF PageStatus
      <3> QED BY <3>1, <3>2
    <2> QED BY <2>4, <2>5, <2>6
  <1> QED BY <1>3, <1>4

-----------------------------------------------------------------------------
(* Types *)

Limited ==
    /\ history = [k \in Contracts |-> history[k]]
    /\ \A k \in Contracts : Len(history[k]) <= MaxHistory
    /\ today \in 1..LastDay

LEMMA OneMoreEntry ==
  ASSUME NEW h \in Seq(Entries), NEW old \in Rents, NEW rent \in Rents
  PROVE  /\ Len(Appended(h, {old}, rent)) \in Nat
         /\ Len(Appended(h, {old}, rent)) <= Len(h) + 1
  <1>1. CASE old = rent
    BY <1>1 DEF Appended
  <1>2. CASE old # rent
    <2>1. {old} \in SUBSET Rents /\ {old} # {rent}
      BY <1>2
    <2>2. Len(Appended(h, {old}, rent)) = Len(h) + 1
      BY <2>1, AppendedEntries
    <2>3. Len(h) \in Nat
      OBVIOUS
    <2> QED BY <2>2, <2>3
  <1> QED BY <1>1, <1>2

LEMMA LimitedKept ==
  ASSUME RequestsHoldRents, AllGood, Limited, [Next]_vars
  PROVE  Limited'
  <1> USE DEF Limited
  <1>0. MaxHistory \in Nat /\ MaxHistory >= 1 /\ LastDay \in Nat
    BY OccupancyConstants
  <1>1. today' \in 1..LastDay
    <2>1. CASE NextDay
      BY <1>0, <2>1 DEF NextDay
    <2>2. ASSUME NEW c \in Clients, UnitStep(c) \/ ContractStep(c) \/ GiveUp(c) PROVE today' = today
      BY <2>2 DEF UnitStep, ContractStep, GiveUp, CreateUnit, FindUnit, CountContracts, CreateMeter,
             InsertUnit, CheckCode, UpdateUnit, CountMeters, DeleteUnit, InsertMeter, SubmitNew,
             SubmitForm, FindUnitOfContract, OpenForm, CheckRange, InsertContract, UpdateContract
    <2>3. CASE \/ \E m \in Meters : RemoveMeter(m)
               \/ \E k \in Contracts, files \in (SUBSET Files) \ {{}} : AddAttachments(k, files)
               \/ \E k \in Contracts : RemoveContract(k)
               \/ UNCHANGED vars
      BY <2>3 DEF RemoveMeter, AddAttachments, RemoveContract, vars
    <2> QED BY <2>1, <2>2, <2>3 DEF Next
  <1>2. CASE UNCHANGED history
    BY <1>1, <1>2
  <1>3. ASSUME NEW c \in Clients, InsertContract(c) PROVE Limited'
    <2>1. PICK q : /\ q = request[c] /\ q.step = "range free" /\ contracts[q.contract] = Missing
                   /\ history' = [history EXCEPT ![q.contract] = Appended(@, {}, q.rent)]
      BY <1>3 DEF InsertContract
    <2>2. q.rent \in Rents
      BY <2>1 DEF RequestsHoldRents, TermsSteps
    <2>3. ASSUME NEW k \in Contracts PROVE Len(history'[k]) <= MaxHistory
      <3>1. CASE k = q.contract
        <4>1. history[k] = <<>>
          BY <2>1, <3>1 DEF AllGood, Good
        <4>2. Len(Appended(<<>>, {}, q.rent)) = 1
          <5>1. Appended(<<>>, {}, q.rent) = Append(<<>>, [before |-> {}, after |-> q.rent])
            BY DEF Appended
          <5> QED BY <5>1
        <4>3. history'[k] = Appended(<<>>, {}, q.rent)
          BY <2>1, <3>1, <4>1 DEF AllGood
        <4> QED BY <1>0, <4>2, <4>3
      <3>2. CASE k # q.contract
        BY <2>1, <3>2 DEF AllGood
      <3> QED BY <3>1, <3>2
    <2>4. history' = [k \in Contracts |-> history'[k]]
      BY <2>1
    <2> QED BY <1>1, <2>3, <2>4
  <1>4. ASSUME NEW c \in Clients, UpdateContract(c) PROVE Limited'
    <2>1. PICK q : /\ q = request[c] /\ q.step = "range free" /\ Live(q.contract)
                   /\ Len(history[q.contract]) < MaxHistory
                   /\ history' = [history EXCEPT ![q.contract] =
                                    Appended(@, {contracts[q.contract].rent}, q.rent)]
      BY <1>4 DEF UpdateContract
    <2>2. ASSUME NEW k \in Contracts PROVE Len(history'[k]) <= MaxHistory
      <3>1. CASE k = q.contract
        <4> DEFINE old == contracts[k].rent
        <4>1. history[k] \in Seq(Entries) /\ Len(history[k]) \in Nat
          BY DEF AllGood, Good
        <4>2. old \in Rents /\ q.rent \in Rents
          BY <2>1, <3>1, MissingIsNew DEF AllGood, Good, Live, RequestsHoldRents, TermsSteps
        <4> HIDE DEF old
        <4>3. history'[k] = Appended(history[k], {old}, q.rent)
          BY <2>1, <3>1 DEF AllGood, old
        <4>4. Len(Appended(history[k], {old}, q.rent)) <= Len(history[k]) + 1
          BY <4>1, <4>2, OneMoreEntry
        <4>5. Len(history[k]) < MaxHistory
          BY <2>1, <3>1
        <4>6. Len(Appended(history[k], {old}, q.rent)) \in Nat
          BY <4>1, <4>2, OneMoreEntry
        <4> QED BY <1>0, <4>1, <4>3, <4>4, <4>5, <4>6
      <3>2. CASE k # q.contract
        BY <2>1, <3>2 DEF AllGood
      <3> QED BY <3>1, <3>2
    <2>3. history' = [k \in Contracts |-> history'[k]]
      BY <2>1
    <2> QED BY <1>1, <2>2, <2>3
  <1>5. ASSUME NEW k \in Contracts, RemoveContract(k) PROVE UNCHANGED history
    BY <1>5 DEF RemoveContract
  <1>6. ASSUME NEW k \in Contracts, NEW files \in SUBSET Files, AddAttachments(k, files)
        PROVE  UNCHANGED history
    BY <1>6 DEF AddAttachments
  <1>7. ASSUME NEW c \in Clients, UpdateUnit(c) PROVE UNCHANGED history
    BY <1>7 DEF UpdateUnit
  <1>8. CASE UNCHANGED vars
    BY <1>2, <1>8 DEF vars
  <1> QED BY <1>2, <1>3, <1>4, <1>5, <1>6, <1>7, <1>8, RowsOnlyChangeBy

\* A history without gaps consists of entries.
LEMMA GoodHistories ==
  ASSUME NEW row, NEW h, Good(row, h), NEW n \in Nat, Len(h) <= n
  PROVE  h \in Histories(n)
  <1>1. h \in [1..Len(h) -> Entries] /\ Len(h) \in Nat
    BY LenProperties DEF Good
  <1>2. CASE h = <<>>
    <2>1. h \in [1..0 -> Entry]
      BY <1>2
    <2> QED BY <2>1 DEF Histories
  <1>3. CASE h # <<>>
    <2>1. Follows(h, row.rent)
      BY <1>3 DEF Good
    <2>2. ASSUME NEW i \in 1..Len(h) PROVE h[i] \in Entry
      <3>1. h[i] \in Entries
        BY <1>1
      <3>2. h[i].before \in {{}} \cup {{r} : r \in Rents}
        <4>1. CASE i = 1
          BY <2>1, <4>1 DEF Follows
        <4>2. CASE i # 1
          <5>1. i \in 2..Len(h) /\ i - 1 \in 1..Len(h)
            BY <1>1, <4>2
          <5>2. h[i].before = {h[i-1].after}
            BY <2>1, <5>1 DEF Follows
          <5>3. h[i-1].after \in Rents
            BY <1>1, <5>1 DEF Entries
          <5> QED BY <5>2, <5>3
        <4> QED BY <4>1, <4>2
      <3> QED BY <3>1, <3>2 DEF Entries, Entry
    <2>3. h \in [1..Len(h) -> Entry]
      BY <1>1, <2>2
    <2>4. Len(h) \in 0..n
      BY <1>1
    <2> QED BY <2>3, <2>4 DEF Histories
  <1> QED BY <1>2, <1>3

(***************************************************************************)
(* In turn, requests, rows and histories always have their types.          *)
(***************************************************************************)
THEOREM TypesInTurn == Spec => [](Apart => TypeOK)
  <1> DEFINE Typed == /\ RequestsHoldRents /\ AllGood /\ Limited
                      /\ Apart => RowTypes /\ TurnInv
  <1>1. Init => Typed
    <2>1. Init => Limited
      BY OccupancyConstants DEF Init, Limited
    <2> QED BY <2>1, InitTurns, InitHistories
  <1>2. Typed /\ [Next]_vars => Typed'
    BY HeldRentsKept, AllGoodKept, LimitedKept, NextTurns
  <1>3. Typed => (Apart => TypeOK)
    <2> SUFFICES ASSUME Typed, Apart PROVE TypeOK
      OBVIOUS
    <2>1. \A k \in Contracts : history[k] \in Histories(MaxHistory)
      BY GoodHistories, OccupancyConstants DEF AllGood, Limited
    <2>2. history \in [Contracts -> Histories(MaxHistory)]
      <3>1. history = [k \in Contracts |-> history[k]]
        BY DEF Limited
      <3> QED BY <2>1, <3>1
    <2> QED BY <2>2 DEF TypeOK, RowTypes, Limited
  <1> HIDE DEF Typed
  <1> QED BY <1>1, <1>2, <1>3, PTL DEF Spec

(***************************************************************************)
(* As long as no two requests are about one unit, whatever clients do in   *)
(* between: leases of a unit share no day, a removed unit has neither      *)
(* contract nor meter, and the list and the page show one status.          *)
(***************************************************************************)
THEOREM UnitsInTurnAgree ==
  Spec => [](Apart => LeasesApart /\ RemovedUnitEmpty /\ StatusesAgree)
  <1> DEFINE Turns == Apart => RowTypes /\ TurnInv
  <1>1. Init => Turns
    BY InitTurns
  <1>2. Turns /\ [Next]_vars => Turns'
    BY NextTurns
  <1>3. Turns => (Apart => LeasesApart /\ RemovedUnitEmpty /\ StatusesAgree)
    BY OneStatus DEF TurnInv
  <1> HIDE DEF Turns
  <1> QED BY <1>1, <1>2, <1>3, PTL DEF Spec

\* What indexes and transactions keep in any case, and what checks keep in turn.
THEOREM RowsAlwaysAgree == Spec => []RowsAgree
  <1>1. /\ CodesUnique /\ HistoryFollowsRent
        /\ Apart => LeasesApart /\ RemovedUnitEmpty /\ StatusesAgree
        => RowsAgree
    BY DEF RowsAgree
  <1> QED BY <1>1, CodesAlwaysUnique, HistoryAlwaysFollowsRent, UnitsInTurnAgree, PTL
=============================================================================
