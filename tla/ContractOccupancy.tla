------------------------- MODULE ContractOccupancy --------------------------
(***************************************************************************)
(* Units, the contracts that lease them, the history of their money and    *)
(* their signed files (backend/src/units, backend/src/contracts). Checks   *)
(* are statements of their own before the transaction of a contract or     *)
(* the removal of a unit; only what a contract's transaction does itself   *)
(* is under that contract's row lock.                                      *)
(*                                                                         *)
(* repository.save() of a unit that was loaded with its contracts writes   *)
(* the row, its deletion mark included, binds the contracts it was loaded  *)
(* with to the unit again, and fails when the database has one that it     *)
(* does not know (contracts.unitId cannot be null).                        *)
(***************************************************************************)
EXTENDS Naturals, Sequences, FiniteSets

CONSTANTS Units, Codes, Meters, Contracts,
          Spans,       \* what a lease may cover, by first and last day
          Rents,
          Files,
          Clients,     \* each has at most one request in flight
          LastDay,     \* BOUND: days
          ExpiringDays,\* EXPIRING_DAYS_THRESHOLD
          MaxHistory,  \* BOUND: entries of a contract's history
          Apart        \* at no time are two requests about one unit under way

ASSUME OccupancyConstants ==
    /\ LastDay \in Nat \ {0} /\ ExpiringDays \in Nat /\ MaxHistory \in Nat \ {0}
    /\ Spans \subseteq {s \in [start : Nat, end : Nat] : s.start <= s.end}
    /\ Apart \in BOOLEAN

VARIABLES units,      \* rows of factory_units
          meters,     \* rows of the meters
          contracts,  \* rows of contracts with their attachments
          history,    \* by contract: contract_financial_history
          request,    \* what each client is doing
          today

vars == <<units, meters, contracts, history, request, today>>

Missing == [state |-> "new"]
Unit == [state : {"live", "removed"}, code : Codes]
Meter == [state : {"live", "removed"}, unit : Units]
Contract == [state : {"live", "removed"}, unit : Units, span : Spans, rent : Rents,
             files : SUBSET Files]

\* What was before the first entry is no rent: the empty set.
Entry == [before : {{}} \cup {{r} : r \in Rents}, after : Rents]

Idle == [step |-> "idle"]
NewUnit == [step : {"code free"}, unit : Units, code : Codes]
EditUnit == [step : {"unit found", "code checked"}, unit : Units, code : Codes,
             leases : SUBSET Contracts, meters : SUBSET Meters]
Removal == [step : {"no contracts", "no meters"}, unit : Units]
NewMeter == [step : {"meter's unit found"}, meter : Meters, unit : Units]
Form == [step : {"form"}, contract : Contracts, files : SUBSET Files]
Terms == [step : {"contract's unit found", "range free"}, contract : Contracts, new : BOOLEAN,
          unit : Units, span : Spans, rent : Rents, files : SUBSET Files,
          seen : SUBSET Files]   \* the files the form was opened with
Requests == {Idle} \cup NewUnit \cup EditUnit \cup Removal \cup NewMeter \cup Form \cup Terms

Histories(n) == UNION {[1..k -> Entry] : k \in 0..n}

TypeOK ==
    /\ units \in [Units -> Unit \cup {Missing}]
    /\ meters \in [Meters -> Meter \cup {Missing}]
    /\ contracts \in [Contracts -> Contract \cup {Missing}]
    /\ history \in [Contracts -> Histories(MaxHistory)]
    /\ request \in [Clients -> Requests]
    /\ today \in 1..LastDay

LiveUnit(u) == units[u].state = "live"
Live(k) == contracts[k].state = "live"
LeasesOf(u) == {k \in Contracts : Live(k) /\ contracts[k].unit = u}
MetersOf(u) == {m \in Meters : meters[m].state = "live" /\ meters[m].unit = u}

Overlap(s, t) == ~ (s.end < t.start \/ s.start > t.end)

\* The units that a request checks, or whose rows it will change.
About(q) ==
    IF q.step \in {"contract's unit found", "range free"}
    THEN {q.unit} \cup IF Live(q.contract) THEN {contracts[q.contract].unit} ELSE {}
    ELSE IF q.step \in {"idle", "form"} THEN {} ELSE {q.unit}

Free(set) == Apart => \A c \in Clients : About(request[c]) \cap set = {}
Begin(c, q) == request' = [request EXCEPT ![c] = q]
Proceed(c, step) == request' = [request EXCEPT ![c].step = step]
Finish(c) == request' = [request EXCEPT ![c] = Idle]

-----------------------------------------------------------------------------
(* Units *)

CodeTaken(code, but) == \E u \in Units \ but : LiveUnit(u) /\ units[u].code = code

CreateUnit(c, u, code) ==
    /\ request[c] = Idle /\ Free({u})
    /\ units[u] = Missing
    /\ ~CodeTaken(code, {})
    /\ Begin(c, [step |-> "code free", unit |-> u, code |-> code])
    /\ UNCHANGED <<units, meters, contracts, history, today>>

\* Mutant: there is no index, and the check of the service has to do.
MutantIndexAllows(u, code) == TRUE

\* The unique index on code, which knows removed units too.
IndexAllows(u, code) == \A v \in Units \ {u} : units[v] # Missing => units[v].code # code

InsertUnit(c) ==
    LET q == request[c] IN
    /\ q.step = "code free" /\ units[q.unit] = Missing
    /\ IndexAllows(q.unit, q.code)
    /\ units' = [units EXCEPT ![q.unit] = [state |-> "live", code |-> q.code]]
    /\ Finish(c)
    /\ UNCHANGED <<meters, contracts, history, today>>

\* Mutant: the unit is loaded without its meters.
MutantFindUnit(c, u, code) ==
    /\ request[c] = Idle /\ Free({u})
    /\ LiveUnit(u)
    /\ Begin(c, [step |-> IF code = units[u].code THEN "code checked" ELSE "unit found",
                 unit |-> u, code |-> code, leases |-> LeasesOf(u)])
    /\ UNCHANGED <<units, meters, contracts, history, today>>

FindUnit(c, u, code) ==
    /\ request[c] = Idle /\ Free({u})
    /\ LiveUnit(u)
    /\ Begin(c, [step |-> IF code = units[u].code THEN "code checked" ELSE "unit found",
                 unit |-> u, code |-> code, leases |-> LeasesOf(u), meters |-> MetersOf(u)])
    /\ UNCHANGED <<units, meters, contracts, history, today>>

CheckCode(c) ==
    /\ request[c].step = "unit found"
    /\ ~CodeTaken(request[c].code, {request[c].unit})
    /\ Proceed(c, "code checked")
    /\ UNCHANGED <<units, meters, contracts, history, today>>

UpdateUnit(c) ==
    LET q == request[c] IN
    /\ q.step = "code checked"
    /\ LeasesOf(q.unit) \subseteq q.leases /\ MetersOf(q.unit) \subseteq q.meters
    /\ IndexAllows(q.unit, q.code)
    /\ units' = [units EXCEPT ![q.unit] = [state |-> "live", code |-> q.code]]
    /\ contracts' = [k \in Contracts |->
                       IF k \in q.leases THEN [contracts[k] EXCEPT !.unit = q.unit] ELSE contracts[k]]
    /\ meters' = [m \in Meters |->
                    IF m \in q.meters THEN [meters[m] EXCEPT !.unit = q.unit] ELSE meters[m]]
    /\ Finish(c)
    /\ UNCHANGED <<history, today>>

\* Mutant: only a lease that runs today keeps a unit.
MutantCountContracts(c, u) ==
    /\ request[c] = Idle /\ Free({u})
    /\ LiveUnit(u)
    /\ \A k \in LeasesOf(u) : ~ (contracts[k].span.start <= today /\ today <= contracts[k].span.end)
    /\ Begin(c, [step |-> "no contracts", unit |-> u])
    /\ UNCHANGED <<units, meters, contracts, history, today>>

CountContracts(c, u) ==
    /\ request[c] = Idle /\ Free({u})
    /\ LiveUnit(u)
    /\ LeasesOf(u) = {}
    /\ Begin(c, [step |-> "no contracts", unit |-> u])
    /\ UNCHANGED <<units, meters, contracts, history, today>>

CountMeters(c) ==
    /\ request[c].step = "no contracts"
    /\ MetersOf(request[c].unit) = {}
    /\ Proceed(c, "no meters")
    /\ UNCHANGED <<units, meters, contracts, history, today>>

DeleteUnit(c) ==
    /\ request[c].step = "no meters"
    /\ units' = [units EXCEPT ![request[c].unit].state = "removed"]
    /\ Finish(c)
    /\ UNCHANGED <<meters, contracts, history, today>>

\* createMeterConfig: ensureUnit, and the row later.
CreateMeter(c, m, u) ==
    /\ request[c] = Idle /\ Free({u})
    /\ meters[m] = Missing /\ LiveUnit(u)
    /\ Begin(c, [step |-> "meter's unit found", meter |-> m, unit |-> u])
    /\ UNCHANGED <<units, meters, contracts, history, today>>

InsertMeter(c) ==
    LET q == request[c] IN
    /\ q.step = "meter's unit found" /\ meters[q.meter] = Missing
    /\ meters' = [meters EXCEPT ![q.meter] = [state |-> "live", unit |-> q.unit]]
    /\ Finish(c)
    /\ UNCHANGED <<units, contracts, history, today>>

RemoveMeter(m) ==
    /\ meters[m].state = "live" /\ Free({meters[m].unit})
    /\ meters' = [meters EXCEPT ![m].state = "removed"]
    /\ UNCHANGED <<units, contracts, history, request, today>>

-----------------------------------------------------------------------------
(* Contracts *)

\* A page opens the contract to edit it, with the files it has now.
OpenForm(c, k) ==
    /\ request[c] = Idle
    /\ Live(k)
    /\ Begin(c, [step |-> "form", contract |-> k, files |-> contracts[k].files])
    /\ UNCHANGED <<units, meters, contracts, history, today>>

FindUnitOfContract(c, k, new, u, span, rent, files, seen) ==
    /\ LiveUnit(u)
    /\ Free({u} \cup IF new THEN {} ELSE {contracts[k].unit})
    /\ Begin(c, [step |-> "contract's unit found", contract |-> k, new |-> new, unit |-> u,
                 span |-> span, rent |-> rent, files |-> files, seen |-> seen])
    /\ UNCHANGED <<units, meters, contracts, history, today>>

SubmitNew(c, k, u, span, rent, files) ==
    /\ request[c] = Idle
    /\ contracts[k] = Missing
    /\ FindUnitOfContract(c, k, TRUE, u, span, rent, files, {})

\* The form sends the files it was opened with, less those it removed, and new ones.
SubmitForm(c, u, span, rent, files) ==
    /\ request[c].step = "form"
    /\ \A f \in files \ request[c].files : \A k \in Contracts : Live(k) => f \notin contracts[k].files
    /\ FindUnitOfContract(c, request[c].contract, FALSE, u, span, rent, files, request[c].files)

\* Mutant: leases may share a day.
MutantCheckRange(c) ==
    LET q == request[c] IN
    /\ q.step = "contract's unit found"
    /\ \A k \in LeasesOf(q.unit) \ {q.contract} :
         q.span.end <= contracts[k].span.start \/ q.span.start >= contracts[k].span.end
    /\ Proceed(c, "range free")
    /\ UNCHANGED <<units, meters, contracts, history, today>>

CheckRange(c) ==
    LET q == request[c] IN
    /\ q.step = "contract's unit found"
    /\ \A k \in LeasesOf(q.unit) \ {q.contract} : ~Overlap(q.span, contracts[k].span)
    /\ Proceed(c, "range free")
    /\ UNCHANGED <<units, meters, contracts, history, today>>

\* Mutant: the new rent is compared with the first one of the contract.
MutantAppended(old, before, after) ==
    IF old # <<>> /\ old[1].after = after THEN old
    ELSE Append(old, [before |-> before, after |-> after])

\* appendContractFinancialHistory, for one of the six amounts.
Appended(old, before, after) ==
    IF before = {after} THEN old ELSE Append(old, [before |-> before, after |-> after])

RowOf(q) == [state |-> "live", unit |-> q.unit, span |-> q.span, rent |-> q.rent, files |-> q.files]

InsertContract(c) ==
    LET q == request[c] IN
    /\ q.step = "range free" /\ q.new /\ contracts[q.contract] = Missing
    /\ contracts' = [contracts EXCEPT ![q.contract] = RowOf(q)]
    /\ history' = [history EXCEPT ![q.contract] = Appended(@, {}, q.rent)]
    /\ Finish(c)
    /\ UNCHANGED <<units, meters, today>>

\* The transaction of update(): the row is locked and read, written and its history with it.
UpdateContract(c) ==
    LET q == request[c] IN
    /\ q.step = "range free" /\ ~q.new /\ Live(q.contract)
    /\ Len(history[q.contract]) < MaxHistory
    /\ contracts' = [contracts EXCEPT ![q.contract] = RowOf(q)]
    /\ history' = [history EXCEPT ![q.contract] = Appended(@, {contracts[q.contract].rent}, q.rent)]
    /\ Finish(c)
    /\ UNCHANGED <<units, meters, today>>

AddAttachments(k, files) ==
    /\ Live(k) /\ Free({contracts[k].unit})
    /\ contracts' = [contracts EXCEPT ![k].files = @ \cup files]
    /\ UNCHANGED <<units, meters, history, request, today>>

RemoveContract(k) ==
    /\ Live(k) /\ Free({contracts[k].unit})
    /\ contracts' = [contracts EXCEPT ![k].state = "removed"]
    /\ UNCHANGED <<units, meters, history, request, today>>

\* A check fails, a form is closed, or the connection is lost.
GiveUp(c) ==
    /\ request[c] # Idle
    /\ Finish(c)
    /\ UNCHANGED <<units, meters, contracts, history, today>>

NextDay ==
    /\ today < LastDay
    /\ today' = today + 1
    /\ UNCHANGED <<units, meters, contracts, history, request>>

Init ==
    /\ units = [u \in Units |-> Missing]
    /\ meters = [m \in Meters |-> Missing]
    /\ contracts = [k \in Contracts |-> Missing]
    /\ history = [k \in Contracts |-> <<>>]
    /\ request = [c \in Clients |-> Idle]
    /\ today = 1

UnitStep(c) ==
    \/ \E u \in Units : \/ \E code \in Codes : CreateUnit(c, u, code) \/ FindUnit(c, u, code)
                        \/ CountContracts(c, u)
                        \/ \E m \in Meters : CreateMeter(c, m, u)
    \/ InsertUnit(c) \/ CheckCode(c) \/ UpdateUnit(c) \/ CountMeters(c) \/ DeleteUnit(c)
    \/ InsertMeter(c)

ContractStep(c) ==
    \/ \E u \in Units, span \in Spans, rent \in Rents, files \in SUBSET Files :
         \/ \E k \in Contracts : SubmitNew(c, k, u, span, rent, files)
         \/ SubmitForm(c, u, span, rent, files)
    \/ \E k \in Contracts : OpenForm(c, k)
    \/ CheckRange(c) \/ InsertContract(c) \/ UpdateContract(c)

Next ==
    \/ \E c \in Clients : UnitStep(c) \/ ContractStep(c) \/ GiveUp(c)
    \/ \E m \in Meters : RemoveMeter(m)
    \/ \E k \in Contracts, files \in (SUBSET Files) \ {{}} : AddAttachments(k, files)
    \/ \E k \in Contracts : RemoveContract(k)
    \/ NextDay

Spec == Init /\ [][Next]_vars

-----------------------------------------------------------------------------
(* The status of a unit, as the list of all units and the page of units    *)
(* compute it: the one in TypeScript, the other in SQL.                    *)

RunsToday(k) == contracts[k].span.start <= today /\ today <= contracts[k].span.end
Newest(set) == {k \in set : \A j \in set : contracts[j].span.start <= contracts[k].span.start}

\* resolveActiveContract; of several that start together, any.
ListActive(u) == Newest({k \in LeasesOf(u) : RunsToday(k)})
DaysUntil(day) == day - today
ListStatus(u, active) ==
    IF active = {} THEN IF \E k \in LeasesOf(u) : contracts[k].span.end < today THEN "expired" ELSE "vacant"
    ELSE IF \A k \in active : DaysUntil(contracts[k].span.end) <= ExpiringDays THEN "expiring" ELSE "occupied"

\* Mutant: the last day of the threshold is left out.
MutantEndsSoon(k) == contracts[k].span.end < today + ExpiringDays

EndsSoon(k) == contracts[k].span.end <= today + ExpiringDays

\* UNITS_PAGE_QUERY: contract_counts, active_contracts and unit_summary.
PageStatus(u) ==
    LET active == {k \in LeasesOf(u) : contracts[k].span.start <= today /\ contracts[k].span.end >= today}
        expired == \E k \in LeasesOf(u) : contracts[k].span.end < today
    IN  CASE active # {} /\ \E k \in Newest(active) : EndsSoon(k) -> "expiring"
          [] active # {} /\ \A k \in Newest(active) : ~EndsSoon(k) -> "occupied"
          [] active = {} /\ expired -> "expired"
          [] OTHER -> "vacant"

-----------------------------------------------------------------------------
(* Properties *)

\* No two leases of a unit share a day (validateRange: lines 266-290).
LeasesApart ==
    \A j, k \in Contracts : j # k /\ Live(j) /\ Live(k) /\ contracts[j].unit = contracts[k].unit =>
        ~Overlap(contracts[j].span, contracts[k].span)

\* A unit that is removed has no contract and no meter (units.service.ts remove: 134-145).
RemovedUnitEmpty ==
    \A u \in Units : units[u].state = "removed" => LeasesOf(u) = {} /\ MetersOf(u) = {}

\* Two units never have one code, whatever requests check it at the same time, and also when
\* the update of a unit brings it back after its removal (ensureCodeAvailable, saveUnitEntity).
CodesUnique ==
    \A u, v \in Units : u # v /\ LiveUnit(u) /\ LiveUnit(v) => units[u].code # units[v].code

\* The history of a contract's rent starts with the first one, has no entry without a
\* change, goes on where it ended, and ends with the rent of the contract.
HistoryFollowsRent ==
    \A k \in Contracts : contracts[k] # Missing =>
        LET h == history[k] IN
        /\ h # <<>> /\ h[1].before = {}
        /\ \A i \in 2..Len(h) : h[i].before = {h[i-1].after} /\ h[i].before # {h[i].after}
        /\ h[Len(h)].after = contracts[k].rent

\* Both pages give a unit the same status, as long as its leases do not start together.
StatusesAgree ==
    \A u \in Units : LiveUnit(u) /\ Cardinality(ListActive(u)) <= 1 =>
        ListStatus(u, ListActive(u)) = PageStatus(u)

\* The rows agree: what a unique index and a transaction keep whatever requests interleave,
\* and what the checks before a transaction keep as long as no two requests are about one
\* unit, because nothing locks what they saw (validateRange, remove of units.service.ts).
RowsAgree ==
    /\ CodesUnique /\ HistoryFollowsRent
    /\ Apart => LeasesApart /\ RemovedUnitEmpty /\ StatusesAgree

\* A file leaves a contract only when the form that takes it out was opened with it
\* (update: line 170; addAttachments: lines 208-216).
\* It does not hold: the list of the form replaces one that grew meanwhile.
AttachmentsKept ==
    [][\A k \in Contracts : Live(k) /\ contracts'[k].state = "live" =>
          \A f \in contracts[k].files \ contracts'[k].files :
            \E c \in Clients : /\ request[c].step = "range free" /\ request[c].contract = k
                               /\ f \in request[c].seen /\ request'[c] = Idle]_vars
=============================================================================
