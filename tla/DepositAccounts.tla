-------------------------- MODULE DepositAccounts --------------------------
(***************************************************************************)
(* The deposits, deposits.service.ts. A record is money received from or   *)
(* refunded to a tenant under a contract; it keeps the unit and the        *)
(* tenant's name the contract has when it is saved. The account of a unit  *)
(* and a tenant adds up its records and compares them with what the latest *)
(* contract of that unit and tenant agrees. Contracts are edited and       *)
(* removed elsewhere (ContractOccupancy), also while a record is saved.    *)
(* Amounts are cents; the days of payments are left out.                   *)
(***************************************************************************)
EXTENDS Integers, FiniteSets, FiniteSetsExt

CONSTANTS
    Contracts,   \* the contracts there are, numbers in the order of their ids
    Records,     \* the deposit records there can be
    Units,       \* the units
    Names,       \* the names of tenants as they are stored or asked for
    Trim(_),     \* the name without blanks around it
    Blank,       \* the name that only has blanks, trimmed
    Amounts,     \* the amounts that can be entered or agreed
    Days,        \* the days a contract can start
    Initially,   \* what the contracts can say at first
    MaxSaves,    \* bound on the saves under way at once
    MaxEdits     \* bound on the changes and removals of contracts

NumbersAssumption == Contracts \cup Amounts \cup Days \cup {MaxSaves, MaxEdits} \subseteq Nat

Types == {"received", "refunded"}

VARIABLES
    contracts,   \* what each contract says, and whether it is deleted
    records,     \* the records that were saved
    saves,       \* the saves under way
    edits        \* how often a contract was changed

vars == <<contracts, records, saves, edits>>

Said(unit, tenant) == [unit |-> unit, tenant |-> tenant]

Contract(unit, tenant, agreed, start) ==
    [unit |-> unit, tenant |-> tenant, agreed |-> agreed, start |-> start, deleted |-> FALSE]

AnyContract ==
    {Contract(u, n, a, d) : u \in Units, n \in Names, a \in Amounts, d \in Days}

Dto == [contract : Contracts, type : Types, amount : Amounts]

Init ==
    /\ contracts \in Initially
    /\ records = {} /\ saves = {} /\ edits = 0
-----------------------------------------------------------------------------
(***************************************************************************)
(* Saving: the contract is read, then the vouchers, then the record when   *)
(* it is updated; and the record is written with what was read.            *)
(***************************************************************************)
Free(r) == (\A s \in saves : s.id # r) /\ (\A saved \in records : saved.id # r)

(* A save of record r starts: for a contract that is deleted it is refused.*)
Start(r, isNew) ==
    \E dto \in Dto :
        /\ ~contracts[dto.contract].deleted /\ Cardinality(saves) < MaxSaves
        /\ saves' = saves \cup
              {[id |-> r, isNew |-> isNew, dto |-> dto, loaded |-> isNew,
                said |-> Said(contracts[dto.contract].unit, contracts[dto.contract].tenant),
                could |-> {Said(contracts[dto.contract].unit, contracts[dto.contract].tenant)}]}
        /\ UNCHANGED <<contracts, records, edits>>

Create == \E r \in Records : Free(r) /\ Start(r, TRUE)

Update == \E old \in records : Start(old.id, FALSE)

(* A record that is deleted is not found, and the update is refused.       *)
LoadRecord ==
    \E s \in saves, old \in records :
        /\ ~s.loaded /\ old.id = s.id
        /\ saves' = (saves \ {s}) \cup (IF old.deleted THEN {} ELSE {[s EXCEPT !.loaded = TRUE]})
        /\ UNCHANGED <<contracts, records, edits>>

Written(s, deleted) ==
    [id |-> s.id, contract |-> s.dto.contract, unit |-> s.said.unit, tenant |-> s.said.tenant,
     type |-> s.dto.type, amount |-> s.dto.amount, deleted |-> deleted,
     could |-> s.could]

\* Mutant: an update leaves the tenant of the record as it was.
MutantSave ==
    \E s \in saves :
        /\ s.loaded
        /\ \E back \in BOOLEAN :
              records' = {old \in records : old.id # s.id} \cup
                  {IF s.isNew THEN Written(s, FALSE)
                   ELSE LET old == CHOOSE o \in records : o.id = s.id
                        IN  [Written(s, old.deleted /\ ~back) EXCEPT !.tenant = old.tenant]}
        /\ saves' = saves \ {s}
        /\ UNCHANGED <<contracts, edits>>

\* Mutant: the row is written by its id, without having been read.
MutantUnreadSave ==
    \E s \in saves :
        /\ s.isNew \/ \E old \in records : old.id = s.id
        /\ records' = {old \in records : old.id # s.id} \cup {Written(s, FALSE)}
        /\ saves' = saves \ {s}
        /\ UNCHANGED <<contracts, edits>>

(* A record that was removed after it was loaded stays so or comes back,   *)
(* as the removal comes before or after the database is compared with it.  *)
Save ==
    \E s \in saves :
        /\ s.loaded
        /\ \E back \in BOOLEAN :
              records' = {old \in records : old.id # s.id} \cup
                  {IF s.isNew THEN Written(s, FALSE)
                   ELSE LET old == CHOOSE o \in records : o.id = s.id
                        IN  Written(s, old.deleted /\ ~back)}
        /\ saves' = saves \ {s}
        /\ UNCHANGED <<contracts, edits>>

Remove ==
    \E old \in records :
        /\ ~old.deleted
        /\ records' = (records \ {old}) \cup {[old EXCEPT !.deleted = TRUE]}
        /\ UNCHANGED <<contracts, saves, edits>>
-----------------------------------------------------------------------------
(***************************************************************************)
(* The contracts, elsewhere. A save under way notes what its contract has  *)
(* said since it began.                                                    *)
(***************************************************************************)
EditContract ==
    \E c \in Contracts, new \in AnyContract :
        /\ edits < MaxEdits /\ edits' = edits + 1
        /\ ~contracts[c].deleted /\ contracts[c] # new
        /\ contracts' = [contracts EXCEPT ![c] = new]
        /\ saves' = {IF s.dto.contract = c
                     THEN [s EXCEPT !.could = @ \cup {Said(new.unit, new.tenant)}] ELSE s
                       : s \in saves}
        /\ UNCHANGED records

RemoveContract ==
    \E c \in Contracts :
        /\ edits < MaxEdits /\ edits' = edits + 1
        /\ ~contracts[c].deleted
        /\ contracts' = [contracts EXCEPT ![c].deleted = TRUE]
        /\ UNCHANGED <<records, saves>>

Next ==
    \/ Create \/ Update \/ LoadRecord \/ Save \/ Remove
    \/ EditContract \/ RemoveContract

Spec == Init /\ [][Next]_vars
-----------------------------------------------------------------------------
(***************************************************************************)
(* The accounts, of the records rs.                                        *)
(***************************************************************************)
Signed(r) == IF r.type = "received" THEN r.amount ELSE -r.amount

Total(rs) == MapThenSumSet(Signed, rs)

NoFilter == [unit |-> {}, tenant |-> {}]

(* The unit has to be the same, the tenant's name the same when trimmed.   *)
\* Mutant: the name that is asked for is not trimmed.
MutantMatches(r, query) ==
    /\ ~r.deleted /\ Trim(r.tenant) # Blank
    /\ query.unit \subseteq {r.unit}
    /\ query.tenant \subseteq {Trim(r.tenant)}

Matches(r, query) ==
    /\ ~r.deleted /\ Trim(r.tenant) # Blank
    /\ query.unit \subseteq {r.unit}
    /\ {Trim(n) : n \in query.tenant} \subseteq {Trim(r.tenant)}

\* Mutant: a unit has one account, whoever rents it.
MutantKey(r) == [unit |-> r.unit, tenant |-> Blank]

Key(r) == [unit |-> r.unit, tenant |-> Trim(r.tenant)]

(* The contracts of an account, and the one that starts last; of two that  *)
(* start on one day, that with the greater id.                             *)
ContractsOf(key) ==
    {c \in Contracts : ~contracts[c].deleted /\ contracts[c].unit = key.unit
                        /\ Trim(contracts[c].tenant) = key.tenant}

\* Mutant: of any tenant of the unit.
MutantLatest(key) ==
    LET candidates == {c \in Contracts : ~contracts[c].deleted /\ contracts[c].unit = key.unit}
    IN  {c \in candidates : \A other \in candidates \ {c} :
             \/ contracts[c].start > contracts[other].start
             \/ contracts[c].start = contracts[other].start /\ c > other}

Latest(key) ==
    LET candidates == ContractsOf(key)
    IN  {c \in candidates : \A other \in candidates \ {c} :
             \/ contracts[c].start > contracts[other].start
             \/ contracts[c].start = contracts[other].start /\ c > other}

Summary(key, rs) ==
    LET held == Total(rs)
        agreed == MapThenSumSet(LAMBDA c : contracts[c].agreed, Latest(key))
    IN  [key |-> key, agreed |-> agreed, held |-> held,
         supplement |-> IF agreed > held THEN agreed - held ELSE 0,
         refund |-> IF held > agreed THEN held - agreed ELSE 0,
         latest |-> Latest(key)]

(* listAccounts: one account for each unit and tenant there are records of.*)
AccountsOf(rs, query) ==
    LET found == {r \in rs : Matches(r, query)}
    IN  {Summary(key, {r \in found : Key(r) = key}) : key \in {Key(r) : r \in found}}

ListAccounts(query) ==
    IF \E n \in query.tenant : Trim(n) = Blank THEN {} ELSE AccountsOf(records, query)

(* getAccount: a contract it is asked from has to be one of the account.   *)
GetAccount(unit, tenant, source) ==
    IF /\ Trim(tenant) # Blank
       /\ source \subseteq ContractsOf([unit |-> unit, tenant |-> Trim(tenant)])
    THEN ListAccounts([unit |-> {unit}, tenant |-> {tenant}])
    ELSE {}
-----------------------------------------------------------------------------
TypeOK ==
    /\ contracts \in [Contracts ->
           [unit : Units, tenant : Names, agreed : Amounts, start : Days, deleted : BOOLEAN]]
    /\ \A r \in records :
          r.unit \in Units /\ r.tenant \in Names /\ r.amount \in Amounts
    /\ \A one, other \in records : one.id = other.id => one = other
    /\ \A one, other \in saves : one.id = other.id /\ one.isNew => one = other

(* A record keeps a unit and a tenant that its contract had at one moment  *)
(* while the record was saved: both of them at the same moment.            *)
SnapshotWasTrue == \A r \in records : Said(r.unit, r.tenant) \in r.could

(* The accounts are those of distinct units and tenants, and together they *)
(* hold the money of all records that are not deleted and name a tenant    *)
(* ("groups active deposit flows by unit and trimmed exact tenant name").  *)
NoMoneyLost ==
    LET accounts == ListAccounts(NoFilter)
    IN  /\ \A one, other \in accounts : one.key = other.key => one = other
        /\ MapThenSumSet(LAMBDA a : a.held, accounts)
             = Total({r \in records : ~r.deleted /\ Trim(r.tenant) # Blank})
        /\ \A r \in records :
              ~r.deleted /\ Trim(r.tenant) # Blank =>
                  \E a \in accounts : a.key = [unit |-> r.unit, tenant |-> Trim(r.tenant)]

(* The account of one unit and tenant is the same by itself as in the list *)
(* of all, whichever of its contracts it is asked from.                    *)
AccountIsOfList ==
    \A u \in Units, n \in Names :
        LET key == [unit |-> u, tenant |-> Trim(n)]
            listed == {a \in ListAccounts(NoFilter) : a.key = key}
        IN  /\ GetAccount(u, n, {}) = listed
            /\ \A c \in Contracts :
                  GetAccount(u, n, {c}) = (IF c \in ContractsOf(key) THEN listed ELSE {})

(* What an account proposes settles it: when the supplement is received or *)
(* the refund is paid under its latest contract, and that record is saved, *)
(* the account asks for nothing more, and no other account changes.        *)
Booked(a, c, type, amount) ==
    [id |-> "settling", contract |-> c, unit |-> contracts[c].unit, tenant |-> contracts[c].tenant,
     type |-> type, amount |-> amount, deleted |-> FALSE, could |-> {}]

ProposalSettles ==
    \A a \in ListAccounts(NoFilter) : \A c \in a.latest :
        LET booking == IF a.supplement > 0 THEN Booked(a, c, "received", a.supplement)
                       ELSE Booked(a, c, "refunded", a.refund)
            before == ListAccounts(NoFilter)
            after == AccountsOf(records \cup {booking}, NoFilter)
        IN  /\ \E b \in after : b.key = a.key /\ b.supplement = 0 /\ b.refund = 0 /\ b.held = a.agreed
            /\ {b \in after : b.key # a.key} = {b \in before : b.key # a.key}

(* A record that was removed comes back only by a save that had read it.   *)
RevivedByAReader ==
    \A old \in records, new \in records' :
       old.id = new.id /\ old.deleted /\ ~new.deleted
           => \E s \in saves : s.id = old.id /\ s.loaded
RemovedStays == [][RevivedByAReader]_vars
=============================================================================
