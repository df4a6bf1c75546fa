---------------------------- MODULE DepositsPage ----------------------------
(***************************************************************************)
(* The page of deposits, DepositsView.vue, in one browser. Every load asks *)
(* for the units with their contracts and for the deposits, by two         *)
(* requests, and shows them when both are answered and no later load was   *)
(* begun. A deposit is entered under a unit and one of its contracts;      *)
(* saving uploads the pictures and then sends what the form holds by then. *)
(* Meanwhile contracts are signed, moved to another unit and removed       *)
(* elsewhere. What deposits add up to is in DepositAccounts.               *)
(***************************************************************************)
EXTENDS Integers, FiniteSets

CONSTANTS
    Units,      \* the units
    Contracts,  \* the contracts there can be
    Deposits,   \* the deposits there can be
    Patient,    \* whether the user leaves the dialog alone while it is saved
    MaxClicks,  \* bound on what the user does
    MaxChanges, \* bound on contracts signed, moved or removed elsewhere
    MaxFaults   \* bound on the requests that fail

BoundsAssumption == {MaxClicks, MaxChanges, MaxFaults} \subseteq Nat /\ Patient \in BOOLEAN

VARIABLES
    contracts,  \* the contracts on the server: {} or the unit of each
    had,        \* the units that each contract ever had
    rows,       \* the deposits on the server: {} or one record
    shown,      \* the lists the page shows: units, once loaded, and records
    page,       \* whether it is mounted, the number of its last load, the spinner
    loads,      \* the loads under way, with the answers each has
    form,       \* the dialog
    save,       \* the save under way, if any
    removals,   \* the deposits whose removal is under way, with its answer
    counts      \* clicks, changes and faults, against the bounds

vars == <<contracts, had, rows, shown, page, loads, form, save, removals, counts>>

Blank == [open |-> FALSE, id |-> {}, unit |-> {}, contract |-> {},
          picture |-> {}, submitting |-> FALSE]

LoadPageData(p) == [p EXCEPT !.sequence = @ + 1, !.loading = TRUE]
LoadCall(p, saving) ==
    [sequence |-> p.sequence, units |-> {}, records |-> {}, saving |-> saving]

(* A deposit has its contract, the unit that contract had then, and the    *)
(* click that changed it last.                                             *)
Deposit(contract, unit, click) == [contract |-> contract, unit |-> unit, click |-> click]

Init ==
    /\ contracts \in [Contracts -> {{}} \cup {{u} : u \in Units}]
    /\ had = contracts
    /\ \E c \in Contracts, d \in Deposits : \E u \in contracts[c] :
          rows = [[e \in Deposits |-> {}] EXCEPT ![d] = {Deposit(c, u, 0)}]
    /\ shown = [units |-> {}, records |-> {}]
    /\ page = [mounted |-> TRUE, sequence |-> 1, loading |-> TRUE]
    /\ loads = {LoadCall(page, FALSE)}
    /\ form = Blank
    /\ save = {} /\ removals = {}
    /\ counts = [clicks |-> 0, changes |-> 0, faults |-> 0]

Server == <<contracts, had, rows>>

Sign(c) ==
    /\ had[c] = {}
    /\ \E u \in Units : contracts' = [contracts EXCEPT ![c] = {u}]
    /\ had' = [had EXCEPT ![c] = contracts'[c]]

Move(c) ==
    /\ contracts[c] # {}
    /\ \E u \in Units \ contracts[c] : contracts' = [contracts EXCEPT ![c] = {u}]
    /\ had' = [had EXCEPT ![c] = @ \cup contracts'[c]]

Remove(c) ==
    /\ contracts[c] # {}
    /\ contracts' = [contracts EXCEPT ![c] = {}]
    /\ UNCHANGED had

ContractChanges ==
    /\ counts.changes < MaxChanges
    /\ counts' = [counts EXCEPT !.changes = @ + 1]
    /\ \E c \in Contracts : Sign(c) \/ Move(c) \/ Remove(c)
    /\ UNCHANGED <<rows, shown, page, loads, form, save, removals>>
-----------------------------------------------------------------------------
(***************************************************************************)
(* The user. Only the pictures and the button to save are disabled while   *)
(* the dialog is saved.                                                    *)
(***************************************************************************)
Click ==
    /\ page.mounted /\ counts.clicks < MaxClicks
    /\ counts' = [counts EXCEPT !.clicks = @ + 1]

Waits == Patient => ~form.submitting

Refresh ==
    /\ ~page.loading /\ ~form.open /\ Click
    /\ page' = LoadPageData(page)
    /\ loads' = loads \cup {LoadCall(page', FALSE)}
    /\ UNCHANGED <<Server, shown, form, save, removals>>

Leave ==
    /\ page.mounted
    /\ page' = [page EXCEPT !.mounted = FALSE, !.sequence = @ + 1]
    /\ UNCHANGED <<Server, shown, loads, form, save, removals, counts>>

SelectedContracts(unit) ==
    {c \in Contracts : unit # {} /\ \E list \in shown.units : list[c] = unit}

(* The active contract of the unit, or its first one, or none.             *)
Defaults(unit) ==
    IF SelectedContracts(unit) = {} THEN {{}} ELSE {{c} : c \in SelectedContracts(unit)}

OpenCreate ==
    /\ ~form.open /\ Waits /\ Click
    /\ \E unit \in (IF shown.units = {} THEN {{}} ELSE {{u} : u \in Units}) :
          \E contract \in Defaults(unit) :
             form' = [Blank EXCEPT !.open = TRUE, !.unit = unit, !.contract = contract,
                                   !.submitting = form.submitting]
    /\ UNCHANGED <<Server, shown, page, loads, save, removals>>

OpenEdit ==
    /\ ~form.open /\ Waits /\ Click
    /\ \E list \in shown.records : \E d \in Deposits : \E row \in list[d] :
          form' = [Blank EXCEPT !.open = TRUE, !.id = {d}, !.unit = {row.unit},
                                !.contract = {row.contract}, !.submitting = form.submitting]
    /\ UNCHANGED <<Server, shown, page, loads, save, removals>>

\* Mutant: the contract stays when another unit is chosen.
MutantHandleUnitChange ==
    /\ form.open /\ Waits /\ shown.units # {} /\ Click
    /\ \E unit \in Units : form' = [form EXCEPT !.unit = {unit}]
    /\ UNCHANGED <<Server, shown, page, loads, save, removals>>

HandleUnitChange ==
    /\ form.open /\ Waits /\ shown.units # {} /\ Click
    /\ \E unit \in Units : \E contract \in Defaults({unit}) :
          form' = [form EXCEPT !.unit = {unit}, !.contract = contract]
    /\ UNCHANGED <<Server, shown, page, loads, save, removals>>

ChooseContract ==
    /\ form.open /\ Waits /\ Click
    /\ \E contract \in SelectedContracts(form.unit) :
          form' = [form EXCEPT !.contract = {contract}]
    /\ UNCHANGED <<Server, shown, page, loads, save, removals>>

ChoosePicture ==
    /\ form.open /\ ~form.submitting /\ form.picture = {} /\ Click
    /\ form' = [form EXCEPT !.picture = {counts'.clicks}]
    /\ UNCHANGED <<Server, shown, page, loads, save, removals>>

Cancel ==
    /\ form.open /\ Waits /\ Click
    /\ form' = [form EXCEPT !.open = FALSE]
    /\ UNCHANGED <<Server, shown, page, loads, save, removals>>

Submission(step) ==
    [step |-> step, id |-> form.id, unit |-> form.unit, contract |-> form.contract,
     click |-> counts'.clicks, answered |-> FALSE]

Save ==
    /\ form.open /\ ~form.submitting /\ Click
    /\ form' = [form EXCEPT !.submitting = TRUE]
    /\ save' = save \cup {Submission(IF form.picture = {} THEN "send" ELSE "upload")}
    /\ UNCHANGED <<Server, shown, page, loads, removals>>

ConfirmRemove ==
    /\ ~form.open /\ Click
    /\ \E list \in shown.records : \E d \in Deposits :
          /\ list[d] # {}
          /\ removals' = removals \cup {[deposit |-> d, done |-> FALSE]}
    /\ UNCHANGED <<Server, shown, page, loads, form, save>>
-----------------------------------------------------------------------------
(***************************************************************************)
(* The backend.                                                            *)
(***************************************************************************)
Browser == <<shown, page, form, counts>>

ServeUnits ==
    \E c \in loads :
        /\ c.units = {}
        /\ loads' = (loads \ {c}) \cup {[c EXCEPT !.units = {contracts}]}
        /\ UNCHANGED <<Browser, Server, save, removals>>

ServeRecords ==
    \E c \in loads :
        /\ c.records = {}
        /\ loads' = (loads \ {c}) \cup {[c EXCEPT !.records = {rows}]}
        /\ UNCHANGED <<Browser, Server, save, removals>>

(* The record and the contract are read when the picture is uploaded.      *)
Uploaded ==
    \E s \in save :
        /\ s.step = "upload"
        /\ save' = (save \ {s}) \cup 
                    {[s EXCEPT !.step = "send", !.id = form.id, !.contract = form.contract]}
        /\ UNCHANGED <<Browser, Server, loads, removals>>

(* A contract that is there, and the deposit if one is edited; a new one    *)
(* needs a place among Deposits, which bound them.                         *)
Accepts(s) ==
    /\ \E c \in s.contract : contracts[c] # {}
    /\ IF s.id = {} THEN \E d \in Deposits : rows[d] = {} ELSE \A d \in s.id : rows[d] # {}

ServeSave ==
    \E s \in save, d \in Deposits : \E c \in s.contract : \E u \in contracts[c] :
        /\ s.step = "send" /\ ~s.answered /\ Accepts(s)
        /\ IF s.id = {} THEN rows[d] = {} ELSE s.id = {d}
        /\ rows' = [rows EXCEPT ![d] = {Deposit(c, u, s.click)}]
        /\ save' = (save \ {s}) \cup {[s EXCEPT !.answered = TRUE]}
        /\ UNCHANGED <<Browser, contracts, had, loads, removals>>

ServeRemoval ==
    \E r \in removals :
        /\ ~r.done /\ rows[r.deposit] # {}
        /\ rows' = [rows EXCEPT ![r.deposit] = {}]
        /\ removals' = (removals \ {r}) \cup {[r EXCEPT !.done = TRUE]}
        /\ UNCHANGED <<Browser, contracts, had, loads, save>>
-----------------------------------------------------------------------------
(***************************************************************************)
(* The answers.                                                            *)
(***************************************************************************)
IsLatestLoadRequest(c) == page.mounted /\ c.sequence = page.sequence

Quiet(c) == IF IsLatestLoadRequest(c) THEN [page EXCEPT !.loading = FALSE] ELSE page
Ended(c) == [form EXCEPT !.submitting = @ /\ ~c.saving]

\* Mutant: the records are shown as they come.
MutantLoadAnswered ==
    \E c \in loads :
        /\ c.units # {} /\ c.records # {}
        /\ loads' = loads \ {c}
        /\ shown' = [units |-> IF IsLatestLoadRequest(c) THEN c.units ELSE shown.units,
                     records |-> c.records]
        /\ page' = Quiet(c)
        /\ form' = Ended(c)
        /\ UNCHANGED <<Server, save, removals, counts>>

LoadAnswered ==
    \E c \in loads :
        /\ c.units # {} /\ c.records # {}
        /\ loads' = loads \ {c}
        /\ shown' = IF IsLatestLoadRequest(c)
                    THEN [units |-> c.units, records |-> c.records] ELSE shown
        /\ page' = Quiet(c)
        /\ form' = Ended(c)
        /\ UNCHANGED <<Server, save, removals, counts>>

Fault == counts.faults < MaxFaults /\ counts' = [counts EXCEPT !.faults = @ + 1]

LoadFails ==
    \E c \in loads :
        /\ Fault
        /\ loads' = loads \ {c}
        /\ page' = Quiet(c)
        /\ form' = Ended(c)
        /\ UNCHANGED <<Server, shown, save, removals>>

Reload(saving) ==
    IF page.mounted
    THEN page' = LoadPageData(page) /\ loads' = loads \cup {LoadCall(page', saving)}
    ELSE UNCHANGED <<page, loads>>

SaveAnswered ==
    \E s \in save :
        /\ s.answered
        /\ save' = save \ {s}
        /\ form' = [form EXCEPT !.open = FALSE, !.submitting = page.mounted]
        /\ Reload(TRUE)
        /\ UNCHANGED <<Server, shown, removals, counts>>

SaveFails ==
    \E s \in save :
        /\ \/ Fault
           \/ s.step = "send" /\ ~s.answered /\ ~Accepts(s) /\ UNCHANGED counts
        /\ save' = save \ {s}
        /\ form' = [form EXCEPT !.submitting = FALSE]
        /\ UNCHANGED <<Server, shown, page, loads, removals>>

RemovalAnswered ==
    \E r \in removals :
        /\ r.done
        /\ removals' = removals \ {r}
        /\ Reload(FALSE)
        /\ UNCHANGED <<Server, shown, form, save, counts>>

RemovalFails ==
    \E r \in removals :
        /\ ~r.done
        /\ Fault \/ (rows[r.deposit] = {} /\ UNCHANGED counts)
        /\ removals' = removals \ {r}
        /\ UNCHANGED <<Server, shown, page, loads, form, save>>
-----------------------------------------------------------------------------
User ==
    \/ Refresh \/ Leave
    \/ OpenCreate \/ OpenEdit \/ HandleUnitChange \/ ChooseContract
    \/ ChoosePicture \/ Cancel \/ Save \/ ConfirmRemove

Served == ServeUnits \/ ServeRecords \/ Uploaded \/ ServeSave \/ ServeRemoval
Handled == LoadAnswered \/ SaveAnswered \/ RemovalAnswered
Failed == LoadFails \/ SaveFails \/ RemovalFails

Next == User \/ ContractChanges \/ Served \/ Handled \/ Failed

(* The backend answers, be it with a refusal, and every answer is handled. *)
Fairness == WF_vars(Served) /\ WF_vars(Handled) /\ WF_vars(SaveFails)

Spec == Init /\ [][Next]_vars /\ Fairness

TypeOK ==
    /\ contracts \in [Contracts -> SUBSET Units] /\ had \in [Contracts -> SUBSET Units]
    /\ \A c \in Contracts : Cardinality(contracts[c]) <= 1 /\ contracts[c] \subseteq had[c]
    /\ \A d \in Deposits : Cardinality(rows[d]) <= 1
    /\ Cardinality(form.id) <= 1 /\ Cardinality(form.contract) <= 1
    /\ Cardinality(save) <= 1

(* Once nothing is under way and no request failed, both lists are as the  *)
(* server had them after the page's last change, whichever of the two      *)
(* requests of whichever load was answered first.                          *)
QuietListsAreCurrent ==
    page.mounted /\ loads = {} /\ save = {} /\ removals = {} /\ counts.faults = 0 =>
        /\ shown.records = {rows}
        /\ counts.changes = 0 => shown.units = {contracts}

(***************************************************************************)
(* Whatever happened to the lists and the contracts since its dialog was   *)
(* opened, the unit that a dialog showed and the unit its deposit is saved *)
(* under are both units that the contract had: they are one unit unless    *)
(* the contract was moved from one to the other, which the dialog does not *)
(* show. The dialog is left alone while it is saved (Patient).             *)
(***************************************************************************)
SavedUnderItsUnit ==
    \A s \in save : s.answered =>
        \A d \in Deposits : \A row \in rows[d] : row.click = s.click =>
            s.unit # {} /\ s.unit \cup {row.unit} \subseteq had[row.contract]

(* The dialog can be used again after every save, whether it was refused,  *)
(* failed, or its page could not be loaded again                           *)
(* ("保存失败时保留表单和已选图片，允许用户重试").                             *)
DialogComesBack == form.submitting ~> ~form.submitting
=============================================================================
