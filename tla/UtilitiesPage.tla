---------------------------- MODULE UtilitiesPage ----------------------------
(***************************************************************************)
(* The page of water and power charges, UtilitiesView.vue, of one unit in  *)
(* one browser. Its dialogs ask the backend for a prefilled form and save  *)
(* records, payments and their vouchers; nothing on this page numbers its  *)
(* requests, so an answer acts on whatever is open when it arrives. What   *)
(* the backend does inside a request is in UtilityBilling.                 *)
(***************************************************************************)
EXTENDS Integers, Sequences, FiniteSets

CONSTANTS
    Contracts,   \* the contracts of the unit, each with prices of its own
    Records,     \* the charge records
    MaxClicks,   \* bound on what the user does
    MaxFaults    \* bound on the requests that fail

BoundsAssumption == {MaxClicks, MaxFaults} \subseteq Nat

VARIABLES
    rows,      \* the records on the server
    list,      \* the records as the page shows them
    form,      \* the dialog of a record
    payment,   \* the dialog of a payment
    calls,     \* the requests under way
    picked,    \* the record whose dialog each voucher was chosen in
    counts     \* clicks and faults, against the bounds

vars == <<rows, list, form, payment, calls, picked, counts>>

Types == {"electric", "water"}
Absent == [live |-> FALSE]

(* The items of a form are those of a contract and a type, or none yet.    *)
Items(contract, type) == [contract |-> contract, type |-> type]

(* One of the records may be a new one, the others are there.              *)
Init ==
    /\ \E new \in SUBSET Records, contract \in Contracts :
          /\ Cardinality(new) <= 1
          /\ rows = [r \in Records |->
                    IF r \in new THEN Absent
                    ELSE [live |-> TRUE, contract |-> contract, type |-> "electric",
                          items |-> {Items(contract, "electric")}, paid |-> FALSE, vouchers |-> {}]]
    /\ list = rows
    /\ form = [open |-> FALSE, mode |-> "create", id |-> {}, contract |-> {}, type |-> "electric",
               items |-> {}]
    /\ payment = [open |-> FALSE, record |-> {}, existing |-> {}, uploads |-> {},
                  submitting |-> FALSE]
    /\ calls = {}
    /\ picked = <<>>
    /\ counts = [clicks |-> 0, faults |-> 0]

Shown == {r \in Records : list[r].live}
-----------------------------------------------------------------------------
(***************************************************************************)
(* The user.                                                               *)
(***************************************************************************)
Click == counts.clicks < MaxClicks /\ counts' = [counts EXCEPT !.clicks = @ + 1]

Call(kind, data) == {[kind |-> kind, n |-> counts'.clicks, data |-> data, answer |-> {}]}

LoadPageData == Call("load", {})

(* A dialog covers the page.                                               *)
Uncovered == ~form.open /\ ~payment.open

Refresh ==
    /\ Uncovered /\ Click
    /\ calls' = calls \cup LoadPageData
    /\ UNCHANGED <<rows, list, form, payment, picked>>

(* Every choice of the form asks for its items again.                      *)
LoadPrefill(new, contract) ==
    /\ form' = new
    /\ calls' = calls \cup Call("prefill", Items(contract, new.type))
    /\ UNCHANGED <<rows, list, payment, picked>>

OpenCreateRecord ==
    \E contract \in Contracts :
        /\ Uncovered /\ Click
        /\ LoadPrefill([open |-> TRUE, mode |-> "create", id |-> {}, contract |-> {contract},
                        type |-> "electric", items |-> {}], contract)

Editable == form.open /\ form.mode # "view"

HandleContractChange ==
    \E contract \in Contracts :
        /\ Editable /\ Click
        /\ LoadPrefill([form EXCEPT !.contract = {contract}], contract)

HandleTypeChange ==
    \E type \in Types \ {form.type}, contract \in form.contract :
        /\ Editable /\ Click
        /\ LoadPrefill([form EXCEPT !.type = type], contract)

OpenRecord(mode) ==
    \E r \in Shown :
        /\ Uncovered /\ Click
        /\ form' = [open |-> TRUE, mode |-> mode, id |-> {r}, contract |-> {list[r].contract},
                    type |-> list[r].type, items |-> list[r].items]
        /\ UNCHANGED <<rows, list, payment, calls, picked>>

OpenEditRecord == OpenRecord("edit")
OpenViewRecord == OpenRecord("view")

SwitchToEdit ==
    /\ form.open /\ form.mode = "view" /\ Click
    /\ form' = [form EXCEPT !.mode = "edit"]
    /\ UNCHANGED <<rows, list, payment, calls, picked>>

CloseRecord ==
    /\ form.open /\ Click
    /\ form' = [form EXCEPT !.open = FALSE]
    /\ UNCHANGED <<rows, list, payment, calls, picked>>

Removals == {"remove", "removeCurrent"}

UnderWay(kinds) == \E c \in calls : c.kind \in kinds

SaveRecord ==
    /\ Editable /\ ~UnderWay({"save"}) /\ Click
    /\ calls' = calls \cup Call("save", [id |-> form.id, contract |-> form.contract,
                                         type |-> form.type, items |-> form.items])
    /\ UNCHANGED <<rows, list, form, payment, picked>>

ConfirmRemoveRecord ==
    \E r \in Shown :
        /\ Uncovered /\ Click
        /\ calls' = calls \cup Call("remove", r)
        /\ UNCHANGED <<rows, list, form, payment, picked>>

RemoveCurrentRecord ==
    \E r \in form.id :
        /\ form.open /\ form.mode = "view" /\ Click
        /\ calls' = calls \cup Call("removeCurrent", r)
        /\ UNCHANGED <<rows, list, form, payment, picked>>

OpenPaymentDialog ==
    \E r \in Shown :
        /\ Uncovered /\ Click
        /\ payment' = [payment EXCEPT !.open = TRUE, !.record = {r}, !.uploads = {},
                                      !.existing = list[r].vouchers]
        /\ UNCHANGED <<rows, list, form, calls, picked>>

ChooseVoucher ==
    \E r \in payment.record :
        /\ payment.open /\ ~payment.submitting /\ Click
        /\ picked' = Append(picked, r)
        /\ payment' = [payment EXCEPT !.uploads = @ \cup {Len(picked')}]
        /\ UNCHANGED <<rows, list, form, calls>>

RemoveExistingVoucher ==
    \E v \in payment.existing :
        /\ payment.open /\ ~payment.submitting /\ Click
        /\ payment' = [payment EXCEPT !.existing = @ \ {v}]
        /\ UNCHANGED <<rows, list, form, calls, picked>>

(* The cross of the dialog closes it also while it is submitting.          *)
ClosePayment ==
    /\ payment.open /\ Click
    /\ payment' = [payment EXCEPT !.open = FALSE]
    /\ UNCHANGED <<rows, list, form, calls, picked>>

\* Mutant: the record is taken from the dialog that is open when the upload is done.
MutantPay(c) == {[c EXCEPT !.kind = "pay", !.data.record = payment.record, !.answer = {}]}

Pay(c) == {[c EXCEPT !.kind = "pay", !.answer = {}]}

\* Mutant: a second click while the files are uploaded is not stopped.
MutantSavePayment ==
    /\ payment.open /\ Click
    /\ payment' = [payment EXCEPT !.submitting = TRUE]
    /\ calls' = calls \cup Call(IF payment.uploads = {} THEN "pay" ELSE "upload",
                                [record |-> payment.record,
                                 vouchers |-> payment.existing \cup payment.uploads])
    /\ UNCHANGED <<rows, list, form, picked>>

(* The vouchers are uploaded before the payment is sent; the record is the *)
(* one of the dialog at the click.                                         *)
SavePayment ==
    /\ payment.open /\ ~payment.submitting /\ Click
    /\ payment' = [payment EXCEPT !.submitting = TRUE]
    /\ calls' = calls \cup Call(IF payment.uploads = {} THEN "pay" ELSE "upload",
                                [record |-> payment.record,
                                 vouchers |-> payment.existing \cup payment.uploads])
    /\ UNCHANGED <<rows, list, form, picked>>
-----------------------------------------------------------------------------
(***************************************************************************)
(* The backend.                                                            *)
(***************************************************************************)
Asked(kinds) == {c \in calls : c.kind \in kinds /\ c.answer = {}}

Answer(c, answer) ==
    /\ calls' = (calls \ {c}) \cup {[c EXCEPT !.answer = {answer}]}
    /\ UNCHANGED <<list, form, payment, picked>>

ServeRead ==
    \E c \in Asked({"load", "prefill", "upload"}) :
        /\ Answer(c, IF c.kind = "load" THEN rows ELSE c.data)
        /\ UNCHANGED <<rows, counts>>

(* A record must be there, and its meters must be of its type.             *)
\* Mutant: the type of the meters is not compared.
MutantTakes(s) == s.items # {} /\ \A r \in s.id : rows[r].live

Takes(s) ==
    /\ s.items # {} /\ \A r \in s.id : rows[r].live
    /\ \A items \in s.items : items.type = s.type

Recorded(s, old) ==
    [live |-> TRUE, contract |-> CHOOSE k \in Contracts : s.contract = {k}, type |-> s.type,
     items |-> s.items, paid |-> old.live /\ old.paid,
     vouchers |-> IF old.live THEN old.vouchers ELSE {}]

ServeSave ==
    \E c \in Asked({"save"}), r \in Records :
        /\ Takes(c.data)
        /\ IF c.data.id = {} THEN rows[r] = Absent ELSE c.data.id = {r}
        /\ rows' = [rows EXCEPT ![r] = Recorded(c.data, @)]
        /\ Answer(c, r)
        /\ UNCHANGED counts

ServeRemove ==
    \E c \in Asked(Removals) :
        /\ rows[c.data].live
        /\ rows' = [rows EXCEPT ![c.data].live = FALSE]
        /\ Answer(c, c.data)
        /\ UNCHANGED counts

ServePay ==
    \E c \in Asked({"pay"}) : \E r \in c.data.record :
        /\ rows[r].live
        /\ rows' = [rows EXCEPT ![r].paid = TRUE, ![r].vouchers = c.data.vouchers]
        /\ Answer(c, r)
        /\ UNCHANGED counts
-----------------------------------------------------------------------------
(***************************************************************************)
(* The answers, each of which acts on what is open when it arrives.        *)
(***************************************************************************)
Done(c) == calls' = calls \ {c} /\ UNCHANGED <<rows, picked, counts>>

LoadAnswered ==
    \E c \in calls : \E answer \in c.answer :
        /\ c.kind = "load" /\ Done(c)
        /\ list' = answer
        /\ UNCHANGED <<form, payment>>

PrefillAnswered ==
    \E c \in calls : \E answer \in c.answer :
        /\ c.kind = "prefill" /\ Done(c)
        /\ form' = [form EXCEPT !.items = {answer}]
        /\ UNCHANGED <<list, payment>>

(* A save closes the dialog, whichever record it shows, and loads the list.*)
Reload(c) ==
    /\ calls' = (calls \ {c}) \cup {[kind |-> "load", n |-> c.n, data |-> {}, answer |-> {}]}
    /\ UNCHANGED <<rows, list, picked, counts>>

SaveAnswered ==
    \E c \in calls :
        /\ c.kind = "save" /\ c.answer # {} /\ Reload(c)
        /\ form' = [form EXCEPT !.open = FALSE]
        /\ UNCHANGED payment

(* Asked for in the dialog of a record, a removal closes a dialog also if  *)
(* it fails.                                                               *)
AfterRemoval(c) == [form EXCEPT !.open = @ /\ c.kind # "removeCurrent"]

RemoveAnswered ==
    \E c \in calls :
        /\ c.kind \in Removals /\ c.answer # {} /\ Reload(c)
        /\ form' = AfterRemoval(c)
        /\ UNCHANGED payment

Uploaded ==
    \E c \in calls :
        /\ c.kind = "upload" /\ c.answer # {}
        /\ calls' = (calls \ {c}) \cup Pay(c)
        /\ UNCHANGED <<rows, list, form, payment, picked, counts>>

PayAnswered ==
    \E c \in calls :
        /\ c.kind = "pay" /\ c.answer # {} /\ Reload(c)
        /\ payment' = [payment EXCEPT !.open = FALSE, !.submitting = FALSE]
        /\ UNCHANGED form

Refused(c) ==
    \/ c.kind = "save" /\ ~Takes(c.data)
    \/ c.kind \in Removals /\ ~rows[c.data].live
    \/ c.kind = "pay" /\ \E r \in c.data.record : ~rows[r].live

(* Every other failure is reported and leaves the dialogs as they are.     *)
Fails ==
    \E c \in calls :
        /\ \/ c.answer = {} /\ Refused(c) /\ UNCHANGED counts
           \/ counts.faults < MaxFaults /\ counts' = [counts EXCEPT !.faults = @ + 1]
        /\ calls' = calls \ {c}
        /\ payment' = IF c.kind \in {"upload", "pay"} THEN [payment EXCEPT !.submitting = FALSE]
                      ELSE payment
        /\ form' = AfterRemoval(c)
        /\ UNCHANGED <<rows, list, picked>>
-----------------------------------------------------------------------------
Next ==
    \/ Refresh
    \/ OpenCreateRecord \/ HandleContractChange \/ HandleTypeChange
    \/ OpenEditRecord \/ OpenViewRecord \/ SwitchToEdit \/ CloseRecord
    \/ SaveRecord \/ ConfirmRemoveRecord \/ RemoveCurrentRecord
    \/ OpenPaymentDialog \/ ChooseVoucher \/ RemoveExistingVoucher \/ ClosePayment \/ SavePayment
    \/ ServeRead \/ ServeSave \/ ServeRemove \/ ServePay
    \/ LoadAnswered \/ PrefillAnswered \/ SaveAnswered \/ RemoveAnswered
    \/ Uploaded \/ PayAnswered \/ Fails

Spec == Init /\ [][Next]_vars

TypeOK ==
    /\ \A r \in Records : rows[r].live \in BOOLEAN /\ list[r].live \in BOOLEAN
    /\ form.mode \in {"create", "edit", "view"} /\ form.type \in Types
    /\ Cardinality(form.id) <= 1 /\ Cardinality(form.items) <= 1
    /\ payment.uploads \subseteq 1 .. Len(picked)
    /\ payment.submitting <=> UnderWay({"upload", "pay"})

(* A record on the server has the readings of meters of its own type, even *)
(* if a form was saved while it still showed those of the other type.      *)
RecordsConsistent ==
    \A r \in Records : rows[r].live => \A items \in rows[r].items : items.type = rows[r].type

(* A voucher is saved for the record in whose dialog it was chosen, also   *)
(* if that dialog is closed and another record's opened during the upload. *)
VouchersOfTheirRecord ==
    \A r \in Records : rows[r].live => \A v \in rows[r].vouchers : picked[v] = r

(* Nobody who clicks twice pays twice                                      *)
(* ("缴费上传进行中重复点击确认只发起一次上传和缴费请求").                    *)
PaysOnce == Cardinality({c \in calls : c.kind \in {"upload", "pay"}}) <= 1

(* Once nothing is under way for it, a new record shows the meters and     *)
(* prices of the contract and the type that are chosen.                    *)
(* It does not hold: of two prefills the one answered last stays.          *)
ShowsChosenContract ==
    form.open /\ form.mode = "create" /\ ~UnderWay({"prefill"}) =>
        form.items \subseteq {[contract |-> k, type |-> form.type] : k \in form.contract}
=============================================================================
