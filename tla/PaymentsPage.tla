---------------------------- MODULE PaymentsPage ----------------------------
(***************************************************************************)
(* The page of rent payments, RentPaymentsView.vue with                    *)
(* PaymentVoucherUpload.vue, in one browser. The list is loaded again by   *)
(* the user and after every change; each load has a number and only the    *)
(* last one counts. A payment is edited in a dialog; saving it uploads the *)
(* pictures that were chosen and then sends what the form holds by then.   *)
(* What a payment does to the rent is in RentLedger.                       *)
(***************************************************************************)
EXTENDS Integers, Sequences, FiniteSets

CONSTANTS
    Payments,      \* the payments there can be
    MaxVouchers,   \* the limit of pictures of one payment, 10 in the code
    MaxClicks,     \* bound on what the user does
    MaxFaults      \* bound on the requests that fail

BoundsAssumption == {MaxVouchers, MaxClicks, MaxFaults} \subseteq Nat

VARIABLES
    rows,      \* the payments on the server
    list,      \* the payments as the page shows them
    page,      \* whether it is mounted, the number of its last load, the spinner
    loads,     \* the loads under way
    form,      \* the dialog of a payment
    drafts,    \* for every time the dialog was opened, the payment it was opened for
    picked,    \* for every picture that was chosen, the draft it was chosen in
    strayed,   \* the pictures during whose upload another dialog was opened
    saves,     \* the save under way: upload, then payment
    others,    \* the removals and receipts under way
    counts     \* clicks and faults, against the bounds

vars == <<rows, list, page, loads, form, drafts, picked, strayed, saves, others, counts>>

Absent == [live |-> FALSE]
Blank == [open |-> FALSE, id |-> {}, draft |-> 0, existing |-> {}, uploads |-> {},
          submitting |-> FALSE]

(* A payment has the draft that made it, the click that changed it last,   *)
(* and its vouchers.                                                       *)
Payment(made, changed, vouchers) ==
    [live |-> TRUE, made |-> made, changed |-> changed, vouchers |-> vouchers]

LoadPageData(p) == [p EXCEPT !.sequence = @ + 1, !.loading = TRUE]

(* A load that a save waits for ends its submission.                       *)
LoadCall(p, saving) == {[sequence |-> p.sequence, answer |-> {}, saving |-> saving]}

Init ==
    /\ \E there \in SUBSET Payments :
          rows = [p \in Payments |-> IF p \in there THEN Payment(0, 0, {}) ELSE Absent]
    /\ list = [p \in Payments |-> Absent]
    /\ page = [mounted |-> TRUE, sequence |-> 1, loading |-> TRUE]
    /\ loads = LoadCall(page, FALSE)
    /\ form = Blank
    /\ drafts = <<>> /\ picked = <<>> /\ strayed = {}
    /\ saves = {} /\ others = {}
    /\ counts = [clicks |-> 0, faults |-> 0]

Shown == {p \in Payments : list[p].live}
-----------------------------------------------------------------------------
(***************************************************************************)
(* The user.                                                               *)
(***************************************************************************)
Click ==
    /\ page.mounted /\ counts.clicks < MaxClicks
    /\ counts' = [counts EXCEPT !.clicks = @ + 1]

Refresh ==
    /\ ~page.loading /\ ~form.open /\ Click
    /\ page' = LoadPageData(page)
    /\ loads' = loads \cup LoadCall(page', FALSE)
    /\ UNCHANGED <<rows, list, form, drafts, picked, strayed, saves, others>>

Leave ==
    /\ page.mounted
    /\ page' = [page EXCEPT !.mounted = FALSE, !.sequence = @ + 1]
    /\ UNCHANGED <<rows, list, loads, form, drafts, picked, strayed, saves, others, counts>>

(* What is being uploaded is sent for the dialog that is open afterwards.  *)
Stray == strayed' = strayed \cup UNION {s.vouchers : s \in {s \in saves : s.step = "upload"}}

Opened(target, vouchers) ==
    /\ Stray
    /\ drafts' = Append(drafts, target)
    /\ form' = [form EXCEPT !.open = TRUE, !.id = target, !.draft = Len(drafts'),
                            !.existing = vouchers, !.uploads = {}]
    /\ UNCHANGED <<rows, list, page, loads, picked, saves, others>>

OpenCreate == ~form.open /\ Click /\ Opened({}, {})

\* Mutant: the pictures of the last draft are not cleared.
MutantOpenEdit ==
    \E p \in Shown :
        /\ ~form.open /\ Click /\ Stray
        /\ drafts' = Append(drafts, {p})
        /\ form' = [form EXCEPT !.open = TRUE, !.id = {p}, !.draft = Len(drafts'),
                                !.existing = list[p].vouchers]
        /\ UNCHANGED <<rows, list, page, loads, picked, saves, others>>

OpenEdit == \E p \in Shown : ~form.open /\ Click /\ Opened({p}, list[p].vouchers)

ClosePaymentDialog ==
    /\ form.open /\ Click
    /\ form' = [form EXCEPT !.open = FALSE]
    /\ UNCHANGED <<rows, list, page, loads, drafts, picked, strayed, saves, others>>

Fits(existing, uploads) == Cardinality(existing) + Cardinality(uploads) < MaxVouchers

AppendFiles ==
    /\ form.open /\ ~form.submitting /\ Fits(form.existing, form.uploads) /\ Click
    /\ picked' = Append(picked, form.draft)
    /\ form' = [form EXCEPT !.uploads = @ \cup {Len(picked')}]
    /\ UNCHANGED <<rows, list, page, loads, drafts, strayed, saves, others>>

RemovePendingFile ==
    \E v \in form.uploads :
        /\ form.open /\ ~form.submitting /\ Click
        /\ form' = [form EXCEPT !.uploads = @ \ {v}]
        /\ UNCHANGED <<rows, list, page, loads, drafts, picked, strayed, saves, others>>

RemoveExistingVoucher ==
    \E v \in form.existing :
        /\ form.open /\ ~form.submitting /\ Click
        /\ form' = [form EXCEPT !.existing = @ \ {v}]
        /\ UNCHANGED <<rows, list, page, loads, drafts, picked, strayed, saves, others>>

(* The payment is sent as the form is when the pictures are uploaded.      *)
Send(s) ==
    {[s EXCEPT !.step = "send", !.id = form.id, !.draft = form.draft]}

Submission ==
    [step |-> "upload", id |-> {}, draft |-> 0, click |-> counts'.clicks,
     vouchers |-> form.existing \cup form.uploads, answered |-> FALSE]

\* Mutant: a second click is not stopped.
MutantSave ==
    /\ form.open /\ Click
    /\ form' = [form EXCEPT !.submitting = TRUE]
    /\ saves' = saves \cup (IF form.uploads = {} THEN Send(Submission) ELSE {Submission})
    /\ UNCHANGED <<rows, list, page, loads, drafts, picked, strayed, others>>

Save ==
    /\ form.open /\ ~form.submitting /\ Click
    /\ form' = [form EXCEPT !.submitting = TRUE]
    /\ saves' = saves \cup (IF form.uploads = {} THEN Send(Submission) ELSE {Submission})
    /\ UNCHANGED <<rows, list, page, loads, drafts, picked, strayed, others>>

(* A payment is removed in its own dialog, which is closed afterwards.     *)
ConfirmRemove ==
    \E p \in form.id :
        /\ form.open /\ Click
        /\ others' = others \cup {[kind |-> "remove", payment |-> p, done |-> FALSE]}
        /\ UNCHANGED <<rows, list, page, loads, form, drafts, picked, strayed, saves>>

CreateReceipt ==
    \E p \in Shown :
        /\ ~form.open /\ Click
        /\ others' = others \cup {[kind |-> "receipt", payment |-> p, done |-> FALSE]}
        /\ UNCHANGED <<rows, list, page, loads, form, drafts, picked, strayed, saves>>
-----------------------------------------------------------------------------
(***************************************************************************)
(* The backend.                                                            *)
(***************************************************************************)
Browser == <<list, page, form, drafts, picked, strayed, counts>>

ServeLoad ==
    \E c \in loads :
        /\ c.answer = {}
        /\ loads' = (loads \ {c}) \cup {[c EXCEPT !.answer = {rows}]}
        /\ UNCHANGED <<Browser, rows, saves, others>>

ServeUpload ==
    \E s \in saves :
        /\ s.step = "upload" /\ ~s.answered
        /\ saves' = (saves \ {s}) \cup {[s EXCEPT !.answered = TRUE]}
        /\ UNCHANGED <<Browser, rows, loads, others>>

ServeSave ==
    \E s \in saves, p \in Payments :
        /\ s.step = "send" /\ ~s.answered
        /\ IF s.id = {} THEN rows[p] = Absent ELSE s.id = {p} /\ rows[p].live
        /\ rows' = [rows EXCEPT ![p] =
                      Payment(IF s.id = {} THEN s.draft ELSE @.made, s.click, s.vouchers)]
        /\ saves' = (saves \ {s}) \cup {[s EXCEPT !.answered = TRUE]}
        /\ UNCHANGED <<Browser, loads, others>>

ServeOther ==
    \E o \in others :
        /\ ~o.done /\ rows[o.payment].live
        /\ rows' = IF o.kind = "remove" THEN [rows EXCEPT ![o.payment].live = FALSE] ELSE rows
        /\ others' = (others \ {o}) \cup {[o EXCEPT !.done = TRUE]}
        /\ UNCHANGED <<Browser, loads, saves>>
-----------------------------------------------------------------------------
(***************************************************************************)
(* The answers.                                                            *)
(***************************************************************************)
IsCurrent(c) == page.mounted /\ c.sequence = page.sequence

Ended(c) == [form EXCEPT !.submitting = @ /\ ~c.saving]

\* Mutant: every load that is answered is shown.
MutantLoadAnswered ==
    \E c \in loads : \E answer \in c.answer :
        /\ loads' = loads \ {c}
        /\ list' = answer
        /\ page' = IF IsCurrent(c) THEN [page EXCEPT !.loading = FALSE] ELSE page
        /\ form' = Ended(c)
        /\ UNCHANGED <<rows, drafts, picked, strayed, saves, others, counts>>

LoadAnswered ==
    \E c \in loads : \E answer \in c.answer :
        /\ loads' = loads \ {c}
        /\ list' = IF IsCurrent(c) THEN answer ELSE list
        /\ page' = IF IsCurrent(c) THEN [page EXCEPT !.loading = FALSE] ELSE page
        /\ form' = Ended(c)
        /\ UNCHANGED <<rows, drafts, picked, strayed, saves, others, counts>>

(* A page that was left loads nothing any more.                            *)
Reload(saving) ==
    IF page.mounted
    THEN page' = LoadPageData(page) /\ loads' = loads \cup LoadCall(page', saving)
    ELSE UNCHANGED <<page, loads>>

Uploaded ==
    \E s \in saves :
        /\ s.step = "upload" /\ s.answered
        /\ saves' = (saves \ {s}) \cup Send([s EXCEPT !.answered = FALSE])
        /\ UNCHANGED <<Browser, rows, loads, others>>

(* The dialog is closed, and counts as submitting until the list is loaded *)
(* again, whether or not that load is still the last one.                  *)
SaveAnswered ==
    \E s \in saves :
        /\ s.step = "send" /\ s.answered
        /\ saves' = saves \ {s}
        /\ form' = [form EXCEPT !.open = FALSE, !.submitting = page.mounted]
        /\ Reload(TRUE)
        /\ UNCHANGED <<rows, list, drafts, picked, strayed, others, counts>>

OtherAnswered ==
    \E o \in others :
        /\ o.done
        /\ others' = others \ {o}
        /\ form' = IF o.kind = "remove" THEN [form EXCEPT !.open = FALSE] ELSE form
        /\ Reload(FALSE)
        /\ UNCHANGED <<rows, list, drafts, picked, strayed, saves, counts>>

Fault == counts.faults < MaxFaults /\ counts' = [counts EXCEPT !.faults = @ + 1]

(* A failure that is not of the last load changes nothing.                 *)
LoadFails ==
    \E c \in loads :
        /\ Fault
        /\ loads' = loads \ {c}
        /\ page' = IF IsCurrent(c) THEN [page EXCEPT !.loading = FALSE] ELSE page
        /\ form' = Ended(c)
        /\ UNCHANGED <<rows, list, drafts, picked, strayed, saves, others>>

SaveFails ==
    \E s \in saves :
        /\ \/ Fault
           \/ /\ s.step = "send" /\ ~s.answered /\ UNCHANGED counts
              /\ IF s.id = {} THEN \A p \in Payments : rows[p] # Absent
                 ELSE \A p \in s.id : ~rows[p].live
        /\ saves' = saves \ {s}
        /\ form' = [form EXCEPT !.submitting = FALSE]
        /\ UNCHANGED <<rows, list, page, loads, drafts, picked, strayed, others>>

OtherFails ==
    \E o \in others :
        /\ ~o.done /\ ~rows[o.payment].live
        /\ others' = others \ {o}
        /\ UNCHANGED <<Browser, rows, loads, saves>>
-----------------------------------------------------------------------------
User ==
    \/ Refresh \/ Leave
    \/ OpenCreate \/ OpenEdit \/ ClosePaymentDialog
    \/ AppendFiles \/ RemovePendingFile \/ RemoveExistingVoucher
    \/ Save \/ ConfirmRemove \/ CreateReceipt

Served == ServeLoad \/ ServeUpload \/ ServeSave \/ ServeOther
Handled == LoadAnswered \/ Uploaded \/ SaveAnswered \/ OtherAnswered \/ OtherFails

Next == User \/ Served \/ Handled \/ LoadFails \/ SaveFails

(* The backend answers and the browser handles every answer.               *)
Fairness == WF_vars(Served) /\ WF_vars(Handled)

Spec == Init /\ [][Next]_vars /\ Fairness

TypeOK ==
    /\ \A p \in Payments : rows[p].live \in BOOLEAN /\ list[p].live \in BOOLEAN
    /\ page.sequence \in Nat
    /\ Cardinality(form.id) <= 1 /\ form.uploads \subseteq DOMAIN picked
    /\ Cardinality(form.existing) + Cardinality(form.uploads) <= MaxVouchers
    /\ \A s \in saves : s.step \in {"upload", "send"} /\ s.vouchers \subseteq DOMAIN picked
    /\ \A d \in DOMAIN picked : picked[d] \in DOMAIN drafts
    /\ strayed \subseteq DOMAIN picked

(* Once nothing is under way and the last load did not fail, the list is   *)
(* that of the server, in whatever order the loads were answered           *)
(* ("旧页面请求晚到时不覆盖保存后刷新的收款数据").                             *)
QuietListIsCurrent ==
    page.mounted /\ loads = {} /\ saves = {} /\ others = {} /\ counts.faults = 0 => list = rows

(* Pictures that are clicked to be saved twice are saved once              *)
(* ("上传进行中重复保存只发起一次上传和创建请求").                             *)
SavesOnce == Cardinality(saves) <= 1

(***************************************************************************)
(* A picture that was chosen in a dialog belongs to the payment the dialog *)
(* was opened for, or to the one that this dialog made, also when the      *)
(* dialog is closed while pictures are uploaded; but a user who then opens *)
(* another dialog has them saved with that one.                            *)
(***************************************************************************)
VouchersOfTheirPayment ==
    \A p \in Payments : rows[p].live => \A v \in rows[p].vouchers \ strayed :
        LET target == drafts[picked[v]] IN
        IF target = {} THEN rows[p].made = picked[v] ELSE target = {p}

(* The spinner of the page ends                                            *)
(* ("旧页面请求失败时不覆盖新成功，也不能结束最新请求的 loading").             *)
SpinnerEnds == page.loading ~> ~page.loading \/ ~page.mounted
=============================================================================
