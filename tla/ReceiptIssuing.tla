-------------------------- MODULE ReceiptIssuing --------------------------
(***************************************************************************)
(* Receipts (backend/src/receipts) for rent payments and utility records,  *)
(* together with the requests that change those sources.                   *)
(*                                                                         *)
(* create() reads the source, looks for an active receipt, counts the      *)
(* receipts of the day, prints a PDF in a temporary directory named by the *)
(* number it counted, stores the file and only then inserts the row: each  *)
(* of these is a step of its own, because nothing is locked in between.    *)
(* A receipt number is <<day, n>>, a printed document is the pair of the   *)
(* number and the source it was printed from with its amount.              *)
(***************************************************************************)
EXTENDS Naturals, FiniteSets

CONSTANTS Payments,     \* rent payments
          Records,      \* utility charge records
          Amounts,
          Days,
          Slots,        \* requests in flight
          MaxReceipts,  \* BOUND: receipts of one day
          Separate,     \* what two requests in flight never share: subset of {"source", "day"}
          Faults        \* subset of {"crash", "render", "store"}

ASSUME ReceiptConstants ==
    /\ Payments \cap Records = {}
    /\ MaxReceipts \in Nat
    /\ Separate \subseteq {"source", "day"}
    /\ Faults \subseteq {"crash", "render", "store"}

VARIABLES source,    \* the source rows
          receipts,  \* the receipt rows, by number (the unique column)
          temp,      \* the directories under tmp/receipts, by number
          request    \* the handlers in flight

vars == <<source, receipts, temp, request>>

Sources == Payments \cup Records
Numbers == Days \X (1..MaxReceipts)
Nothing == [printed |-> FALSE]

Printed == [number : Numbers, source : Sources, amount : Amounts]
Directory == [docx : Printed \cup {Nothing}, pdf : Printed \cup {Nothing}]
NoDirectory == [exists |-> FALSE]
EmptyDirectory == [docx |-> Nothing, pdf |-> Nothing]

Source == [state : {"unpaid", "paid", "removed"}, amount : Amounts]
NoSource == [state |-> "new"]
Receipt == [source : Sources, amount : Amounts, pdf : Printed, status : {"active", "void"}]

Idle == [step |-> "idle"]
Issue == [step : {"resolved", "checked", "numbered", "made", "written", "fallback",
                  "printed", "stored", "failed", "ready"},
          source : Sources, amount : Amounts, day : Days,
          number : 0..MaxReceipts, file : Printed \cup {Nothing}]
Change == [step : {"cleared"}, source : Sources, row : Source]

TypeOK ==
    /\ source \in [Sources -> Source \cup {NoSource}]
    /\ DOMAIN receipts \subseteq Numbers
    /\ \A k \in DOMAIN receipts : receipts[k] \in Receipt
    /\ temp \in [Numbers -> Directory \cup {NoDirectory}]
    /\ request \in [Slots -> {Idle} \cup Issue \cup Change]

Present(s) == source[s].state \in {"unpaid", "paid"}
Active(s) == \E k \in DOMAIN receipts : receipts[k].source = s /\ receipts[k].status = "active"
OfDay(d) == {k \in DOMAIN receipts : k[1] = d}

\* No other request in flight is about the same source, or issues for one of these days,
\* where the instance says that requests keep apart.
Apart(s, days) ==
    \A q \in Slots : request[q].step # "idle" =>
        /\ "source" \in Separate => request[q].source # s
        /\ "day" \in Separate /\ "day" \in DOMAIN request[q] => request[q].day \notin days

Goto(r, step) == request' = [request EXCEPT ![r].step = step]
Finish(r) == request' = [request EXCEPT ![r] = Idle]

NumberOf(r) == <<request[r].day, request[r].number>>
Payload(r) == [number |-> NumberOf(r), source |-> request[r].source, amount |-> request[r].amount]

-----------------------------------------------------------------------------
(* Issuing a receipt: ReceiptsService.create *)

\* resolveSource, and the issue date that was sent or that of the payment.
Resolve(r, s, d) ==
    /\ request[r] = Idle /\ Apart(s, {d})
    /\ Present(s) /\ source[s].state = "paid"
    /\ request' = [request EXCEPT ![r] = [step |-> "resolved", source |-> s,
                     amount |-> source[s].amount, day |-> d, number |-> 0, file |-> Nothing]]
    /\ UNCHANGED <<source, receipts, temp>>

\* Mutant: the lookup of a receipt forgets to match the source type.
MutantCheckDuplicate(r) ==
    /\ request[r].step = "resolved" /\ Goto(r, "checked")
    /\ UNCHANGED <<source, receipts, temp>>

CheckDuplicate(r) ==
    /\ request[r].step = "resolved"
    /\ IF Active(request[r].source) THEN Finish(r) ELSE Goto(r, "checked")
    /\ UNCHANGED <<source, receipts, temp>>

\* Mutant: a number is skipped while somebody prints under it.
MutantNextNumber(d) ==
    LET n == Cardinality(OfDay(d)) + 1 IN
    IF <<d, n>> \in Numbers /\ temp[<<d, n>>] # NoDirectory THEN n + 1 ELSE n

\* generateReceiptNo: the receipts of the day, void ones included, plus one.
NextNumber(d) == Cardinality(OfDay(d)) + 1

TakeNumber(r) ==
    /\ request[r].step = "checked"
    /\ NextNumber(request[r].day) <= MaxReceipts
    /\ request' = [request EXCEPT ![r].step = "numbered", ![r].number = NextNumber(request[r].day)]
    /\ UNCHANGED <<source, receipts, temp>>

\* mkdir with recursive: a directory that is there already is kept as it is.
Ensured(k) == IF temp[k] = NoDirectory THEN EmptyDirectory ELSE temp[k]

MakeDirectory(r) ==
    /\ request[r].step = "numbered"
    /\ temp' = [temp EXCEPT ![NumberOf(r)] = Ensured(NumberOf(r))]
    /\ Goto(r, "made")
    /\ UNCHANGED <<source, receipts>>

WriteDocx(r) ==
    /\ request[r].step = "made"
    /\ temp' = [temp EXCEPT ![NumberOf(r)] = [Ensured(NumberOf(r)) EXCEPT !.docx = Payload(r)]]
    /\ Goto(r, "written")
    /\ UNCHANGED <<source, receipts>>

\* soffice prints whatever .docx lies under the name it is given.
ConvertDocx(r) ==
    LET dir == Ensured(NumberOf(r)) IN
    /\ request[r].step = "written"
    /\ dir.docx # Nothing
    /\ temp' = [temp EXCEPT ![NumberOf(r)].pdf = dir.docx]
    /\ Goto(r, "printed")
    /\ UNCHANGED <<source, receipts>>

\* The template cannot be filled, or soffice fails: a missing file, or any other reason.
TemplateFails(r) ==
    /\ request[r].step \in {"made", "written"}
    /\ \/ "render" \in Faults
       \/ request[r].step = "written" /\ Ensured(NumberOf(r)).docx = Nothing
    /\ Goto(r, "fallback")
    /\ UNCHANGED <<source, receipts, temp>>

\* Mutant: a failed template leaves the printing to whatever lies in the directory.
MutantPrintFallback(r) ==
    /\ request[r].step = "fallback"
    /\ Goto(r, "printed")
    /\ UNCHANGED <<source, receipts, temp>>

\* generateFallbackPdf draws the page itself, into a directory that must still be there.
PrintFallback(r) ==
    /\ request[r].step = "fallback"
    /\ IF temp[NumberOf(r)] = NoDirectory
       THEN Goto(r, "failed") /\ UNCHANGED temp
       ELSE Goto(r, "printed") /\ temp' = [temp EXCEPT ![NumberOf(r)].pdf = Payload(r)]
    /\ UNCHANGED <<source, receipts>>

\* Mutant: a PDF that is not there is registered as well.
MutantRegisterFile(r) ==
    /\ request[r].step = "printed"
    /\ request' = [request EXCEPT ![r].step = "stored", ![r].file = Ensured(NumberOf(r)).pdf]
    /\ UNCHANGED <<source, receipts, temp>>

\* registerGeneratedFile copies the PDF into the storage and inserts its row.
RegisterFile(r) ==
    LET dir == Ensured(NumberOf(r)) IN
    /\ request[r].step = "printed"
    /\ \/ /\ dir.pdf # Nothing
          /\ request' = [request EXCEPT ![r].step = "stored", ![r].file = dir.pdf]
       \/ /\ "store" \in Faults \/ dir.pdf = Nothing
          /\ Goto(r, "failed")
    /\ UNCHANGED <<source, receipts, temp>>

\* The finally block removes the directory, whoever uses it.
RemoveDirectory(r) ==
    /\ request[r].step \in {"stored", "failed"}
    /\ temp' = [temp EXCEPT ![NumberOf(r)] = NoDirectory]
    /\ IF request[r].step = "stored" THEN Goto(r, "ready") ELSE Finish(r)
    /\ UNCHANGED <<source, receipts>>

NewReceipt(r) == [source |-> request[r].source, amount |-> request[r].amount,
                  pdf |-> request[r].file, status |-> "active"]

\* The insert fails when the number is taken.
SaveReceipt(r) ==
    /\ request[r].step = "ready"
    /\ receipts' = IF NumberOf(r) \in DOMAIN receipts THEN receipts
                   ELSE [k \in DOMAIN receipts \cup {NumberOf(r)} |->
                           IF k = NumberOf(r) THEN NewReceipt(r) ELSE receipts[k]]
    /\ Finish(r)
    /\ UNCHANGED <<source, temp>>

\* voidReceipt keeps the row, and may be sent again.
VoidReceipt(k) ==
    /\ k \in DOMAIN receipts
    /\ receipts' = [receipts EXCEPT ![k].status = "void"]
    /\ UNCHANGED <<source, temp, request>>

-----------------------------------------------------------------------------
(* Changing a source *)

\* A new payment, a new utility record: nothing refers to it yet.
CreateSource(s, a) ==
    /\ source[s] = NoSource
    /\ source' = [source EXCEPT ![s] = [state |-> IF s \in Payments THEN "paid" ELSE "unpaid",
                                        amount |-> a]]
    /\ UNCHANGED <<receipts, temp, request>>

\* Mutant: an update forgets the receipt.
MutantClearChange(r, s, row) ==
    /\ request[r] = Idle /\ Apart(s, {}) /\ Present(s)
    /\ row.state = source[s].state
    /\ request' = [request EXCEPT ![r] = [step |-> "cleared", source |-> s, row |-> row]]
    /\ UNCHANGED <<source, receipts, temp>>

\* An update or a removal has found the row and no active receipt. A payment is locked by
\* then, with its contract; a utility record is not.
ClearChange(r, s, row) ==
    /\ request[r] = Idle /\ Apart(s, {})
    /\ Present(s) /\ ~Active(s)
    /\ s \in Payments => \A q \in Slots : request[q].step = "cleared" => request[q].source # s
    /\ row.state \in {source[s].state, "removed"}
    /\ row.state = "removed" => row.amount = source[s].amount
    /\ request' = [request EXCEPT ![r] = [step |-> "cleared", source |-> s, row |-> row]]
    /\ UNCHANGED <<source, receipts, temp>>

\* It writes the columns it read and those it changes; a utility record may also fail,
\* because its items are written with it.
CommitChange(r) ==
    /\ request[r].step = "cleared"
    /\ source' = [source EXCEPT ![request[r].source] = request[r].row]
    /\ Finish(r)
    /\ UNCHANGED <<receipts, temp>>

ChangeFails(r) ==
    /\ request[r].step = "cleared"
    /\ Finish(r)
    /\ UNCHANGED <<source, receipts, temp>>

\* markAsPaid looks for no receipt, and changes no amount.
MarkPaid(s) ==
    /\ s \in Records /\ Present(s) /\ Apart(s, {})
    /\ source' = [source EXCEPT ![s].state = "paid"]
    /\ UNCHANGED <<receipts, temp, request>>

\* The process dies: its handlers are gone, what is on the volume stays.
Crash ==
    /\ "crash" \in Faults
    /\ \E r \in Slots : request[r] # Idle
    /\ request' = [r \in Slots |-> Idle]
    /\ UNCHANGED <<source, receipts, temp>>

Init ==
    /\ source = [s \in Sources |-> NoSource]
    /\ receipts = <<>>
    /\ temp = [k \in Numbers |-> NoDirectory]
    /\ request = [r \in Slots |-> Idle]

IssueStep(r) ==
    \/ \E s \in Sources, d \in Days : Resolve(r, s, d)
    \/ CheckDuplicate(r) \/ TakeNumber(r) \/ MakeDirectory(r) \/ WriteDocx(r) \/ ConvertDocx(r)
    \/ TemplateFails(r) \/ PrintFallback(r) \/ RegisterFile(r) \/ RemoveDirectory(r)
    \/ SaveReceipt(r)

SourceStep(r) ==
    \/ \E s \in Sources, row \in Source : ClearChange(r, s, row)
    \/ CommitChange(r) \/ ChangeFails(r)

Next ==
    \/ \E r \in Slots : IssueStep(r) \/ SourceStep(r)
    \/ \E s \in Sources, a \in Amounts : CreateSource(s, a)
    \/ \E s \in Records : MarkPaid(s)
    \/ \E k \in DOMAIN receipts : VoidReceipt(k)
    \/ Crash

Spec == Init /\ [][Next]_vars

-----------------------------------------------------------------------------
(* Properties *)

\* The receipts of a day are numbered 1, 2, 3... without a gap or a repetition, whatever
\* requests race, fail or die (generateReceiptNo; voidReceipt; the unique column).
NumbersGapless == \A d \in Days : {k[2] : k \in OfDay(d)} = 1..Cardinality(OfDay(d))

\* A source has at most one active receipt (ensureNoDuplicate).
OneActivePerSource ==
    \A j, k \in DOMAIN receipts :
        receipts[j].status = "active" /\ receipts[k].status = "active"
            /\ receipts[j].source = receipts[k].source => j = k

\* An active receipt states what its source says today: the amount, and that it was paid
\* (the checks for an active receipt in receipts, rent payments and utilities).
ReceiptMatchesSource ==
    \A k \in DOMAIN receipts : receipts[k].status = "active" =>
        source[receipts[k].source] = [state |-> "paid", amount |-> receipts[k].amount]

\* The PDF of a receipt prints the number, the source and the amount of its row.
PdfIsItsOwn ==
    \A k \in DOMAIN receipts :
        receipts[k].pdf = [number |-> k, source |-> receipts[k].source, amount |-> receipts[k].amount]

\* While no two requests in flight are about one source, its receipts are one and true; while
\* no two are of one day, each prints its own page, also after a crash left files behind
\* (nothing is locked between the lookup, the printing and the insert of create).
ReceiptsHold ==
    /\ TypeOK
    /\ "source" \in Separate => OneActivePerSource /\ ReceiptMatchesSource
    /\ "day" \in Separate => PdfIsItsOwn

\* A payment with an active receipt is neither changed nor removed.
\* It does not hold unless requests about one source are kept apart.
ReceiptedPaymentFrozen ==
    [][\A s \in Payments : Active(s) => source'[s] = source[s]]_vars
=============================================================================

