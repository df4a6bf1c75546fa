---------------------------- MODULE StoredFiles ----------------------------
(***************************************************************************)
(* Uploading signed copies of a contract: SignedContractUploadDialog.vue,  *)
(* files.service.ts, which writes each file before its row, and            *)
(* addAttachments of contracts.service.ts. Several dialogs, in several     *)
(* browsers, are open for the same contract. A request may fail at each of *)
(* its steps, and its answer may be lost; the dialog then keeps what it    *)
(* has and the user saves again or gives up.                               *)
(***************************************************************************)
EXTENDS Integers, Sequences, FiniteSets, Functions

CONSTANTS
    Dialogs,     \* the browsers in which the dialog can be open
    Files,       \* the files on the users' disks
    Unfit,       \* those of a wrong type or more than 100 MB long
    MaxChosen,   \* the limit of files in one dialog, 10 in the code
    MaxPicks,    \* bound on the selections of files
    MaxStored,   \* bound on the stored files
    MaxFaults    \* bound on the requests that fail

LimitsAssumption ==
    /\ Unfit \subseteq Files
    /\ {MaxChosen, MaxPicks, MaxStored, MaxFaults} \subseteq Nat

VARIABLES
    disk,      \* the stored files that are on disk
    rows,      \* the stored files with a row
    live,      \* whether the contract is there
    attached,  \* the stored files that are attached to the contract
    dialog,    \* the dialog of each browser: {} or one form
    request,   \* the request of each browser: {} or one
    stored,    \* the number of stored files, whose numbers are their ids
    origin,    \* the selection and the file that each id was made for
    picks,     \* the number of selections made
    faults     \* the requests that failed, against the bound

vars == <<disk, rows, live, attached, dialog, request, stored, origin, picks, faults>>

(* A file of a form has the number of the selection it came with and, once *)
(* it is uploaded, the id under which it is stored.                        *)
Form(uploads, saving) == [uploads |-> uploads, saving |-> saving]

Init ==
    /\ disk = {} /\ rows = {} /\ live = TRUE /\ attached = {}
    /\ dialog = [d \in Dialogs |-> {}]
    /\ request = [d \in Dialogs |-> {}]
    /\ stored = 0
    /\ origin = <<>>
    /\ picks = 0
    /\ faults = 0

Backend == <<disk, rows, live, attached, stored, origin>>
-----------------------------------------------------------------------------
(***************************************************************************)
(* The dialog. While it saves, its files cannot be changed and it cannot   *)
(* be closed.                                                              *)
(***************************************************************************)
Open(d) ==
    /\ dialog[d] = {} /\ live
    /\ dialog' = [dialog EXCEPT ![d] = {Form(<<>>, FALSE)}]
    /\ UNCHANGED <<Backend, request, picks, faults>>

Edit(d, uploads) ==
    /\ dialog' = [dialog EXCEPT ![d] = {Form(uploads, FALSE)}]
    /\ UNCHANGED <<Backend, request, faults>>

(* One unfit file, or one too many, and none of the selection is taken; a  *)
(* file that was already chosen is not taken again.                        *)
AppendFiles(d) ==
    \E form \in dialog[d], selected \in SUBSET (Files \ Unfit) :
        LET chosen == DOMAIN form.uploads
            additions == selected \ chosen
        IN  /\ ~form.saving /\ additions # {} /\ picks < MaxPicks
            /\ Cardinality(chosen \cup additions) <= MaxChosen
            /\ picks' = picks + 1
            /\ Edit(d, [f \in chosen \cup additions |->
                          IF f \in chosen THEN form.uploads[f] ELSE [pick |-> picks', id |-> {}]])

RemoveFile(d) ==
    \E form \in dialog[d] : \E f \in DOMAIN form.uploads :
        /\ ~form.saving
        /\ Edit(d, Restrict(form.uploads, DOMAIN form.uploads \ {f}))
        /\ UNCHANGED picks

Close(d) ==
    /\ \E form \in dialog[d] : ~form.saving
    /\ dialog' = [dialog EXCEPT ![d] = {}]
    /\ UNCHANGED <<Backend, request, picks, faults>>

Pending(uploads) == {f \in DOMAIN uploads : uploads[f].id = {}}
StoredIds(uploads) == UNION {u.id : u \in Range(uploads)}

(* The next request of a form that is saved: the files one by one, those   *)
(* that have no id yet, and then the list of all ids.                      *)
Calls(uploads) ==
    IF Pending(uploads) # {}
    THEN {[kind |-> "upload", file |-> f, pick |-> uploads[f].pick, id |-> 0, step |-> "write"] : f \in Pending(uploads)}
    ELSE {[kind |-> "attach", ids |-> StoredIds(uploads), seen |-> {}, step |-> "check"]}

\* Mutant: every file is uploaded again when the form is saved again.
MutantSave(d) ==
    \E form \in dialog[d] :
        LET blank == [f \in DOMAIN form.uploads |-> [form.uploads[f] EXCEPT !.id = {}]] IN
        /\ ~form.saving /\ DOMAIN form.uploads # {}
        /\ \E call \in Calls(blank) :
              /\ dialog' = [dialog EXCEPT ![d] = {Form(blank, TRUE)}]
              /\ request' = [request EXCEPT ![d] = {call}]
        /\ UNCHANGED <<Backend, picks, faults>>

Save(d) ==
    \E form \in dialog[d] :
        /\ ~form.saving /\ DOMAIN form.uploads # {}
        /\ \E call \in Calls(form.uploads) :
              /\ dialog' = [dialog EXCEPT ![d] = {[form EXCEPT !.saving = TRUE]}]
              /\ request' = [request EXCEPT ![d] = {call}]
        /\ UNCHANGED <<Backend, picks, faults>>
-----------------------------------------------------------------------------
(***************************************************************************)
(* The backend.                                                            *)
(***************************************************************************)
Step(d, next) == request' = [request EXCEPT ![d] = {next}] /\ UNCHANGED <<dialog, picks, faults>>

\* Mutant: the row is written first.
MutantWriteFile(d) ==
    \E r \in request[d] :
        /\ r.kind = "upload" /\ r.step = "write" /\ stored < MaxStored
        /\ stored' = stored + 1
        /\ origin' = Append(origin, [pick |-> r.pick, file |-> r.file])
        /\ rows' = rows \cup {stored'}
        /\ Step(d, [r EXCEPT !.id = stored', !.step = "row"])
        /\ UNCHANGED <<disk, live, attached>>

WriteFile(d) ==
    \E r \in request[d] :
        /\ r.kind = "upload" /\ r.step = "write" /\ stored < MaxStored
        /\ stored' = stored + 1
        /\ origin' = Append(origin, [pick |-> r.pick, file |-> r.file])
        /\ disk' = disk \cup {stored'}
        /\ Step(d, [r EXCEPT !.id = stored', !.step = "row"])
        /\ UNCHANGED <<rows, live, attached>>

InsertRow(d) ==
    \E r \in request[d] :
        /\ r.kind = "upload" /\ r.step = "row"
        /\ rows' = rows \cup {r.id}
        /\ Step(d, [r EXCEPT !.step = "answer"])
        /\ UNCHANGED <<disk, live, attached, stored, origin>>

(* The files are looked up before the transaction, the list of the         *)
(* contract is read under the lock on its row.                             *)
CheckFiles(d) ==
    \E r \in request[d] :
        /\ r.kind = "attach" /\ r.step = "check" /\ r.ids \subseteq rows
        /\ Step(d, [r EXCEPT !.seen = attached, !.step = "append"])
        /\ UNCHANGED Backend

\* Mutant: the list is extended as it was read before the lock.
MutantAddAttachments(d) ==
    \E r \in request[d] :
        /\ r.kind = "attach" /\ r.step = "append" /\ live
        /\ attached' = r.seen \cup r.ids
        /\ Step(d, [r EXCEPT !.step = "answer"])
        /\ UNCHANGED <<disk, rows, live, stored, origin>>

AddAttachments(d) ==
    \E r \in request[d] :
        /\ r.kind = "attach" /\ r.step = "append" /\ live
        /\ attached' = attached \cup r.ids
        /\ Step(d, [r EXCEPT !.step = "answer"])
        /\ UNCHANGED <<disk, rows, live, stored, origin>>

RemoveContract ==
    /\ live /\ live' = FALSE
    /\ UNCHANGED <<disk, rows, attached, dialog, request, stored, origin, picks, faults>>

(* An error of the file system is swallowed: the file may stay.            *)
RemoveStoredFile ==
    \E id \in rows :
        /\ rows' = rows \ {id}
        /\ \/ disk' = disk \ {id} /\ UNCHANGED faults
           \/ faults < MaxFaults /\ faults' = faults + 1 /\ UNCHANGED disk
        /\ UNCHANGED <<live, attached, dialog, request, stored, origin, picks>>
-----------------------------------------------------------------------------
(***************************************************************************)
(* The answers.                                                            *)
(***************************************************************************)
UploadAnswered(d) ==
    \E r \in request[d], form \in dialog[d] :
        LET uploads == [form.uploads EXCEPT ![r.file].id = {r.id}] IN
        /\ r.kind = "upload" /\ r.step = "answer"
        /\ dialog' = [dialog EXCEPT ![d] = {Form(uploads, TRUE)}]
        /\ \E call \in Calls(uploads) : request' = [request EXCEPT ![d] = {call}]
        /\ UNCHANGED <<Backend, picks, faults>>

AttachAnswered(d) ==
    /\ \E r \in request[d] : r.kind = "attach" /\ r.step = "answer"
    /\ dialog' = [dialog EXCEPT ![d] = {}]
    /\ request' = [request EXCEPT ![d] = {}]
    /\ UNCHANGED <<Backend, picks, faults>>

Refused(r) ==
    /\ r.kind = "attach"
    /\ \/ r.step = "check" /\ ~(r.ids \subseteq rows)
       \/ r.step = "append" /\ ~live

\* Mutant: the form goes on saving after a failure.
MutantSaveFails(d) ==
    /\ request[d] # {} /\ faults < MaxFaults
    /\ faults' = faults + 1
    /\ request' = [request EXCEPT ![d] = {}]
    /\ UNCHANGED <<Backend, dialog, picks>>

(* The request failed at some step, or its answer was lost.                *)
SaveFails(d) ==
    \E r \in request[d], form \in dialog[d] :
        /\ \/ faults < MaxFaults /\ faults' = faults + 1
           \/ Refused(r) /\ UNCHANGED faults
        /\ dialog' = [dialog EXCEPT ![d] = {[form EXCEPT !.saving = FALSE]}]
        /\ request' = [request EXCEPT ![d] = {}]
        /\ UNCHANGED <<Backend, picks>>
-----------------------------------------------------------------------------
Next ==
    \/ \E d \in Dialogs :
          \/ Open(d) \/ AppendFiles(d) \/ RemoveFile(d) \/ Close(d) \/ Save(d)
          \/ WriteFile(d) \/ InsertRow(d) \/ CheckFiles(d) \/ AddAttachments(d)
          \/ UploadAnswered(d) \/ AttachAnswered(d) \/ SaveFails(d)
    \/ RemoveContract \/ RemoveStoredFile

Spec == Init /\ [][Next]_vars

Ids == 1 .. stored

TypeOK ==
    /\ disk \cup rows \cup attached \subseteq Ids
    /\ DOMAIN origin = Ids
    /\ \A d \in Dialogs :
          /\ Cardinality(dialog[d]) <= 1 /\ Cardinality(request[d]) <= 1
          /\ request[d] # {} <=> \E form \in dialog[d] : form.saving
          /\ \A form \in dialog[d] :
                /\ DOMAIN form.uploads \subseteq Files \ Unfit
                /\ Cardinality(DOMAIN form.uploads) <= MaxChosen
                /\ StoredIds(form.uploads) \subseteq Ids

(* Every row has its file on disk, wherever uploads and removals stopped;  *)
(* the other way round a file may be left without a row.                   *)
RowsHaveFiles == rows \subseteq disk

(* However often a dialog is saved again after requests that failed before *)
(* or after they were done, the contract gets each of its files once       *)
(* ("关联失败后保留选择并复用已上传的文件重试").                              *)
AttachedOnce == \A a, b \in attached : origin[a] = origin[b] => a = b

(* A dialog that closes after a save has attached the files that were      *)
(* chosen, each as the file it was, unless it is closed with "cancel".     *)
AttachesChosen ==
    \A d \in Dialogs : \A form \in dialog[d] :
       form.saving /\ dialog'[d] = {} =>
          \A f \in DOMAIN form.uploads :
             \E id \in attached' \cap form.uploads[f].id :
                origin[id] = [pick |-> form.uploads[f].pick, file |-> f]
SavedIsAttached == [][AttachesChosen]_vars

(* Uploads of several users at the same time add to the contract, none     *)
(* takes away what another one attached.                                   *)
KeepsAttached ==
    attached \subseteq attached'
AttachmentsKept == [][KeepsAttached]_vars
=============================================================================
