--------------------------- MODULE DocumentPolling ---------------------------
(***************************************************************************)
(* How the browser follows the generation of contract documents, and       *)
(* downloads one once it is ready: useContractDocuments.ts. Three kinds of *)
(* calls ask about a document - the refresh of a batch, a click on         *)
(* "download" and a retry - and an answer counts only if its call is the   *)
(* last one begun for the document: "latest" stands for the comparison of  *)
(* the sequence numbers.                                                   *)
(*                                                                         *)
(* The backend is the queue of ContractDocumentQueue, seen from outside: a *)
(* document waits, is generated, is ready or has failed, and a retry makes *)
(* a failed one wait again and counts an attempt.                          *)
(***************************************************************************)
EXTENDS Integers, FiniteSets

CONSTANTS
    Ids,         \* the contracts
    MaxClicks,   \* bound on what the user does
    MaxFaults,   \* bound on the calls that fail
    MaxAttempts  \* bound on the attempts at one document

BoundsAssumption == {MaxClicks, MaxFaults, MaxAttempts} \subseteq Nat

VARIABLES
    doc,       \* the state of each document on the server, and its attempt
    shown,     \* the state shown, the attempt it is of, and whether an error is shown
    pending,   \* the documents that are to be downloaded once they are ready
    visible,   \* the documents in the table
    timer,     \* the documents the next poll asks for, {} if none is planned
    calls,     \* the calls under way
    retrying,  \* the documents whose retry is under way
    disposed,  \* whether the page was left
    counts     \* clicks and faults, against the bounds

vars == <<doc, shown, pending, visible, timer, calls, retrying, disposed, counts>>

Waiting == {"pending", "processing"}

Init ==
    /\ doc \in [Ids -> [state : {"pending", "failed"}, attempt : {0}]]
    /\ shown = [id \in Ids |-> [state |-> "none", attempt |-> 0, error |-> FALSE]]
    /\ pending = {} /\ visible = {} /\ timer = {} /\ calls = {} /\ retrying = {}
    /\ disposed = FALSE
    /\ counts = [clicks |-> 0, faults |-> 0]
-----------------------------------------------------------------------------
(***************************************************************************)
(* The parts of the composable.                                            *)
(***************************************************************************)
\* A call for a document makes every earlier one for it stale.
NextRequest(ids) == {[c EXCEPT !.latest = @ /\ c.id \notin ids] : c \in calls}

NewCall(kind, id, batch) ==
    [kind |-> kind, id |-> id, batch |-> batch, latest |-> TRUE, answer |-> {}]

Batch == CHOOSE n \in 1 .. Cardinality(calls) + 1 : \A c \in calls : c.batch # n

Refresh(ids) ==
    calls' = NextRequest(ids) \cup {NewCall("status", id, Batch) : id \in ids}

Shown(id, answer) ==
    [shown EXCEPT ![id] = [state |-> answer.state, attempt |-> answer.attempt, error |-> FALSE]]

\* A document that is ready is downloaded, for one that failed the user is told.
AcceptStatus(id, answer, downloads) ==
    /\ shown' = Shown(id, answer)
    /\ pending' = IF answer.state \in Waiting THEN downloads ELSE downloads \ {id}

\* Mutant: only the documents in the table are polled.
MutantSchedulePoll ==
    timer' = IF disposed' THEN {} ELSE {id \in visible' : shown'[id].state \in Waiting}

SchedulePoll ==
    timer' = IF disposed' THEN {}
             ELSE {id \in visible' \cup pending' : shown'[id].state \in Waiting}
-----------------------------------------------------------------------------
(***************************************************************************)
(* The user and the timer.                                                 *)
(***************************************************************************)
Click ==
    /\ ~disposed /\ counts.clicks < MaxClicks
    /\ counts' = [counts EXCEPT !.clicks = @ + 1]

Track ==
    \E ids \in SUBSET Ids :
        /\ ids # visible /\ Click
        /\ visible' = ids
        /\ UNCHANGED <<doc, shown, pending, retrying, disposed>>
        /\ \/ ids # {} /\ Refresh(ids) /\ timer' = {}
           \/ ids = {} /\ SchedulePoll /\ UNCHANGED calls

RefreshOne ==
    \E id \in visible :
        /\ shown[id].error /\ Click
        /\ Refresh({id})
        /\ UNCHANGED <<doc, shown, pending, visible, timer, retrying, disposed>>

TimerFires ==
    /\ timer # {}
    /\ Refresh(timer)
    /\ timer' = {}
    /\ UNCHANGED <<doc, shown, pending, visible, retrying, disposed, counts>>

(* Also of a contract that was just saved, in the table or not. The button *)
(* of a row is off while its download is the last one of all rows, so one  *)
(* document may be asked for again before the first call is answered.      *)
Download ==
    \E id \in Ids :
        /\ Click
        /\ calls' = NextRequest({id}) \cup {NewCall("download", id, Batch)}
        /\ UNCHANGED <<doc, shown, pending, visible, timer, retrying, disposed>>

Retry ==
    \E id \in visible \ retrying :
        /\ shown[id].state = "failed" /\ Click
        /\ retrying' = retrying \cup {id}
        /\ calls' = NextRequest({id}) \cup {NewCall("retry", id, 0)}
        /\ UNCHANGED <<doc, shown, pending, visible, timer, disposed>>

Dispose ==
    /\ ~disposed
    /\ disposed' = TRUE
    /\ timer' = {} /\ pending' = {}
    /\ UNCHANGED <<doc, shown, visible, calls, retrying, counts>>
-----------------------------------------------------------------------------
(***************************************************************************)
(* The server.                                                             *)
(***************************************************************************)
Generate ==
    \E id \in Ids :
        /\ \/ doc[id].state = "pending" /\ doc' = [doc EXCEPT ![id].state = "processing"]
           \/ /\ doc[id].state = "processing"
              /\ \E end \in {"ready", "failed"} : doc' = [doc EXCEPT ![id].state = end]
        /\ UNCHANGED <<shown, pending, visible, timer, calls, retrying, disposed, counts>>

Serve(c) ==
    /\ c.answer = {}
    /\ doc' = IF c.kind = "retry" /\ doc[c.id].state = "failed"
              THEN [doc EXCEPT ![c.id] = [state |-> "pending", attempt |-> @.attempt + 1]]
              ELSE doc
    /\ doc'[c.id].attempt <= MaxAttempts
    /\ calls' = (calls \ {c}) \cup {[c EXCEPT !.answer = {doc'[c.id]}]}
    /\ UNCHANGED <<shown, pending, visible, timer, retrying, disposed, counts>>
-----------------------------------------------------------------------------
(***************************************************************************)
(* Answers. The poll is planned again when the last call of a batch ended. *)
(***************************************************************************)
BatchEnds(c) ==
    IF \E other \in calls \ {c} : other.kind = "status" /\ other.batch = c.batch
    THEN UNCHANGED timer ELSE SchedulePoll

\* Mutant: the answer of a poll is shown also when a later call was begun.
MutantStatusAnswered(c) ==
    \E answer \in c.answer :
        /\ c.kind = "status"
        /\ calls' = calls \ {c}
        /\ IF ~disposed
           THEN AcceptStatus(c.id, answer, pending) ELSE UNCHANGED <<shown, pending>>
        /\ UNCHANGED <<doc, visible, retrying, disposed, counts>>
        /\ BatchEnds(c)

StatusAnswered(c) ==
    \E answer \in c.answer :
        /\ c.kind = "status"
        /\ calls' = calls \ {c}
        /\ IF c.latest /\ ~disposed
           THEN AcceptStatus(c.id, answer, pending) ELSE UNCHANGED <<shown, pending>>
        /\ UNCHANGED <<doc, visible, retrying, disposed, counts>>
        /\ BatchEnds(c)

(* A click whose call is no longer the latest goes by the state shown.     *)
\* Mutant: an answer that comes after the page was left is used.
MutantDownloadAnswered(c) ==
    \E answer \in c.answer :
        /\ c.kind = "download"
        /\ calls' = calls \ {c}
        /\ UNCHANGED <<doc, visible, retrying, disposed, counts>>
        /\ AcceptStatus(c.id, answer, pending \cup {c.id})
        /\ SchedulePoll

DownloadAnswered(c) ==
    \E answer \in c.answer :
        /\ c.kind = "download"
        /\ calls' = calls \ {c}
        /\ UNCHANGED <<doc, visible, retrying, disposed, counts>>
        /\ IF disposed THEN UNCHANGED <<shown, pending, timer>>
           ELSE LET known == IF ~c.latest /\ shown[c.id].state # "none"
                             THEN [state |-> shown[c.id].state, attempt |-> shown[c.id].attempt]
                             ELSE answer
                IN  AcceptStatus(c.id, known, pending \cup {c.id}) /\ SchedulePoll

RetryAnswered(c) ==
    \E answer \in c.answer :
        /\ c.kind = "retry"
        /\ calls' = calls \ {c}
        /\ retrying' = retrying \ {c.id}
        /\ IF c.latest /\ ~disposed
           THEN AcceptStatus(c.id, answer, pending) ELSE UNCHANGED <<shown, pending>>
        /\ UNCHANGED <<doc, visible, disposed, counts>>
        /\ SchedulePoll

Fault == counts.faults < MaxFaults /\ counts' = [counts EXCEPT !.faults = @ + 1]

\* Mutant: a poll that fails is not followed by another.
MutantStatusFails ==
    \E c \in calls :
        /\ c.kind = "status" /\ Fault
        /\ calls' = calls \ {c}
        /\ shown' = IF c.latest /\ ~disposed THEN [shown EXCEPT ![c.id].error = TRUE] ELSE shown
        /\ UNCHANGED <<doc, pending, visible, timer, retrying, disposed>>

StatusFails ==
    \E c \in calls :
        /\ c.kind = "status" /\ Fault
        /\ calls' = calls \ {c}
        /\ shown' = IF c.latest /\ ~disposed THEN [shown EXCEPT ![c.id].error = TRUE] ELSE shown
        /\ UNCHANGED <<doc, pending, visible, retrying, disposed>>
        /\ BatchEnds(c)

(* A click or a retry that fails is only reported.                         *)
ClickFails ==
    \E c \in calls :
        /\ c.kind \in {"download", "retry"} /\ Fault
        /\ calls' = calls \ {c}
        /\ retrying' = IF c.kind = "retry" THEN retrying \ {c.id} ELSE retrying
        /\ UNCHANGED <<doc, shown, pending, visible, timer, disposed>>
-----------------------------------------------------------------------------
Answered(c) == StatusAnswered(c) \/ DownloadAnswered(c) \/ RetryAnswered(c)

Next ==
    \/ Track \/ RefreshOne \/ TimerFires \/ Download \/ Retry \/ Dispose
    \/ Generate
    \/ \E c \in calls : Serve(c) \/ Answered(c)
    \/ StatusFails \/ ClickFails

(* The server generates, the timer of the browser fires, every call is     *)
(* served and every answer is handled. Two polls can be under way at once, *)
(* one of them stale, and if every poll took longer than the two seconds   *)
(* between them each could be overtaken by the next: strong fairness says  *)
(* that this does not go on for ever.                                      *)
Fairness ==
    /\ WF_vars(Generate) /\ WF_vars(TimerFires)
    /\ WF_vars(\E c \in calls : Serve(c)) /\ SF_vars(\E c \in calls : c.latest /\ Serve(c))
    /\ WF_vars(\E c \in calls : Answered(c)) /\ SF_vars(\E c \in calls : c.latest /\ Answered(c))

Spec == Init /\ [][Next]_vars /\ Fairness
-----------------------------------------------------------------------------
TypeOK ==
    /\ pending \cup visible \cup timer \cup retrying \subseteq Ids
    /\ \A id \in Ids :
          /\ shown[id].state \in Waiting \cup {"none", "ready", "failed"}
          /\ shown[id].attempt <= doc[id].attempt
          /\ Cardinality({c \in calls : c.id = id /\ c.latest}) <= 1
          /\ id \in retrying <=> \E c \in calls : c.kind = "retry" /\ c.id = id

(* A document that is to be downloaded is followed until it is ready or    *)
(* has failed: it is shown as waiting, and a poll that asks for it is      *)
(* planned or a poll is under way whose end plans one - also after the     *)
(* dialog with its row was closed, and after polls that failed.            *)
DownloadsArePolled ==
    \A id \in pending :
        /\ shown[id].state \in Waiting
        /\ id \in timer \/ \E c \in calls : c.kind = "status"

(* Once the page was left nothing is downloaded and nothing is polled.     *)
NothingAfterLeaving == disposed => pending = {} /\ timer = {}

(* The state shown never goes back to an attempt before the last retry     *)
(* that was shown ("discards a stale status request after retrying").      *)
ShownGoesOn ==
    \A id \in Ids : shown'[id].attempt >= shown[id].attempt
ShownNeverGoesBack == [][ShownGoesOn]_vars

(* A download that waits for its document ends: it is started, its failure *)
(* is reported, or the page is left.                                       *)
DownloadsEnd == \A id \in Ids : id \in pending ~> id \notin pending

(* Every document in the table comes to show a state or an error.          *)
(* It does not hold: a click that fails drops the answer of the lookup.    *)
VisibleIsShown ==
    \A id \in Ids :
        id \in visible ~> shown[id].state # "none" \/ shown[id].error \/ id \notin visible
                            \/ disposed
=============================================================================
