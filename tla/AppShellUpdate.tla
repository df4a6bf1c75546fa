--------------------------- MODULE AppShellUpdate ---------------------------
(***************************************************************************)
(* The version dialog of AppShell.vue in one browser: the one status       *)
(* request that is under way at a time, the timer that repeats it, and the *)
(* start of an update. The backend is taken as what its status says of     *)
(* updates; how it runs them is in DeploymentUpdate.                       *)
(***************************************************************************)
EXTENDS Integers, FiniteSets

CONSTANTS
    MaxClicks,   \* bound on what the user does
    MaxFaults,   \* bound on the requests that fail or stall
    Overlaps     \* whether a start may be answered before a status that was read before it

BoundsAssumption == {MaxClicks, MaxFaults} \subseteq Nat /\ Overlaps \in BOOLEAN

VARIABLES
    server,     \* the last update, whether it runs, and whether the backend is up
    page,       \* the dialog, the flags of the page, the confirmation, the timer
    status,     \* the last status, if any: running, or the update it is a result of
    request,    \* the status request under way, if any, with its answer
    start,      \* the start under way, if any, with its answer
    started,    \* the last update that was answered to be started from this page
    clicks, faults

vars == <<server, page, status, request, start, started, clicks, faults>>

Init ==
    /\ server = [update |-> 0, running |-> FALSE, up |-> TRUE, replaced |-> FALSE]
    /\ page = [mounted |-> TRUE, dialog |-> FALSE, error |-> FALSE, starting |-> FALSE,
               refreshing |-> FALSE, confirming |-> FALSE, timer |-> FALSE]
    /\ status = {} /\ request = {[answer |-> {}]} /\ start = {} /\ started = 0
    /\ clicks = 0 /\ faults = 0

StatusRunning(known) == \E s \in known : s.running

(* clearTimeout, and a new timer if the page is to follow the update.      *)
\* Mutant: only the dialog is followed.
MutantScheduleStatusRefresh(p, known) == [p EXCEPT !.timer = p.mounted /\ p.dialog]

ScheduleStatusRefresh(p, known) ==
    [p EXCEPT !.timer = p.mounted /\ (p.dialog \/ StatusRunning(known))]

(* A request that is under way is waited for, and not made again; a page   *)
(* that was left makes none.                                               *)
\* Mutant: a page that was left still asks.
MutantLoadDeploymentUpdateStatus ==
    request' = IF request = {} THEN {[answer |-> {}]} ELSE request

LoadDeploymentUpdateStatus ==
    request' = IF page.mounted /\ request = {} THEN {[answer |-> {}]} ELSE request

RefreshDeploymentUpdateStatus(p) ==
    /\ LoadDeploymentUpdateStatus
    /\ page' = [p EXCEPT !.timer = FALSE, !.refreshing = p.mounted]

Click == page.mounted /\ clicks < MaxClicks /\ clicks' = clicks + 1
-----------------------------------------------------------------------------
OpenVersionDialog ==
    /\ ~page.dialog /\ ~page.confirming /\ Click
    /\ LoadDeploymentUpdateStatus
    /\ page' = ScheduleStatusRefresh([page EXCEPT !.dialog = TRUE, !.refreshing = TRUE], status)
    /\ UNCHANGED <<server, status, start, started, faults>>

CloseDialog ==
    /\ page.dialog /\ ~page.confirming /\ Click
    /\ page' = ScheduleStatusRefresh([page EXCEPT !.dialog = FALSE], status)
    /\ UNCHANGED <<server, status, request, start, started, faults>>

RefreshClick ==
    /\ page.dialog /\ ~page.confirming /\ ~page.refreshing /\ Click
    /\ RefreshDeploymentUpdateStatus(page)
    /\ UNCHANGED <<server, status, start, started, faults>>

TimerFires ==
    /\ page.timer
    /\ RefreshDeploymentUpdateStatus(page)
    /\ UNCHANGED <<server, status, start, started, clicks, faults>>

CanStartDeploymentUpdate ==
    status # {} /\ ~page.error /\ ~StatusRunning(status) /\ ~page.starting

HandleDeploymentUpdate ==
    /\ page.dialog /\ ~page.confirming /\ CanStartDeploymentUpdate /\ Click
    /\ page' = [page EXCEPT !.starting = TRUE, !.confirming = TRUE]
    /\ UNCHANGED <<server, status, request, start, started, faults>>

CancelUpdate ==
    /\ page.confirming
    /\ page' = [page EXCEPT !.starting = FALSE, !.confirming = FALSE]
    /\ UNCHANGED <<server, status, request, start, started, clicks, faults>>

ConfirmUpdate ==
    /\ page.confirming
    /\ page' = [page EXCEPT !.confirming = FALSE]
    /\ start' = {[answer |-> {}]}
    /\ UNCHANGED <<server, status, request, started, clicks, faults>>

(* Leaving stops the timer and aborts the requests, which then fail. The   *)
(* question whether to update stays.                                       *)
Leave ==
    /\ page.mounted
    /\ page' = [page EXCEPT !.mounted = FALSE, !.timer = FALSE, !.refreshing = FALSE]
    /\ UNCHANGED <<server, status, request, start, started, clicks, faults>>
-----------------------------------------------------------------------------
(* The backend: it says that an update runs, or gives the result of the    *)
(* last one; while it is replaced, once in an update, it does not answer.  *)
ServeStatus ==
    \E q \in request :
        /\ server.up /\ q.answer = {}
        /\ request' = {[answer |-> {[running |-> server.running, update |-> server.update]}]}
        /\ UNCHANGED <<server, page, status, start, started, clicks, faults>>

ServeStart ==
    \E c \in start :
        /\ server.up /\ c.answer = {}
        /\ start' = {[answer |-> {~server.running}]}
        /\ server' = IF server.running THEN server
                     ELSE [server EXCEPT !.update = @ + 1, !.running = TRUE, !.replaced = FALSE]
        /\ UNCHANGED <<page, status, request, started, clicks, faults>>

Replaced ==
    /\ server.running /\ ~server.replaced
    /\ server' = [server EXCEPT !.up = FALSE, !.replaced = TRUE]
    /\ UNCHANGED <<page, status, request, start, started, clicks, faults>>

ComesUp ==
    /\ ~server.up
    /\ server' = [server EXCEPT !.up = TRUE]
    /\ UNCHANGED <<page, status, request, start, started, clicks, faults>>

UpdateEnds ==
    /\ server.up /\ server.running
    /\ server' = [server EXCEPT !.running = FALSE]
    /\ UNCHANGED <<page, status, request, start, started, clicks, faults>>
-----------------------------------------------------------------------------
(* The end of a status request plans the next one.                         *)
StatusEnds(p, known) ==
    /\ request' = {}
    /\ page' = ScheduleStatusRefresh([p EXCEPT !.refreshing = FALSE], known)

StatusAnswered ==
    \E q \in request : \E s \in q.answer :
        /\ page.mounted
        /\ status' = {s}
        /\ StatusEnds([page EXCEPT !.error = FALSE], {s})
        /\ UNCHANGED <<server, start, started, clicks, faults>>

(* The backend is down, or the request stalls and is aborted after its     *)
(* time.                                                                   *)
\* Mutant: a request that failed does not plan the next one.
MutantStatusFails ==
    \E q \in request :
        /\ \/ (~server.up \/ ~page.mounted) /\ UNCHANGED faults
           \/ faults < MaxFaults /\ faults' = faults + 1
        /\ request' = {}
        /\ page' = [page EXCEPT !.error = TRUE, !.refreshing = FALSE]
        /\ UNCHANGED <<server, status, start, started, clicks>>

StatusFails ==
    \E q \in request :
        /\ \/ (~server.up \/ ~page.mounted) /\ UNCHANGED faults
           \/ faults < MaxFaults /\ faults' = faults + 1
        /\ StatusEnds([page EXCEPT !.error = TRUE], status)
        /\ UNCHANGED <<server, status, start, started, clicks>>

(* A start that was accepted shows as running at once; then, as after one  *)
(* that failed, the status is asked for.                                   *)
Current(requests) == \A q \in requests : \A s \in q.answer : s.update = server.update

StartAnswered ==
    \E c \in start : \E accepted \in c.answer :
        /\ Overlaps \/ Current(request)
        /\ start' = {}
        /\ status' = IF accepted THEN {[s EXCEPT !.running = TRUE] : s \in status} ELSE status
        /\ started' = IF accepted THEN server.update ELSE started
        /\ RefreshDeploymentUpdateStatus([page EXCEPT !.starting = FALSE])
        /\ UNCHANGED <<server, clicks, faults>>

StartFails ==
    \E c \in start :
        /\ \/ (~server.up \/ ~page.mounted) /\ UNCHANGED faults
           \/ faults < MaxFaults /\ faults' = faults + 1
        /\ start' = {}
        /\ RefreshDeploymentUpdateStatus([page EXCEPT !.starting = FALSE])
        /\ UNCHANGED <<server, status, started, clicks>>

User ==
    \/ OpenVersionDialog \/ CloseDialog \/ RefreshClick
    \/ HandleDeploymentUpdate \/ CancelUpdate \/ ConfirmUpdate \/ Leave
Served == ServeStatus \/ ServeStart
Handled == StatusAnswered \/ StartAnswered
Backend == ComesUp \/ UpdateEnds

Next ==
    \/ User \/ TimerFires \/ Served \/ Handled \/ Backend \/ Replaced
    \/ StatusFails \/ StartFails

(* The browser's timer fires and its requests end, answered or aborted;    *)
(* the backend comes up again and updates end, as DeploymentUpdate shows.  *)
Fairness ==
    /\ WF_vars(TimerFires) /\ WF_vars(Served) /\ WF_vars(Handled)
    /\ WF_vars(StatusFails \/ StatusAnswered) /\ WF_vars(StartFails \/ StartAnswered)
    /\ WF_vars(Backend)

Spec == Init /\ [][Next]_vars /\ Fairness
-----------------------------------------------------------------------------
TypeOK ==
    /\ server.update \in Nat /\ server.up \in BOOLEAN /\ server.running \in BOOLEAN
    /\ Cardinality(request) <= 1 /\ Cardinality(start) <= 1 /\ Cardinality(status) <= 1
    /\ page.refreshing => request # {}
    /\ page.starting <=> page.confirming \/ start # {}

(* As long as the dialog is open or an update is known to run, the next    *)
(* status is planned or being asked for, also after a failure              *)
(* ("aborts a stalled status request and retries after the timeout").      *)
FollowedIsPolled ==
    page.mounted /\ (page.dialog \/ StatusRunning(status)) => page.timer \/ request # {}

(* A page that was left asks for nothing any more, however its requests    *)
(* end ("cancels polling on unmount").                                     *)
LeftAsksNothing ==
    ~page.mounted => ~page'.timer /\ (request = {} => request' = {})
NothingAfterLeaving == [][LeftAsksNothing]_vars

(* An update that was started here is followed to its result, with the     *)
(* dialog open or closed                                                   *)
(* ("continues polling an update after closing the version dialog").       *)
ResultIsShown ==
    \A n \in 1..MaxClicks :
        started = n ~> \/ ~page.mounted
                       \/ \E s \in status : ~s.running /\ s.update >= n
=============================================================================
