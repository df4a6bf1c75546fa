------------------------------- MODULE MCWaits ------------------------------
(*****************************************************************************)
(* What a user or the next request waits for: each part has a spinner, a    *)
(* dialog, a document or a lock that must end. A behaviour is of one of     *)
(* them, which part names, and the variables of the others are not in use.  *)
(*****************************************************************************)
EXTENDS Integers

VARIABLES part,
    alive, clock, list, detail, loads, reads, writes, counts,
    doc, shown, pending, visible, timer, polls, retrying, disposed, pollCounts,
    payments, paymentList, paymentPage, paymentLoads, paymentForm, paymentDrafts,
    picked, strayed, saves, others, paymentCounts,
    signed, had, deposits, depositLists, depositsPage, depositLoads, depositForm, save,
    removals, depositCounts,
    accounts, ids, jar, tab, calls, fresh, clicks, faults,
    server, page, status, request, start, started, shellClicks, shellFaults,
    published, backend, attempt, container, late, services, healthy, attempts,
    updateFaults,
    stored, runs, lock, dirs, lastSuccess, containers, delayed, excused, day,
    backupFaults

UnitPage == INSTANCE UnitsPage WITH
    Units <- {1, 2}, PageSizes <- {1, 2}, Kinds <- {"remove"},
    MaxClicks <- 2, MaxWrites <- 1, MaxOthers <- 1, Faults <- TRUE

Polling == INSTANCE DocumentPolling WITH
    calls <- polls, counts <- pollCounts,
    Ids <- {"d1"}, MaxClicks <- 3, MaxFaults <- 1, MaxAttempts <- 1

Received == INSTANCE PaymentsPage WITH
    rows <- payments, list <- paymentList, page <- paymentPage, loads <- paymentLoads,
    form <- paymentForm, drafts <- paymentDrafts, counts <- paymentCounts,
    Payments <- {"p1", "p2"}, MaxVouchers <- 2, MaxClicks <- 4, MaxFaults <- 1

DepositDialog == INSTANCE DepositsPage WITH
    contracts <- signed, rows <- deposits, shown <- depositLists, page <- depositsPage,
    loads <- depositLoads, form <- depositForm, counts <- depositCounts,
    Units <- {"u1", "u2"}, Contracts <- {"c1", "c2"},
    Deposits <- {"d1", "d2"}, Patient <- FALSE, MaxClicks <- 3, MaxChanges <- 0, MaxFaults <- 1

Login == INSTANCE Session WITH
    Tabs <- {"t1", "t2"}, Usernames <- {"admin"}, Guarded <- {"units", "deposits"},
    Home <- "units", MaxIds <- 2, MaxClicks <- 4, MaxFaults <- 1

Shell == INSTANCE AppShellUpdate WITH
    clicks <- shellClicks, faults <- shellFaults,
    MaxClicks <- 4, MaxFaults <- 2, Overlaps <- FALSE

Update == INSTANCE DeploymentUpdate WITH
    faults <- updateFaults,
    MaxReleases <- 2, MaxAttempts <- 3, MaxFaults <- 3, StartsAnswer <- FALSE

Copying == INSTANCE Backup WITH
    late <- delayed, faults <- backupFaults,
    Files <- {}, KeepDays <- 1, MaxRuns <- 2, MaxDays <- 0, MaxFaults <- 1

ASSUME WaitsAssumption ==
    /\ UnitPage!UnitsAssumption /\ UnitPage!SizesAssumption /\ UnitPage!KindsAssumption
    /\ UnitPage!BoundsAssumption /\ Polling!BoundsAssumption /\ Received!BoundsAssumption
    /\ DepositDialog!BoundsAssumption
    /\ Login!HomeAssumption /\ Login!BoundsAssumption /\ Shell!BoundsAssumption
    /\ Update!BoundsAssumption /\ Copying!BoundsAssumption
-----------------------------------------------------------------------------
Unused(x) == x = "not in use"

unitVars == <<alive, clock, list, detail, loads, reads, writes, counts>>
pollingVars == <<doc, shown, pending, visible, timer, polls, retrying, disposed,
                 pollCounts>>
paymentsVars == <<payments, paymentList, paymentPage, paymentLoads, paymentForm,
                  paymentDrafts, picked, strayed, saves, others, paymentCounts>>
depositsVars == <<signed, had, deposits, depositLists, depositsPage, depositLoads,
                  depositForm, save, removals, depositCounts>>
sessionVars == <<accounts, ids, jar, tab, calls, fresh, clicks, faults>>
shellVars == <<server, page, status, request, start, started, shellClicks,
               shellFaults>>
updateVars == <<published, backend, attempt, container, late, services, healthy,
                attempts, updateFaults>>
backupVars == <<stored, runs, lock, dirs, lastSuccess, containers, delayed, excused,
                day, backupFaults>>

UnitUnused ==
    /\ Unused(alive) /\ Unused(clock) /\ Unused(list) /\ Unused(detail)
    /\ Unused(loads) /\ Unused(reads) /\ Unused(writes) /\ Unused(counts)
PollingUnused ==
    /\ Unused(doc) /\ Unused(shown) /\ Unused(pending) /\ Unused(visible)
    /\ Unused(timer) /\ Unused(polls) /\ Unused(retrying) /\ Unused(disposed)
    /\ Unused(pollCounts)
PaymentsUnused ==
    /\ Unused(payments) /\ Unused(paymentList) /\ Unused(paymentPage)
    /\ Unused(paymentLoads) /\ Unused(paymentForm) /\ Unused(paymentDrafts)
    /\ Unused(picked) /\ Unused(strayed) /\ Unused(saves)
    /\ Unused(others) /\ Unused(paymentCounts)
DepositsUnused ==
    /\ Unused(signed) /\ Unused(had) /\ Unused(deposits) /\ Unused(depositLists)
    /\ Unused(depositsPage) /\ Unused(depositLoads) /\ Unused(depositForm)
    /\ Unused(save) /\ Unused(removals) /\ Unused(depositCounts)
SessionUnused ==
    /\ Unused(accounts) /\ Unused(ids) /\ Unused(jar) /\ Unused(tab) /\ Unused(calls)
    /\ Unused(fresh) /\ Unused(clicks) /\ Unused(faults)
ShellUnused ==
    /\ Unused(server) /\ Unused(page) /\ Unused(status) /\ Unused(request)
    /\ Unused(start) /\ Unused(started) /\ Unused(shellClicks) /\ Unused(shellFaults)
UpdateUnused ==
    /\ Unused(published) /\ Unused(backend) /\ Unused(attempt) /\ Unused(container)
    /\ Unused(late) /\ Unused(services) /\ Unused(healthy) /\ Unused(attempts)
    /\ Unused(updateFaults)
BackupUnused ==
    /\ Unused(stored) /\ Unused(runs) /\ Unused(lock) /\ Unused(dirs)
    /\ Unused(lastSuccess) /\ Unused(containers) /\ Unused(delayed) /\ Unused(excused)
    /\ Unused(day) /\ Unused(backupFaults)

Parts == {"unit", "polling", "payments", "deposits", "session", "shell", "update",
          "backup"}

Init ==
    /\ part \in Parts
    /\ IF part = "unit" THEN UnitPage!Init ELSE UnitUnused
    /\ IF part = "polling" THEN Polling!Init ELSE PollingUnused
    /\ IF part = "payments" THEN Received!Init ELSE PaymentsUnused
    /\ IF part = "deposits" THEN DepositDialog!Init ELSE DepositsUnused
    /\ IF part = "session" THEN Login!Init ELSE SessionUnused
    /\ IF part = "shell" THEN Shell!Init ELSE ShellUnused
    /\ IF part = "update" THEN Update!Init ELSE UpdateUnused
    /\ IF part = "backup" THEN Copying!Init ELSE BackupUnused

Next ==
    \/ /\ part = "unit" /\ UnitPage!Next
       /\ UNCHANGED <<part, pollingVars, paymentsVars, depositsVars, sessionVars,
                      shellVars, updateVars, backupVars>>
    \/ /\ part = "polling" /\ Polling!Next
       /\ UNCHANGED <<part, unitVars, paymentsVars, depositsVars, sessionVars,
                      shellVars, updateVars, backupVars>>
    \/ /\ part = "payments" /\ Received!Next
       /\ UNCHANGED <<part, unitVars, pollingVars, depositsVars, sessionVars,
                      shellVars, updateVars, backupVars>>
    \/ /\ part = "deposits" /\ DepositDialog!Next
       /\ UNCHANGED <<part, unitVars, pollingVars, paymentsVars, sessionVars,
                      shellVars, updateVars, backupVars>>
    \/ /\ part = "session" /\ Login!Next
       /\ UNCHANGED <<part, unitVars, pollingVars, paymentsVars, depositsVars,
                      shellVars, updateVars, backupVars>>
    \/ /\ part = "shell" /\ Shell!Next
       /\ UNCHANGED <<part, unitVars, pollingVars, paymentsVars, depositsVars,
                      sessionVars, updateVars, backupVars>>
    \/ /\ part = "update" /\ Update!Next
       /\ UNCHANGED <<part, unitVars, pollingVars, paymentsVars, depositsVars,
                      sessionVars, shellVars, backupVars>>
    \/ /\ part = "backup" /\ Copying!Next
       /\ UNCHANGED <<part, unitVars, pollingVars, paymentsVars, depositsVars,
                      sessionVars, shellVars, updateVars>>

vars == <<part, unitVars, pollingVars, paymentsVars, depositsVars, sessionVars,
          shellVars, updateVars, backupVars>>

(***************************************************************************)
(* The fairness of each module, for the part it is of.                     *)
(***************************************************************************)
UnitFairness ==
    /\ WF_unitVars(part = "unit" /\ UnitPage!ServeLoad)
    /\ WF_unitVars(part = "unit" /\ UnitPage!LoadAnswered)
PollingFairness ==
    LET Serve == part = "polling" /\ \E c \in polls : Polling!Serve(c)
        ServeLatest == part = "polling" /\ \E c \in polls : c.latest /\ Polling!Serve(c)
        Answered == part = "polling" /\ \E c \in polls : Polling!Answered(c)
        AnsweredLatest == part = "polling" /\ \E c \in polls : c.latest /\ Polling!Answered(c)
    IN  /\ WF_pollingVars(part = "polling" /\ Polling!Generate)
        /\ WF_pollingVars(part = "polling" /\ Polling!TimerFires)
        /\ WF_pollingVars(Serve) /\ SF_pollingVars(ServeLatest)
        /\ WF_pollingVars(Answered) /\ SF_pollingVars(AnsweredLatest)
PaymentsFairness ==
    /\ WF_paymentsVars(part = "payments" /\ Received!Served)
    /\ WF_paymentsVars(part = "payments" /\ Received!Handled)
DepositsFairness ==
    /\ WF_depositsVars(part = "deposits" /\ DepositDialog!Served)
    /\ WF_depositsVars(part = "deposits" /\ DepositDialog!Handled)
    /\ WF_depositsVars(part = "deposits" /\ DepositDialog!SaveFails)
SessionFairness ==
    /\ WF_sessionVars(part = "session" /\ Login!Router)
    /\ WF_sessionVars(part = "session" /\ Login!Serve)
    /\ WF_sessionVars(part = "session" /\ Login!Handled)
ShellFairness ==
    /\ WF_shellVars(part = "shell" /\ Shell!TimerFires)
    /\ WF_shellVars(part = "shell" /\ Shell!Served)
    /\ WF_shellVars(part = "shell" /\ Shell!Handled)
    /\ WF_shellVars(part = "shell" /\ (Shell!StatusFails \/ Shell!StatusAnswered))
    /\ WF_shellVars(part = "shell" /\ (Shell!StartFails \/ Shell!StartAnswered))
    /\ WF_shellVars(part = "shell" /\ Shell!Backend)
UpdateFairness ==
    /\ WF_updateVars(part = "update" /\ (Update!Starting \/ Update!CallFails))
    /\ WF_updateVars(part = "update" /\ (Update!Script \/ Update!ScriptFails))
BackupFairness ==
    \A r \in Copying!Runs :
        /\ WF_backupVars(part = "backup" /\ Copying!Terminate(r))
        /\ WF_backupVars(part = "backup" /\ Copying!Killed(r))

Fairness ==
    /\ UnitFairness /\ PollingFairness /\ PaymentsFairness /\ DepositsFairness
    /\ SessionFairness /\ ShellFairness /\ UpdateFairness /\ BackupFairness

Spec == Init /\ [][Next]_vars /\ Fairness
-----------------------------------------------------------------------------
(* The conjuncts are the properties of the modules.                        *)

(* A list that nothing is loaded for shows the server's rows and the       *)
(* user's own changes, and a form is saved once.                           *)
OwnChangesHold ==
    /\ part = "unit" => /\ UnitPage!TypeOK
                        /\ UnitPage!QuietPageIsShown /\ UnitPage!ListFollowsOwnChanges
    /\ part = "payments" => Received!SavesOnce

(* Guarded pages are shown to users only, a tab opened since agrees with   *)
(* the backend, and a login leads to the page that was asked for.          *)
SessionHolds ==
    /\ [](part = "session" => Login!TypeOK /\ Login!FreshTabAgrees)
    /\ [][part = "session" => Login!GuardedByUser /\ Login!ReturnsToAsked]_sessionVars

(***************************************************************************)
(* An update is followed while it runs and not after the page was left; it *)
(* is called a success only when both services run its release, which was  *)
(* backed up before.                                                       *)
(***************************************************************************)
UpdatesHold ==
    /\ [](part = "shell" => Shell!TypeOK /\ Shell!FollowedIsPolled)
    /\ [](part = "update" => Update!SuccessIsDeployed)
    /\ [][part = "shell" => Shell!LeftAsksNothing]_shellVars
    /\ [][part = "update" => Update!UpgradesBackedUp]_updateVars

(***************************************************************************)
(* What is waited for ends, as SpinnerEnds, DialogComesBack, FirstPageShown*)
(* and DownloadsEnd say of the modules: there is a time when nobody waits, *)
(* however often it is asked for again, fails or is answered late.         *)
(***************************************************************************)
PageWaits ==
    CASE part = "unit"     -> list.loading
      [] part = "polling"  -> pending # {}
      [] part = "payments" -> paymentPage.loading /\ paymentPage.mounted
      [] part = "deposits" -> depositForm.submitting
      [] part = "session"  -> \E t \in DOMAIN tab : tab[t].open /\ tab[t].shown = {}
      [] OTHER             -> FALSE

\* An update that was started from a page is followed to its result (ResultIsShown there).
ResultWaits ==
    part = "shell" /\ page.mounted /\ started > 0
        /\ ~\E s \in status : ~s.running /\ s.update >= started

PageWaitsEnd == (PageWaits ~> ~PageWaits) /\ (ResultWaits ~> ~ResultWaits)

\* Starts, updates and backups end, whatever fails or hangs (StartEnds, UpdateEnds and
\* BackupEnds there), so that the next one is not refused for ever.
ServerWorks ==
    CASE part = "update" -> backend.starting \/ Update!Running(container)
      [] part = "backup" -> \E r \in DOMAIN runs : runs[r].step \in Copying!Alive
      [] OTHER           -> FALSE

ServerWorkEnds == ServerWorks ~> ~ServerWorks
=============================================================================
