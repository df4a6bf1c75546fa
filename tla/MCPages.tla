------------------------------ MODULE MCPages ------------------------------
(***************************************************************************)
(* The pages of one browser. The router shows one page at a time, and each *)
(* keeps nothing when it is left: a behaviour is of one of them, which     *)
(* "part" names, and the variables of the others are not in use.           *)
(***************************************************************************)
EXTENDS Integers

CONSTANTS
    Documents, PollClicks, PollFaults, PollAttempts,  \* of DocumentPolling
    ChargeContracts, ChargeRecords,                   \* of UtilitiesPage
    ChargeClicks, FailingClicks, FailingFaults,
    Payments, Vouchers, PaymentClicks,                \* of PaymentsPage
    DialogRows, DialogDrafts,                         \* of ContractDialog
    HastyRows, HastyDrafts,
    Entries, DepositClicks, DepositChanges,           \* of DepositsPage
    ListedUnits, UnitClicks, UnitWrites,              \* of UnitsPage
    Debtors, RentYears,                               \* of ReconciliationPage
    LedgerClicks, LedgerChanges, LedgerFaults

VARIABLES part,
    alive, clock, list, detail, loads, reads, writes, counts,
    units, contracts, selected, dialog, unitDialog, saving, drafts, log,
    latest, contractForm, hand,
    doc, shown, pending, visible, timer, polls, retrying, disposed, pollCounts,
    charges, chargeList, chargeForm, payment, requests, proofs, chargeCounts,
    payments, paymentList, paymentPage, paymentLoads, paymentForm, paymentDrafts, picked,
    strayed, saves, others, paymentCounts,
    age, year, keyword, tenant, ledgers, options, ledger, saved, sequence, busy, calls,
    mounted, clicks, faults,
    signed, had, deposits, depositLists, depositsPage, depositLoads, depositForm, save,
    removals, depositCounts

Unit == INSTANCE UnitsPage WITH
    Units <- ListedUnits, PageSizes <- {2},
    MaxClicks <- UnitClicks, MaxWrites <- UnitWrites, MaxOthers <- 0,
    Kinds <- {"open", "update", "contract", "removeContract", "meter", "removeMeter", "remove"},
    Faults <- FALSE

PatientUser == INSTANCE ContractDialog WITH
    rows <- contracts, Units <- {"u1", "u2", "u3"}, FirstRows <- <<"u1", "u2">>,
    MaxRows <- DialogRows, MaxDrafts <- DialogDrafts, Patient <- TRUE, Faults <- TRUE

HastyUser == INSTANCE ContractDialog WITH
    rows <- contracts, Units <- {"u1", "u2", "u3"}, FirstRows <- <<"u1">>,
    MaxRows <- HastyRows, MaxDrafts <- HastyDrafts, Patient <- FALSE, Faults <- FALSE

\* First days around the ends of short months, of leap years and of years.
Dates == INSTANCE ContractDefaults WITH
    form <- contractForm,
    Starts <- {20230301, 20230831, 20231231, 20240131, 20240229},
    Rents <- {120000}, Contacts <- {"", "a"}, Horizon <- 20260401, MaxEdits <- 3

Terms == INSTANCE ContractDefaults WITH
    form <- contractForm, Starts <- {20240229}, Rents <- {100006, 5000000},
    Contacts <- {"", "a", "b"}, Horizon <- 20250801, MaxEdits <- 4

Polling == INSTANCE DocumentPolling WITH
    calls <- polls, counts <- pollCounts,
    Ids <- Documents, MaxClicks <- PollClicks, MaxFaults <- PollFaults, MaxAttempts <- PollAttempts

Charges == INSTANCE UtilitiesPage WITH
    rows <- charges, list <- chargeList, form <- chargeForm, calls <- requests,
    picked <- proofs, counts <- chargeCounts,
    Contracts <- ChargeContracts, Records <- ChargeRecords,
    MaxClicks <- ChargeClicks, MaxFaults <- 0

FailedCharges == INSTANCE UtilitiesPage WITH
    rows <- charges, list <- chargeList, form <- chargeForm, calls <- requests,
    picked <- proofs, counts <- chargeCounts,
    Contracts <- ChargeContracts, Records <- ChargeRecords,
    MaxClicks <- FailingClicks, MaxFaults <- FailingFaults

Received == INSTANCE PaymentsPage WITH
    rows <- payments, list <- paymentList, page <- paymentPage, loads <- paymentLoads,
    form <- paymentForm, drafts <- paymentDrafts, counts <- paymentCounts,
    MaxVouchers <- Vouchers, MaxClicks <- PaymentClicks, MaxFaults <- 0

Ledger == INSTANCE ReconciliationPage WITH
    selected <- tenant, list <- ledgers, detail <- ledger,
    Tenants <- Debtors, Years <- RentYears,
    MaxClicks <- LedgerClicks, MaxAge <- LedgerChanges, MaxFaults <- LedgerFaults

DepositDialog == INSTANCE DepositsPage WITH
    contracts <- signed, rows <- deposits, shown <- depositLists, page <- depositsPage,
    loads <- depositLoads, form <- depositForm, counts <- depositCounts,
    Units <- {"u1", "u2"}, Contracts <- {"c1", "c2"},
    Deposits <- Entries, Patient <- TRUE,
    MaxClicks <- DepositClicks, MaxChanges <- DepositChanges, MaxFaults <- 0

ASSUME PagesAssumption ==
    /\ Unit!UnitsAssumption /\ Unit!SizesAssumption /\ Unit!KindsAssumption /\ Unit!BoundsAssumption
    /\ PatientUser!MaxRowsAssumption /\ PatientUser!RowsAssumption /\ PatientUser!OtherAssumption
    /\ HastyUser!MaxRowsAssumption /\ HastyUser!RowsAssumption /\ HastyUser!OtherAssumption
    /\ Dates!NamesAssumption /\ Dates!RentsAssumption /\ Dates!BoundsAssumption
    /\ Terms!NamesAssumption /\ Terms!RentsAssumption /\ Terms!BoundsAssumption
    /\ Polling!BoundsAssumption /\ Charges!BoundsAssumption /\ FailedCharges!BoundsAssumption
    /\ Received!BoundsAssumption
    /\ Ledger!BoundsAssumption /\ DepositDialog!BoundsAssumption
-----------------------------------------------------------------------------
Unused(x) == x = "not in use"

unitVars == <<alive, clock, list, detail, loads, reads, writes, counts>>
dialogVars == <<units, contracts, selected, dialog, unitDialog, saving, drafts,
                log>>
formVars == <<latest, contractForm, hand>>
pollingVars == <<doc, shown, pending, visible, timer, polls, retrying, disposed,
                 pollCounts>>
chargesVars == <<charges, chargeList, chargeForm, payment, requests, proofs,
                 chargeCounts>>
paymentsVars == <<payments, paymentList, paymentPage, paymentLoads, paymentForm,
                  paymentDrafts, picked, strayed, saves, others, paymentCounts>>
ledgerVars == <<age, year, keyword, tenant, ledgers, options, ledger, saved,
                sequence, busy, calls, mounted, clicks, faults>>
depositsVars == <<signed, had, deposits, depositLists, depositsPage, depositLoads,
                  depositForm, save, removals, depositCounts>>

UnitUnused ==
    /\ Unused(alive) /\ Unused(clock) /\ Unused(list) /\ Unused(detail)
    /\ Unused(loads) /\ Unused(reads) /\ Unused(writes) /\ Unused(counts)
DialogUnused ==
    /\ Unused(units) /\ Unused(contracts) /\ Unused(selected) /\ Unused(dialog)
    /\ Unused(unitDialog) /\ Unused(saving) /\ Unused(drafts) /\ Unused(log)
FormUnused ==
    /\ Unused(latest) /\ Unused(contractForm) /\ Unused(hand)
PollingUnused ==
    /\ Unused(doc) /\ Unused(shown) /\ Unused(pending) /\ Unused(visible)
    /\ Unused(timer) /\ Unused(polls) /\ Unused(retrying) /\ Unused(disposed)
    /\ Unused(pollCounts)
ChargesUnused ==
    /\ Unused(charges) /\ Unused(chargeList) /\ Unused(chargeForm) /\ Unused(payment)
    /\ Unused(requests) /\ Unused(proofs) /\ Unused(chargeCounts)
PaymentsUnused ==
    /\ Unused(payments) /\ Unused(paymentList) /\ Unused(paymentPage) /\ Unused(paymentLoads)
    /\ Unused(paymentForm) /\ Unused(paymentDrafts) /\ Unused(picked) /\ Unused(strayed)
    /\ Unused(saves) /\ Unused(others) /\ Unused(paymentCounts)
LedgerUnused ==
    /\ Unused(age) /\ Unused(year) /\ Unused(keyword) /\ Unused(tenant)
    /\ Unused(ledgers) /\ Unused(options) /\ Unused(ledger) /\ Unused(saved)
    /\ Unused(sequence) /\ Unused(busy) /\ Unused(calls) /\ Unused(mounted)
    /\ Unused(clicks) /\ Unused(faults)
DepositsUnused ==
    /\ Unused(signed) /\ Unused(had) /\ Unused(deposits) /\ Unused(depositLists)
    /\ Unused(depositsPage) /\ Unused(depositLoads) /\ Unused(depositForm)
    /\ Unused(save) /\ Unused(removals) /\ Unused(depositCounts)

Parts == {"unit", "patient", "hasty", "dates", "terms", "polling", "charges", "failing",
          "payments", "ledger", "deposits"}

Init ==
    /\ part \in Parts
    /\ IF part = "unit" THEN Unit!Init ELSE UnitUnused
    /\ CASE part = "patient" -> PatientUser!Init
         [] part = "hasty"   -> HastyUser!Init
         [] OTHER            -> DialogUnused
    /\ IF part \in {"dates", "terms"} THEN Dates!Init ELSE FormUnused
    /\ IF part = "polling" THEN Polling!Init ELSE PollingUnused
    /\ IF part \in {"charges", "failing"} THEN Charges!Init ELSE ChargesUnused
    /\ IF part = "payments" THEN Received!Init ELSE PaymentsUnused
    /\ IF part = "ledger" THEN Ledger!Init ELSE LedgerUnused
    /\ IF part = "deposits" THEN DepositDialog!Init ELSE DepositsUnused

Next ==
    \/ /\ part = "unit" /\ Unit!Next
       /\ UNCHANGED <<part, dialogVars, formVars, pollingVars, chargesVars,
                      paymentsVars, ledgerVars, depositsVars>>
    \/ /\ part = "patient" /\ PatientUser!Next
       /\ UNCHANGED <<part, unitVars, formVars, pollingVars, chargesVars,
                      paymentsVars, ledgerVars, depositsVars>>
    \/ /\ part = "hasty" /\ HastyUser!Next
       /\ UNCHANGED <<part, unitVars, formVars, pollingVars, chargesVars,
                      paymentsVars, ledgerVars, depositsVars>>
    \/ /\ part = "dates" /\ Dates!Next
       /\ UNCHANGED <<part, unitVars, dialogVars, pollingVars, chargesVars,
                      paymentsVars, ledgerVars, depositsVars>>
    \/ /\ part = "terms" /\ Terms!Next
       /\ UNCHANGED <<part, unitVars, dialogVars, pollingVars, chargesVars,
                      paymentsVars, ledgerVars, depositsVars>>
    \/ /\ part = "polling" /\ Polling!Next
       /\ UNCHANGED <<part, unitVars, dialogVars, formVars, chargesVars,
                      paymentsVars, ledgerVars, depositsVars>>
    \/ /\ part = "charges" /\ Charges!Next
       /\ UNCHANGED <<part, unitVars, dialogVars, formVars, pollingVars,
                      paymentsVars, ledgerVars, depositsVars>>
    \/ /\ part = "failing" /\ FailedCharges!Next
       /\ UNCHANGED <<part, unitVars, dialogVars, formVars, pollingVars,
                      paymentsVars, ledgerVars, depositsVars>>
    \/ /\ part = "payments" /\ Received!Next
       /\ UNCHANGED <<part, unitVars, dialogVars, formVars, pollingVars,
                      chargesVars, ledgerVars, depositsVars>>
    \/ /\ part = "ledger" /\ Ledger!Next
       /\ UNCHANGED <<part, unitVars, dialogVars, formVars, pollingVars,
                      chargesVars, paymentsVars, depositsVars>>
    \/ /\ part = "deposits" /\ DepositDialog!Next
       /\ UNCHANGED <<part, unitVars, dialogVars, formVars, pollingVars,
                      chargesVars, paymentsVars, ledgerVars>>

vars == <<part, unitVars, dialogVars, formVars, pollingVars, chargesVars,
          paymentsVars, ledgerVars, depositsVars>>

Spec == Init /\ [][Next]_vars
-----------------------------------------------------------------------------
(* The conjuncts are the properties of the modules.                        *)

(***************************************************************************)
(* Late answers lose: once nothing is under way a list is the server's,    *)
(* details and the PDF are those of what is selected, and neither a list,  *)
(* a detail nor the state of a document is replaced with an older one.     *)
(***************************************************************************)
LateAnswersLose ==
    /\ [](part = "payments" => Received!QuietListIsCurrent)
    /\ [](part = "deposits" => DepositDialog!QuietListsAreCurrent)
    /\ [](part = "ledger" => Ledger!TypeOK /\ Ledger!DetailIsOfSelected /\ Ledger!PdfIsOfDetail)
    /\ [][part = "ledger" => Ledger!ListGoesOn /\ Ledger!LeftUntouched]_ledgerVars
    /\ [][part = "unit" => Unit!DetailGoesOn]_unitVars
    /\ [][part = "polling" => Polling!ShownGoesOn]_pollingVars

(***************************************************************************)
(* A contract and a unit are saved as they were submitted, once, though    *)
(* uploads take time and half of a save may have failed. A deposit is      *)
(* saved under the unit that its dialog showed, unless its contract was    *)
(* moved from one of the two to the other, by a user who leaves the dialog *)
(* alone while it is saved.                                                *)
(***************************************************************************)
SavedAsShown ==
    /\ part = "patient" => /\ PatientUser!TypeOK
                           /\ PatientUser!SavedAsSubmitted /\ PatientUser!OneContractPerForm
    /\ part = "hasty" => HastyUser!FirstContractOnItsUnit
    /\ part = "deposits" => DepositDialog!TypeOK /\ DepositDialog!SavedUnderItsUnit

(* What the contract form fills in and previews is what the backend makes  *)
(* of it, and does not overwrite what was saved or entered by hand.        *)
FilledInRight ==
    /\ part = "dates" => /\ Dates!DefaultLeaseIsOneInstalment
                         /\ Dates!RenewalFollows /\ Dates!PreviewAgrees
    /\ part = "terms" => Terms!PenaltyFollowsRent /\ Terms!SavedManagerKept

(* What is downloaded is polled for as long as the page is there.          *)
DownloadsArePolled ==
    part = "polling" =>
        Polling!TypeOK /\ Polling!DownloadsArePolled /\ Polling!NothingAfterLeaving

(***************************************************************************)
(* Bills keep the vouchers of their dialog and are paid once, with dialogs *)
(* closed and opened while pictures are uploaded. Payments keep those of   *)
(* theirs with their dialog closed meanwhile, whatever is removed, loaded  *)
(* or refused; a picture during whose upload a dialog was opened again     *)
(* (strayed) is saved with what that one was opened for.                   *)
(***************************************************************************)
VouchersStay ==
    /\ part \in {"charges", "failing"} => Charges!RecordsConsistent /\ Charges!PaysOnce
    /\ part = "charges" => Charges!TypeOK /\ Charges!VouchersOfTheirRecord
    /\ part = "payments" => Received!TypeOK /\ Received!VouchersOfTheirPayment
=============================================================================
