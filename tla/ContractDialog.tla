--------------------------- MODULE ContractDialog ---------------------------
(***************************************************************************)
(* The two forms of UnitsView.vue that save a contract: the dialog of one  *)
(* contract (saveContract), and the dialog of a new unit with its first    *)
(* contract (saveUnit). Both upload the picked files first, one call after *)
(* the other, and build the contract from what the form and the page hold  *)
(* when the last upload has answered.                                      *)
(*                                                                         *)
(* Opening a dialog begins a draft. A draft stands for the text typed into *)
(* the form and for every file picked in it, so a contract says by numbers *)
(* of drafts where its text, its licence and its attachments come from.    *)
(* For an "optional" value {} is none and {x} is x.                        *)
(***************************************************************************)
EXTENDS Integers, Sequences, FiniteSets

CONSTANTS
    Units,        \* the units there can be
    MaxRows,      \* bound on the contracts, numbered in the order they are saved
    FirstRows,    \* the units of the contracts saved before the page was opened
    MaxDrafts,    \* bound on the dialogs opened
    Patient,      \* whether the user waits for a save to end before he goes on
    Faults        \* whether an upload or a save may fail

MaxRowsAssumption == MaxRows \in Nat
RowsAssumption == FirstRows \in Seq(Units) /\ Len(FirstRows) <= MaxRows
OtherAssumption == MaxDrafts \in Nat /\ Patient \in BOOLEAN /\ Faults \in BOOLEAN

VARIABLES
    units,     \* units the backend has
    rows,      \* contracts the backend has, in the order they were saved
    selected,  \* the unit of the detail dialog, if any
    dialog,    \* whether the contract dialog is open, and its form
    unitDialog,\* whether the dialog of a new unit is open, and its form
    saving,    \* the saves under way, at most one for each dialog
    drafts,    \* what each draft was begun for: a unit and, for an edit, a contract
    log        \* what was saved, beside the form that was submitted

vars == <<units, rows, selected, dialog, unitDialog, saving, drafts, log>>

(* A form: the draft it is, the contract it edits, the files it keeps and  *)
(* what was picked in it; "input" is how far its text fields are filled.   *)
Blank(d) == [draft |-> d, contract |-> {}, license |-> {}, kept |-> {},
             pickedLicense |-> FALSE, picked |-> FALSE, input |-> "none"]

Row(u, d, license, files) == [unit |-> u, text |-> d, license |-> license, files |-> files]

Busy(kind) == \E t \in saving : t.kind = kind
Waits(kind) == Patient => ~Busy(kind)

Init ==
    /\ units = {FirstRows[i] : i \in DOMAIN FirstRows}
    /\ rows = [i \in DOMAIN FirstRows |-> Row(FirstRows[i], 0, {}, {})]
    /\ selected = {}
    /\ dialog = [visible |-> FALSE, form |-> Blank(0)]
    /\ unitDialog = [visible |-> FALSE, form |-> Blank(0)]
    /\ saving = {}
    /\ drafts = <<>>
    /\ log = {}
-----------------------------------------------------------------------------
(***************************************************************************)
(* Opening, filling and closing the dialog of a contract.                  *)
(***************************************************************************)
NewDraft == Len(drafts) + 1

SelectUnit ==
    /\ ~dialog.visible /\ ~unitDialog.visible /\ Waits("contract")
    /\ \E u \in units : selected # {u} /\ selected' = {u}
    /\ UNCHANGED <<units, rows, dialog, unitDialog, saving, drafts, log>>

OpenCreateContract ==
    /\ ~dialog.visible /\ ~unitDialog.visible /\ Waits("contract")
    /\ Len(drafts) < MaxDrafts
    /\ \E u \in selected : drafts' = Append(drafts, [unit |-> u, contract |-> {}])
    /\ dialog' = [visible |-> TRUE, form |-> Blank(NewDraft)]
    /\ UNCHANGED <<units, rows, selected, unitDialog, saving, log>>

OpenEditContract ==
    /\ ~dialog.visible /\ ~unitDialog.visible /\ Waits("contract")
    /\ Len(drafts) < MaxDrafts
    /\ \E c \in DOMAIN rows :
          /\ selected = {rows[c].unit}
          /\ drafts' = Append(drafts, [unit |-> rows[c].unit, contract |-> {c}])
          /\ dialog' = [visible |-> TRUE,
                form |-> [Blank(NewDraft) EXCEPT !.contract = {c}, !.input = "whole",
                            !.license = rows[c].license, !.kept = rows[c].files]]
    /\ UNCHANGED <<units, rows, selected, unitDialog, saving, log>>

Edit(form) ==
    /\ dialog.visible /\ Waits("contract") /\ dialog.form # form
    /\ dialog' = [dialog EXCEPT !.form = form]
    /\ UNCHANGED <<units, rows, selected, unitDialog, saving, drafts, log>>

FillContract == Edit([dialog.form EXCEPT !.input = "whole"])
OnBusinessLicenseChange == Edit([dialog.form EXCEPT !.pickedLicense = TRUE])
OnAttachmentFilesChange == Edit([dialog.form EXCEPT !.picked = TRUE])
RemoveBusinessLicense == Edit([dialog.form EXCEPT !.license = {}])
RemoveAttachment == \E f \in dialog.form.kept : Edit([dialog.form EXCEPT !.kept = @ \ {f}])

CloseContractDialog ==
    /\ dialog.visible /\ Waits("contract")
    /\ dialog' = [dialog EXCEPT !.visible = FALSE]
    /\ UNCHANGED <<units, rows, selected, unitDialog, saving, drafts, log>>
-----------------------------------------------------------------------------
(***************************************************************************)
(* Saving a contract. A task is a save under way, and its "pc" the call it *)
(* waits for. "submitted" is the form when the button was clicked; the     *)
(* code does not have it, the properties do.                               *)
(***************************************************************************)
Submission(kind, form, unit) ==
    [kind |-> kind, pc |-> "unit", submitted |-> form, editing |-> form.contract # {},
     unit |-> unit, license |-> form.license, kept |-> form.kept, payload |-> {}]

\* Mutant: the files just uploaded are left out of the contract.
MutantSend(t, form, unit) ==
    [t EXCEPT !.pc = "save",
              !.payload = {[row |-> Row(unit, form.draft, t.license, form.kept),
                            contract |-> form.contract]}]

(* The contract sent: the unit, the text and the contract's identifier are *)
(* read when it is built, not when the button was clicked.                 *)
Send(t, form, unit) ==
    [t EXCEPT !.pc = "save",
              !.payload = {[row |-> Row(unit, form.draft, t.license, t.kept),
                            contract |-> form.contract]}]

Attach(t, form, unit) ==
    IF form.picked
    THEN [t EXCEPT !.pc = "attachments", !.kept = form.kept \cup {form.draft}]
    ELSE Send([t EXCEPT !.kept = form.kept], form, unit)

Upload(t, form, unit) ==
    IF form.pickedLicense
    THEN [t EXCEPT !.pc = "license", !.license = {form.draft}]
    ELSE Attach(t, form, unit)

ValidContract(form) == form.input = "whole"

SaveContract ==
    /\ dialog.visible /\ ~Busy("contract")
    /\ ValidContract(dialog.form)
    /\ saving' = saving \cup
          {Upload(Submission("contract", dialog.form, u), dialog.form, u) : u \in selected}
    /\ selected # {}
    /\ UNCHANGED <<units, rows, selected, dialog, unitDialog, drafts, log>>

Uploaded ==
    \E t \in saving, u \in selected :
        /\ t.kind = "contract"
        /\ \/ t.pc = "license" /\ saving' = (saving \ {t}) \cup {Attach(t, dialog.form, u)}
           \/ t.pc = "attachments" /\ saving' = (saving \ {t}) \cup {Send(t, dialog.form, u)}
        /\ UNCHANGED <<units, rows, selected, dialog, unitDialog, drafts, log>>
-----------------------------------------------------------------------------
(***************************************************************************)
(* The backend saves the contract. It refuses a second contract for the    *)
(* days of a first, and an update of no contract.                          *)
(***************************************************************************)
\* Mutant: the days of the other contracts of the unit are not looked at.
MutantTakes(t, p) ==
    IF t.editing THEN p.contract # {} ELSE Len(rows) < MaxRows

Takes(t, p) ==
    IF t.editing
    THEN p.contract # {}
    ELSE /\ Len(rows) < MaxRows
         /\ \A i \in DOMAIN rows : rows[i].unit = p.row.unit => rows[i].text # p.row.text

Logged(t, p, c) == [submitted |-> t.submitted, unit |-> t.unit, row |-> p.row, saved |-> c,
                    first |-> t.kind = "unit"]

SaveRow ==
    \E t \in saving : \E p \in t.payload :
        /\ t.pc = "save" /\ Takes(t, p)
        /\ LET c == IF t.editing THEN CHOOSE x \in p.contract : TRUE ELSE Len(rows) + 1 IN
           /\ rows' = IF t.editing THEN [rows EXCEPT ![c] = p.row] ELSE Append(rows, p.row)
           /\ log' = log \cup {Logged(t, p, c)}
        /\ saving' = (saving \ {t}) \cup {[t EXCEPT !.pc = "saved"]}
        /\ UNCHANGED <<units, selected, dialog, unitDialog, drafts>>

\* Mutant: the save ends without its flag being cleared.
MutantContractSaved ==
    \E t \in saving :
        /\ t.kind = "contract" /\ t.pc = "saved"
        /\ dialog' = [dialog EXCEPT !.visible = FALSE]
        /\ saving' = (saving \ {t}) \cup {[t EXCEPT !.pc = "done"]}
        /\ UNCHANGED <<units, rows, selected, unitDialog, drafts, log>>

ContractSaved ==
    \E t \in saving :
        /\ t.kind = "contract" /\ t.pc = "saved"
        /\ dialog' = [dialog EXCEPT !.visible = FALSE]
        /\ saving' = saving \ {t}
        /\ UNCHANGED <<units, rows, selected, unitDialog, drafts, log>>

(* An upload fails, the save is refused, or its answer is lost: an error   *)
(* is shown and the dialog stays as it is.                                 *)
ContractFails ==
    \E t \in saving :
        /\ t.kind = "contract"
        /\ Faults \/ (t.pc = "save" /\ \A p \in t.payload : ~Takes(t, p))
        /\ saving' = saving \ {t}
        /\ UNCHANGED <<units, rows, selected, dialog, unitDialog, drafts, log>>
-----------------------------------------------------------------------------
(***************************************************************************)
(* The dialog of a new unit. Its contract is optional: untouched defaults  *)
(* are no contract, anything else must be a whole one.                     *)
(***************************************************************************)
OpenCreateUnit ==
    /\ ~dialog.visible /\ ~unitDialog.visible /\ Waits("unit")
    /\ Len(drafts) < MaxDrafts
    /\ \E u \in Units \ units : drafts' = Append(drafts, [unit |-> u, contract |-> {}])
    /\ unitDialog' = [visible |-> TRUE, form |-> Blank(NewDraft)]
    /\ UNCHANGED <<units, rows, selected, dialog, saving, log>>

EditUnit(form) ==
    /\ unitDialog.visible /\ Waits("unit") /\ unitDialog.form # form
    /\ unitDialog' = [unitDialog EXCEPT !.form = form]
    /\ UNCHANGED <<units, rows, selected, dialog, saving, drafts, log>>

FillUnit == \E input \in {"part", "whole"} : EditUnit([unitDialog.form EXCEPT !.input = input])
OnUnitBusinessLicenseChange == EditUnit([unitDialog.form EXCEPT !.pickedLicense = TRUE])
OnUnitAttachmentFilesChange == EditUnit([unitDialog.form EXCEPT !.picked = TRUE])

CloseUnitDialog ==
    /\ unitDialog.visible /\ Waits("unit")
    /\ unitDialog' = [unitDialog EXCEPT !.visible = FALSE]
    /\ UNCHANGED <<units, rows, selected, dialog, saving, drafts, log>>

HasInitialContractInput(form) == form.input # "none" \/ form.pickedLicense \/ form.picked

ValidInitialContract(form) == form.input = "whole"

SaveUnit ==
    /\ unitDialog.visible /\ ~Busy("unit")
    /\ HasInitialContractInput(unitDialog.form) => ValidInitialContract(unitDialog.form)
    /\ saving' = saving \cup
          {Submission("unit", unitDialog.form, drafts[unitDialog.form.draft].unit)}
    /\ UNCHANGED <<units, rows, selected, dialog, unitDialog, drafts, log>>

(* The unit is saved, and the form is read for the files of its contract.  *)
UnitCreated ==
    \E t \in saving :
        /\ t.kind = "unit" /\ t.pc = "unit" /\ t.unit \notin units
        /\ units' = units \cup {t.unit}
        /\ saving' = (saving \ {t}) \cup
              {IF HasInitialContractInput(t.submitted)
               THEN Upload(t, unitDialog.form, t.unit) ELSE [t EXCEPT !.pc = "saved"]}
        /\ UNCHANGED <<rows, selected, dialog, unitDialog, drafts, log>>

\* Mutant: the contract goes to the unit the dialog is open for by then.
MutantUnitUploaded ==
    \E t \in saving :
        /\ t.kind = "unit"
        /\ \/ t.pc = "license"
              /\ saving' = (saving \ {t}) \cup {Attach(t, unitDialog.form, t.unit)}
           \/ t.pc = "attachments"
              /\ saving' = (saving \ {t}) \cup
                    {Send(t, unitDialog.form, drafts[unitDialog.form.draft].unit)}
        /\ UNCHANGED <<units, rows, selected, dialog, unitDialog, drafts, log>>

UnitUploaded ==
    \E t \in saving :
        /\ t.kind = "unit"
        /\ \/ t.pc = "license"
              /\ saving' = (saving \ {t}) \cup {Attach(t, unitDialog.form, t.unit)}
           \/ t.pc = "attachments"
              /\ saving' = (saving \ {t}) \cup {Send(t, unitDialog.form, t.unit)}
        /\ UNCHANGED <<units, rows, selected, dialog, unitDialog, drafts, log>>

(* The end of a save, or of a unit whose contract failed: a warning then   *)
(* says that the unit was added without it. The dialog is closed.          *)
UnitSaved ==
    \E t \in saving :
        /\ t.kind = "unit" /\ t.pc # "unit"
        /\ \/ t.pc = "saved"
           \/ Faults
           \/ t.pc = "save" /\ \A p \in t.payload : ~Takes(t, p)
        /\ unitDialog' = [unitDialog EXCEPT !.visible = FALSE]
        /\ saving' = saving \ {t}
        /\ UNCHANGED <<units, rows, selected, dialog, drafts, log>>

UnitFails ==
    \E t \in saving :
        /\ t.kind = "unit" /\ t.pc = "unit"
        /\ Faults \/ t.unit \in units
        /\ saving' = saving \ {t}
        /\ UNCHANGED <<units, rows, selected, dialog, unitDialog, drafts, log>>
-----------------------------------------------------------------------------
Contract ==
    \/ SelectUnit \/ OpenCreateContract \/ OpenEditContract \/ CloseContractDialog
    \/ FillContract \/ OnBusinessLicenseChange \/ OnAttachmentFilesChange
    \/ RemoveBusinessLicense \/ RemoveAttachment
    \/ SaveContract \/ Uploaded \/ ContractSaved \/ ContractFails

Unit ==
    \/ OpenCreateUnit \/ CloseUnitDialog
    \/ FillUnit \/ OnUnitBusinessLicenseChange \/ OnUnitAttachmentFilesChange
    \/ SaveUnit \/ UnitCreated \/ UnitUploaded \/ UnitSaved \/ UnitFails

Next == Contract \/ Unit \/ SaveRow

Spec == Init /\ [][Next]_vars
-----------------------------------------------------------------------------
Drafts == 0..MaxDrafts

FormOK(form) ==
    /\ form.draft \in Drafts /\ form.contract \subseteq DOMAIN rows
    /\ form.license \subseteq Drafts /\ Cardinality(form.license) <= 1
    /\ form.kept \subseteq Drafts /\ form.input \in {"none", "part", "whole"}

TypeOK ==
    /\ units \subseteq Units /\ selected \subseteq units /\ Cardinality(selected) <= 1
    /\ Len(rows) <= MaxRows
    /\ \A i \in DOMAIN rows : rows[i].unit \in units /\ rows[i].files \subseteq Drafts
    /\ FormOK(dialog.form) /\ FormOK(unitDialog.form)
    /\ \A t \in saving : t.pc \in {"unit", "license", "attachments", "save", "saved"}
    /\ \A kind \in {"contract", "unit"} : Cardinality({t \in saving : t.kind = kind}) <= 1

(* A contract is saved whole and as it was submitted: on the unit and the  *)
(* contract the form was opened for, with the form's text, every file it   *)
(* kept and every file picked in it, however many calls lie between the    *)
(* click and the save, and after failures ("keeps existing attachments     *)
(* while adding an upload in the shared edit form").                       *)
SavedAsSubmitted ==
    \A e \in log :
        LET form == e.submitted IN
        /\ e.row.unit = drafts[form.draft].unit
        /\ form.contract # {} => form.contract = {e.saved}
        /\ e.row.text = form.draft
        /\ e.row.license = IF form.pickedLicense THEN {form.draft} ELSE form.license
        /\ e.row.files = IF form.picked THEN form.kept \cup {form.draft} ELSE form.kept

(* A contract holds only files that were picked for it: the licence and    *)
(* the attachments "all hang under their own contract record".             *)
PickedFor(c) ==
    {d \in DOMAIN drafts : drafts[d].contract = {c}} \cup
    {e.submitted.draft : e \in {x \in log : x.saved = c /\ x.submitted.contract = {}}}

\* It does not hold of a user who does not wait for a save.
FilesUnderTheirContract ==
    \A c \in DOMAIN rows : rows[c].files \cup rows[c].license \subseteq PickedFor(c)

(* One form never adds two contracts: a save whose answer was lost and     *)
(* that the user repeats is refused by the backend, and a second click on  *)
(* the button is ignored while the first is under way.                     *)
OneContractPerForm ==
    \A d \in DOMAIN drafts : Cardinality({c \in DOMAIN rows : rows[c].text = d}) <= 1

(* Whatever the user does while a save is under way, the first contract of *)
(* a unit lands on the unit that was created with it, and a dialog of a    *)
(* unit in which no contract was entered adds none.                        *)
FirstContractOnItsUnit ==
    \A e \in log : e.first =>
        /\ e.row.unit = e.unit
        /\ HasInitialContractInput(e.submitted)
=============================================================================
