------------------------------ MODULE UnitsPage ------------------------------
(***************************************************************************)
(* The list of units in the browser (UnitsView.vue): a page of the list, a *)
(* detail dialog of one unit, and the changes made from them. Every call   *)
(* to the backend is answered later and in any order, so the page numbers  *)
(* its calls: an answer that is not the one last asked for is dropped.     *)
(*                                                                         *)
(* A call is a record; its "answer" is {} until the backend has handled    *)
(* it, and {r} while the response r is on its way to the browser. What the *)
(* backend knows is reduced to the units it has and to a clock that counts *)
(* its changes: an answer carries the clock at which it was read.          *)
(***************************************************************************)
EXTENDS Integers, FiniteSets, FiniteSetsExt

CONSTANTS
    Units,      \* the units there can be, numbered in the order of the list
    PageSizes,  \* the sizes the pagination offers
    Kinds,      \* what the user does besides paging: "open" a detail, and changes
    MaxClicks,  \* bound on the lists and details the user asks for
    MaxWrites,  \* bound on the changes the user makes
    MaxOthers,  \* bound on the changes made from other browsers
    Faults      \* whether a call may fail

UnitsAssumption == Units \subseteq Nat \ {0}
SizesAssumption == PageSizes \subseteq Nat \ {0} /\ PageSizes # {}
KindsAssumption ==
    Kinds \subseteq {"open", "create", "update", "remove", "contract", "removeContract",
                    "meter", "removeMeter"}
BoundsAssumption == {MaxClicks, MaxWrites, MaxOthers} \subseteq Nat /\ Faults \in BOOLEAN

VARIABLES
    alive,   \* the units the backend has
    clock,   \* how many changes the backend has made
    list,    \* the page's list: what is asked for and what is shown
    detail,  \* the detail dialog: its call number and the unit it shows
    loads,   \* calls for the list under way
    reads,   \* calls for a unit's detail under way
    writes,  \* changes under way
    counts   \* what was begun, against the bounds, and the user's last change

vars == <<alive, clock, list, detail, loads, reads, writes, counts>>

LastPage(total, size) == Max({1, (total + size - 1) \div size})

Rank(u, units) == Cardinality({v \in units : v <= u})

ItemsOn(units, page, size) ==
    {u \in units : (page - 1) * size < Rank(u, units) /\ Rank(u, units) <= page * size}
-----------------------------------------------------------------------------
(***************************************************************************)
(* Beginning a call. loadUnits numbers it and shows the spinner; the page  *)
(* and its size travel with it.                                            *)
(***************************************************************************)
Asking(l) == [l EXCEPT !.sequence = @ + 1, !.loading = TRUE, !.failed = FALSE]

LoadCall(l) == [seq |-> l.sequence, page |-> l.page, size |-> l.size, answer |-> {}]

LoadUnits(l, others) ==
    /\ list' = Asking(l)
    /\ loads' = others \cup {LoadCall(Asking(l))}

Read(u, opening) ==
    /\ detail' = [detail EXCEPT !.sequence = @ + 1]
    /\ reads' = reads \cup
          {[seq |-> detail.sequence + 1, unit |-> u, opening |-> opening, answer |-> {}]}

Init ==
    /\ alive \in SUBSET Units
    /\ clock = 0
    /\ list = [page |-> 1, size |-> Min(PageSizes), total |-> 0, items |-> {},
               shown |-> [page |-> 1, size |-> Min(PageSizes), asOf |-> 0],
               sequence |-> 1, loading |-> TRUE, failed |-> FALSE]
    /\ detail = [sequence |-> 0, unit |-> {}, form |-> {}, asOf |-> 0, by |-> 0,
                 visible |-> FALSE, failed |-> FALSE]
    /\ loads = {LoadCall(list)}
    /\ reads = {}
    /\ writes = {}
    /\ counts = [clicks |-> 0, writes |-> 0, others |-> 0, own |-> 0]
-----------------------------------------------------------------------------
(***************************************************************************)
(* What the user does.                                                     *)
(***************************************************************************)
Click == counts.clicks < MaxClicks /\ counts' = [counts EXCEPT !.clicks = @ + 1]

Refresh ==
    /\ Click
    /\ LoadUnits(list, loads)
    /\ UNCHANGED <<alive, clock, detail, reads, writes>>

ChangePage(page) ==
    /\ page \in 1..LastPage(list.total, list.size) /\ page # list.page
    /\ Click
    /\ LoadUnits([list EXCEPT !.page = page], loads)
    /\ UNCHANGED <<alive, clock, detail, reads, writes>>

ChangePageSize(size) ==
    /\ size # list.size
    /\ Click
    /\ LoadUnits([list EXCEPT !.size = size, !.page = 1], loads)
    /\ UNCHANGED <<alive, clock, detail, reads, writes>>

OpenDetail(u) ==
    /\ u \in list.items /\ "open" \in Kinds
    /\ Click
    /\ Read(u, TRUE)
    /\ UNCHANGED <<alive, clock, list, loads, writes>>

CloseDetail ==
    /\ detail.visible
    /\ detail' = [detail EXCEPT !.visible = FALSE]
    /\ UNCHANGED <<alive, clock, list, loads, reads, writes, counts>>

RefreshDetail ==
    /\ detail.visible
    /\ Click
    /\ \E u \in detail.unit : Read(u, FALSE)
    /\ UNCHANGED <<alive, clock, list, loads, writes>>

(***************************************************************************)
(* A change goes out for the unit it was made on: a unit of the list for a *)
(* removal, the selected one for its fields, its contracts and its meters. *)
(* A button stays disabled while its own change is under way.              *)
(***************************************************************************)
Write(kind, u) ==
    /\ kind \in Kinds /\ counts.writes < MaxWrites
    /\ writes' = writes \cup
          {[number |-> counts.writes + 1, kind |-> kind, unit |-> u, answer |-> {}]}
    /\ counts' = [counts EXCEPT !.writes = @ + 1]
    /\ UNCHANGED <<alive, clock, list, detail, loads, reads>>

UnderWay(kind) == \E w \in writes : w.kind = kind

WriteSelected(kind) ==
    /\ detail.visible
    /\ \E u \in detail.unit : Write(kind, u)

SaveUnit == ~UnderWay("create") /\ \E u \in Units \ alive : Write("create", u)

SaveDetailUnit == ~UnderWay("update") /\ WriteSelected("update")

ConfirmRemoveUnit == \E u \in list.items : Write("remove", u)

SaveContract == ~UnderWay("contract") /\ WriteSelected("contract")

ConfirmRemoveContract == WriteSelected("removeContract")

SaveMeter == ~UnderWay("meter") /\ WriteSelected("meter")

ConfirmRemoveMeter == WriteSelected("removeMeter")
-----------------------------------------------------------------------------
(***************************************************************************)
(* What the backend does, for this browser and for others.                 *)
(***************************************************************************)
ServeLoad ==
    \E c \in loads :
        /\ c.answer = {}
        /\ loads' = (loads \ {c}) \cup {[c EXCEPT !.answer =
              {[total |-> Cardinality(alive), asOf |-> clock,
                items |-> ItemsOn(alive, c.page, c.size)]}]}
        /\ UNCHANGED <<alive, clock, list, detail, reads, writes, counts>>

ServeRead ==
    \E c \in reads :
        /\ c.answer = {} /\ c.unit \in alive
        /\ reads' = (reads \ {c}) \cup {[c EXCEPT !.answer = {clock}]}
        /\ UNCHANGED <<alive, clock, list, detail, loads, writes, counts>>

ServeWrite ==
    \E w \in writes :
        /\ w.answer = {}
        /\ (w.kind = "create") # (w.unit \in alive)
        /\ alive' = CASE w.kind = "create" -> alive \cup {w.unit}
                      [] w.kind = "remove" -> alive \ {w.unit}
                      [] OTHER -> alive
        /\ clock' = clock + 1
        /\ writes' = (writes \ {w}) \cup {[w EXCEPT !.answer = {clock + 1}]}
        /\ UNCHANGED <<list, detail, loads, reads, counts>>

SomeoneElse ==
    /\ counts.others < MaxOthers
    /\ \E units \in SUBSET Units :
          /\ Cardinality((units \ alive) \cup (alive \ units)) = 1
          /\ alive' = units
    /\ clock' = clock + 1
    /\ counts' = [counts EXCEPT !.others = @ + 1]
    /\ UNCHANGED <<list, detail, loads, reads, writes>>
-----------------------------------------------------------------------------
(***************************************************************************)
(* An answer for the list. One that is not the last asked for is dropped;  *)
(* a page past the end becomes the last page and is asked for again.       *)
(***************************************************************************)
Taken(l, a) == [l EXCEPT !.total = a.total]

Shown(l, c, a) ==
    [Taken(l, a) EXCEPT !.items = a.items, !.loading = FALSE,
                        !.shown = [page |-> c.page, size |-> c.size, asOf |-> a.asOf]]

\* Mutant: an answer is shown whichever call it belongs to.
MutantLoadAnswered ==
    \E c \in loads : \E a \in c.answer :
        /\ IF list.page > LastPage(a.total, list.size)
           THEN LoadUnits([Taken(list, a) EXCEPT !.page = LastPage(a.total, list.size)],
                          loads \ {c})
           ELSE /\ list' = Shown(list, c, a)
                /\ loads' = loads \ {c}
        /\ UNCHANGED <<alive, clock, detail, reads, writes, counts>>

LoadAnswered ==
    \E c \in loads : \E a \in c.answer :
        /\ IF c.seq # list.sequence
           THEN /\ loads' = loads \ {c}
                /\ UNCHANGED list
           ELSE IF list.page > LastPage(a.total, list.size)
           THEN LoadUnits([Taken(list, a) EXCEPT !.page = LastPage(a.total, list.size)],
                          loads \ {c})
           ELSE /\ list' = Shown(list, c, a)
                /\ loads' = loads \ {c}
        /\ UNCHANGED <<alive, clock, detail, reads, writes, counts>>

LoadFails ==
    /\ Faults
    /\ \E c \in loads :
          /\ loads' = loads \ {c}
          /\ list' = IF c.seq = list.sequence
                     THEN [list EXCEPT !.loading = FALSE, !.failed = TRUE] ELSE list
    /\ UNCHANGED <<alive, clock, detail, reads, writes, counts>>
-----------------------------------------------------------------------------
(***************************************************************************)
(* An answer for the detail fills the dialog and its form, and opens the   *)
(* dialog when it was asked for by "manage". A unit the backend no longer  *)
(* has is an error.                                                        *)
(***************************************************************************)
\* Mutant: openDetail and refreshSelectedUnit fill the dialog with every answer.
MutantReadAnswered ==
    \E c \in reads : \E a \in c.answer :
        /\ detail' = [detail EXCEPT !.unit = {c.unit}, !.form = {c.unit}, !.asOf = a,
                             !.by = c.seq, !.visible = @ \/ c.opening, !.failed = FALSE]
        /\ reads' = reads \ {c}
        /\ UNCHANGED <<alive, clock, list, loads, writes, counts>>

ReadAnswered ==
    \E c \in reads : \E a \in c.answer :
        /\ detail' = IF c.seq # detail.sequence THEN detail
                     ELSE [detail EXCEPT !.unit = {c.unit}, !.form = {c.unit}, !.asOf = a,
                             !.by = c.seq, !.visible = @ \/ c.opening, !.failed = FALSE]
        /\ reads' = reads \ {c}
        /\ UNCHANGED <<alive, clock, list, loads, writes, counts>>

ReadFails ==
    \E c \in reads :
        /\ Faults \/ c.unit \notin alive
        /\ reads' = reads \ {c}
        /\ detail' = IF c.seq = detail.sequence THEN [detail EXCEPT !.failed = TRUE] ELSE detail
        /\ UNCHANGED <<alive, clock, list, loads, writes, counts>>
-----------------------------------------------------------------------------
(***************************************************************************)
(* An answered change. After a removal the dialog of the unit is closed;   *)
(* after a change of the selected unit both the dialog and the list are    *)
(* read again, whichever unit is selected by then.                         *)
(***************************************************************************)
Finished(w) ==
    /\ w.answer # {}
    /\ writes' = writes \ {w}
    /\ counts' = [counts EXCEPT !.own = Max(w.answer \cup {@})]
    /\ UNCHANGED <<alive, clock>>

\* Mutant: the list is not loaded again after a removal.
MutantUnitRemoved(w) ==
    /\ w.kind = "remove" /\ Finished(w)
    /\ detail' = IF detail.unit = {w.unit}
                 THEN [detail EXCEPT !.unit = {}, !.visible = FALSE] ELSE detail
    /\ UNCHANGED <<list, loads, reads>>

UnitRemoved(w) ==
    /\ w.kind = "remove" /\ Finished(w)
    /\ detail' = IF detail.unit = {w.unit}
                 THEN [detail EXCEPT !.unit = {}, !.visible = FALSE] ELSE detail
    /\ LoadUnits(list, loads)
    /\ UNCHANGED reads

UnitSaved(w) ==
    /\ w.kind = "create" /\ Finished(w)
    /\ LoadUnits(list, loads)
    /\ UNCHANGED <<detail, reads>>

SelectionSaved(w) ==
    /\ w.kind \notin {"create", "remove"} /\ Finished(w)
    /\ LoadUnits(list, loads)
    /\ \/ \E u \in detail.unit : Read(u, FALSE)
       \/ detail.unit = {} /\ UNCHANGED <<detail, reads>>

WriteAnswered == \E w \in writes : UnitRemoved(w) \/ UnitSaved(w) \/ SelectionSaved(w)

(* The backend refuses a change, or its answer never arrives: an error.    *)
WriteFails ==
    \E w \in writes :
        /\ Faults \/ (w.answer = {} /\ (w.kind = "create") = (w.unit \in alive))
        /\ writes' = writes \ {w}
        /\ UNCHANGED <<alive, clock, list, detail, loads, reads, counts>>
-----------------------------------------------------------------------------
User ==
    \/ Refresh
    \/ \E page \in 1..LastPage(Cardinality(Units), Min(PageSizes)) : ChangePage(page)
    \/ \E size \in PageSizes : ChangePageSize(size)
    \/ \E u \in Units : OpenDetail(u)
    \/ CloseDetail
    \/ RefreshDetail
    \/ SaveUnit \/ SaveDetailUnit \/ ConfirmRemoveUnit
    \/ SaveContract \/ ConfirmRemoveContract \/ SaveMeter \/ ConfirmRemoveMeter

Backend == ServeLoad \/ ServeRead \/ ServeWrite \/ SomeoneElse

Answers ==
    LoadAnswered \/ LoadFails \/ ReadAnswered \/ ReadFails \/ WriteAnswered \/ WriteFails

Next == User \/ Backend \/ Answers

(***************************************************************************)
(* The backend handles every call and its answers reach the browser; a     *)
(* user need do nothing. Every call runs by itself once it is made, so the *)
(* fairness is the network's and the event loop's.                         *)
(***************************************************************************)
Fairness ==
    /\ WF_vars(ServeLoad)
    /\ WF_vars(LoadAnswered)

Spec == Init /\ [][Next]_vars /\ Fairness
-----------------------------------------------------------------------------
TypeOK ==
    /\ alive \subseteq Units /\ clock \in Nat
    /\ list.page \in Nat \ {0} /\ list.size \in PageSizes /\ list.items \subseteq Units
    /\ detail.unit \subseteq Units /\ Cardinality(detail.unit) <= 1
    /\ detail.form \subseteq Units
    /\ \A c \in loads : c.seq <= list.sequence /\ c.page >= 1
    /\ \A c \in reads : c.seq <= detail.sequence
    /\ list.loading <=> {c \in loads : c.seq = list.sequence} # {}

(* Once nothing is being loaded, the rows shown are those of the page and  *)
(* the size the pagination shows, and the page is one the list has: late   *)
(* answers, a change of size and a page that became empty by a removal     *)
(* included ("ignores stale pages", "returns to the last valid page").     *)
QuietPageIsShown ==
    ~list.loading /\ ~list.failed =>
        /\ list.shown.page = list.page /\ list.shown.size = list.size
        /\ list.page <= LastPage(list.total, list.size)
        /\ list.total > 0 => list.items # {}

(* A user sees what he changed: once the list is quiet, it was read after  *)
(* the last change that was reported to him as done.                       *)
ListFollowsOwnChanges ==
    ~list.loading /\ ~list.failed => list.shown.asOf >= counts.own

(* The dialog is never filled by an answer older than the one it shows,    *)
(* and its form is always that of the unit it shows: a save of the form    *)
(* never goes to another unit.                                             *)
DetailGoesOn ==
    /\ detail'.by >= detail.by
    /\ detail'.unit # {} => detail'.form = detail'.unit
DetailNeverGoesBack == [][DetailGoesOn]_vars

(* The spinner always ends: a call superseded by another, a call that      *)
(* fails and a page asked for again included.                              *)
SpinnerEnds == list.loading ~> ~list.loading
=============================================================================
