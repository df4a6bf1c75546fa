------------------------- MODULE ReconciliationPage -------------------------
(***************************************************************************)
(* The page of the rent reconciliation, RentReconciliationView.vue, in one *)
(* browser: the list of tenants, the detail of one, and its PDF. Each kind *)
(* of request has its own numbers, and only the last one counts. What a    *)
(* reconciliation says is in RentViews; here it has an age.                *)
(***************************************************************************)
EXTENDS Integers, FiniteSets

CONSTANTS
    Tenants,     \* the tenants there are
    Years,       \* the years that can be chosen
    MaxClicks,   \* bound on what the user does
    MaxAge,      \* bound on the changes on the server
    MaxFaults    \* bound on the requests that fail

BoundsAssumption == {MaxClicks, MaxAge, MaxFaults} \subseteq Nat

Kinds == {"list", "detail", "download"}

VARIABLES
    age,        \* how often the payments on the server have changed
    year,       \* the filter of the year, {} for all years
    keyword,    \* the filter of the tenant, {} for all tenants
    selected,   \* the tenant whose detail is open, if any
    list,       \* the list that is shown, if any: its query, age and tenants
    options,    \* the tenants that can be chosen in the filter
    detail,     \* the detail that is shown, if any: its query and age
    saved,      \* the PDFs that were saved, each with the detail it was asked from
    sequence,   \* the last number of each kind of request
    busy,       \* loading, detailLoading and downloading
    calls,      \* the requests under way
    mounted, clicks, faults

vars == <<age, year, keyword, selected, list, options, detail, saved, sequence, busy,
          calls, mounted, clicks, faults>>

Filters == <<year, keyword>>
View == <<selected, list, options, detail, saved>>

ListQuery(k, y) == [keyword |-> k, year |-> y]
Unfiltered == ListQuery({}, {})

(* A request gets the next number of its kind.                             *)
Call(kind, query, from) ==
    /\ sequence' = [sequence EXCEPT ![kind] = @ + 1]
    /\ busy' = [busy EXCEPT ![kind] = TRUE]
    /\ calls' = calls \cup {[kind |-> kind, number |-> sequence'[kind], query |-> query,
                             from |-> from, answer |-> {}]}

Init ==
    /\ age = 0 /\ year = {} /\ keyword = {}
    /\ selected = {} /\ list = {} /\ options = {} /\ detail = {} /\ saved = {}
    /\ sequence = [k \in Kinds |-> IF k = "list" THEN 1 ELSE 0]
    /\ busy = [k \in Kinds |-> k = "list"]
    /\ calls = {[kind |-> "list", number |-> 1, query |-> Unfiltered, from |-> {}, answer |-> {}]}
    /\ mounted = TRUE /\ clicks = 0 /\ faults = 0
-----------------------------------------------------------------------------
(***************************************************************************)
(* The user. The filters and the list are there only while no detail is;   *)
(* the years and tenants to choose from come with the first list.          *)
(***************************************************************************)
Click == mounted /\ clicks < MaxClicks /\ clicks' = clicks + 1
Rest == UNCHANGED <<age, mounted, faults>>

\* Mutant: the year can be chosen with the detail open too.
MutantChooseYear ==
    \E y \in Years :
        /\ options # {} /\ year # {y} /\ Click /\ year' = {y}
        /\ UNCHANGED <<keyword, View, sequence, busy, calls>> /\ Rest

ChooseYear ==
    \E y \in Years :
        /\ selected = {} /\ options # {} /\ year # {y} /\ Click /\ year' = {y}
        /\ UNCHANGED <<keyword, View, sequence, busy, calls>> /\ Rest

ChooseTenant ==
    \E t \in options :
        /\ selected = {} /\ keyword # {t} /\ Click /\ keyword' = {t}
        /\ UNCHANGED <<year, View, sequence, busy, calls>> /\ Rest

LoadList ==
    /\ selected = {} /\ Click
    /\ Call("list", ListQuery(keyword, year), {})
    /\ UNCHANGED <<Filters, View>> /\ Rest

ResetFilters ==
    /\ selected = {} /\ <<year, keyword>> # <<{}, {}>> /\ Click
    /\ year' = {} /\ keyword' = {}
    /\ Call("list", Unfiltered, {})
    /\ UNCHANGED View /\ Rest

DetailQuery(t) == [tenant |-> t, year |-> year]

OpenDetail ==
    \E shown \in list : \E t \in shown.tenants :
        /\ selected = {} /\ Click
        /\ selected' = {t} /\ detail' = {}
        /\ Call("detail", DetailQuery(t), {})
        /\ UNCHANGED <<Filters, list, options, saved>> /\ Rest

LoadDetail ==
    \E t \in selected :
        /\ ~busy["detail"] /\ Click
        /\ Call("detail", DetailQuery(t), {})
        /\ UNCHANGED <<Filters, View>> /\ Rest

\* Mutant: the number is not increased.
MutantBackToSummary ==
    /\ selected # {} /\ Click
    /\ selected' = {} /\ detail' = {}
    /\ busy' = [busy EXCEPT !["detail"] = FALSE]
    /\ UNCHANGED <<Filters, list, options, saved, calls, sequence>> /\ Rest

BackToSummary ==
    /\ selected # {} /\ Click
    /\ selected' = {} /\ detail' = {}
    /\ sequence' = [sequence EXCEPT !["detail"] = @ + 1]
    /\ busy' = [busy EXCEPT !["detail"] = FALSE]
    /\ UNCHANGED <<Filters, list, options, saved, calls>> /\ Rest

DownloadPdf ==
    \E shown \in detail :
        /\ ~busy["download"] /\ Click
        /\ Call("download", DetailQuery(shown.query.tenant), {shown.query})
        /\ UNCHANGED <<Filters, View>> /\ Rest

Leave ==
    /\ mounted /\ mounted' = FALSE
    /\ sequence' = [k \in Kinds |-> sequence[k] + 1]
    /\ UNCHANGED <<age, Filters, View, busy, calls, clicks, faults>>
-----------------------------------------------------------------------------
Changes ==
    /\ age < MaxAge /\ age' = age + 1
    /\ UNCHANGED <<Filters, View, sequence, busy, calls, mounted, clicks, faults>>

Serve ==
    \E c \in calls :
        /\ c.answer = {}
        /\ calls' = (calls \ {c}) \cup {[c EXCEPT !.answer = {age}]}
        /\ UNCHANGED <<age, Filters, View, sequence, busy, mounted, clicks, faults>>

IsLatest(c) == mounted /\ c.number = sequence[c.kind]

(* The end of a request: its spinner goes only if it is the last one.      *)
Ends(c) ==
    /\ calls' = calls \ {c}
    /\ busy' = IF IsLatest(c) THEN [busy EXCEPT ![c.kind] = FALSE] ELSE busy
    /\ UNCHANGED <<age, Filters, selected, sequence, mounted, clicks>>

Listed(query) == IF query.keyword = {} THEN Tenants ELSE query.keyword

\* Mutant: an answer counts whatever its number.
MutantListAnswered ==
    \E c \in calls : \E a \in c.answer :
        /\ c.kind = "list" /\ Ends(c)
        /\ list' = {[query |-> c.query, age |-> a, tenants |-> Listed(c.query)]}
        /\ options' = IF c.query = Unfiltered THEN Listed(c.query) ELSE options
        /\ UNCHANGED <<detail, saved, faults>>

ListAnswered ==
    \E c \in calls : \E a \in c.answer :
        /\ c.kind = "list" /\ Ends(c)
        /\ IF IsLatest(c)
           THEN /\ list' = {[query |-> c.query, age |-> a, tenants |-> Listed(c.query)]}
                /\ options' = IF c.query = Unfiltered THEN Listed(c.query) ELSE options
           ELSE UNCHANGED <<list, options>>
        /\ UNCHANGED <<detail, saved, faults>>

DetailAnswered ==
    \E c \in calls : \E a \in c.answer :
        /\ c.kind = "detail" /\ Ends(c)
        /\ detail' = IF IsLatest(c) THEN {[query |-> c.query, age |-> a]} ELSE detail
        /\ UNCHANGED <<list, options, saved, faults>>

DownloadAnswered ==
    \E c \in calls : \E a \in c.answer :
        /\ c.kind = "download" /\ Ends(c)
        /\ saved' = IF IsLatest(c) THEN saved \cup {[pdf |-> c.query, from |-> c.from]} ELSE saved
        /\ UNCHANGED <<list, options, detail, faults>>

(* A list that could not be loaded is shown as empty, a detail not at all. *)
Fails ==
    \E c \in calls :
        /\ faults < MaxFaults /\ faults' = faults + 1
        /\ Ends(c)
        /\ list' = IF IsLatest(c) /\ c.kind = "list" THEN {} ELSE list
        /\ detail' = IF IsLatest(c) /\ c.kind = "detail" THEN {} ELSE detail
        /\ UNCHANGED <<options, saved>>

User ==
    \/ ChooseYear \/ ChooseTenant \/ LoadList \/ ResetFilters
    \/ OpenDetail \/ LoadDetail \/ BackToSummary \/ DownloadPdf \/ Leave

Next ==
    \/ User \/ Changes \/ Serve
    \/ ListAnswered \/ DetailAnswered \/ DownloadAnswered \/ Fails

Spec == Init /\ [][Next]_vars
-----------------------------------------------------------------------------
(* At most one spinner of each kind has its request under way, and the     *)
(* spinner of the last request ends with it.                               *)
TypeOK ==
    /\ sequence \in [Kinds -> Nat] /\ age \in 0..MaxAge
    /\ Cardinality(year) <= 1 /\ Cardinality(selected) <= 1
    /\ Cardinality(list) <= 1 /\ Cardinality(detail) <= 1
    /\ options \subseteq Tenants
    /\ mounted => \A k \in Kinds :
          busy[k] <=> \E c \in calls : c.kind = k /\ c.number = sequence[k]

(* The detail is that of the tenant who is open, for the year the filter   *)
(* says, whatever was opened, left and asked for before                    *)
(* ("ignores a stale detail success when switching tenants").              *)
DetailIsOfSelected ==
    mounted => \A shown \in detail : selected = {shown.query.tenant} /\ shown.query.year = year

(* The list is the answer to the last query that succeeded, and what is    *)
(* shown never grows older                                                 *)
(* ("ignores stale list success without ending the latest loading state"). *)
ListGoesOn ==
    \A old \in list, new \in list' : new # old => new.age >= old.age
ListNeverGrowsOld == [][ListGoesOn]_vars

(* A PDF is that of the detail it was asked from, tenant and year, though  *)
(* the year is read from the filter and not from the detail.               *)
PdfIsOfDetail == \A s \in saved : s.from = {s.pdf}

(* Nothing changes on a page that was left                                 *)
(* ("ignores a late detail success after unmount").                        *)
LeftUntouched ==
    ~mounted => UNCHANGED View
NothingAfterLeaving == [][LeftUntouched]_vars
=============================================================================
