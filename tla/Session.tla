------------------------------- MODULE Session -------------------------------
(***************************************************************************)
(* Logging in and out: AuthService and JwtStrategy of the backend, the     *)
(* store of the session and the guard of the router in every tab of one    *)
(* browser, whose tabs share one cookie. A tab asks the backend once, at   *)
(* its first page, who is logged in; then it goes by its own store.        *)
(***************************************************************************)
EXTENDS Integers, FiniteSets

CONSTANTS
    Tabs,        \* the tabs of the browser
    Usernames,   \* the administrators' names there can be
    Guarded,     \* the pages that require a login
    Home,        \* the page after a login that was not asked for
    MaxIds,      \* bound on the accounts that are made
    MaxClicks,   \* bound on what the user does
    MaxFaults    \* bound on the requests that fail and on the tokens that end

HomeAssumption == Home \in Guarded
BoundsAssumption == {MaxIds, MaxClicks, MaxFaults} \subseteq Nat

Login == "login"
Pages == Guarded \cup {Login}

VARIABLES
    accounts,    \* the id of each administrator's account, {} without one
    ids,         \* the ids given so far
    jar,         \* the cookie: the token of the session, if any
    tab,         \* each tab: its store, the page it shows, its navigation
    calls,       \* the requests under way
    fresh,       \* the tabs that were opened since the cookie last changed its meaning
    clicks, faults

vars == <<accounts, ids, jar, tab, calls, fresh, clicks, faults>>

Token(name) == [name |-> name, id |-> accounts[name], expired |-> FALSE]

(* JwtStrategy: the token is not expired, and the account it names is still*)
(* the one it was made for.                                                *)
Validate(tokens) == \E k \in tokens : ~k.expired /\ accounts[k.name] # {} /\ accounts[k.name] = k.id

Closed == [open |-> FALSE, user |-> {}, initialized |-> FALSE, shown |-> {}, redirect |-> {},
           nav |-> {}, submitting |-> FALSE, asked |-> {}]

(* The backend has made the account of the configuration before it answers.*)
Init ==
    /\ \E n \in Usernames :
          accounts = [u \in Usernames |-> IF u = n THEN {1} ELSE {}]
    /\ ids = 1
    /\ jar = {}
    /\ tab = [t \in Tabs |-> Closed]
    /\ calls = {} /\ fresh = {} /\ clicks = 0 /\ faults = 0
-----------------------------------------------------------------------------
(***************************************************************************)
(* The router. A navigation waits for the store, is decided by the guard,  *)
(* loads the page's code and then shows the page; a later navigation of    *)
(* the tab takes its place.                                                *)
(***************************************************************************)
Navigation(to) == {[to |-> to, step |-> "guard", redirect |-> {}]}

Call(kind, t) == [kind |-> kind, tab |-> t, tokens |-> jar, name |-> {}, answer |-> {}]

(* initialize: a tab that does not know yet who is logged in asks.         *)
Initialize(t) == IF tab'[t].initialized THEN {} ELSE {Call("me", t)}

(* Where a navigation ends: a guarded page without a user at the login,    *)
(* the login with a user at home.                                          *)
\* Mutant: the page that was asked for is forgotten.
MutantDestination(to, user) ==
    IF to \in Guarded /\ user = {} THEN [to |-> Login, redirect |-> {}]
    ELSE IF to = Login /\ user # {} THEN [to |-> Home, redirect |-> {}]
    ELSE [to |-> to, redirect |-> {}]

Destination(to, user) ==
    IF to \in Guarded /\ user = {} THEN [to |-> Login, redirect |-> {to}]
    ELSE IF to = Login /\ user # {} THEN [to |-> Home, redirect |-> {}]
    ELSE [to |-> to, redirect |-> {}]

Guard ==
    \E t \in Tabs : \E n \in tab[t].nav :
        /\ n.step = "guard" /\ tab[t].initialized
        /\ LET d == Destination(n.to, tab[t].user)
           IN  tab' = [tab EXCEPT ![t].nav = {[to |-> d.to, step |-> "code", redirect |-> d.redirect]},
                                  ![t].asked = IF n.to \in Guarded /\ d.to = Login THEN {n.to} ELSE {}]
        /\ UNCHANGED <<accounts, ids, jar, calls, fresh, clicks, faults>>

Show ==
    \E t \in Tabs : \E n \in tab[t].nav :
        /\ n.step = "code"
        /\ tab' = [tab EXCEPT ![t].nav = {}, ![t].shown = {n.to}, ![t].redirect = n.redirect,
                              ![t].submitting = @ /\ n.to \in tab[t].shown]
        /\ UNCHANGED <<accounts, ids, jar, calls, fresh, clicks, faults>>
-----------------------------------------------------------------------------
(***************************************************************************)
(* The user.                                                               *)
(***************************************************************************)
Click == clicks < MaxClicks /\ clicks' = clicks + 1 /\ UNCHANGED <<accounts, ids, jar, faults>>

(* A tab is opened or loaded again; what it waited for is lost.            *)
Open ==
    \E t \in Tabs, p \in Pages :
        /\ Click
        /\ tab' = [tab EXCEPT ![t] = [Closed EXCEPT !.open = TRUE, !.nav = Navigation(p)]]
        /\ calls' = {c \in calls : c.tab # t} \cup Initialize(t)
        /\ fresh' = fresh \cup {t}

(* The pages' links, and the browser's buttons once a page is shown.       *)
Navigate ==
    \E t \in Tabs, p \in Pages :
        /\ tab[t].shown # {} /\ p \notin tab[t].shown /\ Click
        /\ tab' = [tab EXCEPT ![t].nav = Navigation(p)]
        /\ UNCHANGED <<calls, fresh>>

HandleSubmit ==
    \E t \in Tabs, u \in Usernames :
        /\ tab[t].shown = {Login} /\ ~tab[t].submitting /\ Click
        /\ tab' = [tab EXCEPT ![t].submitting = TRUE]
        /\ calls' = calls \cup {[Call("login", t) EXCEPT !.name = {u}]}
        /\ UNCHANGED fresh

HandleLogout ==
    \E t \in Tabs :
        /\ tab[t].shown # {} /\ tab[t].shown # {Login} /\ Click
        /\ calls' = calls \cup {Call("logout", t)}
        /\ UNCHANGED <<tab, fresh>>
-----------------------------------------------------------------------------
(***************************************************************************)
(* The backend. A login is refused without an account or with a wrong      *)
(* password; the password itself is left out.                              *)
(***************************************************************************)
Refused == {[ok |-> FALSE, user |-> {}, cookie |-> {}]}

\* Mutant: a token is accepted as long as it has not expired.
MutantMe(c) == IF \E k \in c.tokens : ~k.expired
               THEN {[ok |-> TRUE, user |-> {k.name : k \in c.tokens}, cookie |-> c.tokens]} ELSE Refused

Me(c) == IF Validate(c.tokens)
         THEN {[ok |-> TRUE, user |-> {k.name : k \in c.tokens}, cookie |-> c.tokens]} ELSE Refused

LogsIn(c) == \E u \in c.name : accounts[u] # {}

Serve ==
    \E c \in calls :
        /\ c.answer = {}
        /\ \E reply \in
              CASE c.kind = "me" -> {Me(c)}
                [] c.kind = "login" ->
                     {Refused} \cup (IF LogsIn(c)
                        THEN {{[ok |-> TRUE, user |-> c.name, cookie |-> {Token(u) : u \in c.name}]}}
                        ELSE {})
                [] c.kind = "logout" -> {{[ok |-> TRUE, user |-> {}, cookie |-> {}]}} :
              calls' = (calls \ {c}) \cup {[c EXCEPT !.answer = reply]}
        /\ UNCHANGED <<accounts, ids, jar, tab, fresh, clicks, faults>>

Fault == faults < MaxFaults /\ faults' = faults + 1

(* A backend that starts makes the account it is configured with, if there *)
(* is none; an account is only lost with the database.                     *)
EnsureAdminUserExists ==
    \E u \in Usernames :
        /\ accounts[u] = {} /\ ids < MaxIds
        /\ ids' = ids + 1
        /\ accounts' = [accounts EXCEPT ![u] = {ids'}]
        /\ fresh' = {}
        /\ UNCHANGED <<jar, tab, calls, clicks, faults>>

DatabaseReplaced ==
    \E u \in Usernames :
        /\ accounts[u] # {} /\ Fault
        /\ accounts' = [accounts EXCEPT ![u] = {}]
        /\ fresh' = {}
        /\ UNCHANGED <<ids, jar, tab, calls, clicks>>

TokenExpires ==
    \E k \in jar :
        /\ ~k.expired /\ Fault
        /\ jar' = {[k EXCEPT !.expired = TRUE]}
        /\ calls' = {[c EXCEPT !.tokens = {[x EXCEPT !.expired = TRUE] : x \in c.tokens}] : c \in calls}
        /\ fresh' = {}
        /\ UNCHANGED <<accounts, ids, tab, clicks>>
-----------------------------------------------------------------------------
(***************************************************************************)
(* The answers.                                                            *)
(***************************************************************************)
Store(t, user) == [tab[t] EXCEPT !.user = user, !.initialized = TRUE]

Ends(c) == calls' = calls \ {c} /\ UNCHANGED <<accounts, ids, clicks>>

MeAnswered ==
    \E c \in calls : \E r \in c.answer :
        /\ c.kind = "me" /\ Ends(c)
        /\ tab' = [tab EXCEPT ![c.tab] = Store(c.tab, r.user)]
        /\ UNCHANGED <<jar, fresh, faults>>

LoginTarget(t) == IF tab[t].redirect = {} THEN {Home} ELSE tab[t].redirect

LoginAnswered ==
    \E c \in calls : \E r \in c.answer :
        /\ c.kind = "login" /\ r.ok /\ Ends(c)
        /\ jar' = r.cookie /\ fresh' = {}
        /\ tab' = [tab EXCEPT ![c.tab] =
              [Store(c.tab, r.user) EXCEPT !.nav = UNION {Navigation(p) : p \in LoginTarget(c.tab)},
                                           !.submitting = FALSE]]
        /\ UNCHANGED faults

\* Mutant: the tab stays where it is, or goes on where it was going.
MutantLogoutAnswered ==
    \E c \in calls : \E r \in c.answer :
        /\ c.kind = "logout" /\ Ends(c)
        /\ jar' = r.cookie /\ fresh' = {}
        /\ tab' = [tab EXCEPT ![c.tab] = Store(c.tab, {})]
        /\ UNCHANGED faults

LogoutAnswered ==
    \E c \in calls : \E r \in c.answer :
        /\ c.kind = "logout" /\ Ends(c)
        /\ jar' = r.cookie /\ fresh' = {}
        /\ tab' = [tab EXCEPT ![c.tab] = [Store(c.tab, {}) EXCEPT !.nav = Navigation(Login)]]
        /\ UNCHANGED faults

LoginRefused ==
    \E c \in calls : \E r \in c.answer :
        /\ c.kind = "login" /\ ~r.ok /\ Ends(c)
        /\ tab' = [tab EXCEPT ![c.tab].submitting = FALSE]
        /\ UNCHANGED <<jar, fresh, faults>>

(* A request that fails, served or not: nobody is logged in for a tab that *)
(* could not ask, and a logout that failed leaves the tab as it is.        *)
\* Mutant: the store does not know who is logged in when asking failed.
MutantRequestFails ==
    \E c \in calls :
        /\ Fault /\ Ends(c)
        /\ tab' = [tab EXCEPT ![c.tab] = IF c.kind = "login" THEN [@ EXCEPT !.submitting = FALSE] ELSE @]
        /\ fresh' = fresh \ {c.tab}
        /\ UNCHANGED jar

RequestFails ==
    \E c \in calls :
        /\ Fault /\ Ends(c)
        /\ tab' = [tab EXCEPT ![c.tab] =
              CASE c.kind = "me" -> Store(c.tab, {})
                [] c.kind = "login" -> [@ EXCEPT !.submitting = FALSE]
                [] c.kind = "logout" -> @]
        /\ fresh' = fresh \ {c.tab}
        /\ UNCHANGED jar
-----------------------------------------------------------------------------
User == Open \/ Navigate \/ HandleSubmit \/ HandleLogout
Router == Guard \/ Show
Handled == MeAnswered \/ LoginAnswered \/ LogoutAnswered \/ LoginRefused
World == EnsureAdminUserExists \/ DatabaseReplaced \/ TokenExpires \/ RequestFails

Next == User \/ Router \/ Serve \/ Handled \/ World

(* Requests are answered, and the browser goes on with what it has begun.  *)
Fairness == WF_vars(Router) /\ WF_vars(Serve) /\ WF_vars(Handled)

Spec == Init /\ [][Next]_vars /\ Fairness
-----------------------------------------------------------------------------
(* A tab that does not know who is logged in is asking, once.              *)
TypeOK ==
    /\ \A u \in Usernames : accounts[u] \subseteq 1..ids /\ Cardinality(accounts[u]) <= 1
    /\ Cardinality(jar) <= 1
    /\ \A t \in Tabs :
          /\ tab[t].shown \subseteq Pages /\ tab[t].user \subseteq Usernames
          /\ Cardinality(tab[t].nav) <= 1 /\ Cardinality(tab[t].shown) <= 1
          /\ Cardinality({c \in calls : c.kind = "me" /\ c.tab = t})
               = (IF tab[t].open /\ ~tab[t].initialized THEN 1 ELSE 0)

(* A page that requires a login comes on in a tab only while its store has *)
(* a user, also when its code was still loading when the user logged out.  *)
GuardedByUser ==
    \A t \in Tabs :
      tab'[t].shown # tab[t].shown /\ tab'[t].shown \subseteq Guarded /\ tab'[t].open
          /\ tab'[t].shown # {} => tab[t].user # {}
GuardedNeedsUser == [][GuardedByUser]_vars

(* A tab that was opened since the session last changed anywhere, and could*)
(* ask, shows the login exactly when the backend would accept nobody: the  *)
(* other tabs' logins and logouts and replaced accounts reach it.          *)
FreshTabAgrees ==
    \A t \in fresh :
        tab[t].nav = {} /\ tab[t].shown # {} => (tab[t].shown = {Login} <=> ~Validate(jar))

(* A login leads to the page that was refused to the tab before, or home.  *)
ReturnsToAsked ==
    \A t \in Tabs :
      tab[t].user = {} /\ tab'[t].user # {} /\ tab[t].shown = {Login} /\ tab[t].nav = {}
         => {n.to : n \in tab'[t].nav} = (IF tab[t].asked = {} THEN {Home} ELSE tab[t].asked)
LoginReturns == [][ReturnsToAsked]_vars

(* A tab that was opened shows a page, also when asking failed.            *)
FirstPageShown ==
    \A t \in Tabs : tab[t].open /\ tab[t].shown = {} ~> tab[t].shown # {}
=============================================================================
