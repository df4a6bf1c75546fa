-------------------------- MODULE ContractDocuments --------------------------
(***************************************************************************)
(* What the contract-document component promises to who asks for a PDF,    *)
(* with no queue, worker, cache or lock in it: contracts and the unit      *)
(* change, and a request is answered with a revision that was current at   *)
(* some moment since it was asked, or not at all.                          *)
(***************************************************************************)
EXTENDS Naturals

CONSTANTS Contracts, Terms, Faces, Requests

VARIABLES life, terms, face,
          ask    \* the requests for a PDF: what each may be told, or was told

docVars == <<life, terms, face, ask>>

Silent == [pc |-> "silent"]

Now(c, l, t, f) == IF l[c] = "live" THEN {<<t[c], f>>} ELSE {}

\* Every open request has seen what its contract is after the step.
Seeing(l, t, f) ==
  [k \in Requests |-> IF ask[k].pc = "asked"
                      THEN [ask[k] EXCEPT !.seen = @ \union Now(ask[k].contract, l, t, f)]
                      ELSE ask[k]]

Init ==
  /\ life = [c \in Contracts |-> "unborn"]
  /\ terms \in [Contracts -> Terms]
  /\ face \in Faces
  /\ ask = [k \in Requests |-> Silent]

\* A contract is created, edited, or deleted for good.
ChangeContract(c) ==
  /\ \/ life[c] = "unborn" /\ life' = [life EXCEPT ![c] = "live"]
     \/ life[c] = "live" /\ \E s \in {"live", "deleted"} : life' = [life EXCEPT ![c] = s]
  /\ \E t \in Terms : terms' = [terms EXCEPT ![c] = t]
  /\ face' = face
  /\ ask' = Seeing(life', terms', face')

ChangeUnit ==
  /\ face' \in Faces
  /\ life' = life /\ terms' = terms
  /\ ask' = Seeing(life', terms', face')

AskFor(k, c) ==
  /\ ask[k] = Silent
  /\ ask' = [ask EXCEPT ![k] = [pc |-> "asked", contract |-> c, seen |-> Now(c, life, terms, face)]]
  /\ UNCHANGED <<life, terms, face>>

Deliver(k) ==
  /\ ask[k].pc = "asked"
  /\ \E r \in ask[k].seen :
       ask' = [ask EXCEPT ![k] = [pc |-> "told", contract |-> ask[k].contract, rev |-> r]]
  /\ UNCHANGED <<life, terms, face>>

\* Requests end, answered or refused; a crash ends all of them.
End ==
  /\ \E K \in SUBSET Requests : ask' = [k \in Requests |-> IF k \in K THEN Silent ELSE ask[k]]
  /\ UNCHANGED <<life, terms, face>>

Next == \/ \E c \in Contracts : ChangeContract(c)
        \/ ChangeUnit
        \/ \E k \in Requests : Deliver(k) \/ \E c \in Contracts : AskFor(k, c)
        \/ End

Spec == Init /\ [][Next]_docVars
=============================================================================
