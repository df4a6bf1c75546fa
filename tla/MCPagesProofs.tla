---------------------------- MODULE MCPagesProofs ----------------------------
(***************************************************************************)
(* Proofs about the pages of MCPages, for any number of documents,         *)
(* records, clicks and failures.                                           *)
(***************************************************************************)
EXTENDS MCPages, Sequences, FiniteSetTheorems, TLAPS

AtMostOne(S) == \A x, y \in S : x = y

\* No or one element is at most one.
LEMMA AtMostOneCounts == ASSUME NEW S, AtMostOne(S) PROVE Cardinality(S) <= 1
  <1>1. CASE S = {} BY <1>1, FS_EmptySet
  <1>2. CASE S # {}
    <2>1. PICK x : S = {x} BY <1>2 DEF AtMostOne
    <2>2. Cardinality({x}) = 1 BY FS_Singleton
    <2> QED BY <2>1, <2>2
  <1> QED BY <1>1, <1>2

-----------------------------------------------------------------------------
(* Documents that are polled *)

Waiting == {"pending", "processing"}
Ended == {"ready", "failed"}
Answers == [state : Waiting \cup Ended, attempt : Nat]

\* A call for a document, with its answer once there is one.
IsPoll(c) ==
    /\ c = [kind |-> c.kind, id |-> c.id, batch |-> c.batch, latest |-> c.latest,
            answer |-> c.answer]
    /\ c.kind \in {"status", "download", "retry"} /\ c.id \in Documents
    /\ c.latest \in BOOLEAN /\ c.answer \in SUBSET Answers

PollTypes ==
    /\ doc \in [Documents -> Answers]
    /\ shown \in [Documents -> [state : Waiting \cup Ended \cup {"none"}, attempt : Nat,
                                error : BOOLEAN]]
    /\ pending \in SUBSET Documents /\ visible \in SUBSET Documents
    /\ timer \in SUBSET Documents /\ retrying \in SUBSET Documents
    /\ disposed \in BOOLEAN
    /\ \A c \in polls : IsPoll(c)

\* One call for a document is the last, and one is a retry if that is under way.
CallsApart ==
    /\ \A b, c \in polls : b.id = c.id /\ b.latest /\ c.latest => b = c
    /\ \A b, c \in polls : b.id = c.id /\ b.kind = "retry" /\ c.kind = "retry" => b = c
    /\ retrying = {c.id : c \in {b \in polls : b.kind = "retry"}}

\* What is shown is not newer than the document or the answer that counts.
AttemptsGrow ==
    /\ \A id \in Documents :
          /\ shown[id].attempt <= doc[id].attempt
          /\ shown[id].state = "none" =>
                doc[id].attempt = 0 /\ \A c \in polls : c.id = id => c.kind # "retry"
    /\ \A c \in polls : \A a \in c.answer :
          /\ a.attempt <= doc[c.id].attempt
          /\ c.latest => shown[c.id].attempt <= a.attempt

Followed == Polling!DownloadsArePolled /\ Polling!NothingAfterLeaving

PollInv == PollTypes /\ CallsApart /\ AttemptsGrow /\ Followed

LEMMA PollInit == Polling!Init => PollInv
  <1> SUFFICES ASSUME Polling!Init PROVE PollInv OBVIOUS
  <1> USE DEF Polling!Init
  <1>1. PollTypes
    <2>1. doc \in [Documents -> Answers] BY DEF Answers, Waiting, Ended
    <2>2. shown \in [Documents -> [state : Waiting \cup Ended \cup {"none"}, attempt : Nat,
                                   error : BOOLEAN]]
      OBVIOUS
    <2> QED BY <2>1, <2>2 DEF PollTypes
  <1>2. CallsApart BY DEF CallsApart
  <1>3. AttemptsGrow BY DEF AttemptsGrow
  <1>4. Followed BY DEF Followed, Polling!DownloadsArePolled, Polling!NothingAfterLeaving
  <1> QED BY <1>1, <1>2, <1>3, <1>4 DEF PollInv

\* The calls after some are begun: the earlier ones for their documents are stale.
Stale(c, ids) ==
    [kind |-> c.kind, id |-> c.id, batch |-> c.batch, latest |-> c.latest /\ c.id \notin ids,
     answer |-> c.answer]

LEMMA NextRequestIs ==
    ASSUME PollInv, NEW ids
    PROVE  Polling!NextRequest(ids) = {Stale(c, ids) : c \in polls}
  BY DEF PollInv, PollTypes, IsPoll, Stale, Polling!NextRequest

\* New calls, one for each of some documents, keep what is said of calls.
LEMMA BeginKeeps ==
    ASSUME PollInv, NEW ids \in SUBSET Documents, NEW new,
           \A c \in new : IsPoll(c) /\ c.id \in ids /\ c.answer = {},
           \A b, c \in new : b.id = c.id => b = c,
           \A c \in new : c.kind = "retry" => c.id \notin retrying /\ shown[c.id].state # "none",
           polls' = Polling!NextRequest(ids) \cup new,
           retrying' = retrying \cup {c.id : c \in {b \in new : b.kind = "retry"}},
           shown' = shown, doc' = doc
    PROVE  (\A c \in polls' : IsPoll(c)) /\ CallsApart' /\ AttemptsGrow'
  <1>1. polls' = {Stale(c, ids) : c \in polls} \cup new BY NextRequestIs
  <1>2. \A c \in polls : IsPoll(c) BY DEF PollInv, PollTypes
  <1>3. ASSUME NEW c \in polls'
        PROVE  /\ IsPoll(c)
               /\ \/ c \in new
                  \/ \E b \in polls : /\ c = Stale(b, ids) /\ c.id = b.id /\ c.kind = b.kind
                                      /\ c.answer = b.answer
                                      /\ (c.latest <=> b.latest /\ b.id \notin ids)
    <2>1. CASE c \in new BY <2>1
    <2>2. ASSUME NEW b \in polls, c = Stale(b, ids)
          PROVE  /\ IsPoll(c) /\ c.id = b.id /\ c.kind = b.kind /\ c.answer = b.answer
                 /\ c.latest <=> b.latest /\ b.id \notin ids
      BY <1>2, <2>2 DEF IsPoll, Stale
    <2> QED BY <1>1, <2>1, <2>2
  <1>4. \A b, c \in polls' : b.id = c.id /\ b.latest /\ c.latest => b = c
    BY <1>3 DEF PollInv, CallsApart
  <1>5. \A b, c \in polls' : b.id = c.id /\ b.kind = "retry" /\ c.kind = "retry" => b = c
    BY <1>3 DEF PollInv, CallsApart
  <1>6. retrying' = {c.id : c \in {b \in polls' : b.kind = "retry"}}
    <2>1. ASSUME NEW id \in retrying' PROVE \E c \in polls' : c.kind = "retry" /\ c.id = id
      <3>1. CASE id \in retrying
        <4>1. PICK b \in polls : b.kind = "retry" /\ b.id = id BY <3>1 DEF PollInv, CallsApart
        <4>2. Stale(b, ids) \in polls' BY <1>1
        <4> QED BY <4>1, <4>2 DEF Stale
      <3>2. CASE \E c \in new : c.kind = "retry" /\ c.id = id BY <1>1, <3>2
      <3> QED BY <3>1, <3>2
    <2>2. ASSUME NEW c \in polls', c.kind = "retry" PROVE c.id \in retrying'
      BY <1>3, <2>2 DEF PollInv, CallsApart
    <2> QED BY <2>1, <2>2
  <1>7. AttemptsGrow' BY <1>3 DEF PollInv, AttemptsGrow
  <1> QED BY <1>3, <1>4, <1>5, <1>6, <1>7 DEF CallsApart

\* A call that ends shows the state it was answered, or what was shown before.
LEMMA EndKeeps ==
    ASSUME PollInv, NEW c \in polls, polls' = polls \ {c}, doc' = doc,
           retrying' = IF c.kind = "retry" THEN retrying \ {c.id} ELSE retrying,
           \A id \in Documents :
              \/ shown'[id].attempt = shown[id].attempt /\ shown'[id].state = shown[id].state
              \/ /\ id = c.id /\ (c.latest \/ shown[id].state = "none")
                 /\ \E a \in c.answer :
                       shown'[id].attempt = a.attempt /\ shown'[id].state = a.state
    PROVE  /\ (\A b \in polls' : IsPoll(b)) /\ CallsApart' /\ AttemptsGrow'
           /\ Polling!ShownGoesOn
  <1>1. \A b \in polls : IsPoll(b) BY DEF PollInv, PollTypes
  <1>2. CallsApart' BY DEF PollInv, CallsApart
  <1>3. \A a \in Answers : a.attempt \in Nat /\ a.state # "none" BY DEF Answers, Waiting, Ended
  <1>4. \A b \in polls : b.id \in Documents /\ \A a \in b.answer : a \in Answers
    BY <1>1 DEF IsPoll
  <1>5. \A id \in Documents : shown[id].attempt \in Nat /\ doc[id].attempt \in Nat
    BY DEF PollInv, PollTypes, Answers
  <1>6. ASSUME NEW id \in Documents
        PROVE  /\ shown'[id].attempt >= shown[id].attempt
               /\ shown'[id].attempt <= doc[id].attempt
               /\ shown'[id].state = "none" =>
                    doc[id].attempt = 0 /\ \A b \in polls : b.id = id => b.kind # "retry"
    BY <1>3, <1>4, <1>5 DEF PollInv, AttemptsGrow
  <1>7. ASSUME NEW b \in polls', NEW a \in b.answer
        PROVE  a.attempt <= doc[b.id].attempt /\ (b.latest => shown'[b.id].attempt <= a.attempt)
    <2>1. b \in polls /\ b # c /\ b.id \in Documents /\ a \in Answers BY <1>4
    <2>2. a.attempt <= doc[b.id].attempt /\ (b.latest => shown[b.id].attempt <= a.attempt)
      BY <2>1 DEF PollInv, AttemptsGrow
    <2>3. b.latest /\ c.latest => b.id # c.id BY <2>1 DEF PollInv, CallsApart
    <2>4. CASE shown'[b.id].attempt = shown[b.id].attempt BY <2>2, <2>4
    <2>5. CASE shown[b.id].state = "none"
      <3>1. doc[b.id].attempt = 0 BY <2>1, <2>5 DEF PollInv, AttemptsGrow
      <3>2. shown'[b.id].attempt <= 0 BY <1>6, <2>1, <3>1
      <3> QED BY <1>3, <1>5, <2>1, <2>2, <3>1, <3>2, <1>6
    <2> QED BY <2>1, <2>2, <2>3, <2>4, <2>5
  <1> QED BY <1>1, <1>2, <1>6, <1>7 DEF AttemptsGrow, Polling!ShownGoesOn

\* Of the documents asked for, the poll is planned for all that wait.
LEMMA ScheduleFollows ==
    ASSUME Polling!SchedulePoll, \A id \in pending' : shown'[id].state \in Waiting,
           disposed' => pending' = {},
           pending' \in SUBSET Documents, visible' \in SUBSET Documents
    PROVE  Followed' /\ timer' \in SUBSET Documents
  BY DEF Polling!SchedulePoll, Followed, Polling!DownloadsArePolled, Polling!NothingAfterLeaving,
         Polling!Waiting, Waiting

\* Calls for some documents, one for each.
LEMMA NewCalls ==
    ASSUME NEW kind \in {"status", "download", "retry"}, NEW ids \in SUBSET Documents, NEW batch
    PROVE  \A id \in ids : LET c == Polling!NewCall(kind, id, batch)
                           IN  IsPoll(c) /\ c.kind = kind /\ c.id = id /\ c.answer = {}
  BY DEF Polling!NewCall, IsPoll

\* The refresh of some documents.
LEMMA RefreshKeeps ==
    ASSUME PollInv, NEW ids \in SUBSET Documents, Polling!Refresh(ids),
           UNCHANGED <<doc, shown, retrying>>
    PROVE  /\ (\A c \in polls' : IsPoll(c)) /\ CallsApart' /\ AttemptsGrow'
           /\ ids # {} => \E c \in polls' : c.kind = "status"
  <1> DEFINE call(id) == Polling!NewCall("status", id, Polling!Batch)
             new == {call(id) : id \in ids}
  <1>1. polls' = Polling!NextRequest(ids) \cup new BY DEF Polling!Refresh
  <1>2. \A id \in ids : /\ IsPoll(call(id)) /\ call(id).kind = "status" /\ call(id).id = id
                        /\ call(id).answer = {}
    BY NewCalls
  <1> HIDE DEF call
  <1>3. \A c \in new : IsPoll(c) /\ c.kind = "status" /\ c.id \in ids /\ c.answer = {} BY <1>2
  <1>4. \A b, c \in new : b.id = c.id => b = c BY <1>2
  <1>5. ids # {} => \E c \in new : c.kind = "status" BY <1>2
  <1> HIDE DEF new
  <1>6. \A c \in new : c.kind # "retry" BY <1>3
  <1>7. retrying' = retrying \cup {c.id : c \in {b \in new : b.kind = "retry"}} BY <1>6
  <1> QED BY <1>1, <1>3, <1>4, <1>5, <1>6, <1>7, BeginKeeps

\* The user, as far as he begins a call.
LEMMA TrackKeeps == ASSUME PollInv, Polling!Track PROVE PollInv'
  <1>1. PICK ids \in SUBSET Documents :
          /\ ids # visible /\ Polling!Click
          /\ visible' = ids
          /\ UNCHANGED <<doc, shown, pending, retrying, disposed>>
          /\ \/ ids # {} /\ Polling!Refresh(ids) /\ timer' = {}
             \/ ids = {} /\ Polling!SchedulePoll /\ UNCHANGED polls
    BY DEF Polling!Track
  <1>2. ~disposed BY <1>1 DEF Polling!Click
  <1>3. CASE ids # {} /\ Polling!Refresh(ids) /\ timer' = {}
    <2>1. /\ (\A c \in polls' : IsPoll(c)) /\ CallsApart' /\ AttemptsGrow'
          /\ \E c \in polls' : c.kind = "status"
      BY <1>1, <1>3, RefreshKeeps
    <2>2. Followed'
      BY <1>1, <1>2, <2>1 DEF Followed, Polling!DownloadsArePolled, Polling!NothingAfterLeaving,
         PollInv
    <2> QED BY <1>1, <1>3, <2>1, <2>2 DEF PollInv, PollTypes
  <1>4. CASE ids = {} /\ Polling!SchedulePoll /\ UNCHANGED polls
    <2>1. Followed' /\ timer' \in SUBSET Documents
      BY <1>1, <1>2, <1>4, ScheduleFollows
         DEF PollInv, PollTypes, Followed, Polling!DownloadsArePolled, Polling!Waiting, Waiting
    <2>2. CallsApart' /\ AttemptsGrow' BY <1>1, <1>4 DEF PollInv, CallsApart, AttemptsGrow
    <2> QED BY <1>1, <1>4, <2>1, <2>2 DEF PollInv, PollTypes
  <1> QED BY <1>1, <1>3, <1>4

LEMMA RefreshesKeep == ASSUME PollInv, Polling!RefreshOne \/ Polling!TimerFires PROVE PollInv'
  <1>1. CASE Polling!RefreshOne
    <2>1. PICK id \in visible :
            /\ Polling!Refresh({id}) /\ ~disposed
            /\ UNCHANGED <<doc, shown, pending, visible, timer, retrying, disposed>>
      BY <1>1 DEF Polling!RefreshOne, Polling!Click
    <2>2. {id} \in SUBSET Documents BY <2>1 DEF PollInv, PollTypes
    <2>3. /\ (\A c \in polls' : IsPoll(c)) /\ CallsApart' /\ AttemptsGrow'
          /\ \E c \in polls' : c.kind = "status"
      BY <2>1, <2>2, RefreshKeeps
    <2>4. Followed'
      BY <2>1, <2>3 DEF Followed, Polling!DownloadsArePolled, Polling!NothingAfterLeaving, PollInv
    <2> QED BY <2>1, <2>3, <2>4 DEF PollInv, PollTypes
  <1>2. CASE Polling!TimerFires
    <2>1. /\ timer # {} /\ Polling!Refresh(timer) /\ timer' = {}
          /\ UNCHANGED <<doc, shown, pending, visible, retrying, disposed>>
      BY <1>2 DEF Polling!TimerFires
    <2>2. timer \in SUBSET Documents BY DEF PollInv, PollTypes
    <2>3. /\ (\A c \in polls' : IsPoll(c)) /\ CallsApart' /\ AttemptsGrow'
          /\ \E c \in polls' : c.kind = "status"
      BY <2>1, <2>2, RefreshKeeps
    <2>4. Followed'
      BY <2>1, <2>3 DEF Followed, Polling!DownloadsArePolled, Polling!NothingAfterLeaving, PollInv
    <2> QED BY <2>1, <2>3, <2>4 DEF PollInv, PollTypes
  <1> QED BY <1>1, <1>2

\* A call that was begun is followed by the poll that was planned or is under way.
LEMMA StaleStatus ==
    ASSUME PollInv, NEW ids, NEW new, polls' = Polling!NextRequest(ids) \cup new,
           UNCHANGED <<shown, pending, timer, disposed>>
    PROVE  Followed'
  <1>1. \A c \in polls : Stale(c, ids) \in polls' /\ Stale(c, ids).kind = c.kind
    BY NextRequestIs DEF Stale
  <1> QED BY <1>1 DEF Followed, Polling!DownloadsArePolled, Polling!NothingAfterLeaving, PollInv

LEMMA ClicksKeep == ASSUME PollInv, Polling!Download \/ Polling!Retry PROVE PollInv'
  <1> DEFINE batch(kind) == IF kind = "download" THEN Polling!Batch ELSE 0
  <1>1. PICK kind \in {"download", "retry"}, id \in Documents :
          /\ polls' = Polling!NextRequest({id}) \cup {Polling!NewCall(kind, id, batch(kind))}
          /\ kind = "retry" => id \notin retrying /\ shown[id].state = "failed"
          /\ retrying' = IF kind = "retry" THEN retrying \cup {id} ELSE retrying
          /\ UNCHANGED <<doc, shown, pending, visible, timer, disposed>>
    BY DEF Polling!Download, Polling!Retry, PollInv, PollTypes
  <1>2. PICK c : c = Polling!NewCall(kind, id, batch(kind)) OBVIOUS
  <1> HIDE DEF batch
  <1>3. id \in Documents /\ {id} \in SUBSET Documents OBVIOUS
  <1>4. IsPoll(c) /\ c.kind = kind /\ c.id = id /\ c.answer = {}
    BY <1>2, <1>3 DEF Polling!NewCall, IsPoll
  <1>5. polls' = Polling!NextRequest({id}) \cup {c} BY <1>1, <1>2
  <1>6. retrying' = retrying \cup {b.id : b \in {a \in {c} : a.kind = "retry"}} BY <1>1, <1>4
  <1>7. /\ \A b \in {c} : IsPoll(b) /\ b.id \in {id} /\ b.answer = {}
        /\ \A a, b \in {c} : a.id = b.id => a = b
        /\ \A b \in {c} : b.kind = "retry" => b.id \notin retrying /\ shown[b.id].state # "none"
    BY <1>1, <1>4
  <1>8. (\A b \in polls' : IsPoll(b)) /\ CallsApart' /\ AttemptsGrow'
    <2>1. PICK new : new = {c} OBVIOUS
    <2>2. PICK ids : ids = {id} OBVIOUS
    <2>3. /\ \A b \in new : IsPoll(b) /\ b.id \in ids /\ b.answer = {}
          /\ \A a, b \in new : a.id = b.id => a = b
          /\ \A b \in new : b.kind = "retry" => b.id \notin retrying /\ shown[b.id].state # "none"
          /\ polls' = Polling!NextRequest(ids) \cup new
          /\ retrying' = retrying \cup {b.id : b \in {a \in new : a.kind = "retry"}}
          /\ ids \in SUBSET Documents
      BY <1>3, <1>5, <1>6, <1>7, <2>1, <2>2
    <2> QED BY <1>1, <2>3, BeginKeeps
  <1>9. Followed' BY <1>1, <1>5, StaleStatus
  <1>10. retrying' \in SUBSET Documents BY <1>1, <1>3 DEF PollInv, PollTypes
  <1> QED BY <1>1, <1>8, <1>9, <1>10 DEF PollInv, PollTypes

LEMMA DisposeKeeps == ASSUME PollInv, Polling!Dispose PROVE PollInv'
  BY DEF Polling!Dispose, PollInv, PollTypes, CallsApart, AttemptsGrow, Followed,
         Polling!DownloadsArePolled, Polling!NothingAfterLeaving

LEMMA GenerateKeeps == ASSUME PollInv, Polling!Generate PROVE PollInv'
  <1>1. PICK id \in Documents, state \in Waiting \cup Ended :
          /\ doc' = [doc EXCEPT ![id].state = state]
          /\ UNCHANGED <<shown, pending, visible, timer, polls, retrying, disposed>>
    BY DEF Polling!Generate, Waiting, Ended
  <1>2. doc' \in [Documents -> Answers] /\ \A d \in Documents : doc'[d].attempt = doc[d].attempt
    BY <1>1 DEF PollInv, PollTypes, Answers
  <1>3. AttemptsGrow' BY <1>1, <1>2 DEF PollInv, PollTypes, IsPoll, AttemptsGrow
  <1> QED
    BY <1>1, <1>2, <1>3 DEF PollInv, PollTypes, CallsApart, Followed, Polling!DownloadsArePolled,
       Polling!NothingAfterLeaving

\* The answer of the server is of the document as it is then.
LEMMA ServeKeeps == ASSUME PollInv, NEW c \in polls, Polling!Serve(c) PROVE PollInv'
  <1> DEFINE served == [c EXCEPT !.answer = {doc'[c.id]}]
  <1>1. /\ doc' = IF c.kind = "retry" /\ doc[c.id].state = "failed"
                  THEN [doc EXCEPT ![c.id] = [state |-> "pending", attempt |-> @.attempt + 1]]
                  ELSE doc
        /\ polls' = (polls \ {c}) \cup {served} /\ c.answer = {}
        /\ UNCHANGED <<shown, pending, visible, timer, retrying, disposed>>
    BY DEF Polling!Serve
  <1>2. \A b \in polls : IsPoll(b) BY DEF PollInv, PollTypes
  <1>3. c.id \in Documents BY <1>2 DEF IsPoll
  <1>4. /\ doc' \in [Documents -> Answers]
        /\ \A id \in Documents : /\ doc[id].attempt \in Nat /\ doc'[id].attempt \in Nat
                                 /\ doc[id].attempt <= doc'[id].attempt
                                 /\ shown[id].attempt \in Nat
        /\ \A id \in Documents : id # c.id \/ c.kind # "retry" => doc'[id] = doc[id]
    BY <1>1, <1>3 DEF PollInv, PollTypes, Answers, Waiting
  <1>5. /\ IsPoll(served) /\ served.id = c.id /\ served.kind = c.kind
        /\ served.latest = c.latest /\ served.answer = {doc'[c.id]}
    <2>1. doc'[c.id] \in Answers BY <1>3, <1>4
    <2> QED BY <1>2, <1>3, <2>1 DEF IsPoll
  <1> HIDE DEF served
  <1>6. CallsApart' BY <1>1, <1>5 DEF PollInv, CallsApart
  <1>7. ASSUME NEW id \in Documents
        PROVE  /\ shown[id].attempt <= doc'[id].attempt
               /\ shown[id].state = "none" =>
                    doc'[id].attempt = 0 /\ \A b \in polls' : b.id = id => b.kind # "retry"
    <2>1. shown[id].attempt <= doc'[id].attempt BY <1>4 DEF PollInv, AttemptsGrow
    <2>2. ASSUME shown[id].state = "none"
          PROVE  doc'[id].attempt = 0 /\ \A b \in polls' : b.id = id => b.kind # "retry"
      <3>1. doc[id].attempt = 0 /\ \A b \in polls : b.id = id => b.kind # "retry"
        BY <2>2 DEF PollInv, AttemptsGrow
      <3>2. id # c.id \/ c.kind # "retry" BY <3>1
      <3> QED BY <1>1, <1>4, <1>5, <3>1, <3>2
    <2> QED BY <2>1, <2>2
  <1>8. ASSUME NEW b \in polls', NEW a \in b.answer
        PROVE  a.attempt <= doc'[b.id].attempt /\ (b.latest => shown[b.id].attempt <= a.attempt)
    <2>1. CASE b = served BY <1>3, <1>4, <1>5, <1>7, <2>1
    <2>2. CASE b \in polls
      <3>1. a.attempt <= doc[b.id].attempt /\ (b.latest => shown[b.id].attempt <= a.attempt)
        BY <2>2 DEF PollInv, AttemptsGrow
      <3>2. b.id \in Documents /\ a.attempt \in Nat BY <1>2, <2>2 DEF IsPoll, Answers
      <3> QED BY <1>4, <3>1, <3>2
    <2> QED BY <1>1, <2>1, <2>2
  <1>9. AttemptsGrow' BY <1>1, <1>7, <1>8 DEF AttemptsGrow
  <1>10. Followed'
    BY <1>1, <1>5 DEF PollInv, Followed, Polling!DownloadsArePolled, Polling!NothingAfterLeaving
  <1>11. \A b \in polls' : IsPoll(b) BY <1>1, <1>2, <1>5
  <1> QED BY <1>1, <1>4, <1>6, <1>9, <1>10, <1>11 DEF PollInv, PollTypes

\* The end of a call that is not the last of its batch plans no poll.
LEMMA BatchFollows ==
    ASSUME PollInv, NEW c \in polls, Polling!BatchEnds(c), polls' = polls \ {c},
           \A id \in pending' : shown'[id].state \in Waiting, pending' \in SUBSET pending,
           UNCHANGED <<visible, disposed>>
    PROVE  Followed' /\ timer' \in SUBSET Documents
  <1>1. CASE \E other \in polls \ {c} : other.kind = "status" /\ other.batch = c.batch
    <2>1. timer' = timer BY <1>1 DEF Polling!BatchEnds
    <2> QED
      BY <1>1, <2>1 DEF PollInv, PollTypes, Followed, Polling!DownloadsArePolled,
         Polling!NothingAfterLeaving, Polling!Waiting, Waiting
  <1>2. CASE ~\E other \in polls \ {c} : other.kind = "status" /\ other.batch = c.batch
    <2>1. Polling!SchedulePoll BY <1>2 DEF Polling!BatchEnds
    <2>2. disposed' => pending' = {} BY DEF PollInv, Followed, Polling!NothingAfterLeaving
    <2>3. pending' \in SUBSET Documents /\ visible' \in SUBSET Documents BY DEF PollInv, PollTypes
    <2> QED BY <2>1, <2>2, <2>3, ScheduleFollows
  <1> QED BY <1>1, <1>2

\* What an answer that counts changes.
LEMMA Accepts ==
    ASSUME PollInv, NEW id \in Documents, NEW downloads \in SUBSET Documents,
           NEW answer, answer.state \in Waiting \cup Ended, answer.attempt \in Nat,
           Polling!AcceptStatus(id, answer, downloads), downloads \subseteq pending \cup {id}
    PROVE  /\ shown' \in [Documents -> [state : Waiting \cup Ended \cup {"none"}, attempt : Nat,
                                        error : BOOLEAN]]
           /\ shown'[id].attempt = answer.attempt /\ shown'[id].state = answer.state
           /\ \A other \in Documents : other # id => shown'[other] = shown[other]
           /\ pending' \subseteq downloads
           /\ \A d \in pending' : shown'[d].state \in Waiting
  <1>1. /\ shown' = [shown EXCEPT ![id] = [state |-> answer.state, attempt |-> answer.attempt,
                                           error |-> FALSE]]
        /\ pending' = IF answer.state \in Waiting THEN downloads ELSE downloads \ {id}
    BY DEF Polling!AcceptStatus, Polling!Shown, Polling!Waiting, Waiting
  <1>2. /\ shown' \in [Documents -> [state : Waiting \cup Ended \cup {"none"}, attempt : Nat,
                                     error : BOOLEAN]]
        /\ shown'[id].attempt = answer.attempt /\ shown'[id].state = answer.state
        /\ \A other \in Documents : other # id => shown'[other] = shown[other]
    BY <1>1 DEF PollInv, PollTypes
  <1>3. \A d \in pending : shown[d].state \in Waiting
    BY DEF PollInv, Followed, Polling!DownloadsArePolled, Polling!Waiting, Waiting
  <1>4. pending' \subseteq downloads BY <1>1
  <1>5. \A d \in pending' : shown'[d].state \in Waiting BY <1>1, <1>2, <1>3
  <1> QED BY <1>2, <1>4, <1>5

LEMMA StatusKeeps ==
    ASSUME PollInv, NEW c \in polls, Polling!StatusAnswered(c)
    PROVE  PollInv' /\ Polling!ShownGoesOn
  <1>1. PICK answer \in c.answer :
          /\ c.kind = "status" /\ polls' = polls \ {c}
          /\ IF c.latest /\ ~disposed
             THEN Polling!AcceptStatus(c.id, answer, pending) ELSE UNCHANGED <<shown, pending>>
          /\ UNCHANGED <<doc, visible, retrying, disposed>>
          /\ Polling!BatchEnds(c)
    BY DEF Polling!StatusAnswered
  <1>2. c.id \in Documents /\ answer.state \in Waiting \cup Ended /\ answer.attempt \in Nat
    BY DEF PollInv, PollTypes, IsPoll, Answers
  <1>3. /\ shown' \in [Documents -> [state : Waiting \cup Ended \cup {"none"}, attempt : Nat,
                                     error : BOOLEAN]]
        /\ pending' \in SUBSET pending /\ \A d \in pending' : shown'[d].state \in Waiting
        /\ \A id \in Documents :
              \/ shown'[id].attempt = shown[id].attempt /\ shown'[id].state = shown[id].state
              \/ /\ id = c.id /\ (c.latest \/ shown[id].state = "none")
                 /\ \E a \in c.answer :
                       shown'[id].attempt = a.attempt /\ shown'[id].state = a.state
    <2>1. CASE c.latest /\ ~disposed
      <3>1. pending \in SUBSET Documents /\ pending \subseteq pending \cup {c.id}
        BY DEF PollInv, PollTypes
      <3>2. Polling!AcceptStatus(c.id, answer, pending) BY <1>1, <2>1
      <3>3. /\ shown' \in [Documents -> [state : Waiting \cup Ended \cup {"none"}, attempt : Nat,
                                         error : BOOLEAN]]
            /\ shown'[c.id].attempt = answer.attempt /\ shown'[c.id].state = answer.state
            /\ \A other \in Documents : other # c.id => shown'[other] = shown[other]
            /\ pending' \subseteq pending
            /\ \A d \in pending' : shown'[d].state \in Waiting
        BY <1>2, <3>1, <3>2, Accepts
      <3> QED BY <2>1, <3>3
    <2>2. CASE ~(c.latest /\ ~disposed)
      BY <1>1, <2>2 DEF PollInv, PollTypes, Followed, Polling!DownloadsArePolled,
         Polling!Waiting, Waiting
    <2> QED BY <2>1, <2>2
  <1>4. Followed' /\ timer' \in SUBSET Documents BY <1>1, <1>3, BatchFollows
  <1>5. /\ (\A b \in polls' : IsPoll(b)) /\ CallsApart' /\ AttemptsGrow' /\ Polling!ShownGoesOn
    BY <1>1, <1>3, EndKeeps
  <1>6. PollTypes' BY <1>1, <1>3, <1>4, <1>5 DEF PollInv, PollTypes
  <1> QED BY <1>4, <1>5, <1>6 DEF PollInv

LEMMA DownloadKeeps ==
    ASSUME PollInv, NEW c \in polls, Polling!DownloadAnswered(c)
    PROVE  PollInv' /\ Polling!ShownGoesOn
  <1>1. PICK answer \in c.answer :
          /\ c.kind = "download" /\ polls' = polls \ {c}
          /\ UNCHANGED <<doc, visible, retrying, disposed>>
          /\ IF disposed THEN UNCHANGED <<shown, pending, timer>>
             ELSE LET known == IF ~c.latest /\ shown[c.id].state # "none"
                               THEN [state |-> shown[c.id].state, attempt |-> shown[c.id].attempt]
                               ELSE answer
                  IN  /\ Polling!AcceptStatus(c.id, known, pending \cup {c.id})
                      /\ Polling!SchedulePoll
    BY DEF Polling!DownloadAnswered
  <1>2. c.id \in Documents /\ answer.state \in Waiting \cup Ended /\ answer.attempt \in Nat
    BY DEF PollInv, PollTypes, IsPoll, Answers
  <1>3. CASE disposed
    <2>1. (\A b \in polls' : IsPoll(b)) /\ CallsApart' /\ AttemptsGrow' /\ Polling!ShownGoesOn
      BY <1>1, <1>3, EndKeeps
    <2>2. Followed'
      BY <1>1, <1>3 DEF PollInv, Followed, Polling!DownloadsArePolled, Polling!NothingAfterLeaving
    <2> QED BY <1>1, <1>3, <2>1, <2>2 DEF PollInv, PollTypes
  <1>4. CASE ~disposed
    <2>1. PICK known :
            /\ known = IF ~c.latest /\ shown[c.id].state # "none"
                       THEN [state |-> shown[c.id].state, attempt |-> shown[c.id].attempt]
                       ELSE answer
            /\ Polling!AcceptStatus(c.id, known, pending \cup {c.id}) /\ Polling!SchedulePoll
      BY <1>1, <1>4
    <2>2. shown[c.id].state \in Waiting \cup Ended \cup {"none"} /\ shown[c.id].attempt \in Nat
      BY <1>2 DEF PollInv, PollTypes
    <2>3. known.state \in Waiting \cup Ended /\ known.attempt \in Nat BY <1>2, <2>1, <2>2
    <2>4. pending \cup {c.id} \in SUBSET Documents BY <1>2 DEF PollInv, PollTypes
    <2>5. PICK downloads : downloads = pending \cup {c.id} OBVIOUS
    <2>6. /\ shown' \in [Documents -> [state : Waiting \cup Ended \cup {"none"}, attempt : Nat,
                                       error : BOOLEAN]]
          /\ shown'[c.id].attempt = known.attempt /\ shown'[c.id].state = known.state
          /\ \A other \in Documents : other # c.id => shown'[other] = shown[other]
          /\ pending' \subseteq downloads
          /\ \A d \in pending' : shown'[d].state \in Waiting
      <3>1. Polling!AcceptStatus(c.id, known, downloads) BY <2>1, <2>5
      <3>2. downloads \in SUBSET Documents /\ downloads \subseteq pending \cup {c.id}
        BY <2>4, <2>5
      <3> QED BY <1>2, <2>3, <3>1, <3>2, Accepts
    <2>7. pending' \in SUBSET Documents /\ visible' \in SUBSET Documents
      BY <1>1, <2>4, <2>5, <2>6 DEF PollInv, PollTypes
    <2>8. Followed' /\ timer' \in SUBSET Documents
      BY <1>1, <1>4, <2>1, <2>6, <2>7, ScheduleFollows
    <2>9. \A id \in Documents :
              \/ shown'[id].attempt = shown[id].attempt /\ shown'[id].state = shown[id].state
              \/ /\ id = c.id /\ (c.latest \/ shown[id].state = "none")
                 /\ \E a \in c.answer :
                       shown'[id].attempt = a.attempt /\ shown'[id].state = a.state
      BY <2>1, <2>6
    <2>10. (\A b \in polls' : IsPoll(b)) /\ CallsApart' /\ AttemptsGrow' /\ Polling!ShownGoesOn
      BY <1>1, <2>9, EndKeeps
    <2>11. PollTypes' BY <1>1, <2>6, <2>7, <2>8, <2>10 DEF PollInv, PollTypes
    <2> QED BY <2>8, <2>10, <2>11 DEF PollInv
  <1> QED BY <1>3, <1>4

LEMMA RetryKeeps ==
    ASSUME PollInv, NEW c \in polls, Polling!RetryAnswered(c)
    PROVE  PollInv' /\ Polling!ShownGoesOn
  <1>1. PICK answer \in c.answer :
          /\ c.kind = "retry" /\ polls' = polls \ {c}
          /\ retrying' = retrying \ {c.id}
          /\ IF c.latest /\ ~disposed
             THEN Polling!AcceptStatus(c.id, answer, pending) ELSE UNCHANGED <<shown, pending>>
          /\ UNCHANGED <<doc, visible, disposed>>
          /\ Polling!SchedulePoll
    BY DEF Polling!RetryAnswered
  <1>2. c.id \in Documents /\ answer.state \in Waiting \cup Ended /\ answer.attempt \in Nat
    BY DEF PollInv, PollTypes, IsPoll, Answers
  <1>3. /\ shown' \in [Documents -> [state : Waiting \cup Ended \cup {"none"}, attempt : Nat,
                                     error : BOOLEAN]]
        /\ pending' \in SUBSET pending /\ \A d \in pending' : shown'[d].state \in Waiting
        /\ \A id \in Documents :
              \/ shown'[id].attempt = shown[id].attempt /\ shown'[id].state = shown[id].state
              \/ /\ id = c.id /\ (c.latest \/ shown[id].state = "none")
                 /\ \E a \in c.answer :
                       shown'[id].attempt = a.attempt /\ shown'[id].state = a.state
    <2>1. CASE c.latest /\ ~disposed
      <3>1. pending \in SUBSET Documents /\ pending \subseteq pending \cup {c.id}
        BY DEF PollInv, PollTypes
      <3>2. Polling!AcceptStatus(c.id, answer, pending) BY <1>1, <2>1
      <3>3. /\ shown' \in [Documents -> [state : Waiting \cup Ended \cup {"none"}, attempt : Nat,
                                         error : BOOLEAN]]
            /\ shown'[c.id].attempt = answer.attempt /\ shown'[c.id].state = answer.state
            /\ \A other \in Documents : other # c.id => shown'[other] = shown[other]
            /\ pending' \subseteq pending
            /\ \A d \in pending' : shown'[d].state \in Waiting
        BY <1>2, <3>1, <3>2, Accepts
      <3> QED BY <2>1, <3>3
    <2>2. CASE ~(c.latest /\ ~disposed)
      BY <1>1, <2>2 DEF PollInv, PollTypes, Followed, Polling!DownloadsArePolled,
         Polling!Waiting, Waiting
    <2> QED BY <2>1, <2>2
  <1>4. pending' \in SUBSET Documents /\ visible' \in SUBSET Documents
    BY <1>1, <1>3 DEF PollInv, PollTypes
  <1>5. disposed' => pending' = {} BY <1>1, <1>3 DEF PollInv, Followed, Polling!NothingAfterLeaving
  <1>6. Followed' /\ timer' \in SUBSET Documents BY <1>1, <1>3, <1>4, <1>5, ScheduleFollows
  <1>7. (\A b \in polls' : IsPoll(b)) /\ CallsApart' /\ AttemptsGrow' /\ Polling!ShownGoesOn
    BY <1>1, <1>3, EndKeeps
  <1>8. PollTypes' BY <1>1, <1>3, <1>4, <1>6, <1>7 DEF PollInv, PollTypes
  <1> QED BY <1>6, <1>7, <1>8 DEF PollInv

\* Calls that fail.
LEMMA FailuresKeep ==
    ASSUME PollInv, Polling!StatusFails \/ Polling!ClickFails
    PROVE  PollInv' /\ Polling!ShownGoesOn
  <1>1. CASE Polling!StatusFails
    <2>1. PICK c \in polls :
            /\ c.kind = "status" /\ polls' = polls \ {c}
            /\ shown' = IF c.latest /\ ~disposed THEN [shown EXCEPT ![c.id].error = TRUE] ELSE shown
            /\ UNCHANGED <<doc, pending, visible, retrying, disposed>>
            /\ Polling!BatchEnds(c)
      BY <1>1 DEF Polling!StatusFails
    <2>2. /\ shown' \in [Documents -> [state : Waiting \cup Ended \cup {"none"}, attempt : Nat,
                                       error : BOOLEAN]]
          /\ \A id \in Documents :
                shown'[id].attempt = shown[id].attempt /\ shown'[id].state = shown[id].state
      BY <2>1 DEF PollInv, PollTypes
    <2>3. pending' \in SUBSET pending /\ \A d \in pending' : shown'[d].state \in Waiting
      BY <2>1, <2>2 DEF PollInv, PollTypes, Followed, Polling!DownloadsArePolled,
         Polling!Waiting, Waiting
    <2>4. Followed' /\ timer' \in SUBSET Documents BY <2>1, <2>3, BatchFollows
    <2>5. (\A b \in polls' : IsPoll(b)) /\ CallsApart' /\ AttemptsGrow' /\ Polling!ShownGoesOn
      BY <2>1, <2>2, EndKeeps
    <2>6. PollTypes' BY <2>1, <2>2, <2>4, <2>5 DEF PollInv, PollTypes
    <2> QED BY <2>4, <2>5, <2>6 DEF PollInv
  <1>2. CASE Polling!ClickFails
    <2>1. PICK c \in polls :
            /\ c.kind \in {"download", "retry"} /\ polls' = polls \ {c}
            /\ retrying' = IF c.kind = "retry" THEN retrying \ {c.id} ELSE retrying
            /\ UNCHANGED <<doc, shown, pending, visible, timer, disposed>>
      BY <1>2 DEF Polling!ClickFails
    <2>2. (\A b \in polls' : IsPoll(b)) /\ CallsApart' /\ AttemptsGrow' /\ Polling!ShownGoesOn
      BY <2>1, EndKeeps
    <2>3. Followed'
      BY <2>1 DEF PollInv, Followed, Polling!DownloadsArePolled, Polling!NothingAfterLeaving
    <2>4. PollTypes' BY <2>1, <2>2 DEF PollInv, PollTypes
    <2> QED BY <2>2, <2>3, <2>4 DEF PollInv
  <1> QED BY <1>1, <1>2

\* Where what is shown stays, it does not go back.
LEMMA ShownStays == ASSUME PollInv, shown' = shown PROVE Polling!ShownGoesOn
  BY DEF PollInv, PollTypes, Polling!ShownGoesOn

LEMMA PollNext == ASSUME PollInv, Polling!Next PROVE PollInv' /\ Polling!ShownGoesOn
  <1>1. CASE Polling!Track
    BY <1>1, TrackKeeps, ShownStays DEF Polling!Track
  <1>2. CASE Polling!RefreshOne
    BY <1>2, RefreshesKeep, ShownStays DEF Polling!RefreshOne
  <1>3. CASE Polling!TimerFires
    BY <1>3, RefreshesKeep, ShownStays DEF Polling!TimerFires
  <1>4. CASE Polling!Download
    BY <1>4, ClicksKeep, ShownStays DEF Polling!Download
  <1>5. CASE Polling!Retry
    BY <1>5, ClicksKeep, ShownStays DEF Polling!Retry
  <1>6. CASE Polling!Dispose
    BY <1>6, DisposeKeeps, ShownStays DEF Polling!Dispose
  <1>7. CASE Polling!Generate
    BY <1>7, GenerateKeeps, ShownStays DEF Polling!Generate
  <1>8. ASSUME NEW c \in polls, Polling!Serve(c) PROVE PollInv' /\ Polling!ShownGoesOn
    BY <1>8, ServeKeeps, ShownStays DEF Polling!Serve
  <1>9. ASSUME NEW c \in polls, Polling!Answered(c) PROVE PollInv' /\ Polling!ShownGoesOn
    BY <1>9, StatusKeeps, DownloadKeeps, RetryKeeps DEF Polling!Answered
  <1>10. CASE Polling!StatusFails \/ Polling!ClickFails
    BY <1>10, FailuresKeep
  <1> QED
    BY <1>1, <1>2, <1>3, <1>4, <1>5, <1>6, <1>7, <1>8, <1>9, <1>10 DEF Polling!Next

\* The invariant says what the run checks.
LEMMA PollTells ==
    ASSUME PollInv
    PROVE  Polling!TypeOK /\ Polling!DownloadsArePolled /\ Polling!NothingAfterLeaving
  <1>1. \A S : Polling!Cardinality(S) = Cardinality(S)
    BY Zenon DEF Polling!Cardinality, Cardinality
  <1>2. ASSUME NEW id \in Documents
        PROVE  /\ shown[id].state \in Polling!Waiting \cup {"none", "ready", "failed"}
               /\ shown[id].attempt <= doc[id].attempt
               /\ Polling!Cardinality({c \in polls : c.id = id /\ c.latest}) <= 1
               /\ id \in retrying <=> \E c \in polls : c.kind = "retry" /\ c.id = id
    <2>1. shown[id].state \in Polling!Waiting \cup {"none", "ready", "failed"}
      BY DEF PollInv, PollTypes, Polling!Waiting, Waiting, Ended
    <2>2. shown[id].attempt <= doc[id].attempt BY DEF PollInv, AttemptsGrow
    <2>3. AtMostOne({c \in polls : c.id = id /\ c.latest})
      BY DEF PollInv, CallsApart, AtMostOne
    <2>4. Cardinality({c \in polls : c.id = id /\ c.latest}) <= 1 BY <2>3, AtMostOneCounts
    <2>5. Polling!Cardinality({c \in polls : c.id = id /\ c.latest}) <= 1 BY <1>1, <2>4
    <2>6. id \in retrying <=> \E c \in polls : c.kind = "retry" /\ c.id = id
      BY DEF PollInv, CallsApart
    <2> QED BY <2>1, <2>2, <2>5, <2>6
  <1>3. pending \cup visible \cup timer \cup retrying \subseteq Documents BY DEF PollInv, PollTypes
  <1>4. Polling!TypeOK BY <1>2, <1>3 DEF Polling!TypeOK
  <1> QED BY <1>4 DEF PollInv, Followed

(***************************************************************************)
(* What is downloaded is polled for as long as the page is there, with any *)
(* number of documents, clicks, polls under way at once and calls that     *)
(* fail (useContractDocuments.ts).                                         *)
(***************************************************************************)
THEOREM DownloadsAlwaysPolled == Spec => []DownloadsArePolled
  <1> DEFINE Inv == part = "polling" => PollInv
  <1>1. Init => Inv BY PollInit DEF Init
  <1>2. Inv /\ [Next]_vars => Inv'
    <2> SUFFICES ASSUME Inv, [Next]_vars, part' = "polling" PROVE PollInv'
      OBVIOUS
    <2>1. part = "polling" BY DEF Next, vars
    <2>2. Polling!Next \/ UNCHANGED pollingVars BY <2>1 DEF Next, vars
    <2>3. CASE UNCHANGED pollingVars
      BY <2>1, <2>3 DEF pollingVars, PollInv, PollTypes, CallsApart, AttemptsGrow, Followed,
         Polling!DownloadsArePolled, Polling!NothingAfterLeaving
    <2> QED BY <2>1, <2>2, <2>3, PollNext
  <1>3. Inv => DownloadsArePolled BY PollTells DEF DownloadsArePolled
  <1> QED BY <1>1, <1>2, <1>3, PTL DEF Spec

-----------------------------------------------------------------------------
(* Water and power charges *)

Types == {"electric", "water"}
Paying == {"upload", "pay"}

\* A voucher of a record: it was chosen in the dialog of that record.
Own(chosen, v, r) == v \in 1 .. Len(chosen) /\ chosen[v] = r

IsCharge(chosen, r, row) ==
    \/ row = [live |-> FALSE]
    \/ /\ row = [live |-> row.live, contract |-> row.contract, type |-> row.type,
                 items |-> row.items, paid |-> row.paid, vouchers |-> row.vouchers]
       /\ row.live \in BOOLEAN /\ row.type \in Types /\ AtMostOne(row.items)
       /\ \A items \in row.items : items.type = row.type
       /\ \A v \in row.vouchers : Own(chosen, v, r)

IsTable(chosen, table) ==
    /\ table = [r \in ChargeRecords |-> table[r]]
    /\ \A r \in ChargeRecords : IsCharge(chosen, r, table[r])

IsForm(form) ==
    /\ form = [open |-> form.open, mode |-> form.mode, id |-> form.id,
               contract |-> form.contract, type |-> form.type, items |-> form.items]
    /\ form.mode \in {"create", "edit", "view"} /\ form.type \in Types
    /\ form.id \in SUBSET ChargeRecords /\ AtMostOne(form.id) /\ AtMostOne(form.items)

IsPayment(chosen, p) ==
    /\ p = [open |-> p.open, record |-> p.record, existing |-> p.existing,
            uploads |-> p.uploads, submitting |-> p.submitting]
    /\ p.record \in SUBSET ChargeRecords /\ AtMostOne(p.record)
    /\ p.uploads \in SUBSET (1 .. Len(chosen)) /\ p.submitting \in BOOLEAN
    /\ \A r \in p.record : \A v \in p.existing \cup p.uploads : Own(chosen, v, r)

IsRequest(chosen, c) ==
    /\ c = [kind |-> c.kind, n |-> c.n, data |-> c.data, answer |-> c.answer]
    /\ c.kind = "load" => \A table \in c.answer : IsTable(chosen, table)
    /\ c.kind = "save" => AtMostOne(c.data.items) /\ c.data.type \in Types
    /\ c.kind \in {"remove", "removeCurrent"} => c.data \in ChargeRecords
    /\ c.kind \in Paying =>
          /\ c.data.record \in SUBSET ChargeRecords
          /\ \A r \in c.data.record : \A v \in c.data.vouchers : Own(chosen, v, r)

OnePayment ==
    /\ payment.submitting <=> \E c \in requests : c.kind \in Paying
    /\ \A b, c \in requests : b.kind \in Paying /\ c.kind \in Paying => b = c

ChargeInv ==
    /\ proofs \in Seq(ChargeRecords)
    /\ IsTable(proofs, charges) /\ IsTable(proofs, chargeList)
    /\ IsForm(chargeForm) /\ IsPayment(proofs, payment)
    /\ \A c \in requests : IsRequest(proofs, c)
    /\ OnePayment

LEMMA ChargeInit == Charges!Init => ChargeInv
  <1> SUFFICES ASSUME Charges!Init PROVE ChargeInv OBVIOUS
  <1>1. PICK new \in SUBSET ChargeRecords, contract \in ChargeContracts :
          charges = [r \in ChargeRecords |->
                IF r \in new THEN [live |-> FALSE]
                ELSE [live |-> TRUE, contract |-> contract, type |-> "electric",
                      items |-> {[contract |-> contract, type |-> "electric"]},
                      paid |-> FALSE, vouchers |-> {}]]
    BY DEF Charges!Init, Charges!Absent, Charges!Items
  <1>2. /\ chargeList = charges /\ proofs = <<>> /\ requests = {}
        /\ chargeForm = [open |-> FALSE, mode |-> "create", id |-> {}, contract |-> {},
                         type |-> "electric", items |-> {}]
        /\ payment = [open |-> FALSE, record |-> {}, existing |-> {}, uploads |-> {},
                      submitting |-> FALSE]
    BY DEF Charges!Init
  <1>3. IsTable(proofs, charges)
    <2>1. ASSUME NEW r \in ChargeRecords PROVE IsCharge(proofs, r, charges[r])
      <3>1. CASE r \in new BY <1>1, <3>1 DEF IsCharge
      <3>2. CASE r \notin new
        <4>1. charges[r] = [live |-> TRUE, contract |-> contract, type |-> "electric",
                            items |-> {[contract |-> contract, type |-> "electric"]},
                            paid |-> FALSE, vouchers |-> {}]
          BY <1>1, <3>2
        <4> QED BY <4>1 DEF IsCharge, AtMostOne, Types
      <3> QED BY <3>1, <3>2
    <2>2. charges = [r \in ChargeRecords |-> charges[r]] BY <1>1
    <2> QED BY <2>1, <2>2 DEF IsTable
  <1>4. IsForm(chargeForm) BY <1>2 DEF IsForm, AtMostOne, Types
  <1>5. IsPayment(proofs, payment) BY <1>2 DEF IsPayment, AtMostOne
  <1>6. OnePayment BY <1>2 DEF OnePayment
  <1>7. proofs \in Seq(ChargeRecords) BY <1>2
  <1> QED BY <1>2, <1>3, <1>4, <1>5, <1>6, <1>7 DEF ChargeInv

\* Only the dialog of a record changes.
LEMMA FormKeeps ==
    ASSUME ChargeInv, IsForm(chargeForm'),
           UNCHANGED <<charges, chargeList, payment, requests, proofs>>
    PROVE  ChargeInv'
  BY DEF ChargeInv, OnePayment

\* A request is begun that is not of a payment.
LEMMA RequestKeeps ==
    ASSUME ChargeInv, IsForm(chargeForm'), NEW c, IsRequest(proofs, c), c.kind \notin Paying,
           requests' = requests \cup {c},
           UNCHANGED <<charges, chargeList, payment, proofs>>
    PROVE  ChargeInv'
  <1>1. OnePayment' BY DEF ChargeInv, OnePayment
  <1> QED BY <1>1 DEF ChargeInv

LEMMA Begun ==
    ASSUME NEW c, c = [kind |-> c.kind, n |-> c.n, data |-> c.data, answer |-> {}],
           \/ c.kind \in {"load", "prefill"}
           \/ c.kind = "save" /\ AtMostOne(c.data.items) /\ c.data.type \in Types
           \/ c.kind \in {"remove", "removeCurrent"} /\ c.data \in ChargeRecords
    PROVE  IsRequest(proofs, c) /\ c.kind \notin Paying
  BY DEF IsRequest, Paying

LEMMA RecordDialogKeeps ==
    ASSUME ChargeInv,
           \/ Charges!Refresh \/ FailedCharges!Refresh
           \/ Charges!OpenCreateRecord \/ FailedCharges!OpenCreateRecord
           \/ Charges!HandleContractChange \/ FailedCharges!HandleContractChange
           \/ Charges!HandleTypeChange \/ FailedCharges!HandleTypeChange
    PROVE  ChargeInv'
  <1>1. \E kind \in {"load", "prefill"} : \E n, data :
          /\ requests' = requests \cup
                {[kind |-> kind, n |-> n, data |-> data, answer |-> {}]}
          /\ UNCHANGED <<charges, chargeList, payment, proofs>>
          /\ IsForm(chargeForm')
    <2>1. CASE Charges!Refresh \/ FailedCharges!Refresh
      BY <2>1 DEF Charges!Refresh, FailedCharges!Refresh, Charges!LoadPageData,
         FailedCharges!LoadPageData, Charges!Call, FailedCharges!Call, ChargeInv
    <2> DEFINE begun == \E n, data :
                    /\ requests' = requests \cup
                          {[kind |-> "prefill", n |-> n, data |-> data, answer |-> {}]}
                    /\ UNCHANGED <<charges, chargeList, payment, proofs>>
    <2>2. CASE Charges!OpenCreateRecord \/ FailedCharges!OpenCreateRecord
      <3>1. PICK contract \in ChargeContracts :
              chargeForm' = [open |-> TRUE, mode |-> "create", id |-> {}, contract |-> {contract},
                             type |-> "electric", items |-> {}]
        BY <2>2 DEF Charges!OpenCreateRecord, FailedCharges!OpenCreateRecord,
           Charges!LoadPrefill, FailedCharges!LoadPrefill
      <3>2. IsForm(chargeForm') BY <3>1 DEF IsForm, AtMostOne, Types
      <3>3. begun
        BY <2>2 DEF Charges!OpenCreateRecord, FailedCharges!OpenCreateRecord,
           Charges!LoadPrefill, FailedCharges!LoadPrefill, Charges!Call, FailedCharges!Call
      <3> QED BY <3>2, <3>3
    <2>3. CASE Charges!HandleContractChange \/ FailedCharges!HandleContractChange
      <3>1. PICK contract : chargeForm' = [chargeForm EXCEPT !.contract = {contract}]
        BY <2>3 DEF Charges!HandleContractChange, FailedCharges!HandleContractChange,
           Charges!LoadPrefill, FailedCharges!LoadPrefill
      <3>2. IsForm(chargeForm') BY <3>1 DEF IsForm, ChargeInv
      <3>3. begun
        BY <2>3 DEF Charges!HandleContractChange, FailedCharges!HandleContractChange,
           Charges!LoadPrefill, FailedCharges!LoadPrefill, Charges!Call, FailedCharges!Call
      <3> QED BY <3>2, <3>3
    <2>4. CASE Charges!HandleTypeChange \/ FailedCharges!HandleTypeChange
      <3>1. PICK type \in Types : chargeForm' = [chargeForm EXCEPT !.type = type]
        BY <2>4 DEF Charges!HandleTypeChange, FailedCharges!HandleTypeChange, Charges!Types,
           FailedCharges!Types, Charges!LoadPrefill, FailedCharges!LoadPrefill, Types
      <3>2. IsForm(chargeForm') BY <3>1 DEF IsForm, ChargeInv
      <3>3. begun
        BY <2>4 DEF Charges!HandleTypeChange, FailedCharges!HandleTypeChange,
           Charges!LoadPrefill, FailedCharges!LoadPrefill, Charges!Call, FailedCharges!Call
      <3> QED BY <3>2, <3>3
    <2> QED BY <2>1, <2>2, <2>3, <2>4
  <1>2. PICK kind \in {"load", "prefill"} : \E n, data :
          /\ requests' = requests \cup
                {[kind |-> kind, n |-> n, data |-> data, answer |-> {}]}
          /\ UNCHANGED <<charges, chargeList, payment, proofs>>
          /\ IsForm(chargeForm')
    BY <1>1
  <1>3. PICK n, data :
          /\ requests' = requests \cup
                {[kind |-> kind, n |-> n, data |-> data, answer |-> {}]}
          /\ UNCHANGED <<charges, chargeList, payment, proofs>>
          /\ IsForm(chargeForm')
    BY <1>2
  <1> DEFINE c == [kind |-> kind, n |-> n, data |-> data, answer |-> {}]
  <1>4. IsRequest(proofs, c) /\ c.kind \notin Paying BY Begun
  <1>5. requests' = requests \cup {c} BY <1>3
  <1> HIDE DEF c
  <1> QED BY <1>3, <1>4, <1>5, RequestKeeps

LEMMA OpenedKeeps ==
    ASSUME ChargeInv,
           \/ Charges!OpenEditRecord \/ FailedCharges!OpenEditRecord
           \/ Charges!OpenViewRecord \/ FailedCharges!OpenViewRecord
           \/ Charges!SwitchToEdit \/ FailedCharges!SwitchToEdit
           \/ Charges!CloseRecord \/ FailedCharges!CloseRecord
    PROVE  ChargeInv'
  <1>1. CASE \E mode \in {"edit", "view"} :
               Charges!OpenRecord(mode) \/ FailedCharges!OpenRecord(mode)
    <2>1. PICK mode \in {"edit", "view"}, r \in ChargeRecords :
            /\ chargeList[r].live
            /\ chargeForm' = [open |-> TRUE, mode |-> mode, id |-> {r},
                              contract |-> {chargeList[r].contract},
                              type |-> chargeList[r].type, items |-> chargeList[r].items]
            /\ UNCHANGED <<charges, chargeList, payment, requests, proofs>>
      BY <1>1 DEF Charges!OpenRecord, FailedCharges!OpenRecord, Charges!Shown,
         FailedCharges!Shown
    <2>2. IsCharge(proofs, r, chargeList[r]) BY DEF ChargeInv, IsTable
    <2>3. chargeList[r].type \in Types /\ AtMostOne(chargeList[r].items)
      BY <2>1, <2>2 DEF IsCharge
    <2>4. IsForm(chargeForm') BY <2>1, <2>3 DEF IsForm, AtMostOne
    <2> QED BY <2>1, <2>4, FormKeeps
  <1>2. CASE \/ Charges!SwitchToEdit \/ FailedCharges!SwitchToEdit
             \/ Charges!CloseRecord \/ FailedCharges!CloseRecord
    <2>1. IsForm(chargeForm')
      BY <1>2 DEF Charges!SwitchToEdit, FailedCharges!SwitchToEdit, Charges!CloseRecord,
         FailedCharges!CloseRecord, IsForm, ChargeInv
    <2>2. UNCHANGED <<charges, chargeList, payment, requests, proofs>>
      BY <1>2 DEF Charges!SwitchToEdit, FailedCharges!SwitchToEdit, Charges!CloseRecord,
         FailedCharges!CloseRecord
    <2> QED BY <2>1, <2>2, FormKeeps
  <1> QED
    BY <1>1, <1>2 DEF Charges!OpenEditRecord, FailedCharges!OpenEditRecord,
       Charges!OpenViewRecord, FailedCharges!OpenViewRecord

LEMMA SentKeeps ==
    ASSUME ChargeInv,
           \/ Charges!SaveRecord \/ FailedCharges!SaveRecord
           \/ Charges!ConfirmRemoveRecord \/ FailedCharges!ConfirmRemoveRecord
           \/ Charges!RemoveCurrentRecord \/ FailedCharges!RemoveCurrentRecord
    PROVE  ChargeInv'
  <1>1. \E kind, n, data :
          /\ requests' = requests \cup
                {[kind |-> kind, n |-> n, data |-> data, answer |-> {}]}
          /\ UNCHANGED <<charges, chargeList, chargeForm, payment, proofs>>
          /\ \/ kind = "save" /\ AtMostOne(data.items) /\ data.type \in Types
             \/ kind \in {"remove", "removeCurrent"} /\ data \in ChargeRecords
    <2>1. CASE Charges!SaveRecord \/ FailedCharges!SaveRecord
      <3>1. AtMostOne(chargeForm.items) /\ chargeForm.type \in Types BY DEF ChargeInv, IsForm
      <3>2. PICK n, data :
              /\ data = [id |-> chargeForm.id, contract |-> chargeForm.contract,
                         type |-> chargeForm.type, items |-> chargeForm.items]
              /\ requests' = requests \cup
                    {[kind |-> "save", n |-> n, data |-> data, answer |-> {}]}
              /\ UNCHANGED <<charges, chargeList, chargeForm, payment, proofs>>
        BY <2>1 DEF Charges!SaveRecord, FailedCharges!SaveRecord, Charges!Call,
           FailedCharges!Call
      <3> QED BY <3>1, <3>2
    <2>2. CASE Charges!ConfirmRemoveRecord \/ FailedCharges!ConfirmRemoveRecord
      BY <2>2 DEF Charges!ConfirmRemoveRecord, FailedCharges!ConfirmRemoveRecord,
         Charges!Shown, FailedCharges!Shown, Charges!Call, FailedCharges!Call
    <2>3. CASE Charges!RemoveCurrentRecord \/ FailedCharges!RemoveCurrentRecord
      BY <2>3 DEF Charges!RemoveCurrentRecord, FailedCharges!RemoveCurrentRecord,
         Charges!Call, FailedCharges!Call, ChargeInv, IsForm
    <2> QED BY <2>1, <2>2, <2>3
  <1>2. PICK kind, n, data :
          /\ requests' = requests \cup
                {[kind |-> kind, n |-> n, data |-> data, answer |-> {}]}
          /\ UNCHANGED <<charges, chargeList, chargeForm, payment, proofs>>
          /\ \/ kind = "save" /\ AtMostOne(data.items) /\ data.type \in Types
             \/ kind \in {"remove", "removeCurrent"} /\ data \in ChargeRecords
    BY <1>1
  <1> DEFINE c == [kind |-> kind, n |-> n, data |-> data, answer |-> {}]
  <1>3. IsRequest(proofs, c) /\ c.kind \notin Paying BY <1>2, Begun
  <1>5. requests' = requests \cup {c} BY <1>2
  <1> HIDE DEF c
  <1>4. IsForm(chargeForm') BY <1>2 DEF ChargeInv
  <1> QED BY <1>2, <1>3, <1>4, <1>5, RequestKeeps

\* The dialog of a payment.
LEMMA PaymentDialogKeeps ==
    ASSUME ChargeInv,
           \/ Charges!OpenPaymentDialog \/ FailedCharges!OpenPaymentDialog
           \/ Charges!RemoveExistingVoucher \/ FailedCharges!RemoveExistingVoucher
           \/ Charges!ClosePayment \/ FailedCharges!ClosePayment
    PROVE  ChargeInv'
  <1>1. /\ UNCHANGED <<charges, chargeList, chargeForm, requests, proofs>>
        /\ IsPayment(proofs, payment') /\ payment'.submitting = payment.submitting
    <2>1. IsPayment(proofs, payment) BY DEF ChargeInv
    <2>2. CASE Charges!OpenPaymentDialog \/ FailedCharges!OpenPaymentDialog
      <3>1. PICK r \in ChargeRecords :
              /\ chargeList[r].live
              /\ payment' = [payment EXCEPT !.open = TRUE, !.record = {r}, !.uploads = {},
                                            !.existing = chargeList[r].vouchers]
              /\ UNCHANGED <<charges, chargeList, chargeForm, requests, proofs>>
        BY <2>2 DEF Charges!OpenPaymentDialog, FailedCharges!OpenPaymentDialog,
           Charges!Shown, FailedCharges!Shown
      <3>2. IsCharge(proofs, r, chargeList[r]) BY DEF ChargeInv, IsTable
      <3>3. \A v \in chargeList[r].vouchers : Own(proofs, v, r) BY <3>1, <3>2 DEF IsCharge
      <3> QED BY <2>1, <3>1, <3>3 DEF IsPayment, AtMostOne
    <2>3. CASE Charges!RemoveExistingVoucher \/ FailedCharges!RemoveExistingVoucher
      <3>1. PICK v \in payment.existing :
              /\ payment' = [payment EXCEPT !.existing = @ \ {v}]
              /\ UNCHANGED <<charges, chargeList, chargeForm, requests, proofs>>
        BY <2>3 DEF Charges!RemoveExistingVoucher, FailedCharges!RemoveExistingVoucher
      <3> QED BY <2>1, <3>1 DEF IsPayment
    <2>4. CASE Charges!ClosePayment \/ FailedCharges!ClosePayment
      BY <2>1, <2>4 DEF Charges!ClosePayment, FailedCharges!ClosePayment, IsPayment
    <2> QED BY <2>2, <2>3, <2>4
  <1>2. OnePayment' BY <1>1 DEF ChargeInv, OnePayment
  <1> QED BY <1>1, <1>2 DEF ChargeInv

\* What is said of vouchers stays when another is chosen.
LEMMA VouchersGrow ==
    ASSUME NEW old, NEW chosen, \A v, r : Own(old, v, r) => Own(chosen, v, r)
    PROVE  /\ \A table : IsTable(old, table) => IsTable(chosen, table)
           /\ \A c : IsRequest(old, c) => IsRequest(chosen, c)
  <1>1. \A r, row : IsCharge(old, r, row) => IsCharge(chosen, r, row) BY DEF IsCharge
  <1>2. \A table : IsTable(old, table) => IsTable(chosen, table) BY <1>1 DEF IsTable
  <1>3. ASSUME NEW c, IsRequest(old, c) PROVE IsRequest(chosen, c)
    BY <1>2, <1>3 DEF IsRequest
  <1> QED BY <1>2, <1>3

LEMMA ChooseKeeps ==
    ASSUME ChargeInv, Charges!ChooseVoucher \/ FailedCharges!ChooseVoucher PROVE ChargeInv'
  <1>1. PICK r \in payment.record :
          /\ proofs' = Append(proofs, r)
          /\ payment' = [payment EXCEPT !.uploads = @ \cup {Len(proofs')}]
          /\ UNCHANGED <<charges, chargeList, chargeForm, requests>>
    BY DEF Charges!ChooseVoucher, FailedCharges!ChooseVoucher
  <1>2. proofs \in Seq(ChargeRecords) /\ IsPayment(proofs, payment) BY DEF ChargeInv
  <1>3. r \in ChargeRecords BY <1>2 DEF IsPayment
  <1>4. /\ proofs' \in Seq(ChargeRecords) /\ Len(proofs') = Len(proofs) + 1
        /\ Len(proofs) \in Nat /\ proofs'[Len(proofs')] = r
        /\ \A v \in 1 .. Len(proofs) : proofs'[v] = proofs[v]
    BY <1>1, <1>2, <1>3
  <1>5. \A v, s : Own(proofs, v, s) => Own(proofs', v, s) BY <1>4 DEF Own
  <1>6. IsPayment(proofs', payment') /\ payment'.submitting = payment.submitting
    <2>1. \A s \in payment.record : s = r BY <1>2 DEF IsPayment, AtMostOne
    <2>2. Own(proofs', Len(proofs'), r) BY <1>4 DEF Own
    <2>3. \A s \in payment.record : \A v \in payment.existing \cup payment.uploads :
             Own(proofs', v, s)
      BY <1>2, <1>5 DEF IsPayment
    <2>4. payment.uploads \cup {Len(proofs')} \in SUBSET (1 .. Len(proofs'))
      BY <1>2, <1>4 DEF IsPayment
    <2> QED BY <1>1, <1>2, <2>1, <2>2, <2>3, <2>4 DEF IsPayment
  <1>7. OnePayment' BY <1>1, <1>6 DEF ChargeInv, OnePayment
  <1>8. /\ IsTable(proofs', charges) /\ IsTable(proofs', chargeList)
        /\ \A c \in requests : IsRequest(proofs', c)
    <2>1. PICK old, chosen : old = proofs /\ chosen = proofs' OBVIOUS
    <2>2. \A v, s : Own(old, v, s) => Own(chosen, v, s) BY <1>5, <2>1
    <2>3. /\ \A table : IsTable(old, table) => IsTable(chosen, table)
          /\ \A c : IsRequest(old, c) => IsRequest(chosen, c)
      BY <2>2, VouchersGrow
    <2> QED BY <2>1, <2>3 DEF ChargeInv
  <1> QED BY <1>1, <1>4, <1>6, <1>7, <1>8 DEF ChargeInv

LEMMA SavePaymentKeeps ==
    ASSUME ChargeInv, Charges!SavePayment \/ FailedCharges!SavePayment PROVE ChargeInv'
  <1>1. PICK kind \in Paying : \E n :
          /\ ~payment.submitting
          /\ payment' = [payment EXCEPT !.submitting = TRUE]
          /\ requests' = requests \cup
               {[kind |-> kind, n |-> n,
                 data |-> [record |-> payment.record,
                           vouchers |-> payment.existing \cup payment.uploads],
                 answer |-> {}]}
          /\ UNCHANGED <<charges, chargeList, chargeForm, proofs>>
    BY DEF Charges!SavePayment, FailedCharges!SavePayment, Charges!Call, FailedCharges!Call,
       Paying
  <1>2. PICK n :
          /\ ~payment.submitting
          /\ payment' = [payment EXCEPT !.submitting = TRUE]
          /\ requests' = requests \cup
               {[kind |-> kind, n |-> n,
                 data |-> [record |-> payment.record,
                           vouchers |-> payment.existing \cup payment.uploads],
                 answer |-> {}]}
          /\ UNCHANGED <<charges, chargeList, chargeForm, proofs>>
    BY <1>1
  <1> DEFINE c == [kind |-> kind, n |-> n,
                   data |-> [record |-> payment.record,
                             vouchers |-> payment.existing \cup payment.uploads],
                   answer |-> {}]
  <1>3. IsPayment(proofs, payment) BY DEF ChargeInv
  <1>4. IsRequest(proofs, c) /\ c.kind \in Paying BY <1>3 DEF IsRequest, IsPayment, Paying
  <1>5. requests' = requests \cup {c} BY <1>2
  <1> HIDE DEF c
  <1>6. IsPayment(proofs, payment') /\ payment'.submitting = TRUE
    BY <1>2, <1>3 DEF IsPayment
  <1>7. OnePayment' BY <1>2, <1>4, <1>5, <1>6 DEF ChargeInv, OnePayment
  <1> QED BY <1>2, <1>4, <1>5, <1>6, <1>7 DEF ChargeInv

\* A request is replaced: it was answered, or follows another for the same.
LEMMA ReplacedKeeps ==
    ASSUME ChargeInv, NEW c \in requests, NEW next, IsRequest(proofs, next),
           next.kind = c.kind \/ {next.kind, c.kind} \subseteq Paying,
           requests' = (requests \ {c}) \cup {next},
           IsTable(proofs, charges'), UNCHANGED <<chargeList, chargeForm, payment, proofs>>
    PROVE  ChargeInv'
  <1>1. OnePayment' BY DEF ChargeInv, OnePayment
  <1> QED BY <1>1 DEF ChargeInv

LEMMA AnsweredIs ==
    ASSUME NEW c, IsRequest(proofs, c), NEW answer,
           c.kind = "load" => IsTable(proofs, answer)
    PROVE  /\ IsRequest(proofs, [c EXCEPT !.answer = {answer}])
           /\ [c EXCEPT !.answer = {answer}].kind = c.kind
  <1> DEFINE d == [c EXCEPT !.answer = {answer}]
  <1>1. /\ d = [kind |-> d.kind, n |-> d.n, data |-> d.data, answer |-> d.answer]
        /\ d.kind = c.kind /\ d.data = c.data /\ d.answer = {answer}
    BY DEF IsRequest
  <1> HIDE DEF d
  <1>2. IsRequest(proofs, d) BY <1>1 DEF IsRequest
  <1> QED BY <1>1, <1>2 DEF d

LEMMA ReadKeeps ==
    ASSUME ChargeInv, Charges!ServeRead \/ FailedCharges!ServeRead PROVE ChargeInv'
  <1>1. PICK c, answer :
          /\ c \in requests
          /\ answer = IF c.kind = "load" THEN charges ELSE c.data
          /\ requests' = (requests \ {c}) \cup {[c EXCEPT !.answer = {answer}]}
          /\ UNCHANGED <<charges, chargeList, chargeForm, payment, proofs>>
    BY DEF Charges!ServeRead, FailedCharges!ServeRead, Charges!Answer, FailedCharges!Answer,
       Charges!Asked, FailedCharges!Asked
  <1>2. IsRequest(proofs, c) /\ IsTable(proofs, charges) BY <1>1 DEF ChargeInv
  <1>3. PICK next : next = [c EXCEPT !.answer = {answer}] OBVIOUS
  <1>4. IsRequest(proofs, next) /\ next.kind = c.kind BY <1>1, <1>2, <1>3, AnsweredIs
  <1>5. IsTable(proofs, charges') BY <1>1, <1>2
  <1> QED BY <1>1, <1>3, <1>4, <1>5, ReplacedKeeps

\* One row of the table changes.
LEMMA RowKeeps ==
    ASSUME NEW chosen, NEW table, IsTable(chosen, table), NEW r \in ChargeRecords, NEW row,
           IsCharge(chosen, r, row)
    PROVE  IsTable(chosen, [table EXCEPT ![r] = row])
  BY DEF IsTable

LEMMA ServeSaveKeeps ==
    ASSUME ChargeInv, Charges!ServeSave \/ FailedCharges!ServeSave PROVE ChargeInv'
  <1>1. PICK c, r, contract, paid, vouchers :
          /\ c \in requests
          /\ r \in ChargeRecords
          /\ c.kind = "save" /\ \A items \in c.data.items : items.type = c.data.type
          /\ vouchers = IF charges[r].live THEN charges[r].vouchers ELSE {}
          /\ charges' = [charges EXCEPT ![r] =
                [live |-> TRUE, contract |-> contract, type |-> c.data.type,
                 items |-> c.data.items, paid |-> paid, vouchers |-> vouchers]]
          /\ requests' = (requests \ {c}) \cup {[c EXCEPT !.answer = {r}]}
          /\ UNCHANGED <<chargeList, chargeForm, payment, proofs>>
    <2>1. ASSUME NEW s, NEW old
          PROVE  \E contract, paid :
                    LET row == [live |-> TRUE, contract |-> contract, type |-> s.type,
                                items |-> s.items, paid |-> paid,
                                vouchers |-> IF old.live THEN old.vouchers ELSE {}]
                    IN  Charges!Recorded(s, old) = row /\ FailedCharges!Recorded(s, old) = row
      BY DEF Charges!Recorded, FailedCharges!Recorded
    <2>2. PICK c, r, row :
            /\ c \in requests
            /\ r \in ChargeRecords
            /\ c.kind = "save" /\ \A items \in c.data.items : items.type = c.data.type
            /\ row \in {Charges!Recorded(c.data, charges[r]),
                        FailedCharges!Recorded(c.data, charges[r])}
            /\ charges' = [charges EXCEPT ![r] = row]
            /\ requests' = (requests \ {c}) \cup {[c EXCEPT !.answer = {r}]}
            /\ UNCHANGED <<chargeList, chargeForm, payment, proofs>>
      BY DEF Charges!ServeSave, FailedCharges!ServeSave, Charges!Answer, FailedCharges!Answer,
         Charges!Asked, FailedCharges!Asked, Charges!Takes, FailedCharges!Takes
    <2>3. PICK contract, paid :
            row = [live |-> TRUE, contract |-> contract, type |-> c.data.type,
                   items |-> c.data.items, paid |-> paid,
                   vouchers |-> IF charges[r].live THEN charges[r].vouchers ELSE {}]
      <3>1. \E contract, paid :
              LET made == [live |-> TRUE, contract |-> contract, type |-> c.data.type,
                           items |-> c.data.items, paid |-> paid,
                           vouchers |-> IF charges[r].live THEN charges[r].vouchers ELSE {}]
              IN  /\ Charges!Recorded(c.data, charges[r]) = made
                  /\ FailedCharges!Recorded(c.data, charges[r]) = made
        BY <2>1
      <3> QED BY <2>2, <3>1
    <2> QED BY <2>2, <2>3
  <1>2. IsRequest(proofs, c) /\ IsTable(proofs, charges) BY <1>1 DEF ChargeInv
  <1>3. PICK next : next = [c EXCEPT !.answer = {r}] OBVIOUS
  <1>4. IsRequest(proofs, next) /\ next.kind = c.kind BY <1>1, <1>2, <1>3, AnsweredIs
  <1>5. PICK row : row = [live |-> TRUE, contract |-> contract, type |-> c.data.type,
                          items |-> c.data.items, paid |-> paid, vouchers |-> vouchers]
    OBVIOUS
  <1>6. IsCharge(proofs, r, row)
    <2>1. AtMostOne(c.data.items) /\ c.data.type \in Types BY <1>1, <1>2 DEF IsRequest
    <2>2. \A v \in vouchers : Own(proofs, v, r)
      <3>1. IsCharge(proofs, r, charges[r]) BY <1>1, <1>2 DEF IsTable
      <3> QED BY <1>1, <3>1 DEF IsCharge
    <2> QED BY <1>1, <1>5, <2>1, <2>2 DEF IsCharge
  <1>7. IsTable(proofs, charges') BY <1>1, <1>2, <1>5, <1>6, RowKeeps
  <1> QED BY <1>1, <1>3, <1>4, <1>7, ReplacedKeeps

LEMMA ServeChangesKeep ==
    ASSUME ChargeInv,
           \/ Charges!ServeRemove \/ FailedCharges!ServeRemove
           \/ Charges!ServePay \/ FailedCharges!ServePay
    PROVE  ChargeInv'
  <1>1. CASE Charges!ServeRemove \/ FailedCharges!ServeRemove
    <2>1. PICK c, r :
            /\ c \in requests
            /\ r = c.data /\ c.kind \in {"remove", "removeCurrent"} /\ charges[r].live
            /\ charges' = [charges EXCEPT ![r].live = FALSE]
            /\ requests' = (requests \ {c}) \cup {[c EXCEPT !.answer = {r}]}
            /\ UNCHANGED <<chargeList, chargeForm, payment, proofs>>
      BY <1>1 DEF Charges!ServeRemove, FailedCharges!ServeRemove, Charges!Answer,
         FailedCharges!Answer, Charges!Asked, FailedCharges!Asked, Charges!Removals,
         FailedCharges!Removals
    <2>2. IsRequest(proofs, c) /\ IsTable(proofs, charges) BY <2>1 DEF ChargeInv
    <2>3. PICK next : next = [c EXCEPT !.answer = {r}] OBVIOUS
    <2>4. IsRequest(proofs, next) /\ next.kind = c.kind
      BY <2>1, <2>2, <2>3, AnsweredIs
    <2>5. r \in ChargeRecords BY <2>1, <2>2 DEF IsRequest
    <2>6. IsCharge(proofs, r, charges[r]) BY <2>2, <2>5 DEF IsTable
    <2>7. PICK row : row = [charges[r] EXCEPT !.live = FALSE] OBVIOUS
    <2>8. IsCharge(proofs, r, row) BY <2>1, <2>6, <2>7 DEF IsCharge
    <2>9. charges' = [charges EXCEPT ![r] = row] BY <2>1, <2>7
    <2>10. IsTable(proofs, charges') BY <2>2, <2>5, <2>8, <2>9, RowKeeps
    <2> QED BY <2>1, <2>3, <2>4, <2>10, ReplacedKeeps
  <1>2. CASE Charges!ServePay \/ FailedCharges!ServePay
    <2>1. PICK c, r :
            /\ c \in requests
            /\ r \in c.data.record /\ c.kind = "pay" /\ charges[r].live
            /\ charges' = [charges EXCEPT ![r].paid = TRUE, ![r].vouchers = c.data.vouchers]
            /\ requests' = (requests \ {c}) \cup {[c EXCEPT !.answer = {r}]}
            /\ UNCHANGED <<chargeList, chargeForm, payment, proofs>>
      BY <1>2 DEF Charges!ServePay, FailedCharges!ServePay, Charges!Answer,
         FailedCharges!Answer, Charges!Asked, FailedCharges!Asked
    <2>2. IsRequest(proofs, c) /\ IsTable(proofs, charges) BY <2>1 DEF ChargeInv
    <2>3. PICK next : next = [c EXCEPT !.answer = {r}] OBVIOUS
    <2>4. IsRequest(proofs, next) /\ next.kind = c.kind BY <2>1, <2>2, <2>3, AnsweredIs
    <2>5. r \in ChargeRecords /\ \A v \in c.data.vouchers : Own(proofs, v, r)
      BY <2>1, <2>2 DEF IsRequest, Paying
    <2>6. IsCharge(proofs, r, charges[r]) BY <2>2, <2>5 DEF IsTable
    <2>7. PICK row : row = [charges[r] EXCEPT !.paid = TRUE, !.vouchers = c.data.vouchers]
      OBVIOUS
    <2>8. IsCharge(proofs, r, row) BY <2>1, <2>5, <2>6, <2>7 DEF IsCharge
    <2>9. charges' = [charges EXCEPT ![r] = row] BY <2>1, <2>2, <2>5, <2>7 DEF IsTable
    <2>10. IsTable(proofs, charges') BY <2>2, <2>5, <2>8, <2>9, RowKeeps
    <2> QED BY <2>1, <2>3, <2>4, <2>10, ReplacedKeeps
  <1> QED BY <1>1, <1>2

\* A request ends, and the list may be asked for again.
LEMMA EndedKeeps ==
    ASSUME ChargeInv, NEW c \in requests, NEW more,
           more \subseteq {[kind |-> "load", n |-> c.n, data |-> {}, answer |-> {}]},
           requests' = (requests \ {c}) \cup more,
           IsTable(proofs, chargeList'), IsForm(chargeForm'), IsPayment(proofs, payment'),
           payment'.submitting = IF c.kind \in Paying THEN FALSE ELSE payment.submitting,
           UNCHANGED <<charges, proofs>>
    PROVE  ChargeInv'
  <1>1. \A d \in more : IsRequest(proofs, d) /\ d.kind \notin Paying
    BY DEF IsRequest, Paying
  <1>2. \A d \in requests' : IsRequest(proofs, d) BY <1>1 DEF ChargeInv
  <1>3. OnePayment' BY <1>1 DEF ChargeInv, OnePayment
  <1> QED BY <1>2, <1>3 DEF ChargeInv

LEMMA ListKeeps ==
    ASSUME ChargeInv,
           \/ Charges!LoadAnswered \/ FailedCharges!LoadAnswered
           \/ Charges!PrefillAnswered \/ FailedCharges!PrefillAnswered
    PROVE  ChargeInv'
  <1> USE DEF Charges!Done, FailedCharges!Done
  <1>1. PICK c \in requests :
          /\ requests' = requests \ {c} /\ c.kind \notin Paying
          /\ IsTable(proofs, chargeList') /\ IsForm(chargeForm')
          /\ UNCHANGED <<charges, payment, proofs>>
    <2>1. CASE Charges!LoadAnswered \/ FailedCharges!LoadAnswered
      <3>1. PICK c, answer :
              /\ c \in requests
              /\ c.kind = "load" /\ answer \in c.answer /\ requests' = requests \ {c}
              /\ chargeList' = answer /\ UNCHANGED <<charges, chargeForm, payment, proofs>>
        BY <2>1 DEF Charges!LoadAnswered, FailedCharges!LoadAnswered
      <3>2. IsTable(proofs, answer) BY <3>1 DEF ChargeInv, IsRequest
      <3> QED BY <3>1, <3>2 DEF ChargeInv, Paying
    <2>2. CASE Charges!PrefillAnswered \/ FailedCharges!PrefillAnswered
      <3>1. PICK c, answer :
              /\ c \in requests
              /\ c.kind = "prefill" /\ requests' = requests \ {c}
              /\ chargeForm' = [chargeForm EXCEPT !.items = {answer}]
              /\ UNCHANGED <<charges, chargeList, payment, proofs>>
        BY <2>2 DEF Charges!PrefillAnswered, FailedCharges!PrefillAnswered
      <3>2. IsForm(chargeForm') BY <3>1 DEF ChargeInv, IsForm, AtMostOne
      <3> QED BY <3>1, <3>2 DEF ChargeInv, Paying
    <2> QED BY <2>1, <2>2
  <1>2. PICK more : more = {} OBVIOUS
  <1>3. /\ requests' = (requests \ {c}) \cup more
        /\ more \subseteq {[kind |-> "load", n |-> c.n, data |-> {}, answer |-> {}]}
    BY <1>1, <1>2
  <1>4. IsPayment(proofs, payment') BY <1>1 DEF ChargeInv
  <1> QED BY <1>1, <1>3, <1>4, EndedKeeps

LEMMA ReloadsKeep ==
    ASSUME ChargeInv,
           \/ Charges!SaveAnswered \/ FailedCharges!SaveAnswered
           \/ Charges!RemoveAnswered \/ FailedCharges!RemoveAnswered
           \/ Charges!PayAnswered \/ FailedCharges!PayAnswered
    PROVE  ChargeInv'
  <1> USE DEF Charges!Reload, FailedCharges!Reload
  <1>1. PICK c \in requests :
          /\ requests' = (requests \ {c}) \cup
                {[kind |-> "load", n |-> c.n, data |-> {}, answer |-> {}]}
          /\ IsForm(chargeForm') /\ IsPayment(proofs, payment')
          /\ payment'.submitting = IF c.kind \in Paying THEN FALSE ELSE payment.submitting
          /\ UNCHANGED <<charges, chargeList, proofs>>
    <2>1. CASE \/ Charges!SaveAnswered \/ FailedCharges!SaveAnswered
               \/ Charges!RemoveAnswered \/ FailedCharges!RemoveAnswered
      <3>1. PICK c, open :
              /\ c \in requests
              /\ c.kind \notin Paying
              /\ requests' = (requests \ {c}) \cup
                    {[kind |-> "load", n |-> c.n, data |-> {}, answer |-> {}]}
              /\ chargeForm' = [chargeForm EXCEPT !.open = open]
              /\ UNCHANGED <<charges, chargeList, payment, proofs>>
        BY <2>1 DEF Charges!SaveAnswered, FailedCharges!SaveAnswered, Charges!RemoveAnswered,
           FailedCharges!RemoveAnswered, Charges!AfterRemoval, FailedCharges!AfterRemoval,
           Charges!Removals, FailedCharges!Removals, Paying
      <3>2. IsForm(chargeForm') BY <3>1 DEF ChargeInv, IsForm
      <3> QED BY <3>1, <3>2 DEF ChargeInv
    <2>2. CASE Charges!PayAnswered \/ FailedCharges!PayAnswered
      <3>1. PICK c \in requests :
              /\ c.kind \in Paying
              /\ requests' = (requests \ {c}) \cup
                    {[kind |-> "load", n |-> c.n, data |-> {}, answer |-> {}]}
              /\ payment' = [payment EXCEPT !.open = FALSE, !.submitting = FALSE]
              /\ UNCHANGED <<charges, chargeList, chargeForm, proofs>>
        BY <2>2 DEF Charges!PayAnswered, FailedCharges!PayAnswered, Paying
      <3>2. IsPayment(proofs, payment') /\ payment'.submitting = FALSE
        BY <3>1 DEF ChargeInv, IsPayment
      <3> QED BY <3>1, <3>2 DEF ChargeInv
    <2> QED BY <2>1, <2>2
  <1>2. PICK more : more = {[kind |-> "load", n |-> c.n, data |-> {}, answer |-> {}]}
    OBVIOUS
  <1>3. requests' = (requests \ {c}) \cup more BY <1>1, <1>2
  <1>4. IsTable(proofs, chargeList') BY <1>1 DEF ChargeInv
  <1> QED BY <1>1, <1>2, <1>3, <1>4, EndedKeeps

LEMMA UploadedKeeps ==
    ASSUME ChargeInv, Charges!Uploaded \/ FailedCharges!Uploaded PROVE ChargeInv'
  <1>1. PICK c \in requests :
          /\ c.kind = "upload"
          /\ requests' = (requests \ {c}) \cup {[c EXCEPT !.kind = "pay", !.answer = {}]}
          /\ UNCHANGED <<charges, chargeList, chargeForm, payment, proofs>>
    BY DEF Charges!Uploaded, FailedCharges!Uploaded, Charges!Pay, FailedCharges!Pay
  <1>2. IsRequest(proofs, c) BY DEF ChargeInv
  <1>3. PICK next : next = [c EXCEPT !.kind = "pay", !.answer = {}] OBVIOUS
  <1>4. IsRequest(proofs, next) /\ {next.kind, c.kind} \subseteq Paying
    BY <1>1, <1>2, <1>3 DEF IsRequest, Paying
  <1>5. IsTable(proofs, charges') BY <1>1 DEF ChargeInv
  <1> QED BY <1>1, <1>3, <1>4, <1>5, ReplacedKeeps

LEMMA FailsKeeps ==
    ASSUME ChargeInv, Charges!Fails \/ FailedCharges!Fails PROVE ChargeInv'
  <1>1. PICK c, open :
          /\ c \in requests
          /\ requests' = requests \ {c}
          /\ payment' = IF c.kind \in Paying THEN [payment EXCEPT !.submitting = FALSE] ELSE payment
          /\ chargeForm' = [chargeForm EXCEPT !.open = open]
          /\ UNCHANGED <<charges, chargeList, proofs>>
    BY DEF Charges!Fails, FailedCharges!Fails, Charges!AfterRemoval, FailedCharges!AfterRemoval,
       Paying
  <1>2. PICK more : more = {} OBVIOUS
  <1>3. /\ requests' = (requests \ {c}) \cup more
        /\ more \subseteq {[kind |-> "load", n |-> c.n, data |-> {}, answer |-> {}]}
    BY <1>1, <1>2
  <1>4. IsForm(chargeForm') BY <1>1 DEF ChargeInv, IsForm
  <1>5. /\ IsPayment(proofs, payment')
        /\ payment'.submitting = IF c.kind \in Paying THEN FALSE ELSE payment.submitting
    BY <1>1 DEF ChargeInv, IsPayment
  <1>6. IsTable(proofs, chargeList') BY <1>1 DEF ChargeInv
  <1> QED BY <1>1, <1>3, <1>4, <1>5, <1>6, EndedKeeps

LEMMA ChargeNext == ASSUME ChargeInv, Charges!Next \/ FailedCharges!Next PROVE ChargeInv'
  <1>1. CASE Charges!Next
    BY <1>1, RecordDialogKeeps, OpenedKeeps, SentKeeps, PaymentDialogKeeps, ChooseKeeps,
       SavePaymentKeeps, ReadKeeps, ServeSaveKeeps, ServeChangesKeep, ListKeeps, ReloadsKeep,
       UploadedKeeps, FailsKeeps DEF Charges!Next
  <1>2. CASE FailedCharges!Next
    BY <1>2, RecordDialogKeeps, OpenedKeeps, SentKeeps, PaymentDialogKeeps, ChooseKeeps,
       SavePaymentKeeps, ReadKeeps, ServeSaveKeeps, ServeChangesKeep, ListKeeps, ReloadsKeep,
       UploadedKeeps, FailsKeeps DEF FailedCharges!Next
  <1> QED BY <1>1, <1>2

LEMMA ChargesTell ==
    ASSUME ChargeInv
    PROVE  /\ Charges!RecordsConsistent /\ Charges!PaysOnce
           /\ Charges!TypeOK /\ Charges!VouchersOfTheirRecord
  <1>1. \A S : Charges!Cardinality(S) = Cardinality(S)
    BY Zenon DEF Charges!Cardinality, Cardinality
  <1>2. \A r \in ChargeRecords :
           IsCharge(proofs, r, charges[r]) /\ IsCharge(proofs, r, chargeList[r])
    BY DEF ChargeInv, IsTable
  <1>3. ASSUME NEW r, NEW row, IsCharge(proofs, r, row)
        PROVE  /\ row.live \in BOOLEAN
               /\ row.live => \A items \in row.items : items.type = row.type
               /\ row.live => \A v \in row.vouchers : proofs[v] = r
    <2>1. CASE row = [live |-> FALSE] BY <2>1
    <2>2. CASE row # [live |-> FALSE] BY <1>3, <2>2 DEF IsCharge, Own
    <2> QED BY <2>1, <2>2
  <1>4. Charges!RecordsConsistent BY <1>2, <1>3 DEF Charges!RecordsConsistent
  <1>5. Charges!VouchersOfTheirRecord BY <1>2, <1>3 DEF Charges!VouchersOfTheirRecord
  <1>6. Charges!PaysOnce
    <2>1. AtMostOne({c \in requests : c.kind \in Paying}) BY DEF ChargeInv, OnePayment, AtMostOne
    <2>2. Cardinality({c \in requests : c.kind \in Paying}) <= 1 BY <2>1, AtMostOneCounts
    <2> QED BY <1>1, <2>2 DEF Charges!PaysOnce, Paying
  <1>7. Charges!TypeOK
    <2>1. \A r \in ChargeRecords : charges[r].live \in BOOLEAN /\ chargeList[r].live \in BOOLEAN
      BY <1>2, <1>3
    <2>2. /\ chargeForm.mode \in {"create", "edit", "view"}
          /\ chargeForm.type \in Charges!Types
          /\ AtMostOne(chargeForm.id) /\ AtMostOne(chargeForm.items)
      BY DEF ChargeInv, IsForm, Types, Charges!Types
    <2>3. Cardinality(chargeForm.id) <= 1 /\ Cardinality(chargeForm.items) <= 1
      BY <2>2, AtMostOneCounts
    <2>4. payment.uploads \subseteq 1 .. Len(proofs) BY DEF ChargeInv, IsPayment
    <2>5. payment.submitting <=> Charges!UnderWay({"upload", "pay"})
      BY DEF ChargeInv, OnePayment, Paying, Charges!UnderWay
    <2> QED BY <1>1, <2>1, <2>2, <2>3, <2>4, <2>5 DEF Charges!TypeOK
  <1> QED BY <1>4, <1>5, <1>6, <1>7

-----------------------------------------------------------------------------
(* Payments *)

ReceivedBounds == Vouchers \in Nat

LEMMA ReceivedBound == ReceivedBounds
  BY PagesAssumption DEF ReceivedBounds, Received!BoundsAssumption

\* What the vouchers of payments are compared with.
World == [rows |-> payments, picked |-> picked, drafts |-> paymentDrafts, strayed |-> strayed]

Full(row) ==
    row = [live |-> row.live, made |-> row.made, changed |-> row.changed,
           vouchers |-> row.vouchers]

Few(vouchers) == IsFiniteSet(vouchers) /\ Cardinality(vouchers) <= Vouchers

\* A picture of a payment that is there, or of one that a draft will make, unless another
\* dialog was opened while it was uploaded.
OfPayment(w, p, v) ==
    /\ v \in DOMAIN w.picked /\ w.picked[v] \in DOMAIN w.drafts
    /\ \/ v \in w.strayed
       \/ w.drafts[w.picked[v]] = {p}
       \/ /\ w.drafts[w.picked[v]] = {}
          /\ Full(w.rows[p]) /\ w.rows[p].made = w.picked[v]

OfDraft(w, d, v) ==
    /\ v \in DOMAIN w.picked /\ w.picked[v] \in DOMAIN w.drafts
    /\ v \in w.strayed \/ (w.picked[v] = d /\ w.drafts[d] = {})

Belong(w, id, d, vouchers) ==
    IF id = {} THEN \A v \in vouchers : OfDraft(w, d, v)
    ELSE \A p \in id, v \in vouchers : OfPayment(w, p, v)

\* A payment as it is or was, also in a list that is late.
IsPaid(w, p, row) ==
    \/ row = [live |-> FALSE]
    \/ /\ Full(row) /\ row.live \in BOOLEAN /\ Few(row.vouchers)
       /\ Full(w.rows[p]) /\ w.rows[p].made = row.made
       /\ \A v \in row.vouchers : OfPayment(w, p, v)

PaidTable(w, table) ==
    /\ table = [p \in Payments |-> table[p]]
    /\ \A p \in Payments : IsPaid(w, p, table[p])

PayLoad(w, c) ==
    /\ c = [sequence |-> c.sequence, answer |-> c.answer, saving |-> c.saving]
    /\ c.saving \in BOOLEAN /\ \A table \in c.answer : PaidTable(w, table)

PayForm(w, f) ==
    /\ f = [open |-> f.open, id |-> f.id, draft |-> f.draft, existing |-> f.existing,
            uploads |-> f.uploads, submitting |-> f.submitting]
    /\ f.id \in SUBSET Payments /\ AtMostOne(f.id)
    /\ f.open \in BOOLEAN /\ f.submitting \in BOOLEAN
    /\ IsFiniteSet(f.existing) /\ IsFiniteSet(f.uploads)
    /\ Cardinality(f.existing) + Cardinality(f.uploads) <= Vouchers
    /\ f.uploads \subseteq DOMAIN w.picked
    /\ Belong(w, f.id, f.draft, f.existing \cup f.uploads)
    /\ f.open => f.draft \in DOMAIN w.drafts /\ w.drafts[f.draft] = f.id

\* Until it is sent a save is for the payment of the dialog.
PaySave(w, f, s) ==
    /\ s = [step |-> s.step, id |-> s.id, draft |-> s.draft, click |-> s.click,
            vouchers |-> s.vouchers, answered |-> s.answered]
    /\ s.step \in {"upload", "send"} /\ Few(s.vouchers)
    /\ s.step = "upload" => f.id \in SUBSET Payments /\ Belong(w, f.id, f.draft, s.vouchers)
    /\ s.step = "send" => s.id \in SUBSET Payments /\ Belong(w, s.id, s.draft, s.vouchers)

PayOther(o) ==
    o = [kind |-> o.kind, payment |-> o.payment, done |-> o.done] /\ o.payment \in Payments

\* The dialog is submitting for as long as its save and the load after it last.
OneSave ==
    /\ paymentForm.submitting <=> saves # {} \/ \E c \in paymentLoads : c.saving
    /\ AtMostOne(saves)
    /\ \A b, c \in paymentLoads : b.saving /\ c.saving => b = c
    /\ saves # {} => \A c \in paymentLoads : ~c.saving

PayTypes ==
    /\ paymentPage = [mounted |-> paymentPage.mounted, sequence |-> paymentPage.sequence,
                      loading |-> paymentPage.loading]
    /\ paymentPage.sequence \in Nat /\ paymentPage.mounted \in BOOLEAN
    /\ paymentDrafts \in Seq(SUBSET Payments) /\ picked \in Seq(Nat)
    /\ \A d \in DOMAIN picked : picked[d] \in DOMAIN paymentDrafts
    /\ strayed \subseteq DOMAIN picked
    /\ \A o \in others : PayOther(o)

PayInv ==
    /\ PayTypes /\ OneSave
    /\ PaidTable(World, payments) /\ PaidTable(World, paymentList)
    /\ \A c \in paymentLoads : PayLoad(World, c)
    /\ PayForm(World, paymentForm)
    /\ \A s \in saves : PaySave(World, paymentForm, s)

LEMMA PayInit == Received!Init => PayInv
  <1> SUFFICES ASSUME Received!Init PROVE PayInv OBVIOUS
  <1>1. PICK there \in SUBSET Payments :
          payments = [p \in Payments |->
                        IF p \in there
                        THEN [live |-> TRUE, made |-> 0, changed |-> 0, vouchers |-> {}]
                        ELSE [live |-> FALSE]]
    BY DEF Received!Init, Received!Payment, Received!Absent
  <1>2. /\ paymentList = [p \in Payments |-> [live |-> FALSE]]
        /\ paymentPage = [mounted |-> TRUE, sequence |-> 1, loading |-> TRUE]
        /\ paymentLoads = {[sequence |-> 1, answer |-> {}, saving |-> FALSE]}
        /\ paymentForm = [open |-> FALSE, id |-> {}, draft |-> 0, existing |-> {},
                          uploads |-> {}, submitting |-> FALSE]
        /\ paymentDrafts = <<>> /\ picked = <<>> /\ strayed = {}
        /\ saves = {} /\ others = {}
    BY DEF Received!Init, Received!Absent, Received!Blank, Received!LoadCall
  <1>3. /\ IsFiniteSet({}) /\ Cardinality({}) = 0 /\ Vouchers \in Nat
    BY FS_EmptySet, ReceivedBound DEF ReceivedBounds
  <1>4. PaidTable(World, payments)
    <2>1. ASSUME NEW p \in Payments PROVE IsPaid(World, p, payments[p])
      <3>1. CASE p \in there
        <4>1. payments[p] = [live |-> TRUE, made |-> 0, changed |-> 0, vouchers |-> {}]
          BY <1>1, <3>1
        <4> QED BY <1>3, <4>1 DEF IsPaid, Full, Few, World
      <3>2. CASE p \notin there BY <1>1, <3>2 DEF IsPaid
      <3> QED BY <3>1, <3>2
    <2>2. payments = [p \in Payments |-> payments[p]] BY <1>1
    <2> QED BY <2>1, <2>2 DEF PaidTable
  <1>5. PaidTable(World, paymentList) BY <1>2 DEF PaidTable, IsPaid
  <1>6. PayForm(World, paymentForm) BY <1>2, <1>3 DEF PayForm, AtMostOne, Belong
  <1>7. OneSave BY <1>2 DEF OneSave, AtMostOne
  <1>8. ASSUME NEW c \in paymentLoads PROVE PayLoad(World, c)
    <2>1. c = [sequence |-> 1, answer |-> {}, saving |-> FALSE] BY <1>2
    <2> QED BY <2>1 DEF PayLoad
  <1>9. PayTypes BY <1>2 DEF PayTypes
  <1> QED BY <1>2, <1>4, <1>5, <1>6, <1>7, <1>8, <1>9 DEF PayInv

\* Drafts and pictures are added, and a payment stays that of its draft.
WorldGrows(w, next) ==
    /\ w.strayed \subseteq next.strayed
    /\ \A v \in DOMAIN w.picked : v \in DOMAIN next.picked /\ next.picked[v] = w.picked[v]
    /\ \A d \in DOMAIN w.drafts : d \in DOMAIN next.drafts /\ next.drafts[d] = w.drafts[d]
    /\ \A p \in Payments :
          Full(w.rows[p]) => Full(next.rows[p]) /\ next.rows[p].made = w.rows[p].made

LEMMA WorldKeeps ==
    ASSUME NEW w, NEW next, WorldGrows(w, next)
    PROVE  /\ \A id \in SUBSET Payments : \A d, vouchers :
                 Belong(w, id, d, vouchers) => Belong(next, id, d, vouchers)
           /\ \A p \in Payments : \A row : IsPaid(w, p, row) => IsPaid(next, p, row)
           /\ \A table : PaidTable(w, table) => PaidTable(next, table)
           /\ \A c : PayLoad(w, c) => PayLoad(next, c)
           /\ \A f : PayForm(w, f) => PayForm(next, f)
           /\ \A f, s : PaySave(w, f, s) => PaySave(next, f, s)
  <1>1. \A p \in Payments : \A v : OfPayment(w, p, v) => OfPayment(next, p, v)
    BY DEF WorldGrows, OfPayment
  <1>2. \A d, v : OfDraft(w, d, v) => OfDraft(next, d, v) BY DEF WorldGrows, OfDraft
  <1>3. \A id \in SUBSET Payments : \A d, vouchers :
           Belong(w, id, d, vouchers) => Belong(next, id, d, vouchers)
    BY <1>1, <1>2 DEF Belong
  <1>4. \A p \in Payments : \A row : IsPaid(w, p, row) => IsPaid(next, p, row)
    BY <1>1 DEF IsPaid, WorldGrows
  <1>5. \A table : PaidTable(w, table) => PaidTable(next, table) BY <1>4 DEF PaidTable
  <1>6. \A c : PayLoad(w, c) => PayLoad(next, c) BY <1>5 DEF PayLoad
  <1>7. ASSUME NEW f, PayForm(w, f) PROVE PayForm(next, f)
    BY <1>3, <1>7 DEF PayForm, WorldGrows
  <1>8. ASSUME NEW f, NEW s, PaySave(w, f, s) PROVE PaySave(next, f, s)
    BY <1>3, <1>8 DEF PaySave
  <1> QED BY <1>3, <1>4, <1>5, <1>6, <1>7, <1>8

LEMMA SameWorld ==
    ASSUME UNCHANGED <<payments, picked, strayed, paymentDrafts>> PROVE World' = World
  BY DEF World

\* The dialog is closed, or its submission begins or ends.
Flagged(f, open, submitting) == [f EXCEPT !.open = open, !.submitting = submitting]

LEMMA FlagsKeep ==
    ASSUME NEW w, NEW f, PayForm(w, f), NEW open \in BOOLEAN, NEW submitting \in BOOLEAN,
           open => f.open
    PROVE  LET g == Flagged(f, open, submitting)
           IN  /\ PayForm(w, g) /\ g.open = open /\ g.submitting = submitting
               /\ \A s : PaySave(w, f, s) => PaySave(w, g, s)
  <1> DEFINE g == [f EXCEPT !.open = open, !.submitting = submitting]
  <1>1. /\ g = [open |-> g.open, id |-> g.id, draft |-> g.draft, existing |-> g.existing,
                uploads |-> g.uploads, submitting |-> g.submitting]
        /\ g.id = f.id /\ g.draft = f.draft /\ g.existing = f.existing
        /\ g.uploads = f.uploads /\ g.open = open /\ g.submitting = submitting
    <2>1. f = [open |-> f.open, id |-> f.id, draft |-> f.draft, existing |-> f.existing,
               uploads |-> f.uploads, submitting |-> f.submitting]
      BY DEF PayForm
    <2>2. PICK o, id, draft, existing, uploads, s :
            f = [open |-> o, id |-> id, draft |-> draft, existing |-> existing,
                 uploads |-> uploads, submitting |-> s]
      BY <2>1
    <2>3. g = [open |-> open, id |-> id, draft |-> draft, existing |-> existing,
               uploads |-> uploads, submitting |-> submitting]
      <3>1. PICK half : half = [f EXCEPT !.open = open] OBVIOUS
      <3>2. half = [open |-> open, id |-> id, draft |-> draft, existing |-> existing,
                    uploads |-> uploads, submitting |-> s]
        BY <2>2, <3>1
      <3>3. [half EXCEPT !.submitting = submitting] =
              [open |-> open, id |-> id, draft |-> draft, existing |-> existing,
               uploads |-> uploads, submitting |-> submitting]
        BY <3>2
      <3> QED BY <3>1, <3>3
    <2> HIDE DEF g
    <2> QED BY <2>2, <2>3
  <1> HIDE DEF g
  <1>2. PayForm(w, g) BY <1>1 DEF PayForm
  <1>3. \A s : PaySave(w, f, s) => PaySave(w, g, s) BY <1>1 DEF PaySave
  <1> QED BY <1>1, <1>2, <1>3 DEF g, Flagged

\* The page is left or asks for its list, and payments are removed or have receipts.
LEMMA PayVisitsKeep ==
    ASSUME PayInv,
           \/ Received!Refresh \/ Received!Leave
           \/ Received!ConfirmRemove \/ Received!CreateReceipt \/ Received!OtherFails
    PROVE  PayInv'
  <1> USE DEF PayInv
  <1>1. UNCHANGED <<payments, picked, strayed, paymentDrafts, paymentList, paymentForm, saves>>
    BY DEF Received!Refresh, Received!Leave, Received!ConfirmRemove, Received!CreateReceipt,
       Received!OtherFails, Received!Browser
  <1>2. World' = World BY <1>1, SameWorld
  <1>3. /\ PayTypes'
        /\ \A c \in paymentLoads' : c \in paymentLoads \/ (~c.saving /\ PayLoad(World, c))
        /\ paymentLoads \subseteq paymentLoads'
    <2>1. CASE Received!Refresh
      <3>1. PICK c : c = [sequence |-> paymentPage.sequence + 1, answer |-> {}, saving |-> FALSE]
        OBVIOUS
      <3>2. /\ paymentPage' = [paymentPage EXCEPT !.sequence = @ + 1, !.loading = TRUE]
            /\ others' = others
        BY <2>1 DEF Received!Refresh, Received!LoadPageData
      <3>3. paymentPage'.sequence = paymentPage.sequence + 1 BY <3>2 DEF PayTypes
      <3>4. paymentLoads' = paymentLoads \cup {c}
        BY <2>1, <3>1, <3>3 DEF Received!Refresh, Received!LoadCall
      <3>5. ~c.saving /\ PayLoad(World, c) BY <3>1 DEF PayLoad
      <3>6. PayTypes'
        <4>1. paymentPage' = [mounted |-> paymentPage.mounted,
                              sequence |-> paymentPage.sequence + 1, loading |-> TRUE]
          BY <3>2 DEF PayTypes
        <4>2. paymentPage.sequence + 1 \in Nat /\ paymentPage.mounted \in BOOLEAN
          BY DEF PayTypes
        <4>3. /\ paymentPage' = [mounted |-> paymentPage'.mounted,
                                 sequence |-> paymentPage'.sequence,
                                 loading |-> paymentPage'.loading]
              /\ paymentPage'.sequence \in Nat /\ paymentPage'.mounted \in BOOLEAN
          BY <4>1, <4>2
        <4> QED BY <1>1, <3>2, <4>3 DEF PayTypes
      <3> QED BY <3>4, <3>5, <3>6
    <2>2. CASE Received!Leave
      <3>1. /\ paymentPage' = [mounted |-> FALSE, sequence |-> paymentPage.sequence + 1,
                               loading |-> paymentPage.loading]
            /\ UNCHANGED <<paymentLoads, others>>
        BY <2>2 DEF Received!Leave, PayTypes
      <3>2. PayTypes' BY <1>1, <3>1 DEF PayTypes
      <3> QED BY <3>1, <3>2
    <2>3. CASE Received!ConfirmRemove \/ Received!CreateReceipt
      <3>1. PICK o : PayOther(o) /\ others' = others \cup {o}
        <4>1. CASE Received!ConfirmRemove
          <5>1. PICK p \in paymentForm.id :
                  others' = others \cup {[kind |-> "remove", payment |-> p, done |-> FALSE]}
            BY <4>1 DEF Received!ConfirmRemove
          <5>2. p \in Payments BY DEF PayForm
          <5>3. PayOther([kind |-> "remove", payment |-> p, done |-> FALSE])
            BY <5>2 DEF PayOther
          <5> QED BY <5>1, <5>3
        <4>2. CASE Received!CreateReceipt
          <5>1. PICK p \in Payments :
                  others' = others \cup {[kind |-> "receipt", payment |-> p, done |-> FALSE]}
            BY <4>2 DEF Received!CreateReceipt, Received!Shown
          <5>2. PayOther([kind |-> "receipt", payment |-> p, done |-> FALSE])
            BY DEF PayOther
          <5> QED BY <5>1, <5>2
        <4> QED BY <2>3, <4>1, <4>2
      <3>2. UNCHANGED <<paymentPage, paymentLoads>>
        BY <2>3 DEF Received!ConfirmRemove, Received!CreateReceipt
      <3>3. PayTypes' BY <1>1, <3>1, <3>2 DEF PayTypes
      <3> QED BY <3>2, <3>3
    <2>4. CASE Received!OtherFails
      BY <1>1, <2>4 DEF Received!OtherFails, Received!Browser, PayTypes
    <2> QED BY <2>1, <2>2, <2>3, <2>4
  <1>4. OneSave' BY <1>1, <1>3 DEF OneSave
  <1> QED BY <1>1, <1>2, <1>3, <1>4

\* What is saved are pictures that were chosen in a dialog.
SavedPictures(s) == \A v \in s.vouchers : v \in DOMAIN picked /\ picked[v] \in DOMAIN paymentDrafts

LEMMA SavedPicturesAre ==
    ASSUME NEW s, PaySave(World, paymentForm, s) PROVE SavedPictures(s)
  <1>1. \A id, d : Belong(World, id, d, s.vouchers) => SavedPictures(s)
    BY DEF Belong, OfDraft, OfPayment, World, SavedPictures
  <1> QED BY <1>1 DEF PaySave

\* A dialog is opened.
LEMMA PayOpensKeep ==
    ASSUME PayInv, Received!OpenCreate \/ Received!OpenEdit PROVE PayInv'
  <1> USE DEF PayInv
  <1>1. PICK target, vouchers :
          /\ target \in SUBSET Payments
          /\ AtMostOne(target)
          /\ IsFiniteSet(vouchers) /\ Cardinality(vouchers) <= Vouchers
          /\ \A p \in target : \A v \in vouchers : OfPayment(World, p, v)
          /\ target = {} => vouchers = {}
          /\ Received!Opened(target, vouchers)
    <2>1. CASE Received!OpenCreate
      <3>1. IsFiniteSet({}) /\ Cardinality({}) <= Vouchers
        BY FS_EmptySet, ReceivedBound DEF ReceivedBounds
      <3> QED BY <2>1, <3>1 DEF Received!OpenCreate, AtMostOne
    <2>2. CASE Received!OpenEdit
      <3>1. PICK p \in Payments :
              /\ paymentList[p].live
              /\ Received!Opened({p}, paymentList[p].vouchers)
        BY <2>2 DEF Received!OpenEdit, Received!Shown
      <3>2. IsPaid(World, p, paymentList[p]) BY DEF PaidTable
      <3>3. /\ Few(paymentList[p].vouchers)
            /\ \A v \in paymentList[p].vouchers : OfPayment(World, p, v)
        BY <3>1, <3>2 DEF IsPaid
      <3> QED BY <3>1, <3>3 DEF AtMostOne, Few
    <2> QED BY <2>1, <2>2
  <1>2. /\ paymentDrafts' = Append(paymentDrafts, target)
        /\ paymentForm' = [paymentForm EXCEPT
              !.open = TRUE, !.id = target, !.draft = Len(paymentDrafts'),
              !.existing = vouchers, !.uploads = {}]
        /\ strayed \subseteq strayed'
        /\ \A s \in saves : s.step = "upload" => s.vouchers \subseteq strayed'
        /\ \A v \in strayed' : v \in strayed \/ \E s \in saves : s.step = "upload" /\ v \in s.vouchers
        /\ UNCHANGED <<payments, paymentList, paymentPage, paymentLoads, picked, saves, others>>
    BY <1>1 DEF Received!Opened, Received!Stray
  <1>3. /\ paymentDrafts' \in Seq(SUBSET Payments)
        /\ Len(paymentDrafts') \in DOMAIN paymentDrafts'
        /\ paymentDrafts'[Len(paymentDrafts')] = target
        /\ \A d \in DOMAIN paymentDrafts :
              d \in DOMAIN paymentDrafts' /\ paymentDrafts'[d] = paymentDrafts[d]
    BY <1>1, <1>2 DEF PayTypes
  <1>4. WorldGrows(World, World') BY <1>2, <1>3 DEF WorldGrows, World
  <1>5. PICK next : next = World' OBVIOUS
  <1>6. /\ \A id \in SUBSET Payments : \A d, old :
              Belong(World, id, d, old) => Belong(next, id, d, old)
        /\ \A table : PaidTable(World, table) => PaidTable(next, table)
        /\ \A c : PayLoad(World, c) => PayLoad(next, c)
        /\ \A f, s : PaySave(World, f, s) => PaySave(next, f, s)
    BY <1>4, <1>5, WorldKeeps
  <1>7. PayForm(next, paymentForm')
    <2>1. PayForm(World, paymentForm) OBVIOUS
    <2>2. Belong(World, target, Len(paymentDrafts'), vouchers \cup {}) BY <1>1 DEF Belong
    <2>3. Belong(next, target, Len(paymentDrafts'), vouchers \cup {}) BY <1>1, <1>6, <2>2
    <2>4. IsFiniteSet({}) /\ Cardinality({}) = 0 /\ Cardinality(vouchers) \in Nat
      BY <1>1, FS_EmptySet, FS_CardinalityType
    <2>5. next.drafts = paymentDrafts' BY <1>5 DEF World
    <2>6. paymentForm' = [open |-> TRUE, id |-> target, draft |-> Len(paymentDrafts'),
                          existing |-> vouchers, uploads |-> {},
                          submitting |-> paymentForm.submitting]
      BY <1>2, <2>1 DEF PayForm
    <2>7. paymentForm.submitting \in BOOLEAN BY <2>1 DEF PayForm
    <2> QED BY <1>1, <1>3, <2>3, <2>4, <2>5, <2>6, <2>7 DEF PayForm
  <1>8. paymentForm'.submitting = paymentForm.submitting BY <1>2 DEF PayForm
  <1>9. OneSave' BY <1>2, <1>8 DEF OneSave
  <1>10. ASSUME NEW s \in saves PROVE PaySave(next, paymentForm', s) /\ SavedPictures(s)
    <2>1. PaySave(World, paymentForm, s) /\ PaySave(next, paymentForm, s) BY <1>6
    <2>2. SavedPictures(s) BY <2>1, SavedPicturesAre
    <2>3. ASSUME s.step = "upload"
          PROVE  paymentForm'.id \in SUBSET Payments
                 /\ Belong(next, paymentForm'.id, paymentForm'.draft, s.vouchers)
      <3>1. paymentForm'.id \in SUBSET Payments BY <1>7 DEF PayForm
      <3>2. \A v \in s.vouchers : v \in next.strayed BY <1>2, <1>5, <2>3 DEF World
      <3>3. \A v \in s.vouchers : v \in DOMAIN next.picked /\ next.picked[v] \in DOMAIN next.drafts
        BY <1>2, <1>3, <1>5, <2>2 DEF World, SavedPictures
      <3> QED BY <3>1, <3>2, <3>3 DEF Belong, OfDraft, OfPayment
    <2> QED BY <2>1, <2>2, <2>3 DEF PaySave
  <1>11. strayed' \subseteq DOMAIN picked BY <1>2, <1>10 DEF PayTypes, SavedPictures
  <1>12. PayTypes' BY <1>2, <1>3, <1>11 DEF PayTypes
  <1> QED BY <1>2, <1>5, <1>6, <1>7, <1>9, <1>10, <1>12

\* The pictures of the dialog change.
LEMMA PayFormKeeps ==
    ASSUME PayInv, ~paymentForm.submitting, World' = World, PayForm(World, paymentForm'),
           paymentForm'.submitting = FALSE,
           UNCHANGED <<payments, paymentList, paymentPage, paymentLoads, paymentDrafts, picked, strayed,
                       saves, others>>
    PROVE  PayInv'
  <1>1. saves = {} /\ OneSave' BY DEF PayInv, OneSave
  <1>2. PayTypes' BY DEF PayInv, PayTypes
  <1> QED BY <1>1, <1>2 DEF PayInv

\* The dialog is closed, also while its pictures are uploaded.
LEMMA PayCloseKeeps == ASSUME PayInv, Received!ClosePaymentDialog PROVE PayInv'
  <1> USE DEF PayInv
  <1>1. /\ paymentForm' = [paymentForm EXCEPT !.open = FALSE]
        /\ UNCHANGED <<payments, paymentList, paymentPage, paymentLoads, paymentDrafts, picked,
                       strayed, saves, others>>
    BY DEF Received!ClosePaymentDialog
  <1>2. PayForm(World, paymentForm) OBVIOUS
  <1>3. /\ PayForm(World, paymentForm') /\ paymentForm'.submitting = paymentForm.submitting
        /\ \A s : PaySave(World, paymentForm, s) => PaySave(World, paymentForm', s)
    <2>1. PICK submitting : submitting = paymentForm.submitting OBVIOUS
    <2>2. submitting \in BOOLEAN BY <1>2, <2>1 DEF PayForm
    <2>3. paymentForm' = Flagged(paymentForm, FALSE, submitting)
      BY <1>1, <1>2, <2>1 DEF PayForm, Flagged
    <2> QED BY <1>2, <2>1, <2>2, <2>3, FlagsKeep
  <1>4. OneSave' BY <1>1, <1>3 DEF OneSave
  <1>5. PayTypes' BY <1>1 DEF PayTypes
  <1>6. World' = World BY <1>1, SameWorld
  <1> QED BY <1>1, <1>3, <1>4, <1>5, <1>6

LEMMA PayRemovalsKeep ==
    ASSUME PayInv,
           Received!RemovePendingFile \/ Received!RemoveExistingVoucher
    PROVE  PayInv'
  <1>1. PayForm(World, paymentForm) BY DEF PayInv
  <1>2. /\ ~paymentForm.submitting
        /\ UNCHANGED <<payments, paymentList, paymentPage, paymentLoads, paymentDrafts, picked, strayed,
                       saves, others>>
    BY DEF Received!RemovePendingFile, Received!RemoveExistingVoucher
  <1>3. World' = World BY <1>2, SameWorld
  <1>4. PayForm(World, paymentForm') /\ paymentForm'.submitting = FALSE
    <2>1. CASE Received!RemovePendingFile
      <3>1. PICK v \in paymentForm.uploads :
              paymentForm' = [paymentForm EXCEPT !.uploads = @ \ {v}]
        BY <2>1 DEF Received!RemovePendingFile
      <3>2. /\ IsFiniteSet(paymentForm.uploads \ {v})
            /\ Cardinality(paymentForm.uploads \ {v}) = Cardinality(paymentForm.uploads) - 1
        BY <1>1, FS_RemoveElement DEF PayForm
      <3>3. Cardinality(paymentForm.uploads) \in Nat /\ Cardinality(paymentForm.existing) \in Nat
        BY <1>1, FS_CardinalityType DEF PayForm
      <3>4. Cardinality(paymentForm.existing) + Cardinality(paymentForm.uploads \ {v}) <= Vouchers
        BY <1>1, <3>2, <3>3, ReceivedBound DEF PayForm, ReceivedBounds
      <3>5. Belong(World, paymentForm.id, paymentForm.draft,
                   paymentForm.existing \cup (paymentForm.uploads \ {v}))
        BY <1>1 DEF PayForm, Belong
      <3> QED BY <1>1, <1>2, <3>1, <3>2, <3>4, <3>5 DEF PayForm
    <2>2. CASE Received!RemoveExistingVoucher
      <3>1. PICK v \in paymentForm.existing :
              paymentForm' = [paymentForm EXCEPT !.existing = @ \ {v}]
        BY <2>2 DEF Received!RemoveExistingVoucher
      <3>2. /\ IsFiniteSet(paymentForm.existing \ {v})
            /\ Cardinality(paymentForm.existing \ {v}) = Cardinality(paymentForm.existing) - 1
        BY <1>1, FS_RemoveElement DEF PayForm
      <3>3. Cardinality(paymentForm.uploads) \in Nat /\ Cardinality(paymentForm.existing) \in Nat
        BY <1>1, FS_CardinalityType DEF PayForm
      <3>4. Cardinality(paymentForm.existing \ {v}) + Cardinality(paymentForm.uploads) <= Vouchers
        BY <1>1, <3>2, <3>3, ReceivedBound DEF PayForm, ReceivedBounds
      <3>5. Belong(World, paymentForm.id, paymentForm.draft,
                   (paymentForm.existing \ {v}) \cup paymentForm.uploads)
        BY <1>1 DEF PayForm, Belong
      <3> QED BY <1>1, <1>2, <3>1, <3>2, <3>4, <3>5 DEF PayForm
    <2> QED BY <2>1, <2>2
  <1> QED BY <1>2, <1>3, <1>4, PayFormKeeps

LEMMA PayAppendsKeep == ASSUME PayInv, Received!AppendFiles PROVE PayInv'
  <1> USE DEF PayInv
  <1>1. /\ paymentForm.open /\ ~paymentForm.submitting
        /\ Received!Fits(paymentForm.existing, paymentForm.uploads)
        /\ picked' = Append(picked, paymentForm.draft)
        /\ paymentForm' = [paymentForm EXCEPT !.uploads = @ \cup {Len(picked')}]
        /\ UNCHANGED <<payments, paymentList, paymentPage, paymentLoads, paymentDrafts, strayed,
                       saves, others>>
    BY DEF Received!AppendFiles
  <1>2. /\ PayForm(World, paymentForm)
        /\ World.picked = picked /\ World.drafts = paymentDrafts
    BY DEF World
  <1>3. /\ paymentForm.draft \in DOMAIN paymentDrafts
        /\ paymentDrafts[paymentForm.draft] = paymentForm.id
    BY <1>1, <1>2 DEF PayForm
  <1>4. paymentForm.draft \in Nat BY <1>3 DEF PayTypes
  <1>5. /\ picked' \in Seq(Nat)
        /\ Len(picked') \in DOMAIN picked' /\ Len(picked') \notin DOMAIN picked
        /\ picked'[Len(picked')] = paymentForm.draft
        /\ \A v \in DOMAIN picked : v \in DOMAIN picked' /\ picked'[v] = picked[v]
        /\ \A v \in DOMAIN picked' : v \in DOMAIN picked \/ v = Len(picked')
    BY <1>1, <1>4 DEF PayTypes
  <1>6. WorldGrows(World, World') BY <1>1, <1>5 DEF WorldGrows, World
  <1>7. PICK next : next = World' OBVIOUS
  <1>8. /\ \A id \in SUBSET Payments : \A d, old :
              Belong(World, id, d, old) => Belong(next, id, d, old)
        /\ \A table : PaidTable(World, table) => PaidTable(next, table)
        /\ \A c : PayLoad(World, c) => PayLoad(next, c)
    BY <1>6, <1>7, WorldKeeps
  <1>9. PICK v : v = Len(picked') OBVIOUS
  <1>10. PayForm(next, paymentForm')
    <2>1. next.picked = picked' /\ next.drafts = paymentDrafts BY <1>1, <1>7 DEF World
    <2>2. /\ IsFiniteSet(paymentForm.uploads \cup {v})
          /\ Cardinality(paymentForm.uploads \cup {v}) = Cardinality(paymentForm.uploads) + 1
      <3>1. v \notin paymentForm.uploads BY <1>2, <1>5, <1>9 DEF PayForm
      <3> QED BY <1>2, <3>1, FS_AddElement DEF PayForm
    <2>3. Cardinality(paymentForm.uploads) \in Nat /\ Cardinality(paymentForm.existing) \in Nat
      BY <1>2, FS_CardinalityType DEF PayForm
    <2>4. Cardinality(paymentForm.existing) + Cardinality(paymentForm.uploads) < Vouchers
      <3>1. \A S : Received!Cardinality(S) = Cardinality(S)
        BY Zenon DEF Received!Cardinality, Cardinality
      <3> QED BY <1>1, <3>1 DEF Received!Fits
    <2>5. Cardinality(paymentForm.existing) + Cardinality(paymentForm.uploads \cup {v}) <= Vouchers
      BY <2>2, <2>3, <2>4, ReceivedBound DEF ReceivedBounds
    <2>6. Belong(next, paymentForm.id, paymentForm.draft,
                 paymentForm.existing \cup paymentForm.uploads)
      BY <1>2, <1>8 DEF PayForm
    <2>7. Belong(next, paymentForm.id, paymentForm.draft,
                 paymentForm.existing \cup (paymentForm.uploads \cup {v}))
      <3>1. CASE paymentForm.id = {}
        BY <1>3, <1>5, <1>9, <2>1, <2>6, <3>1 DEF Belong, OfDraft
      <3>2. CASE paymentForm.id # {}
        <4>1. \A p \in paymentForm.id : paymentForm.id = {p} BY <1>2 DEF PayForm, AtMostOne
        <4>2. \A p \in paymentForm.id : OfPayment(next, p, v)
          BY <1>3, <1>5, <1>9, <2>1, <4>1 DEF OfPayment
        <4> QED BY <2>6, <3>2, <4>2 DEF Belong
      <3> QED BY <3>1, <3>2
    <2>8. paymentForm.uploads \cup {v} \subseteq DOMAIN next.picked
      BY <1>2, <1>5, <1>9, <2>1 DEF PayForm
    <2> QED BY <1>1, <1>2, <1>3, <1>9, <2>1, <2>2, <2>5, <2>7, <2>8 DEF PayForm
  <1>11. paymentForm'.submitting = FALSE BY <1>1, <1>2 DEF PayForm
  <1>12. saves = {} /\ OneSave' BY <1>1, <1>11 DEF OneSave
  <1>13. PayTypes' BY <1>1, <1>3, <1>5 DEF PayTypes
  <1> QED BY <1>1, <1>7, <1>8, <1>10, <1>12, <1>13

\* A save as it is sent.
Sent(s, target, made) == [s EXCEPT !.step = "send", !.id = target, !.draft = made]

LEMMA SentIs ==
    ASSUME NEW s, s = [step |-> s.step, id |-> s.id, draft |-> s.draft, click |-> s.click,
                       vouchers |-> s.vouchers, answered |-> s.answered],
           NEW target, NEW made
    PROVE  Sent(s, target, made) =
              [step |-> "send", id |-> target, draft |-> made, click |-> s.click,
               vouchers |-> s.vouchers, answered |-> s.answered]
  <1>1. PICK step, id, draft, click, vouchers, answered :
          s = [step |-> step, id |-> id, draft |-> draft, click |-> click,
               vouchers |-> vouchers, answered |-> answered]
    OBVIOUS
  <1>2. PICK first : first = [s EXCEPT !.step = "send"] OBVIOUS
  <1>3. first = [step |-> "send", id |-> id, draft |-> draft, click |-> click,
                 vouchers |-> vouchers, answered |-> answered]
    BY <1>1, <1>2
  <1>4. PICK second : second = [first EXCEPT !.id = target] OBVIOUS
  <1>5. second = [step |-> "send", id |-> target, draft |-> draft, click |-> click,
                  vouchers |-> vouchers, answered |-> answered]
    BY <1>3, <1>4
  <1>6. [second EXCEPT !.draft = made] =
          [step |-> "send", id |-> target, draft |-> made, click |-> click,
           vouchers |-> vouchers, answered |-> answered]
    BY <1>5
  <1>7. click = s.click /\ vouchers = s.vouchers /\ answered = s.answered BY <1>1
  <1> QED BY <1>2, <1>4, <1>6, <1>7 DEF Sent

LEMMA PaySavesKeep == ASSUME PayInv, Received!Save PROVE PayInv'
  <1> USE DEF PayInv
  <1> DEFINE vouchers == paymentForm.existing \cup paymentForm.uploads
  <1>1. PICK s, click :
          /\ s = IF paymentForm.uploads = {}
                 THEN [step |-> "send", id |-> paymentForm.id, draft |-> paymentForm.draft,
                       click |-> click, vouchers |-> vouchers, answered |-> FALSE]
                 ELSE [step |-> "upload", id |-> {}, draft |-> 0, click |-> click,
                       vouchers |-> vouchers, answered |-> FALSE]
          /\ saves' = saves \cup {s} /\ ~paymentForm.submitting
          /\ paymentForm' = [paymentForm EXCEPT !.submitting = TRUE]
          /\ UNCHANGED <<payments, paymentList, paymentPage, paymentLoads, paymentDrafts, picked,
                         strayed, others>>
    <2>1. PICK click : click = paymentCounts'.clicks OBVIOUS
    <2>2. PICK s :
            s = IF paymentForm.uploads = {}
                THEN [step |-> "send", id |-> paymentForm.id, draft |-> paymentForm.draft,
                      click |-> click, vouchers |-> vouchers, answered |-> FALSE]
                ELSE [step |-> "upload", id |-> {}, draft |-> 0, click |-> click,
                      vouchers |-> vouchers, answered |-> FALSE]
      OBVIOUS
    <2>3. Received!Submission =
            [step |-> "upload", id |-> {}, draft |-> 0, click |-> click,
             vouchers |-> vouchers, answered |-> FALSE]
      BY <2>1 DEF Received!Submission
    <2>4. Received!Send(Received!Submission) =
            {[step |-> "send", id |-> paymentForm.id, draft |-> paymentForm.draft,
              click |-> click, vouchers |-> vouchers, answered |-> FALSE]}
      <3>1. PICK sub, all, target, made :
              /\ sub = Received!Submission /\ all = vouchers
              /\ target = paymentForm.id /\ made = paymentForm.draft
        OBVIOUS
      <3>2. sub = [step |-> "upload", id |-> {}, draft |-> 0, click |-> click,
                   vouchers |-> all, answered |-> FALSE]
        BY <2>3, <3>1
      <3>3. Sent(sub, target, made) =
              [step |-> "send", id |-> target, draft |-> made, click |-> click,
               vouchers |-> all, answered |-> FALSE]
        <4>1. sub = [step |-> sub.step, id |-> sub.id, draft |-> sub.draft, click |-> sub.click,
                     vouchers |-> sub.vouchers, answered |-> sub.answered]
          BY <3>2
        <4>2. sub.click = click /\ sub.vouchers = all /\ sub.answered = FALSE BY <3>2
        <4>3. Sent(sub, target, made) =
                [step |-> "send", id |-> target, draft |-> made, click |-> sub.click,
                 vouchers |-> sub.vouchers, answered |-> sub.answered]
          BY <4>1, SentIs
        <4> QED BY <4>2, <4>3
      <3> QED BY <3>1, <3>3 DEF Received!Send, Sent
    <2>5. saves' = saves \cup {s} BY <2>2, <2>3, <2>4 DEF Received!Save
    <2> QED BY <2>2, <2>5 DEF Received!Save
  <1>2. PayForm(World, paymentForm) OBVIOUS
  <1>3. Few(vouchers)
    <2>1. /\ IsFiniteSet(paymentForm.existing) /\ IsFiniteSet(paymentForm.uploads)
          /\ Cardinality(paymentForm.existing) + Cardinality(paymentForm.uploads) <= Vouchers
      BY <1>2 DEF PayForm
    <2>2. /\ IsFiniteSet(vouchers)
          /\ Cardinality(vouchers) = Cardinality(paymentForm.existing)
                + Cardinality(paymentForm.uploads)
                - Cardinality(paymentForm.existing \cap paymentForm.uploads)
      BY <2>1, FS_Union
    <2>3. IsFiniteSet(paymentForm.existing \cap paymentForm.uploads) BY <2>1, FS_Intersection
    <2>4. /\ Cardinality(paymentForm.existing \cap paymentForm.uploads) \in Nat
          /\ Cardinality(paymentForm.existing) \in Nat /\ Cardinality(paymentForm.uploads) \in Nat
      BY <2>1, <2>3, FS_CardinalityType
    <2> QED BY <2>1, <2>2, <2>4, ReceivedBound DEF Few, ReceivedBounds
  <1>4. Belong(World, paymentForm.id, paymentForm.draft, vouchers) BY <1>2 DEF PayForm
  <1>5. /\ PayForm(World, paymentForm') /\ paymentForm'.submitting = TRUE
        /\ paymentForm'.id = paymentForm.id /\ paymentForm'.draft = paymentForm.draft
    BY <1>1, <1>2 DEF PayForm
  <1>6. PaySave(World, paymentForm', s)
    <2>1. paymentForm.id \in SUBSET Payments BY <1>2 DEF PayForm
    <2>2. CASE paymentForm.uploads = {} BY <1>1, <1>3, <1>4, <2>1, <2>2 DEF PaySave
    <2>3. CASE paymentForm.uploads # {} BY <1>1, <1>3, <1>4, <1>5, <2>1, <2>3 DEF PaySave
    <2> QED BY <2>2, <2>3
  <1>7. saves = {} BY <1>1 DEF OneSave
  <1>8. OneSave' BY <1>1, <1>5, <1>7 DEF OneSave, AtMostOne
  <1>9. World' = World BY <1>1, SameWorld
  <1>10. PayTypes' BY <1>1 DEF PayTypes
  <1> QED BY <1>1, <1>5, <1>6, <1>7, <1>8, <1>9, <1>10

\* The backend.
LEMMA PayServesKeep ==
    ASSUME PayInv, Received!ServeLoad \/ Received!ServeUpload PROVE PayInv'
  <1> USE DEF PayInv
  <1>1. UNCHANGED <<payments, paymentList, paymentPage, paymentForm, paymentDrafts, picked, strayed,
                    others>>
    BY DEF Received!ServeLoad, Received!ServeUpload, Received!Browser
  <1>2. World' = World /\ PayTypes' BY <1>1, SameWorld DEF PayTypes
  <1>3. CASE Received!ServeLoad
    <2>1. PICK c \in paymentLoads :
            /\ paymentLoads' = (paymentLoads \ {c}) \cup {[c EXCEPT !.answer = {payments}]}
            /\ saves' = saves
      BY <1>3 DEF Received!ServeLoad
    <2>2. PICK d : d = [c EXCEPT !.answer = {payments}] OBVIOUS
    <2>3. PayLoad(World, c) OBVIOUS
    <2>4. PayLoad(World, d) /\ d.saving = c.saving BY <2>2, <2>3 DEF PayLoad
    <2>5. OneSave' BY <1>1, <2>1, <2>2, <2>4 DEF OneSave
    <2> QED BY <1>1, <1>2, <2>1, <2>2, <2>4, <2>5
  <1>4. CASE Received!ServeUpload
    <2>1. PICK s \in saves :
            /\ saves' = (saves \ {s}) \cup {[s EXCEPT !.answered = TRUE]}
            /\ paymentLoads' = paymentLoads
      BY <1>4 DEF Received!ServeUpload
    <2>2. PICK t : t = [s EXCEPT !.answered = TRUE] OBVIOUS
    <2>3. PaySave(World, paymentForm, s) OBVIOUS
    <2>4. PaySave(World, paymentForm, t) BY <2>2, <2>3 DEF PaySave
    <2>5. saves \ {s} = {} BY DEF OneSave, AtMostOne
    <2>6. OneSave' BY <1>1, <2>1, <2>2, <2>5 DEF OneSave, AtMostOne
    <2> QED BY <1>1, <1>2, <2>1, <2>2, <2>4, <2>6
  <1> QED BY <1>3, <1>4

\* A payment that is there keeps the draft that made it.
LEMMA RowGrows ==
    ASSUME PayInv, NEW p \in Payments, NEW row, Full(row),
           payments' = [payments EXCEPT ![p] = row],
           Full(payments[p]) => row.made = payments[p].made,
           UNCHANGED <<picked, strayed, paymentDrafts>>
    PROVE  WorldGrows(World, World')
  <1>1. payments = [q \in Payments |-> payments[q]] BY DEF PayInv, PaidTable
  <1>2. payments'[p] = row BY <1>1
  <1>3. \A q \in Payments : q # p => payments'[q] = payments[q] BY <1>1
  <1> QED BY <1>2, <1>3 DEF WorldGrows, World

LEMMA PayServeSaveKeeps == ASSUME PayInv, Received!ServeSave PROVE PayInv'
  <1> USE DEF PayInv
  <1>1. PICK s, p, row :
          /\ s \in saves
          /\ p \in Payments
          /\ s.step = "send"
          /\ IF s.id = {} THEN payments[p] = [live |-> FALSE] ELSE s.id = {p} /\ payments[p].live
          /\ row = [live |-> TRUE, made |-> IF s.id = {} THEN s.draft ELSE payments[p].made,
                    changed |-> s.click, vouchers |-> s.vouchers]
          /\ payments' = [payments EXCEPT ![p] = row]
          /\ saves' = (saves \ {s}) \cup {[s EXCEPT !.answered = TRUE]}
          /\ UNCHANGED <<paymentList, paymentPage, paymentForm, paymentDrafts, picked,
                         strayed, paymentLoads, others>>
    BY DEF Received!ServeSave, Received!Browser, Received!Absent, Received!Payment
  <1>2. PaySave(World, paymentForm, s) /\ IsPaid(World, p, payments[p]) BY <1>1 DEF PaidTable
  <1>3. Few(s.vouchers) /\ Belong(World, s.id, s.draft, s.vouchers) BY <1>1, <1>2 DEF PaySave
  <1>4. Full(row) /\ row.live = TRUE /\ row.vouchers = s.vouchers BY <1>1 DEF Full
  <1>5. Full(payments[p]) => row.made = payments[p].made
    <2>1. CASE s.id = {}
      <3>1. ~Full([live |-> FALSE])
        <4>1. DOMAIN [live |-> FALSE] = {"live"} OBVIOUS
        <4>2. Full([live |-> FALSE]) => "made" \in DOMAIN [live |-> FALSE] BY DEF Full
        <4> QED BY <4>1, <4>2
      <3> QED BY <1>1, <2>1, <3>1
    <2>2. CASE s.id # {} BY <1>1, <2>2
    <2> QED BY <2>1, <2>2
  <1>6. WorldGrows(World, World') BY <1>1, <1>4, <1>5, RowGrows
  <1>7. PICK next : next = World' OBVIOUS
  <1>8. /\ \A id \in SUBSET Payments : \A d, old :
              Belong(World, id, d, old) => Belong(next, id, d, old)
        /\ \A q \in Payments : \A old : IsPaid(World, q, old) => IsPaid(next, q, old)
        /\ \A table : PaidTable(World, table) => PaidTable(next, table)
        /\ \A c : PayLoad(World, c) => PayLoad(next, c)
        /\ \A f : PayForm(World, f) => PayForm(next, f)
        /\ \A f, t : PaySave(World, f, t) => PaySave(next, f, t)
    BY <1>6, <1>7, WorldKeeps
  <1>9. /\ next.rows[p] = row /\ next.picked = picked /\ next.drafts = paymentDrafts
        /\ next.strayed = strayed
    <2>1. payments'[p] = row BY <1>1 DEF PaidTable
    <2> QED BY <1>1, <1>7, <2>1 DEF World
  <1>10. IsPaid(next, p, row)
    <2>1. \A v \in s.vouchers : OfPayment(next, p, v)
      <3>1. CASE s.id = {}
        <4>1. \A v \in s.vouchers : OfDraft(World, s.draft, v) BY <1>3, <3>1 DEF Belong
        <4>2. row.made = s.draft BY <1>1, <3>1
        <4> QED BY <1>4, <1>9, <4>1, <4>2 DEF OfDraft, OfPayment, World
      <3>2. CASE s.id # {}
        <4>1. s.id = {p} /\ s.id \in SUBSET Payments BY <1>1, <3>2
        <4>2. Belong(next, s.id, s.draft, s.vouchers) BY <1>3, <1>8, <4>1
        <4> QED BY <3>2, <4>1, <4>2 DEF Belong
      <3> QED BY <3>1, <3>2
    <2> QED BY <1>3, <1>4, <1>9, <2>1 DEF IsPaid
  <1>11. PaidTable(next, payments')
    <2>1. payments = [q \in Payments |-> payments[q]] BY DEF PaidTable
    <2>2. /\ payments' = [q \in Payments |-> payments'[q]] /\ payments'[p] = row
          /\ \A q \in Payments : q # p => payments'[q] = payments[q]
      BY <1>1, <2>1
    <2>3. \A q \in Payments : IsPaid(next, q, payments[q]) BY <1>8 DEF PaidTable
    <2> QED BY <1>10, <2>2, <2>3 DEF PaidTable
  <1>12. PICK t : t = [s EXCEPT !.answered = TRUE] OBVIOUS
  <1>13. PaySave(next, paymentForm, t)
    <2>1. PaySave(World, paymentForm, t) BY <1>2, <1>12 DEF PaySave
    <2> QED BY <1>8, <2>1
  <1>14. saves \ {s} = {} BY <1>1 DEF OneSave, AtMostOne
  <1>15. OneSave' BY <1>1, <1>12, <1>14 DEF OneSave, AtMostOne
  <1>16. PayTypes' BY <1>1 DEF PayTypes
  <1> QED BY <1>1, <1>7, <1>8, <1>11, <1>12, <1>13, <1>14, <1>15, <1>16

LEMMA PayServeOtherKeeps == ASSUME PayInv, Received!ServeOther PROVE PayInv'
  <1> USE DEF PayInv
  <1>1. PICK o, p :
          /\ o \in others
          /\ p = o.payment /\ payments[p].live
          /\ payments' = IF o.kind = "remove" THEN [payments EXCEPT ![p].live = FALSE] ELSE payments
          /\ others' = (others \ {o}) \cup {[o EXCEPT !.done = TRUE]}
          /\ UNCHANGED <<paymentList, paymentPage, paymentForm, paymentDrafts, picked, strayed,
                         paymentLoads, saves>>
    BY DEF Received!ServeOther, Received!Browser
  <1>2. PayOther(o) BY <1>1 DEF PayTypes
  <1>3. p \in Payments /\ PayOther([o EXCEPT !.done = TRUE])
    <2>1. PICK t : t = [o EXCEPT !.done = TRUE] OBVIOUS
    <2>2. t.kind = o.kind /\ t.payment = p
          /\ t = [kind |-> t.kind, payment |-> t.payment, done |-> t.done]
      BY <1>1, <1>2, <2>1 DEF PayOther
    <2>3. p \in Payments BY <1>1, <1>2 DEF PayOther
    <2> QED BY <2>1, <2>2, <2>3 DEF PayOther
  <1>4. PayTypes' BY <1>1, <1>3 DEF PayTypes
  <1>5. OneSave' BY <1>1 DEF OneSave
  <1>6. CASE o.kind # "remove"
    <2>1. World' = World /\ payments' = payments BY <1>1, <1>6, SameWorld
    <2> QED BY <1>1, <1>4, <1>5, <2>1
  <1>7. CASE o.kind = "remove"
    <2>1. PICK row : row = [payments[p] EXCEPT !.live = FALSE] OBVIOUS
    <2>2. payments' = [payments EXCEPT ![p] = row] BY <1>1, <1>7, <2>1
    <2>3. IsPaid(World, p, payments[p]) BY <1>3 DEF PaidTable
    <2>4. Full(payments[p])
      <3>1. payments[p] # [live |-> FALSE] BY <1>1
      <3> QED BY <2>3, <3>1 DEF IsPaid
    <2>5. /\ Full(row) /\ row.live = FALSE /\ row.vouchers = payments[p].vouchers
          /\ row.made = payments[p].made
      BY <2>1, <2>4 DEF Full
    <2>6. WorldGrows(World, World') BY <1>1, <1>3, <2>2, <2>5, RowGrows
    <2>7. PICK next : next = World' OBVIOUS
    <2>8. /\ \A q \in Payments : \A old : IsPaid(World, q, old) => IsPaid(next, q, old)
          /\ \A table : PaidTable(World, table) => PaidTable(next, table)
          /\ \A c : PayLoad(World, c) => PayLoad(next, c)
          /\ \A f : PayForm(World, f) => PayForm(next, f)
          /\ \A f, t : PaySave(World, f, t) => PaySave(next, f, t)
      BY <2>6, <2>7, WorldKeeps
    <2>9. IsPaid(next, p, row)
      <3>1. IsPaid(World, p, row)
        <4>1. /\ Few(payments[p].vouchers) /\ Full(World.rows[p])
              /\ World.rows[p].made = payments[p].made
              /\ \A v \in payments[p].vouchers : OfPayment(World, p, v)
          <5>1. payments[p] # [live |-> FALSE] BY <1>1
          <5> QED BY <2>3, <5>1 DEF IsPaid
        <4> QED BY <2>5, <4>1 DEF IsPaid
      <3> QED BY <1>3, <2>8, <3>1
    <2>10. PaidTable(next, payments')
      <3>1. payments = [q \in Payments |-> payments[q]] BY DEF PaidTable
      <3>2. /\ payments' = [q \in Payments |-> payments'[q]] /\ payments'[p] = row
            /\ \A q \in Payments : q # p => payments'[q] = payments[q]
        BY <1>3, <2>2, <3>1
      <3>3. \A q \in Payments : IsPaid(next, q, payments[q]) BY <2>8 DEF PaidTable
      <3> QED BY <2>9, <3>2, <3>3 DEF PaidTable
    <2> QED BY <1>1, <1>4, <1>5, <2>7, <2>8, <2>10
  <1> QED BY <1>6, <1>7

\* The answers.
LEMMA PayListKeeps ==
    ASSUME PayInv, Received!LoadAnswered \/ Received!LoadFails PROVE PayInv'
  <1> USE DEF PayInv
  <1>1. PICK c \in paymentLoads :
          /\ paymentLoads' = paymentLoads \ {c}
          /\ PaidTable(World, paymentList')
          /\ \/ paymentPage' = paymentPage
             \/ paymentPage' = [paymentPage EXCEPT !.loading = FALSE]
          /\ paymentForm' = [paymentForm EXCEPT !.submitting = @ /\ ~c.saving]
          /\ UNCHANGED <<payments, paymentDrafts, picked, strayed, saves, others>>
    <2>1. CASE Received!LoadAnswered
      <3>1. PICK c, answer :
              /\ c \in paymentLoads
              /\ answer \in c.answer /\ paymentLoads' = paymentLoads \ {c}
              /\ paymentList' = answer \/ paymentList' = paymentList
              /\ \/ paymentPage' = paymentPage
                 \/ paymentPage' = [paymentPage EXCEPT !.loading = FALSE]
              /\ paymentForm' = [paymentForm EXCEPT !.submitting = @ /\ ~c.saving]
              /\ UNCHANGED <<payments, paymentDrafts, picked, strayed, saves, others>>
        BY <2>1 DEF Received!LoadAnswered, Received!Ended
      <3>2. PaidTable(World, answer) BY <3>1 DEF PayLoad
      <3> QED BY <3>1, <3>2
    <2>2. CASE Received!LoadFails
      BY <2>2 DEF Received!LoadFails, Received!Ended
    <2> QED BY <2>1, <2>2
  <1>2. PayLoad(World, c) /\ PayForm(World, paymentForm) OBVIOUS
  <1>3. PICK open, submitting :
          open = paymentForm.open /\ submitting = (paymentForm.submitting /\ ~c.saving)
    OBVIOUS
  <1>4. open \in BOOLEAN /\ submitting \in BOOLEAN BY <1>2, <1>3 DEF PayForm, PayLoad
  <1>5. paymentForm' = Flagged(paymentForm, open, submitting)
    BY <1>1, <1>2, <1>3 DEF PayForm, Flagged
  <1>6. /\ PayForm(World, paymentForm') /\ paymentForm'.submitting = submitting
        /\ \A s : PaySave(World, paymentForm, s) => PaySave(World, paymentForm', s)
    BY <1>2, <1>3, <1>4, <1>5, FlagsKeep
  <1>7. OneSave' BY <1>1, <1>3, <1>6 DEF OneSave, PayLoad
  <1>8. PayTypes'
    <2>1. /\ paymentPage' = [mounted |-> paymentPage'.mounted, sequence |-> paymentPage'.sequence,
                             loading |-> paymentPage'.loading]
          /\ paymentPage'.sequence \in Nat /\ paymentPage'.mounted \in BOOLEAN
      BY <1>1 DEF PayTypes
    <2> QED BY <1>1, <2>1 DEF PayTypes
  <1>9. World' = World BY <1>1, SameWorld
  <1> QED BY <1>1, <1>6, <1>7, <1>8, <1>9

LEMMA PayUploadedKeeps == ASSUME PayInv, Received!Uploaded PROVE PayInv'
  <1> USE DEF PayInv
  <1>1. PICK s \in saves :
          /\ s.step = "upload"
          /\ saves' = (saves \ {s}) \cup Received!Send([s EXCEPT !.answered = FALSE])
          /\ UNCHANGED <<payments, paymentList, paymentPage, paymentForm, paymentDrafts, picked,
                         strayed, paymentLoads, others>>
    BY DEF Received!Uploaded, Received!Browser
  <1>2. PaySave(World, paymentForm, s) OBVIOUS
  <1>3. PICK t : t = [s EXCEPT !.answered = FALSE] OBVIOUS
  <1>4. /\ t = [step |-> t.step, id |-> t.id, draft |-> t.draft, click |-> t.click,
                vouchers |-> t.vouchers, answered |-> t.answered]
        /\ t.vouchers = s.vouchers
    BY <1>2, <1>3 DEF PaySave
  <1>5. PICK u : u = Sent(t, paymentForm.id, paymentForm.draft) OBVIOUS
  <1>6. u = [step |-> "send", id |-> paymentForm.id, draft |-> paymentForm.draft,
             click |-> t.click, vouchers |-> t.vouchers, answered |-> t.answered]
    BY <1>4, <1>5, SentIs
  <1>7. PaySave(World, paymentForm, u)
    <2>1. Few(s.vouchers) /\ Belong(World, paymentForm.id, paymentForm.draft, s.vouchers)
      BY <1>1, <1>2 DEF PaySave
    <2>2. paymentForm.id \in SUBSET Payments BY DEF PayForm
    <2> QED BY <1>4, <1>6, <2>1, <2>2 DEF PaySave
  <1>8. saves' = (saves \ {s}) \cup {u} BY <1>1, <1>3, <1>5 DEF Received!Send, Sent
  <1>9. saves \ {s} = {} BY DEF OneSave, AtMostOne
  <1>10. OneSave' BY <1>1, <1>8, <1>9 DEF OneSave, AtMostOne
  <1>11. PayTypes' BY <1>1 DEF PayTypes
  <1>12. World' = World BY <1>1, SameWorld
  <1> QED BY <1>1, <1>7, <1>8, <1>9, <1>10, <1>11, <1>12

\* The list is asked for again, unless the page was left.
LEMMA PayReloadIs ==
    ASSUME PayInv, NEW tied \in BOOLEAN, Received!Reload(tied),
           UNCHANGED <<paymentDrafts, picked, strayed>>, \A o \in others' : PayOther(o)
    PROVE  /\ PayTypes'
           /\ \E new : /\ paymentLoads' = paymentLoads \cup new
                       /\ \A c \in new : c.saving = tied /\ PayLoad(World, c)
                       /\ AtMostOne(new) /\ (new # {} <=> paymentPage.mounted)
           /\ paymentPage'.mounted = paymentPage.mounted
  <1> USE DEF PayInv
  <1>1. CASE paymentPage.mounted
    <2>1. paymentPage' = [paymentPage EXCEPT !.sequence = @ + 1, !.loading = TRUE]
      BY <1>1 DEF Received!Reload, Received!LoadPageData
    <2>2. PICK n : n = paymentPage'.sequence OBVIOUS
    <2>3. PICK c : c = [sequence |-> n, answer |-> {}, saving |-> tied] OBVIOUS
    <2>4. paymentLoads' = paymentLoads \cup {c}
      BY <1>1, <2>2, <2>3 DEF Received!Reload, Received!LoadCall
    <2>5. c.saving = tied /\ PayLoad(World, c) BY <2>3 DEF PayLoad
    <2>6. /\ paymentPage' = [mounted |-> paymentPage.mounted,
                             sequence |-> paymentPage.sequence + 1, loading |-> TRUE]
          /\ paymentPage.sequence + 1 \in Nat /\ paymentPage.mounted \in BOOLEAN
      <3>1. PICK now, number, loading, next, yes :
              /\ paymentPage = [mounted |-> now, sequence |-> number, loading |-> loading]
              /\ next = number + 1 /\ yes = TRUE
        BY DEF PayTypes
      <3>2. PICK half : half = [paymentPage EXCEPT !.sequence = next] OBVIOUS
      <3>3. half = [mounted |-> now, sequence |-> next, loading |-> loading] BY <3>1, <3>2
      <3>4. [half EXCEPT !.loading = yes] = [mounted |-> now, sequence |-> next, loading |-> yes]
        BY <3>3
      <3>5. now = paymentPage.mounted /\ number = paymentPage.sequence BY <3>1
      <3>6. paymentPage' = [half EXCEPT !.loading = yes] BY <2>1, <3>1, <3>2, <3>5
      <3>7. paymentPage.sequence + 1 \in Nat /\ paymentPage.mounted \in BOOLEAN BY DEF PayTypes
      <3> QED BY <3>1, <3>4, <3>5, <3>6, <3>7
    <2>7. /\ paymentPage' = [mounted |-> paymentPage'.mounted, sequence |-> paymentPage'.sequence,
                             loading |-> paymentPage'.loading]
          /\ paymentPage'.sequence \in Nat /\ paymentPage'.mounted = paymentPage.mounted
          /\ paymentPage.mounted \in BOOLEAN
      BY <2>6
    <2>8. PayTypes' BY <2>7 DEF PayTypes
    <2>9. /\ \A d \in {c} : d.saving = tied /\ PayLoad(World, d)
          /\ AtMostOne({c}) /\ {c} # {}
      BY <2>5 DEF AtMostOne
    <2> QED BY <1>1, <2>4, <2>7, <2>8, <2>9
  <1>2. CASE ~paymentPage.mounted
    <2>1. UNCHANGED <<paymentPage, paymentLoads>> BY <1>2 DEF Received!Reload
    <2>2. PayTypes' BY <2>1 DEF PayTypes
    <2>3. PICK new : new = {} OBVIOUS
    <2>4. /\ paymentLoads' = paymentLoads \cup new /\ AtMostOne(new) /\ new = {}
          /\ \A c \in new : c.saving = tied /\ PayLoad(World, c)
      BY <2>1, <2>3 DEF AtMostOne
    <2> QED BY <1>2, <2>1, <2>2, <2>4
  <1> QED BY <1>1, <1>2

LEMMA PaySavedKeeps == ASSUME PayInv, Received!SaveAnswered PROVE PayInv'
  <1> USE DEF PayInv
  <1>1. PICK s \in saves :
          /\ saves' = saves \ {s}
          /\ paymentForm' = [paymentForm EXCEPT !.open = FALSE, !.submitting = paymentPage.mounted]
          /\ Received!Reload(TRUE)
          /\ UNCHANGED <<payments, paymentList, paymentDrafts, picked, strayed, others>>
    BY DEF Received!SaveAnswered
  <1>2. \A o \in others' : PayOther(o) BY <1>1 DEF PayTypes
  <1>3. /\ PayTypes'
        /\ \E new : /\ paymentLoads' = paymentLoads \cup new
                    /\ \A c \in new : c.saving = TRUE /\ PayLoad(World, c)
                    /\ AtMostOne(new) /\ (new # {} <=> paymentPage.mounted)
    BY <1>1, <1>2, PayReloadIs
  <1>4. PayForm(World, paymentForm) /\ paymentPage.mounted \in BOOLEAN BY DEF PayTypes
  <1>5. PayForm(World, paymentForm') /\ paymentForm'.submitting = paymentPage.mounted
    <2>1. PICK there : there = paymentPage.mounted OBVIOUS
    <2>2. paymentForm' = Flagged(paymentForm, FALSE, there) BY <1>1, <2>1 DEF Flagged
    <2> QED BY <1>4, <2>1, <2>2, FlagsKeep
  <1>6. saves' = {} BY <1>1 DEF OneSave, AtMostOne
  <1>7. \A c \in paymentLoads : ~c.saving BY DEF OneSave
  <1>8. OneSave' BY <1>3, <1>5, <1>6, <1>7 DEF OneSave, AtMostOne
  <1>9. World' = World BY <1>1, SameWorld
  <1> QED BY <1>1, <1>3, <1>5, <1>6, <1>8, <1>9

LEMMA PayOtherKeeps == ASSUME PayInv, Received!OtherAnswered PROVE PayInv'
  <1> USE DEF PayInv
  <1>1. PICK o \in others :
          /\ others' = others \ {o}
          /\ paymentForm' = IF o.kind = "remove" THEN [paymentForm EXCEPT !.open = FALSE]
                            ELSE paymentForm
          /\ Received!Reload(FALSE)
          /\ UNCHANGED <<payments, paymentList, paymentDrafts, picked, strayed, saves>>
    BY DEF Received!OtherAnswered
  <1>2. \A p \in others' : PayOther(p) BY <1>1 DEF PayTypes
  <1>3. /\ PayTypes'
        /\ \E new : /\ paymentLoads' = paymentLoads \cup new
                    /\ \A c \in new : c.saving = FALSE /\ PayLoad(World, c)
                    /\ AtMostOne(new) /\ (new # {} <=> paymentPage.mounted)
    BY <1>1, <1>2, PayReloadIs
  <1>4. PayForm(World, paymentForm) OBVIOUS
  <1>5. /\ PayForm(World, paymentForm') /\ paymentForm'.submitting = paymentForm.submitting
        /\ \A s : PaySave(World, paymentForm, s) => PaySave(World, paymentForm', s)
    <2>1. CASE o.kind = "remove"
      <3>1. PICK submitting : submitting = paymentForm.submitting OBVIOUS
      <3>2. submitting \in BOOLEAN BY <1>4, <3>1 DEF PayForm
      <3>3. paymentForm' = Flagged(paymentForm, FALSE, submitting)
        BY <1>1, <1>4, <2>1, <3>1 DEF PayForm, Flagged
      <3> QED BY <1>4, <3>1, <3>2, <3>3, FlagsKeep
    <2>2. CASE o.kind # "remove" BY <1>1, <1>4, <2>2
    <2> QED BY <2>1, <2>2
  <1>6. OneSave' BY <1>1, <1>3, <1>5 DEF OneSave
  <1>7. World' = World BY <1>1, SameWorld
  <1> QED BY <1>1, <1>3, <1>5, <1>6, <1>7

LEMMA PayFailsKeeps == ASSUME PayInv, Received!SaveFails PROVE PayInv'
  <1> USE DEF PayInv
  <1>1. PICK s \in saves :
          /\ saves' = saves \ {s}
          /\ paymentForm' = [paymentForm EXCEPT !.submitting = FALSE]
          /\ UNCHANGED <<payments, paymentList, paymentPage, paymentLoads, paymentDrafts, picked,
                         strayed, others>>
    BY DEF Received!SaveFails
  <1>2. PayForm(World, paymentForm) OBVIOUS
  <1>3. PayForm(World, paymentForm') /\ paymentForm'.submitting = FALSE
    <2>1. PICK open : open = paymentForm.open OBVIOUS
    <2>2. open \in BOOLEAN BY <1>2, <2>1 DEF PayForm
    <2>3. paymentForm' = Flagged(paymentForm, open, FALSE)
      BY <1>1, <1>2, <2>1 DEF PayForm, Flagged
    <2> QED BY <1>2, <2>1, <2>2, <2>3, FlagsKeep
  <1>4. saves' = {} BY <1>1 DEF OneSave, AtMostOne
  <1>5. OneSave' BY <1>1, <1>3, <1>4 DEF OneSave, AtMostOne
  <1>6. PayTypes' BY <1>1 DEF PayTypes
  <1>7. World' = World BY <1>1, SameWorld
  <1> QED BY <1>1, <1>3, <1>4, <1>5, <1>6, <1>7

LEMMA PayNext == ASSUME PayInv, Received!Next PROVE PayInv'
  <1>1. CASE Received!User
    BY <1>1, PayVisitsKeep, PayOpensKeep, PayCloseKeeps, PayRemovalsKeep, PayAppendsKeep, PaySavesKeep
       DEF Received!User
  <1>2. CASE Received!Served
    BY <1>2, PayServesKeep, PayServeSaveKeeps, PayServeOtherKeeps DEF Received!Served
  <1>3. CASE Received!Handled
    BY <1>3, PayListKeeps, PayUploadedKeeps, PaySavedKeeps, PayOtherKeeps, PayVisitsKeep
       DEF Received!Handled
  <1>4. CASE Received!LoadFails \/ Received!SaveFails BY <1>4, PayListKeeps, PayFailsKeeps
  <1> QED BY <1>1, <1>2, <1>3, <1>4 DEF Received!Next

LEMMA PaymentsTell ==
    ASSUME PayInv PROVE Received!TypeOK /\ Received!VouchersOfTheirPayment
  <1>1. \A S : Received!Cardinality(S) = Cardinality(S)
    BY Zenon DEF Received!Cardinality, Cardinality
  <1>2. \A p \in Payments : IsPaid(World, p, payments[p]) /\ IsPaid(World, p, paymentList[p])
    BY DEF PayInv, PaidTable
  <1>3. \A p, row : IsPaid(World, p, row) => row.live \in BOOLEAN
    <2> SUFFICES ASSUME NEW p, NEW row, IsPaid(World, p, row) PROVE row.live \in BOOLEAN
      OBVIOUS
    <2>1. CASE row = [live |-> FALSE] BY <2>1
    <2>2. CASE row # [live |-> FALSE] BY <2>2 DEF IsPaid
    <2> QED BY <2>1, <2>2
  <1>4. Received!VouchersOfTheirPayment
    <2> SUFFICES ASSUME NEW p \in Payments, payments[p].live,
                        NEW v \in payments[p].vouchers \ strayed
                 PROVE  IF paymentDrafts[picked[v]] = {} THEN payments[p].made = picked[v]
                        ELSE paymentDrafts[picked[v]] = {p}
      BY DEF Received!VouchersOfTheirPayment
    <2>1. payments[p] # [live |-> FALSE] OBVIOUS
    <2>2. OfPayment(World, p, v) BY <1>2, <2>1 DEF IsPaid
    <2> QED BY <2>2 DEF OfPayment, World
  <1>5. Received!TypeOK
    <2>1. \A p \in Payments : payments[p].live \in BOOLEAN /\ paymentList[p].live \in BOOLEAN
      BY <1>2, <1>3
    <2>2. PayForm(World, paymentForm) BY DEF PayInv
    <2>3. Cardinality(paymentForm.id) <= 1 BY <2>2, AtMostOneCounts DEF PayForm
    <2>4. /\ paymentForm.uploads \subseteq DOMAIN picked
          /\ Cardinality(paymentForm.existing) + Cardinality(paymentForm.uploads) <= Vouchers
      BY <2>2 DEF PayForm, World
    <2>5. ASSUME NEW s \in saves
          PROVE  s.step \in {"upload", "send"} /\ s.vouchers \subseteq DOMAIN picked
      <3>1. PaySave(World, paymentForm, s) BY DEF PayInv
      <3>2. \A id, d : Belong(World, id, d, s.vouchers) => s.vouchers \subseteq DOMAIN picked
        BY DEF Belong, OfDraft, OfPayment, World
      <3> QED BY <3>1, <3>2 DEF PaySave
    <2>6. /\ paymentPage.sequence \in Nat
          /\ \A d \in DOMAIN picked : picked[d] \in DOMAIN paymentDrafts
          /\ strayed \subseteq DOMAIN picked
      BY DEF PayInv, PayTypes
    <2> QED BY <1>1, <2>1, <2>3, <2>4, <2>5, <2>6 DEF Received!TypeOK
  <1> QED BY <1>4, <1>5

(***************************************************************************)
(* Bills and payments keep the vouchers of their dialog, and a bill is     *)
(* paid once, with any number of records, payments and pictures and, on    *)
(* the page of charges, requests that fail. Dialogs are closed and opened  *)
(* during uploads: a bill's vouchers stay with it, a payment's do unless a *)
(* dialog was opened again during their upload                             *)
(* (UtilitiesView.vue, RentPaymentsView.vue).                              *)
(***************************************************************************)
THEOREM VouchersAlwaysStay == Spec => []VouchersStay
  <1> DEFINE Inv == /\ part \in {"charges", "failing"} => ChargeInv
                    /\ part = "payments" => PayInv
  <1>1. Init => Inv BY ChargeInit, PayInit DEF Init
  <1>2. Inv /\ [Next]_vars => Inv'
    <2>1. ASSUME Inv, [Next]_vars, part' \in {"charges", "failing"} PROVE ChargeInv'
      <3>1. ChargeInv BY <2>1 DEF Next, vars
      <3>2. Charges!Next \/ FailedCharges!Next \/ UNCHANGED chargesVars
        BY <2>1 DEF Next, vars
      <3>3. CASE UNCHANGED chargesVars
        BY <3>1, <3>3 DEF chargesVars, ChargeInv, OnePayment
      <3> QED BY <3>1, <3>2, <3>3, ChargeNext
    <2>2. ASSUME Inv, [Next]_vars, part' = "payments" PROVE PayInv'
      <3>1. PayInv BY <2>2 DEF Next, vars
      <3>2. Received!Next \/ UNCHANGED paymentsVars BY <2>2 DEF Next, vars
      <3>3. CASE UNCHANGED paymentsVars
        BY <3>1, <3>3 DEF paymentsVars, PayInv, PayTypes, OneSave, World
      <3> QED BY <3>1, <3>2, <3>3, PayNext
    <2> QED BY <2>1, <2>2
  <1>3. Inv => VouchersStay BY ChargesTell, PaymentsTell DEF VouchersStay
  <1> QED BY <1>1, <1>2, <1>3, PTL DEF Spec

-----------------------------------------------------------------------------
(* The dialogs of contracts and units *)

Places == {"u1", "u2", "u3"}

\* The files a submitted form asks for: those it keeps, and those picked in it.
AskedLicense(f) == IF f.pickedLicense THEN {f.draft} ELSE f.license
AskedFiles(f) == IF f.picked THEN f.kept \cup {f.draft} ELSE f.kept

\* A form, after so many drafts and with so many contracts there.
IsDraftForm(opened, there, f) ==
    /\ f = [draft |-> f.draft, contract |-> f.contract, license |-> f.license, kept |-> f.kept,
            pickedLicense |-> f.pickedLicense, picked |-> f.picked, input |-> f.input]
    /\ f.draft \in 0 .. opened /\ f.license \subseteq 0 .. opened /\ f.kept \subseteq 0 .. opened
    /\ f.contract \subseteq 1 .. there /\ AtMostOne(f.contract) /\ AtMostOne(f.license)
    /\ f.input \in {"none", "part", "whole"}

IsDialog(d) == d = [visible |-> d.visible, form |-> d.form] /\ d.visible \in BOOLEAN

\* An open form is that of its draft.
OpenedFor(begun, f) == f.draft > 0 /\ f.contract = begun[f.draft].contract

\* Row i: its text comes from a draft for its unit and, if that was an edit, for row i.
IsContract(begun, there, i, row) ==
    /\ row.unit \in there /\ AtMostOne(row.license)
    /\ row.text \in 0 .. Len(begun)
    /\ row.license \subseteq 0 .. Len(begun) /\ row.files \subseteq 0 .. Len(begun)
    /\ row.text > 0 => /\ row.unit = begun[row.text].unit
                       /\ begun[row.text].contract \in {{}, {i}}

\* What a save sends for a form.
Asked(f, unit) ==
    [row |-> [unit |-> unit, text |-> f.draft, license |-> AskedLicense(f),
              files |-> AskedFiles(f)],
     contract |-> f.contract]

\* How far a save is with the form it was begun for.
IsSave(t, f, unit) ==
    /\ t = [kind |-> t.kind, pc |-> t.pc, submitted |-> f, editing |-> f.contract # {},
            unit |-> unit, license |-> t.license, kept |-> t.kept, payload |-> t.payload]
    /\ \/ t.pc = "unit" /\ t.kind = "unit" /\ t.license = f.license
       \/ t.pc = "license" /\ t.license = AskedLicense(f)
       \/ t.pc = "attachments" /\ t.license = AskedLicense(f) /\ t.kept = AskedFiles(f)
       \/ t.pc = "save" /\ t.payload = {Asked(f, unit)}
       \/ t.pc = "saved"

\* What was saved is what was asked for.
IsLogged(begun, e) ==
    LET f == e.submitted IN
    /\ f.draft \in 1 .. Len(begun)
    /\ e.row = [unit |-> begun[f.draft].unit, text |-> f.draft, license |-> AskedLicense(f),
                files |-> AskedFiles(f)]
    /\ f.contract # {} => f.contract = {e.saved}

SavedRows ==
    /\ drafts \in Seq([unit : Places, contract : SUBSET Nat]) /\ Len(drafts) <= DialogDrafts
    /\ units \subseteq Places /\ selected \subseteq units /\ AtMostOne(selected)
    /\ contracts \in Seq([unit : Places, text : Nat, license : SUBSET Nat, files : SUBSET Nat])
    /\ Len(contracts) <= DialogRows
    /\ \A i \in 1 .. Len(contracts) : IsContract(drafts, units, i, contracts[i])
    /\ \A i, j \in 1 .. Len(contracts) :
          contracts[i].text = contracts[j].text /\ contracts[i].text > 0 => i = j
    /\ \A e \in log : IsLogged(drafts, e)

SavedDialogs ==
    /\ IsDialog(dialog) /\ IsDraftForm(Len(drafts), Len(contracts), dialog.form)
    /\ IsDialog(unitDialog) /\ IsDraftForm(Len(drafts), Len(contracts), unitDialog.form)
    /\ unitDialog.form.contract = {}
    /\ ~(dialog.visible /\ unitDialog.visible)
    /\ dialog.visible => /\ OpenedFor(drafts, dialog.form)
                         /\ selected = {drafts[dialog.form.draft].unit}
    /\ unitDialog.visible => OpenedFor(drafts, unitDialog.form)

SavesUnderWay ==
    /\ AtMostOne(saving)
    /\ \A t \in saving :
          \/ /\ t.kind = "contract" /\ dialog.visible
             /\ IsSave(t, dialog.form, drafts[dialog.form.draft].unit)
          \/ /\ t.kind = "unit" /\ unitDialog.visible
             /\ IsSave(t, unitDialog.form, drafts[unitDialog.form.draft].unit)
             /\ t.pc # "unit" => t.unit \in units

DialogInv == SavedRows /\ SavedDialogs /\ SavesUnderWay

-----------------------------------------------------------------------------
(* A save under way *)

\* A save has the fields of the form it was begun for.
SaveOf(t, f, unit) ==
    t = [kind |-> t.kind, pc |-> t.pc, submitted |-> f, editing |-> f.contract # {},
         unit |-> unit, license |-> t.license, kept |-> t.kept, payload |-> t.payload]

\* Once the files are there, the contract is sent.
LEMMA SendIs ==
    ASSUME NEW t, NEW f, NEW unit, SaveOf(t, f, unit),
           t.license = AskedLicense(f), t.kept = AskedFiles(f)
    PROVE  /\ IsSave(PatientUser!Send(t, f, unit), f, unit)
           /\ PatientUser!Send(t, f, unit).kind = t.kind
           /\ PatientUser!Send(t, f, unit).pc = "save"
  <1>1. PICK kind, pc, submitted, editing, license, kept, payload, payloads, step :
          /\ t = [kind |-> kind, pc |-> pc, submitted |-> submitted, editing |-> editing,
                  unit |-> unit, license |-> license, kept |-> kept, payload |-> payload]
          /\ submitted = f /\ editing = (f.contract # {})
          /\ license = AskedLicense(f) /\ kept = AskedFiles(f)
          /\ payloads = {Asked(f, unit)} /\ step = "save"
    BY DEF SaveOf
  <1>2. PatientUser!Send(t, f, unit) = [t EXCEPT !.pc = step, !.payload = payloads]
    <2>1. payloads = {[row |-> PatientUser!Row(unit, f.draft, t.license, t.kept),
                       contract |-> f.contract]}
      BY <1>1 DEF Asked, PatientUser!Row
    <2> QED BY <1>1, <2>1 DEF PatientUser!Send
  <1>3. [t EXCEPT !.pc = step, !.payload = payloads] =
          [kind |-> kind, pc |-> step, submitted |-> submitted, editing |-> editing,
           unit |-> unit, license |-> license, kept |-> kept, payload |-> payloads]
    <2>1. PICK half : half = [t EXCEPT !.pc = step] OBVIOUS
    <2>2. half =
            [kind |-> kind, pc |-> step, submitted |-> submitted, editing |-> editing,
             unit |-> unit, license |-> license, kept |-> kept, payload |-> payload]
      BY <1>1, <2>1
    <2>3. [half EXCEPT !.payload = payloads] =
            [kind |-> kind, pc |-> step, submitted |-> submitted, editing |-> editing,
             unit |-> unit, license |-> license, kept |-> kept, payload |-> payloads]
      BY <2>2
    <2> QED BY <2>1, <2>3
  <1>4. t.kind = kind BY <1>1
  <1> QED BY <1>1, <1>2, <1>3, <1>4 DEF IsSave

LEMMA AttachIs ==
    ASSUME NEW t, NEW f, NEW unit, SaveOf(t, f, unit), t.license = AskedLicense(f)
    PROVE  /\ IsSave(PatientUser!Attach(t, f, unit), f, unit)
           /\ PatientUser!Attach(t, f, unit).kind = t.kind
           /\ PatientUser!Attach(t, f, unit).pc \in {"attachments", "save"}
  <1>1. PICK kind, pc, submitted, editing, license, kept, payload, files, step :
          /\ t = [kind |-> kind, pc |-> pc, submitted |-> submitted, editing |-> editing,
                  unit |-> unit, license |-> license, kept |-> kept, payload |-> payload]
          /\ submitted = f /\ editing = (f.contract # {})
          /\ license = AskedLicense(f) /\ files = AskedFiles(f)
          /\ step = "attachments"
    BY DEF SaveOf
  <1>2. t.kind = kind BY <1>1
  <1>3. CASE f.picked
    <2>1. PatientUser!Attach(t, f, unit) = [t EXCEPT !.pc = step, !.kept = files]
      BY <1>1, <1>3 DEF PatientUser!Attach, AskedFiles
    <2>2. [t EXCEPT !.pc = step, !.kept = files] =
            [kind |-> kind, pc |-> step, submitted |-> submitted, editing |-> editing,
             unit |-> unit, license |-> license, kept |-> files, payload |-> payload]
      <3>1. PICK half : half = [t EXCEPT !.pc = step] OBVIOUS
      <3>2. half =
              [kind |-> kind, pc |-> step, submitted |-> submitted, editing |-> editing,
               unit |-> unit, license |-> license, kept |-> kept, payload |-> payload]
        BY <1>1, <3>1
      <3>3. [half EXCEPT !.kept = files] =
              [kind |-> kind, pc |-> step, submitted |-> submitted, editing |-> editing,
               unit |-> unit, license |-> license, kept |-> files, payload |-> payload]
        BY <3>2
      <3> QED BY <3>1, <3>3
    <2> QED BY <1>1, <1>2, <2>1, <2>2 DEF IsSave
  <1>4. CASE ~f.picked
    <2>1. PICK next : next = [t EXCEPT !.kept = files] OBVIOUS
    <2>2. PatientUser!Attach(t, f, unit) = PatientUser!Send(next, f, unit)
      BY <1>1, <1>4, <2>1 DEF PatientUser!Attach, AskedFiles
    <2>3. next = [kind |-> kind, pc |-> pc, submitted |-> submitted, editing |-> editing,
                  unit |-> unit, license |-> license, kept |-> files, payload |-> payload]
      BY <1>1, <2>1
    <2>4. /\ SaveOf(next, f, unit) /\ next.license = AskedLicense(f)
          /\ next.kept = AskedFiles(f) /\ next.kind = t.kind
      BY <1>1, <1>2, <2>3 DEF SaveOf
    <2> QED BY <2>2, <2>4, SendIs
  <1> QED BY <1>3, <1>4

LEMMA UploadIs ==
    ASSUME NEW t, NEW f, NEW unit, SaveOf(t, f, unit), t.license = f.license
    PROVE  /\ IsSave(PatientUser!Upload(t, f, unit), f, unit)
           /\ PatientUser!Upload(t, f, unit).kind = t.kind
           /\ PatientUser!Upload(t, f, unit).pc \in {"license", "attachments", "save"}
  <1>1. PICK kind, pc, submitted, editing, license, kept, payload, step :
          /\ t = [kind |-> kind, pc |-> pc, submitted |-> submitted, editing |-> editing,
                  unit |-> unit, license |-> f.license, kept |-> kept, payload |-> payload]
          /\ submitted = f /\ editing = (f.contract # {})
          /\ license = {f.draft} /\ step = "license"
    BY DEF SaveOf
  <1>2. t.kind = kind BY <1>1
  <1>3. CASE f.pickedLicense
    <2>1. PatientUser!Upload(t, f, unit) = [t EXCEPT !.pc = step, !.license = license]
      BY <1>1, <1>3 DEF PatientUser!Upload
    <2>2. [t EXCEPT !.pc = step, !.license = license] =
            [kind |-> kind, pc |-> step, submitted |-> submitted, editing |-> editing,
             unit |-> unit, license |-> license, kept |-> kept, payload |-> payload]
      <3>1. PICK half : half = [t EXCEPT !.pc = step] OBVIOUS
      <3>2. half =
              [kind |-> kind, pc |-> step, submitted |-> submitted, editing |-> editing,
               unit |-> unit, license |-> f.license, kept |-> kept, payload |-> payload]
        BY <1>1, <3>1
      <3>3. [half EXCEPT !.license = license] =
              [kind |-> kind, pc |-> step, submitted |-> submitted, editing |-> editing,
               unit |-> unit, license |-> license, kept |-> kept, payload |-> payload]
        BY <3>2
      <3> QED BY <3>1, <3>3
    <2>3. license = AskedLicense(f) BY <1>1, <1>3 DEF AskedLicense
    <2> QED BY <1>1, <1>2, <2>1, <2>2, <2>3 DEF IsSave
  <1>4. CASE ~f.pickedLicense
    <2>1. t.license = AskedLicense(f) BY <1>4 DEF AskedLicense
    <2>2. PatientUser!Upload(t, f, unit) = PatientUser!Attach(t, f, unit)
      BY <1>4 DEF PatientUser!Upload
    <2> QED BY <2>1, <2>2, AttachIs
  <1> QED BY <1>3, <1>4

-----------------------------------------------------------------------------
(* Forms *)

LEMMA SavedBounds ==
    /\ DialogRows \in Nat /\ 2 <= DialogRows /\ DialogDrafts \in Nat
  <1>1. DialogRows \in Nat /\ DialogDrafts \in Nat
    BY PagesAssumption DEF PatientUser!MaxRowsAssumption, PatientUser!OtherAssumption
  <1>2. Len(<<"u1", "u2">>) <= DialogRows BY PagesAssumption DEF PatientUser!RowsAssumption
  <1> QED BY <1>1, <1>2

LEMMA FormGrows ==
    ASSUME NEW n \in Nat, NEW n1 \in Nat, n <= n1, NEW m \in Nat, NEW m1 \in Nat, m <= m1,
           NEW f, IsDraftForm(n, m, f)
    PROVE  IsDraftForm(n1, m1, f)
  <1>1. 0 .. n \subseteq 0 .. n1 /\ 1 .. m \subseteq 1 .. m1 OBVIOUS
  <1> QED BY <1>1 DEF IsDraftForm

Fills(f, g) ==
    \/ \E x \in {"part", "whole"} : g = [f EXCEPT !.input = x]
    \/ g = [f EXCEPT !.pickedLicense = TRUE]
    \/ g = [f EXCEPT !.picked = TRUE]
    \/ g = [f EXCEPT !.license = {}]
    \/ \E x \in f.kept : g = [f EXCEPT !.kept = @ \ {x}]

\* A form that is filled in stays that of its draft.
LEMMA FilledIs ==
    ASSUME NEW n, NEW m, NEW f, NEW g, IsDraftForm(n, m, f), Fills(f, g)
    PROVE  IsDraftForm(n, m, g) /\ g.draft = f.draft /\ g.contract = f.contract
  <1>1. CASE \E x \in {"part", "whole"} : g = [f EXCEPT !.input = x] BY <1>1 DEF IsDraftForm
  <1>2. CASE g = [f EXCEPT !.pickedLicense = TRUE] BY <1>2 DEF IsDraftForm
  <1>3. CASE g = [f EXCEPT !.picked = TRUE] BY <1>3 DEF IsDraftForm
  <1>4. CASE g = [f EXCEPT !.license = {}] BY <1>4 DEF IsDraftForm, AtMostOne
  <1>5. CASE \E x \in f.kept : g = [f EXCEPT !.kept = @ \ {x}] BY <1>5 DEF IsDraftForm
  <1> QED BY <1>1, <1>2, <1>3, <1>4, <1>5 DEF Fills

\* While no dialog is open, or the one that is open is not saved, nothing is.
LEMMA NothingSaved ==
    ASSUME DialogInv,
           \/ ~dialog.visible /\ ~unitDialog.visible
           \/ dialog.visible /\ ~PatientUser!Busy("contract")
           \/ unitDialog.visible /\ ~PatientUser!Busy("unit")
    PROVE  saving = {}
  BY DEF DialogInv, SavedDialogs, SavesUnderWay, PatientUser!Busy

LEMMA SavedInit == PatientUser!Init => DialogInv
  <1> SUFFICES ASSUME PatientUser!Init PROVE DialogInv OBVIOUS
  <1> DEFINE first == <<"u1", "u2">>
  <1>1. /\ units = {"u1", "u2"} /\ selected = {} /\ saving = {} /\ drafts = <<>> /\ log = {}
        /\ contracts = [i \in 1 .. 2 |-> [unit |-> first[i], text |-> 0, license |-> {},
                                          files |-> {}]]
    BY DEF PatientUser!Init, PatientUser!Row
  <1>2. PICK form : form = [draft |-> 0, contract |-> {}, license |-> {}, kept |-> {},
                            pickedLicense |-> FALSE, picked |-> FALSE, input |-> "none"]
    OBVIOUS
  <1>3. dialog = [visible |-> FALSE, form |-> form] /\ unitDialog = dialog
    BY <1>2 DEF PatientUser!Init, PatientUser!Blank
  <1>4. \A i \in 1 .. 2 : first[i] \in {"u1", "u2"} OBVIOUS
  <1>5. SavedRows
    <2>1. contracts \in Seq([unit : Places, text : Nat, license : SUBSET Nat,
                             files : SUBSET Nat])
      BY <1>1, <1>4 DEF Places
    <2>2. Len(contracts) = 2 BY <1>1
    <2>3. drafts \in Seq([unit : Places, contract : SUBSET Nat]) /\ Len(drafts) = 0 BY <1>1
    <2>4. \A i \in 1 .. 2 : /\ contracts[i].unit \in {"u1", "u2"} /\ contracts[i].text = 0
                            /\ contracts[i].license = {} /\ contracts[i].files = {}
      BY <1>1, <1>4
    <2> HIDE DEF first
    <2> QED BY <1>1, <2>1, <2>2, <2>3, <2>4, SavedBounds
            DEF SavedRows, Places, IsContract, AtMostOne
  <1>6. SavedDialogs
    <2>1. Len(drafts) = 0 BY <1>1
    <2>2. IsDraftForm(0, Len(contracts), form) BY <1>2 DEF IsDraftForm, AtMostOne
    <2>3. form.contract = {} BY <1>2
    <2> HIDE DEF first
    <2> QED BY <1>3, <2>1, <2>2, <2>3 DEF SavedDialogs, IsDialog
  <1>7. SavesUnderWay BY <1>1 DEF SavesUnderWay, AtMostOne
  <1> QED BY <1>5, <1>6, <1>7 DEF DialogInv

\* A draft is begun.
LEMMA DraftBegun ==
    ASSUME SavedRows, NEW target \in [unit : Places, contract : SUBSET Nat],
           Len(drafts) < DialogDrafts, drafts' = Append(drafts, target),
           UNCHANGED <<units, contracts, selected, log>>
    PROVE  /\ SavedRows' /\ Len(drafts') = Len(drafts) + 1
           /\ drafts'[Len(drafts')] = target
           /\ \A d \in 1 .. Len(drafts) : drafts'[d] = drafts[d]
  <1>1. /\ drafts \in Seq([unit : Places, contract : SUBSET Nat])
        /\ drafts' \in Seq([unit : Places, contract : SUBSET Nat])
        /\ Len(drafts') = Len(drafts) + 1 /\ Len(drafts) \in Nat
        /\ drafts'[Len(drafts')] = target
        /\ \A d \in 1 .. Len(drafts) : drafts'[d] = drafts[d]
    BY DEF SavedRows
  <1>2. 0 .. Len(drafts) \subseteq 0 .. Len(drafts') /\ 1 .. Len(drafts) \subseteq 1 .. Len(drafts')
    BY <1>1
  <1>3. ASSUME NEW i \in 1 .. Len(contracts) PROVE IsContract(drafts', units, i, contracts[i])
    <2>1. IsContract(drafts, units, i, contracts[i]) BY DEF SavedRows
    <2>2. PICK text : text = contracts[i].text OBVIOUS
    <2>3. text \in 0 .. Len(drafts) BY <2>1, <2>2 DEF IsContract
    <2>4. text > 0 => drafts'[text] = drafts[text] BY <1>1, <2>3
    <2> QED BY <1>2, <2>1, <2>2, <2>3, <2>4 DEF IsContract
  <1>4. ASSUME NEW e \in log PROVE IsLogged(drafts', e)
    BY <1>1, <1>2 DEF SavedRows, IsLogged
  <1>5. Len(drafts') <= DialogDrafts BY <1>1, SavedBounds
  <1> QED BY <1>1, <1>3, <1>4, <1>5 DEF SavedRows

-----------------------------------------------------------------------------
(* Steps of the dialogs *)

\* A form is opened, for a unit or for a contract of the unit that is shown.
LEMMA OpensKeep ==
    ASSUME DialogInv, ~dialog.visible, ~unitDialog.visible, Len(drafts) < DialogDrafts,
           NEW unit \in Places, NEW contract \in SUBSET (1 .. Len(contracts)), AtMostOne(contract),
           drafts' = Append(drafts, [unit |-> unit, contract |-> contract]),
           NEW form, IsDraftForm(Len(drafts'), Len(contracts), form),
           form.draft = Len(drafts) + 1, form.contract = contract,
           \/ /\ dialog' = [visible |-> TRUE, form |-> form] /\ unitDialog' = unitDialog
              /\ selected = {unit}
           \/ /\ unitDialog' = [visible |-> TRUE, form |-> form] /\ dialog' = dialog
              /\ contract = {},
           UNCHANGED <<units, contracts, selected, saving, log>>
    PROVE  DialogInv'
  <1>1. [unit |-> unit, contract |-> contract] \in [unit : Places, contract : SUBSET Nat]
    OBVIOUS
  <1>2. /\ SavedRows' /\ Len(drafts') = Len(drafts) + 1
        /\ drafts'[Len(drafts')] = [unit |-> unit, contract |-> contract]
        /\ \A d \in 1 .. Len(drafts) : drafts'[d] = drafts[d]
    BY <1>1, DraftBegun DEF DialogInv
  <1>3. Len(drafts) \in Nat /\ Len(contracts) \in Nat BY DEF DialogInv, SavedRows
  <1>4. \A f : IsDraftForm(Len(drafts), Len(contracts), f) =>
                  IsDraftForm(Len(drafts'), Len(contracts'), f)
    BY <1>2, <1>3, FormGrows
  <1>5. OpenedFor(drafts', form) BY <1>2, <1>3 DEF OpenedFor
  <1>6. drafts'[form.draft].unit = unit BY <1>2
  <1>7. SavedDialogs'
    <2>1. /\ IsDialog(dialog) /\ IsDraftForm(Len(drafts'), Len(contracts'), dialog.form)
          /\ IsDialog(unitDialog) /\ IsDraftForm(Len(drafts'), Len(contracts'), unitDialog.form)
          /\ unitDialog.form.contract = {}
      BY <1>4 DEF DialogInv, SavedDialogs
    <2>2. IsDraftForm(Len(drafts'), Len(contracts'), form) OBVIOUS
    <2>3. CASE /\ dialog' = [visible |-> TRUE, form |-> form] /\ unitDialog' = unitDialog
               /\ selected = {unit}
      <3>1. dialog'.visible = TRUE /\ dialog'.form = form /\ IsDialog(dialog')
        BY <2>3 DEF IsDialog
      <3> QED BY <1>5, <1>6, <2>1, <2>2, <2>3, <3>1 DEF SavedDialogs
    <2>4. CASE /\ unitDialog' = [visible |-> TRUE, form |-> form] /\ dialog' = dialog
               /\ contract = {}
      <3>1. unitDialog'.visible = TRUE /\ unitDialog'.form = form /\ IsDialog(unitDialog')
        BY <2>4 DEF IsDialog
      <3> QED BY <1>5, <1>6, <2>1, <2>2, <2>4, <3>1 DEF SavedDialogs
    <2> QED BY <2>3, <2>4
  <1>8. saving = {} BY NothingSaved
  <1>9. SavesUnderWay' BY <1>8 DEF SavesUnderWay, AtMostOne
  <1> QED BY <1>2, <1>7, <1>9 DEF DialogInv

LEMMA OpenContractKeeps ==
    ASSUME DialogInv,
           \/ PatientUser!OpenCreateContract \/ PatientUser!OpenEditContract
           \/ PatientUser!OpenCreateUnit
    PROVE  DialogInv'
  <1>1. /\ drafts \in Seq([unit : Places, contract : SUBSET Nat])
        /\ units \subseteq Places /\ selected \subseteq units /\ AtMostOne(selected)
        /\ Len(contracts) \in Nat /\ DOMAIN contracts = 1 .. Len(contracts)
    BY DEF DialogInv, SavedRows
  <1>2. PICK n : n = Len(drafts) + 1 OBVIOUS
  <1>3. ASSUME NEW target PROVE Len(Append(drafts, target)) = n
    BY <1>1, <1>2
  <1>4. PatientUser!NewDraft = n BY <1>2 DEF PatientUser!NewDraft
  <1>5. n \in Nat /\ 0 <= n /\ n \in 0 .. n BY <1>1, <1>2
  <1>6. PICK blank : blank = [draft |-> n, contract |-> {}, license |-> {}, kept |-> {},
                              pickedLicense |-> FALSE, picked |-> FALSE, input |-> "none"]
    OBVIOUS
  <1>7. PatientUser!Blank(n) = blank BY <1>6 DEF PatientUser!Blank
  <1>8. IsDraftForm(n, Len(contracts), blank) /\ blank.draft = n /\ blank.contract = {}
    BY <1>5, <1>6 DEF IsDraftForm, AtMostOne
  <1>9. AtMostOne({}) BY DEF AtMostOne
  <1>10. CASE PatientUser!OpenCreateContract
    <2>1. PICK u \in selected :
            /\ ~dialog.visible /\ ~unitDialog.visible /\ Len(drafts) < DialogDrafts
            /\ drafts' = Append(drafts, [unit |-> u, contract |-> {}])
            /\ dialog' = [visible |-> TRUE, form |-> blank]
            /\ UNCHANGED <<units, contracts, selected, unitDialog, saving, log>>
      BY <1>4, <1>7, <1>10 DEF PatientUser!OpenCreateContract
    <2>2. selected = {u} /\ u \in Places BY <1>1 DEF AtMostOne
    <2>3. Len(drafts') = n BY <1>3, <2>1
    <2> QED BY <1>2, <1>8, <1>9, <2>1, <2>2, <2>3, OpensKeep
  <1>11. CASE PatientUser!OpenEditContract
    <2>1. PICK c \in 1 .. Len(contracts) :
            /\ ~dialog.visible /\ ~unitDialog.visible /\ Len(drafts) < DialogDrafts
            /\ selected = {contracts[c].unit}
            /\ drafts' = Append(drafts, [unit |-> contracts[c].unit, contract |-> {c}])
            /\ dialog' = [visible |-> TRUE,
                  form |-> [blank EXCEPT !.contract = {c}, !.input = "whole",
                              !.license = contracts[c].license, !.kept = contracts[c].files]]
            /\ UNCHANGED <<units, contracts, selected, unitDialog, saving, log>>
      BY <1>1, <1>4, <1>7, <1>11 DEF PatientUser!OpenEditContract
    <2>2. IsContract(drafts, units, c, contracts[c]) BY DEF DialogInv, SavedRows
    <2>3. PICK u, license, files, own, whole :
            /\ u = contracts[c].unit /\ license = contracts[c].license
            /\ files = contracts[c].files /\ own = {c} /\ whole = "whole"
      OBVIOUS
    <2>4. /\ u \in Places /\ AtMostOne(license) /\ license \subseteq 0 .. n
          /\ files \subseteq 0 .. n
      <3>1. 0 .. Len(drafts) \subseteq 0 .. n BY <1>1, <1>2
      <3> QED BY <1>1, <2>2, <2>3, <3>1 DEF IsContract
    <2>5. PICK form : form = [blank EXCEPT !.contract = own, !.input = whole,
                                           !.license = license, !.kept = files]
      OBVIOUS
    <2>6. form = [draft |-> n, contract |-> own, license |-> license, kept |-> files,
                  pickedLicense |-> FALSE, picked |-> FALSE, input |-> whole]
      <3>1. PICK f1 : f1 = [blank EXCEPT !.contract = own] OBVIOUS
      <3>2. PICK f2 : f2 = [f1 EXCEPT !.input = whole] OBVIOUS
      <3>3. PICK f3 : f3 = [f2 EXCEPT !.license = license] OBVIOUS
      <3>4. form = [f3 EXCEPT !.kept = files] BY <2>5, <3>1, <3>2, <3>3
      <3>5. f1 = [draft |-> n, contract |-> own, license |-> {}, kept |-> {},
                  pickedLicense |-> FALSE, picked |-> FALSE, input |-> "none"]
        BY <1>6, <3>1
      <3>6. f2 = [draft |-> n, contract |-> own, license |-> {}, kept |-> {},
                  pickedLicense |-> FALSE, picked |-> FALSE, input |-> whole]
        BY <3>2, <3>5
      <3>7. f3 = [draft |-> n, contract |-> own, license |-> license, kept |-> {},
                  pickedLicense |-> FALSE, picked |-> FALSE, input |-> whole]
        BY <3>3, <3>6
      <3> QED BY <3>4, <3>7
    <2>7. IsDraftForm(n, Len(contracts), form) /\ form.draft = n /\ form.contract = own
      BY <1>5, <2>3, <2>4, <2>6 DEF IsDraftForm, AtMostOne
    <2>8. Len(drafts') = n BY <1>3, <2>1
    <2>9. /\ own \in SUBSET (1 .. Len(contracts)) /\ AtMostOne(own) /\ selected = {u}
          /\ drafts' = Append(drafts, [unit |-> u, contract |-> own])
          /\ dialog' = [visible |-> TRUE, form |-> form]
      BY <2>1, <2>3, <2>5 DEF AtMostOne
    <2> QED BY <1>2, <2>1, <2>4, <2>7, <2>8, <2>9, OpensKeep
  <1>12. CASE PatientUser!OpenCreateUnit
    <2>1. PICK u \in Places \ units :
            /\ ~dialog.visible /\ ~unitDialog.visible /\ Len(drafts) < DialogDrafts
            /\ drafts' = Append(drafts, [unit |-> u, contract |-> {}])
            /\ unitDialog' = [visible |-> TRUE, form |-> blank]
            /\ UNCHANGED <<units, contracts, selected, dialog, saving, log>>
      BY <1>4, <1>7, <1>12 DEF PatientUser!OpenCreateUnit, Places
    <2>2. Len(drafts') = n BY <1>3, <2>1
    <2> QED BY <1>2, <1>8, <1>9, <2>1, <2>2, OpensKeep
  <1> QED BY <1>10, <1>11, <1>12

\* A form is filled in or closed, or another unit is shown.
LEMMA FillsKeep ==
    ASSUME DialogInv,
           \/ PatientUser!SelectUnit
           \/ PatientUser!CloseContractDialog \/ PatientUser!CloseUnitDialog
           \/ PatientUser!FillContract \/ PatientUser!OnBusinessLicenseChange
           \/ PatientUser!OnAttachmentFilesChange \/ PatientUser!RemoveBusinessLicense
           \/ PatientUser!RemoveAttachment
           \/ PatientUser!FillUnit \/ PatientUser!OnUnitBusinessLicenseChange
           \/ PatientUser!OnUnitAttachmentFilesChange
    PROVE  DialogInv'
  <1>1. CASE PatientUser!SelectUnit
    <2>1. /\ ~dialog.visible /\ ~unitDialog.visible
          /\ \E u \in units : selected' = {u}
          /\ UNCHANGED <<units, contracts, dialog, unitDialog, saving, drafts, log>>
      BY <1>1 DEF PatientUser!SelectUnit
    <2>2. saving = {} BY <2>1, NothingSaved
    <2>3. SavedRows' BY <2>1 DEF DialogInv, SavedRows, AtMostOne
    <2>4. SavedDialogs' BY <2>1 DEF DialogInv, SavedDialogs
    <2>5. SavesUnderWay' BY <2>1, <2>2 DEF SavesUnderWay, AtMostOne
    <2> QED BY <2>3, <2>4, <2>5 DEF DialogInv
  <1>2. CASE PatientUser!CloseContractDialog \/ PatientUser!CloseUnitDialog
    <2>1. /\ saving = {}
          /\ UNCHANGED <<units, contracts, selected, saving, drafts, log>>
          /\ \/ dialog' = [dialog EXCEPT !.visible = FALSE] /\ UNCHANGED unitDialog
             \/ unitDialog' = [unitDialog EXCEPT !.visible = FALSE] /\ UNCHANGED dialog
      BY <1>2, NothingSaved DEF PatientUser!CloseContractDialog, PatientUser!CloseUnitDialog,
         PatientUser!Waits
    <2>2. SavedRows' BY <2>1 DEF DialogInv, SavedRows
    <2>3. SavedDialogs' BY <2>1 DEF DialogInv, SavedDialogs, IsDialog
    <2>4. SavesUnderWay' BY <2>1 DEF SavesUnderWay, AtMostOne
    <2> QED BY <2>2, <2>3, <2>4 DEF DialogInv
  <1>3. CASE \/ PatientUser!FillContract \/ PatientUser!OnBusinessLicenseChange
             \/ PatientUser!OnAttachmentFilesChange \/ PatientUser!RemoveBusinessLicense
             \/ PatientUser!RemoveAttachment
    <2>1. PICK form :
            Fills(dialog.form, form) /\ PatientUser!Edit(form)
      BY <1>3 DEF PatientUser!FillContract, PatientUser!OnBusinessLicenseChange,
         PatientUser!OnAttachmentFilesChange, PatientUser!RemoveBusinessLicense,
         PatientUser!RemoveAttachment, Fills
    <2>2. /\ IsDraftForm(Len(drafts), Len(contracts), form)
          /\ form.draft = dialog.form.draft /\ form.contract = dialog.form.contract
      <3>1. PICK f, n, m : f = dialog.form /\ n = Len(drafts) /\ m = Len(contracts) OBVIOUS
      <3>2. IsDraftForm(n, m, f) BY <3>1 DEF DialogInv, SavedDialogs
      <3>3. Fills(f, form) BY <2>1, <3>1
      <3>4. IsDraftForm(n, m, form) /\ form.draft = f.draft /\ form.contract = f.contract
        BY <3>2, <3>3, FilledIs
      <3> QED BY <3>1, <3>4
    <2>3. /\ saving = {} /\ dialog' = [dialog EXCEPT !.form = form]
          /\ UNCHANGED <<units, contracts, selected, unitDialog, saving, drafts, log>>
      BY <2>1, NothingSaved DEF PatientUser!Edit, PatientUser!Waits
    <2>4. SavedRows' BY <2>3 DEF DialogInv, SavedRows
    <2>5. SavedDialogs' BY <2>2, <2>3 DEF DialogInv, SavedDialogs, IsDialog, OpenedFor
    <2>6. SavesUnderWay' BY <2>3 DEF SavesUnderWay, AtMostOne
    <2> QED BY <2>4, <2>5, <2>6 DEF DialogInv
  <1>4. CASE \/ PatientUser!FillUnit \/ PatientUser!OnUnitBusinessLicenseChange
             \/ PatientUser!OnUnitAttachmentFilesChange
    <2>1. PICK form :
            Fills(unitDialog.form, form) /\ PatientUser!EditUnit(form)
      BY <1>4 DEF PatientUser!FillUnit, PatientUser!OnUnitBusinessLicenseChange,
         PatientUser!OnUnitAttachmentFilesChange, Fills
    <2>2. /\ IsDraftForm(Len(drafts), Len(contracts), form)
          /\ form.draft = unitDialog.form.draft /\ form.contract = unitDialog.form.contract
      <3>1. PICK f, n, m : f = unitDialog.form /\ n = Len(drafts) /\ m = Len(contracts) OBVIOUS
      <3>2. IsDraftForm(n, m, f) BY <3>1 DEF DialogInv, SavedDialogs
      <3>3. Fills(f, form) BY <2>1, <3>1
      <3>4. IsDraftForm(n, m, form) /\ form.draft = f.draft /\ form.contract = f.contract
        BY <3>2, <3>3, FilledIs
      <3> QED BY <3>1, <3>4
    <2>3. /\ saving = {} /\ unitDialog' = [unitDialog EXCEPT !.form = form]
          /\ UNCHANGED <<units, contracts, selected, dialog, saving, drafts, log>>
      BY <2>1, NothingSaved DEF PatientUser!EditUnit, PatientUser!Waits
    <2>4. SavedRows' BY <2>3 DEF DialogInv, SavedRows
    <2>5. SavedDialogs' BY <2>2, <2>3 DEF DialogInv, SavedDialogs, IsDialog, OpenedFor
    <2>6. SavesUnderWay' BY <2>3 DEF SavesUnderWay, AtMostOne
    <2> QED BY <2>4, <2>5, <2>6 DEF DialogInv
  <1> QED BY <1>1, <1>2, <1>3, <1>4

-----------------------------------------------------------------------------
(* Steps of a save *)

\* The form a save was begun for is open, and its unit is there unless it is made first.
LEMMA SaveHasForm ==
    ASSUME DialogInv, NEW t \in saving
    PROVE  \E f, unit :
              /\ f = IF t.kind = "contract" THEN dialog.form ELSE unitDialog.form
              /\ unit = drafts[f.draft].unit /\ IsSave(t, f, unit) /\ unit \in Places
              /\ IsDraftForm(Len(drafts), Len(contracts), f) /\ OpenedFor(drafts, f)
              /\ \/ t.kind = "contract" /\ selected = {unit} /\ unit \in units
                 \/ t.kind = "unit" /\ (t.pc # "unit" => unit \in units)
  <1>1. PICK f : f = IF t.kind = "contract" THEN dialog.form ELSE unitDialog.form OBVIOUS
  <1>2. PICK unit : unit = drafts[f.draft].unit OBVIOUS
  <1>3. IsDraftForm(Len(drafts), Len(contracts), f) /\ OpenedFor(drafts, f)
    BY <1>1 DEF DialogInv, SavedDialogs, SavesUnderWay
  <1>4. IsSave(t, f, unit) BY <1>1, <1>2 DEF DialogInv, SavesUnderWay
  <1>5. unit \in Places
    <2>1. f.draft \in 1 .. Len(drafts) BY <1>3 DEF IsDraftForm, OpenedFor, DialogInv, SavedRows
    <2>2. drafts[f.draft] \in [unit : Places, contract : SUBSET Nat]
      <3>1. ASSUME NEW S, drafts \in Seq(S) PROVE drafts[f.draft] \in S BY <2>1, <3>1
      <3> QED BY <3>1 DEF DialogInv, SavedRows
    <2> QED BY <1>2, <2>2
  <1>6. \/ t.kind = "contract" /\ selected = {unit} /\ unit \in units
        \/ t.kind = "unit" /\ (t.pc # "unit" => unit \in units)
    <2>1. CASE t.kind = "contract"
      <3>1. selected = {unit}
        BY <1>1, <1>2, <2>1 DEF DialogInv, SavedDialogs, SavesUnderWay
      <3> QED BY <2>1, <3>1 DEF DialogInv, SavedRows
    <2>2. CASE t.kind # "contract"
      <3>1. t.kind = "unit" /\ (t.pc # "unit" => t.unit \in units)
        BY <2>2 DEF DialogInv, SavesUnderWay
      <3>2. t.unit = unit BY <1>4 DEF IsSave
      <3> QED BY <3>1, <3>2
    <2> QED BY <2>1, <2>2
  <1> QED BY <1>1, <1>2, <1>3, <1>4, <1>5, <1>6

\* A save is begun with the form that is open.
LEMMA SubmissionIs ==
    ASSUME NEW kind, NEW f, NEW unit, NEW t, t = PatientUser!Submission(kind, f, unit)
    PROVE  /\ SaveOf(t, f, unit) /\ t.license = f.license /\ t.kind = kind /\ t.pc = "unit"
           /\ kind = "unit" => IsSave(t, f, unit)
  BY DEF PatientUser!Submission, SaveOf, IsSave

LEMMA SavesBegin ==
    ASSUME DialogInv, PatientUser!SaveContract \/ PatientUser!SaveUnit
    PROVE  DialogInv'
  <1>1. /\ saving = {}
        /\ UNCHANGED <<units, contracts, selected, dialog, unitDialog, drafts, log>>
        /\ \/ dialog.visible /\ PatientUser!SaveContract
           \/ unitDialog.visible /\ PatientUser!SaveUnit
    BY NothingSaved DEF PatientUser!SaveContract, PatientUser!SaveUnit
  <1>2. SavedRows' BY <1>1 DEF DialogInv, SavedRows
  <1>3. SavedDialogs' BY <1>1 DEF DialogInv, SavedDialogs
  <1>4. CASE dialog.visible /\ PatientUser!SaveContract
    <2>1. PICK f, unit : f = dialog.form /\ unit = drafts[f.draft].unit OBVIOUS
    <2>2. selected = {unit} BY <1>4, <2>1 DEF DialogInv, SavedDialogs
    <2>3. PICK begun : begun = PatientUser!Submission("contract", f, unit) OBVIOUS
    <2>4. PICK t : t = PatientUser!Upload(begun, f, unit) OBVIOUS
    <2>5. saving' = {t}
      BY <1>1, <1>4, <2>1, <2>2, <2>3, <2>4 DEF PatientUser!SaveContract
    <2>6. SaveOf(begun, f, unit) /\ begun.license = f.license /\ begun.kind = "contract"
      BY <2>3, SubmissionIs
    <2>7. IsSave(t, f, unit) /\ t.kind = "contract" BY <2>4, <2>6, UploadIs
    <2>8. SavesUnderWay' BY <1>1, <1>4, <2>1, <2>5, <2>7 DEF SavesUnderWay, AtMostOne
    <2> QED BY <1>2, <1>3, <2>8 DEF DialogInv
  <1>5. CASE unitDialog.visible /\ PatientUser!SaveUnit
    <2>1. PICK f, unit : f = unitDialog.form /\ unit = drafts[f.draft].unit OBVIOUS
    <2>2. PICK t : t = PatientUser!Submission("unit", f, unit) OBVIOUS
    <2>3. saving' = {t} BY <1>1, <1>5, <2>1, <2>2 DEF PatientUser!SaveUnit
    <2>4. IsSave(t, f, unit) /\ t.kind = "unit" /\ t.pc = "unit" BY <2>2, SubmissionIs
    <2>5. SavesUnderWay' BY <1>1, <1>5, <2>1, <2>3, <2>4 DEF SavesUnderWay, AtMostOne
    <2> QED BY <1>2, <1>3, <2>5 DEF DialogInv
  <1> QED BY <1>1, <1>4, <1>5

\* A save goes on, with the unit that was made for it if it is of a new one.
LEMMA SaveGoesOn ==
    ASSUME DialogInv, NEW t \in saving, NEW f, NEW unit,
           f = IF t.kind = "contract" THEN dialog.form ELSE unitDialog.form,
           unit = drafts[f.draft].unit,
           NEW next, IsSave(next, f, unit), next.kind = t.kind,
           t.kind = "unit" => unit \in units',
           saving' = (saving \ {t}) \cup {next},
           units \subseteq units', units' \subseteq Places,
           UNCHANGED <<contracts, selected, dialog, unitDialog, drafts, log>>
    PROVE  DialogInv'
  <1>1. SavedRows'
    <2>1. \A i \in 1 .. Len(contracts) : IsContract(drafts, units', i, contracts[i])
      BY DEF DialogInv, SavedRows, IsContract
    <2> QED BY <2>1 DEF DialogInv, SavedRows
  <1>2. SavedDialogs' BY DEF DialogInv, SavedDialogs
  <1>3. saving' = {next} BY DEF DialogInv, SavesUnderWay, AtMostOne
  <1>4. next.unit = unit BY DEF IsSave
  <1>5. SavesUnderWay' BY <1>3, <1>4 DEF DialogInv, SavesUnderWay, AtMostOne
  <1> QED BY <1>1, <1>2, <1>5 DEF DialogInv

\* A save ends, and with it the dialog it is of unless the save has failed.
LEMMA SaveEnds ==
    ASSUME DialogInv,
           \/ PatientUser!ContractSaved \/ PatientUser!ContractFails
           \/ PatientUser!UnitSaved \/ PatientUser!UnitFails
    PROVE  DialogInv'
  <1>1. PICK t \in saving :
          /\ saving' = saving \ {t}
          /\ UNCHANGED <<units, contracts, selected, drafts, log>>
          /\ \/ dialog' = [dialog EXCEPT !.visible = FALSE] /\ UNCHANGED unitDialog
             \/ unitDialog' = [unitDialog EXCEPT !.visible = FALSE] /\ UNCHANGED dialog
             \/ UNCHANGED <<dialog, unitDialog>>
    BY DEF PatientUser!ContractSaved, PatientUser!ContractFails, PatientUser!UnitSaved,
       PatientUser!UnitFails
  <1>2. saving' = {} BY <1>1 DEF DialogInv, SavesUnderWay, AtMostOne
  <1>3. SavedRows' BY <1>1 DEF DialogInv, SavedRows
  <1>4. SavedDialogs' BY <1>1 DEF DialogInv, SavedDialogs, IsDialog
  <1>5. SavesUnderWay' BY <1>2 DEF SavesUnderWay, AtMostOne
  <1> QED BY <1>3, <1>4, <1>5 DEF DialogInv

\* The files are uploaded one after the other.
LEMMA UploadsGoOn ==
    ASSUME DialogInv, PatientUser!Uploaded \/ PatientUser!UnitUploaded
    PROVE  DialogInv'
  <1>1. PICK t, form, at :
          /\ t \in saving
          /\ \/ t.kind = "contract" /\ form = dialog.form /\ at \in selected
             \/ t.kind = "unit" /\ form = unitDialog.form /\ at = t.unit
          /\ \/ /\ t.pc = "license"
                /\ saving' = (saving \ {t}) \cup {PatientUser!Attach(t, form, at)}
             \/ /\ t.pc = "attachments"
                /\ saving' = (saving \ {t}) \cup {PatientUser!Send(t, form, at)}
          /\ UNCHANGED <<units, contracts, selected, dialog, unitDialog, drafts, log>>
    BY DEF PatientUser!Uploaded, PatientUser!UnitUploaded
  <1>2. PICK f, unit :
          /\ f = IF t.kind = "contract" THEN dialog.form ELSE unitDialog.form
          /\ unit = drafts[f.draft].unit /\ IsSave(t, f, unit) /\ unit \in Places
          /\ \/ t.kind = "contract" /\ selected = {unit} /\ unit \in units
             \/ t.kind = "unit" /\ (t.pc # "unit" => unit \in units)
    BY <1>1, SaveHasForm
  <1>3. form = f /\ at = unit /\ unit \in units
    <2>1. t.unit = unit BY <1>2 DEF IsSave
    <2> QED BY <1>1, <1>2, <2>1
  <1>4. SaveOf(t, f, unit) BY <1>2 DEF IsSave, SaveOf
  <1>5. CASE t.pc = "license"
    <2>1. PICK next : next = PatientUser!Attach(t, f, unit) OBVIOUS
    <2>2. t.license = AskedLicense(f) BY <1>2, <1>5 DEF IsSave
    <2>3. IsSave(next, f, unit) /\ next.kind = t.kind BY <1>4, <2>1, <2>2, AttachIs
    <2>4. saving' = (saving \ {t}) \cup {next} BY <1>1, <1>3, <1>5, <2>1
    <2> QED BY <1>1, <1>2, <1>3, <2>3, <2>4, SaveGoesOn DEF DialogInv, SavedRows
  <1>6. CASE t.pc = "attachments"
    <2>1. PICK next : next = PatientUser!Send(t, f, unit) OBVIOUS
    <2>2. t.license = AskedLicense(f) /\ t.kept = AskedFiles(f) BY <1>2, <1>6 DEF IsSave
    <2>3. IsSave(next, f, unit) /\ next.kind = t.kind BY <1>4, <2>1, <2>2, SendIs
    <2>4. saving' = (saving \ {t}) \cup {next} BY <1>1, <1>3, <1>6, <2>1
    <2> QED BY <1>1, <1>2, <1>3, <2>3, <2>4, SaveGoesOn DEF DialogInv, SavedRows
  <1> QED BY <1>1, <1>5, <1>6

LEMMA CreatedKeeps == ASSUME DialogInv, PatientUser!UnitCreated PROVE DialogInv'
  <1>1. PICK t \in saving :
          /\ t.kind = "unit" /\ t.pc = "unit" /\ units' = units \cup {t.unit}
          /\ saving' = (saving \ {t}) \cup
                {IF PatientUser!HasInitialContractInput(t.submitted)
                 THEN PatientUser!Upload(t, unitDialog.form, t.unit)
                 ELSE [t EXCEPT !.pc = "saved"]}
          /\ UNCHANGED <<contracts, selected, dialog, unitDialog, drafts, log>>
    BY DEF PatientUser!UnitCreated
  <1>2. PICK f, unit :
          /\ f = IF t.kind = "contract" THEN dialog.form ELSE unitDialog.form
          /\ unit = drafts[f.draft].unit /\ IsSave(t, f, unit) /\ unit \in Places
    BY SaveHasForm
  <1>3. f = unitDialog.form /\ t.unit = unit BY <1>1, <1>2 DEF IsSave
  <1>4. SaveOf(t, f, unit) /\ t.license = f.license BY <1>1, <1>2 DEF IsSave, SaveOf
  <1>5. PICK next : next = IF PatientUser!HasInitialContractInput(t.submitted)
                           THEN PatientUser!Upload(t, f, unit) ELSE [t EXCEPT !.pc = "saved"]
    OBVIOUS
  <1>6. IsSave(next, f, unit) /\ next.kind = t.kind
    <2>1. CASE PatientUser!HasInitialContractInput(t.submitted)
      BY <1>4, <1>5, <2>1, UploadIs
    <2>2. CASE ~PatientUser!HasInitialContractInput(t.submitted)
      BY <1>4, <1>5, <2>2 DEF SaveOf, IsSave
    <2> QED BY <2>1, <2>2
  <1>7. /\ saving' = (saving \ {t}) \cup {next} /\ unit \in units'
        /\ units \subseteq units' /\ units' \subseteq Places
    BY <1>1, <1>2, <1>3, <1>5 DEF DialogInv, SavedRows
  <1> QED BY <1>1, <1>2, <1>6, <1>7, SaveGoesOn

\* The contract is saved: added, or in place of the one its form was opened for.
LEMMA SaveRowKeeps == ASSUME DialogInv, PatientUser!SaveRow PROVE DialogInv'
  <1>1. PICK t \in saving : \E p \in t.payload :
          /\ t.pc = "save" /\ PatientUser!Takes(t, p)
          /\ LET c == IF t.editing THEN CHOOSE x \in p.contract : TRUE ELSE Len(contracts) + 1 IN
             /\ contracts' = IF t.editing THEN [contracts EXCEPT ![c] = p.row]
                             ELSE Append(contracts, p.row)
             /\ log' = log \cup {PatientUser!Logged(t, p, c)}
          /\ saving' = (saving \ {t}) \cup {[t EXCEPT !.pc = "saved"]}
          /\ UNCHANGED <<units, selected, dialog, unitDialog, drafts>>
    BY DEF PatientUser!SaveRow
  <1>2. PICK f, unit :
          /\ f = IF t.kind = "contract" THEN dialog.form ELSE unitDialog.form
          /\ unit = drafts[f.draft].unit /\ IsSave(t, f, unit) /\ unit \in Places
          /\ IsDraftForm(Len(drafts), Len(contracts), f) /\ OpenedFor(drafts, f)
          /\ \/ t.kind = "contract" /\ selected = {unit} /\ unit \in units
             \/ t.kind = "unit" /\ (t.pc # "unit" => unit \in units)
    BY SaveHasForm
  <1>3. /\ t.payload = {Asked(f, unit)} /\ t.editing = (f.contract # {}) /\ t.submitted = f
        /\ t.unit = unit /\ unit \in units
    BY <1>1, <1>2 DEF IsSave
  <1>4. PICK row : row = Asked(f, unit).row OBVIOUS
  <1>5. PICK c : c = IF t.editing THEN CHOOSE x \in f.contract : TRUE ELSE Len(contracts) + 1
    OBVIOUS
  <1>6. /\ PatientUser!Takes(t, Asked(f, unit))
        /\ contracts' = IF t.editing THEN [contracts EXCEPT ![c] = row] ELSE Append(contracts, row)
        /\ log' = log \cup {PatientUser!Logged(t, Asked(f, unit), c)}
        /\ saving' = (saving \ {t}) \cup {[t EXCEPT !.pc = "saved"]}
        /\ UNCHANGED <<units, selected, dialog, unitDialog, drafts>>
    <2>1. PICK p \in t.payload :
            /\ PatientUser!Takes(t, p)
            /\ LET d == IF t.editing THEN CHOOSE x \in p.contract : TRUE
                       ELSE Len(contracts) + 1 IN
               /\ contracts' = IF t.editing THEN [contracts EXCEPT ![d] = p.row]
                               ELSE Append(contracts, p.row)
               /\ log' = log \cup {PatientUser!Logged(t, p, d)}
      BY <1>1
    <2>2. p = Asked(f, unit) BY <1>3, <2>1
    <2>3. p.contract = f.contract /\ p.row = row BY <1>4, <2>2 DEF Asked
    <2>4. c = IF t.editing THEN CHOOSE x \in p.contract : TRUE ELSE Len(contracts) + 1
      BY <1>5, <2>3
    <2> QED BY <1>1, <2>1, <2>2, <2>3, <2>4
  <1>7. /\ row = [unit |-> unit, text |-> f.draft, license |-> AskedLicense(f),
                  files |-> AskedFiles(f)]
        /\ row.unit = unit /\ row.text = f.draft
        /\ row.license = AskedLicense(f) /\ row.files = AskedFiles(f)
    BY <1>4 DEF Asked
  <1>8. /\ Len(drafts) \in Nat /\ Len(contracts) \in Nat
        /\ f.draft \in 1 .. Len(drafts) /\ f.contract = drafts[f.draft].contract
        /\ f.contract \subseteq 1 .. Len(contracts) /\ AtMostOne(f.contract)
    BY <1>2 DEF IsDraftForm, OpenedFor, DialogInv, SavedRows
  <1>9. /\ AskedLicense(f) \subseteq 0 .. Len(drafts) /\ AtMostOne(AskedLicense(f))
        /\ AskedFiles(f) \subseteq 0 .. Len(drafts)
    BY <1>2 DEF IsDraftForm, AskedLicense, AskedFiles, AtMostOne
  <1>10. f.contract # {} => f.contract = {c} /\ c \in 1 .. Len(contracts)
    BY <1>3, <1>5, <1>8 DEF AtMostOne
  <1>11. f.contract = {} => c = Len(contracts) + 1 BY <1>3, <1>5
  <1>12. PICK Contracts : Contracts = [unit : Places, text : Nat, license : SUBSET Nat,
                                       files : SUBSET Nat]
    OBVIOUS
  <1>13. contracts \in Seq(Contracts) BY <1>12 DEF DialogInv, SavedRows
  <1>14. row \in Contracts
    <2>1. 0 .. Len(drafts) \subseteq Nat /\ f.draft \in Nat BY <1>8
    <2> QED BY <1>2, <1>7, <1>9, <1>12, <2>1
  <1>15. /\ contracts' \in Seq(Contracts) /\ Len(contracts') \in Nat
         /\ Len(contracts) <= Len(contracts') /\ Len(contracts') <= DialogRows
         /\ c \in 1 .. Len(contracts') /\ contracts'[c] = row
         /\ \A i \in 1 .. Len(contracts') :
               i # c => i \in 1 .. Len(contracts) /\ contracts'[i] = contracts[i]
    <2>1. CASE f.contract # {}
      <3>1. contracts' = [contracts EXCEPT ![c] = row] BY <1>3, <1>6, <2>1
      <3> QED BY <1>8, <1>10, <1>13, <1>14, <2>1, <3>1 DEF DialogInv, SavedRows
    <2>2. CASE f.contract = {}
      <3>1. contracts' = Append(contracts, row) BY <1>3, <1>6, <2>2
      <3>2. Len(contracts) < DialogRows BY <1>3, <1>6, <2>2 DEF PatientUser!Takes
      <3> QED BY <1>8, <1>11, <1>13, <1>14, <2>2, <3>1, <3>2, SavedBounds
    <2> QED BY <2>1, <2>2
  <1>16. \A i \in 1 .. Len(contracts') : IsContract(drafts, units, i, contracts'[i])
    <2>1. IsContract(drafts, units, c, row)
      <3>1. drafts[f.draft].contract \in {{}, {c}} BY <1>8, <1>10
      <3>2. f.draft \in 0 .. Len(drafts) BY <1>8
      <3> QED BY <1>2, <1>3, <1>7, <1>9, <3>1, <3>2 DEF IsContract
    <2>2. \A i \in 1 .. Len(contracts) : IsContract(drafts, units, i, contracts[i])
      BY DEF DialogInv, SavedRows
    <2> QED BY <1>15, <2>1, <2>2
  <1>17. ASSUME NEW i \in 1 .. Len(contracts'), contracts'[i].text = f.draft PROVE i = c
    <2> SUFFICES ASSUME i # c PROVE FALSE OBVIOUS
    <2>1. i \in 1 .. Len(contracts) /\ contracts[i].text = f.draft BY <1>15, <1>17
    <2>2. IsContract(drafts, units, i, contracts[i]) BY <2>1 DEF DialogInv, SavedRows
    <2>3. contracts[i].unit = unit /\ f.contract \in {{}, {i}}
      BY <1>2, <1>8, <2>1, <2>2 DEF IsContract
    <2>4. f.contract = {} BY <1>10, <2>3
    <2>5. \A j \in DOMAIN contracts :
            contracts[j].unit = Asked(f, unit).row.unit =>
            contracts[j].text # Asked(f, unit).row.text
      BY <1>3, <1>6, <2>4 DEF PatientUser!Takes
    <2>6. i \in DOMAIN contracts BY <1>13, <2>1
    <2> QED BY <1>4, <1>7, <2>1, <2>3, <2>5, <2>6
  <1>18. ASSUME NEW i \in 1 .. Len(contracts'), NEW j \in 1 .. Len(contracts'),
                contracts'[i].text = contracts'[j].text, contracts'[i].text > 0
         PROVE  i = j
    <2>1. CASE i = c \/ j = c
      <3>1. contracts'[i].text = f.draft /\ contracts'[j].text = f.draft
        BY <1>7, <1>15, <1>18, <2>1
      <3> QED BY <1>17, <3>1
    <2>2. CASE i # c /\ j # c
      BY <1>15, <1>18, <2>2 DEF DialogInv, SavedRows
    <2> QED BY <2>1, <2>2
  <1>19. ASSUME NEW e \in log' PROVE IsLogged(drafts, e)
    <2>1. CASE e \in log BY <2>1 DEF DialogInv, SavedRows
    <2>2. CASE e \notin log
      <3>1. e = PatientUser!Logged(t, Asked(f, unit), c) BY <1>6, <2>2
      <3>2. e.submitted = f /\ e.row = row /\ e.saved = c
        BY <1>3, <1>4, <3>1 DEF PatientUser!Logged
      <3> QED BY <1>2, <1>7, <1>8, <1>10, <3>2 DEF IsLogged
    <2> QED BY <2>1, <2>2
  <1>20. SavedRows'
    BY <1>6, <1>12, <1>15, <1>16, <1>18, <1>19 DEF DialogInv, SavedRows
  <1>21. SavedDialogs'
    <2>1. \A g : IsDraftForm(Len(drafts), Len(contracts), g) =>
                    IsDraftForm(Len(drafts), Len(contracts'), g)
      BY <1>8, <1>15, FormGrows
    <2> QED BY <1>6, <2>1 DEF DialogInv, SavedDialogs
  <1>22. SavesUnderWay'
    <2>1. PICK next : next = [t EXCEPT !.pc = "saved"] OBVIOUS
    <2>2. IsSave(next, f, unit) /\ next.kind = t.kind /\ next.unit = unit
      BY <1>2, <2>1 DEF IsSave
    <2>3. saving' = {next} BY <1>6, <2>1 DEF DialogInv, SavesUnderWay, AtMostOne
    <2> QED BY <1>2, <1>3, <1>6, <2>2, <2>3 DEF DialogInv, SavesUnderWay, AtMostOne
  <1> QED BY <1>20, <1>21, <1>22 DEF DialogInv

LEMMA DialogNext == ASSUME DialogInv, PatientUser!Next PROVE DialogInv'
  <1>1. CASE PatientUser!Contract
    <2>1. CASE \/ PatientUser!SelectUnit \/ PatientUser!CloseContractDialog
               \/ PatientUser!FillContract \/ PatientUser!OnBusinessLicenseChange
               \/ PatientUser!OnAttachmentFilesChange \/ PatientUser!RemoveBusinessLicense
               \/ PatientUser!RemoveAttachment
      BY <2>1, FillsKeep
    <2>2. CASE PatientUser!OpenCreateContract \/ PatientUser!OpenEditContract
      BY <2>2, OpenContractKeeps
    <2>3. CASE PatientUser!SaveContract BY <2>3, SavesBegin
    <2>4. CASE PatientUser!Uploaded BY <2>4, UploadsGoOn
    <2>5. CASE PatientUser!ContractSaved \/ PatientUser!ContractFails BY <2>5, SaveEnds
    <2> QED BY <1>1, <2>1, <2>2, <2>3, <2>4, <2>5 DEF PatientUser!Contract
  <1>2. CASE PatientUser!Unit
    <2>1. CASE \/ PatientUser!CloseUnitDialog \/ PatientUser!FillUnit
               \/ PatientUser!OnUnitBusinessLicenseChange
               \/ PatientUser!OnUnitAttachmentFilesChange
      BY <2>1, FillsKeep
    <2>2. CASE PatientUser!OpenCreateUnit BY <2>2, OpenContractKeeps
    <2>3. CASE PatientUser!SaveUnit BY <2>3, SavesBegin
    <2>4. CASE PatientUser!UnitCreated BY <2>4, CreatedKeeps
    <2>5. CASE PatientUser!UnitUploaded BY <2>5, UploadsGoOn
    <2>6. CASE PatientUser!UnitSaved \/ PatientUser!UnitFails BY <2>6, SaveEnds
    <2> QED BY <1>2, <2>1, <2>2, <2>3, <2>4, <2>5, <2>6 DEF PatientUser!Unit
  <1>3. CASE PatientUser!SaveRow BY <1>3, SaveRowKeeps
  <1> QED BY <1>1, <1>2, <1>3 DEF PatientUser!Next

LEMMA DialogTells ==
    ASSUME DialogInv
    PROVE  /\ PatientUser!TypeOK /\ PatientUser!SavedAsSubmitted
           /\ PatientUser!OneContractPerForm
  <1>1. \A S : PatientUser!Cardinality(S) = Cardinality(S)
    BY Zenon DEF PatientUser!Cardinality, Cardinality
  <1>2. /\ Len(drafts) \in Nat /\ Len(drafts) <= DialogDrafts
        /\ DOMAIN drafts = 1 .. Len(drafts) /\ DOMAIN contracts = 1 .. Len(contracts)
    BY DEF DialogInv, SavedRows
  <1>3. 0 .. Len(drafts) \subseteq PatientUser!Drafts
    BY <1>2, SavedBounds DEF PatientUser!Drafts
  <1>4. ASSUME NEW f, IsDraftForm(Len(drafts), Len(contracts), f)
        PROVE  PatientUser!FormOK(f)
    <2>1. Cardinality(f.license) <= 1 BY <1>4, AtMostOneCounts DEF IsDraftForm
    <2>2. PatientUser!Cardinality(f.license) <= 1 BY <1>1, <2>1
    <2> QED BY <1>2, <1>3, <1>4, <2>2 DEF IsDraftForm, PatientUser!FormOK
  <1>5. PatientUser!TypeOK
    <2>1. Cardinality(selected) <= 1 BY AtMostOneCounts DEF DialogInv, SavedRows
    <2>2. PatientUser!Cardinality(selected) <= 1 BY <1>1, <2>1
    <2>3. ASSUME NEW kind
          PROVE  PatientUser!Cardinality({t \in saving : t.kind = kind}) <= 1
      <3>1. AtMostOne({t \in saving : t.kind = kind})
        BY DEF DialogInv, SavesUnderWay, AtMostOne
      <3>2. Cardinality({t \in saving : t.kind = kind}) <= 1 BY <3>1, AtMostOneCounts
      <3> QED BY <1>1, <3>2
    <2>4. \A t \in saving : t.pc \in {"unit", "license", "attachments", "save", "saved"}
      BY DEF DialogInv, SavesUnderWay, IsSave
    <2>5. \A i \in DOMAIN contracts : /\ contracts[i].unit \in units
                                      /\ contracts[i].files \subseteq PatientUser!Drafts
      BY <1>2, <1>3 DEF DialogInv, SavedRows, IsContract
    <2>6. PatientUser!FormOK(dialog.form) /\ PatientUser!FormOK(unitDialog.form)
      BY <1>4 DEF DialogInv, SavedDialogs
    <2>7. /\ units \subseteq {"u1", "u2", "u3"} /\ selected \subseteq units
          /\ Len(contracts) <= DialogRows
      BY DEF DialogInv, SavedRows, Places
    <2> QED BY <2>2, <2>3, <2>4, <2>5, <2>6, <2>7 DEF PatientUser!TypeOK
  <1>6. PatientUser!SavedAsSubmitted
    <2> SUFFICES ASSUME NEW e \in log
                 PROVE LET form == e.submitted IN
                       /\ e.row.unit = drafts[form.draft].unit
                       /\ form.contract # {} => form.contract = {e.saved}
                       /\ e.row.text = form.draft
                       /\ e.row.license = AskedLicense(form)
                       /\ e.row.files = AskedFiles(form)
      BY DEF PatientUser!SavedAsSubmitted, AskedLicense, AskedFiles
    <2>1. IsLogged(drafts, e) BY DEF DialogInv, SavedRows
    <2> QED BY <2>1 DEF IsLogged
  <1>7. ASSUME NEW d \in DOMAIN drafts
        PROVE  PatientUser!Cardinality({c \in DOMAIN contracts : contracts[c].text = d}) <= 1
    <2>1. d > 0 BY <1>2
    <2>2. AtMostOne({c \in DOMAIN contracts : contracts[c].text = d})
      BY <1>2, <2>1 DEF DialogInv, SavedRows, AtMostOne
    <2>3. Cardinality({c \in DOMAIN contracts : contracts[c].text = d}) <= 1
      BY <2>2, AtMostOneCounts
    <2> QED BY <1>1, <2>3
  <1> QED BY <1>5, <1>6, <1>7 DEF PatientUser!OneContractPerForm

-----------------------------------------------------------------------------
(* A user who does not wait *)

\* A save of a new unit sends a contract only for it, and only if there is one.
IsHasty(t) ==
    /\ t = [kind |-> t.kind, pc |-> t.pc, submitted |-> t.submitted,
            editing |-> t.editing, unit |-> t.unit, license |-> t.license,
            kept |-> t.kept, payload |-> t.payload]
    /\ t.kind = "unit" =>
          /\ \A p \in t.payload : p.row.unit = t.unit
          /\ t.pc \in {"license", "attachments", "save"} =>
                HastyUser!HasInitialContractInput(t.submitted)

HastySaves == (\A t \in saving : IsHasty(t)) /\ HastyUser!FirstContractOnItsUnit

\* A step of a save leaves what the save is of, and sends to the unit that is given.
SameSave(t, next, unit) ==
    /\ next = [kind |-> next.kind, pc |-> next.pc, submitted |-> next.submitted,
               editing |-> next.editing, unit |-> next.unit, license |-> next.license,
               kept |-> next.kept, payload |-> next.payload]
    /\ next.kind = t.kind /\ next.submitted = t.submitted /\ next.unit = t.unit
    /\ \A p \in next.payload : p \in t.payload \/ p.row.unit = unit

LEMMA HastySendIs ==
    ASSUME NEW t, NEW f, NEW unit, SameSave(t, t, unit)
    PROVE  SameSave(t, HastyUser!Send(t, f, unit), unit)
  <1>1. PICK files, payloads, step :
          /\ payloads = {[row |-> HastyUser!Row(unit, f.draft, t.license, t.kept),
                          contract |-> f.contract]}
          /\ step = "save"
    OBVIOUS
  <1>2. PICK half : half = [t EXCEPT !.pc = step] OBVIOUS
  <1>3. HastyUser!Send(t, f, unit) = [half EXCEPT !.payload = payloads]
    BY <1>1, <1>2 DEF HastyUser!Send
  <1>4. half = [kind |-> t.kind, pc |-> step, submitted |-> t.submitted,
                editing |-> t.editing, unit |-> t.unit, license |-> t.license,
                kept |-> t.kept, payload |-> t.payload]
    BY <1>2 DEF SameSave
  <1>5. [half EXCEPT !.payload = payloads] =
          [kind |-> t.kind, pc |-> step, submitted |-> t.submitted,
           editing |-> t.editing, unit |-> t.unit, license |-> t.license,
           kept |-> t.kept, payload |-> payloads]
    BY <1>4
  <1>6. \A p \in payloads : p.row.unit = unit BY <1>1 DEF HastyUser!Row
  <1> QED BY <1>3, <1>5, <1>6 DEF SameSave

LEMMA HastyAttachIs ==
    ASSUME NEW t, NEW f, NEW unit, SameSave(t, t, unit)
    PROVE  SameSave(t, HastyUser!Attach(t, f, unit), unit)
  <1>1. CASE f.picked
    <2>1. PICK files, step : files = f.kept \cup {f.draft} /\ step = "attachments" OBVIOUS
    <2>2. PICK half : half = [t EXCEPT !.pc = step] OBVIOUS
    <2>3. HastyUser!Attach(t, f, unit) = [half EXCEPT !.kept = files]
      BY <1>1, <2>1, <2>2 DEF HastyUser!Attach
    <2>4. half = [kind |-> t.kind, pc |-> step, submitted |-> t.submitted,
                  editing |-> t.editing, unit |-> t.unit, license |-> t.license,
                  kept |-> t.kept, payload |-> t.payload]
      BY <2>2 DEF SameSave
    <2>5. [half EXCEPT !.kept = files] =
            [kind |-> t.kind, pc |-> step, submitted |-> t.submitted,
             editing |-> t.editing, unit |-> t.unit, license |-> t.license,
             kept |-> files, payload |-> t.payload]
      BY <2>4
    <2> QED BY <2>3, <2>5 DEF SameSave
  <1>2. CASE ~f.picked
    <2>1. PICK next, files : files = f.kept /\ next = [t EXCEPT !.kept = files] OBVIOUS
    <2>2. HastyUser!Attach(t, f, unit) = HastyUser!Send(next, f, unit)
      BY <1>2, <2>1 DEF HastyUser!Attach
    <2>3. next = [kind |-> t.kind, pc |-> t.pc, submitted |-> t.submitted,
                  editing |-> t.editing, unit |-> t.unit, license |-> t.license,
                  kept |-> files, payload |-> t.payload]
      BY <2>1 DEF SameSave
    <2>4. SameSave(next, next, unit) /\ SameSave(t, next, unit) BY <2>3 DEF SameSave
    <2>5. SameSave(next, HastyUser!Send(next, f, unit), unit) BY <2>4, HastySendIs
    <2> QED BY <2>2, <2>4, <2>5 DEF SameSave
  <1> QED BY <1>1, <1>2

LEMMA HastyUploadIs ==
    ASSUME NEW t, NEW f, NEW unit, SameSave(t, t, unit)
    PROVE  SameSave(t, HastyUser!Upload(t, f, unit), unit)
  <1>1. CASE f.pickedLicense
    <2>1. PICK license, step : license = {f.draft} /\ step = "license" OBVIOUS
    <2>2. PICK half : half = [t EXCEPT !.pc = step] OBVIOUS
    <2>3. HastyUser!Upload(t, f, unit) = [half EXCEPT !.license = license]
      BY <1>1, <2>1, <2>2 DEF HastyUser!Upload
    <2>4. half = [kind |-> t.kind, pc |-> step, submitted |-> t.submitted,
                  editing |-> t.editing, unit |-> t.unit, license |-> t.license,
                  kept |-> t.kept, payload |-> t.payload]
      BY <2>2 DEF SameSave
    <2>5. [half EXCEPT !.license = license] =
            [kind |-> t.kind, pc |-> step, submitted |-> t.submitted,
             editing |-> t.editing, unit |-> t.unit, license |-> license,
             kept |-> t.kept, payload |-> t.payload]
      BY <2>4
    <2> QED BY <2>3, <2>5 DEF SameSave
  <1>2. CASE ~f.pickedLicense
    BY <1>2, HastyAttachIs DEF HastyUser!Upload
  <1> QED BY <1>1, <1>2

\* A save is begun or goes on.
LEMMA HastyGoesOn ==
    ASSUME HastySaves, NEW next, IsHasty(next), saving' \subseteq saving \cup {next},
           UNCHANGED log
    PROVE  HastySaves'
  BY DEF HastySaves, HastyUser!FirstContractOnItsUnit

LEMMA HastyBegins ==
    ASSUME HastySaves, HastyUser!SaveContract \/ HastyUser!SaveUnit PROVE HastySaves'
  <1>1. ASSUME NEW kind, NEW f, NEW unit
        PROVE  /\ SameSave(HastyUser!Submission(kind, f, unit),
                           HastyUser!Submission(kind, f, unit), unit)
               /\ HastyUser!Submission(kind, f, unit).kind = kind
               /\ HastyUser!Submission(kind, f, unit).pc = "unit"
               /\ HastyUser!Submission(kind, f, unit).payload = {}
    BY DEF SameSave, HastyUser!Submission
  <1>2. CASE HastyUser!SaveContract
    <2>1. /\ saving' = saving \cup
                {HastyUser!Upload(HastyUser!Submission("contract", dialog.form, u),
                                  dialog.form, u) : u \in selected}
          /\ log' = log
      BY <1>2 DEF HastyUser!SaveContract
    <2>2. ASSUME NEW u
          PROVE  IsHasty(HastyUser!Upload(HastyUser!Submission("contract", dialog.form, u),
                                          dialog.form, u))
      <3>1. PICK t : t = HastyUser!Submission("contract", dialog.form, u) OBVIOUS
      <3>2. SameSave(t, t, u) /\ t.kind = "contract" BY <1>1, <3>1
      <3>3. SameSave(t, HastyUser!Upload(t, dialog.form, u), u) BY <3>2, HastyUploadIs
      <3> QED BY <3>1, <3>2, <3>3 DEF SameSave, IsHasty
    <2>3. \A t \in saving' : t \in saving \/ IsHasty(t) BY <2>1, <2>2
    <2> QED BY <2>1, <2>3 DEF HastySaves, HastyUser!FirstContractOnItsUnit
  <1>3. CASE HastyUser!SaveUnit
    <2>1. PICK t : /\ t = HastyUser!Submission("unit", unitDialog.form,
                                              drafts[unitDialog.form.draft].unit)
                   /\ saving' = saving \cup {t} /\ log' = log
      BY <1>3 DEF HastyUser!SaveUnit
    <2>2. IsHasty(t) BY <1>1, <2>1 DEF SameSave, IsHasty
    <2> QED BY <2>1, <2>2, HastyGoesOn
  <1> QED BY <1>2, <1>3

LEMMA HastyUploads ==
    ASSUME HastySaves,
           HastyUser!Uploaded \/ HastyUser!UnitUploaded \/ HastyUser!UnitCreated
    PROVE  HastySaves'
  <1>1. PICK t, next, unit :
          /\ t \in saving /\ saving' = (saving \ {t}) \cup {next} /\ log' = log
          /\ \/ \E form : \/ next = HastyUser!Attach(t, form, unit)
                          \/ next = HastyUser!Send(t, form, unit)
                          \/ next = HastyUser!Upload(t, form, unit)
             \/ next = [t EXCEPT !.pc = "saved"]
          /\ t.kind = "unit" =>
                /\ unit = t.unit
                /\ \/ t.pc \in {"license", "attachments", "save"}
                   \/ HastyUser!HasInitialContractInput(t.submitted)
                   \/ next = [t EXCEPT !.pc = "saved"]
    <2>1. CASE HastyUser!Uploaded BY <2>1 DEF HastyUser!Uploaded
    <2>2. CASE HastyUser!UnitUploaded BY <2>2 DEF HastyUser!UnitUploaded
    <2>3. CASE HastyUser!UnitCreated BY <2>3 DEF HastyUser!UnitCreated
    <2> QED BY <2>1, <2>2, <2>3
  <1>2. IsHasty(t) BY <1>1 DEF HastySaves
  <1>3. SameSave(t, t, unit) BY <1>2 DEF IsHasty, SameSave
  <1>4. SameSave(t, next, unit) /\ (SameSave(t, next, unit) => IsHasty(next))
    <2>1. CASE next = [t EXCEPT !.pc = "saved"]
      <3>1. PICK step : step = "saved" /\ next = [t EXCEPT !.pc = step] BY <2>1
      <3>2. next = [kind |-> t.kind, pc |-> step, submitted |-> t.submitted,
                    editing |-> t.editing, unit |-> t.unit, license |-> t.license,
                    kept |-> t.kept, payload |-> t.payload]
        BY <1>2, <3>1 DEF IsHasty
      <3> QED BY <1>2, <3>1, <3>2 DEF SameSave, IsHasty
    <2>2. CASE next # [t EXCEPT !.pc = "saved"]
      <3>1. PICK form : \/ next = HastyUser!Attach(t, form, unit)
                        \/ next = HastyUser!Send(t, form, unit)
                        \/ next = HastyUser!Upload(t, form, unit)
        BY <1>1, <2>2
      <3>2. SameSave(t, next, unit) BY <1>3, <3>1, HastyAttachIs, HastySendIs, HastyUploadIs
      <3>3. t.kind = "unit" =>
              unit = t.unit /\ HastyUser!HasInitialContractInput(t.submitted)
        BY <1>1, <1>2, <2>2 DEF IsHasty
      <3> QED BY <1>2, <3>2, <3>3 DEF SameSave, IsHasty
    <2> QED BY <2>1, <2>2
  <1> QED BY <1>1, <1>4, HastyGoesOn

LEMMA HastySaveRow == ASSUME HastySaves, HastyUser!SaveRow PROVE HastySaves'
  <1>1. PICK t \in saving : \E p, c :
          /\ p \in t.payload /\ t.pc = "save" /\ log' = log \cup {HastyUser!Logged(t, p, c)}
          /\ saving' = (saving \ {t}) \cup {[t EXCEPT !.pc = "saved"]}
    BY DEF HastyUser!SaveRow
  <1>2. PICK p, c :
          /\ p \in t.payload /\ t.pc = "save" /\ log' = log \cup {HastyUser!Logged(t, p, c)}
          /\ saving' = (saving \ {t}) \cup {[t EXCEPT !.pc = "saved"]}
    BY <1>1
  <1>3. IsHasty(t) BY DEF HastySaves
  <1>4. PICK e : e = HastyUser!Logged(t, p, c) OBVIOUS
  <1>5. e.first => e.row.unit = e.unit /\ HastyUser!HasInitialContractInput(e.submitted)
    BY <1>2, <1>3, <1>4 DEF HastyUser!Logged, IsHasty
  <1>6. HastyUser!FirstContractOnItsUnit'
    BY <1>2, <1>4, <1>5 DEF HastySaves, HastyUser!FirstContractOnItsUnit
  <1>7. PICK next, step : step = "saved" /\ next = [t EXCEPT !.pc = step] OBVIOUS
  <1>8. next = [kind |-> t.kind, pc |-> step, submitted |-> t.submitted,
                editing |-> t.editing, unit |-> t.unit, license |-> t.license,
                kept |-> t.kept, payload |-> t.payload]
    BY <1>3, <1>7 DEF IsHasty
  <1>9. IsHasty(next) BY <1>3, <1>7, <1>8 DEF IsHasty
  <1>10. \A s \in saving' : s \in saving \/ s = next BY <1>2, <1>7
  <1> QED BY <1>6, <1>9, <1>10 DEF HastySaves

LEMMA HastyNext == ASSUME HastySaves, HastyUser!Next PROVE HastySaves'
  <1>1. CASE HastyUser!SaveContract \/ HastyUser!SaveUnit BY <1>1, HastyBegins
  <1>2. CASE HastyUser!Uploaded \/ HastyUser!UnitUploaded \/ HastyUser!UnitCreated
    BY <1>2, HastyUploads
  <1>3. CASE HastyUser!SaveRow BY <1>3, HastySaveRow
  <1>4. ASSUME saving' \subseteq saving, log' = log PROVE HastySaves'
    BY <1>4 DEF HastySaves, HastyUser!FirstContractOnItsUnit
  <1>5. CASE \/ HastyUser!ContractSaved \/ HastyUser!ContractFails
             \/ HastyUser!UnitSaved \/ HastyUser!UnitFails
    BY <1>4, <1>5 DEF HastyUser!ContractSaved, HastyUser!ContractFails, HastyUser!UnitSaved,
       HastyUser!UnitFails
  <1>6. CASE \/ HastyUser!SelectUnit \/ HastyUser!OpenCreateContract
             \/ HastyUser!OpenEditContract \/ HastyUser!CloseContractDialog
             \/ HastyUser!OpenCreateUnit \/ HastyUser!CloseUnitDialog
    BY <1>4, <1>6 DEF HastyUser!SelectUnit, HastyUser!OpenCreateContract,
       HastyUser!OpenEditContract, HastyUser!CloseContractDialog, HastyUser!OpenCreateUnit,
       HastyUser!CloseUnitDialog
  <1>7. CASE \/ HastyUser!FillContract \/ HastyUser!OnBusinessLicenseChange
             \/ HastyUser!OnAttachmentFilesChange \/ HastyUser!RemoveBusinessLicense
             \/ HastyUser!RemoveAttachment
    BY <1>4, <1>7 DEF HastyUser!FillContract, HastyUser!OnBusinessLicenseChange,
       HastyUser!OnAttachmentFilesChange, HastyUser!RemoveBusinessLicense,
       HastyUser!RemoveAttachment, HastyUser!Edit
  <1>8. CASE \/ HastyUser!FillUnit \/ HastyUser!OnUnitBusinessLicenseChange
             \/ HastyUser!OnUnitAttachmentFilesChange
    BY <1>4, <1>8 DEF HastyUser!FillUnit, HastyUser!OnUnitBusinessLicenseChange,
       HastyUser!OnUnitAttachmentFilesChange, HastyUser!EditUnit
  <1> QED BY <1>1, <1>2, <1>3, <1>5, <1>6, <1>7, <1>8
       DEF HastyUser!Next, HastyUser!Contract, HastyUser!Unit

LEMMA HastyInit == HastyUser!Init => HastySaves
  BY DEF HastyUser!Init, HastySaves, HastyUser!FirstContractOnItsUnit

-----------------------------------------------------------------------------
(* The page of deposits *)

Leases == {"c1", "c2"}
Areas == {"u1", "u2"}

\* A list of contracts with their units, all of them units that the contracts had.
LeaseTable(h, table) ==
    /\ table \in [Leases -> SUBSET Areas]
    /\ \A c \in Leases : AtMostOne(table[c]) /\ table[c] \subseteq h[c]

SignedAre(h, table) == h \in [Leases -> SUBSET Areas] /\ LeaseTable(h, table)

\* A deposit as it is or was after n clicks, also in a list that is late.
IsDeposit(n, h, row) ==
    row.contract \in Leases /\ row.unit \in h[row.contract] /\ row.click \in 0 .. n

DepositTable(n, h, table) ==
    /\ table = [d \in Entries |-> table[d]]
    /\ \A d \in Entries : AtMostOne(table[d]) /\ \A row \in table[d] : IsDeposit(n, h, row)

DepositLists(n, h, lists) ==
    /\ \A table \in lists.units : LeaseTable(h, table)
    /\ \A table \in lists.records : DepositTable(n, h, table)

DepositLoad(n, h, c) ==
    /\ c = [sequence |-> c.sequence, units |-> c.units, records |-> c.records,
            saving |-> c.saving]
    /\ c.saving \in BOOLEAN /\ DepositLists(n, h, c)

\* The unit of a dialog, or of a save, is one that its contract had.
UnitOf(h, unit, contract) ==
    \A c \in contract : c \in Leases /\ unit # {} /\ unit \subseteq h[c]

DepositForm(h, f) ==
    /\ f = [open |-> f.open, id |-> f.id, unit |-> f.unit, contract |-> f.contract,
            picture |-> f.picture, submitting |-> f.submitting]
    /\ f.open \in BOOLEAN /\ f.submitting \in BOOLEAN
    /\ AtMostOne(f.id) /\ AtMostOne(f.unit) /\ AtMostOne(f.contract)
    /\ UnitOf(h, f.unit, f.contract)

\* A save is for the unit of the dialog, one that the contract of what it wrote had.
DepositSave(n, h, table, unit, s) ==
    /\ s = [step |-> s.step, id |-> s.id, unit |-> s.unit, contract |-> s.contract,
            click |-> s.click, answered |-> s.answered]
    /\ s.answered \in BOOLEAN /\ s.click \in 0 .. n /\ s.unit = unit
    /\ UnitOf(h, s.unit, s.contract)
    /\ \A d \in Entries : \A row \in table[d] :
          row.click = s.click => s.answered /\ s.unit # {} /\ s.unit \subseteq h[row.contract]

\* The dialog is submitting for as long as its save and the load after it last.
OneDeposit ==
    /\ depositForm.submitting <=> save # {} \/ \E c \in depositLoads : c.saving
    /\ AtMostOne(save)
    /\ \A b, c \in depositLoads : b.saving /\ c.saving => b = c
    /\ save # {} => \A c \in depositLoads : ~c.saving

DepositsPageIs(p) ==
    /\ p = [mounted |-> p.mounted, sequence |-> p.sequence, loading |-> p.loading]
    /\ p.mounted \in BOOLEAN

DepositCountsAre(n) ==
    n = [clicks |-> n.clicks, changes |-> n.changes, faults |-> n.faults] /\ n.clicks \in Nat

DepositInv ==
    /\ DepositCountsAre(depositCounts)
    /\ DepositsPageIs(depositsPage)
    /\ SignedAre(had, signed)
    /\ DepositTable(depositCounts.clicks, had, deposits)
    /\ DepositLists(depositCounts.clicks, had, depositLists)
    /\ \A c \in depositLoads : DepositLoad(depositCounts.clicks, had, c)
    /\ DepositForm(had, depositForm) /\ OneDeposit
    /\ \A s \in save : DepositSave(depositCounts.clicks, had, deposits, depositForm.unit, s)

DepositsHold == part = "deposits" => DepositInv

LEMMA DepositsGrow ==
    ASSUME NEW n \in Nat, NEW m \in Nat, n <= m,
           NEW h, NEW g, \A c \in Leases : h[c] \subseteq g[c]
    PROVE  /\ \A table : DepositTable(n, h, table) => DepositTable(m, g, table)
           /\ \A lists : DepositLists(n, h, lists) => DepositLists(m, g, lists)
           /\ \A c : DepositLoad(n, h, c) => DepositLoad(m, g, c)
           /\ \A f : DepositForm(h, f) => DepositForm(g, f)
           /\ \A table, unit, s :
                 DepositTable(n, h, table) /\ DepositSave(n, h, table, unit, s) =>
                    DepositSave(m, g, table, unit, s)
  <1>1. 0 .. n \subseteq 0 .. m OBVIOUS
  <1>2. \A row : IsDeposit(n, h, row) => IsDeposit(m, g, row) BY <1>1 DEF IsDeposit
  <1>3. \A table : DepositTable(n, h, table) => DepositTable(m, g, table) BY <1>2 DEF DepositTable
  <1>4. \A table : LeaseTable(h, table) => LeaseTable(g, table) BY DEF LeaseTable
  <1>5. \A lists : DepositLists(n, h, lists) => DepositLists(m, g, lists)
    BY <1>3, <1>4 DEF DepositLists
  <1>6. \A c : DepositLoad(n, h, c) => DepositLoad(m, g, c) BY <1>5 DEF DepositLoad
  <1>7. \A unit, contract : UnitOf(h, unit, contract) => UnitOf(g, unit, contract) BY DEF UnitOf
  <1>8. \A f : DepositForm(h, f) => DepositForm(g, f) BY <1>7 DEF DepositForm
  <1>9. ASSUME NEW table, NEW unit, NEW s,
               DepositTable(n, h, table), DepositSave(n, h, table, unit, s)
        PROVE  DepositSave(m, g, table, unit, s)
    <2>1. ASSUME NEW d \in Entries, NEW row \in table[d], row.click = s.click
          PROVE  s.answered /\ s.unit # {} /\ s.unit \subseteq g[row.contract]
      <3>1. row.contract \in Leases BY <1>9 DEF DepositTable, IsDeposit
      <3> QED BY <1>9, <2>1, <3>1 DEF DepositSave
    <2> QED BY <1>1, <1>7, <1>9, <2>1 DEF DepositSave
  <1> QED BY <1>3, <1>5, <1>6, <1>8, <1>9

LEMMA DepositInit == DepositDialog!Init => DepositInv
  <1> SUFFICES ASSUME DepositDialog!Init PROVE DepositInv OBVIOUS
  <1>1. PICK c \in Leases, d \in Entries : \E u \in signed[c] :
          deposits = [[e \in Entries |-> {}] EXCEPT ![d] =
                        {[contract |-> c, unit |-> u, click |-> 0]}]
    BY DEF DepositDialog!Init, DepositDialog!Deposit, Leases
  <1>2. /\ had = signed /\ save = {}
        /\ signed \in [Leases -> {{}} \cup {{v} : v \in Areas}]
        /\ depositLists = [units |-> {}, records |-> {}]
        /\ depositsPage = [mounted |-> TRUE, sequence |-> 1, loading |-> TRUE]
        /\ depositForm = [open |-> FALSE, id |-> {}, unit |-> {}, contract |-> {},
                          picture |-> {}, submitting |-> FALSE]
        /\ depositCounts = [clicks |-> 0, changes |-> 0, faults |-> 0]
    BY DEF DepositDialog!Init, DepositDialog!Blank, Leases, Areas
  <1>3. SignedAre(had, signed)
    BY <1>2 DEF SignedAre, LeaseTable, AtMostOne
  <1>4. depositLoads = {[sequence |-> 1, units |-> {}, records |-> {}, saving |-> FALSE]}
    BY <1>2 DEF DepositDialog!Init, DepositDialog!LoadCall
  <1>5. DepositTable(0, had, deposits)
    <2>1. PICK u \in signed[c] :
            deposits = [[e \in Entries |-> {}] EXCEPT ![d] =
                          {[contract |-> c, unit |-> u, click |-> 0]}]
      BY <1>1
    <2>2. PICK row : row = [contract |-> c, unit |-> u, click |-> 0] OBVIOUS
    <2>3. IsDeposit(0, had, row) BY <1>2, <2>2 DEF IsDeposit
    <2>4. deposits = [[e \in Entries |-> {}] EXCEPT ![d] = {row}] BY <2>1, <2>2
    <2> QED BY <2>3, <2>4 DEF DepositTable, AtMostOne
  <1>6. DepositLists(0, had, depositLists) BY <1>2 DEF DepositLists
  <1>7. \A call \in depositLoads : DepositLoad(0, had, call) /\ call.saving = FALSE
    <2> SUFFICES ASSUME NEW call \in depositLoads
                 PROVE  DepositLoad(0, had, call) /\ call.saving = FALSE
      OBVIOUS
    <2>1. call = [sequence |-> 1, units |-> {}, records |-> {}, saving |-> FALSE] BY <1>4
    <2> QED BY <2>1 DEF DepositLoad, DepositLists
  <1>8. DepositForm(had, depositForm) BY <1>2 DEF DepositForm, AtMostOne, UnitOf
  <1>9. OneDeposit BY <1>2, <1>7 DEF OneDeposit, AtMostOne
  <1>10. DepositsPageIs(depositsPage) BY <1>2 DEF DepositsPageIs
  <1> QED BY <1>2, <1>3, <1>5, <1>6, <1>7, <1>8, <1>9, <1>10 DEF DepositInv, DepositCountsAre

LEMMA DepositClickIs ==
    ASSUME DepositInv, DepositDialog!Click
    PROVE  /\ DepositCountsAre(depositCounts')
           /\ depositCounts'.clicks = depositCounts.clicks + 1
           /\ depositCounts.clicks \in Nat /\ depositCounts'.clicks \in Nat
           /\ depositCounts.clicks <= depositCounts'.clicks
  <1>1. /\ depositCounts' = [depositCounts EXCEPT !.clicks = @ + 1]
        /\ depositCounts = [clicks |-> depositCounts.clicks, changes |-> depositCounts.changes,
                            faults |-> depositCounts.faults]
        /\ depositCounts.clicks \in Nat
    BY DEF DepositInv, DepositCountsAre, DepositDialog!Click
  <1>2. PICK a, b, c : depositCounts = [clicks |-> a, changes |-> b, faults |-> c] BY <1>1
  <1>3. depositCounts' = [clicks |-> a + 1, changes |-> b, faults |-> c] BY <1>1, <1>2
  <1> QED BY <1>1, <1>2, <1>3 DEF DepositCountsAre

\* The user clicks, and with or without new contents of the dialog nothing is under way.
LEMMA DepositFormKeeps ==
    ASSUME DepositInv, DepositDialog!Click, ~depositForm.submitting,
           DepositForm(had, depositForm'), depositForm'.submitting = FALSE,
           UNCHANGED <<signed, had, deposits, depositLists, depositsPage, depositLoads, save>>
    PROVE  DepositInv'
  <1>1. save = {} /\ OneDeposit' BY DEF DepositInv, OneDeposit
  <1>2. PICK n \in Nat, m \in Nat :
          n = depositCounts.clicks /\ m = depositCounts'.clicks /\ n <= m
    BY DepositClickIs
  <1>3. /\ DepositTable(m, had, deposits) /\ DepositLists(m, had, depositLists)
        /\ \A c \in depositLoads : DepositLoad(m, had, c)
    BY <1>2, DepositsGrow DEF DepositInv
  <1> QED BY <1>1, <1>2, <1>3, DepositClickIs DEF DepositInv

\* The contract of a new dialog, or of one with another unit.
LEMMA DefaultsAre ==
    ASSUME DepositInv, NEW unit \in {{}, {"u1"}, {"u2"}},
           NEW contract \in DepositDialog!Defaults(unit)
    PROVE  AtMostOne(contract) /\ UnitOf(had, unit, contract)
  <1>1. \A c \in DepositDialog!SelectedContracts(unit) :
           c \in Leases /\ unit # {} /\ unit \subseteq had[c]
    BY DEF DepositDialog!SelectedContracts, DepositInv, DepositLists, LeaseTable, Leases
  <1>2. contract = {} \/ \E c \in DepositDialog!SelectedContracts(unit) : contract = {c}
    BY DEF DepositDialog!Defaults
  <1> QED BY <1>1, <1>2 DEF AtMostOne, UnitOf

LEMMA DepositOpensKeep ==
    ASSUME DepositInv, DepositDialog!OpenCreate \/ DepositDialog!OpenEdit
    PROVE  DepositInv'
  <1>1. /\ ~depositForm.submitting /\ DepositDialog!Click
        /\ UNCHANGED <<signed, had, deposits, depositLists, depositsPage, depositLoads, save>>
    BY DEF DepositDialog!OpenCreate, DepositDialog!OpenEdit, DepositDialog!Waits,
       DepositDialog!Server
  <1>2. depositForm.submitting = FALSE BY <1>1 DEF DepositInv, DepositForm
  <1>3. PICK id, unit, contract :
          /\ depositForm' = [open |-> TRUE, id |-> id, unit |-> unit, contract |-> contract,
                             picture |-> {}, submitting |-> FALSE]
          /\ AtMostOne(id) /\ AtMostOne(unit) /\ AtMostOne(contract)
          /\ UnitOf(had, unit, contract)
    <2>1. CASE DepositDialog!OpenCreate
      <3>1. PICK unit \in (IF depositLists.units = {} THEN {{}} ELSE {{u} : u \in {"u1", "u2"}}) :
              \E contract \in DepositDialog!Defaults(unit) :
                 depositForm' = [open |-> TRUE, id |-> {}, unit |-> unit,
                                 contract |-> contract, picture |-> {},
                                 submitting |-> depositForm.submitting]
        BY <2>1 DEF DepositDialog!OpenCreate, DepositDialog!Blank
      <3>2. unit \in {{}, {"u1"}, {"u2"}} OBVIOUS
      <3>3. PICK contract \in DepositDialog!Defaults(unit) :
              depositForm' = [open |-> TRUE, id |-> {}, unit |-> unit, contract |-> contract,
                              picture |-> {}, submitting |-> depositForm.submitting]
        BY <3>1
      <3>4. AtMostOne(contract) /\ UnitOf(had, unit, contract)
        BY <3>2, <3>3, DefaultsAre
      <3>5. PICK id : id = {} OBVIOUS
      <3>6. AtMostOne(id) /\ AtMostOne(unit) BY <3>2, <3>5 DEF AtMostOne
      <3>7. depositForm' = [open |-> TRUE, id |-> id, unit |-> unit, contract |-> contract,
                            picture |-> {}, submitting |-> FALSE]
        BY <1>2, <3>3, <3>5
      <3> QED BY <3>4, <3>6, <3>7
    <2>2. CASE DepositDialog!OpenEdit
      <3>1. PICK list1 \in depositLists.records, d \in Entries :
              \E row \in list1[d] :
                 depositForm' = [open |-> TRUE, id |-> {d}, unit |-> {row.unit},
                                 contract |-> {row.contract}, picture |-> {},
                                 submitting |-> depositForm.submitting]
        BY <2>2 DEF DepositDialog!OpenEdit, DepositDialog!Blank
      <3>2. PICK row \in list1[d] :
              depositForm' = [open |-> TRUE, id |-> {d}, unit |-> {row.unit},
                              contract |-> {row.contract}, picture |-> {},
                              submitting |-> depositForm.submitting]
        BY <3>1
      <3>3. row.contract \in Leases /\ row.unit \in had[row.contract]
        BY DEF DepositInv, DepositLists, DepositTable, IsDeposit
      <3>4. PICK id, unit, contract :
              id = {d} /\ unit = {row.unit} /\ contract = {row.contract}
        OBVIOUS
      <3>5. depositForm' = [open |-> TRUE, id |-> id, unit |-> unit, contract |-> contract,
                            picture |-> {}, submitting |-> FALSE]
        BY <1>2, <3>2, <3>4
      <3>6. AtMostOne(id) /\ AtMostOne(unit) /\ AtMostOne(contract) BY <3>4 DEF AtMostOne
      <3>7. UnitOf(had, unit, contract) BY <3>3, <3>4 DEF UnitOf
      <3> QED BY <3>5, <3>6, <3>7
    <2> QED BY <2>1, <2>2
  <1>4. DepositForm(had, depositForm') /\ depositForm'.submitting = FALSE BY <1>3 DEF DepositForm
  <1> QED BY <1>1, <1>4, DepositFormKeeps

LEMMA DepositFillsKeep ==
    ASSUME DepositInv,
           \/ DepositDialog!HandleUnitChange \/ DepositDialog!ChooseContract
           \/ DepositDialog!ChoosePicture \/ DepositDialog!Cancel
    PROVE  DepositInv'
  <1>1. /\ ~depositForm.submitting /\ DepositDialog!Click
        /\ UNCHANGED <<signed, had, deposits, depositLists, depositsPage, depositLoads, save>>
    BY DEF DepositDialog!HandleUnitChange, DepositDialog!ChooseContract,
       DepositDialog!ChoosePicture, DepositDialog!Cancel, DepositDialog!Waits,
       DepositDialog!Server
  <1>2. PICK open, id, unit, contract, picture :
          /\ open \in BOOLEAN
          /\ depositForm = [open |-> open, id |-> id, unit |-> unit, contract |-> contract,
                            picture |-> picture, submitting |-> FALSE]
          /\ AtMostOne(id) /\ AtMostOne(unit) /\ AtMostOne(contract)
          /\ UnitOf(had, unit, contract)
    BY <1>1 DEF DepositInv, DepositForm
  <1>3. CASE DepositDialog!HandleUnitChange
    <2>1. PICK u \in {"u1", "u2"} : \E other \in DepositDialog!Defaults({u}) :
            depositForm' = [depositForm EXCEPT !.unit = {u}, !.contract = other]
      BY <1>3 DEF DepositDialog!HandleUnitChange
    <2>2. PICK place : place = {u} OBVIOUS
    <2>3. PICK other \in DepositDialog!Defaults(place) :
            depositForm' = [depositForm EXCEPT !.unit = place, !.contract = other]
      BY <2>1, <2>2
    <2>4. AtMostOne(other) /\ UnitOf(had, place, other)
      BY <2>2, <2>3, DefaultsAre
    <2>5. depositForm' = [open |-> open, id |-> id, unit |-> place, contract |-> other,
                          picture |-> picture, submitting |-> FALSE]
      BY <1>2, <2>3
    <2>6. DepositForm(had, depositForm') /\ depositForm'.submitting = FALSE
      BY <1>2, <2>2, <2>4, <2>5 DEF DepositForm, AtMostOne
    <2> QED BY <1>1, <2>6, DepositFormKeeps
  <1>4. CASE DepositDialog!ChooseContract
    <2>1. PICK c \in DepositDialog!SelectedContracts(unit) :
            depositForm' = [depositForm EXCEPT !.contract = {c}]
      BY <1>2, <1>4 DEF DepositDialog!ChooseContract
    <2>2. c \in Leases /\ unit # {} /\ unit \subseteq had[c]
      BY <2>1 DEF DepositDialog!SelectedContracts, DepositInv, DepositLists, LeaseTable, Leases
    <2>3. UnitOf(had, unit, {c}) BY <2>2 DEF UnitOf
    <2>4. depositForm' = [open |-> open, id |-> id, unit |-> unit, contract |-> {c},
                          picture |-> picture, submitting |-> FALSE]
      BY <1>2, <2>1
    <2>5. DepositForm(had, depositForm') /\ depositForm'.submitting = FALSE
      BY <1>2, <2>3, <2>4 DEF DepositForm, AtMostOne
    <2> QED BY <1>1, <2>5, DepositFormKeeps
  <1>5. CASE DepositDialog!ChoosePicture
    <2>1. PICK other : depositForm' = [depositForm EXCEPT !.picture = other]
      BY <1>5 DEF DepositDialog!ChoosePicture
    <2>2. depositForm' = [open |-> open, id |-> id, unit |-> unit, contract |-> contract,
                          picture |-> other, submitting |-> FALSE]
      BY <1>2, <2>1
    <2>3. DepositForm(had, depositForm') /\ depositForm'.submitting = FALSE
      BY <1>2, <2>2 DEF DepositForm
    <2> QED BY <1>1, <2>3, DepositFormKeeps
  <1>6. CASE DepositDialog!Cancel
    <2>1. depositForm' = [open |-> FALSE, id |-> id, unit |-> unit, contract |-> contract,
                          picture |-> picture, submitting |-> FALSE]
      BY <1>2, <1>6 DEF DepositDialog!Cancel
    <2>2. DepositForm(had, depositForm') /\ depositForm'.submitting = FALSE
      BY <1>2, <2>1 DEF DepositForm
    <2> QED BY <1>1, <2>2, DepositFormKeeps
  <1> QED BY <1>3, <1>4, <1>5, <1>6

\* Contracts, clicks and the page change, and lists are asked for.
LEMMA DepositTurns ==
    ASSUME DepositInv, DepositCountsAre(depositCounts'),
           depositCounts.clicks <= depositCounts'.clicks,
           DepositsPageIs(depositsPage'), SignedAre(had', signed'),
           \A c \in Leases : had[c] \subseteq had'[c],
           depositLoads \subseteq depositLoads',
           \A c \in depositLoads' : c \in depositLoads \/
              (~c.saving /\ DepositLoad(depositCounts'.clicks, had', c)),
           UNCHANGED <<deposits, depositLists, depositForm, save>>
    PROVE  DepositInv'
  <1>1. PICK n \in Nat, m \in Nat :
          n = depositCounts.clicks /\ m = depositCounts'.clicks /\ n <= m
    BY DEF DepositInv, DepositCountsAre
  <1>2. PICK h, g : h = had /\ g = had' OBVIOUS
  <1>3. /\ DepositTable(m, g, deposits) /\ DepositLists(m, g, depositLists)
        /\ \A c \in depositLoads' : DepositLoad(m, g, c)
        /\ \A s \in save : DepositSave(m, g, deposits, depositForm.unit, s)
        /\ DepositForm(g, depositForm)
    BY <1>1, <1>2, DepositsGrow DEF DepositInv
  <1>4. OneDeposit' BY DEF DepositInv, OneDeposit
  <1> QED BY <1>1, <1>2, <1>3, <1>4 DEF DepositInv

\* What a page asks for after it saved or removed a deposit.
LEMMA DepositReloadIs ==
    ASSUME DepositInv, NEW tied \in BOOLEAN, DepositDialog!Reload(tied)
    PROVE  /\ DepositsPageIs(depositsPage')
           /\ \E new : /\ depositLoads' = depositLoads \cup new
                       /\ \A c \in new : /\ c.saving = tied
                                         /\ \A n, h : DepositLoad(n, h, c)
                       /\ AtMostOne(new) /\ (new # {} <=> depositsPage.mounted)
  <1>1. CASE depositsPage.mounted
    <2>1. PICK mounted1, number, loading :
            depositsPage = [mounted |-> mounted1, sequence |-> number, loading |-> loading]
      BY DEF DepositInv, DepositsPageIs
    <2>2. depositsPage' = [depositsPage EXCEPT !.sequence = @ + 1, !.loading = TRUE]
      BY <1>1 DEF DepositDialog!Reload, DepositDialog!LoadPageData
    <2>3. depositsPage' = [mounted |-> mounted1, sequence |-> number + 1, loading |-> TRUE]
      BY <2>1, <2>2
    <2>4. DepositsPageIs(depositsPage') BY <1>1, <2>1, <2>3 DEF DepositInv, DepositsPageIs
    <2>5. PICK c : c = [sequence |-> depositsPage'.sequence, units |-> {}, records |-> {},
                        saving |-> tied]
      OBVIOUS
    <2>6. depositLoads' = depositLoads \cup {c}
      BY <1>1, <2>5 DEF DepositDialog!Reload, DepositDialog!LoadCall
    <2>7. c.saving = tied /\ \A n, h : DepositLoad(n, h, c)
      BY <2>5 DEF DepositLoad, DepositLists
    <2>8. PICK new : new = {c} OBVIOUS
    <2>9. /\ AtMostOne(new) /\ new # {} /\ depositLoads' = depositLoads \cup new
          /\ \A b \in new : b.saving = tied /\ \A n, h : DepositLoad(n, h, b)
      BY <2>6, <2>7, <2>8 DEF AtMostOne
    <2> QED BY <1>1, <2>4, <2>9
  <1>2. CASE ~depositsPage.mounted
    <2>1. depositLoads' = depositLoads \cup {} /\ depositsPage' = depositsPage
      BY <1>2 DEF DepositDialog!Reload
    <2>2. DepositsPageIs(depositsPage') BY <2>1 DEF DepositInv
    <2> QED BY <1>2, <2>1, <2>2 DEF AtMostOne
  <1> QED BY <1>1, <1>2

\* A contract is signed, moved or removed: none loses a unit that it had.
LEMMA LeasesChange ==
    ASSUME DepositInv, DepositDialog!ContractChanges
    PROVE  SignedAre(had', signed') /\ \A c \in Leases : had[c] \subseteq had'[c]
  <1>1. /\ had \in [Leases -> SUBSET Areas] /\ signed \in [Leases -> SUBSET Areas]
        /\ \A c \in Leases : AtMostOne(signed[c]) /\ signed[c] \subseteq had[c]
    BY DEF DepositInv, SignedAre, LeaseTable
  <1>2. PICK c \in Leases :
          DepositDialog!Sign(c) \/ DepositDialog!Move(c) \/ DepositDialog!Remove(c)
    BY DEF DepositDialog!ContractChanges, Leases
  <1>3. PICK unit \in SUBSET Areas, areas \in SUBSET Areas :
          /\ AtMostOne(unit) /\ unit \subseteq areas /\ had[c] \subseteq areas
          /\ signed' = [signed EXCEPT ![c] = unit] /\ had' = [had EXCEPT ![c] = areas]
    <2>1. CASE DepositDialog!Sign(c)
      <3>1. PICK u \in Areas : /\ had[c] = {} /\ signed' = [signed EXCEPT ![c] = {u}]
                               /\ had' = [had EXCEPT ![c] = signed'[c]]
        BY <2>1 DEF DepositDialog!Sign, Areas
      <3>2. had' = [had EXCEPT ![c] = {u}] BY <1>1, <3>1
      <3>3. {u} \in SUBSET Areas /\ AtMostOne({u}) /\ had[c] \subseteq {u} BY <3>1 DEF AtMostOne
      <3> QED BY <3>1, <3>2, <3>3
    <2>2. CASE DepositDialog!Move(c)
      <3>1. PICK u \in Areas : /\ signed' = [signed EXCEPT ![c] = {u}]
                               /\ had' = [had EXCEPT ![c] = @ \cup signed'[c]]
        BY <2>2 DEF DepositDialog!Move, Areas
      <3>2. PICK areas : areas = had[c] \cup {u} OBVIOUS
      <3>3. had' = [had EXCEPT ![c] = areas] BY <1>1, <3>1, <3>2
      <3>4. areas \in SUBSET Areas /\ had[c] \subseteq areas /\ {u} \subseteq areas
        BY <1>1, <3>2
      <3>5. {u} \in SUBSET Areas /\ AtMostOne({u}) BY DEF AtMostOne
      <3> QED BY <3>1, <3>3, <3>4, <3>5
    <2>3. CASE DepositDialog!Remove(c)
      <3>1. signed' = [signed EXCEPT ![c] = {}] /\ had' = had
        BY <2>3 DEF DepositDialog!Remove
      <3>2. PICK areas : areas = had[c] OBVIOUS
      <3>3. areas \in SUBSET Areas /\ had' = [had EXCEPT ![c] = areas] BY <1>1, <3>1, <3>2
      <3>4. {} \in SUBSET Areas /\ {} \subseteq areas /\ AtMostOne({}) BY DEF AtMostOne
      <3> QED BY <3>1, <3>2, <3>3, <3>4
    <2> QED BY <1>2, <2>1, <2>2, <2>3
  <1>4. \A b \in Leases : /\ signed'[b] = IF b = c THEN unit ELSE signed[b]
                          /\ had'[b] = IF b = c THEN areas ELSE had[b]
    BY <1>1, <1>3
  <1>5. had' \in [Leases -> SUBSET Areas] /\ signed' \in [Leases -> SUBSET Areas]
    BY <1>1, <1>3
  <1> QED BY <1>1, <1>3, <1>4, <1>5 DEF SignedAre, LeaseTable

LEMMA DepositVisitsKeep ==
    ASSUME DepositInv,
           \/ DepositDialog!Refresh \/ DepositDialog!Leave \/ DepositDialog!ConfirmRemove
           \/ DepositDialog!ContractChanges \/ DepositDialog!RemovalFails
    PROVE  DepositInv'
  <1>1. UNCHANGED <<deposits, depositLists, depositForm, save>>
    BY DEF DepositDialog!Refresh, DepositDialog!Leave, DepositDialog!ConfirmRemove,
       DepositDialog!ContractChanges, DepositDialog!RemovalFails, DepositDialog!Server
  <1>2. PICK mounted1, number, loading :
          /\ mounted1 \in BOOLEAN
          /\ depositsPage = [mounted |-> mounted1, sequence |-> number, loading |-> loading]
    BY DEF DepositInv, DepositsPageIs
  <1>3. CASE DepositDialog!Refresh
    <2>1. /\ DepositDialog!Click /\ signed' = signed /\ had' = had
          /\ depositsPage' = [depositsPage EXCEPT !.sequence = @ + 1, !.loading = TRUE]
      BY <1>3 DEF DepositDialog!Refresh, DepositDialog!LoadPageData, DepositDialog!Server
    <2>2. depositsPage' = [mounted |-> mounted1, sequence |-> number + 1, loading |-> TRUE]
      BY <1>2, <2>1
    <2>3. DepositsPageIs(depositsPage') BY <1>2, <2>2 DEF DepositsPageIs
    <2>4. PICK c : c = [sequence |-> depositsPage'.sequence, units |-> {}, records |-> {},
                        saving |-> FALSE]
      OBVIOUS
    <2>5. depositLoads' = depositLoads \cup {c}
      BY <1>3, <2>4 DEF DepositDialog!Refresh, DepositDialog!LoadCall
    <2>6. c.saving = FALSE /\ \A n, h : DepositLoad(n, h, c)
      BY <2>4 DEF DepositLoad, DepositLists
    <2>7. SignedAre(had', signed') BY <2>1 DEF DepositInv
    <2> QED BY <1>1, <2>1, <2>3, <2>5, <2>6, <2>7, DepositClickIs, DepositTurns
  <1>4. DepositsPageIs(depositsPage) /\ SignedAre(had, signed) BY DEF DepositInv
  <1>5. /\ DepositCountsAre(depositCounts)
        /\ depositCounts.clicks \in Nat /\ depositCounts.clicks <= depositCounts.clicks
    BY DEF DepositInv, DepositCountsAre
  <1>6. CASE DepositDialog!Leave
    <2>1. /\ depositsPage' = [depositsPage EXCEPT !.mounted = FALSE, !.sequence = @ + 1]
          /\ UNCHANGED <<signed, had, depositLoads, depositCounts>>
      BY <1>6 DEF DepositDialog!Leave, DepositDialog!Server
    <2>2. depositsPage' = [mounted |-> FALSE, sequence |-> number + 1, loading |-> loading]
      BY <1>2, <2>1
    <2>3. DepositsPageIs(depositsPage') BY <2>2 DEF DepositsPageIs
    <2> QED BY <1>1, <1>4, <1>5, <2>1, <2>3, DepositTurns
  <1>7. CASE DepositDialog!ConfirmRemove
    <2>1. DepositDialog!Click /\ UNCHANGED <<signed, had, depositsPage, depositLoads>>
      BY <1>7 DEF DepositDialog!ConfirmRemove, DepositDialog!Server
    <2> QED BY <1>1, <1>4, <2>1, DepositClickIs, DepositTurns
  <1>8. PICK a, b, c : depositCounts = [clicks |-> a, changes |-> b, faults |-> c] /\ a \in Nat
    BY <1>5 DEF DepositCountsAre
  <1>9. CASE DepositDialog!ContractChanges
    <2>1. /\ depositCounts' = [depositCounts EXCEPT !.changes = @ + 1]
          /\ UNCHANGED <<depositsPage, depositLoads>>
      BY <1>9 DEF DepositDialog!ContractChanges
    <2>2. depositCounts' = [clicks |-> a, changes |-> b + 1, faults |-> c] BY <1>8, <2>1
    <2>3. DepositCountsAre(depositCounts') /\ depositCounts'.clicks = depositCounts.clicks
      BY <1>8, <2>2 DEF DepositCountsAre
    <2>4. SignedAre(had', signed') /\ \A lease \in Leases : had[lease] \subseteq had'[lease]
      BY <1>9, LeasesChange
    <2> QED BY <1>1, <1>4, <1>5, <2>1, <2>3, <2>4, DepositTurns
  <1>10. CASE DepositDialog!RemovalFails
    <2>1. /\ \/ depositCounts' = [depositCounts EXCEPT !.faults = @ + 1]
             \/ depositCounts' = depositCounts
          /\ UNCHANGED <<signed, had, depositsPage, depositLoads>>
      BY <1>10 DEF DepositDialog!RemovalFails, DepositDialog!Fault, DepositDialog!Server
    <2>2. DepositCountsAre(depositCounts') /\ depositCounts'.clicks = depositCounts.clicks
      <3>1. CASE depositCounts' = [depositCounts EXCEPT !.faults = @ + 1]
        <4>1. depositCounts' = [clicks |-> a, changes |-> b, faults |-> c + 1] BY <1>8, <3>1
        <4> QED BY <1>8, <4>1 DEF DepositCountsAre
      <3> QED BY <1>5, <2>1, <3>1
    <2> QED BY <1>1, <1>4, <1>5, <2>1, <2>2, DepositTurns
  <1> QED BY <1>3, <1>6, <1>7, <1>9, <1>10

LEMMA DepositRemovedKeeps == ASSUME DepositInv, DepositDialog!RemovalAnswered PROVE DepositInv'
  <1>1. /\ DepositDialog!Reload(FALSE)
        /\ UNCHANGED <<signed, had, deposits, depositLists, depositForm, save, depositCounts>>
    BY DEF DepositDialog!RemovalAnswered, DepositDialog!Server
  <1>2. DepositsPageIs(depositsPage') BY <1>1, DepositReloadIs
  <1>3. PICK new : /\ depositLoads' = depositLoads \cup new
                   /\ \A c \in new : c.saving = FALSE /\ \A n, h : DepositLoad(n, h, c)
    BY <1>1, DepositReloadIs
  <1>4. /\ DepositCountsAre(depositCounts) /\ SignedAre(had, signed)
        /\ depositCounts.clicks \in Nat /\ depositCounts.clicks <= depositCounts.clicks
    BY DEF DepositInv, DepositCountsAre
  <1> QED BY <1>1, <1>2, <1>3, <1>4, DepositTurns

\* A list is answered by the server.
LEMMA DepositServesKeep ==
    ASSUME DepositInv, DepositDialog!ServeUnits \/ DepositDialog!ServeRecords
    PROVE  DepositInv'
  <1>1. UNCHANGED <<signed, had, deposits, depositLists, depositsPage, depositForm, save,
                    depositCounts>>
    BY DEF DepositDialog!ServeUnits, DepositDialog!ServeRecords, DepositDialog!Server,
       DepositDialog!Browser
  <1>2. PICK n : n = depositCounts.clicks OBVIOUS
  <1>3. PICK c, d :
          /\ c \in depositLoads
          /\ depositLoads' = (depositLoads \ {c}) \cup {d}
          /\ DepositLoad(n, had, d) /\ d.saving = c.saving
    <2>1. ASSUME NEW c \in depositLoads
          PROVE  /\ DepositLoad(n, had, [c EXCEPT !.units = {signed}])
                 /\ [c EXCEPT !.units = {signed}].saving = c.saving
                 /\ DepositLoad(n, had, [c EXCEPT !.records = {deposits}])
                 /\ [c EXCEPT !.records = {deposits}].saving = c.saving
      <3>1. PICK number, areas, tables, tied :
              /\ tied \in BOOLEAN
              /\ c = [sequence |-> number, units |-> areas, records |-> tables, saving |-> tied]
        BY DEF DepositInv, DepositLoad
      <3>2. /\ \A table \in areas : LeaseTable(had, table)
            /\ \A table \in tables : DepositTable(n, had, table)
            /\ LeaseTable(had, signed) /\ DepositTable(n, had, deposits)
        BY <1>2, <3>1 DEF DepositInv, DepositLoad, DepositLists, SignedAre
      <3>3. /\ [c EXCEPT !.units = {signed}] =
                 [sequence |-> number, units |-> {signed}, records |-> tables, saving |-> tied]
            /\ [c EXCEPT !.records = {deposits}] =
                 [sequence |-> number, units |-> areas, records |-> {deposits}, saving |-> tied]
        BY <3>1
      <3> QED BY <3>1, <3>2, <3>3 DEF DepositLoad, DepositLists
    <2>2. CASE DepositDialog!ServeUnits
      <3>1. PICK c \in depositLoads :
              depositLoads' = (depositLoads \ {c}) \cup {[c EXCEPT !.units = {signed}]}
        BY <2>2 DEF DepositDialog!ServeUnits
      <3>2. PICK d : d = [c EXCEPT !.units = {signed}] OBVIOUS
      <3>3. DepositLoad(n, had, d) /\ d.saving = c.saving BY <2>1, <3>2
      <3> QED BY <3>1, <3>2, <3>3
    <2>3. CASE DepositDialog!ServeRecords
      <3>1. PICK c \in depositLoads :
              depositLoads' = (depositLoads \ {c}) \cup {[c EXCEPT !.records = {deposits}]}
        BY <2>3 DEF DepositDialog!ServeRecords
      <3>2. PICK d : d = [c EXCEPT !.records = {deposits}] OBVIOUS
      <3>3. DepositLoad(n, had, d) /\ d.saving = c.saving BY <2>1, <3>2
      <3> QED BY <3>1, <3>2, <3>3
    <2> QED BY <2>2, <2>3
  <1>4. OneDeposit' BY <1>1, <1>3 DEF DepositInv, OneDeposit
  <1> QED BY <1>1, <1>2, <1>3, <1>4 DEF DepositInv

LEMMA DepositServeRemovalKeeps ==
    ASSUME DepositInv, DepositDialog!ServeRemoval PROVE DepositInv'
  <1>1. PICK removed : deposits' = [deposits EXCEPT ![removed] = {}]
    BY DEF DepositDialog!ServeRemoval
  <1>2. UNCHANGED <<signed, had, depositLists, depositsPage, depositForm, save, depositLoads,
                    depositCounts>>
    BY DEF DepositDialog!ServeRemoval, DepositDialog!Browser
  <1>3. PICK n : n = depositCounts.clicks OBVIOUS
  <1>4. DepositTable(n, had, deposits) BY <1>3 DEF DepositInv
  <1>5. /\ deposits' = [d \in Entries |-> deposits'[d]]
        /\ \A d \in Entries : deposits'[d] \subseteq deposits[d]
    BY <1>1, <1>4 DEF DepositTable
  <1>6. DepositTable(n, had, deposits') BY <1>4, <1>5 DEF DepositTable, AtMostOne
  <1>7. \A s \in save : DepositSave(n, had, deposits', depositForm.unit, s)
    BY <1>3, <1>5 DEF DepositInv, DepositSave
  <1>8. OneDeposit' BY <1>2 DEF DepositInv, OneDeposit
  <1> QED BY <1>2, <1>3, <1>6, <1>7, <1>8 DEF DepositInv

\* The lists are shown, or the load fails.
LEMMA DepositListKeeps ==
    ASSUME DepositInv, DepositDialog!LoadAnswered \/ DepositDialog!LoadFails
    PROVE  DepositInv'
  <1>1. PICK c \in depositLoads :
          /\ depositLoads' = depositLoads \ {c}
          /\ \/ depositLists' = [units |-> c.units, records |-> c.records]
             \/ depositLists' = depositLists
          /\ depositsPage' = DepositDialog!Quiet(c)
          /\ depositForm' = DepositDialog!Ended(c)
          /\ \/ depositCounts' = [depositCounts EXCEPT !.faults = @ + 1]
             \/ depositCounts' = depositCounts
          /\ UNCHANGED <<signed, had, deposits, save>>
    BY DEF DepositDialog!LoadAnswered, DepositDialog!LoadFails, DepositDialog!Fault,
       DepositDialog!Server
  <1>2. PICK n : n = depositCounts.clicks OBVIOUS
  <1>3. DepositCountsAre(depositCounts') /\ depositCounts'.clicks = n
    <2>1. PICK a, b, e : depositCounts = [clicks |-> a, changes |-> b, faults |-> e] /\ a \in Nat
      BY DEF DepositInv, DepositCountsAre
    <2>2. CASE depositCounts' = [depositCounts EXCEPT !.faults = @ + 1]
      <3>1. depositCounts' = [clicks |-> a, changes |-> b, faults |-> e + 1] BY <2>1, <2>2
      <3> QED BY <1>2, <2>1, <3>1 DEF DepositCountsAre
    <2> QED BY <1>1, <1>2, <2>2 DEF DepositInv
  <1>4. DepositsPageIs(depositsPage')
    <2>1. PICK mounted1, number, loading :
            /\ mounted1 \in BOOLEAN
            /\ depositsPage = [mounted |-> mounted1, sequence |-> number, loading |-> loading]
      BY DEF DepositInv, DepositsPageIs
    <2>2. \/ depositsPage' = [mounted |-> mounted1, sequence |-> number, loading |-> FALSE]
          \/ depositsPage' = depositsPage
      BY <1>1, <2>1 DEF DepositDialog!Quiet
    <2> QED BY <2>1, <2>2 DEF DepositsPageIs
  <1>5. DepositLoad(n, had, c) BY <1>1, <1>2 DEF DepositInv
  <1>6. DepositLists(n, had, depositLists')
    <2>1. CASE depositLists' = depositLists BY <1>2, <2>1 DEF DepositInv
    <2>2. CASE depositLists' = [units |-> c.units, records |-> c.records]
      <3>1. depositLists'.units = c.units /\ depositLists'.records = c.records BY <2>2
      <3> QED BY <1>5, <3>1 DEF DepositLoad, DepositLists
    <2> QED BY <1>1, <2>1, <2>2
  <1>7. /\ DepositForm(had, depositForm') /\ depositForm'.unit = depositForm.unit
        /\ depositForm'.submitting = (depositForm.submitting /\ ~c.saving)
    <2>1. PICK open, id, unit, contract, picture, submitting :
            /\ depositForm = [open |-> open, id |-> id, unit |-> unit, contract |-> contract,
                              picture |-> picture, submitting |-> submitting]
            /\ submitting \in BOOLEAN
      BY DEF DepositInv, DepositForm
    <2>2. DepositForm(had, depositForm) BY DEF DepositInv
    <2>3. PICK tied \in BOOLEAN : tied = c.saving BY <1>5 DEF DepositLoad
    <2>4. PICK still : still = (submitting /\ ~tied) OBVIOUS
    <2>5. still \in BOOLEAN BY <2>4
    <2>6. depositForm' = [depositForm EXCEPT !.submitting = @ /\ ~tied]
      BY <1>1, <2>3 DEF DepositDialog!Ended
    <2>7. depositForm' = [open |-> open, id |-> id, unit |-> unit, contract |-> contract,
                          picture |-> picture, submitting |-> still]
      BY Zenon, <2>1, <2>4, <2>6
    <2> QED BY <2>1, <2>2, <2>3, <2>4, <2>5, <2>7 DEF DepositForm
  <1>8. c.saving \in BOOLEAN BY <1>5 DEF DepositLoad
  <1>9. OneDeposit' BY <1>1, <1>7, <1>8 DEF DepositInv, OneDeposit
  <1> QED BY <1>1, <1>2, <1>3, <1>4, <1>6, <1>7, <1>9 DEF DepositInv

\* The dialog with its submission begun or ended, open or not.
LEMMA DepositFlagged ==
    ASSUME NEW f, DepositForm(had, f), NEW open \in BOOLEAN, NEW submitting \in BOOLEAN
    PROVE  LET g == [f EXCEPT !.open = open, !.submitting = submitting]
           IN  DepositForm(had, g) /\ g.unit = f.unit /\ g.submitting = submitting
  <1>1. PICK before, id, unit, contract, picture, busy1 :
          f = [open |-> before, id |-> id, unit |-> unit, contract |-> contract,
               picture |-> picture, submitting |-> busy1]
    BY DEF DepositForm
  <1>2. PICK half : half = [f EXCEPT !.open = open] OBVIOUS
  <1>3. half = [open |-> open, id |-> id, unit |-> unit, contract |-> contract,
                picture |-> picture, submitting |-> busy1]
    BY <1>1, <1>2
  <1>4. PICK g : g = [half EXCEPT !.submitting = submitting] OBVIOUS
  <1>5. g = [open |-> open, id |-> id, unit |-> unit, contract |-> contract,
             picture |-> picture, submitting |-> submitting]
    BY <1>3, <1>4
  <1>6. DepositForm(had, g) /\ g.unit = f.unit /\ g.submitting = submitting
    BY <1>1, <1>5 DEF DepositForm
  <1>7. [f EXCEPT !.open = open, !.submitting = submitting] = g BY <1>2, <1>4
  <1> QED BY <1>6, <1>7

LEMMA DepositSaveKeeps == ASSUME DepositInv, DepositDialog!Save PROVE DepositInv'
  <1>1. /\ depositForm.open /\ ~depositForm.submitting /\ DepositDialog!Click
        /\ depositForm' = [depositForm EXCEPT !.submitting = TRUE]
        /\ UNCHANGED <<signed, had, deposits, depositLists, depositsPage, depositLoads>>
    BY DEF DepositDialog!Save, DepositDialog!Server
  <1>2. PICK n \in Nat, m \in Nat :
          n = depositCounts.clicks /\ m = depositCounts'.clicks /\ m = n + 1
    BY <1>1, DepositClickIs
  <1>3. PICK s : /\ save' = save \cup {s}
                 /\ s = [step |-> s.step, id |-> s.id, unit |-> s.unit,
                         contract |-> s.contract, click |-> s.click, answered |-> s.answered]
                 /\ s.unit = depositForm.unit /\ s.contract = depositForm.contract
                 /\ s.click = m /\ s.answered = FALSE
    <2>1. PICK step, id, unit, contract :
            /\ id = depositForm.id /\ unit = depositForm.unit /\ contract = depositForm.contract
            /\ save' = save \cup {[step |-> step, id |-> id, unit |-> unit,
                                   contract |-> contract, click |-> m, answered |-> FALSE]}
      BY <1>2 DEF DepositDialog!Save, DepositDialog!Submission
    <2>2. PICK s : s = [step |-> step, id |-> id, unit |-> unit, contract |-> contract,
                        click |-> m, answered |-> FALSE]
      OBVIOUS
    <2>3. /\ s = [step |-> s.step, id |-> s.id, unit |-> s.unit,
                  contract |-> s.contract, click |-> s.click, answered |-> s.answered]
          /\ s.unit = unit /\ s.contract = contract /\ s.click = m /\ s.answered = FALSE
      BY <2>2
    <2>4. save' = save \cup {s} BY <2>1, <2>2
    <2>5. s.unit = depositForm.unit /\ s.contract = depositForm.contract BY <2>1, <2>3
    <2> QED BY <2>3, <2>4, <2>5
  <1>4. DepositForm(had, depositForm) /\ DepositTable(n, had, deposits) BY <1>2 DEF DepositInv
  <1>5. /\ DepositForm(had, depositForm') /\ depositForm'.unit = depositForm.unit
        /\ depositForm'.submitting = TRUE
    <2>1. PICK open, submitting : open = depositForm.open /\ submitting = TRUE OBVIOUS
    <2>2. open \in BOOLEAN BY <1>4, <2>1 DEF DepositForm
    <2>3. depositForm' = [depositForm EXCEPT !.open = open, !.submitting = submitting]
      BY <1>1, <1>4, <2>1 DEF DepositForm
    <2> QED BY <1>4, <2>1, <2>2, <2>3, DepositFlagged
  <1>6. DepositSave(m, had, deposits, depositForm.unit, s)
    <2>1. \A d \in Entries : \A row \in deposits[d] : row.click # s.click
      <3> SUFFICES ASSUME NEW d \in Entries, NEW row \in deposits[d] PROVE row.click # s.click
        OBVIOUS
      <3>1. row.click \in 0 .. n BY <1>4 DEF DepositTable, IsDeposit
      <3> QED BY <1>2, <1>3, <3>1
    <2>2. UnitOf(had, s.unit, s.contract)
      BY <1>3, <1>4 DEF DepositForm
    <2>3. PICK click : click = s.click /\ click = m BY <1>3
    <2>4. click \in 0 .. m BY <2>3
    <2>5. s.click \in 0 .. m /\ s.answered \in BOOLEAN BY <1>3, <2>3, <2>4
    <2> QED BY <1>3, <2>1, <2>2, <2>5 DEF DepositSave
  <1>7. n <= m BY <1>2
  <1>8. /\ DepositTable(m, had, deposits) /\ DepositLists(m, had, depositLists)
        /\ \A c \in depositLoads : DepositLoad(m, had, c)
    BY <1>2, <1>7, DepositsGrow DEF DepositInv
  <1>9. save = {} /\ \A c \in depositLoads : ~c.saving BY <1>1 DEF DepositInv, OneDeposit
  <1>10. OneDeposit' BY <1>1, <1>3, <1>5, <1>9 DEF OneDeposit, AtMostOne
  <1>11. DepositCountsAre(depositCounts') BY <1>1, DepositClickIs
  <1> QED BY <1>1, <1>2, <1>3, <1>5, <1>6, <1>8, <1>9, <1>10, <1>11 DEF DepositInv

\* The picture is stored, and the record and the contract are read from the dialog.
LEMMA DepositUploadedKeeps == ASSUME DepositInv, DepositDialog!Uploaded PROVE DepositInv'
  <1>1. UNCHANGED <<signed, had, deposits, depositLists, depositsPage, depositForm, depositLoads,
                    depositCounts>>
    BY DEF DepositDialog!Uploaded, DepositDialog!Server, DepositDialog!Browser
  <1>2. PICK n, form, unit : /\ n = depositCounts.clicks /\ form = depositForm
                             /\ unit = depositForm.unit
    OBVIOUS
  <1>3. PICK s \in save :
          save' = (save \ {s}) \cup
                     {[s EXCEPT !.step = "send", !.id = form.id, !.contract = form.contract]}
    BY <1>2 DEF DepositDialog!Uploaded
  <1>4. DepositSave(n, had, deposits, unit, s) BY <1>2 DEF DepositInv
  <1>5. PICK step, id, contract, click, answered :
          s = [step |-> step, id |-> id, unit |-> unit, contract |-> contract,
               click |-> click, answered |-> answered]
    BY <1>4 DEF DepositSave
  <1>6. PICK id1, lease : id1 = form.id /\ lease = form.contract OBVIOUS
  <1>7. PICK first : first = [s EXCEPT !.step = "send"] OBVIOUS
  <1>8. first = [step |-> "send", id |-> id, unit |-> unit, contract |-> contract,
                 click |-> click, answered |-> answered]
    BY <1>5, <1>7
  <1>9. PICK half : half = [first EXCEPT !.id = id1] OBVIOUS
  <1>10. half = [step |-> "send", id |-> id1, unit |-> unit, contract |-> contract,
                 click |-> click, answered |-> answered]
    BY <1>8, <1>9
  <1>11. PICK next : next = [half EXCEPT !.contract = lease] OBVIOUS
  <1>12. next = [step |-> "send", id |-> id1, unit |-> unit, contract |-> lease,
                 click |-> click, answered |-> answered]
    BY <1>10, <1>11
  <1>13. save' = (save \ {s}) \cup {next} BY <1>3, <1>6, <1>7, <1>9, <1>11
  <1>14. UnitOf(had, unit, lease)
    BY <1>2, <1>6 DEF DepositInv, DepositForm
  <1>15. DepositSave(n, had, deposits, unit, next) BY <1>4, <1>5, <1>12, <1>14 DEF DepositSave
  <1>16. OneDeposit' BY <1>1, <1>13 DEF DepositInv, OneDeposit, AtMostOne
  <1> QED BY <1>1, <1>2, <1>13, <1>15, <1>16 DEF DepositInv

\* The deposit is written, under the unit of its contract.
LEMMA DepositServeSaveKeeps == ASSUME DepositInv, DepositDialog!ServeSave PROVE DepositInv'
  <1>1. UNCHANGED <<signed, had, depositLists, depositsPage, depositForm, depositLoads,
                    depositCounts>>
    BY DEF DepositDialog!ServeSave, DepositDialog!Browser
  <1>2. PICK n, unit : n = depositCounts.clicks /\ unit = depositForm.unit OBVIOUS
  <1>3. PICK s, d, c, u :
          /\ s \in save /\ d \in Entries /\ c \in s.contract /\ u \in signed[c] /\ ~s.answered
          /\ deposits' = [deposits EXCEPT ![d] = {DepositDialog!Deposit(c, u, s.click)}]
          /\ save' = (save \ {s}) \cup {[s EXCEPT !.answered = TRUE]}
    BY DEF DepositDialog!ServeSave
  <1>4. DepositSave(n, had, deposits, unit, s) /\ DepositTable(n, had, deposits)
    BY <1>2, <1>3 DEF DepositInv
  <1>5. PICK row : row = [contract |-> c, unit |-> u, click |-> s.click] OBVIOUS
  <1>6. deposits' = [deposits EXCEPT ![d] = {row}]
    BY <1>3, <1>5 DEF DepositDialog!Deposit
  <1>7. c \in Leases /\ s.unit # {} /\ s.unit \subseteq had[c]
    BY <1>3, <1>4 DEF DepositSave, UnitOf
  <1>8. u \in had[c] BY <1>3, <1>7 DEF DepositInv, SignedAre, LeaseTable
  <1>9. IsDeposit(n, had, row) BY <1>4, <1>5, <1>7, <1>8 DEF IsDeposit, DepositSave
  <1>10. /\ deposits' = [e \in Entries |-> deposits'[e]]
        /\ \A e \in Entries : deposits'[e] = IF e = d THEN {row} ELSE deposits[e]
    BY <1>3, <1>4, <1>6 DEF DepositTable
  <1>11. DepositTable(n, had, deposits') BY <1>4, <1>9, <1>10 DEF DepositTable, AtMostOne
  <1>12. PICK step, id, contract, click, answered :
           s = [step |-> step, id |-> id, unit |-> unit, contract |-> contract,
                click |-> click, answered |-> answered]
    BY <1>4 DEF DepositSave
  <1>13. PICK next : next = [s EXCEPT !.answered = TRUE] OBVIOUS
  <1>14. next = [step |-> step, id |-> id, unit |-> unit, contract |-> contract,
                 click |-> click, answered |-> TRUE]
    BY <1>12, <1>13
  <1>15. /\ next.answered = TRUE /\ next.unit = unit /\ next.click = s.click
         /\ next.contract = s.contract /\ s.unit = unit
         /\ next = [step |-> next.step, id |-> next.id, unit |-> next.unit,
                    contract |-> next.contract, click |-> next.click,
                    answered |-> next.answered]
    BY <1>12, <1>14
  <1>16. unit # {} /\ unit \subseteq had[row.contract] BY <1>5, <1>15, <1>7
  <1>17. \A e \in Entries : \A r \in deposits'[e] :
            r.click = s.click => unit # {} /\ unit \subseteq had[r.contract]
    BY <1>3, <1>4, <1>10, <1>15, <1>16 DEF DepositSave
  <1>18. DepositSave(n, had, deposits', unit, next) BY <1>4, <1>15, <1>17 DEF DepositSave
  <1>19. save' = {next} BY <1>3, <1>13 DEF DepositInv, OneDeposit, AtMostOne
  <1>20. OneDeposit' BY <1>1, <1>3, <1>19 DEF DepositInv, OneDeposit, AtMostOne
  <1> QED BY <1>1, <1>2, <1>11, <1>18, <1>19, <1>20 DEF DepositInv

LEMMA DepositSavedKeeps == ASSUME DepositInv, DepositDialog!SaveAnswered PROVE DepositInv'
  <1>1. PICK s \in save :
          /\ save' = save \ {s}
          /\ depositForm' = [depositForm EXCEPT !.open = FALSE,
                                                !.submitting = depositsPage.mounted]
          /\ DepositDialog!Reload(TRUE)
          /\ UNCHANGED <<signed, had, deposits, depositLists, depositCounts>>
    BY DEF DepositDialog!SaveAnswered, DepositDialog!Server
  <1>2. DepositsPageIs(depositsPage') BY <1>1, DepositReloadIs
  <1>3. PICK new : /\ depositLoads' = depositLoads \cup new
                   /\ \A c \in new : c.saving = TRUE /\ \A n, h : DepositLoad(n, h, c)
                   /\ AtMostOne(new) /\ (new # {} <=> depositsPage.mounted)
    BY <1>1, DepositReloadIs
  <1>4. /\ DepositForm(had, depositForm') /\ depositForm'.unit = depositForm.unit
        /\ depositForm'.submitting = depositsPage.mounted
    <2>1. PICK open, submitting : open = FALSE /\ submitting = depositsPage.mounted OBVIOUS
    <2>2. open \in BOOLEAN /\ submitting \in BOOLEAN
      BY <2>1 DEF DepositInv, DepositsPageIs
    <2>3. depositForm' = [depositForm EXCEPT !.open = open, !.submitting = submitting]
      BY <1>1, <2>1
    <2>4. DepositForm(had, depositForm) BY DEF DepositInv
    <2> QED BY <2>1, <2>2, <2>3, <2>4, DepositFlagged
  <1>5. save' = {} /\ \A c \in depositLoads : ~c.saving
    BY <1>1 DEF DepositInv, OneDeposit, AtMostOne
  <1>6. OneDeposit' BY <1>3, <1>4, <1>5 DEF OneDeposit, AtMostOne
  <1> QED BY <1>1, <1>2, <1>3, <1>4, <1>5, <1>6 DEF DepositInv

LEMMA DepositFailsKeeps == ASSUME DepositInv, DepositDialog!SaveFails PROVE DepositInv'
  <1>1. PICK s \in save :
          /\ \/ depositCounts' = [depositCounts EXCEPT !.faults = @ + 1]
             \/ depositCounts' = depositCounts
          /\ save' = save \ {s}
          /\ depositForm' = [depositForm EXCEPT !.submitting = FALSE]
          /\ UNCHANGED <<signed, had, deposits, depositLists, depositsPage, depositLoads>>
    BY DEF DepositDialog!SaveFails, DepositDialog!Fault, DepositDialog!Server
  <1>2. DepositCountsAre(depositCounts') /\ depositCounts'.clicks = depositCounts.clicks
    <2>1. PICK a, b, e : depositCounts = [clicks |-> a, changes |-> b, faults |-> e] /\ a \in Nat
      BY DEF DepositInv, DepositCountsAre
    <2>2. CASE depositCounts' = [depositCounts EXCEPT !.faults = @ + 1]
      <3>1. depositCounts' = [clicks |-> a, changes |-> b, faults |-> e + 1] BY <2>1, <2>2
      <3> QED BY <2>1, <3>1 DEF DepositCountsAre
    <2> QED BY <1>1, <2>2 DEF DepositInv
  <1>3. DepositForm(had, depositForm') /\ depositForm'.submitting = FALSE
    <2>1. DepositForm(had, depositForm) BY DEF DepositInv
    <2>2. PICK open, submitting : open = depositForm.open /\ submitting = FALSE OBVIOUS
    <2>3. open \in BOOLEAN BY <2>1, <2>2 DEF DepositForm
    <2>4. depositForm' = [depositForm EXCEPT !.open = open, !.submitting = submitting]
      BY <1>1, <2>1, <2>2 DEF DepositForm
    <2> QED BY <2>1, <2>2, <2>3, <2>4, DepositFlagged
  <1>4. save' = {} /\ \A c \in depositLoads : ~c.saving
    BY <1>1 DEF DepositInv, OneDeposit, AtMostOne
  <1>5. OneDeposit' BY <1>1, <1>3, <1>4 DEF OneDeposit, AtMostOne
  <1> QED BY <1>1, <1>2, <1>3, <1>4, <1>5 DEF DepositInv

LEMMA DepositNext == ASSUME DepositInv, DepositDialog!Next PROVE DepositInv'
  <1>1. CASE DepositDialog!User
    BY <1>1, DepositVisitsKeep, DepositOpensKeep, DepositFillsKeep, DepositSaveKeeps
       DEF DepositDialog!User
  <1>2. CASE DepositDialog!Served
    BY <1>2, DepositServesKeep, DepositUploadedKeeps, DepositServeSaveKeeps,
       DepositServeRemovalKeeps DEF DepositDialog!Served
  <1>3. CASE DepositDialog!Handled
    BY <1>3, DepositListKeeps, DepositSavedKeeps, DepositRemovedKeeps DEF DepositDialog!Handled
  <1>4. CASE DepositDialog!Failed
    BY <1>4, DepositListKeeps, DepositFailsKeeps, DepositVisitsKeep DEF DepositDialog!Failed
  <1> QED BY <1>1, <1>2, <1>3, <1>4, DepositVisitsKeep DEF DepositDialog!Next

LEMMA DepositsTell ==
    ASSUME DepositInv PROVE DepositDialog!TypeOK /\ DepositDialog!SavedUnderItsUnit
  <1>1. \A S : DepositDialog!Cardinality(S) = Cardinality(S)
    BY Zenon DEF DepositDialog!Cardinality, Cardinality
  <1>2. \A S : AtMostOne(S) => DepositDialog!Cardinality(S) <= 1 BY <1>1, AtMostOneCounts
  <1>3. /\ \A d \in Entries : AtMostOne(deposits[d])
        /\ AtMostOne(depositForm.id) /\ AtMostOne(depositForm.contract) /\ AtMostOne(save)
    BY DEF DepositInv, DepositTable, DepositForm, OneDeposit
  <1>4. /\ signed \in [{"c1", "c2"} -> SUBSET {"u1", "u2"}]
        /\ had \in [{"c1", "c2"} -> SUBSET {"u1", "u2"}]
        /\ \A c \in {"c1", "c2"} : AtMostOne(signed[c]) /\ signed[c] \subseteq had[c]
    BY DEF DepositInv, SignedAre, LeaseTable, Leases, Areas
  <1>5. DepositDialog!TypeOK BY <1>2, <1>3, <1>4 DEF DepositDialog!TypeOK
  <1>6. ASSUME NEW s \in save, s.answered, NEW d \in Entries, NEW row \in deposits[d],
               row.click = s.click
        PROVE  s.unit # {} /\ s.unit \cup {row.unit} \subseteq had[row.contract]
    <2>1. s.unit # {} /\ s.unit \subseteq had[row.contract] BY <1>6 DEF DepositInv, DepositSave
    <2>2. row.unit \in had[row.contract] BY DEF DepositInv, DepositTable, IsDeposit
    <2> QED BY <2>1, <2>2
  <1>7. DepositDialog!SavedUnderItsUnit BY <1>6 DEF DepositDialog!SavedUnderItsUnit
  <1> QED BY <1>5, <1>7

(***************************************************************************)
(* Contracts and units are saved as their forms were submitted, one for    *)
(* each form, a new unit's first contract is on that unit whatever is      *)
(* opened meanwhile, and a deposit is saved under a unit that its contract *)
(* had, as the one that its dialog showed was: under that one, unless the  *)
(* contract was moved (UnitsView.vue, DepositsView.vue).                   *)
(***************************************************************************)
THEOREM FormsAlwaysSavedAsShown == Spec => []SavedAsShown
  <1> DEFINE Inv == /\ part = "patient" => DialogInv
                    /\ part = "hasty" => HastySaves
                    /\ part = "deposits" => DepositInv
  <1>1. Init => Inv BY SavedInit, HastyInit, DepositInit DEF Init
  <1>2. Inv /\ [Next]_vars => Inv'
    <2>1. ASSUME Inv, [Next]_vars, part' = "patient" PROVE DialogInv'
      <3>1. DialogInv BY <2>1 DEF Next, vars
      <3>2. PatientUser!Next \/ UNCHANGED dialogVars BY <2>1 DEF Next, vars
      <3>3. CASE UNCHANGED dialogVars
        BY <3>1, <3>3 DEF dialogVars, DialogInv, SavedRows, SavedDialogs, SavesUnderWay
      <3> QED BY <3>1, <3>2, <3>3, DialogNext
    <2>2. ASSUME Inv, [Next]_vars, part' = "hasty" PROVE HastySaves'
      <3>1. HastySaves BY <2>2 DEF Next, vars
      <3>2. HastyUser!Next \/ UNCHANGED dialogVars BY <2>2 DEF Next, vars
      <3>3. CASE UNCHANGED dialogVars
        BY <3>1, <3>3 DEF dialogVars, HastySaves, HastyUser!FirstContractOnItsUnit
      <3> QED BY <3>1, <3>2, <3>3, HastyNext
    <2>3. ASSUME Inv, [Next]_vars, part' = "deposits" PROVE DepositInv'
      <3>1. DepositInv BY <2>3 DEF Next, vars
      <3>2. DepositDialog!Next \/ UNCHANGED depositsVars BY <2>3 DEF Next, vars
      <3>3. CASE UNCHANGED depositsVars
        BY <3>1, <3>3 DEF depositsVars, DepositInv, OneDeposit
      <3> QED BY <3>1, <3>2, <3>3, DepositNext
    <2> QED BY <2>1, <2>2, <2>3
  <1>3. Inv => SavedAsShown BY DialogTells, DepositsTell DEF SavedAsShown, HastySaves
  <1> QED BY <1>1, <1>2, <1>3, PTL DEF Spec

-----------------------------------------------------------------------------
(* Late answers *)

\* The page of units: the dialog shows the answer of a call there was.
UnitInv ==
    /\ detail = [sequence |-> detail.sequence, unit |-> detail.unit, form |-> detail.form,
                 asOf |-> detail.asOf, by |-> detail.by, visible |-> detail.visible,
                 failed |-> detail.failed]
    /\ detail.sequence \in Nat /\ detail.by \in Nat /\ detail.by <= detail.sequence
    /\ detail.unit # {} => detail.form = detail.unit

\* A request of the page of the reconciliation, and whether it is the last of its kind.
IsCall(c) ==
    /\ c = [kind |-> c.kind, number |-> c.number, query |-> c.query, from |-> c.from,
            answer |-> c.answer]
    /\ c.kind \in Ledger!Kinds /\ c.number \in Nat
    /\ c.kind = "list" => c.query.keyword \subseteq Debtors
    /\ c.kind = "detail" => c.query = [tenant |-> c.query.tenant, year |-> c.query.year]
    /\ c.kind = "download" => c.from = {c.query}

LastCall(numbers, c) == c.number = numbers[c.kind]

LedgerTypes ==
    /\ sequence \in [Ledger!Kinds -> Nat] /\ busy \in [Ledger!Kinds -> BOOLEAN]
    /\ age \in 0 .. LedgerChanges /\ mounted \in BOOLEAN
    /\ AtMostOne(year) /\ AtMostOne(tenant) /\ AtMostOne(ledgers) /\ AtMostOne(ledger)
    /\ options \subseteq Debtors /\ keyword \subseteq Debtors
    /\ \A shows \in ledgers : shows.age \in 0 .. age
    /\ \A shows \in ledger :
          shows.query = [tenant |-> shows.query.tenant, year |-> shows.query.year]

LedgerCalls ==
    /\ \A c \in calls : IsCall(c) /\ c.number <= sequence[c.kind] /\ c.answer \subseteq 0 .. age
    /\ \A b, c \in calls : b.kind = c.kind /\ b.number = c.number => b = c

\* What is shown, and what the last request of each kind may still show.
LedgerCurrent ==
    mounted =>
       /\ \A k \in Ledger!Kinds : busy[k] <=> \E c \in calls : c.kind = k /\ LastCall(sequence, c)
       /\ \A shows \in ledger : tenant = {shows.query.tenant} /\ shows.query.year = year
       /\ \A c \in calls : LastCall(sequence, c) =>
             /\ c.kind = "detail" => tenant = {c.query.tenant} /\ c.query.year = year
             /\ c.kind = "list" => \A a \in c.answer, shows \in ledgers : shows.age <= a

LedgerInv ==
    /\ LedgerTypes /\ LedgerCalls /\ LedgerCurrent
    /\ \A s \in saved : s.from = {s.pdf}

\* A change that was made and for which the list is not asked for again yet.
PaymentsChanged ==
    \/ \E s \in saves : s.step = "send" /\ s.answered
    \/ \E o \in others : o.done

\* Otherwise the list is that of the server, or the last load brings it.
PayCountsAre(n) == n = [clicks |-> n.clicks, faults |-> 0]

PayQuiet ==
    /\ PayCountsAre(paymentCounts)
    /\ \A c \in paymentLoads : c.sequence \in Nat /\ c.sequence <= paymentPage.sequence
    /\ paymentPage.mounted =>
          \/ PaymentsChanged
          \/ /\ \A c \in paymentLoads :
                   c.sequence = paymentPage.sequence => c.answer \subseteq {payments}
             /\ \/ \E c \in paymentLoads : c.sequence = paymentPage.sequence
                \/ paymentList = payments

DepositsChanged == (\E s \in save : s.answered) \/ (\E r \in removals : r.done)

LastLoads == {c \in depositLoads : c.sequence = depositsPage.sequence}

DepositQuiet ==
    /\ depositCounts.changes \in Nat /\ depositCounts.faults = 0
    /\ depositsPage.sequence \in Nat
    /\ \A c \in depositLoads : c.sequence \in Nat /\ c.sequence <= depositsPage.sequence
    /\ \A r \in removals : r = [deposit |-> r.deposit, done |-> r.done]
    /\ depositsPage.mounted =>
          \/ DepositsChanged
          \/ /\ \A c \in LastLoads : c.records \subseteq {deposits}
             /\ LastLoads # {} \/ depositLists.records = {deposits}
    /\ depositsPage.mounted /\ depositCounts.changes = 0 =>
          /\ \A c \in LastLoads : c.units \subseteq {signed}
          /\ LastLoads # {} \/ depositLists.units = {signed}

LEMMA UnitInit == Unit!Init => UnitInv
  BY DEF Unit!Init, UnitInv

\* What a step makes of the dialog of a unit.
DetailStep ==
    \/ UNCHANGED detail
    \/ \E seen : detail' = [detail EXCEPT !.visible = seen]
    \/ detail' = [detail EXCEPT !.sequence = @ + 1]
    \/ detail' = [detail EXCEPT !.failed = TRUE]
    \/ detail' = [detail EXCEPT !.unit = {}, !.visible = FALSE]
    \/ \E u, a, n, seen :
          /\ n = detail.sequence
          /\ detail' = [detail EXCEPT !.unit = u, !.form = u, !.asOf = a, !.by = n,
                                      !.visible = seen, !.failed = FALSE]

LEMMA DetailSteps == ASSUME Unit!Next PROVE DetailStep
  <1>1. CASE Unit!User
    <2>1. CASE \/ Unit!Refresh
               \/ \E p \in 1 .. Unit!LastPage(Unit!Cardinality(ListedUnits), Unit!Min({2})) :
                     Unit!ChangePage(p)
               \/ \E size \in {2} : Unit!ChangePageSize(size)
      BY <2>1 DEF Unit!Refresh, Unit!ChangePage, Unit!ChangePageSize, DetailStep
    <2>2. CASE \E u \in ListedUnits : Unit!OpenDetail(u)
      BY <2>2 DEF Unit!OpenDetail, Unit!Read, DetailStep
    <2>3. CASE Unit!CloseDetail BY <2>3 DEF Unit!CloseDetail, DetailStep
    <2>4. CASE Unit!RefreshDetail BY <2>4 DEF Unit!RefreshDetail, Unit!Read, DetailStep
    <2>5. CASE \/ Unit!SaveUnit \/ Unit!SaveDetailUnit \/ Unit!ConfirmRemoveUnit
               \/ Unit!SaveContract \/ Unit!ConfirmRemoveContract \/ Unit!SaveMeter
               \/ Unit!ConfirmRemoveMeter
      <3>1. \A kind, u : Unit!Write(kind, u) => UNCHANGED detail BY DEF Unit!Write
      <3> QED BY <2>5, <3>1 DEF Unit!SaveUnit, Unit!SaveDetailUnit, Unit!ConfirmRemoveUnit,
            Unit!SaveContract, Unit!ConfirmRemoveContract, Unit!SaveMeter,
            Unit!ConfirmRemoveMeter, Unit!WriteSelected, DetailStep
    <2> QED BY <1>1, <2>1, <2>2, <2>3, <2>4, <2>5 DEF Unit!User
  <1>2. CASE Unit!Backend
    BY <1>2 DEF Unit!Backend, Unit!ServeLoad, Unit!ServeRead, Unit!ServeWrite,
       Unit!SomeoneElse, DetailStep
  <1>3. CASE Unit!LoadAnswered \/ Unit!LoadFails \/ Unit!WriteFails
    BY <1>3 DEF Unit!LoadAnswered, Unit!LoadFails, Unit!WriteFails, DetailStep
  <1>4. CASE Unit!ReadAnswered
    <2>1. PICK c, a :
            detail' = IF c.seq # detail.sequence THEN detail
                      ELSE [detail EXCEPT !.unit = {c.unit}, !.form = {c.unit}, !.asOf = a,
                                   !.by = c.seq, !.visible = @ \/ c.opening, !.failed = FALSE]
      BY <1>4 DEF Unit!ReadAnswered
    <2>2. CASE c.seq # detail.sequence BY <2>1, <2>2 DEF DetailStep
    <2>3. CASE c.seq = detail.sequence
      <3>1. PICK u, n, seen :
              u = {c.unit} /\ n = c.seq /\ seen = (detail.visible \/ c.opening)
        OBVIOUS
      <3>2. detail' = [detail EXCEPT !.unit = u, !.form = u, !.asOf = a, !.by = n,
                                     !.visible = seen, !.failed = FALSE]
        BY Zenon, <2>1, <2>3, <3>1
      <3> QED BY <2>3, <3>1, <3>2 DEF DetailStep
    <2> QED BY <2>2, <2>3
  <1>5. CASE Unit!ReadFails BY <1>5 DEF Unit!ReadFails, DetailStep
  <1>6. CASE Unit!WriteAnswered
    <2>1. PICK w \in writes : Unit!UnitRemoved(w) \/ Unit!UnitSaved(w) \/ Unit!SelectionSaved(w)
      BY <1>6 DEF Unit!WriteAnswered
    <2>2. CASE Unit!UnitRemoved(w) BY <2>2 DEF Unit!UnitRemoved, DetailStep
    <2>3. CASE Unit!UnitSaved(w) BY <2>3 DEF Unit!UnitSaved, DetailStep
    <2>4. CASE Unit!SelectionSaved(w) BY <2>4 DEF Unit!SelectionSaved, Unit!Read, DetailStep
    <2> QED BY <2>1, <2>2, <2>3, <2>4
  <1> QED BY <1>1, <1>2, <1>3, <1>4, <1>5, <1>6 DEF Unit!Next, Unit!Answers

LEMMA UnitNext ==
    ASSUME UnitInv, DetailStep PROVE UnitInv' /\ Unit!DetailGoesOn
  <1>1. PICK n, unit, form, asOf, by, seen, failed :
          /\ n \in Nat /\ by \in Nat /\ by <= n /\ (unit # {} => form = unit)
          /\ detail = [sequence |-> n, unit |-> unit, form |-> form, asOf |-> asOf, by |-> by,
                       visible |-> seen, failed |-> failed]
    BY DEF UnitInv
  <1>2. ASSUME NEW m, NEW unit1, NEW form1, NEW asOf1, NEW by1, NEW seen1, NEW failed1,
               m \in Nat, by1 \in Nat, by1 <= m, unit1 # {} => form1 = unit1, by <= by1,
               detail' = [sequence |-> m, unit |-> unit1, form |-> form1, asOf |-> asOf1,
                          by |-> by1, visible |-> seen1, failed |-> failed1]
        PROVE  UnitInv' /\ Unit!DetailGoesOn
    BY <1>1, <1>2 DEF UnitInv, Unit!DetailGoesOn
  <1>3. CASE UNCHANGED detail BY <1>1, <1>2, <1>3
  <1>4. ASSUME NEW other, detail' = [detail EXCEPT !.visible = other]
        PROVE  UnitInv' /\ Unit!DetailGoesOn
    <2>1. detail' = [sequence |-> n, unit |-> unit, form |-> form, asOf |-> asOf, by |-> by,
                     visible |-> other, failed |-> failed]
      BY <1>1, <1>4
    <2> QED BY <1>1, <1>2, <2>1
  <1>5. CASE detail' = [detail EXCEPT !.sequence = @ + 1]
    <2>1. detail' = [sequence |-> n + 1, unit |-> unit, form |-> form, asOf |-> asOf, by |-> by,
                     visible |-> seen, failed |-> failed]
      BY <1>1, <1>5
    <2>2. n + 1 \in Nat /\ by <= n + 1 /\ by <= by BY <1>1
    <2> QED BY <1>1, <1>2, <2>1, <2>2
  <1>6. CASE detail' = [detail EXCEPT !.failed = TRUE]
    <2>1. detail' = [sequence |-> n, unit |-> unit, form |-> form, asOf |-> asOf, by |-> by,
                     visible |-> seen, failed |-> TRUE]
      BY <1>1, <1>6
    <2> QED BY <1>1, <1>2, <2>1
  <1>7. CASE detail' = [detail EXCEPT !.unit = {}, !.visible = FALSE]
    <2>1. detail' = [sequence |-> n, unit |-> {}, form |-> form, asOf |-> asOf, by |-> by,
                     visible |-> FALSE, failed |-> failed]
      BY <1>1, <1>7
    <2> QED BY <1>1, <1>2, <2>1
  <1>8. CASE \E u, a, number, opens :
                /\ number = detail.sequence
                /\ detail' = [detail EXCEPT !.unit = u, !.form = u, !.asOf = a, !.by = number,
                                            !.visible = opens, !.failed = FALSE]
    <2>1. PICK u, a, number, opens :
            /\ number = detail.sequence
            /\ detail' = [detail EXCEPT !.unit = u, !.form = u, !.asOf = a, !.by = number,
                                        !.visible = opens, !.failed = FALSE]
      BY Zenon, <1>8
    <2>2. PICK half : half = [detail EXCEPT !.unit = u, !.form = u, !.asOf = a] OBVIOUS
    <2>3. half = [sequence |-> n, unit |-> u, form |-> u, asOf |-> a, by |-> by,
                  visible |-> seen, failed |-> failed]
      BY <1>1, <2>2
    <2>4. detail' = [half EXCEPT !.by = number, !.visible = opens, !.failed = FALSE]
      BY <2>1, <2>2
    <2>5. detail' = [sequence |-> n, unit |-> u, form |-> u, asOf |-> a, by |-> number,
                     visible |-> opens, failed |-> FALSE]
      BY <2>3, <2>4
    <2>6. n \in Nat /\ number \in Nat /\ number <= n /\ by <= number BY <1>1, <2>1
    <2> QED BY <1>1, <1>2, <2>5, <2>6
  <1>9. CASE \E other : detail' = [detail EXCEPT !.visible = other] BY <1>4, <1>9
  <1> QED BY Zenon, <1>3, <1>5, <1>6, <1>7, <1>8, <1>9 DEF DetailStep

LEMMA LedgerInit == Ledger!Init => LedgerInv
  <1> SUFFICES ASSUME Ledger!Init PROVE LedgerInv OBVIOUS
  <1>1. /\ age = 0 /\ year = {} /\ keyword = {} /\ tenant = {} /\ ledgers = {}
        /\ options = {} /\ ledger = {} /\ saved = {} /\ mounted = TRUE
        /\ sequence = [k \in Ledger!Kinds |-> IF k = "list" THEN 1 ELSE 0]
        /\ busy = [k \in Ledger!Kinds |-> k = "list"]
    BY DEF Ledger!Init
  <1>2. PICK query : query.keyword = {} /\
          calls = {[kind |-> "list", number |-> 1, query |-> query, from |-> {}, answer |-> {}]}
    <2>1. PICK query : query = [keyword |-> {}, year |-> {}] OBVIOUS
    <2>2. query.keyword = {} BY <2>1
    <2> QED BY <2>1, <2>2 DEF Ledger!Init, Ledger!Unfiltered, Ledger!ListQuery
  <1>3. PICK c : c = [kind |-> "list", number |-> 1, query |-> query, from |-> {}, answer |-> {}]
    OBVIOUS
  <1>4. calls = {c} /\ c.kind = "list" /\ c.number = 1 /\ c.answer = {} BY <1>2, <1>3
  <1>5. IsCall(c) BY <1>2, <1>3 DEF IsCall, Ledger!Kinds
  <1>6. \A k \in Ledger!Kinds : (k = "list") \in BOOLEAN OBVIOUS
  <1>7. busy \in [Ledger!Kinds -> BOOLEAN] BY <1>1, <1>6
  <1>8. 0 \in 0 .. LedgerChanges BY PagesAssumption DEF Ledger!BoundsAssumption
  <1>9. LedgerTypes BY <1>1, <1>7, <1>8 DEF LedgerTypes, AtMostOne
  <1>10. sequence["list"] = 1 BY <1>1 DEF Ledger!Kinds
  <1>11. LedgerCalls BY <1>4, <1>5, <1>10 DEF LedgerCalls
  <1>12. LedgerCurrent
    <2>1. \A k \in Ledger!Kinds : busy[k] <=> k = "list" BY Zenon, <1>1
    <2> QED BY <1>1, <1>4, <1>10, <2>1 DEF LedgerCurrent, LastCall
  <1> QED BY <1>1, <1>9, <1>11, <1>12 DEF LedgerInv

\* A request is made: it is the last of its kind from now on.
LEMMA CallIs ==
    ASSUME LedgerTypes, LedgerCalls, LedgerCurrent, mounted, age' = age,
           NEW kind \in Ledger!Kinds, NEW query, NEW from, Ledger!Call(kind, query, from),
           kind = "list" => query.keyword \subseteq Debtors,
           kind = "detail" => query = [tenant |-> query.tenant, year |-> query.year],
           kind = "download" => from = {query}
    PROVE  /\ LedgerCalls'
           /\ sequence' \in [Ledger!Kinds -> Nat] /\ busy' \in [Ledger!Kinds -> BOOLEAN]
           /\ \A k \in Ledger!Kinds :
                 busy'[k] <=> \E c \in calls' : c.kind = k /\ LastCall(sequence', c)
           /\ \A c \in calls' : LastCall(sequence', c) =>
                 \/ c \in calls /\ c.kind # kind /\ LastCall(sequence, c)
                 \/ c.kind = kind /\ c.query = query /\ c.answer = {}
  <1>1. /\ sequence' = [sequence EXCEPT ![kind] = @ + 1]
        /\ busy' = [busy EXCEPT ![kind] = TRUE]
        /\ sequence \in [Ledger!Kinds -> Nat] /\ busy \in [Ledger!Kinds -> BOOLEAN]
    BY DEF Ledger!Call, LedgerTypes
  <1>2. /\ sequence' \in [Ledger!Kinds -> Nat] /\ busy' \in [Ledger!Kinds -> BOOLEAN]
        /\ sequence'[kind] = sequence[kind] + 1 /\ busy'[kind] = TRUE
        /\ \A k \in Ledger!Kinds \ {kind} : sequence'[k] = sequence[k] /\ busy'[k] = busy[k]
    BY <1>1
  <1>3. PICK n : n = sequence'[kind] OBVIOUS
  <1>4. PICK b : b = [kind |-> kind, number |-> n, query |-> query, from |-> from, answer |-> {}]
    OBVIOUS
  <1>5. calls' = calls \cup {b} BY <1>3, <1>4 DEF Ledger!Call
  <1>6. /\ b.kind = kind /\ b.number = n /\ b.query = query /\ b.from = from /\ b.answer = {}
        /\ b = [kind |-> b.kind, number |-> b.number, query |-> b.query, from |-> b.from,
                answer |-> b.answer]
    BY <1>4
  <1>7. n \in Nat /\ n = sequence[kind] + 1 /\ sequence[kind] \in Nat BY <1>1, <1>2, <1>3
  <1>8. IsCall(b) BY <1>6, <1>7 DEF IsCall
  <1>9. ASSUME NEW c \in calls
        PROVE  /\ c.kind \in Ledger!Kinds /\ c.number \in Nat
               /\ c.number <= sequence[c.kind]
               /\ c.kind = kind => c.number < n /\ c.number # n
    <2>1. IsCall(c) /\ c.number <= sequence[c.kind] BY DEF LedgerCalls
    <2>2. c.kind \in Ledger!Kinds /\ c.number \in Nat BY <2>1 DEF IsCall
    <2>3. ASSUME c.kind = kind PROVE c.number < n /\ c.number # n
      <3>1. c.number <= sequence[kind] BY <2>1, <2>3
      <3> QED BY <1>7, <2>2, <3>1
    <2> QED BY <2>1, <2>2, <2>3
  <1>10. \A c \in calls : c.number <= sequence'[c.kind] BY <1>2, <1>3, <1>7, <1>9
  <1>11. LedgerCalls'
    <2>1. ASSUME NEW c \in calls'
          PROVE  IsCall(c) /\ c.number <= sequence'[c.kind] /\ c.answer \subseteq 0 .. age'
      <3>1. CASE c = b
        <4>1. b.number <= sequence'[b.kind] BY <1>3, <1>6, <1>7
        <4> QED BY <1>6, <1>8, <3>1, <4>1
      <3>2. CASE c # b
        <4>1. c \in calls BY <1>5, <3>2
        <4> QED BY <1>10, <4>1 DEF LedgerCalls
      <3> QED BY <3>1, <3>2
    <2>2. ASSUME NEW c \in calls', NEW d \in calls', c.kind = d.kind, c.number = d.number
          PROVE  c = d
      BY <1>5, <1>6, <1>7, <1>9, <2>2 DEF LedgerCalls
    <2> QED BY <2>1, <2>2 DEF LedgerCalls
  <1>12. \A c \in calls : c.kind # kind => (LastCall(sequence', c) <=> LastCall(sequence, c))
    BY <1>2, <1>9 DEF LastCall
  <1>13. \A c \in calls : c.kind = kind => ~LastCall(sequence', c)
    BY <1>3, <1>9 DEF LastCall
  <1>14. LastCall(sequence', b) BY <1>3, <1>6 DEF LastCall
  <1>15. ASSUME NEW k \in Ledger!Kinds
         PROVE  busy'[k] <=> \E c \in calls' : c.kind = k /\ LastCall(sequence', c)
    <2>1. CASE k = kind BY <1>2, <1>5, <1>6, <1>14, <2>1
    <2>2. CASE k # kind
      <3>1. busy'[k] = busy[k] BY <1>2, <2>2
      <3>2. busy[k] <=> \E c \in calls : c.kind = k /\ LastCall(sequence, c)
        BY DEF LedgerCurrent
      <3>3. (\E c \in calls' : c.kind = k /\ LastCall(sequence', c)) <=>
            (\E c \in calls : c.kind = k /\ LastCall(sequence, c))
        BY <1>5, <1>6, <1>12, <2>2
      <3> QED BY Zenon, <3>1, <3>2, <3>3
    <2> QED BY <2>1, <2>2
  <1>16. \A c \in calls' : LastCall(sequence', c) =>
            \/ c \in calls /\ c.kind # kind /\ LastCall(sequence, c)
            \/ c.kind = kind /\ c.query = query /\ c.answer = {}
    BY <1>5, <1>6, <1>12, <1>13
  <1> QED BY <1>2, <1>11, <1>15, <1>16

\* A request ends; if it was the last of its kind there is none of them left.
LEMMA EndsIs ==
    ASSUME LedgerTypes, LedgerCalls, LedgerCurrent, NEW c \in calls, Ledger!Ends(c)
    PROVE  /\ LedgerCalls' /\ busy' \in [Ledger!Kinds -> BOOLEAN]
           /\ UNCHANGED <<age, year, keyword, tenant, sequence, mounted>>
           /\ mounted => \A k \in Ledger!Kinds :
                 busy'[k] <=> \E b \in calls' : b.kind = k /\ LastCall(sequence, b)
           /\ \A b \in calls' : LastCall(sequence, b) =>
                 b \in calls /\ ~(b.kind = c.kind /\ LastCall(sequence, c))
  <1>1. /\ calls' = calls \ {c}
        /\ busy' = IF mounted /\ c.number = sequence[c.kind]
                   THEN [busy EXCEPT ![c.kind] = FALSE] ELSE busy
        /\ UNCHANGED <<age, year, keyword, tenant, sequence, mounted>>
    BY DEF Ledger!Ends, Ledger!IsLatest, Ledger!Filters
  <1>2. LedgerCalls' BY <1>1 DEF LedgerCalls
  <1>3. c.kind \in Ledger!Kinds BY DEF LedgerCalls, IsCall
  <1>4. busy' \in [Ledger!Kinds -> BOOLEAN] BY <1>1, <1>3 DEF LedgerTypes
  <1>5. \A b \in calls' : LastCall(sequence, b) =>
          b \in calls /\ ~(b.kind = c.kind /\ LastCall(sequence, c))
    BY <1>1 DEF LedgerCalls, LastCall
  <1>6. ASSUME mounted, NEW k \in Ledger!Kinds
        PROVE  busy'[k] <=> \E b \in calls' : b.kind = k /\ LastCall(sequence, b)
    <2>1. busy[k] <=> \E b \in calls : b.kind = k /\ LastCall(sequence, b)
      BY <1>6 DEF LedgerCurrent
    <2>2. CASE k = c.kind /\ LastCall(sequence, c)
      <3>1. busy' = [busy EXCEPT ![c.kind] = FALSE] BY <1>1, <1>6, <2>2 DEF LastCall
      <3>2. ~busy'[k] BY <1>3, <2>2, <3>1 DEF LedgerTypes
      <3> QED BY <1>5, <2>2, <3>2
    <2>3. CASE ~(k = c.kind /\ LastCall(sequence, c))
      <3>1. busy'[k] = busy[k] BY <1>1, <1>3, <2>3 DEF LedgerTypes, LastCall
      <3>2. (\E b \in calls' : b.kind = k /\ LastCall(sequence, b)) <=>
            (\E b \in calls : b.kind = k /\ LastCall(sequence, b))
        BY <1>1, <2>3
      <3> QED BY Zenon, <2>1, <3>1, <3>2
    <2> QED BY <2>2, <2>3
  <1> QED BY <1>1, <1>2, <1>4, <1>5, <1>6

LedgerGoesOn == Ledger!ListGoesOn /\ Ledger!LeftUntouched

LEMMA LedgerKeeps ==
    ASSUME LedgerInv, ledgers' = ledgers, mounted \/ UNCHANGED <<tenant, options, ledger, saved>>
    PROVE  LedgerGoesOn
  <1>1. Ledger!ListGoesOn BY DEF LedgerInv, LedgerTypes, AtMostOne, Ledger!ListGoesOn
  <1>2. Ledger!LeftUntouched BY DEF Ledger!LeftUntouched, Ledger!View
  <1> QED BY <1>1, <1>2 DEF LedgerGoesOn

LEMMA LedgerChoosesKeep ==
    ASSUME LedgerInv, Ledger!ChooseYear \/ Ledger!ChooseTenant
    PROVE  LedgerInv' /\ LedgerGoesOn
  <1> USE DEF LedgerInv
  <1>1. /\ mounted /\ tenant = {}
        /\ UNCHANGED <<age, tenant, ledgers, options, ledger, saved, sequence, busy, calls,
                       mounted>>
        /\ year' = year \/ \E y : year' = {y}
        /\ keyword' = keyword \/ \E t \in options : keyword' = {t}
    BY DEF Ledger!ChooseYear, Ledger!ChooseTenant, Ledger!Click, Ledger!View, Ledger!Rest
  <1>2. LedgerTypes' BY <1>1 DEF LedgerTypes, AtMostOne
  <1>3. LedgerCalls' BY <1>1 DEF LedgerCalls
  <1>4. /\ ledger = {}
        /\ \A c \in calls : LastCall(sequence, c) => c.kind # "detail"
    BY <1>1 DEF LedgerCurrent
  <1>5. LedgerCurrent' BY <1>1, <1>4 DEF LedgerCurrent, LastCall
  <1> QED BY <1>1, <1>2, <1>3, <1>5, LedgerKeeps

LEMMA LedgerListsKeep ==
    ASSUME LedgerInv, Ledger!LoadList \/ Ledger!ResetFilters
    PROVE  LedgerInv' /\ LedgerGoesOn
  <1> USE DEF LedgerInv
  <1>1. PICK query :
          /\ query.keyword \subseteq Debtors
          /\ Ledger!Call("list", query, {})
          /\ year' = year \/ year' = {}
          /\ keyword' = keyword \/ keyword' = {}
    <2>1. PICK one, two : /\ one = Ledger!ListQuery(keyword, year)
                          /\ two = Ledger!ListQuery({}, {})
      OBVIOUS
    <2>2. one.keyword \subseteq Debtors /\ two.keyword \subseteq Debtors
      BY <2>1 DEF Ledger!ListQuery, LedgerTypes
    <2>3. CASE Ledger!LoadList BY <2>1, <2>2, <2>3 DEF Ledger!LoadList, Ledger!Filters
    <2>4. CASE Ledger!ResetFilters
      BY <2>1, <2>2, <2>4 DEF Ledger!ResetFilters, Ledger!Unfiltered
    <2> QED BY <2>3, <2>4
  <1>2. /\ mounted /\ tenant = {}
        /\ UNCHANGED <<age, tenant, ledgers, options, ledger, saved, mounted>>
    BY DEF Ledger!LoadList, Ledger!ResetFilters, Ledger!Click, Ledger!View, Ledger!Rest
  <1>3. "list" \in Ledger!Kinds BY DEF Ledger!Kinds
  <1>4. /\ LedgerCalls'
        /\ sequence' \in [Ledger!Kinds -> Nat] /\ busy' \in [Ledger!Kinds -> BOOLEAN]
        /\ \A k \in Ledger!Kinds :
              busy'[k] <=> \E c \in calls' : c.kind = k /\ LastCall(sequence', c)
        /\ \A c \in calls' : LastCall(sequence', c) =>
              \/ c \in calls /\ c.kind # "list" /\ LastCall(sequence, c)
              \/ c.kind = "list" /\ c.query = query /\ c.answer = {}
    BY <1>1, <1>2, <1>3, CallIs
  <1>5. LedgerTypes' BY <1>1, <1>2, <1>4 DEF LedgerTypes, AtMostOne
  <1>6. ledger = {} /\ \A c \in calls : LastCall(sequence, c) => c.kind # "detail"
    BY <1>2 DEF LedgerCurrent
  <1>7. LedgerCurrent' BY <1>2, <1>4, <1>6 DEF LedgerCurrent
  <1> QED BY <1>2, <1>4, <1>5, <1>7, LedgerKeeps

LEMMA LedgerDetailsKeep ==
    ASSUME LedgerInv, Ledger!OpenDetail \/ Ledger!LoadDetail
    PROVE  LedgerInv' /\ LedgerGoesOn
  <1> USE DEF LedgerInv
  <1>1. PICK t : /\ tenant' = {t} /\ Ledger!Call("detail", [tenant |-> t, year |-> year], {})
                 /\ ledger' = {} \/ (ledger' = ledger /\ tenant = {t})
    <2>1. CASE Ledger!OpenDetail BY <2>1 DEF Ledger!OpenDetail, Ledger!DetailQuery
    <2>2. CASE Ledger!LoadDetail
      BY <2>2 DEF Ledger!LoadDetail, Ledger!DetailQuery, Ledger!View, LedgerTypes, AtMostOne
    <2> QED BY <2>1, <2>2
  <1>2. mounted /\ UNCHANGED <<age, year, keyword, ledgers, options, saved, mounted>>
    BY DEF Ledger!OpenDetail, Ledger!LoadDetail, Ledger!Click, Ledger!View, Ledger!Filters,
       Ledger!Rest
  <1>3. PICK query : query = [tenant |-> t, year |-> year] OBVIOUS
  <1>4. query.tenant = t /\ query.year = year BY <1>3
  <1>5. "detail" \in Ledger!Kinds BY DEF Ledger!Kinds
  <1>6. /\ LedgerCalls'
        /\ sequence' \in [Ledger!Kinds -> Nat] /\ busy' \in [Ledger!Kinds -> BOOLEAN]
        /\ \A k \in Ledger!Kinds :
              busy'[k] <=> \E c \in calls' : c.kind = k /\ LastCall(sequence', c)
        /\ \A c \in calls' : LastCall(sequence', c) =>
              \/ c \in calls /\ c.kind # "detail" /\ LastCall(sequence, c)
              \/ c.kind = "detail" /\ c.query = query /\ c.answer = {}
    BY <1>1, <1>2, <1>3, <1>4, <1>5, CallIs
  <1>7. LedgerTypes' BY <1>1, <1>2, <1>6 DEF LedgerTypes, AtMostOne
  <1>8. LedgerCurrent' BY <1>1, <1>2, <1>4, <1>6 DEF LedgerCurrent
  <1> QED BY <1>2, <1>6, <1>7, <1>8, LedgerKeeps

LEMMA LedgerPdfKeeps ==
    ASSUME LedgerInv, Ledger!DownloadPdf PROVE LedgerInv' /\ LedgerGoesOn
  <1> USE DEF LedgerInv
  <1>1. /\ mounted
        /\ UNCHANGED <<age, year, keyword, tenant, ledgers, options, ledger, saved, mounted>>
    BY DEF Ledger!DownloadPdf, Ledger!Click, Ledger!View, Ledger!Filters, Ledger!Rest
  <1>2. PICK query : Ledger!Call("download", query, {query})
    <2>1. PICK shows \in ledger :
            Ledger!Call("download", [tenant |-> shows.query.tenant, year |-> year], {shows.query})
      BY DEF Ledger!DownloadPdf, Ledger!DetailQuery
    <2>2. shows.query = [tenant |-> shows.query.tenant, year |-> year]
      BY <1>1 DEF LedgerTypes, LedgerCurrent
    <2> QED BY <2>1, <2>2
  <1>3. "download" \in Ledger!Kinds BY DEF Ledger!Kinds
  <1>4. /\ LedgerCalls'
        /\ sequence' \in [Ledger!Kinds -> Nat] /\ busy' \in [Ledger!Kinds -> BOOLEAN]
        /\ \A k \in Ledger!Kinds :
              busy'[k] <=> \E c \in calls' : c.kind = k /\ LastCall(sequence', c)
        /\ \A c \in calls' : LastCall(sequence', c) =>
              \/ c \in calls /\ c.kind # "download" /\ LastCall(sequence, c)
              \/ c.kind = "download" /\ c.query = query /\ c.answer = {}
    BY <1>1, <1>2, <1>3, CallIs
  <1>5. LedgerTypes' BY <1>1, <1>4 DEF LedgerTypes
  <1>6. LedgerCurrent' BY <1>1, <1>4 DEF LedgerCurrent
  <1> QED BY <1>1, <1>4, <1>5, <1>6, LedgerKeeps

LEMMA LedgerLeavesKeep ==
    ASSUME LedgerInv, Ledger!BackToSummary \/ Ledger!Leave
    PROVE  LedgerInv' /\ LedgerGoesOn
  <1> USE DEF LedgerInv
  <1>1. /\ mounted /\ UNCHANGED <<age, year, keyword, ledgers, options, saved, calls>>
        /\ AtMostOne(tenant') /\ ledger' \subseteq ledger
    BY DEF Ledger!BackToSummary, Ledger!Leave, Ledger!Click, Ledger!View, Ledger!Filters,
       Ledger!Rest, LedgerTypes, AtMostOne
  <1>2. /\ \A k \in Ledger!Kinds : sequence[k] \in Nat
        /\ \A c \in calls : /\ c.kind \in Ledger!Kinds /\ c.number \in Nat
                            /\ c.number <= sequence[c.kind]
    BY DEF LedgerTypes, LedgerCalls, IsCall
  <1>3. CASE Ledger!BackToSummary
    <2>1. /\ tenant' = {} /\ ledger' = {} /\ mounted' = mounted
          /\ sequence' = [sequence EXCEPT !["detail"] = @ + 1]
          /\ busy' = [busy EXCEPT !["detail"] = FALSE]
      BY <1>3 DEF Ledger!BackToSummary, Ledger!Rest
    <2>2. /\ sequence' \in [Ledger!Kinds -> Nat] /\ busy' \in [Ledger!Kinds -> BOOLEAN]
          /\ sequence'["detail"] = sequence["detail"] + 1 /\ ~busy'["detail"]
          /\ \A k \in Ledger!Kinds \ {"detail"} : sequence'[k] = sequence[k] /\ busy'[k] = busy[k]
      BY <2>1 DEF LedgerTypes, Ledger!Kinds
    <2>3. "detail" \in Ledger!Kinds BY DEF Ledger!Kinds
    <2>4. ASSUME NEW c \in calls
          PROVE  /\ c.number <= sequence'[c.kind]
                 /\ c.kind = "detail" => ~LastCall(sequence', c)
                 /\ c.kind # "detail" => (LastCall(sequence', c) <=> LastCall(sequence, c))
      <3>1. CASE c.kind = "detail"
        <4>1. c.number <= sequence["detail"] /\ c.number \in Nat /\ sequence["detail"] \in Nat
          BY <1>2, <2>3, <3>1
        <4>2. c.number < sequence'["detail"] /\ c.number # sequence'["detail"]
          BY <2>2, <4>1
        <4> QED BY <3>1, <4>1, <4>2, <2>2 DEF LastCall
      <3>2. CASE c.kind # "detail"
        <4>1. sequence'[c.kind] = sequence[c.kind] BY <1>2, <2>2, <3>2
        <4> QED BY <1>2, <3>2, <4>1 DEF LastCall
      <3> QED BY <3>1, <3>2
    <2>5. LedgerTypes' BY <1>1, <2>1, <2>2 DEF LedgerTypes, AtMostOne
    <2>6. LedgerCalls' BY <1>1, <2>4 DEF LedgerCalls
    <2>7. LedgerCurrent'
      <3>1. ASSUME NEW k \in Ledger!Kinds
            PROVE  busy'[k] <=> \E c \in calls' : c.kind = k /\ LastCall(sequence', c)
        <4>1. CASE k = "detail" BY <1>1, <2>2, <2>4, <4>1
        <4>2. CASE k # "detail"
          <5>1. busy[k] <=> \E c \in calls : c.kind = k /\ LastCall(sequence, c)
            BY <1>1 DEF LedgerCurrent
          <5>2. busy'[k] = busy[k] BY <2>2, <4>2
          <5>3. (\E c \in calls' : c.kind = k /\ LastCall(sequence', c)) <=>
                (\E c \in calls : c.kind = k /\ LastCall(sequence, c))
            BY <1>1, <2>4, <4>2
          <5> QED BY Zenon, <5>1, <5>2, <5>3
        <4> QED BY <4>1, <4>2
      <3> QED BY <1>1, <2>1, <2>4, <3>1 DEF LedgerCurrent
    <2> QED BY <1>1, <2>5, <2>6, <2>7, LedgerKeeps
  <1>4. CASE Ledger!Leave
    <2>1. /\ mounted' = FALSE /\ sequence' = [k \in Ledger!Kinds |-> sequence[k] + 1]
          /\ UNCHANGED <<tenant, ledger, busy>>
      BY <1>4 DEF Ledger!Leave, Ledger!View
    <2>2. sequence' \in [Ledger!Kinds -> Nat] BY <1>2, <2>1
    <2>3. \A c \in calls : c.number <= sequence'[c.kind] BY <1>2, <2>1
    <2>4. LedgerTypes' BY <1>1, <2>1, <2>2 DEF LedgerTypes
    <2>5. LedgerCalls' BY <1>1, <2>3 DEF LedgerCalls
    <2>6. LedgerCurrent' BY <2>1 DEF LedgerCurrent
    <2> QED BY <1>1, <2>4, <2>5, <2>6, LedgerKeeps
  <1> QED BY <1>3, <1>4

LEMMA LedgerServesKeep ==
    ASSUME LedgerInv, Ledger!Changes \/ Ledger!Serve
    PROVE  LedgerInv' /\ LedgerGoesOn
  <1> USE DEF LedgerInv
  <1>1. UNCHANGED <<year, keyword, tenant, ledgers, options, ledger, saved, sequence, busy,
                    mounted>>
    BY DEF Ledger!Changes, Ledger!Serve, Ledger!View, Ledger!Filters
  <1>2. age \in Nat /\ age \in 0 .. LedgerChanges /\ LedgerChanges \in Nat
    BY PagesAssumption DEF LedgerTypes, Ledger!BoundsAssumption
  <1>3. CASE Ledger!Changes
    <2>1. age < LedgerChanges /\ age' = age + 1 /\ calls' = calls
      BY <1>3 DEF Ledger!Changes
    <2>2. age' \in 0 .. LedgerChanges /\ 0 .. age \subseteq 0 .. age' BY <1>2, <2>1
    <2>3. LedgerTypes' BY <1>1, <2>2 DEF LedgerTypes
    <2>4. LedgerCalls' BY <1>1, <2>1, <2>2 DEF LedgerCalls
    <2>5. LedgerCurrent' BY <1>1, <2>1 DEF LedgerCurrent
    <2> QED BY <1>1, <2>3, <2>4, <2>5, LedgerKeeps
  <1>4. CASE Ledger!Serve
    <2>1. PICK c \in calls : /\ calls' = (calls \ {c}) \cup {[c EXCEPT !.answer = {age}]}
                             /\ age' = age
      BY <1>4 DEF Ledger!Serve
    <2>2. PICK d : d = [c EXCEPT !.answer = {age}] OBVIOUS
    <2>3. /\ d = [kind |-> d.kind, number |-> d.number, query |-> d.query, from |-> d.from,
                  answer |-> d.answer]
          /\ d.kind = c.kind /\ d.number = c.number /\ d.query = c.query /\ d.from = c.from
          /\ d.answer = {age}
      <3>1. c = [kind |-> c.kind, number |-> c.number, query |-> c.query, from |-> c.from,
                 answer |-> c.answer]
        BY Zenon DEF LedgerCalls, IsCall
      <3>2. PICK kind, number, query, from, answer :
              c = [kind |-> kind, number |-> number, query |-> query, from |-> from,
                   answer |-> answer]
        BY Zenon, <3>1
      <3>3. d = [kind |-> kind, number |-> number, query |-> query, from |-> from,
                 answer |-> {age}]
        BY <2>2, <3>2
      <3> QED BY <3>2, <3>3
    <2>4. calls' = (calls \ {c}) \cup {d} BY <2>1, <2>2
    <2>5. IsCall(d)
      <3>1. IsCall(c) BY DEF LedgerCalls
      <3> QED BY <2>3, <3>1 DEF IsCall
    <2>6. d.answer \subseteq 0 .. age /\ d.number <= sequence[d.kind]
      BY <1>2, <2>3 DEF LedgerCalls
    <2>7. LedgerCalls'
      <3>1. \A b \in calls' :
              IsCall(b) /\ b.number <= sequence[b.kind] /\ b.answer \subseteq 0 .. age
        BY <2>4, <2>5, <2>6 DEF LedgerCalls
      <3>2. \A b, e \in calls' : b.kind = e.kind /\ b.number = e.number => b = e
        BY <2>3, <2>4 DEF LedgerCalls
      <3> QED BY <1>1, <2>1, <3>1, <3>2 DEF LedgerCalls
    <2>8. LedgerTypes' BY <1>1, <2>1 DEF LedgerTypes
    <2>9. LedgerCurrent'
      <3> SUFFICES ASSUME mounted PROVE LedgerCurrent' BY <1>1 DEF LedgerCurrent
      <3>1. LastCall(sequence, c) <=> LastCall(sequence, d) BY <2>3 DEF LastCall
      <3>2. ASSUME NEW k \in Ledger!Kinds
            PROVE  busy[k] <=> \E b \in calls' : b.kind = k /\ LastCall(sequence, b)
        <4>1. busy[k] <=> \E b \in calls : b.kind = k /\ LastCall(sequence, b)
          BY DEF LedgerCurrent
        <4>2. (\E b \in calls' : b.kind = k /\ LastCall(sequence, b)) <=>
              (\E b \in calls : b.kind = k /\ LastCall(sequence, b))
          BY <2>3, <2>4, <3>1
        <4> QED BY Zenon, <4>1, <4>2
      <3>3. \A shows \in ledgers : shows.age <= age BY <1>2 DEF LedgerTypes
      <3>4. LastCall(sequence, d) =>
              /\ d.kind = "detail" => tenant = {d.query.tenant} /\ d.query.year = year
              /\ d.kind = "list" => \A a \in d.answer, shows \in ledgers : shows.age <= a
        BY <2>3, <3>1, <3>3 DEF LedgerCurrent
      <3>5. \A b \in calls' : LastCall(sequence, b) =>
              /\ b.kind = "detail" => tenant = {b.query.tenant} /\ b.query.year = year
              /\ b.kind = "list" => \A a \in b.answer, shows \in ledgers : shows.age <= a
        BY <2>4, <3>4 DEF LedgerCurrent
      <3> QED BY <1>1, <3>2, <3>5 DEF LedgerCurrent
    <2> QED BY <1>1, <2>7, <2>8, <2>9, LedgerKeeps
  <1> QED BY <1>3, <1>4

\* What is left to show of a request that ended.
LEMMA AnswersKeep ==
    ASSUME LedgerInv, NEW c \in calls, Ledger!Ends(c),
           ~(mounted /\ LastCall(sequence, c)) => UNCHANGED <<ledgers, options, ledger, saved>>,
           options' \subseteq Debtors, AtMostOne(ledgers'), AtMostOne(ledger'),
           \A s \in saved' : s.from = {s.pdf},
           \/ ledgers' = ledgers \/ ledgers' = {}
           \/ c.kind = "list" /\ \E shows : \E a \in c.answer : ledgers' = {shows} /\ shows.age = a,
           \/ ledger' = ledger \/ ledger' = {}
           \/ c.kind = "detail" /\ \E shows : ledger' = {shows} /\ shows.query = c.query
    PROVE  LedgerInv' /\ LedgerGoesOn
  <1> USE DEF LedgerInv
  <1>1. /\ LedgerCalls' /\ busy' \in [Ledger!Kinds -> BOOLEAN]
        /\ UNCHANGED <<age, year, keyword, tenant, sequence, mounted>>
        /\ mounted => \A k \in Ledger!Kinds :
              busy'[k] <=> \E b \in calls' : b.kind = k /\ LastCall(sequence, b)
        /\ \A b \in calls' : LastCall(sequence, b) =>
              b \in calls /\ ~(b.kind = c.kind /\ LastCall(sequence, c))
    BY EndsIs
  <1>2. IsCall(c) /\ c.answer \subseteq 0 .. age BY DEF LedgerCalls
  <1>3. /\ \A shows \in ledgers' : shows.age \in 0 .. age
        /\ \A shows \in ledger' :
              shows.query = [tenant |-> shows.query.tenant, year |-> shows.query.year]
    <2>1. \A shows \in ledgers' : shows.age \in 0 .. age BY <1>2 DEF LedgerTypes
    <2>2. ASSUME NEW shows \in ledger'
          PROVE  shows.query = [tenant |-> shows.query.tenant, year |-> shows.query.year]
      <3>1. CASE shows \in ledger BY <3>1 DEF LedgerTypes
      <3>2. CASE shows \notin ledger
        <4>1. c.kind = "detail" /\ shows.query = c.query BY <3>2
        <4>2. c.query = [tenant |-> c.query.tenant, year |-> c.query.year]
          BY Zenon, <1>2, <4>1 DEF IsCall
        <4> QED BY <4>1, <4>2
      <3> QED BY <3>1, <3>2
    <2> QED BY <2>1, <2>2
  <1>4. LedgerTypes' BY <1>1, <1>3 DEF LedgerTypes
  <1>5. ASSUME mounted, LastCall(sequence, c), c.kind = "list", NEW a \in c.answer
        PROVE  \A shows \in ledgers : shows.age <= a
    BY <1>5 DEF LedgerCurrent
  <1>6. LedgerCurrent'
    <2> SUFFICES ASSUME mounted PROVE LedgerCurrent' BY <1>1 DEF LedgerCurrent
    <2>1. ASSUME NEW shows \in ledger'
          PROVE  tenant = {shows.query.tenant} /\ shows.query.year = year
      <3>1. CASE shows \in ledger BY <3>1 DEF LedgerCurrent
      <3>2. CASE shows \notin ledger
        <4>1. c.kind = "detail" /\ shows.query = c.query /\ LastCall(sequence, c) BY <3>2
        <4> QED BY <4>1 DEF LedgerCurrent
      <3> QED BY <3>1, <3>2
    <2>2. ASSUME NEW b \in calls', LastCall(sequence, b)
          PROVE  /\ b.kind = "detail" => tenant = {b.query.tenant} /\ b.query.year = year
                 /\ b.kind = "list" => \A a \in b.answer, shows \in ledgers' : shows.age <= a
      <3>1. b \in calls /\ ~(b.kind = c.kind /\ LastCall(sequence, c)) BY <1>1, <2>2
      <3>2. b.kind = "list" => ledgers' = ledgers \/ ledgers' = {} BY <3>1
      <3> QED BY <2>2, <3>1, <3>2 DEF LedgerCurrent
    <2> QED BY <1>1, <2>1, <2>2 DEF LedgerCurrent
  <1>7. Ledger!ListGoesOn
    <2>1. ASSUME NEW old \in ledgers, NEW new \in ledgers', new # old PROVE new.age >= old.age
      <3>1. ledgers = {old} BY DEF LedgerTypes, AtMostOne
      <3>2. PICK a \in c.answer : new.age = a /\ c.kind = "list" /\ ledgers' # ledgers
        BY <2>1, <3>1
      <3>3. mounted /\ LastCall(sequence, c) BY <3>2
      <3>4. old.age <= a BY <1>5, <3>2, <3>3
      <3>5. a \in Nat /\ old.age \in Nat BY <1>2 DEF LedgerTypes
      <3> QED BY <3>2, <3>4, <3>5
    <2> QED BY <2>1 DEF Ledger!ListGoesOn
  <1>8. Ledger!LeftUntouched BY <1>1 DEF Ledger!LeftUntouched, Ledger!View
  <1> QED BY <1>1, <1>4, <1>6, <1>7, <1>8 DEF LedgerGoesOn

LEMMA LedgerAnswersKeep ==
    ASSUME LedgerInv,
           \/ Ledger!ListAnswered \/ Ledger!DetailAnswered \/ Ledger!DownloadAnswered
           \/ Ledger!Fails
    PROVE  LedgerInv' /\ LedgerGoesOn
  <1>1. /\ options \subseteq Debtors /\ AtMostOne(ledgers) /\ AtMostOne(ledger)
        /\ \A s \in saved : s.from = {s.pdf}
        /\ \A c \in calls : IsCall(c)
        /\ \A e : AtMostOne({e})
        /\ AtMostOne({})
    BY DEF LedgerInv, LedgerTypes, LedgerCalls, AtMostOne
  <1>2. CASE Ledger!ListAnswered
    <2>0. PICK c \in calls : \E a \in c.answer :
            /\ c.kind = "list" /\ Ledger!Ends(c) /\ UNCHANGED <<ledger, saved>>
            /\ \/ /\ mounted /\ LastCall(sequence, c)
                  /\ ledgers' = {[query |-> c.query, age |-> a, tenants |-> Ledger!Listed(c.query)]}
                  /\ options' = Ledger!Listed(c.query) \/ options' = options
               \/ UNCHANGED <<ledgers, options>>
      BY <1>2 DEF Ledger!ListAnswered, Ledger!IsLatest, LastCall
    <2>1. PICK a \in c.answer :
            /\ c.kind = "list" /\ Ledger!Ends(c) /\ UNCHANGED <<ledger, saved>>
            /\ \/ /\ mounted /\ LastCall(sequence, c)
                  /\ ledgers' = {[query |-> c.query, age |-> a, tenants |-> Ledger!Listed(c.query)]}
                  /\ options' = Ledger!Listed(c.query) \/ options' = options
               \/ UNCHANGED <<ledgers, options>>
      BY <2>0
    <2>2. PICK shows :
            shows = [query |-> c.query, age |-> a, tenants |-> Ledger!Listed(c.query)]
      OBVIOUS
    <2>3. shows.age = a BY <2>2
    <2>4. Ledger!Listed(c.query) \subseteq Debtors
      <3>1. c.query.keyword \subseteq Debtors BY <1>1, <2>1 DEF IsCall
      <3> QED BY <3>1 DEF Ledger!Listed
    <2>5. ledgers' = ledgers \/ ledgers' = {shows} BY <2>1, <2>2
    <2>6. options' \subseteq Debtors /\ AtMostOne(ledgers') /\ AtMostOne(ledger')
          /\ \A s \in saved' : s.from = {s.pdf}
      BY <1>1, <2>1, <2>4, <2>5
    <2>7. ~(mounted /\ LastCall(sequence, c)) => UNCHANGED <<ledgers, options, ledger, saved>>
      BY <2>1
    <2>8. ledgers' = ledgers \/ \E s : \E b \in c.answer : ledgers' = {s} /\ s.age = b
      BY <2>3, <2>5
    <2> QED BY <2>1, <2>6, <2>7, <2>8, AnswersKeep
  <1>3. CASE Ledger!DetailAnswered
    <2>0. PICK c \in calls : \E a \in c.answer :
            /\ c.kind = "detail" /\ Ledger!Ends(c) /\ UNCHANGED <<ledgers, options, saved>>
            /\ \/ /\ mounted /\ LastCall(sequence, c)
                  /\ ledger' = {[query |-> c.query, age |-> a]}
               \/ ledger' = ledger
      BY <1>3 DEF Ledger!DetailAnswered, Ledger!IsLatest, LastCall
    <2>1. PICK a \in c.answer :
            /\ c.kind = "detail" /\ Ledger!Ends(c) /\ UNCHANGED <<ledgers, options, saved>>
            /\ \/ /\ mounted /\ LastCall(sequence, c)
                  /\ ledger' = {[query |-> c.query, age |-> a]}
               \/ ledger' = ledger
      BY <2>0
    <2>2. PICK shows : shows = [query |-> c.query, age |-> a] OBVIOUS
    <2>3. shows.query = c.query BY <2>2
    <2>4. ledger' = ledger \/ ledger' = {shows} BY <2>1, <2>2
    <2>5. options' \subseteq Debtors /\ AtMostOne(ledgers') /\ AtMostOne(ledger')
          /\ \A s \in saved' : s.from = {s.pdf}
      BY <1>1, <2>1, <2>4
    <2>6. ~(mounted /\ LastCall(sequence, c)) => UNCHANGED <<ledgers, options, ledger, saved>>
      BY <2>1
    <2> QED BY <2>1, <2>3, <2>4, <2>5, <2>6, AnswersKeep
  <1>4. CASE Ledger!DownloadAnswered
    <2>1. PICK c \in calls :
            /\ c.kind = "download" /\ Ledger!Ends(c) /\ UNCHANGED <<ledgers, options, ledger>>
            /\ \/ /\ mounted /\ LastCall(sequence, c)
                  /\ saved' = saved \cup {[pdf |-> c.query, from |-> c.from]}
               \/ saved' = saved
      BY <1>4 DEF Ledger!DownloadAnswered, Ledger!IsLatest, LastCall
    <2>2. c.from = {c.query} BY <1>1, <2>1 DEF IsCall
    <2>3. \A s \in saved' : s.from = {s.pdf} BY <1>1, <2>1, <2>2
    <2> QED BY <1>1, <2>1, <2>3, AnswersKeep
  <1>5. CASE Ledger!Fails
    <2>1. PICK c \in calls :
            /\ Ledger!Ends(c) /\ UNCHANGED <<options, saved>>
            /\ ledgers' = ledgers \/ ledgers' = {}
            /\ ledger' = ledger \/ ledger' = {}
            /\ ~(mounted /\ LastCall(sequence, c)) => UNCHANGED <<ledgers, ledger>>
      BY <1>5 DEF Ledger!Fails, Ledger!IsLatest, LastCall
    <2>2. AtMostOne(ledgers') /\ AtMostOne(ledger') BY <1>1, <2>1
    <2> QED BY <1>1, <2>1, <2>2, AnswersKeep
  <1> QED BY <1>2, <1>3, <1>4, <1>5

\* Every step keeps the invariant and the list young; what the page tells of itself follows.
LEMMA LedgerNext ==
    ASSUME LedgerInv, [Ledger!Next]_ledgerVars PROVE LedgerInv' /\ LedgerGoesOn
  <1>1. CASE Ledger!Next
    BY <1>1, LedgerChoosesKeep, LedgerListsKeep, LedgerDetailsKeep, LedgerPdfKeeps,
       LedgerLeavesKeep, LedgerServesKeep, LedgerAnswersKeep
       DEF Ledger!Next, Ledger!User
  <1>2. CASE UNCHANGED ledgerVars
    <2>1. UNCHANGED <<age, year, keyword, tenant, ledgers, options, ledger, saved, sequence, busy,
                      calls, mounted>>
      BY <1>2 DEF ledgerVars
    <2>2. LedgerTypes' BY <2>1 DEF LedgerInv, LedgerTypes, AtMostOne
    <2>3. LedgerCalls' BY <2>1 DEF LedgerInv, LedgerCalls
    <2>4. LedgerCurrent' BY <2>1 DEF LedgerInv, LedgerCurrent, LastCall
    <2> QED BY <2>1, <2>2, <2>3, <2>4, LedgerKeeps DEF LedgerInv
  <1> QED BY <1>1, <1>2

LEMMA LedgerTells ==
    LedgerInv => Ledger!TypeOK /\ Ledger!DetailIsOfSelected /\ Ledger!PdfIsOfDetail
  <1> SUFFICES ASSUME LedgerInv
               PROVE  Ledger!TypeOK /\ Ledger!DetailIsOfSelected /\ Ledger!PdfIsOfDetail
    OBVIOUS
  <1> USE DEF LedgerInv
  <1>1. /\ Ledger!Cardinality(year) <= 1 /\ Ledger!Cardinality(tenant) <= 1
        /\ Ledger!Cardinality(ledgers) <= 1 /\ Ledger!Cardinality(ledger) <= 1
    <2>1. /\ Cardinality(year) <= 1 /\ Cardinality(tenant) <= 1
          /\ Cardinality(ledgers) <= 1 /\ Cardinality(ledger) <= 1
      BY AtMostOneCounts DEF LedgerTypes
    <2>2. \A S : Ledger!Cardinality(S) = Cardinality(S) BY Zenon DEF Ledger!Cardinality, Cardinality
    <2> QED BY <2>1, <2>2
  <1>2. mounted => \A k \in Ledger!Kinds :
          busy[k] <=> \E c \in calls : c.kind = k /\ c.number = sequence[k]
    BY DEF LedgerCurrent, LastCall
  <1>3. Ledger!TypeOK BY <1>1, <1>2 DEF LedgerTypes, Ledger!TypeOK
  <1>4. Ledger!DetailIsOfSelected BY DEF LedgerCurrent, Ledger!DetailIsOfSelected
  <1>5. Ledger!PdfIsOfDetail BY DEF Ledger!PdfIsOfDetail
  <1> QED BY <1>3, <1>4, <1>5

LEMMA PayQuietInit == Received!Init => PayQuiet
  <1> SUFFICES ASSUME Received!Init PROVE PayQuiet OBVIOUS
  <1>1. /\ paymentCounts = [clicks |-> 0, faults |-> 0]
        /\ paymentPage.sequence = 1
        /\ paymentLoads = {[sequence |-> 1, answer |-> {}, saving |-> FALSE]}
    BY DEF Received!Init, Received!LoadCall
  <1>2. PayCountsAre(paymentCounts) BY <1>1 DEF PayCountsAre
  <1> QED BY <1>1, <1>2 DEF PayQuiet

\* No request fails, as no fault is allowed.
LEMMA PayClickIs ==
    ASSUME PayQuiet
    PROVE  /\ ~Received!Fault
           /\ Received!Click => PayCountsAre(paymentCounts') /\ paymentPage.mounted
           /\ UNCHANGED paymentCounts => PayCountsAre(paymentCounts')
  <1>1. paymentCounts = [clicks |-> paymentCounts.clicks, faults |-> 0]
    BY DEF PayQuiet, PayCountsAre
  <1>2. paymentCounts.faults = 0 BY <1>1
  <1>3. ~Received!Fault BY <1>2 DEF Received!Fault
  <1>4. ASSUME Received!Click PROVE PayCountsAre(paymentCounts') /\ paymentPage.mounted
    <2>1. PICK n, m : /\ paymentCounts = [clicks |-> n, faults |-> 0]
                      /\ m = n + 1
      BY <1>1
    <2>2. paymentCounts' = [paymentCounts EXCEPT !.clicks = m]
      BY <1>4, <2>1 DEF Received!Click
    <2>3. paymentCounts' = [clicks |-> m, faults |-> 0] BY <2>1, <2>2
    <2>4. m = paymentCounts'.clicks BY <2>3
    <2>5. PayCountsAre(paymentCounts') BY Zenon, <2>3, <2>4 DEF PayCountsAre
    <2> QED BY <1>4, <2>5 DEF Received!Click
  <1> QED BY <1>1, <1>3, <1>4 DEF PayCountsAre

\* A step that leaves the list and its loads alone, and no change without its answer.
LEMMA PayStill ==
    ASSUME PayQuiet, PayCountsAre(paymentCounts'),
           UNCHANGED <<paymentList, paymentPage, paymentLoads>>,
           PaymentsChanged' \/ (UNCHANGED payments /\ ~PaymentsChanged)
    PROVE  PayQuiet'
  BY DEF PayQuiet

LEMMA PayAsks ==
    ASSUME PayInv, PayQuiet, PayCountsAre(paymentCounts'), NEW tied,
           paymentPage' = Received!LoadPageData(paymentPage),
           paymentLoads' = paymentLoads \cup Received!LoadCall(paymentPage', tied)
    PROVE  PayQuiet'
  <1>1. paymentPage.sequence \in Nat /\ paymentPage'.sequence = paymentPage.sequence + 1
    BY DEF PayInv, PayTypes, Received!LoadPageData
  <1>2. PICK n : n = paymentPage'.sequence OBVIOUS
  <1>3. PICK c : c = [sequence |-> n, answer |-> {}, saving |-> tied] OBVIOUS
  <1>4. c.sequence = n /\ c.answer = {} BY <1>3
  <1>5. paymentLoads' = paymentLoads \cup {c} BY <1>2, <1>3 DEF Received!LoadCall
  <1>6. \A b \in paymentLoads : b.sequence \in Nat /\ b.sequence < n BY <1>1, <1>2 DEF PayQuiet
  <1>7. n \in Nat BY <1>1, <1>2
  <1>8. \A b \in paymentLoads' : b.sequence \in Nat /\ b.sequence <= n BY <1>4, <1>5, <1>6, <1>7
  <1>9. \A b \in paymentLoads' : b.sequence = n => b.answer = {} BY <1>4, <1>5, <1>6
  <1> QED BY <1>2, <1>4, <1>5, <1>8, <1>9 DEF PayQuiet

\* The page is left, and whatever is answered after that shows nothing.
LEMMA PayGone ==
    ASSUME PayInv, PayQuiet, PayCountsAre(paymentCounts'), ~paymentPage'.mounted,
           paymentPage'.sequence \in {paymentPage.sequence, paymentPage.sequence + 1},
           paymentLoads' \subseteq paymentLoads
    PROVE  PayQuiet'
  <1>1. paymentPage.sequence \in Nat BY DEF PayInv, PayTypes
  <1>2. \A c \in paymentLoads' : c.sequence \in Nat /\ c.sequence <= paymentPage'.sequence
    BY <1>1 DEF PayQuiet
  <1> QED BY <1>2 DEF PayQuiet

LEMMA PayUserQuiet == ASSUME PayInv, PayQuiet, Received!User PROVE PayQuiet'
  <1>1. CASE Received!Refresh
    <2>1. PayCountsAre(paymentCounts') BY <1>1, PayClickIs DEF Received!Refresh
    <2> QED BY <1>1, <2>1, PayAsks DEF Received!Refresh
  <1>2. CASE Received!Leave
    <2>1. PayCountsAre(paymentCounts') BY <1>2, PayClickIs DEF Received!Leave
    <2>2. /\ paymentPage' = [paymentPage EXCEPT !.mounted = FALSE, !.sequence = @ + 1]
          /\ paymentLoads' = paymentLoads
      BY <1>2 DEF Received!Leave
    <2>3. ~paymentPage'.mounted /\ paymentPage'.sequence = paymentPage.sequence + 1
      BY <2>2 DEF PayInv, PayTypes
    <2> QED BY <2>1, <2>2, <2>3, PayGone
  <1>3. CASE ~Received!Refresh /\ ~Received!Leave
    <2>1. /\ Received!Click /\ UNCHANGED <<payments, paymentList, paymentPage, paymentLoads>>
          /\ saves \subseteq saves' /\ others \subseteq others'
      BY <1>3 DEF Received!User, Received!OpenCreate, Received!OpenEdit, Received!Opened,
         Received!ClosePaymentDialog, Received!AppendFiles, Received!RemovePendingFile,
         Received!RemoveExistingVoucher, Received!Save, Received!ConfirmRemove,
         Received!CreateReceipt
    <2>2. PaymentsChanged => PaymentsChanged' BY <2>1 DEF PaymentsChanged
    <2>3. PayCountsAre(paymentCounts') BY <2>1, PayClickIs
    <2> QED BY <2>1, <2>2, <2>3, PayStill
  <1> QED BY <1>1, <1>2, <1>3

LEMMA PayServedQuiet == ASSUME PayInv, PayQuiet, Received!Served PROVE PayQuiet'
  <1>1. PayCountsAre(paymentCounts') /\ UNCHANGED <<paymentList, paymentPage>>
    BY PayClickIs DEF Received!Served, Received!ServeLoad, Received!ServeUpload,
       Received!ServeSave, Received!ServeOther, Received!Browser
  <1>2. CASE Received!ServeLoad
    <2>1. PICK c \in paymentLoads :
            /\ paymentLoads' = (paymentLoads \ {c}) \cup {[c EXCEPT !.answer = {payments}]}
            /\ UNCHANGED <<payments, saves, others>>
      BY <1>2 DEF Received!ServeLoad
    <2>2. PICK d : d = [c EXCEPT !.answer = {payments}] OBVIOUS
    <2>3. d.sequence = c.sequence /\ d.answer = {payments} BY <2>2 DEF PayInv, PayLoad
    <2>4. paymentLoads' = (paymentLoads \ {c}) \cup {d} BY <2>1, <2>2
    <2>5. \A b \in paymentLoads' : b.sequence \in Nat /\ b.sequence <= paymentPage.sequence
      BY <2>3, <2>4 DEF PayQuiet
    <2>6. PaymentsChanged' <=> PaymentsChanged BY <2>1 DEF PaymentsChanged
    <2> QED BY <1>1, <2>1, <2>3, <2>4, <2>5, <2>6 DEF PayQuiet
  <1>3. CASE Received!ServeUpload
    <2>1. PICK s \in saves :
            /\ saves' = (saves \ {s}) \cup {[s EXCEPT !.answered = TRUE]}
            /\ s.step = "upload" /\ UNCHANGED <<payments, paymentLoads, others>>
      BY <1>3 DEF Received!ServeUpload
    <2>2. PaymentsChanged => PaymentsChanged' BY <2>1 DEF PaymentsChanged
    <2> QED BY <1>1, <2>1, <2>2, PayStill
  <1>4. CASE Received!ServeSave
    <2>1. PICK s \in saves :
            /\ saves' = (saves \ {s}) \cup {[s EXCEPT !.answered = TRUE]}
            /\ s.step = "send" /\ UNCHANGED paymentLoads
      BY <1>4 DEF Received!ServeSave
    <2>2. PICK t : t = [s EXCEPT !.answered = TRUE] OBVIOUS
    <2>3. t.step = "send" /\ t.answered BY <2>1, <2>2 DEF PayInv, PaySave
    <2>4. PaymentsChanged' BY <2>1, <2>2, <2>3 DEF PaymentsChanged
    <2> QED BY <1>1, <2>1, <2>4, PayStill
  <1>5. CASE Received!ServeOther
    <2>1. PICK o \in others :
            others' = (others \ {o}) \cup {[o EXCEPT !.done = TRUE]} /\ UNCHANGED paymentLoads
      BY <1>5 DEF Received!ServeOther
    <2>2. PICK p : p = [o EXCEPT !.done = TRUE] OBVIOUS
    <2>3. p.done BY <2>2 DEF PayInv, PayTypes, PayOther
    <2>4. PaymentsChanged' BY <2>1, <2>2, <2>3 DEF PaymentsChanged
    <2> QED BY <1>1, <2>1, <2>4, PayStill
  <1> QED BY <1>2, <1>3, <1>4, <1>5 DEF Received!Served

\* The list of the server is asked for again, unless the page was left.
LEMMA PayReloadQuiet ==
    ASSUME PayInv, PayQuiet, PayCountsAre(paymentCounts'), NEW tied, Received!Reload(tied)
    PROVE  PayQuiet'
  <1>1. CASE paymentPage.mounted BY <1>1, PayAsks DEF Received!Reload
  <1>2. CASE ~paymentPage.mounted BY <1>2, PayGone DEF Received!Reload
  <1> QED BY <1>1, <1>2

LEMMA PayHandledQuiet == ASSUME PayInv, PayQuiet, Received!Handled PROVE PayQuiet'
  <1>1. PayCountsAre(paymentCounts')
    BY PayClickIs DEF Received!Handled, Received!LoadAnswered, Received!Uploaded,
       Received!SaveAnswered, Received!OtherAnswered, Received!OtherFails, Received!Browser
  <1>2. CASE Received!LoadAnswered
    <2>1. PICK c, answer :
            /\ c \in paymentLoads /\ answer \in c.answer
            /\ paymentLoads' = paymentLoads \ {c}
            /\ paymentList' = IF Received!IsCurrent(c) THEN answer ELSE paymentList
            /\ \/ paymentPage' = paymentPage
               \/ paymentPage' = [paymentPage EXCEPT !.loading = FALSE]
            /\ UNCHANGED <<payments, saves, others>>
      BY <1>2 DEF Received!LoadAnswered
    <2>2. paymentPage'.mounted = paymentPage.mounted /\ paymentPage'.sequence = paymentPage.sequence
      BY <2>1 DEF PayInv, PayTypes
    <2>3. PaymentsChanged' <=> PaymentsChanged BY <2>1 DEF PaymentsChanged
    <2>4. CASE Received!IsCurrent(c)
      <3>1. answer \in {payments} \/ PaymentsChanged
        BY <2>1, <2>4 DEF Received!IsCurrent, PayQuiet
      <3> QED BY <1>1, <2>1, <2>2, <2>3, <2>4, <3>1 DEF PayQuiet
    <2>5. CASE ~Received!IsCurrent(c)
      BY <1>1, <2>1, <2>2, <2>3, <2>5 DEF PayQuiet, Received!IsCurrent
    <2> QED BY <2>4, <2>5
  <1>3. CASE Received!Uploaded
    <2>1. PICK s \in saves :
            /\ s.step = "upload" /\ saves \ {s} \subseteq saves'
            /\ UNCHANGED <<payments, paymentList, paymentPage, paymentLoads, others>>
      BY <1>3 DEF Received!Uploaded, Received!Browser
    <2>2. PaymentsChanged => PaymentsChanged' BY <2>1 DEF PaymentsChanged
    <2> QED BY <1>1, <2>1, <2>2, PayStill
  <1>4. CASE Received!SaveAnswered
    <2>1. Received!Reload(TRUE) BY <1>4 DEF Received!SaveAnswered
    <2> QED BY <1>1, <2>1, PayReloadQuiet
  <1>5. CASE Received!OtherAnswered
    <2>1. Received!Reload(FALSE) BY <1>5 DEF Received!OtherAnswered
    <2> QED BY <1>1, <2>1, PayReloadQuiet
  <1>6. CASE Received!OtherFails
    <2>1. PICK o \in others :
            /\ ~o.done /\ others' = others \ {o}
            /\ UNCHANGED <<payments, paymentList, paymentPage, paymentLoads, saves>>
      BY <1>6 DEF Received!OtherFails, Received!Browser
    <2>2. PaymentsChanged => PaymentsChanged' BY <2>1 DEF PaymentsChanged
    <2> QED BY <1>1, <2>1, <2>2, PayStill
  <1> QED BY <1>2, <1>3, <1>4, <1>5, <1>6 DEF Received!Handled

LEMMA PayQuietNext ==
    ASSUME PayInv, PayQuiet, [Received!Next]_paymentsVars PROVE PayQuiet'
  <1>1. CASE Received!LoadFails \/ Received!SaveFails
    <2>1. PICK s \in saves :
            /\ s.step = "send" => ~s.answered
            /\ saves' = saves \ {s} /\ UNCHANGED paymentCounts
            /\ UNCHANGED <<payments, paymentList, paymentPage, paymentLoads, others>>
      BY <1>1, PayClickIs DEF Received!LoadFails, Received!SaveFails
    <2>2. PaymentsChanged => PaymentsChanged' BY <2>1 DEF PaymentsChanged
    <2>3. PayCountsAre(paymentCounts') BY <2>1, PayClickIs
    <2> QED BY <2>1, <2>2, <2>3, PayStill
  <1>2. CASE UNCHANGED paymentsVars
    <2>1. UNCHANGED <<payments, paymentList, paymentPage, paymentLoads, saves, others,
                      paymentCounts>>
      BY <1>2 DEF paymentsVars
    <2> QED BY <2>1 DEF PayQuiet, PaymentsChanged, PayCountsAre
  <1> QED BY <1>1, <1>2, PayUserQuiet, PayServedQuiet, PayHandledQuiet DEF Received!Next

LEMMA PayQuietTells == PayQuiet => Received!QuietListIsCurrent
  BY DEF PayQuiet, PaymentsChanged, Received!QuietListIsCurrent

LEMMA DepositQuietInit == DepositDialog!Init => DepositQuiet
  <1> SUFFICES ASSUME DepositDialog!Init PROVE DepositQuiet OBVIOUS
  <1>1. /\ depositCounts = [clicks |-> 0, changes |-> 0, faults |-> 0]
        /\ depositsPage.sequence = 1 /\ removals = {}
        /\ depositLoads = {[sequence |-> 1, units |-> {}, records |-> {}, saving |-> FALSE]}
    BY DEF DepositDialog!Init, DepositDialog!LoadCall
  <1>2. PICK c : c = [sequence |-> 1, units |-> {}, records |-> {}, saving |-> FALSE] OBVIOUS
  <1>3. depositLoads = {c} /\ c.sequence = 1 /\ c.units = {} /\ c.records = {} BY <1>1, <1>2
  <1>4. depositCounts.changes = 0 /\ depositCounts.faults = 0 BY <1>1
  <1>5. LastLoads = {c} BY <1>1, <1>3 DEF LastLoads
  <1> QED BY <1>1, <1>3, <1>4, <1>5 DEF DepositQuiet

\* No request fails, as no fault is allowed.
LEMMA DepositCounted ==
    ASSUME DepositInv, DepositQuiet
    PROVE  /\ ~DepositDialog!Fault
           /\ DepositDialog!Click =>
                 /\ depositsPage.mounted /\ depositCounts'.faults = 0
                 /\ depositCounts'.changes = depositCounts.changes
  <1>1. depositCounts.faults = 0 BY DEF DepositQuiet
  <1>2. ~DepositDialog!Fault BY <1>1 DEF DepositDialog!Fault
  <1>3. PICK n, m : depositCounts = [clicks |-> n, changes |-> m, faults |-> 0]
    BY <1>1 DEF DepositInv, DepositCountsAre
  <1>4. ASSUME DepositDialog!Click
        PROVE  /\ depositsPage.mounted /\ depositCounts'.faults = 0
               /\ depositCounts'.changes = depositCounts.changes
    <2>1. depositsPage.mounted /\ depositCounts' = [depositCounts EXCEPT !.clicks = @ + 1]
      BY <1>4 DEF DepositDialog!Click
    <2> QED BY <1>3, <2>1
  <1> QED BY <1>2, <1>4

\* The counts allow what is said about the units.
DepositCountsStay ==
    /\ depositCounts'.changes = depositCounts.changes
    /\ depositCounts'.faults = 0

\* A step that leaves the lists and their loads alone, and no change without its answer.
LEMMA DepositStill ==
    ASSUME DepositQuiet, DepositCountsStay, signed' = signed,
           UNCHANGED <<depositLists, depositsPage, depositLoads>>,
           \A r \in removals' : r = [deposit |-> r.deposit, done |-> r.done],
           DepositsChanged' \/ (UNCHANGED deposits /\ ~DepositsChanged)
    PROVE  DepositQuiet'
  <1>1. LastLoads' = LastLoads BY DEF LastLoads
  <1> QED BY <1>1 DEF DepositQuiet, DepositCountsStay

LEMMA DepositAsks ==
    ASSUME DepositInv, DepositQuiet, DepositCountsStay, NEW tied,
           \A r \in removals' : r = [deposit |-> r.deposit, done |-> r.done],
           depositsPage' = DepositDialog!LoadPageData(depositsPage),
           depositLoads' = depositLoads \cup {DepositDialog!LoadCall(depositsPage', tied)}
    PROVE  DepositQuiet'
  <1>1. depositsPage.sequence \in Nat /\ depositsPage'.sequence = depositsPage.sequence + 1
    BY DEF DepositInv, DepositsPageIs, DepositQuiet, DepositDialog!LoadPageData
  <1>2. PICK n : n = depositsPage'.sequence OBVIOUS
  <1>3. PICK c : c = [sequence |-> n, units |-> {}, records |-> {}, saving |-> tied] OBVIOUS
  <1>4. c.sequence = n /\ c.units = {} /\ c.records = {} BY <1>3
  <1>5. depositLoads' = depositLoads \cup {c} BY <1>2, <1>3 DEF DepositDialog!LoadCall
  <1>6. \A b \in depositLoads : b.sequence \in Nat /\ b.sequence < n
    BY <1>1, <1>2 DEF DepositQuiet
  <1>7. n \in Nat BY <1>1, <1>2
  <1>8. \A b \in depositLoads' : b.sequence \in Nat /\ b.sequence <= n BY <1>4, <1>5, <1>6, <1>7
  <1>9. LastLoads' = {c} BY <1>2, <1>4, <1>5, <1>6 DEF LastLoads
  <1> QED BY <1>2, <1>4, <1>7, <1>8, <1>9 DEF DepositQuiet, DepositCountsStay

\* The page is left, and whatever is answered after that shows nothing.
LEMMA DepositGone ==
    ASSUME DepositInv, DepositQuiet, DepositCountsStay, ~depositsPage'.mounted,
           \A r \in removals' : r = [deposit |-> r.deposit, done |-> r.done],
           depositsPage'.sequence \in {depositsPage.sequence, depositsPage.sequence + 1},
           depositLoads' \subseteq depositLoads
    PROVE  DepositQuiet'
  <1>1. depositsPage.sequence \in Nat BY DEF DepositQuiet
  <1>2. depositsPage'.sequence \in Nat BY <1>1
  <1>3. \A c \in depositLoads' : c.sequence \in Nat /\ c.sequence <= depositsPage'.sequence
    BY <1>1 DEF DepositQuiet
  <1> QED BY <1>2, <1>3 DEF DepositQuiet, DepositCountsStay

LEMMA DepositUserQuiet ==
    ASSUME DepositInv, DepositQuiet, DepositDialog!User PROVE DepositQuiet'
  <1>1. CASE DepositDialog!Refresh
    <2>1. DepositCountsStay /\ removals' = removals
      BY <1>1, DepositCounted DEF DepositDialog!Refresh, DepositCountsStay
    <2>2. \A r \in removals' : r = [deposit |-> r.deposit, done |-> r.done]
      BY <2>1 DEF DepositQuiet
    <2> QED BY <1>1, <2>1, <2>2, DepositAsks DEF DepositDialog!Refresh
  <1>2. CASE DepositDialog!Leave
    <2>1. /\ depositsPage' = [depositsPage EXCEPT !.mounted = FALSE, !.sequence = @ + 1]
          /\ depositLoads' = depositLoads /\ removals' = removals
          /\ depositCounts' = depositCounts
      BY <1>2 DEF DepositDialog!Leave
    <2>2. ~depositsPage'.mounted /\ depositsPage'.sequence = depositsPage.sequence + 1
      BY <2>1 DEF DepositInv, DepositsPageIs
    <2>3. DepositCountsStay /\ \A r \in removals' : r = [deposit |-> r.deposit, done |-> r.done]
      BY <2>1 DEF DepositQuiet, DepositCountsStay
    <2> QED BY <2>1, <2>2, <2>3, DepositGone
  <1>3. CASE DepositDialog!ConfirmRemove
    <2>1. PICK d : /\ removals' = removals \cup {[deposit |-> d, done |-> FALSE]}
                   /\ DepositDialog!Click
                   /\ UNCHANGED <<signed, deposits, depositLists, depositsPage, depositLoads,
                                  save>>
      BY <1>3 DEF DepositDialog!ConfirmRemove, DepositDialog!Server
    <2>2. \A r \in removals' : r = [deposit |-> r.deposit, done |-> r.done]
      BY <2>1 DEF DepositQuiet
    <2>3. DepositsChanged => DepositsChanged' BY <2>1 DEF DepositsChanged
    <2>4. DepositCountsStay BY <2>1, DepositCounted DEF DepositCountsStay
    <2> QED BY <2>1, <2>2, <2>3, <2>4, DepositStill
  <1>4. CASE ~DepositDialog!Refresh /\ ~DepositDialog!Leave /\ ~DepositDialog!ConfirmRemove
    <2>1. /\ DepositDialog!Click /\ removals' = removals /\ save \subseteq save'
          /\ UNCHANGED <<signed, deposits, depositLists, depositsPage, depositLoads>>
      BY <1>4 DEF DepositDialog!User, DepositDialog!OpenCreate, DepositDialog!OpenEdit,
         DepositDialog!HandleUnitChange, DepositDialog!ChooseContract,
         DepositDialog!ChoosePicture, DepositDialog!Cancel, DepositDialog!Save,
         DepositDialog!Server
    <2>2. \A r \in removals' : r = [deposit |-> r.deposit, done |-> r.done]
      BY <2>1 DEF DepositQuiet
    <2>3. DepositsChanged => DepositsChanged' BY <2>1 DEF DepositsChanged
    <2>4. DepositCountsStay BY <2>1, DepositCounted DEF DepositCountsStay
    <2> QED BY <2>1, <2>2, <2>3, <2>4, DepositStill
  <1> QED BY <1>1, <1>2, <1>3, <1>4

\* A contract is signed or removed elsewhere: only then do the units differ.
LEMMA DepositContractsQuiet ==
    ASSUME DepositInv, DepositQuiet, DepositDialog!ContractChanges PROVE DepositQuiet'
  <1>1. /\ depositCounts' = [depositCounts EXCEPT !.changes = @ + 1]
        /\ UNCHANGED <<deposits, depositLists, depositsPage, depositLoads, save, removals>>
    BY DEF DepositDialog!ContractChanges
  <1>2. /\ depositCounts'.changes = depositCounts.changes + 1
        /\ depositCounts'.faults = depositCounts.faults
    BY <1>1 DEF DepositInv, DepositCountsAre
  <1>3. depositCounts'.changes \in Nat /\ depositCounts'.changes # 0 /\ depositCounts'.faults = 0
    BY <1>2 DEF DepositQuiet
  <1>4. LastLoads' = LastLoads /\ (DepositsChanged' <=> DepositsChanged)
    BY <1>1 DEF LastLoads, DepositsChanged
  <1> QED BY <1>1, <1>3, <1>4 DEF DepositQuiet

LEMMA DepositServedQuiet ==
    ASSUME DepositInv, DepositQuiet, DepositDialog!Served PROVE DepositQuiet'
  <1>1. depositCounts' = depositCounts /\ UNCHANGED <<signed, depositLists, depositsPage>>
    BY DEF DepositDialog!Served, DepositDialog!ServeUnits, DepositDialog!ServeRecords,
       DepositDialog!Uploaded, DepositDialog!ServeSave, DepositDialog!ServeRemoval,
       DepositDialog!Browser, DepositDialog!Server
  <1>2. DepositCountsStay BY <1>1 DEF DepositQuiet, DepositCountsStay
  <1>3. CASE DepositDialog!ServeUnits \/ DepositDialog!ServeRecords
    <2>1. PICK c \in depositLoads :
            /\ \/ depositLoads' = (depositLoads \ {c}) \cup {[c EXCEPT !.units = {signed}]}
               \/ depositLoads' = (depositLoads \ {c}) \cup {[c EXCEPT !.records = {deposits}]}
            /\ UNCHANGED <<deposits, save, removals>>
      BY <1>3 DEF DepositDialog!ServeUnits, DepositDialog!ServeRecords, DepositDialog!Server
    <2>2. c = [sequence |-> c.sequence, units |-> c.units, records |-> c.records,
               saving |-> c.saving]
      BY Zenon DEF DepositInv, DepositLoad
    <2>3. PICK d : /\ depositLoads' = (depositLoads \ {c}) \cup {d}
                   /\ d.sequence = c.sequence
                   /\ d.units = c.units \/ d.units = {signed}
                   /\ d.records = c.records \/ d.records = {deposits}
      <3>1. CASE depositLoads' = (depositLoads \ {c}) \cup {[c EXCEPT !.units = {signed}]}
        <4>1. PICK d : d = [c EXCEPT !.units = {signed}] OBVIOUS
        <4>2. /\ d.sequence = c.sequence /\ d.units = {signed} /\ d.records = c.records
          BY <2>2, <4>1
        <4> QED BY <3>1, <4>1, <4>2
      <3>2. CASE depositLoads' = (depositLoads \ {c}) \cup {[c EXCEPT !.records = {deposits}]}
        <4>1. PICK d : d = [c EXCEPT !.records = {deposits}] OBVIOUS
        <4>2. /\ d.sequence = c.sequence /\ d.units = c.units /\ d.records = {deposits}
          BY <2>2, <4>1
        <4> QED BY <3>2, <4>1, <4>2
      <3> QED BY <2>1, <3>1, <3>2
    <2>4. /\ \A b \in depositLoads' : b.sequence \in Nat /\ b.sequence <= depositsPage.sequence
          /\ DepositsChanged' <=> DepositsChanged
      BY <2>1, <2>3 DEF DepositQuiet, DepositsChanged
    <2>5. /\ \A b \in LastLoads' : b \in LastLoads \/ (b = d /\ c \in LastLoads)
          /\ LastLoads # {} => LastLoads' # {}
      BY <1>1, <2>3 DEF LastLoads
    <2>6. ASSUME depositsPage.mounted, ~DepositsChanged
          PROVE  /\ \A b \in LastLoads' : b.records \subseteq {deposits}
                 /\ LastLoads' # {} \/ depositLists.records = {deposits}
      BY <2>3, <2>5, <2>6 DEF DepositQuiet
    <2>7. ASSUME depositsPage.mounted, depositCounts.changes = 0
          PROVE  /\ \A b \in LastLoads' : b.units \subseteq {signed}
                 /\ LastLoads' # {} \/ depositLists.units = {signed}
      BY <2>3, <2>5, <2>7 DEF DepositQuiet
    <2> QED BY <1>1, <1>2, <2>1, <2>4, <2>6, <2>7 DEF DepositQuiet, DepositCountsStay
  <1>4. CASE DepositDialog!Uploaded
    <2>1. PICK s \in save :
            /\ s.step = "upload" /\ save' = (save \ {s}) \cup
                 {[s EXCEPT !.step = "send", !.id = depositForm.id,
                            !.contract = depositForm.contract]}
            /\ UNCHANGED <<deposits, depositLoads, removals>>
      BY <1>4 DEF DepositDialog!Uploaded, DepositDialog!Server
    <2>2. PICK t : t = [s EXCEPT !.step = "send", !.id = depositForm.id,
                                 !.contract = depositForm.contract]
      OBVIOUS
    <2>3. t.answered = s.answered BY <2>2 DEF DepositInv, DepositSave
    <2>4. DepositsChanged => DepositsChanged' BY <2>1, <2>2, <2>3 DEF DepositsChanged
    <2>5. \A r \in removals' : r = [deposit |-> r.deposit, done |-> r.done]
      BY <2>1 DEF DepositQuiet
    <2> QED BY <1>1, <1>2, <2>1, <2>4, <2>5, DepositStill
  <1>5. CASE DepositDialog!ServeSave
    <2>1. PICK s \in save : /\ save' = (save \ {s}) \cup {[s EXCEPT !.answered = TRUE]}
                            /\ UNCHANGED <<depositLoads, removals>>
      BY <1>5 DEF DepositDialog!ServeSave
    <2>2. PICK t : t = [s EXCEPT !.answered = TRUE] OBVIOUS
    <2>3. t.answered BY <2>2 DEF DepositInv, DepositSave
    <2>4. DepositsChanged' BY <2>1, <2>2, <2>3 DEF DepositsChanged
    <2>5. \A r \in removals' : r = [deposit |-> r.deposit, done |-> r.done]
      BY <2>1 DEF DepositQuiet
    <2> QED BY <1>1, <1>2, <2>1, <2>4, <2>5, DepositStill
  <1>6. CASE DepositDialog!ServeRemoval
    <2>1. PICK r \in removals : /\ removals' = (removals \ {r}) \cup {[r EXCEPT !.done = TRUE]}
                                /\ UNCHANGED depositLoads
      BY <1>6 DEF DepositDialog!ServeRemoval
    <2>2. PICK q : q = [r EXCEPT !.done = TRUE] OBVIOUS
    <2>3. q.done /\ q = [deposit |-> q.deposit, done |-> q.done]
      <3>1. r = [deposit |-> r.deposit, done |-> r.done] BY DEF DepositQuiet
      <3> QED BY <2>2, <3>1
    <2>4. DepositsChanged' BY <2>1, <2>2, <2>3 DEF DepositsChanged
    <2>5. \A p \in removals' : p = [deposit |-> p.deposit, done |-> p.done]
      BY <2>1, <2>2, <2>3 DEF DepositQuiet
    <2> QED BY <1>1, <1>2, <2>1, <2>4, <2>5, DepositStill
  <1> QED BY <1>3, <1>4, <1>5, <1>6 DEF DepositDialog!Served

LEMMA DepositHandledQuiet ==
    ASSUME DepositInv, DepositQuiet, DepositDialog!Handled PROVE DepositQuiet'
  <1>1. depositCounts' = depositCounts /\ signed' = signed /\ deposits' = deposits
        /\ removals' \subseteq removals
    BY DEF DepositDialog!Handled, DepositDialog!LoadAnswered, DepositDialog!SaveAnswered,
       DepositDialog!RemovalAnswered, DepositDialog!Server
  <1>2. DepositCountsStay /\ \A r \in removals' : r = [deposit |-> r.deposit, done |-> r.done]
    BY <1>1 DEF DepositQuiet, DepositCountsStay
  <1>3. CASE DepositDialog!LoadAnswered
    <2>1. PICK c \in depositLoads :
            /\ c.units # {} /\ c.records # {} /\ depositLoads' = depositLoads \ {c}
            /\ depositLists' = IF DepositDialog!IsLatestLoadRequest(c)
                               THEN [units |-> c.units, records |-> c.records] ELSE depositLists
            /\ \/ depositsPage' = depositsPage
               \/ depositsPage' = [depositsPage EXCEPT !.loading = FALSE]
            /\ UNCHANGED <<save, removals>>
      BY <1>3 DEF DepositDialog!LoadAnswered, DepositDialog!Quiet
    <2>2. /\ depositsPage'.mounted = depositsPage.mounted
          /\ depositsPage'.sequence = depositsPage.sequence
      BY <2>1 DEF DepositInv, DepositsPageIs
    <2>3. /\ DepositsChanged' <=> DepositsChanged
          /\ LastLoads' = LastLoads \ {c}
      BY <2>1, <2>2 DEF DepositsChanged, LastLoads
    <2>4. CASE DepositDialog!IsLatestLoadRequest(c)
      <3>1. depositLists'.units = c.units /\ depositLists'.records = c.records BY <2>1, <2>4
      <3>2. c \in LastLoads BY <2>4 DEF DepositDialog!IsLatestLoadRequest, LastLoads
      <3>3. depositsPage.mounted => DepositsChanged \/ c.records = {deposits}
        BY <2>1, <3>2 DEF DepositQuiet
      <3>4. depositsPage.mounted /\ depositCounts.changes = 0 => c.units = {signed}
        BY <2>1, <3>2 DEF DepositQuiet
      <3> QED BY <1>1, <1>2, <2>1, <2>2, <2>3, <3>1, <3>3, <3>4 DEF DepositQuiet
    <2>5. CASE ~DepositDialog!IsLatestLoadRequest(c)
      <3>1. depositsPage.mounted => c \notin LastLoads
        BY <2>5 DEF DepositDialog!IsLatestLoadRequest, LastLoads
      <3> QED BY <1>1, <1>2, <2>1, <2>2, <2>3, <2>5, <3>1 DEF DepositQuiet
    <2> QED BY <2>4, <2>5
  <1>4. CASE DepositDialog!SaveAnswered \/ DepositDialog!RemovalAnswered
    <2>1. PICK tied : DepositDialog!Reload(tied)
      BY <1>4 DEF DepositDialog!SaveAnswered, DepositDialog!RemovalAnswered
    <2>2. CASE depositsPage.mounted BY <1>2, <2>1, <2>2, DepositAsks DEF DepositDialog!Reload
    <2>3. CASE ~depositsPage.mounted BY <1>2, <2>1, <2>3, DepositGone DEF DepositDialog!Reload
    <2> QED BY <2>2, <2>3
  <1> QED BY <1>3, <1>4 DEF DepositDialog!Handled

LEMMA DepositQuietNext ==
    ASSUME DepositInv, DepositQuiet, [DepositDialog!Next]_depositsVars PROVE DepositQuiet'
  <1>1. CASE DepositDialog!Failed
    <2>1. /\ \A s \in save : s.answered => s \in save'
          /\ \A r \in removals : r.done => r \in removals'
          /\ removals' \subseteq removals
          /\ UNCHANGED <<signed, deposits, depositLists, depositsPage, depositLoads, depositCounts>>
      BY <1>1, DepositCounted
         DEF DepositDialog!Failed, DepositDialog!LoadFails, DepositDialog!SaveFails,
             DepositDialog!RemovalFails, DepositDialog!Server
    <2>2. DepositsChanged => DepositsChanged' BY <2>1 DEF DepositsChanged
    <2>3. DepositCountsStay /\ \A r \in removals' : r = [deposit |-> r.deposit, done |-> r.done]
      BY <2>1 DEF DepositQuiet, DepositCountsStay
    <2> QED BY <2>1, <2>2, <2>3, DepositStill
  <1>2. CASE UNCHANGED depositsVars
    <2>1. UNCHANGED <<signed, deposits, depositLists, depositsPage, depositLoads, save, removals,
                      depositCounts>>
      BY <1>2 DEF depositsVars
    <2>2. (DepositsChanged' <=> DepositsChanged) /\ LastLoads' = LastLoads
      BY <2>1 DEF DepositsChanged, LastLoads
    <2> QED BY <2>1, <2>2 DEF DepositQuiet
  <1> QED BY <1>1, <1>2, DepositUserQuiet, DepositContractsQuiet, DepositServedQuiet,
             DepositHandledQuiet DEF DepositDialog!Next

LEMMA DepositQuietTells == DepositQuiet => DepositDialog!QuietListsAreCurrent
  BY DEF DepositQuiet, DepositsChanged, LastLoads, DepositDialog!QuietListsAreCurrent

\* What holds of each part, and what a step of it does.
LatePartsInv ==
    /\ part = "payments" => PayInv /\ PayQuiet
    /\ part = "deposits" => DepositInv /\ DepositQuiet
    /\ part = "ledger" => LedgerInv
    /\ part = "unit" => UnitInv
    /\ part = "polling" => PollInv

LatePartsTell ==
    /\ part = "payments" => Received!QuietListIsCurrent
    /\ part = "deposits" => DepositDialog!QuietListsAreCurrent
    /\ part = "ledger" => Ledger!TypeOK /\ Ledger!DetailIsOfSelected /\ Ledger!PdfIsOfDetail

LEMMA LatePartsInit == Init => LatePartsInv
  BY PayInit, PayQuietInit, DepositInit, DepositQuietInit, LedgerInit, UnitInit, PollInit
     DEF Init, LatePartsInv

LEMMA LatePartsNext == ASSUME LatePartsInv, [Next]_vars PROVE LatePartsInv'
  <1>1. part' = part BY DEF Next, vars
  <1>2. CASE part = "payments"
    <2>1. PayInv /\ PayQuiet /\ [Received!Next]_paymentsVars
      BY <1>2 DEF Next, vars, LatePartsInv
    <2>2. PayQuiet' BY <2>1, PayQuietNext
    <2>3. PayInv'
      <3>1. CASE Received!Next BY <2>1, <3>1, PayNext
      <3>2. CASE UNCHANGED paymentsVars
        BY <2>1, <3>2, SameWorld DEF paymentsVars, PayInv, PayTypes, OneSave
      <3> QED BY <2>1, <3>1, <3>2
    <2> QED BY <1>1, <1>2, <2>2, <2>3 DEF LatePartsInv
  <1>3. CASE part = "deposits"
    <2>1. DepositInv /\ DepositQuiet /\ [DepositDialog!Next]_depositsVars
      BY <1>3 DEF Next, vars, LatePartsInv
    <2>2. DepositQuiet' BY <2>1, DepositQuietNext
    <2>3. DepositInv'
      <3>1. CASE DepositDialog!Next BY <2>1, <3>1, DepositNext
      <3>2. CASE UNCHANGED depositsVars
        BY <2>1, <3>2 DEF depositsVars, DepositInv, OneDeposit
      <3> QED BY <2>1, <3>1, <3>2
    <2> QED BY <1>1, <1>3, <2>2, <2>3 DEF LatePartsInv
  <1>4. CASE part = "ledger"
    <2>1. LedgerInv /\ [Ledger!Next]_ledgerVars BY <1>4 DEF Next, vars, LatePartsInv
    <2> QED BY <1>1, <1>4, <2>1, LedgerNext DEF LatePartsInv
  <1>5. CASE part = "unit"
    <2>1. UnitInv /\ (Unit!Next \/ UNCHANGED unitVars) BY <1>5 DEF Next, vars, LatePartsInv
    <2>2. DetailStep
      <3>1. CASE Unit!Next BY <3>1, DetailSteps
      <3>2. CASE UNCHANGED unitVars BY <3>2 DEF unitVars, DetailStep
      <3> QED BY <2>1, <3>1, <3>2
    <2>3. UnitInv' BY <2>1, <2>2, UnitNext
    <2> QED BY <1>1, <1>5, <2>3 DEF LatePartsInv
  <1>6. CASE part = "polling"
    <2>1. PollInv /\ (Polling!Next \/ UNCHANGED pollingVars)
      BY <1>6 DEF Next, vars, LatePartsInv
    <2>2. PollInv'
      <3>1. CASE UNCHANGED pollingVars
        BY <2>1, <3>1 DEF pollingVars, PollInv, PollTypes, CallsApart, AttemptsGrow, Followed,
           Polling!DownloadsArePolled, Polling!NothingAfterLeaving
      <3>2. CASE Polling!Next BY <2>1, <3>2, PollNext
      <3> QED BY <2>1, <3>1, <3>2
    <2> QED BY <1>1, <1>6, <2>2 DEF LatePartsInv
  <1>7. CASE part \notin {"payments", "deposits", "ledger", "unit", "polling"}
    BY <1>1, <1>7 DEF LatePartsInv
  <1> QED BY <1>2, <1>3, <1>4, <1>5, <1>6, <1>7

(***************************************************************************)
(* Late answers lose. For any numbers of units, payments, tenants and      *)
(* documents, of clicks, of changes on the server and, on the pages of the *)
(* reconciliation and of documents, of requests that fail: lists with      *)
(* nothing under way are the server's, the detail and the PDF are those of *)
(* what is selected, and no list, detail or state is replaced with an      *)
(* older one.                                                              *)
(***************************************************************************)
THEOREM LateAnswersAlwaysLose == Spec => LateAnswersLose
  <1> DEFINE Listed == part = "ledger" => Ledger!ListGoesOn /\ Ledger!LeftUntouched
             Looked == part = "unit" => Unit!DetailGoesOn
             Polled == part = "polling" => Polling!ShownGoesOn
  <1>1. LatePartsInv /\ [Next]_vars => [Listed]_ledgerVars
    <2> SUFFICES ASSUME LatePartsInv, [Next]_vars, part = "ledger" PROVE Listed OBVIOUS
    <2>1. LedgerInv /\ [Ledger!Next]_ledgerVars BY DEF Next, vars, LatePartsInv
    <2> QED BY <2>1, LedgerNext DEF LedgerGoesOn
  <1>2. LatePartsInv /\ [Next]_vars => [Looked]_unitVars
    <2> SUFFICES ASSUME LatePartsInv, Next, part = "unit" PROVE Looked BY DEF vars
    <2>1. UnitInv /\ Unit!Next BY DEF Next, LatePartsInv
    <2> QED BY <2>1, DetailSteps, UnitNext
  <1>3. LatePartsInv /\ [Next]_vars => [Polled]_pollingVars
    <2> SUFFICES ASSUME LatePartsInv, Next, part = "polling" PROVE Polled BY DEF vars
    <2>1. PollInv /\ Polling!Next BY DEF Next, LatePartsInv
    <2> QED BY <2>1, PollNext
  <1>4. LatePartsInv => LatePartsTell
    BY PayQuietTells, DepositQuietTells, LedgerTells DEF LatePartsInv, LatePartsTell
  <1> HIDE DEF Listed, Looked, Polled
  <1>5. Spec => [][Listed]_ledgerVars /\ [][Looked]_unitVars /\ [][Polled]_pollingVars
                /\ []LatePartsTell
    BY LatePartsInit, LatePartsNext, <1>1, <1>2, <1>3, <1>4, PTL DEF Spec
  <1>6. []LatePartsTell =>
          /\ [](part = "payments" => Received!QuietListIsCurrent)
          /\ [](part = "deposits" => DepositDialog!QuietListsAreCurrent)
          /\ [](part = "ledger" =>
                  Ledger!TypeOK /\ Ledger!DetailIsOfSelected /\ Ledger!PdfIsOfDetail)
    <2>1. LatePartsTell =>
            /\ part = "payments" => Received!QuietListIsCurrent
            /\ part = "deposits" => DepositDialog!QuietListsAreCurrent
            /\ part = "ledger" =>
                  Ledger!TypeOK /\ Ledger!DetailIsOfSelected /\ Ledger!PdfIsOfDetail
      BY DEF LatePartsTell
    <2> QED BY <2>1, PTL
  <1> QED BY <1>5, <1>6 DEF LateAnswersLose, Listed, Looked, Polled
=============================================================================
