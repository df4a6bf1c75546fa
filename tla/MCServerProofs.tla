--------------------------- MODULE MCServerProofs ---------------------------
(***************************************************************************)
(* Proofs about what the server prints, backs up and replaces, for every   *)
(* number of requests, sources and days, of runs, files and faults, and of *)
(* releases and attempts: about ReceiptIssuing, about DeploymentUpdate as  *)
(* MCServer instantiates it, and about the two instances of Backup, from   *)
(* the theorems of BackupProofs.                                           *)
(***************************************************************************)
EXTENDS MCServer, FiniteSetTheorems, TLAPS

\* The steps at which a request has counted its number.
Counted == {"numbered", "made", "written", "fallback", "printed", "stored", "failed", "ready"}

\* Types, with what a request that has counted, or has a file, holds.
HeldOK ==
    \A r \in Slots :
        /\ request[r].step \in Counted => request[r] \in Issue /\ request[r].number \in 1..MaxReceipts
        /\ request[r].step \in {"stored", "ready"} => request[r].file \in Printed

Types == TypeOK /\ HeldOK /\ IsFiniteSet(DOMAIN receipts)

\* The receipts of a day are finitely many.
LEMMA DayFinite == ASSUME IsFiniteSet(DOMAIN receipts), NEW d
                   PROVE  IsFiniteSet(OfDay(d)) /\ Cardinality(OfDay(d)) \in Nat
  <1>1. IsFiniteSet(OfDay(d)) BY FS_Subset DEF OfDay
  <1> QED BY <1>1, FS_CardinalityType

LEMMA InitTypes == Init => Types
  BY FS_EmptySet DEF Init, Types, TypeOK, HeldOK, Idle, Counted, NoSource, NoDirectory

\* A request that has counted writes within the numbers of its day.
LEMMA NumberTyped == ASSUME Types, NEW r \in Slots, request[r].step \in Counted
                     PROVE  /\ request[r] \in Issue
                            /\ NumberOf(r) \in Numbers /\ Payload(r) \in Printed
                            /\ Ensured(NumberOf(r)) \in Directory
  <1>1. request[r] \in Issue /\ request[r].number \in 1..MaxReceipts BY DEF Types, HeldOK
  <1>2. NumberOf(r) \in Numbers BY <1>1 DEF NumberOf, Numbers, Issue
  <1>3. Payload(r) \in Printed BY <1>1, <1>2 DEF Payload, Printed, Issue
  <1>4. Ensured(NumberOf(r)) \in Directory
    BY <1>2 DEF Ensured, Types, TypeOK, EmptyDirectory, Directory
  <1> QED BY <1>1, <1>2, <1>3, <1>4

\* A step of one request that leaves rows and directories alone.
LEMMA RequestTypes ==
    ASSUME Types, NEW r \in Slots, NEW q, request' = [request EXCEPT ![r] = q],
           UNCHANGED <<source, receipts, temp>>,
           q \in {Idle} \cup Issue \cup Change,
           q.step \in Counted => q \in Issue /\ q.number \in 1..MaxReceipts,
           q.step \in {"stored", "ready"} => q.file \in Printed
    PROVE  Types'
  BY DEF Types, TypeOK, HeldOK

\* Moving on to a step that needs nothing new.
LEMMA GotoTypes ==
    ASSUME Types, NEW r \in Slots, request[r].step \in Counted, NEW step,
           step \in Counted, step \in {"stored", "ready"} => request[r].file \in Printed
    PROVE  [request[r] EXCEPT !.step = step] \in
               {q \in Issue : q.number \in 1..MaxReceipts /\ q.step = step /\ q.file = request[r].file}
  BY DEF Types, HeldOK, Issue, Counted

\* Request r goes on to another step with what it holds.
RequestKept(r, step) ==
    \E q \in Issue : /\ request' = [request EXCEPT ![r] = q]
                     /\ q.number \in 1..MaxReceipts /\ q.step = step
                     /\ step \in {"stored", "ready"} => q.file \in Printed

LEMMA KeptTypes ==
    ASSUME Types, NEW r \in Slots, NEW step, RequestKept(r, step),
           UNCHANGED <<source, receipts>>, temp' \in [Numbers -> Directory \cup {NoDirectory}]
    PROVE  Types'
  BY DEF Types, TypeOK, HeldOK, RequestKept

LEMMA NextTypes == Types /\ [Next]_vars => Types'
  <1> SUFFICES ASSUME Types, [Next]_vars PROVE Types' OBVIOUS
  <1>1. CASE UNCHANGED vars BY <1>1 DEF vars, Types, TypeOK, HeldOK
  <1>2. ASSUME NEW r \in Slots, NEW s \in Sources, NEW d \in Days, Resolve(r, s, d) PROVE Types'
    <2>1. source[s].amount \in Amounts BY <1>2 DEF Types, TypeOK, Resolve, Source, Present, NoSource
    <2> DEFINE q == [step |-> "resolved", source |-> s, amount |-> source[s].amount,
                     day |-> d, number |-> 0, file |-> Nothing]
    <2>2. q \in Issue BY <2>1, ReceiptConstants DEF Issue
    <2> QED BY <1>2, <2>2, RequestTypes DEF Resolve, Counted
  <1>3. ASSUME NEW r \in Slots, CheckDuplicate(r) PROVE Types'
    <2>1. request[r] \in Issue BY <1>3 DEF Types, TypeOK, CheckDuplicate, Issue, Change, Idle
    <2> DEFINE q == [request[r] EXCEPT !.step = "checked"]
    <2>2. q \in Issue /\ q.step = "checked" BY <2>1 DEF Issue
    <2>3. CASE Active(request[r].source)
      BY <1>3, <2>3, RequestTypes DEF CheckDuplicate, Finish, Idle, Counted
    <2>4. CASE ~Active(request[r].source)
      <3>1. request' = [request EXCEPT ![r] = q] BY <1>3, <2>4 DEF CheckDuplicate, Goto
      <3> QED BY <3>1, <2>2, <1>3, RequestTypes DEF CheckDuplicate, Counted
    <2> QED BY <2>3, <2>4
  <1>4. ASSUME NEW r \in Slots, TakeNumber(r) PROVE Types'
    <2>1. request[r] \in Issue BY <1>4 DEF Types, TypeOK, TakeNumber, Issue, Change, Idle
    <2> DEFINE n == NextNumber(request[r].day)
               q == [request[r] EXCEPT !.step = "numbered", !.number = n]
    <2>2. n \in 1..MaxReceipts
      BY <1>4, ReceiptConstants, DayFinite DEF TakeNumber, NextNumber, Types
    <2> HIDE DEF n
    <2>3. q \in Issue /\ q.step = "numbered" /\ q.number = n
      <3>1. n \in 0..MaxReceipts BY <2>2, ReceiptConstants
      <3> QED BY <2>1, <3>1 DEF Issue
    <2>4. request' = [request EXCEPT ![r] = q] BY <1>4 DEF TakeNumber, n
    <2> HIDE DEF q
    <2> QED BY <2>2, <2>3, <2>4, <1>4, RequestTypes DEF TakeNumber
  <1>5. ASSUME NEW r \in Slots, MakeDirectory(r) PROVE Types'
    <2>1. request[r].step \in Counted BY <1>5 DEF MakeDirectory, Counted
    <2>2. UNCHANGED <<source, receipts>> /\ temp' \in [Numbers -> Directory \cup {NoDirectory}]
      BY <1>5, <2>1, NumberTyped DEF MakeDirectory, Types, TypeOK
    <2>3. RequestKept(r, "made")
      BY <1>5, <2>1, GotoTypes DEF MakeDirectory, Goto, RequestKept, Counted
    <2> QED BY <2>2, <2>3, KeptTypes
  <1>6. ASSUME NEW r \in Slots, WriteDocx(r) PROVE Types'
    <2>1. request[r].step \in Counted BY <1>6 DEF WriteDocx, Counted
    <2>2. [Ensured(NumberOf(r)) EXCEPT !.docx = Payload(r)] \in Directory
      BY <2>1, NumberTyped DEF Directory
    <2>3. UNCHANGED <<source, receipts>> /\ temp' \in [Numbers -> Directory \cup {NoDirectory}]
      BY <1>6, <2>1, <2>2, NumberTyped DEF WriteDocx, Types, TypeOK
    <2>4. RequestKept(r, "written")
      BY <1>6, <2>1, GotoTypes DEF WriteDocx, Goto, RequestKept, Counted
    <2> QED BY <2>3, <2>4, KeptTypes
  <1>7. ASSUME NEW r \in Slots, ConvertDocx(r) PROVE Types'
    <2>1. request[r].step \in Counted BY <1>7 DEF ConvertDocx, Counted
    <2>2. Ensured(NumberOf(r)).docx \in Printed
      BY <1>7, <2>1, NumberTyped DEF ConvertDocx, Directory
    <2>3. Ensured(NumberOf(r)) = temp[NumberOf(r)]
      BY <1>7 DEF ConvertDocx, Ensured, EmptyDirectory
    <2>4. UNCHANGED <<source, receipts>> /\ temp' \in [Numbers -> Directory \cup {NoDirectory}]
      BY <1>7, <2>1, <2>2, <2>3, NumberTyped DEF ConvertDocx, Types, TypeOK, Directory
    <2>5. RequestKept(r, "printed")
      BY <1>7, <2>1, GotoTypes DEF ConvertDocx, Goto, RequestKept, Counted
    <2> QED BY <2>4, <2>5, KeptTypes
  <1>8. ASSUME NEW r \in Slots, TemplateFails(r) PROVE Types'
    <2>1. request[r].step \in Counted BY <1>8 DEF TemplateFails, Counted
    <2>2. RequestKept(r, "fallback")
      BY <1>8, <2>1, GotoTypes DEF TemplateFails, Goto, RequestKept, Counted
    <2> QED BY <1>8, <2>2, KeptTypes DEF TemplateFails, Types, TypeOK
  <1>9. ASSUME NEW r \in Slots, PrintFallback(r) PROVE Types'
    <2>1. request[r].step \in Counted BY <1>9 DEF PrintFallback, Counted
    <2>2. CASE temp[NumberOf(r)] = NoDirectory
      <3>1. RequestKept(r, "failed")
        BY <1>9, <2>1, <2>2, GotoTypes DEF PrintFallback, Goto, RequestKept, Counted
      <3> QED BY <1>9, <2>2, <3>1, KeptTypes DEF PrintFallback, Types, TypeOK
    <2>3. CASE temp[NumberOf(r)] # NoDirectory
      <3>1. UNCHANGED <<source, receipts>> /\ temp' \in [Numbers -> Directory \cup {NoDirectory}]
        BY <1>9, <2>1, <2>3, NumberTyped DEF PrintFallback, Types, TypeOK, Directory
      <3>2. RequestKept(r, "printed")
        BY <1>9, <2>1, <2>3, GotoTypes DEF PrintFallback, Goto, RequestKept, Counted
      <3> QED BY <3>1, <3>2, KeptTypes
    <2> QED BY <2>2, <2>3
  <1>10. ASSUME NEW r \in Slots, RegisterFile(r) PROVE Types'
    <2>1. request[r].step \in Counted BY <1>10 DEF RegisterFile, Counted
    <2> DEFINE pdf == Ensured(NumberOf(r)).pdf
               q == [request[r] EXCEPT !.step = "stored", !.file = pdf]
    <2>2. CASE pdf # Nothing /\ request' = [request EXCEPT ![r] = q]
      <3>1. pdf \in Printed BY <2>1, <2>2, NumberTyped DEF Directory
      <3> HIDE DEF pdf
      <3>2. /\ q \in Issue /\ q.number \in 1..MaxReceipts
            /\ q.step = "stored" /\ q.file = pdf
        BY <2>1, <3>1 DEF Types, HeldOK, Issue
      <3> HIDE DEF q
      <3> QED BY <1>10, <2>2, <3>1, <3>2, RequestTypes DEF RegisterFile
    <2>3. CASE Goto(r, "failed")
      <3>1. RequestKept(r, "failed") BY <2>1, <2>3, GotoTypes DEF Goto, RequestKept, Counted
      <3> QED BY <1>10, <3>1, KeptTypes DEF RegisterFile, Types, TypeOK
    <2> QED BY <1>10, <2>2, <2>3 DEF RegisterFile
  <1>11. ASSUME NEW r \in Slots, RemoveDirectory(r) PROVE Types'
    <2>1. request[r].step \in Counted BY <1>11 DEF RemoveDirectory, Counted
    <2>2. UNCHANGED <<source, receipts>> /\ temp' \in [Numbers -> Directory \cup {NoDirectory}]
      BY <1>11, <2>1, NumberTyped DEF RemoveDirectory, Types, TypeOK
    <2>3. CASE request[r].step = "stored"
      <3>1. request[r].file \in Printed BY <2>3 DEF Types, HeldOK
      <3>2. RequestKept(r, "ready")
        BY <1>11, <2>1, <2>3, <3>1, GotoTypes DEF RemoveDirectory, Goto, RequestKept, Counted
      <3> QED BY <2>2, <3>2, KeptTypes
    <2>4. CASE request[r].step # "stored"
      <3>1. request' = [request EXCEPT ![r] = Idle] BY <1>11, <2>4 DEF RemoveDirectory, Finish
      <3> QED BY <2>2, <3>1 DEF Types, TypeOK, HeldOK, Idle, Counted
    <2> QED BY <2>3, <2>4
  <1>12. ASSUME NEW r \in Slots, SaveReceipt(r) PROVE Types'
    <2>1. request[r].step \in Counted BY <1>12 DEF SaveReceipt, Counted
    <2>2. NewReceipt(r) \in Receipt
      <3>1. request[r] \in Issue /\ request[r].file \in Printed
        BY <1>12, <2>1 DEF SaveReceipt, Types, HeldOK
      <3> QED BY <3>1 DEF NewReceipt, Receipt, Issue
    <2>3. UNCHANGED <<source, temp>> /\ request' = [request EXCEPT ![r] = Idle]
      BY <1>12 DEF SaveReceipt, Finish
    <2>4. CASE NumberOf(r) \in DOMAIN receipts
      BY <1>12, <2>3, <2>4 DEF SaveReceipt, Types, TypeOK, HeldOK, Idle, Counted
    <2>5. CASE NumberOf(r) \notin DOMAIN receipts
      <3>1. IsFiniteSet(DOMAIN receipts \cup {NumberOf(r)}) BY FS_AddElement DEF Types
      <3>2. /\ DOMAIN receipts' = DOMAIN receipts \cup {NumberOf(r)}
            /\ \A k \in DOMAIN receipts' : receipts'[k] \in Receipt
        BY <1>12, <2>2, <2>5 DEF SaveReceipt, Types, TypeOK
      <3> QED BY <2>1, <2>3, <3>1, <3>2, NumberTyped DEF Types, TypeOK, HeldOK, Idle, Counted
    <2> QED BY <2>4, <2>5
  <1>13. ASSUME NEW r \in Slots, NEW s \in Sources, NEW row \in Source, ClearChange(r, s, row)
      PROVE  Types'
    <2> DEFINE q == [step |-> "cleared", source |-> s, row |-> row]
    <2>1. q \in Change /\ q.step = "cleared" BY DEF Change
    <2>2. request' = [request EXCEPT ![r] = q] /\ UNCHANGED <<source, receipts, temp>>
      BY <1>13 DEF ClearChange
    <2> HIDE DEF q
    <2> QED BY <2>1, <2>2, RequestTypes DEF Counted
  <1>14. ASSUME NEW r \in Slots, CommitChange(r) PROVE Types'
    <2>1. request[r] \in Change BY <1>14 DEF CommitChange, Types, TypeOK, Issue, Idle
    <2> QED BY <1>14, <2>1 DEF CommitChange, Finish, Change, Types, TypeOK, HeldOK, Idle, Counted
  <1>15. ASSUME NEW r \in Slots, ChangeFails(r) PROVE Types'
    BY <1>15, RequestTypes DEF ChangeFails, Finish, Idle, Counted
  <1>16. ASSUME NEW s \in Sources, NEW a \in Amounts, CreateSource(s, a) PROVE Types'
    BY <1>16 DEF CreateSource, Source, Types, TypeOK, HeldOK
  <1>17. ASSUME NEW s \in Records, MarkPaid(s) PROVE Types'
    BY <1>17 DEF MarkPaid, Present, Sources, Source, NoSource, Types, TypeOK, HeldOK
  <1>18. ASSUME NEW k \in DOMAIN receipts, VoidReceipt(k) PROVE Types'
    BY <1>18 DEF VoidReceipt, Receipt, Types, TypeOK, HeldOK
  <1>19. CASE Crash
    BY <1>19 DEF Crash, Types, TypeOK, HeldOK, Idle, Counted
  <1> QED BY <1>1, <1>2, <1>3, <1>4, <1>5, <1>6, <1>7, <1>8, <1>9, <1>10, <1>11, <1>12, <1>13,
             <1>14, <1>15, <1>16, <1>17, <1>18, <1>19 DEF Next, IssueStep, SourceStep

\* Types hold, always.
THEOREM TypesCorrect == Spec => []TypeOK
  <1>1. Types => TypeOK BY DEF Types
  <1> QED BY InitTypes, NextTypes, <1>1, PTL DEF Spec

CountedOK ==
    \A r \in Slots : request[r].step \in Counted =>
        /\ request[r].day \in Days
        /\ request[r].number \in 1..(Cardinality(OfDay(request[r].day)) + 1)

NumberInv == Types /\ CountedOK /\ NumbersGapless

LEMMA InitNumbers == Init => NumberInv
  <1> SUFFICES ASSUME Init PROVE NumberInv OBVIOUS
  <1>1. DOMAIN receipts = {} BY DEF Init
  <1>2. CountedOK BY DEF Init, CountedOK, Counted, Idle
  <1>3. ASSUME NEW d \in Days PROVE {k[2] : k \in OfDay(d)} = 1..Cardinality(OfDay(d))
    <2>1. OfDay(d) = {} BY <1>1 DEF OfDay
    <2>2. Cardinality(OfDay(d)) = 0 BY <2>1, FS_EmptySet
    <2> QED BY <2>1, <2>2
  <1> QED BY InitTypes, <1>2, <1>3 DEF NumberInv, NumbersGapless

\* A step that keeps the numbers of the rows, and gives no request a number, keeps the
\* numbering.
LEMMA SameNumbers ==
    ASSUME NumberInv, Types', DOMAIN receipts' = DOMAIN receipts,
           \A r \in Slots : request'[r].step \in Counted =>
               /\ request'[r].day = request[r].day /\ request'[r].number = request[r].number
               /\ request[r].step \in Counted
    PROVE  NumberInv'
  <1>1. \A d : OfDay(d)' = OfDay(d) BY DEF OfDay
  <1>2. CountedOK' BY <1>1 DEF NumberInv, CountedOK
  <1>3. NumbersGapless' BY <1>1 DEF NumberInv, NumbersGapless
  <1> QED BY <1>2, <1>3 DEF NumberInv

\* The next number of a day is one more than the receipts it has.
LEMMA TakeNumberKeeps == ASSUME NumberInv, Types', NEW r \in Slots, TakeNumber(r) PROVE NumberInv'
  <1>1. PICK d : d = request[r].day OBVIOUS
  <1>2. request[r] \in Issue /\ d \in Days
    BY <1>1 DEF NumberInv, Types, TypeOK, TakeNumber, Issue, Change, Idle
  <1>3. \A e : OfDay(e)' = OfDay(e) BY DEF OfDay, TakeNumber
  <1>4. NextNumber(d) \in 1..(Cardinality(OfDay(d)) + 1)
    BY DayFinite DEF NextNumber, NumberInv, Types
  <1>5. /\ request'[r].day = d /\ request'[r].number = NextNumber(d)
        /\ \A q \in Slots \ {r} : request'[q] = request[q]
    BY <1>1, <1>2 DEF TakeNumber, NumberInv, Types, TypeOK, Issue
  <1>6. CountedOK' BY <1>2, <1>3, <1>4, <1>5 DEF CountedOK, NumberInv
  <1>7. NumbersGapless' BY <1>3 DEF NumbersGapless, NumberInv
  <1> QED BY <1>6, <1>7 DEF NumberInv

\* The insert: the number is the next one of its day, because every smaller one is taken
\* and the unique column refuses those.
LEMMA SaveReceiptKeeps == ASSUME NumberInv, Types', NEW r \in Slots, SaveReceipt(r) PROVE NumberInv'
  <1>1. PICK d, n : /\ d = request[r].day /\ n = request[r].number
                    /\ d \in Days /\ n \in 1..(Cardinality(OfDay(d)) + 1)
    <2>1. request[r].step \in Counted BY DEF SaveReceipt, Counted
    <2>2. /\ request[r].day \in Days
          /\ request[r].number \in 1..(Cardinality(OfDay(request[r].day)) + 1)
      BY <2>1 DEF NumberInv, CountedOK
    <2> QED BY <2>2
  <1>2. request' = [request EXCEPT ![r] = Idle] BY DEF SaveReceipt, Finish
  <1>4. CASE <<d, n>> \in DOMAIN receipts
    <2>1. receipts' = receipts BY <1>1, <1>4 DEF SaveReceipt, NumberOf
    <2> QED BY <2>1, <1>2, SameNumbers DEF Counted, Idle, NumberInv, Types, TypeOK
  <1>5. CASE <<d, n>> \notin DOMAIN receipts
    <2>1. DOMAIN receipts' = DOMAIN receipts \cup {<<d, n>>} BY <1>1, <1>5 DEF SaveReceipt, NumberOf
    <2>3. OfDay(d)' = OfDay(d) \cup {<<d, n>>} BY <2>1 DEF OfDay
    <2>4. \A e : e # d => OfDay(e)' = OfDay(e) BY <2>1 DEF OfDay
    <2>5. <<d, n>> \notin OfDay(d) BY <1>5 DEF OfDay
    <2>6. IsFiniteSet(OfDay(d)) /\ Cardinality(OfDay(d)) \in Nat BY DayFinite DEF NumberInv, Types
    <2>7. Cardinality(OfDay(d)') = Cardinality(OfDay(d)) + 1
      BY <2>3, <2>5, <2>6, FS_AddElement
    <2>8. n = Cardinality(OfDay(d)) + 1
      <3>1. SUFFICES ASSUME n # Cardinality(OfDay(d)) + 1 PROVE FALSE OBVIOUS
      <3>2. n \in 1..Cardinality(OfDay(d)) BY <3>1, <1>1, <2>6
      <3>3. n \in {k[2] : k \in OfDay(d)} BY <3>2, <1>1 DEF NumberInv, NumbersGapless
      <3>4. PICK k \in OfDay(d) : k[2] = n BY <3>3
      <3>5. k \in DOMAIN receipts /\ k[1] = d BY DEF OfDay
      <3>6. k = <<d, n>> BY <3>4, <3>5 DEF NumberInv, Types, TypeOK, Numbers
      <3> QED BY <3>5, <3>6, <1>5
    <2>9. NumbersGapless'
      <3>1. SUFFICES ASSUME NEW e \in Days
                     PROVE {k[2] : k \in OfDay(e)'} = 1..Cardinality(OfDay(e)')
        BY DEF NumbersGapless
      <3>2. CASE e = d
        <4>1. {k[2] : k \in OfDay(d)'} = {k[2] : k \in OfDay(d)} \cup {n}
          <5> DEFINE A == OfDay(d)
          <5>0. <<d, n>>[2] = n OBVIOUS
          <5> HIDE DEF A
          <5>1. {k[2] : k \in A \cup {<<d, n>>}} = {k[2] : k \in A} \cup {n} BY <5>0, Zenon
          <5> QED BY <5>1, <2>3 DEF A
        <4>2. {k[2] : k \in OfDay(d)} = 1..Cardinality(OfDay(d))
          BY <1>1 DEF NumberInv, NumbersGapless
        <4> QED BY <4>1, <4>2, <2>6, <2>7, <2>8, <3>2
      <3>3. CASE e # d BY <3>3, <2>4 DEF NumberInv, NumbersGapless
      <3> QED BY <3>2, <3>3
    <2>10. CountedOK'
      <3>1. SUFFICES ASSUME NEW q \in Slots, request'[q].step \in Counted,
                            NEW e, e = request'[q].day
                     PROVE e \in Days /\ request'[q].number \in 1..(Cardinality(OfDay(e)') + 1)
        BY DEF CountedOK
      <3>2. q # r /\ request'[q] = request[q]
        BY <3>1, <1>2 DEF Idle, Counted, NumberInv, Types, TypeOK
      <3>3. e \in Days /\ request'[q].number \in 1..(Cardinality(OfDay(e)) + 1)
        BY <3>1, <3>2 DEF NumberInv, CountedOK
      <3>4. CASE e = d BY <3>3, <3>4, <2>6, <2>7
      <3>5. CASE e # d BY <3>3, <3>5, <2>4
      <3> QED BY <3>4, <3>5
    <2> QED BY <2>9, <2>10 DEF NumberInv
  <1> QED BY <1>4, <1>5 DEF NumberOf

\* Every other step keeps the numbers that are given and those that are counted.
LEMMA NextNumbers == NumberInv /\ [Next]_vars => NumberInv'
  <1> SUFFICES ASSUME NumberInv, [Next]_vars PROVE NumberInv' OBVIOUS
  <1> USE DEF Counted, Idle, Goto, Finish
  <1>0. Types' /\ request \in [Slots -> {Idle} \cup Issue \cup Change]
    BY NextTypes DEF NumberInv, Types, TypeOK
  <1>1. CASE UNCHANGED vars BY <1>1, <1>0, SameNumbers DEF vars
  <1>2. ASSUME NEW r \in Slots, NEW s \in Sources, NEW d \in Days, Resolve(r, s, d) PROVE NumberInv'
    BY <1>2, <1>0, SameNumbers DEF Resolve
  <1>3. ASSUME NEW r \in Slots, CheckDuplicate(r) PROVE NumberInv'
    BY <1>3, <1>0, SameNumbers DEF CheckDuplicate, Issue, Change
  <1>4. ASSUME NEW r \in Slots, MakeDirectory(r) PROVE NumberInv'
    BY <1>4, <1>0, SameNumbers DEF MakeDirectory, Issue, Change
  <1>5. ASSUME NEW r \in Slots, WriteDocx(r) PROVE NumberInv'
    BY <1>5, <1>0, SameNumbers DEF WriteDocx, Issue, Change
  <1>6. ASSUME NEW r \in Slots, ConvertDocx(r) PROVE NumberInv'
    BY <1>6, <1>0, SameNumbers DEF ConvertDocx, Issue, Change
  <1>7. ASSUME NEW r \in Slots, TemplateFails(r) PROVE NumberInv'
    BY <1>7, <1>0, SameNumbers DEF TemplateFails, Issue, Change
  <1>8. ASSUME NEW r \in Slots, PrintFallback(r) PROVE NumberInv'
    BY <1>8, <1>0, SameNumbers DEF PrintFallback, Issue, Change
  <1>9. ASSUME NEW r \in Slots, RegisterFile(r) PROVE NumberInv'
    BY <1>9, <1>0, SameNumbers DEF RegisterFile, Issue, Change
  <1>10. ASSUME NEW r \in Slots, RemoveDirectory(r) PROVE NumberInv'
    BY <1>10, <1>0, SameNumbers DEF RemoveDirectory, Issue, Change
  <1>11. ASSUME NEW r \in Slots, CommitChange(r) PROVE NumberInv'
    BY <1>11, <1>0, SameNumbers DEF CommitChange, Issue, Change
  <1>12. ASSUME NEW r \in Slots, ChangeFails(r) PROVE NumberInv'
    BY <1>12, <1>0, SameNumbers DEF ChangeFails, Issue, Change
  <1>13. ASSUME NEW r \in Slots, TakeNumber(r) PROVE NumberInv' BY <1>13, <1>0, TakeNumberKeeps
  <1>14. ASSUME NEW r \in Slots, SaveReceipt(r) PROVE NumberInv' BY <1>14, <1>0, SaveReceiptKeeps
  <1>15. ASSUME NEW r \in Slots, NEW s \in Sources, NEW row \in Source, ClearChange(r, s, row)
      PROVE  NumberInv'
    BY <1>15, <1>0, SameNumbers DEF ClearChange
  <1>16. ASSUME NEW s \in Sources, NEW a \in Amounts, CreateSource(s, a) PROVE NumberInv'
    BY <1>16, <1>0, SameNumbers DEF CreateSource
  <1>17. ASSUME NEW s \in Records, MarkPaid(s) PROVE NumberInv'
    BY <1>17, <1>0, SameNumbers DEF MarkPaid
  <1>18. ASSUME NEW k \in DOMAIN receipts, VoidReceipt(k) PROVE NumberInv'
    BY <1>18, <1>0, SameNumbers DEF VoidReceipt
  <1>19. CASE Crash BY <1>19, <1>0, SameNumbers DEF Crash
  <1> QED BY <1>1, <1>2, <1>3, <1>4, <1>5, <1>6, <1>7, <1>8, <1>9, <1>10, <1>11, <1>12, <1>13,
          <1>14, <1>15, <1>16, <1>17, <1>18, <1>19 DEF Next, IssueStep, SourceStep

\* The receipts of a day are numbered without a gap or a repetition, always.
THEOREM NumbersAlwaysGapless == Spec => []NumbersGapless
  <1>1. NumberInv => NumbersGapless BY DEF NumberInv
  <1> QED BY InitNumbers, NextNumbers, <1>1, PTL DEF Spec

-----------------------------------------------------------------------------
(* Receipts and their sources, while no two requests in flight share one.  *)

\* The steps of create after its source was read, and those of a request that found no
\* active receipt of its source.
Issuing == {"resolved", "checked"} \cup Counted
Cleared == {"checked", "cleared"} \cup Counted

Busy(r) == request[r].step # "idle"

OwnSources == \A q, r \in Slots : q # r /\ Busy(q) /\ Busy(r) => request[q].source # request[r].source

\* What a request read still holds when it writes.
Reads(r) ==
    /\ request[r].step \in Issuing =>
           source[request[r].source] = [state |-> "paid", amount |-> request[r].amount]
    /\ request[r].step \in Cleared => ~Active(request[r].source)

ReadsHold == \A r \in Slots : Reads(r)

\* The lookups of a request hold until it ends because nobody else may be about its source;
\* an insert then gives the source its only receipt, a change finds none to contradict.
SourceInv == OwnSources /\ ReadsHold /\ OneActivePerSource /\ ReceiptMatchesSource

LEMMA InitSources == Init => SourceInv
  BY DEF Init, SourceInv, OwnSources, ReadsHold, Reads, OneActivePerSource, ReceiptMatchesSource,
         Busy, Idle, Issuing, Cleared, Counted

\* Request r claims no more than it did.
KeepsClaims(r) ==
    request'[r].step # "idle" =>
        /\ request[r].step # "idle" /\ request'[r].source = request[r].source
        /\ request'[r].step \in Issuing =>
               request[r].step \in Issuing /\ request'[r].amount = request[r].amount
        /\ request'[r].step \in Cleared =>
               request[r].step \in Cleared \/ ~Active(request[r].source)

LEMMA SameClaims ==
    ASSUME SourceInv, UNCHANGED <<source, receipts>>, \A r \in Slots : KeepsClaims(r)
    PROVE  SourceInv'
  <1>1. OwnSources' BY DEF SourceInv, OwnSources, Busy, KeepsClaims
  <1>2. ReadsHold'
    <2>1. \A s : Active(s)' <=> Active(s) BY DEF Active
    <2>2. ASSUME NEW r \in Slots PROVE Reads(r)'
      <3>1. request'[r].step \in Issuing \cup Cleared => request'[r].step # "idle"
        BY DEF Issuing, Cleared, Counted
      <3>2. KeepsClaims(r) /\ Reads(r) BY DEF SourceInv, ReadsHold
      <3>3. request'[r].step \in Issuing =>
              source'[request'[r].source] = [state |-> "paid", amount |-> request'[r].amount]
        BY <3>1, <3>2 DEF Reads, KeepsClaims
      <3>4. request'[r].step \in Cleared => ~Active(request[r].source)
                                           /\ request'[r].source = request[r].source
        BY <3>1, <3>2 DEF Reads, KeepsClaims
      <3>5. PICK s : s = request'[r].source OBVIOUS
      <3>6. request'[r].step \in Cleared => ~Active(s)' BY <2>1, <3>4, <3>5
      <3> QED BY <3>3, <3>5, <3>6 DEF Reads
    <2> QED BY <2>2 DEF ReadsHold
  <1>3. OneActivePerSource' /\ ReceiptMatchesSource'
    BY DEF SourceInv, OneActivePerSource, ReceiptMatchesSource
  <1> QED BY <1>1, <1>2, <1>3 DEF SourceInv

\* A step of one request that ends, or goes on with what it holds.
LEMMA OneClaim ==
    ASSUME Types, SourceInv, UNCHANGED <<source, receipts>>, NEW r \in Slots, KeepsClaims(r),
           \A p \in Slots \ {r} : request'[p] = request[p]
    PROVE  SourceInv'
  <1>1. \A p \in Slots \ {r} : KeepsClaims(p) BY DEF KeepsClaims
  <1> QED BY <1>1, SameClaims

LEMMA GoOn ==
    ASSUME Types, NEW r \in Slots, request[r] \in Issue, NEW step,
           Goto(r, step) \/ Finish(r)
    PROVE  /\ request'[r].step # "idle" =>
                request'[r].source = request[r].source /\ request'[r].amount = request[r].amount
           /\ \A p \in Slots \ {r} : request'[p] = request[p]
  BY DEF Goto, Finish, Types, TypeOK, Issue, Idle

\* The steps of create that leave rows alone.
LEMMA IssueKeepsSources ==
    ASSUME Types, SourceInv, NEW r \in Slots,
           \/ CheckDuplicate(r) \/ TakeNumber(r) \/ MakeDirectory(r) \/ WriteDocx(r)
           \/ ConvertDocx(r) \/ TemplateFails(r) \/ PrintFallback(r) \/ RegisterFile(r)
           \/ RemoveDirectory(r)
    PROVE  SourceInv'
  <1>1. UNCHANGED <<source, receipts>>
    BY DEF CheckDuplicate, TakeNumber, MakeDirectory, WriteDocx, ConvertDocx, TemplateFails,
           PrintFallback, RegisterFile, RemoveDirectory
  <1>2. request[r].step \in Issuing /\ (~ CheckDuplicate(r) => request[r].step \in Cleared)
    BY DEF CheckDuplicate, TakeNumber, MakeDirectory, WriteDocx, ConvertDocx, TemplateFails,
           PrintFallback, RegisterFile, RemoveDirectory, Issuing, Cleared, Counted
  <1>3. request \in [Slots -> {Idle} \cup Issue \cup Change] /\ request[r] \in Issue
    BY <1>2 DEF Types, TypeOK, Idle, Change, Issuing, Counted
  <1>4. /\ request'[r].step # "idle" =>
              /\ request'[r].source = request[r].source /\ request'[r].amount = request[r].amount
              /\ CheckDuplicate(r) => ~Active(request[r].source)
        /\ \A p \in Slots \ {r} : request'[p] = request[p]
    <2>1. CASE TakeNumber(r)
      BY <1>3, <2>1 DEF TakeNumber, CheckDuplicate, Issue
    <2>2. CASE RegisterFile(r)
      <3>1. CASE Goto(r, "failed") BY <1>3, <2>2, <3>1, GoOn DEF RegisterFile, CheckDuplicate
      <3>2. CASE request' = [request EXCEPT ![r].step = "stored", ![r].file = Ensured(NumberOf(r)).pdf]
        BY <1>3, <2>2, <3>2 DEF RegisterFile, CheckDuplicate, Issue
      <3> QED BY <2>2, <3>1, <3>2 DEF RegisterFile
    <2>3. CASE ~ TakeNumber(r) /\ ~ RegisterFile(r)
      <3>1. \E step : Goto(r, step) \/ Finish(r)
        BY <2>3 DEF CheckDuplicate, MakeDirectory, WriteDocx, ConvertDocx, TemplateFails,
                    PrintFallback, RemoveDirectory
      <3>2. CheckDuplicate(r) /\ Active(request[r].source) => request'[r] = Idle
        BY <1>3 DEF CheckDuplicate, Finish
      <3> QED BY <1>3, <3>1, <3>2, GoOn DEF Idle
    <2> QED BY <2>1, <2>2, <2>3
  <1>5. KeepsClaims(r)
    BY <1>2, <1>4 DEF KeepsClaims, Issuing, Counted
  <1> QED BY <1>1, <1>4, <1>5, OneClaim

\* A request begins that nobody else is about the source of.
LEMMA BeginKeepsSources ==
    ASSUME Types, SourceInv, "source" \in Separate, UNCHANGED <<source, receipts>>,
           NEW r \in Slots, NEW q, NEW s, NEW days, request' = [request EXCEPT ![r] = q],
           request[r] = Idle, Apart(s, days), q.source = s,
           q.step \in Issuing => source[s] = [state |-> "paid", amount |-> q.amount],
           q.step \in Cleared => ~Active(s)
    PROVE  SourceInv'
  <1>1. request \in [Slots -> {Idle} \cup Issue \cup Change] BY DEF Types, TypeOK
  <1>2. request'[r] = q /\ \A p \in Slots \ {r} : request'[p] = request[p]
    BY <1>1
  <1>3. OwnSources'
    <2>1. \A p \in Slots \ {r} : Busy(p) => request[p].source # s
      BY DEF Apart, Busy
    <2> QED BY <1>2, <2>1 DEF SourceInv, OwnSources, Busy
  <1>4. \A x : Active(x)' <=> Active(x) BY DEF Active
  <1>5. ReadsHold'
    <2>1. Reads(r)' BY <1>2, <1>4 DEF Reads
    <2>2. ASSUME NEW p \in Slots \ {r} PROVE Reads(p)'
      BY <1>2, <1>4 DEF SourceInv, ReadsHold, Reads
    <2> QED BY <2>1, <2>2 DEF ReadsHold
  <1>6. OneActivePerSource' /\ ReceiptMatchesSource'
    BY DEF SourceInv, OneActivePerSource, ReceiptMatchesSource
  <1> QED BY <1>3, <1>5, <1>6 DEF SourceInv

\* A step on the source or the receipts of s, by the only request about it if any: what other
\* requests read is of other sources.
LEMMA OthersRead ==
    ASSUME SourceInv, NEW s, NEW p \in Slots, request[p].step = "idle" \/ request[p].source # s,
           request'[p] = request[p],
           \A x : x # s => source'[x] = source[x] /\ (Active(x)' <=> Active(x))
    PROVE  Reads(p)'
  <1>1. Reads(p) BY DEF SourceInv, ReadsHold
  <1>2. CASE request[p].step = "idle" BY <1>2 DEF Reads, Issuing, Cleared, Counted
  <1>3. CASE request[p].source # s BY <1>1, <1>3 DEF Reads
  <1> QED BY <1>2, <1>3

\* The insert: the number is taken, or its source had no active receipt.
LEMMA SaveKeepsSources ==
    ASSUME Types, SourceInv, NEW r \in Slots, SaveReceipt(r)
    PROVE  SourceInv'
  <1>1. request \in [Slots -> {Idle} \cup Issue \cup Change] BY DEF Types, TypeOK
  <1>2. /\ request'[r] = Idle /\ UNCHANGED source
        /\ \A p \in Slots \ {r} : request'[p] = request[p]
    BY <1>1 DEF SaveReceipt, Finish
  <1>3. request[r].step \in Issuing /\ request[r].step \in Cleared
    BY DEF SaveReceipt, Issuing, Cleared, Counted
  <1>4. CASE NumberOf(r) \in DOMAIN receipts
    <2>1. UNCHANGED receipts BY <1>4 DEF SaveReceipt
    <2>2. KeepsClaims(r) BY <1>2 DEF KeepsClaims, Idle
    <2> QED BY <1>2, <2>1, <2>2, OneClaim
  <1>5. CASE NumberOf(r) \notin DOMAIN receipts
    <2>1. PICK s, k : s = request[r].source /\ k = NumberOf(r) OBVIOUS
    <2>2. /\ DOMAIN receipts' = DOMAIN receipts \cup {k}
          /\ \A j \in DOMAIN receipts : receipts'[j] = receipts[j]
          /\ receipts'[k].source = s /\ receipts'[k].amount = request[r].amount
          /\ k \notin DOMAIN receipts
      BY <1>5, <2>1 DEF SaveReceipt, NewReceipt
    <2>3. /\ source[s] = [state |-> "paid", amount |-> request[r].amount]
          /\ \A j \in DOMAIN receipts : receipts[j].status = "active" => receipts[j].source # s
      BY <1>3, <2>1 DEF SourceInv, ReadsHold, Reads, Active
    <2>4. \A x : x # s => (Active(x)' <=> Active(x)) BY <2>2 DEF Active
    <2>5. OwnSources' BY <1>2 DEF SourceInv, OwnSources, Busy, Idle
    <2>6. ReadsHold'
      <3>1. Reads(r)' BY <1>2 DEF Reads, Idle, Issuing, Cleared, Counted
      <3>2. ASSUME NEW p \in Slots \ {r} PROVE Reads(p)'
        <4>1. request[p].step = "idle" \/ request[p].source # s
          BY <1>3, <2>1 DEF SourceInv, OwnSources, Busy, Issuing, Counted
        <4> QED BY <1>2, <2>4, <4>1, OthersRead
      <3> QED BY <3>1, <3>2 DEF ReadsHold
    <2>7. OneActivePerSource' BY <2>2, <2>3 DEF SourceInv, OneActivePerSource
    <2>8. ReceiptMatchesSource' BY <1>2, <2>2, <2>3 DEF SourceInv, ReceiptMatchesSource
    <2> QED BY <2>5, <2>6, <2>7, <2>8 DEF SourceInv
  <1> QED BY <1>4, <1>5

\* A change is written to a source that still has no active receipt.
LEMMA CommitKeepsSources ==
    ASSUME Types, SourceInv, NEW r \in Slots, CommitChange(r)
    PROVE  SourceInv'
  <1>1. request \in [Slots -> {Idle} \cup Issue \cup Change] BY DEF Types, TypeOK
  <1>2. PICK s : s = request[r].source OBVIOUS
  <1>3. /\ request'[r] = Idle /\ UNCHANGED receipts
        /\ \A p \in Slots \ {r} : request'[p] = request[p]
    BY <1>1 DEF CommitChange, Finish
  <1>4. \A x : x # s => source'[x] = source[x]
    BY <1>2 DEF CommitChange, Types, TypeOK
  <1>5. request[r].step \in Cleared /\ request[r].step # "idle" BY DEF CommitChange, Cleared
  <1>6. \A j \in DOMAIN receipts : receipts[j].status = "active" => receipts[j].source # s
    BY <1>2, <1>5 DEF SourceInv, ReadsHold, Reads, Active
  <1>7. \A x : Active(x)' <=> Active(x) BY <1>3 DEF Active
  <1>8. OwnSources' BY <1>3 DEF SourceInv, OwnSources, Busy, Idle
  <1>9. ReadsHold'
    <2>1. Reads(r)' BY <1>3 DEF Reads, Idle, Issuing, Cleared, Counted
    <2>2. ASSUME NEW p \in Slots \ {r} PROVE Reads(p)'
      <3>1. request[p].step = "idle" \/ request[p].source # s
        BY <1>2, <1>5 DEF SourceInv, OwnSources, Busy
      <3> QED BY <1>3, <1>4, <1>7, <3>1, OthersRead
    <2> QED BY <2>1, <2>2 DEF ReadsHold
  <1>10. OneActivePerSource' BY <1>3 DEF SourceInv, OneActivePerSource
  <1>11. ReceiptMatchesSource' BY <1>3, <1>4, <1>6 DEF SourceInv, ReceiptMatchesSource
  <1> QED BY <1>8, <1>9, <1>10, <1>11 DEF SourceInv

\* A source is created or paid that no request is about; a paid one stays as it is.
LEMMA SourceChangeKeeps ==
    ASSUME Types, SourceInv, UNCHANGED <<receipts, request>>, NEW s \in Sources,
           \A x \in Sources \ {s} : source'[x] = source[x],
           source[s].state = "paid" => source'[s] = source[s]
    PROVE  SourceInv'
  <1>1. \A x : Active(x)' <=> Active(x) BY DEF Active
  <1>2. OwnSources' /\ OneActivePerSource'
    BY DEF SourceInv, OwnSources, Busy, OneActivePerSource
  <1>3. ReadsHold'
    <2> SUFFICES ASSUME NEW p \in Slots PROVE Reads(p)' BY DEF ReadsHold
    <2>1. Reads(p) BY DEF SourceInv, ReadsHold
    <2>2. request[p].step \in Issuing => request[p].source \in Sources
      BY DEF Types, TypeOK, Issuing, Counted, Issue, Change, Idle
    <2> QED BY <1>1, <2>1, <2>2 DEF Reads
  <1>4. ReceiptMatchesSource'
    <2>1. \A k \in DOMAIN receipts : receipts[k].source \in Sources
      BY DEF Types, TypeOK, Receipt
    <2> QED BY <2>1 DEF SourceInv, ReceiptMatchesSource
  <1> QED BY <1>2, <1>3, <1>4 DEF SourceInv

\* A receipt that is void is not in anybody's way.
LEMMA VoidKeepsSources ==
    ASSUME Types, SourceInv, NEW k \in DOMAIN receipts, VoidReceipt(k)
    PROVE  SourceInv'
  <1>1. /\ DOMAIN receipts' = DOMAIN receipts /\ UNCHANGED <<source, request>>
        /\ receipts'[k].status = "void"
        /\ \A j \in DOMAIN receipts \ {k} : receipts'[j] = receipts[j]
    BY DEF VoidReceipt, Types, TypeOK, Receipt
  <1>2. \A x : Active(x)' => Active(x) BY <1>1 DEF Active
  <1>3. OwnSources' BY <1>1 DEF SourceInv, OwnSources, Busy
  <1>4. ReadsHold' BY <1>1, <1>2 DEF SourceInv, ReadsHold, Reads
  <1>5. OneActivePerSource' BY <1>1 DEF SourceInv, OneActivePerSource
  <1>6. ReceiptMatchesSource' BY <1>1 DEF SourceInv, ReceiptMatchesSource
  <1> QED BY <1>3, <1>4, <1>5, <1>6 DEF SourceInv

LEMMA NextSources ==
    ASSUME "source" \in Separate, Types, SourceInv, [Next]_vars
    PROVE  SourceInv'
  <1>0. request \in [Slots -> {Idle} \cup Issue \cup Change] BY DEF Types, TypeOK
  <1>1. CASE UNCHANGED vars
    <2>1. \A r \in Slots : KeepsClaims(r) BY <1>1 DEF vars, KeepsClaims
    <2> QED BY <1>1, <2>1, SameClaims DEF vars
  <1>2. ASSUME NEW r \in Slots, NEW s \in Sources, NEW d \in Days, Resolve(r, s, d) PROVE SourceInv'
    <2> DEFINE q == [step |-> "resolved", source |-> s, amount |-> source[s].amount,
                     day |-> d, number |-> 0, file |-> Nothing]
    <2>1. source[s] = [state |-> "paid", amount |-> q.amount]
      BY <1>2 DEF Resolve, Types, TypeOK, Source, NoSource
    <2>2. q.step \notin Cleared BY DEF Cleared, Counted
    <2>3. /\ UNCHANGED <<source, receipts>> /\ request' = [request EXCEPT ![r] = q]
          /\ request[r] = Idle /\ Apart(s, {d}) /\ q.source = s
      BY <1>2 DEF Resolve
    <2> HIDE DEF q
    <2> QED BY <2>1, <2>2, <2>3, BeginKeepsSources
  <1>3. ASSUME NEW r \in Slots,
               \/ CheckDuplicate(r) \/ TakeNumber(r) \/ MakeDirectory(r) \/ WriteDocx(r)
               \/ ConvertDocx(r) \/ TemplateFails(r) \/ PrintFallback(r) \/ RegisterFile(r)
               \/ RemoveDirectory(r)
        PROVE  SourceInv'
    BY <1>3, IssueKeepsSources
  <1>4. ASSUME NEW r \in Slots, SaveReceipt(r) PROVE SourceInv' BY <1>4, SaveKeepsSources
  <1>5. ASSUME NEW r \in Slots, NEW s \in Sources, NEW row \in Source, ClearChange(r, s, row)
      PROVE  SourceInv'
    <2> DEFINE q == [step |-> "cleared", source |-> s, row |-> row]
    <2>1. q.step \notin Issuing /\ ~Active(s) BY <1>5 DEF ClearChange, Issuing, Counted
    <2>2. /\ UNCHANGED <<source, receipts>> /\ request' = [request EXCEPT ![r] = q]
          /\ request[r] = Idle /\ Apart(s, {}) /\ q.source = s
      BY <1>5 DEF ClearChange
    <2> HIDE DEF q
    <2> QED BY <2>1, <2>2, BeginKeepsSources
  <1>6. ASSUME NEW r \in Slots, CommitChange(r) PROVE SourceInv' BY <1>6, CommitKeepsSources
  <1>7. ASSUME NEW r \in Slots, ChangeFails(r) PROVE SourceInv'
    <2>1. /\ UNCHANGED <<source, receipts>> /\ KeepsClaims(r)
          /\ \A p \in Slots \ {r} : request'[p] = request[p]
      BY <1>0, <1>7 DEF ChangeFails, Finish, Idle, KeepsClaims
    <2> QED BY <2>1, OneClaim
  <1>8. ASSUME NEW s \in Sources, NEW a \in Amounts, CreateSource(s, a) PROVE SourceInv'
    BY <1>8, SourceChangeKeeps DEF CreateSource, NoSource, Types, TypeOK
  <1>9. ASSUME NEW s \in Records, MarkPaid(s) PROVE SourceInv'
    <2>1. source[s] \in Source \cup {NoSource} /\ s \in Sources
      BY DEF Types, TypeOK, Sources
    <2>2. source[s].state = "paid" => [source[s] EXCEPT !.state = "paid"] = source[s]
      BY <2>1 DEF Source, NoSource
    <2> QED BY <1>9, <2>1, <2>2, SourceChangeKeeps DEF MarkPaid, Types, TypeOK
  <1>10. ASSUME NEW k \in DOMAIN receipts, VoidReceipt(k) PROVE SourceInv'
    BY <1>10, VoidKeepsSources
  <1>11. CASE Crash
    <2>1. \A r \in Slots : KeepsClaims(r) BY <1>11 DEF Crash, KeepsClaims, Idle
    <2> QED BY <1>11, <2>1, SameClaims DEF Crash
  <1> QED BY <1>1, <1>2, <1>3, <1>4, <1>5, <1>6, <1>7, <1>8, <1>9, <1>10, <1>11
          DEF Next, IssueStep, SourceStep

-----------------------------------------------------------------------------
(* Pages, while no two requests issue for the same day.                    *)

OwnDays ==
    \A q, r \in Slots : q # r /\ request[q].step \in Issuing /\ request[r].step \in Issuing
                          => request[q].day # request[r].day

\* What request r left in its directory, or holds, was printed for it.
Page(r) ==
    /\ request[r].step = "written" => Ensured(NumberOf(r)).docx = Payload(r)
    /\ request[r].step = "printed" => Ensured(NumberOf(r)).pdf = Payload(r)
    /\ request[r].step \in {"stored", "ready"} => request[r].file = Payload(r)

\* A directory belongs to the one request of its day: what a dead one left there is written
\* over before it is read.
PageInv == OwnDays /\ (\A r \in Slots : Page(r)) /\ PdfIsItsOwn

LEMMA InitPages == Init => PageInv
  BY DEF Init, PageInv, OwnDays, Page, PdfIsItsOwn, Idle, Issuing, Counted

\* Request p has not moved, nor have the directories of its day.
LEMMA PageKept ==
    ASSUME Types, NEW p \in Slots, Page(p), request'[p] = request[p],
           request[p].step \in Issuing =>
               \A k \in Numbers : k[1] = request[p].day => temp'[k] = temp[k]
    PROVE  Page(p)'
  <1>1. CASE request[p].step \in Counted
    <2>1. request[p] \in Issue /\ NumberOf(p) \in Numbers BY <1>1, NumberTyped
    <2>2. NumberOf(p)[1] = request[p].day BY DEF NumberOf
    <2>3. temp'[NumberOf(p)] = temp[NumberOf(p)] BY <1>1, <2>1, <2>2 DEF Issuing
    <2>4. NumberOf(p)' = NumberOf(p) /\ Payload(p)' = Payload(p) BY DEF NumberOf, Payload
    <2>5. Ensured(NumberOf(p))' = Ensured(NumberOf(p)) BY <2>3, <2>4 DEF Ensured
    <2> QED BY <2>4, <2>5 DEF Page
  <1>2. CASE request[p].step \notin Counted BY <1>2 DEF Page, Counted
  <1> QED BY <1>1, <1>2

\* A step of one request, which keeps its day and writes within its directories.
LEMMA OnePage ==
    ASSUME Types, PageInv, NEW r \in Slots, request[r].step \in Issuing, UNCHANGED receipts,
           \A p \in Slots \ {r} : request'[p] = request[p],
           request'[r].step \in Issuing => request'[r].day = request[r].day,
           \A k \in Numbers : k[1] # request[r].day => temp'[k] = temp[k],
           Page(r)'
    PROVE  PageInv'
  <1>1. OwnDays' BY DEF PageInv, OwnDays
  <1>2. ASSUME NEW p \in Slots \ {r} PROVE Page(p)'
    <2>1. request[p].step \in Issuing => request[p].day # request[r].day
      BY DEF PageInv, OwnDays
    <2> QED BY <2>1, PageKept DEF PageInv
  <1>3. PdfIsItsOwn' BY DEF PageInv, PdfIsItsOwn
  <1> QED BY <1>1, <1>2, <1>3 DEF PageInv

\* A step that leaves the directories alone and in which requests only end, or change sources.
LEMMA NoPage ==
    ASSUME Types, PageInv, UNCHANGED temp,
           \A p \in Slots : request'[p] = request[p] \/ request'[p].step \notin Issuing,
           PdfIsItsOwn'
    PROVE  PageInv'
  <1>1. OwnDays' BY DEF PageInv, OwnDays
  <1>2. ASSUME NEW p \in Slots PROVE Page(p)'
    <2>1. CASE request'[p] = request[p] BY <2>1, PageKept DEF PageInv
    <2>2. CASE request'[p].step \notin Issuing BY <2>2 DEF Page, Issuing, Counted
    <2> QED BY <2>1, <2>2
  <1> QED BY <1>1, <1>2 DEF PageInv

\* The steps of create before its files are written.
LEMMA BeforePrinting ==
    ASSUME Types, PageInv, NEW r \in Slots,
           CheckDuplicate(r) \/ TakeNumber(r) \/ MakeDirectory(r) \/ TemplateFails(r)
    PROVE  PageInv'
  <1>1. request \in [Slots -> {Idle} \cup Issue \cup Change] /\ request[r].step \in Issuing
    BY DEF Types, TypeOK, CheckDuplicate, TakeNumber, MakeDirectory, TemplateFails, Issuing, Counted
  <1>2. request[r] \in Issue BY <1>1 DEF Idle, Change, Issuing, Counted
  <1>3. /\ UNCHANGED receipts /\ \A p \in Slots \ {r} : request'[p] = request[p]
        /\ request'[r].step \in Issuing => request'[r].day = request[r].day
        /\ request'[r].step \in {"idle", "checked", "numbered", "made", "fallback"}
    BY <1>1, <1>2 DEF CheckDuplicate, TakeNumber, MakeDirectory, TemplateFails, Goto, Finish,
                      Issue, Idle, Issuing, Counted
  <1>4. \A k \in Numbers : k[1] # request[r].day => temp'[k] = temp[k]
    <2>1. NumberOf(r)[1] = request[r].day BY DEF NumberOf
    <2> QED BY <2>1 DEF CheckDuplicate, TakeNumber, MakeDirectory, TemplateFails, Types, TypeOK
  <1>5. Page(r)' BY <1>3 DEF Page
  <1> QED BY <1>1, <1>3, <1>4, <1>5, OnePage

\* The steps that write the request's own directory, or take the file from it.
LEMMA WhilePrinting ==
    ASSUME Types, PageInv, NEW r \in Slots,
           WriteDocx(r) \/ ConvertDocx(r) \/ PrintFallback(r) \/ RegisterFile(r) \/ RemoveDirectory(r)
    PROVE  PageInv'
  <1>1. request[r].step \in Counted
    BY DEF WriteDocx, ConvertDocx, PrintFallback, RegisterFile, RemoveDirectory, Counted
  <1>2. /\ request \in [Slots -> {Idle} \cup Issue \cup Change] /\ request[r] \in Issue
        /\ NumberOf(r) \in Numbers /\ Payload(r) \in Printed /\ Ensured(NumberOf(r)) \in Directory
        /\ temp \in [Numbers -> Directory \cup {NoDirectory}]
    BY <1>1, NumberTyped DEF Types, TypeOK
  <1>3. /\ UNCHANGED receipts /\ \A p \in Slots \ {r} : request'[p] = request[p]
    BY <1>2 DEF WriteDocx, ConvertDocx, PrintFallback, RegisterFile, RemoveDirectory, Goto, Finish
  <1>4. \A k \in Numbers : k[1] # request[r].day => temp'[k] = temp[k]
    <2>1. NumberOf(r)[1] = request[r].day BY DEF NumberOf
    <2> QED BY <1>2, <2>1
            DEF WriteDocx, ConvertDocx, PrintFallback, RegisterFile, RemoveDirectory
  <1>5. /\ request'[r].step \in Issuing =>
             request'[r].day = request[r].day /\ request'[r].number = request[r].number
             /\ request'[r].source = request[r].source /\ request'[r].amount = request[r].amount
    BY <1>2 DEF WriteDocx, ConvertDocx, PrintFallback, RegisterFile, RemoveDirectory, Goto, Finish,
                Issue, Idle, Issuing, Counted
  <1>6. request'[r].step \in Issuing => NumberOf(r)' = NumberOf(r) /\ Payload(r)' = Payload(r)
    BY <1>5 DEF NumberOf, Payload
  <1>7. Page(r) BY DEF PageInv
  <1>8. Page(r)'
    <2>1. CASE WriteDocx(r)
      <3>1. request'[r].step = "written" BY <1>2, <2>1 DEF WriteDocx, Goto, Issue
      <3>2. temp'[NumberOf(r)] = [Ensured(NumberOf(r)) EXCEPT !.docx = Payload(r)]
        BY <1>2, <2>1 DEF WriteDocx
      <3>3. temp'[NumberOf(r)].docx = Payload(r) /\ temp'[NumberOf(r)] # NoDirectory
        BY <1>2, <3>2 DEF Directory, NoDirectory
      <3>4. Ensured(NumberOf(r))'.docx = Payload(r)
        BY <1>6, <3>1, <3>3 DEF Ensured, Issuing, Counted
      <3> QED BY <1>6, <3>1, <3>4 DEF Page, Issuing, Counted
    <2>2. CASE ConvertDocx(r)
      <3>1. request'[r].step = "printed" /\ request[r].step = "written"
        BY <1>2, <2>2 DEF ConvertDocx, Goto, Issue
      <3>2. Ensured(NumberOf(r)).docx = Payload(r) BY <1>7, <3>1 DEF Page
      <3>3. temp[NumberOf(r)] \in Directory /\ Ensured(NumberOf(r)) = temp[NumberOf(r)]
        BY <1>2, <2>2 DEF ConvertDocx, Ensured, EmptyDirectory
      <3>4. temp'[NumberOf(r)] = [temp[NumberOf(r)] EXCEPT !.pdf = Ensured(NumberOf(r)).docx]
        BY <1>2, <2>2 DEF ConvertDocx
      <3>5. temp'[NumberOf(r)].pdf = Payload(r) /\ temp'[NumberOf(r)] # NoDirectory
        BY <3>2, <3>3, <3>4 DEF Directory, NoDirectory
      <3>6. Ensured(NumberOf(r))'.pdf = Payload(r)
        BY <1>6, <3>1, <3>5 DEF Ensured, Issuing, Counted
      <3> QED BY <1>6, <3>1, <3>6 DEF Page, Issuing, Counted
    <2>3. CASE PrintFallback(r)
      <3>1. CASE temp[NumberOf(r)] = NoDirectory
        BY <1>2, <2>3, <3>1 DEF PrintFallback, Goto, Page, Issue
      <3>2. CASE temp[NumberOf(r)] # NoDirectory
        <4>1. request'[r].step = "printed" BY <1>2, <2>3, <3>2 DEF PrintFallback, Goto, Issue
        <4>2. temp'[NumberOf(r)] = [temp[NumberOf(r)] EXCEPT !.pdf = Payload(r)]
          BY <1>2, <2>3, <3>2 DEF PrintFallback
        <4>3. temp'[NumberOf(r)].pdf = Payload(r) /\ temp'[NumberOf(r)] # NoDirectory
          BY <1>2, <3>2, <4>2 DEF Directory, NoDirectory
        <4>4. Ensured(NumberOf(r))'.pdf = Payload(r)
          BY <1>6, <4>1, <4>3 DEF Ensured, Issuing, Counted
        <4> QED BY <1>6, <4>1, <4>4 DEF Page, Issuing, Counted
      <3> QED BY <3>1, <3>2
    <2>4. CASE RegisterFile(r)
      <3>1. Ensured(NumberOf(r)).pdf = Payload(r) BY <1>7, <2>4 DEF RegisterFile, Page
      <3>2. CASE Goto(r, "failed") BY <1>2, <3>2 DEF Goto, Page, Issue
      <3>3. CASE request' = [request EXCEPT ![r].step = "stored", ![r].file = Ensured(NumberOf(r)).pdf]
        <4>1. request'[r].step = "stored" /\ request'[r].file = Ensured(NumberOf(r)).pdf
          BY <1>2, <3>3 DEF Issue
        <4> QED BY <1>6, <3>1, <4>1 DEF Page, Issuing, Counted
      <3> QED BY <2>4, <3>2, <3>3 DEF RegisterFile
    <2>5. CASE RemoveDirectory(r)
      <3>1. CASE request[r].step = "stored"
        <4>1. request'[r].step = "ready" /\ request'[r].file = request[r].file
          BY <1>2, <2>5, <3>1 DEF RemoveDirectory, Goto, Issue
        <4> QED BY <1>6, <1>7, <3>1, <4>1 DEF Page, Issuing, Counted
      <3>2. CASE request[r].step # "stored"
        BY <1>2, <2>5, <3>2 DEF RemoveDirectory, Finish, Idle, Page
      <3> QED BY <3>1, <3>2
    <2> QED BY <2>1, <2>2, <2>3, <2>4, <2>5
  <1> QED BY <1>1, <1>3, <1>4, <1>5, <1>8, OnePage DEF Issuing

LEMMA NextPages ==
    ASSUME "day" \in Separate, Types, PageInv, [Next]_vars
    PROVE  PageInv'
  <1>0. request \in [Slots -> {Idle} \cup Issue \cup Change] BY DEF Types, TypeOK
  <1> USE DEF Issuing, Counted, Idle
  <1>1. CASE UNCHANGED vars BY <1>1, NoPage DEF vars, PageInv, PdfIsItsOwn
  <1>2. ASSUME NEW r \in Slots, NEW s \in Sources, NEW d \in Days, Resolve(r, s, d) PROVE PageInv'
    <2>1. /\ UNCHANGED <<receipts, temp>> /\ request'[r].step = "resolved" /\ request'[r].day = d
          /\ \A p \in Slots \ {r} : request'[p] = request[p]
      BY <1>0, <1>2 DEF Resolve
    <2>2. \A p \in Slots \ {r} : request[p].step \in Issuing => request[p].day # d
      <3> SUFFICES ASSUME NEW p \in Slots, request[p].step \in Issuing PROVE request[p].day # d
        OBVIOUS
      <3>1. request[p] \in Issue /\ request[p].step # "idle" BY <1>0 DEF Change
      <3>2. "day" \in DOMAIN request[p] BY <3>1 DEF Issue
      <3> QED BY <1>2, <3>1, <3>2 DEF Resolve, Apart
    <2>3. OwnDays' BY <2>1, <2>2 DEF PageInv, OwnDays
    <2>4. Page(r)' BY <2>1 DEF Page
    <2>5. \A p \in Slots \ {r} : Page(p)' BY <2>1, PageKept DEF PageInv
    <2>6. PdfIsItsOwn' BY <2>1 DEF PageInv, PdfIsItsOwn
    <2> QED BY <2>3, <2>4, <2>5, <2>6 DEF PageInv
  <1>3. ASSUME NEW r \in Slots, CheckDuplicate(r) \/ TakeNumber(r) \/ MakeDirectory(r) \/ TemplateFails(r)
        PROVE  PageInv'
    BY <1>3, BeforePrinting
  <1>4. ASSUME NEW r \in Slots,
               WriteDocx(r) \/ ConvertDocx(r) \/ PrintFallback(r) \/ RegisterFile(r) \/ RemoveDirectory(r)
        PROVE  PageInv'
    BY <1>4, WhilePrinting
  <1>5. ASSUME NEW r \in Slots, SaveReceipt(r) PROVE PageInv'
    <2>1. UNCHANGED temp /\ \A p \in Slots : request'[p] = request[p] \/ request'[p].step \notin Issuing
      BY <1>0, <1>5 DEF SaveReceipt, Finish
    <2>2. request[r].file = Payload(r) BY <1>5 DEF SaveReceipt, PageInv, Page
    <2>3. PdfIsItsOwn'
      <3>1. CASE NumberOf(r) \in DOMAIN receipts
        BY <1>5, <3>1 DEF SaveReceipt, PageInv, PdfIsItsOwn
      <3>2. CASE NumberOf(r) \notin DOMAIN receipts
        BY <1>5, <2>2, <3>2 DEF SaveReceipt, NewReceipt, Payload, PageInv, PdfIsItsOwn
      <3> QED BY <3>1, <3>2
    <2> QED BY <2>1, <2>3, NoPage
  <1>6. ASSUME NEW r \in Slots, NEW s \in Sources, NEW row \in Source, ClearChange(r, s, row)
      PROVE  PageInv'
    BY <1>0, <1>6, NoPage DEF ClearChange, PageInv, PdfIsItsOwn
  <1>7. ASSUME NEW r \in Slots, CommitChange(r) \/ ChangeFails(r) PROVE PageInv'
    BY <1>0, <1>7, NoPage DEF CommitChange, ChangeFails, Finish, PageInv, PdfIsItsOwn
  <1>8. ASSUME NEW s \in Sources, NEW a \in Amounts, CreateSource(s, a) PROVE PageInv'
    BY <1>8, NoPage DEF CreateSource, PageInv, PdfIsItsOwn
  <1>9. ASSUME NEW s \in Records, MarkPaid(s) PROVE PageInv'
    BY <1>9, NoPage DEF MarkPaid, PageInv, PdfIsItsOwn
  <1>10. ASSUME NEW k \in DOMAIN receipts, VoidReceipt(k) PROVE PageInv'
    <2>1. /\ UNCHANGED <<temp, request>> /\ DOMAIN receipts' = DOMAIN receipts
          /\ \A j \in DOMAIN receipts : /\ receipts'[j].pdf = receipts[j].pdf
                                        /\ receipts'[j].source = receipts[j].source
                                        /\ receipts'[j].amount = receipts[j].amount
      BY <1>10 DEF VoidReceipt, Types, TypeOK, Receipt
    <2> QED BY <2>1, NoPage DEF PageInv, PdfIsItsOwn
  <1>11. CASE Crash BY <1>11, NoPage DEF Crash, PageInv, PdfIsItsOwn
  <1> QED BY <1>1, <1>2, <1>3, <1>4, <1>5, <1>6, <1>7, <1>8, <1>9, <1>10, <1>11
          DEF Next, IssueStep, SourceStep

-----------------------------------------------------------------------------
(***************************************************************************)
(* However many requests issue, change and void, and wherever they fail or *)
(* die: while no two are about one source, each source has one active      *)
(* receipt, which states what the source says; while no two issue for one  *)
(* day, each receipt is printed on its own page.                           *)
(***************************************************************************)
THEOREM ReceiptsAlwaysHold == Spec => []ReceiptsHold
<1> DEFINE Held == /\ Types
                   /\ "source" \in Separate => SourceInv
                   /\ "day" \in Separate => PageInv
<1>1. Init => Held BY InitTypes, InitSources, InitPages
<1>2. Held /\ [Next]_vars => Held' BY NextTypes, NextSources, NextPages
<1>3. Held => ReceiptsHold BY DEF ReceiptsHold, Types, SourceInv, PageInv
<1> HIDE DEF Held
<1> QED BY <1>1, <1>2, <1>3, PTL DEF Spec
-----------------------------------------------------------------------------
(***************************************************************************)
(* Updating the deployment. An update counts because the container that    *)
(* says so replaced both services, and nothing replaces them after it but  *)
(* the container of a later start; the failure of a start is forgotten     *)
(* when a later container runs, because a start that finds one running     *)
(* ends without touching it.                                               *)
(***************************************************************************)
AtMostOne(S) == \A x, y \in S : x = y

Targeted == {"pull", "remove", "create", "start"}
Updaters == [attempt : Nat, revision : Nat, state : {"created", "running", "exited"},
             step : {"pull", "backup", "up", "wait"}, backedUp : BOOLEAN, code : Nat]
StartSteps == [id : Nat, step : {"inspect", "release"} \cup Targeted,
               found : SUBSET Updaters, target : Nat]
Failures == [attempt : Nat, succeeded : {FALSE}, revision : Nat]

UpdateTypes ==
    /\ published \in 0..MaxReleases /\ attempts \in 0..MaxAttempts /\ updateFaults \in 0..MaxUpdateFaults
    /\ backend \in [starting : BOOLEAN, startFailure : SUBSET Failures]
    /\ backend.starting <=> attempt # {}
    /\ attempt \subseteq StartSteps /\ AtMostOne(attempt)
    /\ container \subseteq Updaters /\ AtMostOne(container)
    /\ services \in [Update!Services -> Nat] /\ healthy \subseteq Update!Services

\* No release is newer than the published one, and none of what an update replaces.
InOrder ==
    /\ \A s \in Update!Services : services[s] <= published
    /\ \A c \in container :
          c.revision <= published /\ \A s \in Update!Services : services[s] <= c.revision
    /\ \A a \in attempt : a.step \in Targeted =>
          /\ a.target <= published
          /\ \A s \in Update!Services : services[s] <= a.target
          /\ \A c \in container : c.revision <= a.target

Deployed ==
    \A c \in container :
        /\ c.state = "exited" /\ c.code = 0 => \A s \in Update!Services : services[s] = c.revision
        /\ c.step \in {"up", "wait"} => c.backedUp

Numbered ==
    /\ \A a \in attempt : a.id = attempts
    /\ \A c \in container : c.attempt <= attempts

Answered ==
    /\ late = {}
    /\ \A a \in attempt : a.step # "inspect" => ~Update!Running(container)
    /\ \A a \in attempt, c \in container :
          a.step = "start" => c.attempt = a.id /\ c.state = "created"
    /\ \A f \in backend.startFailure, c \in container :
          \/ f.attempt >= c.attempt
          \/ c.state = "created" /\ \E a \in attempt : a.step = "start"

UpdateInv ==
    UpdateTypes /\ InOrder /\ Deployed /\ Numbered /\ (StartsAnswer => Answered)

\* It holds at first.
LEMMA UpdateInit == Update!BoundsAssumption /\ Update!Init => UpdateInv
  <1> SUFFICES ASSUME Update!BoundsAssumption, Update!Init PROVE UpdateInv OBVIOUS
  <1> USE DEF Update!BoundsAssumption, Update!Init, Update!Fresh, Update!Services
  <1>1. UpdateTypes BY DEF UpdateTypes, AtMostOne
  <1>2. InOrder /\ Deployed /\ Numbered /\ Answered BY DEF InOrder, Deployed, Numbered, Answered
  <1> QED BY <1>1, <1>2 DEF UpdateInv

\* The start, or the end of a start, at a step that is not "start".
LEMMA StartStepTyped ==
    ASSUME UpdateTypes, NEW a \in attempt
    PROVE  /\ attempt = {a} /\ a \in StartSteps /\ backend.starting
           /\ \A step \in {"inspect", "release"} \cup Targeted :
                /\ [a EXCEPT !.step = step] \in StartSteps
                /\ [a EXCEPT !.step = step].step = step
                /\ [a EXCEPT !.step = step].id = a.id
                /\ [a EXCEPT !.step = step].target = a.target
  BY DEF UpdateTypes, AtMostOne, StartSteps

\* A start that goes on.
LEMMA GoesOnKeeps ==
    ASSUME UpdateInv, NEW a \in attempt, NEW b \in StartSteps, attempt' = {b}, b.id = a.id,
           UNCHANGED <<published, services, healthy, late, backend, attempts, updateFaults, container>>,
           b.step \in Targeted => /\ b.target <= published
                                  /\ \A s \in Update!Services : services[s] <= b.target
                                  /\ \A c \in container : c.revision <= b.target,
           b.step # "start", a.step # "start",
           StartsAnswer /\ b.step # "inspect" => ~Update!Running(container)
    PROVE UpdateInv'
  <1>1. UpdateTypes' BY StartStepTyped DEF UpdateInv, UpdateTypes, AtMostOne
  <1>2. InOrder' BY DEF UpdateInv, InOrder
  <1>3. Deployed' BY DEF UpdateInv, Deployed
  <1>4. Numbered' BY DEF UpdateInv, Numbered
  <1>5. StartsAnswer => Answered'
    <2>1. attempt = {a} BY StartStepTyped DEF UpdateInv
    <2> QED BY <2>1 DEF UpdateInv, Answered, Update!Running
  <1> QED BY <1>1, <1>2, <1>3, <1>4, <1>5 DEF UpdateInv

\* The parts that a step leaves alone when nothing they speak of changes.
LEMMA DeployedKept ==
    ASSUME UpdateInv, UNCHANGED <<published, services>>, container' = container \/ container' = {}
    PROVE  Deployed'
  BY DEF UpdateInv, Deployed

\* A start that ends, whether it leaves a failure or not.
LEMMA EndsKeeps ==
    ASSUME UpdateInv, NEW a \in attempt, NEW failure \in SUBSET Failures, Update!Ends(failure),
           UNCHANGED <<published, services, healthy, attempts>>, updateFaults' \in 0..MaxUpdateFaults,
           container' \subseteq Updaters, AtMostOne(container'),
           \A c \in container' : /\ c \in container \/ (c.attempt = a.id /\ c.revision = a.target)
                                 /\ c \notin container => a.step \in Targeted
                                 /\ c.step \in {"up", "wait"} => c \in container
                                 /\ c.state = "exited" => c \in container,
           StartsAnswer => /\ late' = {}
                           /\ \A f \in failure, c \in container' : f.attempt >= c.attempt
    PROVE  UpdateInv'
  <1>1. attempt = {a} /\ a \in StartSteps BY StartStepTyped DEF UpdateInv
  <1>2. attempt' = {} /\ backend' = [starting |-> FALSE, startFailure |-> failure]
    BY DEF Update!Ends
  <1>3. UpdateTypes' BY <1>2 DEF UpdateInv, UpdateTypes, AtMostOne
  <1>4. InOrder' BY <1>1, <1>2 DEF UpdateInv, InOrder
  <1>5. Deployed' BY <1>2 DEF UpdateInv, Deployed
  <1>6. Numbered' BY <1>1, <1>2 DEF UpdateInv, Numbered, UpdateTypes
  <1>7. StartsAnswer => Answered' BY <1>2 DEF Answered
  <1> QED BY <1>3, <1>4, <1>5, <1>6, <1>7 DEF UpdateInv

\* The failure of a start is about that start.
LEMMA FailureTyped ==
    ASSUME UpdateInv, NEW a \in attempt
    PROVE  /\ Update!Failure(a) \in SUBSET Failures
           /\ \A f \in Update!Failure(a) : f.attempt = a.id
  BY StartStepTyped DEF UpdateInv, Update!Failure, Failures, StartSteps

\* Each action keeps the invariant: a start begins only when none is under way.
LEMMA StartUpdateKeeps == ASSUME Update!BoundsAssumption, UpdateInv, Update!StartUpdate
    PROVE  UpdateInv'
  <1> DEFINE a == [id |-> attempts', step |-> "inspect", found |-> {}, target |-> 0]
  <1>1. attempts' \in 0..MaxAttempts /\ attempts' = attempts + 1 /\ attempts \in Nat
    BY DEF Update!StartUpdate, UpdateInv, UpdateTypes, Update!BoundsAssumption
  <1>2. a \in StartSteps /\ a.step = "inspect" /\ a.id = attempts + 1 /\ attempt' = {a}
    BY <1>1 DEF Update!StartUpdate, StartSteps
  <1>3. attempt = {} BY DEF Update!StartUpdate, UpdateInv, UpdateTypes
  <1> HIDE DEF a
  <1> USE DEF Update!StartUpdate, Update!Host
  <1>4. UpdateTypes' BY <1>1, <1>2 DEF UpdateInv, UpdateTypes, AtMostOne
  <1>5. InOrder' BY <1>2 DEF UpdateInv, InOrder, Targeted
  <1>6. Deployed' BY DEF UpdateInv, Deployed
  <1>7. Numbered'
    BY <1>1, <1>2 DEF UpdateInv, Numbered, UpdateTypes, Updaters
  <1>8. StartsAnswer => Answered'
    BY <1>2, <1>3 DEF UpdateInv, UpdateTypes, Answered, Update!Running
  <1> QED BY <1>4, <1>5, <1>6, <1>7, <1>8 DEF UpdateInv

\* A running updater ends the start; what failed before it is not newer.
LEMMA InspectKeeps == ASSUME UpdateInv, Update!Inspect PROVE UpdateInv'
  <1>1. PICK a \in Update!At("inspect") :
          /\ IF Update!Running(container) THEN Update!Conflict
             ELSE Update!GoesOn([a EXCEPT !.found = container], "release")
          /\ UNCHANGED <<Update!Host, container, attempts, updateFaults>>
    BY DEF Update!Inspect
  <1>2. a \in attempt /\ a.step = "inspect" BY DEF Update!At
  <1>3. CASE Update!Running(container)
    <2>1. Update!Ends(backend.startFailure) /\ backend.startFailure \in SUBSET Failures
      BY <1>1, <1>3 DEF Update!Conflict, UpdateInv, UpdateTypes
    <2>2. StartsAnswer => \A f \in backend.startFailure, c \in container : f.attempt >= c.attempt
      BY <1>2, <1>3, StartStepTyped DEF UpdateInv, Answered, Update!Running, UpdateTypes, AtMostOne
    <2> QED BY <1>1, <1>2, <2>1, <2>2, EndsKeeps DEF Update!Host, UpdateInv, UpdateTypes, Answered
  <1>4. CASE ~Update!Running(container)
    <2> DEFINE b == [[a EXCEPT !.found = container] EXCEPT !.step = "release"]
    <2>1. b \in StartSteps /\ b.step = "release" /\ b.id = a.id
      BY <1>2, StartStepTyped DEF UpdateInv, UpdateTypes, StartSteps
    <2>2. attempt' = {b} /\ UNCHANGED backend BY <1>1, <1>4 DEF Update!GoesOn
    <2> HIDE DEF b
    <2> QED BY <1>1, <1>2, <1>4, <2>1, <2>2, GoesOnKeeps DEF Update!Host, Targeted
  <1> QED BY <1>3, <1>4

\* The target is the newest release, which no service is ahead of.
LEMMA FetchReleaseKeeps == ASSUME Update!BoundsAssumption, UpdateInv, Update!FetchRelease
    PROVE  UpdateInv'
  <1>1. PICK a \in Update!At("release") :
          /\ IF published = 0 THEN Update!Ends(Update!Failure(a))
             ELSE Update!GoesOn([a EXCEPT !.target = published], "pull")
          /\ UNCHANGED <<Update!Host, container, attempts, updateFaults>>
    BY DEF Update!FetchRelease
  <1>2. a \in attempt /\ a.step = "release" BY DEF Update!At
  <1>3. CASE published = 0
    <2>1. StartsAnswer => \A f \in Update!Failure(a), c \in container : f.attempt >= c.attempt
      BY <1>2, FailureTyped DEF UpdateInv, UpdateTypes, Updaters, Numbered
    <2> QED BY <1>1, <1>2, <1>3, <2>1, FailureTyped, EndsKeeps DEF Update!Host, UpdateInv,
            UpdateTypes, Answered
  <1>4. CASE published # 0
    <2> DEFINE b == [[a EXCEPT !.target = published] EXCEPT !.step = "pull"]
    <2>1. /\ b \in StartSteps /\ b.step = "pull" /\ b.id = a.id
          /\ b.target = published /\ published \in Nat
      <3>1. a \in StartSteps /\ published \in Nat
        BY <1>2, StartStepTyped DEF UpdateInv, UpdateTypes, Update!BoundsAssumption
      <3> QED BY <3>1 DEF StartSteps, Targeted
    <2>2. attempt' = {b} /\ UNCHANGED backend BY <1>1, <1>4 DEF Update!GoesOn
    <2> HIDE DEF b
    <2>3. ~Update!Running(container) \/ ~StartsAnswer
      BY <1>2 DEF UpdateInv, Answered
    <2>4. /\ \A s \in Update!Services : services[s] <= b.target
          /\ \A c \in container : c.revision <= b.target
          /\ b.target <= published
      BY <2>1 DEF UpdateInv, InOrder
    <2> QED BY <1>1, <1>2, <2>1, <2>2, <2>3, <2>4, GoesOnKeeps DEF Update!Host
  <1> QED BY <1>3, <1>4

\* A step on the way to Docker's create or start keeps its target.
LEMMA TargetedKeeps ==
    ASSUME UpdateInv, NEW a \in attempt, a.step \in Targeted
    PROVE  /\ a.target <= published
           /\ \A s \in Update!Services : services[s] <= a.target
           /\ \A c \in container : c.revision <= a.target
           /\ StartsAnswer => ~Update!Running(container)
  BY DEF UpdateInv, InOrder, Answered, Targeted

\* The image: nothing of the host changes.
LEMMA PullImageKeeps == ASSUME UpdateInv, Update!PullImage PROVE UpdateInv'
  <1>1. PICK a \in Update!At("pull") :
          /\ Update!GoesOn(a, IF a.found = {} THEN "create" ELSE "remove")
          /\ UNCHANGED <<Update!Host, container, attempts, updateFaults>>
    BY DEF Update!PullImage
  <1>2. a \in attempt /\ a.step = "pull" BY DEF Update!At
  <1>3. PICK b \in StartSteps : /\ attempt' = {b} /\ b.id = a.id /\ b.target = a.target
                                /\ b.step \in {"create", "remove"} /\ UNCHANGED backend
    BY <1>1, <1>2, StartStepTyped DEF Update!GoesOn, UpdateInv, Targeted
  <1> QED BY <1>1, <1>2, <1>3, TargetedKeeps, GoesOnKeeps DEF Update!Host, Targeted

\* The container that is removed is not running as long as Docker answers.
LEMMA RemoveContainerKeeps == ASSUME UpdateInv, Update!RemoveContainer PROVE UpdateInv'
  <1>1. PICK a \in Update!At("remove") :
          /\ container' = {} /\ Update!GoesOn(a, "create")
          /\ UNCHANGED <<Update!Host, attempts, updateFaults>>
    BY DEF Update!RemoveContainer
  <1>2. a \in attempt /\ a.step = "remove" BY DEF Update!At
  <1>3. PICK b \in StartSteps : /\ attempt' = {b} /\ b.id = a.id /\ b.target = a.target
                                /\ b.step = "create" /\ UNCHANGED backend
    BY <1>1, <1>2, StartStepTyped DEF Update!GoesOn, UpdateInv, Targeted
  <1>4. UpdateTypes'
    BY <1>1, <1>2, <1>3, StartStepTyped DEF UpdateInv, UpdateTypes, AtMostOne, Update!Host
  <1>5. InOrder' BY <1>1, <1>2, <1>3, TargetedKeeps DEF UpdateInv, InOrder, Update!Host, Targeted
  <1>6. Deployed' BY <1>1 DEF Deployed
  <1>7. Numbered' BY <1>1, <1>2, <1>3 DEF UpdateInv, Numbered
  <1>8. StartsAnswer => Answered'
    BY <1>1, <1>2, <1>3 DEF UpdateInv, Answered, Update!Running, Update!Host
  <1> QED BY <1>4, <1>5, <1>6, <1>7, <1>8 DEF UpdateInv

\* The container that a start creates.
LEMMA CreatedTyped ==
    ASSUME UpdateInv, Update!BoundsAssumption, NEW a \in attempt
    PROVE  /\ Update!Created(a) \subseteq Updaters /\ AtMostOne(Update!Created(a))
           /\ \A c \in Update!Created(a) : /\ c.attempt = a.id /\ c.revision = a.target
                                    /\ c.state = "created" /\ c.step = "pull"
  <1>1. a \in StartSteps BY StartStepTyped DEF UpdateInv
  <1> QED BY <1>1 DEF Update!Created, StartSteps, Updaters, AtMostOne

\* The container is made for the target, by the last of the starts.
LEMMA CreateContainerKeeps == ASSUME Update!BoundsAssumption, UpdateInv, Update!CreateContainer
    PROVE  UpdateInv'
  <1>1. PICK a \in Update!At("create") :
          /\ IF container = {} THEN container' = Update!Created(a) /\ Update!GoesOn(a, "start")
             ELSE Update!Ends(Update!Failure(a)) /\ UNCHANGED container
          /\ UNCHANGED <<Update!Host, attempts, updateFaults>>
    BY DEF Update!CreateContainer
  <1>2. a \in attempt /\ a.step = "create" BY DEF Update!At
  <1>3. CASE container = {}
    <2>1. PICK b \in StartSteps : /\ attempt' = {b} /\ b.id = a.id /\ b.target = a.target
                                  /\ b.step = "start" /\ UNCHANGED backend
      BY <1>1, <1>2, <1>3, StartStepTyped DEF Update!GoesOn, UpdateInv, Targeted
    <2>2. container' = Update!Created(a) BY <1>1, <1>3
    <2>3. a.target <= a.target
      <3>1. a.target \in Nat BY <1>2, StartStepTyped DEF UpdateInv, StartSteps
      <3> QED BY <3>1
    <2>4. a.id = attempts /\ a.id <= attempts BY <1>2 DEF UpdateInv, Numbered, UpdateTypes
    <2>5. UpdateTypes'
      BY <1>1, <1>2, <2>1, <2>2, CreatedTyped, StartStepTyped DEF UpdateInv, UpdateTypes, AtMostOne,
         Update!Host
    <2>6. InOrder'
      BY <1>1, <1>2, <2>1, <2>2, <2>3, CreatedTyped, TargetedKeeps
      DEF UpdateInv, InOrder, Update!Host, Targeted
    <2>7. Deployed' BY <2>2, <1>2, CreatedTyped DEF Deployed
    <2>8. Numbered' BY <1>1, <1>2, <2>1, <2>2, <2>4, CreatedTyped DEF UpdateInv, Numbered
    <2>9. StartsAnswer => Answered'
      BY <1>1, <1>2, <2>1, <2>2, CreatedTyped DEF UpdateInv, Answered, Update!Running, Update!Host
    <2> QED BY <2>5, <2>6, <2>7, <2>8, <2>9 DEF UpdateInv
  <1>4. CASE container # {}
    <2>1. \A f \in Update!Failure(a), c \in container : f.attempt >= c.attempt
      BY <1>2, FailureTyped DEF UpdateInv, UpdateTypes, Updaters, Numbered
    <2> QED BY <1>1, <1>2, <1>4, <2>1, FailureTyped, EndsKeeps DEF Update!Host, UpdateInv,
            UpdateTypes, Answered
  <1> QED BY <1>3, <1>4

\* What a container is like when it has been started.
LEMMA StartedTyped ==
    ASSUME UpdateInv, NEW c \in container
    PROVE  \E d \in Updaters :
               /\ container = {c} /\ Update!Started(c) = {d} /\ d.attempt = c.attempt
               /\ d.revision = c.revision /\ d.step = c.step /\ d.backedUp = c.backedUp
               /\ d.state = "running" /\ d.code = c.code
  <1>1. c \in Updaters /\ container = {c} BY DEF UpdateInv, UpdateTypes, AtMostOne
  <1> DEFINE d == [c EXCEPT !.state = "running"]
  <1>2. /\ d \in Updaters /\ d.attempt = c.attempt /\ d.revision = c.revision /\ d.step = c.step
        /\ d.backedUp = c.backedUp /\ d.state = "running" /\ d.code = c.code
    BY <1>1 DEF Updaters
  <1>3. Update!Started(c) = {d} BY DEF Update!Started
  <1> HIDE DEF d
  <1> QED BY <1>1, <1>2, <1>3

\* The container is started, whoever waits for the answer.
LEMMA StartingKeeps ==
    ASSUME UpdateInv, NEW c \in container, container' = Update!Started(c),
           UNCHANGED <<published, services>>
    PROVE  /\ container' \subseteq Updaters /\ AtMostOne(container')
           /\ Deployed'
           /\ \A d \in container' : d.attempt = c.attempt /\ d.revision = c.revision
  <1>1. PICK d \in Updaters :
               /\ container = {c} /\ Update!Started(c) = {d} /\ d.attempt = c.attempt
               /\ d.revision = c.revision /\ d.step = c.step /\ d.backedUp = c.backedUp
               /\ d.state = "running" /\ d.code = c.code
    BY StartedTyped
  <1> QED BY <1>1 DEF AtMostOne, Deployed, UpdateInv

\* The start ends and forgets what failed before.
LEMMA StartContainerKeeps == ASSUME UpdateInv, Update!StartContainer PROVE UpdateInv'
  <1>1. PICK a \in Update!At("start"), c \in container :
          /\ container' = Update!Started(c) /\ Update!Ends({})
          /\ UNCHANGED <<Update!Host, attempts, updateFaults>>
    BY DEF Update!StartContainer
  <1>2. a \in attempt /\ attempt' = {} /\ backend' = [starting |-> FALSE, startFailure |-> {}]
    BY <1>1 DEF Update!At, Update!Ends
  <1>3. UpdateTypes' BY <1>1, <1>2, StartingKeeps DEF UpdateInv, UpdateTypes, AtMostOne, Update!Host
  <1>4. InOrder' BY <1>1, <1>2, StartingKeeps DEF UpdateInv, InOrder, Update!Host
  <1>5. Deployed' BY <1>1, StartingKeeps DEF Update!Host
  <1>6. Numbered' BY <1>1, <1>2, StartingKeeps DEF UpdateInv, Numbered, Update!Host
  <1>7. StartsAnswer => Answered' BY <1>1, <1>2 DEF UpdateInv, Answered, Update!Host
  <1> QED BY <1>3, <1>4, <1>5, <1>6, <1>7 DEF UpdateInv

\* A call that starts the container fails only where Docker need not answer.
LEMMA StartFailsKeeps ==
    ASSUME UpdateInv, NEW a \in attempt, a.step = "start", ~StartsAnswer,
           Update!Ends(backend.startFailure), UNCHANGED <<published, services, healthy, attempts>>,
           updateFaults' \in 0..MaxUpdateFaults,
           \/ container' = container
           \/ container' = UNION {Update!Started(c) : c \in container}
    PROVE  UpdateInv'
  <1>1. attempt' = {} /\ backend' = [starting |-> FALSE, startFailure |-> backend.startFailure]
    BY DEF Update!Ends
  <1>2. /\ container' \subseteq Updaters /\ AtMostOne(container') /\ Deployed'
        /\ \A d \in container' : \E c \in container :
              d.attempt = c.attempt /\ d.revision = c.revision
    <2>1. CASE container' = container BY <2>1, DeployedKept DEF UpdateInv, UpdateTypes
    <2>2. CASE container = {} /\ container' = {} BY <2>2 DEF AtMostOne, Deployed
    <2>3. CASE container # {} /\ container' = UNION {Update!Started(c) : c \in container}
      <3>1. PICK c \in container : container = {c} BY <2>3 DEF UpdateInv, UpdateTypes, AtMostOne
      <3>2. container' = Update!Started(c) BY <2>3, <3>1
      <3> QED BY <3>1, <3>2, StartingKeeps
    <2> QED BY <2>1, <2>2, <2>3
  <1>3. UpdateTypes' BY <1>1, <1>2 DEF UpdateInv, UpdateTypes, AtMostOne
  <1>4. InOrder' BY <1>1, <1>2 DEF UpdateInv, InOrder
  <1>5. Numbered' BY <1>1, <1>2 DEF UpdateInv, Numbered
  <1> QED BY <1>2, <1>3, <1>4, <1>5 DEF UpdateInv

\* A call that fails, whatever it has done by then.
LEMMA CallFailsKeeps == ASSUME Update!BoundsAssumption, UpdateInv, Update!CallFails PROVE UpdateInv'
  <1>1. PICK a \in attempt :
        /\ Update!Fault /\ (StartsAnswer => a.step # "start")
        /\ Update!Ends(IF a.step = "start" THEN backend.startFailure ELSE Update!Failure(a))
        /\ CASE a.step = "remove" -> container' \in {container, {}} /\ UNCHANGED late
             [] a.step = "create" /\ container = {} ->
                    container' \in {container, Update!Created(a)} /\ UNCHANGED late
             [] a.step = "start" ->
                    \/ container' \in {container, UNION {Update!Started(c) : c \in container}}
                       /\ UNCHANGED late
                    \/ late' = late \cup {a.id} /\ UNCHANGED container
             [] OTHER -> UNCHANGED <<container, late>>
        /\ UNCHANGED <<published, services, healthy, attempts>>
    BY DEF Update!CallFails
  <1>2. updateFaults' \in 0..MaxUpdateFaults
    BY <1>1 DEF Update!Fault, Update!BoundsAssumption, UpdateInv, UpdateTypes
  <1>3. CASE a.step = "start"
    <2>1. Update!Ends(backend.startFailure) /\ ~StartsAnswer BY <1>1, <1>3
    <2>2. container' = container \/ container' = UNION {Update!Started(c) : c \in container}
      BY <1>1, <1>3
    <2> QED BY <1>1, <1>2, <1>3, <2>1, <2>2, StartFailsKeeps
  <1>4. CASE a.step # "start"
    <2>1. Update!Ends(Update!Failure(a)) /\ UNCHANGED late BY <1>1, <1>4
    <2>2. container' = container \/ container' = {} \/ (a.step = "create" /\ container' = Update!Created(a))
      BY <1>1, <1>4
    <2>3. \A f \in Update!Failure(a), c \in container' : f.attempt >= c.attempt
      BY <2>2, FailureTyped, CreatedTyped DEF UpdateInv, UpdateTypes, Updaters, Numbered
    <2>4. /\ container' \subseteq Updaters /\ AtMostOne(container')
          /\ \A c \in container' : /\ c \in container \/ (c.attempt = a.id /\ c.revision = a.target)
                                   /\ c \notin container => a.step \in Targeted
                                   /\ c.step \in {"up", "wait"} => c \in container
                                   /\ c.state = "exited" => c \in container
      BY <2>2, CreatedTyped DEF UpdateInv, UpdateTypes, AtMostOne, Targeted
    <2> QED BY <1>1, <1>2, <2>1, <2>3, <2>4, FailureTyped, EndsKeeps DEF UpdateInv, Answered
  <1> QED BY <1>3, <1>4

\* A container that is started after the call has timed out.
LEMMA StartedLateKeeps == ASSUME UpdateInv, Update!StartedLate PROVE UpdateInv'
  <1>1. PICK id \in late :
          container' = UNION {IF c.attempt = id THEN Update!Started(c) ELSE {c} : c \in container}
    BY DEF Update!StartedLate
  <1>2. ~StartsAnswer BY <1>1 DEF UpdateInv, Answered
  <1> USE DEF Update!StartedLate
  <1>3. /\ container' \subseteq Updaters /\ AtMostOne(container') /\ Deployed'
        /\ \A d \in container' : \E c \in container :
              d.attempt = c.attempt /\ d.revision = c.revision
    <2>1. CASE container = {}
      <3>1. container' = {} BY <1>1, <2>1
      <3> QED BY <3>1 DEF AtMostOne, Deployed
    <2>2. CASE container # {}
      <3>1. PICK c \in container : container = {c} BY <2>2 DEF UpdateInv, UpdateTypes, AtMostOne
      <3>2. container' = Update!Started(c) \/ container' = container BY <1>1, <3>1
      <3>3. CASE container' = container BY <3>3, DeployedKept DEF UpdateInv, UpdateTypes
      <3>4. CASE container' = Update!Started(c) BY <3>1, <3>4, StartingKeeps
      <3> QED BY <3>2, <3>3, <3>4
    <2> QED BY <2>1, <2>2
  <1>4. UpdateTypes' BY <1>3 DEF UpdateInv, UpdateTypes, AtMostOne
  <1>5. InOrder' BY <1>3 DEF UpdateInv, InOrder
  <1>6. Numbered' BY <1>3 DEF UpdateInv, Numbered
  <1> QED BY <1>2, <1>3, <1>4, <1>5, <1>6 DEF UpdateInv

\* The script of a container that is running.
LEMMA BusyContainer ==
    ASSUME UpdateInv, NEW c \in container, c.state = "running"
    PROVE  /\ c \in Updaters /\ container = {c}
           /\ StartsAnswer => /\ \A a \in attempt : a.step = "inspect"
                              /\ \A f \in backend.startFailure : f.attempt >= c.attempt
  BY DEF UpdateInv, UpdateTypes, AtMostOne, Answered, Update!Running

\* The script goes on, or ends.
LEMMA ScriptKeeps ==
    ASSUME UpdateInv, NEW c \in container, c.state = "running",
           NEW d \in Updaters, container' = {d},
           d.attempt = c.attempt, d.revision = c.revision, d.state \in {"running", "exited"},
           d.step \in {"up", "wait"} => d.backedUp,
           d.state = "exited" /\ d.code = 0 => \A s \in Update!Services : services[s] = c.revision,
           UNCHANGED <<published, late, attempts, backend, attempt, services, healthy, updateFaults>>
    PROVE  UpdateInv'
  <1>1. c \in Updaters /\ container = {c} BY BusyContainer
  <1>2. UpdateTypes' BY DEF UpdateInv, UpdateTypes, AtMostOne
  <1>3. InOrder' BY DEF UpdateInv, InOrder
  <1>4. Deployed' BY DEF Deployed
  <1>5. Numbered' BY DEF UpdateInv, Numbered
  <1>6. StartsAnswer => Answered' BY BusyContainer DEF UpdateInv, Answered
  <1> QED BY <1>2, <1>3, <1>4, <1>5, <1>6 DEF UpdateInv

\* What a container is like when its script has ended.
LEMMA ExitedTyped ==
    ASSUME NEW c \in Updaters, NEW code \in Nat
    PROVE  \E d \in Updaters : /\ Update!Exited(c, code) = {d} /\ d.attempt = c.attempt
                              /\ d.revision = c.revision /\ d.state = "exited" /\ d.code = code
                              /\ d.step = c.step /\ d.backedUp = c.backedUp
  <1> DEFINE d == [c EXCEPT !.state = "exited", !.code = code]
  <1>1. /\ d \in Updaters /\ d.attempt = c.attempt /\ d.revision = c.revision
        /\ d.state = "exited" /\ d.code = code /\ d.step = c.step /\ d.backedUp = c.backedUp
    BY DEF Updaters
  <1>2. Update!Exited(c, code) = {d} BY DEF Update!Exited
  <1> HIDE DEF d
  <1> QED BY <1>1, <1>2

\* The steps of the script.
LEMMA PullKeeps == ASSUME UpdateInv, Update!Pull PROVE UpdateInv'
  <1>1. PICK c \in Update!Busy("pull") : container' = {[c EXCEPT !.step = "backup"]}
    BY DEF Update!Pull
  <1>2. c \in container /\ c.state = "running" /\ c \in Updaters BY BusyContainer DEF Update!Busy
  <1> DEFINE d == [c EXCEPT !.step = "backup"]
  <1>3. /\ d \in Updaters /\ d.attempt = c.attempt /\ d.revision = c.revision
        /\ d.state = "running" /\ d.step = "backup"
    BY <1>2 DEF Updaters
  <1>4. container' = {d} BY <1>1
  <1> HIDE DEF d
  <1> QED BY <1>2, <1>3, <1>4, ScriptKeeps DEF Update!Pull, Update!Memory

\* From here on there is a backup.
LEMMA BackupKeeps == ASSUME UpdateInv, Update!Backup PROVE UpdateInv'
  <1>1. PICK c \in Update!Busy("backup") : container' = {[c EXCEPT !.step = "up", !.backedUp = TRUE]}
    BY DEF Update!Backup
  <1>2. c \in container /\ c.state = "running" /\ c \in Updaters BY BusyContainer DEF Update!Busy
  <1> DEFINE d == [c EXCEPT !.step = "up", !.backedUp = TRUE]
  <1>3. /\ d \in Updaters /\ d.attempt = c.attempt /\ d.revision = c.revision
        /\ d.state = "running" /\ d.backedUp
    BY <1>2 DEF Updaters
  <1>4. container' = {d} BY <1>1
  <1> HIDE DEF d
  <1> QED BY <1>2, <1>3, <1>4, ScriptKeeps DEF Update!Backup, Update!Memory

\* Both services run the release when the script succeeds.
LEMMA VerifiedKeeps == ASSUME UpdateInv, Update!Verified PROVE UpdateInv'
  <1>1. PICK c \in Update!Busy("wait") : Update!Ready(c) /\ container' = Update!Exited(c, 0)
    BY DEF Update!Verified
  <1>2. c \in container /\ c.state = "running" /\ c \in Updaters BY BusyContainer DEF Update!Busy
  <1>3. PICK d \in Updaters : /\ container' = {d} /\ d.attempt = c.attempt
                              /\ d.revision = c.revision /\ d.state = "exited" /\ d.code = 0
                              /\ d.step = c.step /\ d.backedUp = c.backedUp
    BY <1>1, <1>2, ExitedTyped
  <1>4. d.step \in {"up", "wait"} => d.backedUp BY <1>2, <1>3 DEF UpdateInv, Deployed
  <1> QED BY <1>1, <1>2, <1>3, <1>4, ScriptKeeps DEF Update!Verified, Update!Ready, Update!Memory

\* No other exit code is zero.
LEMMA ScriptFailsKeeps == ASSUME UpdateInv, Update!ScriptFails PROVE UpdateInv'
  <1>1. PICK c \in container, code \in {1, 42, 43, 124} :
          c.state = "running" /\ container' = Update!Exited(c, code)
    BY DEF Update!ScriptFails
  <1>2. c \in Updaters BY <1>1, BusyContainer
  <1>3. PICK d \in Updaters : /\ container' = {d} /\ d.attempt = c.attempt
                              /\ d.revision = c.revision /\ d.state = "exited" /\ d.code = code
                              /\ d.step = c.step /\ d.backedUp = c.backedUp
    BY <1>1, <1>2, ExitedTyped
  <1>4. d.step \in {"up", "wait"} => d.backedUp BY <1>1, <1>3 DEF UpdateInv, Deployed
  <1> QED BY <1>1, <1>3, <1>4, ScriptKeeps DEF Update!ScriptFails, Update!Memory

\* Services are replaced by a container that is running.
LEMMA UpKeeps == ASSUME Update!BoundsAssumption, UpdateInv, Update!Up PROVE UpdateInv'
  <1>1. PICK c \in Update!Busy("up") :
        LET old == {s \in Update!Services : services[s] # c.revision} IN
        \/ \E s \in old :
              /\ services' = [services EXCEPT ![s] = c.revision]
              /\ healthy' = healthy \ {s}
              /\ IF s = "backend" THEN Update!Restarts ELSE UNCHANGED <<backend, attempt>>
              /\ UNCHANGED <<published, late, container, attempts, updateFaults>>
        \/ /\ old = {}
           /\ container' = {[c EXCEPT !.step = "wait"]}
           /\ UNCHANGED <<Update!Memory, backend, attempt, services, healthy, updateFaults>>
    BY DEF Update!Up
  <1>2. c \in container /\ c.state = "running" /\ c.step = "up" BY DEF Update!Busy
  <1>3. c \in Updaters /\ container = {c} BY <1>2, BusyContainer
  <1>4. ASSUME NEW s \in Update!Services,
               services' = [services EXCEPT ![s] = c.revision], healthy' = healthy \ {s},
               IF s = "backend" THEN Update!Restarts ELSE UNCHANGED <<backend, attempt>>,
               UNCHANGED <<published, late, container, attempts, updateFaults>>
        PROVE  UpdateInv'
    <2>1. (backend' = Update!Fresh /\ attempt' = {}) \/ (backend' = backend /\ attempt' = attempt)
      BY <1>4 DEF Update!Restarts
    <2>9. /\ Update!Fresh \in [starting : BOOLEAN, startFailure : SUBSET Failures]
          /\ ~Update!Fresh.starting /\ Update!Fresh.startFailure = {}
      BY DEF Update!Fresh
    <2>10. /\ backend' \in [starting : BOOLEAN, startFailure : SUBSET Failures]
           /\ backend'.starting <=> attempt' # {}
           /\ attempt' \subseteq attempt
      BY <2>1, <2>9 DEF UpdateInv, UpdateTypes
    <2>2. c.revision \in Nat /\ c.revision <= published /\ c.revision <= c.revision
      BY <1>3, <1>2 DEF Updaters, UpdateInv, InOrder
    <2>11. services' \in [Update!Services -> Nat]
      BY <1>4, <2>2 DEF UpdateInv, UpdateTypes
    <2>3. UpdateTypes' BY <1>4, <2>10, <2>11 DEF UpdateInv, UpdateTypes, AtMostOne
    <2>4. \A t \in Update!Services : services'[t] = services[t] \/ services'[t] = c.revision
      BY <1>4 DEF UpdateInv, UpdateTypes
    <2>5. InOrder' BY <1>2, <1>3, <1>4, <2>1, <2>2, <2>4 DEF UpdateInv, InOrder
    <2>6. Deployed' BY <1>2, <1>3, <1>4 DEF UpdateInv, Deployed
    <2>7. Numbered' BY <1>4, <2>1 DEF UpdateInv, Numbered
    <2>8. StartsAnswer => Answered' BY <1>4, <2>1 DEF UpdateInv, Answered, Update!Fresh
    <2> QED BY <2>3, <2>5, <2>6, <2>7, <2>8 DEF UpdateInv
  <1>5. ASSUME container' = {[c EXCEPT !.step = "wait"]},
               UNCHANGED <<Update!Memory, backend, attempt, services, healthy, updateFaults>>
        PROVE  UpdateInv'
    <2> DEFINE d == [c EXCEPT !.step = "wait"]
    <2>1. c.backedUp BY <1>2 DEF UpdateInv, Deployed
    <2>2. /\ d \in Updaters /\ d.attempt = c.attempt /\ d.revision = c.revision
          /\ d.state = "running" /\ d.backedUp
      BY <1>2, <1>3, <2>1 DEF Updaters
    <2>3. container' = {d} BY <1>5
    <2> HIDE DEF d
    <2> QED BY <1>2, <1>5, <2>2, <2>3, ScriptKeeps DEF Update!Memory
  <1> QED BY <1>1, <1>4, <1>5

\* Health, releases and crashes of the backend.
LEMMA EnvironmentKeeps ==
    ASSUME Update!BoundsAssumption, UpdateInv,
           Update!BecomesHealthy \/ Update!Publish \/ Update!Crash \/ UNCHANGED updateVars
    PROVE UpdateInv'
  <1>1. CASE Update!BecomesHealthy
    BY <1>1 DEF Update!BecomesHealthy, Update!Memory, UpdateInv, UpdateTypes, InOrder, Deployed,
       Numbered,
                Answered, Update!Running, AtMostOne
  <1>2. CASE Update!Publish
    <2>1. published' \in 0..MaxReleases /\ published' = published + 1 /\ published \in Nat
      BY <1>2 DEF Update!Publish, UpdateInv, UpdateTypes, Update!BoundsAssumption
    <2> USE <1>2 DEF Update!Publish
    <2>2. UpdateTypes' BY <2>1 DEF UpdateInv, UpdateTypes
    <2>3. InOrder'
      BY <2>1 DEF UpdateInv, UpdateTypes, InOrder, Updaters, StartSteps
    <2>4. Deployed' /\ Numbered' BY DEF UpdateInv, Deployed, Numbered
    <2>5. StartsAnswer => Answered' BY DEF UpdateInv, Answered, Update!Running
    <2> QED BY <2>2, <2>3, <2>4, <2>5 DEF UpdateInv
  <1>3. CASE Update!Crash
    <2>1. updateFaults' \in 0..MaxUpdateFaults
      BY <1>3 DEF Update!Crash, Update!Fault, UpdateInv, UpdateTypes, Update!BoundsAssumption
    <2> DEFINE fresh == [starting |-> FALSE, startFailure |-> {}]
    <2>5. /\ UNCHANGED <<published, container, late, services, healthy, attempts>>
          /\ backend' = fresh /\ attempt' = {}
      BY <1>3 DEF Update!Crash, Update!Restarts, Update!Fresh
    <2>6. /\ fresh \in [starting : BOOLEAN, startFailure : SUBSET Failures]
          /\ ~fresh.starting /\ fresh.startFailure = {}
      OBVIOUS
    <2> HIDE DEF fresh
    <2>2. UpdateTypes' BY <2>1, <2>5, <2>6 DEF UpdateInv, UpdateTypes, AtMostOne
    <2>3. InOrder' /\ Deployed' /\ Numbered' BY <2>5 DEF UpdateInv, InOrder, Deployed, Numbered
    <2>4. StartsAnswer => Answered' BY <2>5, <2>6 DEF UpdateInv, Answered
    <2> QED BY <2>2, <2>3, <2>4 DEF UpdateInv
  <1>4. CASE UNCHANGED updateVars
    BY <1>4 DEF updateVars, UpdateInv, UpdateTypes, InOrder, Deployed, Numbered, Answered,
       Update!Running, AtMostOne
  <1> QED BY <1>1, <1>2, <1>3, <1>4

\* So the invariant is inductive.
LEMMA UpdateNext == ASSUME Update!BoundsAssumption, UpdateInv, Update!Next \/ UNCHANGED updateVars
    PROVE  UpdateInv'
  BY StartUpdateKeeps, InspectKeeps, FetchReleaseKeeps, PullImageKeeps, RemoveContainerKeeps,
     CreateContainerKeeps, StartContainerKeeps, CallFailsKeeps, StartedLateKeeps, PullKeeps,
     BackupKeeps, UpKeeps, VerifiedKeeps, ScriptFailsKeeps, EnvironmentKeeps
  DEF Update!Next, Update!Starting, Update!Script

\* What the invariant says of what the status tells.
LEMMA StatusTells ==
    ASSUME Update!BoundsAssumption, UpdateInv
    PROVE  Update!TypeOK /\ Update!SuccessIsDeployed /\ (StartsAnswer => Update!LastResultCounts)
  <1>1. ASSUME NEW r \in Update!Status.result
        PROVE  /\ ~backend.starting /\ ~Update!Running(container)
               /\ \/ r \in backend.startFailure
                  \/ backend.startFailure = {} /\ \E c \in container : r = Update!Result(c)
    BY <1>1 DEF Update!Status
  <1>2. Update!TypeOK
    <2>1. Cardinality(container) <= 1
      <3>1. CASE container = {} BY <3>1, FS_EmptySet
      <3>2. CASE container # {}
        <4>1. PICK c \in container : container = {c} BY <3>2 DEF UpdateInv, UpdateTypes, AtMostOne
        <4> QED BY <4>1, FS_Singleton
      <3> QED BY <3>1, <3>2
    <2>2. Cardinality(attempt) <= 1
      <3>1. CASE attempt = {} BY <3>1, FS_EmptySet
      <3>2. CASE attempt # {}
        <4>1. PICK a \in attempt : attempt = {a} BY <3>2 DEF UpdateInv, UpdateTypes, AtMostOne
        <4> QED BY <4>1, FS_Singleton
      <3> QED BY <3>1, <3>2
    <2>3. services \in [Update!Services -> 0..MaxReleases]
      BY DEF UpdateInv, UpdateTypes, InOrder, Update!BoundsAssumption
    <2>4. \A S : Update!Cardinality(S) = Cardinality(S) BY Zenon DEF Update!Cardinality, Cardinality
    <2> QED BY <2>1, <2>2, <2>3, <2>4 DEF Update!TypeOK, UpdateInv, UpdateTypes, Updaters
  <1>3. Update!SuccessIsDeployed
    <2> SUFFICES ASSUME NEW r \in Update!Status.result, r.succeeded
                 PROVE  \A s \in Update!Services : services[s] = r.revision
      BY DEF Update!SuccessIsDeployed
    <2>1. r \notin backend.startFailure BY DEF UpdateInv, UpdateTypes, Failures
    <2>2. PICK c \in container : r = Update!Result(c) BY <1>1, <2>1
    <2>3. c.code = 0 /\ c.state = "exited" /\ r.revision = c.revision
      BY <1>1, <2>2 DEF Update!Result, Update!Running, UpdateInv, UpdateTypes, Updaters
    <2> QED BY <2>3 DEF UpdateInv, Deployed
  <1>4. ASSUME StartsAnswer PROVE Update!LastResultCounts
    <2> SUFFICES ASSUME NEW c \in container, NEW r \in Update!Status.result, c.state = "exited"
                 PROVE  r.attempt >= c.attempt
      BY DEF Update!LastResultCounts
    <2>1. CASE r \in backend.startFailure BY <1>1, <1>4, <2>1 DEF UpdateInv, Answered
    <2>2. CASE \E d \in container : r = Update!Result(d)
      <3>1. r = Update!Result(c) BY <2>2 DEF UpdateInv, UpdateTypes, AtMostOne
      <3>2. r.attempt = c.attempt /\ c.attempt \in Nat
        BY <3>1 DEF Update!Result, UpdateInv, UpdateTypes, Updaters
      <3> QED BY <3>2
    <2> QED BY <1>1, <2>1, <2>2
  <1> QED BY <1>2, <1>3, <1>4

\* What a step does to the services and to an updater that is running.
LEMMA StepsKeep ==
    ASSUME UpdateInv, Update!Next \/ UNCHANGED updateVars
    PROVE  Update!UpgradesBackedUp /\ (StartsAnswer => Update!KeepsRunning)
  <1>1. Update!UpgradesBackedUp
    <2> SUFFICES ASSUME services' # services
                 PROVE  /\ \A s \in Update!Services : services'[s] >= services[s]
                        /\ \A c \in container : c.backedUp
      BY DEF Update!UpgradesBackedUp
    <2>a. Update!Starting => UNCHANGED services
      BY DEF Update!Starting, Update!Inspect, Update!FetchRelease, Update!PullImage,
         Update!RemoveContainer, Update!CreateContainer,
             Update!StartContainer, Update!Host
    <2>b. /\ Update!Pull => UNCHANGED services
          /\ Update!Backup => UNCHANGED services
          /\ Update!Verified => UNCHANGED services
          /\ Update!ScriptFails => UNCHANGED services
      <3>1. Update!Pull => UNCHANGED services BY DEF Update!Pull
      <3>2. Update!Backup => UNCHANGED services BY DEF Update!Backup
      <3>3. Update!Verified => UNCHANGED services BY DEF Update!Verified
      <3>4. Update!ScriptFails => UNCHANGED services BY DEF Update!ScriptFails
      <3> QED BY <3>1, <3>2, <3>3, <3>4
    <2>c. Update!StartUpdate \/ Update!CallFails \/ Update!StartedLate => UNCHANGED services
      BY DEF Update!StartUpdate, Update!CallFails, Update!StartedLate, Update!Host
    <2>d. Update!BecomesHealthy \/ Update!Publish \/ Update!Crash \/ UNCHANGED updateVars
              => UNCHANGED services
      BY DEF Update!BecomesHealthy, Update!Publish, Update!Crash, updateVars
    <2>0. Update!Up BY <2>a, <2>b, <2>c, <2>d DEF Update!Next, Update!Script
    <2>1. PICK c \in Update!Busy("up"), s \in Update!Services :
            services' = [services EXCEPT ![s] = c.revision]
      BY <2>0 DEF Update!Up
    <2>2. c \in container /\ container = {c} /\ c.step = "up" BY BusyContainer DEF Update!Busy
    <2>3. services \in [Update!Services -> Nat] /\ c.revision \in Nat
      BY <2>2 DEF UpdateInv, UpdateTypes, Updaters
    <2>4. c.backedUp /\ \A t \in Update!Services : services[t] <= c.revision
      BY <2>2 DEF UpdateInv, Deployed, InOrder
    <2> QED BY <2>1, <2>2, <2>3, <2>4
  <1>2. ASSUME StartsAnswer, Update!Running(container) PROVE container' # {}
    <2>1. ~Update!RemoveContainer
      BY <1>2 DEF Update!RemoveContainer, Update!At, UpdateInv, Answered
    <2>2. Update!CreateContainer => container' = container
      BY <1>2 DEF Update!CreateContainer, Update!Running
    <2>3. Update!CallFails => container' = container
      BY <1>2 DEF Update!CallFails, UpdateInv, Answered, Update!Running
    <2>4. Update!StartContainer => container' # {} BY DEF Update!StartContainer, Update!Started
    <2>5. ~Update!StartedLate BY <1>2 DEF Update!StartedLate, UpdateInv, Answered
    <2>e. /\ Update!Pull => container' # {}
          /\ Update!Backup => container' # {}
          /\ Update!Verified => container' # {}
          /\ Update!ScriptFails => container' # {}
      <3>1. Update!Pull => container' # {} BY DEF Update!Pull
      <3>2. Update!Backup => container' # {} BY DEF Update!Backup
      <3>3. Update!Verified => container' # {} BY DEF Update!Verified, Update!Exited
      <3>4. Update!ScriptFails => container' # {} BY DEF Update!ScriptFails, Update!Exited
      <3> QED BY <3>1, <3>2, <3>3, <3>4
    <2>f. Update!Up => container' # {} BY DEF Update!Up, Update!Busy
    <2>6. Update!Script \/ Update!ScriptFails => container' # {} BY <2>e, <2>f DEF Update!Script
    <2>7. container # {} BY <1>2 DEF Update!Running
    <2>8. Update!Starting => Update!RemoveContainer \/ Update!CreateContainer
                              \/ Update!StartContainer \/ UNCHANGED container
      BY DEF Update!Starting, Update!Inspect, Update!FetchRelease, Update!PullImage
    <2>9. Update!StartUpdate \/ Update!BecomesHealthy \/ Update!Publish \/ Update!Crash \/ UNCHANGED updateVars
              => UNCHANGED container
      BY DEF Update!StartUpdate, Update!BecomesHealthy, Update!Publish, Update!Crash, Update!Memory,
         updateVars
    <2> QED BY <2>1, <2>2, <2>3, <2>4, <2>5, <2>6, <2>7, <2>8, <2>9 DEF Update!Next
  <1> QED BY <1>1, <1>2 DEF Update!KeepsRunning
-----------------------------------------------------------------------------
(***************************************************************************)
(* What is called a success is deployed, and no service is replaced        *)
(* without a backup or by an older release; as long as Docker answers, the *)
(* status tells the last update and no update removes one that runs.       *)
(***************************************************************************)
THEOREM UpdatesAlwaysCount == MCSpec => UpdatesCount
<1> DEFINE Inv == part = "update" => UpdateInv
           Good == part = "update" => /\ Update!TypeOK /\ Update!SuccessIsDeployed
                                      /\ StartsAnswer => Update!LastResultCounts
           Kept == part = "update" => /\ Update!UpgradesBackedUp
                                      /\ StartsAnswer => Update!KeepsRunning
<1>1. MCInit => Inv BY ServerAssumption, UpdateInit DEF MCInit
<1>2. ASSUME Inv, [MCNext]_<<part, vars, printVars, amount, backupVars, updateVars>>
      PROVE  Inv' /\ [Kept]_updateVars
  <2>1. CASE part = "update" /\ part' = part /\ (Update!Next \/ UNCHANGED updateVars)
    <3>1. UpdateInv BY <1>2, <2>1
    <3>2. UpdateInv' BY <3>1, <2>1, ServerAssumption, UpdateNext
    <3>3. Kept BY <3>1, <2>1, StepsKeep
    <3> QED BY <3>2, <3>3
  <2>2. CASE part # "update" /\ part' = part BY <2>2
  <2> QED BY <1>2, <2>1, <2>2 DEF MCNext, updateVars
<1>3. Inv => Good BY ServerAssumption, StatusTells
<1>4. MCSpec => [](Good) /\ [][Kept]_updateVars
  <2> HIDE DEF Inv, Good, Kept
  <2> QED BY <1>1, <1>2, <1>3, PTL DEF MCSpec
<1> QED BY <1>4 DEF UpdatesCount
-----------------------------------------------------------------------------
(***************************************************************************)
(* Backups: both instances of Backup, from the lemmas of BackupProofs.     *)
(***************************************************************************)
CopyingProofs == INSTANCE BackupProofs WITH
    late <- delayed, faults <- backupFaults, Files <- CopyFiles,
    MaxRuns <- CopyRuns, MaxDays <- CopyDays, MaxFaults <- MaxBackupFaults

\* BackupProofs speaks of the same behaviours.
LEMMA CopyingStarts == CopyingProofs!BoundsAssumption /\ (Copying!Init => CopyingProofs!Init)
  <1>1. Copying!BoundsAssumption => CopyingProofs!BoundsAssumption
    BY Zenon DEF Copying!BoundsAssumption, CopyingProofs!BoundsAssumption
  <1>2. Copying!Init => CopyingProofs!Init
    BY Zenon DEF Copying!Runs, CopyingProofs!Runs, Copying!Manual, CopyingProofs!Manual,
           Copying!Directory, CopyingProofs!Directory, Copying!Idle, CopyingProofs!Idle,
           Copying!Init, CopyingProofs!Init
  <1> QED BY <1>1, <1>2, ServerAssumption

\* A step of Copying is one that BackupProofs speaks of.
LEMMA CopyingSteps ==
    ASSUME Copying!Next \/ UNCHANGED backupVars PROVE [CopyingProofs!Next]_(CopyingProofs!vars)
  <1>1. Copying!Next => CopyingProofs!Next
    BY Zenon DEF Copying!Runs, CopyingProofs!Runs, Copying!Directory, CopyingProofs!Directory,
           Copying!Idle, CopyingProofs!Idle, Copying!Verifying, CopyingProofs!Verifying,
           Copying!Working, CopyingProofs!Working, Copying!Alive, CopyingProofs!Alive,
           Copying!OnDisk, CopyingProofs!OnDisk, Copying!Live, CopyingProofs!Live,
           Copying!Environment, CopyingProofs!Environment, Copying!Fault, CopyingProofs!Fault,
           Copying!NextStage, CopyingProofs!NextStage, Copying!Application,
           CopyingProofs!Application, Copying!DayPasses, CopyingProofs!DayPasses, Copying!Goes,
           CopyingProofs!Goes, Copying!Begins, CopyingProofs!Begins, Copying!Start,
           CopyingProofs!Start, Copying!Step, CopyingProofs!Step, Copying!Changes,
           CopyingProofs!Changes, Copying!Prepare, CopyingProofs!Prepare, Copying!Dump,
           CopyingProofs!Dump, Copying!List, CopyingProofs!List, Copying!Read,
           CopyingProofs!Read, Copying!Archived, CopyingProofs!Archived, Copying!Seal,
           CopyingProofs!Seal, Copying!Verdict, CopyingProofs!Verdict, Copying!CheckSums,
           CopyingProofs!CheckSums, Copying!CreateContainer, CopyingProofs!CreateContainer,
           Copying!CreateTimesOut, CopyingProofs!CreateTimesOut, Copying!ContainerComesLate,
           CopyingProofs!ContainerComesLate, Copying!Restore, CopyingProofs!Restore,
           Copying!Compare, CopyingProofs!Compare, Copying!RemoveContainer,
           CopyingProofs!RemoveContainer, Copying!Exits, CopyingProofs!Exits, Copying!Cleanup,
           CopyingProofs!Cleanup, Copying!Publish, CopyingProofs!Publish, Copying!Record,
           CopyingProofs!Record, Copying!Expired, CopyingProofs!Expired, Copying!RemoveSome,
           CopyingProofs!RemoveSome, Copying!RemoveRest, CopyingProofs!RemoveRest,
           Copying!Rotated, CopyingProofs!Rotated, Copying!StepFails, CopyingProofs!StepFails,
           Copying!Damage, CopyingProofs!Damage, Copying!VerificationKilled,
           CopyingProofs!VerificationKilled, Copying!Terminate, CopyingProofs!Terminate,
           Copying!Stopped, CopyingProofs!Stopped, Copying!Killed, CopyingProofs!Killed,
           Copying!LeftVerificationEnds, CopyingProofs!LeftVerificationEnds, Copying!Works,
           CopyingProofs!Works, Copying!Fails, CopyingProofs!Fails, Copying!Supervised,
           CopyingProofs!Supervised, Copying!Next, CopyingProofs!Next
  <1>2. UNCHANGED backupVars => UNCHANGED CopyingProofs!vars BY DEF backupVars, CopyingProofs!vars
  <1> QED BY <1>1, <1>2

\* What its invariant says in terms of Copying.
LEMMA CopyingTells ==
    ASSUME CopyingProofs!BackupInv
    PROVE  /\ Copying!TypeOK /\ Copying!FormalIsVerified
           /\ Copying!OneAtATime /\ Copying!LeftoversAreKnown
  <1>1. /\ CopyingProofs!TypeOK /\ CopyingProofs!FormalIsVerified
        /\ CopyingProofs!OneAtATime /\ CopyingProofs!LeftoversAreKnown
    BY CopyingProofs!BackupTells
  <1>2. Copying!TypeOK
    <2>1. CopyingProofs!TypeOK BY <1>1
    <2> QED
      BY <2>1, Zenon DEF Copying!Runs, CopyingProofs!Runs, Copying!Verifying,
         CopyingProofs!Verifying,
             Copying!Working, CopyingProofs!Working, Copying!Alive, CopyingProofs!Alive,
             Copying!Ended, CopyingProofs!Ended, Copying!TypeOK, CopyingProofs!TypeOK,
             Copying!Cardinality, CopyingProofs!Cardinality
  <1>3. Copying!FormalIsVerified
    <2>1. CopyingProofs!FormalIsVerified BY <1>1
    <2> QED
      BY <2>1, Zenon DEF Copying!Runs, CopyingProofs!Runs, Copying!FormalIsVerified,
             CopyingProofs!FormalIsVerified
  <1>4. Copying!OneAtATime
    <2>1. CopyingProofs!OneAtATime BY <1>1
    <2> QED
      BY <2>1, Zenon DEF Copying!Runs, CopyingProofs!Runs, Copying!Verifying,
         CopyingProofs!Verifying,
             Copying!Working, CopyingProofs!Working, Copying!Alive, CopyingProofs!Alive,
             Copying!OneAtATime, CopyingProofs!OneAtATime, Copying!Cardinality,
             CopyingProofs!Cardinality
  <1>5. Copying!LeftoversAreKnown
    <2>1. CopyingProofs!LeftoversAreKnown BY <1>1
    <2> QED
      BY <2>1, Zenon DEF Copying!Verifying, CopyingProofs!Verifying, Copying!Working,
         CopyingProofs!Working,
             Copying!Alive, CopyingProofs!Alive, Copying!LeftoversAreKnown,
             CopyingProofs!LeftoversAreKnown
  <1> QED BY <1>2, <1>3, <1>4, <1>5

RotationProofs == INSTANCE BackupProofs WITH
    late <- delayed, faults <- backupFaults, Files <- RotationFiles,
    MaxRuns <- RotationRuns, MaxDays <- RotationDays, MaxFaults <- MaxBackupFaults

\* BackupProofs speaks of the same behaviours.
LEMMA RotationStarts == RotationProofs!BoundsAssumption /\ (Rotation!Init => RotationProofs!Init)
  <1>1. Rotation!BoundsAssumption => RotationProofs!BoundsAssumption
    BY Zenon DEF Rotation!BoundsAssumption, RotationProofs!BoundsAssumption
  <1>2. Rotation!Init => RotationProofs!Init
    BY Zenon DEF Rotation!Runs, RotationProofs!Runs, Rotation!Manual, RotationProofs!Manual,
           Rotation!Directory, RotationProofs!Directory, Rotation!Idle, RotationProofs!Idle,
           Rotation!Init, RotationProofs!Init
  <1> QED BY <1>1, <1>2, ServerAssumption

\* A step of Rotation is one that BackupProofs speaks of.
LEMMA RotationSteps ==
    ASSUME Rotation!Next \/ UNCHANGED backupVars PROVE [RotationProofs!Next]_(RotationProofs!vars)
  <1>1. Rotation!Next => RotationProofs!Next
    BY Zenon DEF Rotation!Runs, RotationProofs!Runs, Rotation!Directory, RotationProofs!Directory,
           Rotation!Idle, RotationProofs!Idle, Rotation!Verifying, RotationProofs!Verifying,
           Rotation!Working, RotationProofs!Working, Rotation!Alive, RotationProofs!Alive,
           Rotation!OnDisk, RotationProofs!OnDisk, Rotation!Live, RotationProofs!Live,
           Rotation!Environment, RotationProofs!Environment, Rotation!Fault,
           RotationProofs!Fault, Rotation!NextStage, RotationProofs!NextStage,
           Rotation!Application, RotationProofs!Application, Rotation!DayPasses,
           RotationProofs!DayPasses, Rotation!Goes, RotationProofs!Goes, Rotation!Begins,
           RotationProofs!Begins, Rotation!Start, RotationProofs!Start, Rotation!Step,
           RotationProofs!Step, Rotation!Changes, RotationProofs!Changes, Rotation!Prepare,
           RotationProofs!Prepare, Rotation!Dump, RotationProofs!Dump, Rotation!List,
           RotationProofs!List, Rotation!Read, RotationProofs!Read, Rotation!Archived,
           RotationProofs!Archived, Rotation!Seal, RotationProofs!Seal, Rotation!Verdict,
           RotationProofs!Verdict, Rotation!CheckSums, RotationProofs!CheckSums,
           Rotation!CreateContainer, RotationProofs!CreateContainer, Rotation!CreateTimesOut,
           RotationProofs!CreateTimesOut, Rotation!ContainerComesLate,
           RotationProofs!ContainerComesLate, Rotation!Restore, RotationProofs!Restore,
           Rotation!Compare, RotationProofs!Compare, Rotation!RemoveContainer,
           RotationProofs!RemoveContainer, Rotation!Exits, RotationProofs!Exits,
           Rotation!Cleanup, RotationProofs!Cleanup, Rotation!Publish, RotationProofs!Publish,
           Rotation!Record, RotationProofs!Record, Rotation!Expired, RotationProofs!Expired,
           Rotation!RemoveSome, RotationProofs!RemoveSome, Rotation!RemoveRest,
           RotationProofs!RemoveRest, Rotation!Rotated, RotationProofs!Rotated,
           Rotation!StepFails, RotationProofs!StepFails, Rotation!Damage, RotationProofs!Damage,
           Rotation!VerificationKilled, RotationProofs!VerificationKilled, Rotation!Terminate,
           RotationProofs!Terminate, Rotation!Stopped, RotationProofs!Stopped, Rotation!Killed,
           RotationProofs!Killed, Rotation!LeftVerificationEnds,
           RotationProofs!LeftVerificationEnds, Rotation!Works, RotationProofs!Works,
           Rotation!Fails, RotationProofs!Fails, Rotation!Supervised, RotationProofs!Supervised,
           Rotation!Next, RotationProofs!Next
  <1>2. UNCHANGED backupVars => UNCHANGED RotationProofs!vars BY DEF backupVars, RotationProofs!vars
  <1> QED BY <1>1, <1>2

\* What its invariant says in terms of Rotation.
LEMMA RotationTells == RotationProofs!BackupInv => Rotation!LastSuccessIsThere
  <1>1. RotationProofs!LastSuccessIsThere => Rotation!LastSuccessIsThere
    BY Zenon DEF Rotation!LastSuccessIsThere, RotationProofs!LastSuccessIsThere
  <1> QED BY <1>1, RotationProofs!BackupTells

\* What no step of Rotation removes.
LEMMA RotationKeepsThem ==
    ASSUME RotationProofs!BackupInv, RotationProofs!BackupInv', [RotationProofs!Next]_(RotationProofs!vars)
    PROVE  Rotation!KeepsOthers /\ Rotation!KeepsABackup
  <1>1. RotationProofs!KeepsOthers /\ RotationProofs!KeepsABackup
    BY RotationStarts, RotationProofs!BackupSteps
  <1>2. RotationProofs!KeepsOthers => Rotation!KeepsOthers
    BY Zenon DEF Rotation!KeepsOthers, RotationProofs!KeepsOthers
  <1>3. RotationProofs!KeepsABackup => Rotation!KeepsABackup
    BY Zenon DEF Rotation!HasBackup, RotationProofs!HasBackup, Rotation!KeepsABackup,
           RotationProofs!KeepsABackup
  <1> QED BY <1>1, <1>2, <1>3

(***************************************************************************)
(* Whatever is stored and removed meanwhile, and whichever step of which   *)
(* run fails, is killed or hangs: what has a formal name is complete and   *)
(* verified, one run is at work, what it leaves is known; the last success *)
(* stays, and no step removes what is not the rotation's or the last good  *)
(* backup.                                                                 *)
(***************************************************************************)
THEOREM BackupsAlwaysHold == MCSpec => BackupsHold
<1> DEFINE Inv == /\ part = "copying" => CopyingProofs!BackupInv
                  /\ part = "rotation" => RotationProofs!BackupInv
           Formal == part = "copying" => /\ Copying!TypeOK /\ Copying!FormalIsVerified
                                         /\ Copying!OneAtATime /\ Copying!LeftoversAreKnown
           Last == part = "rotation" => Rotation!LastSuccessIsThere
           Kept == part = "rotation" => Rotation!KeepsOthers /\ Rotation!KeepsABackup
<1>1. MCInit => Inv
  <2>1. CopyingProofs!Init => CopyingProofs!BackupInv
    BY CopyingStarts, CopyingProofs!InitBackup
  <2>2. RotationProofs!Init => RotationProofs!BackupInv
    BY RotationStarts, RotationProofs!InitBackup
  <2> QED BY <2>1, <2>2, CopyingStarts, RotationStarts DEF MCInit
<1>2. ASSUME Inv, [MCNext]_<<part, vars, printVars, amount, backupVars, updateVars>>
      PROVE  Inv' /\ [Kept]_backupVars
  <2>1. CASE part = "copying" /\ part' = part /\ (Copying!Next \/ UNCHANGED backupVars)
    <3>1. [CopyingProofs!Next]_(CopyingProofs!vars) BY <2>1, CopyingSteps
    <3>2. CopyingProofs!BackupInv' BY <1>2, <2>1, <3>1, CopyingStarts, CopyingProofs!NextBackup
    <3> QED BY <2>1, <3>2
  <2>2. CASE part = "rotation" /\ part' = part /\ (Rotation!Next \/ UNCHANGED backupVars)
    <3>1. [RotationProofs!Next]_(RotationProofs!vars) BY <2>2, RotationSteps
    <3>2. RotationProofs!BackupInv' BY <1>2, <2>2, <3>1, RotationStarts, RotationProofs!NextBackup
    <3> QED BY <1>2, <2>2, <3>1, <3>2, RotationKeepsThem
  <2>3. CASE part \notin {"copying", "rotation"} /\ part' = part BY <2>3
  <2> QED BY <1>2, <2>1, <2>2, <2>3 DEF MCNext
<1>3. Inv => Formal /\ Last BY CopyingTells, RotationTells
<1>4. MCSpec => []Formal /\ []Last /\ [][Kept]_backupVars
  <2> HIDE DEF Inv, Formal, Last, Kept
  <2> QED BY <1>1, <1>2, <1>3, PTL DEF MCSpec
<1> QED BY <1>4 DEF BackupsHold
=============================================================================
