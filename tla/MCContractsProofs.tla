-------------------------- MODULE MCContractsProofs --------------------------
(***************************************************************************)
(* Proofs about the parts of MCContracts: signed files that are uploaded   *)
(* and attached, for any number of browsers, files and failures, and       *)
(* clients that take turns on a unit.                                      *)
(*                                                                         *)
(* A file is attached once because it is known by the selection it came    *)
(* with: no two dialogs have a selection in common, a dialog holds the id  *)
(* under which its file was stored as soon as it is told, and only what it *)
(* holds is attached. A row has a file because the file is written first   *)
(* and only a file with a row is removed.                                  *)
(***************************************************************************)
EXTENDS MCContracts, FiniteSetTheorems, TLAPS

-----------------------------------------------------------------------------
(* Uploads *)

\* The instance counts as FiniteSets does.
LEMMA UploadsCount == \A S : Uploading!Cardinality(S) = Cardinality(S)
  BY Zenon DEF Uploading!Cardinality, Cardinality

AtMostOne(S) == \A x, y \in S : x = y

\* What a form and a request hold.
Chosen == [pick : Nat, id : SUBSET Nat]
UploadForms ==
    [uploads : UNION {[D -> Chosen] : D \in SUBSET (Selectable \ {"unfit"})}, saving : BOOLEAN]
UploadCalls ==
    [kind : {"upload"}, file : Selectable, pick : Nat, id : Nat, step : {"write", "row", "answer"}]
AttachCalls ==
    [kind : {"attach"}, ids : SUBSET Nat, seen : SUBSET Nat, step : {"check", "append", "answer"}]

StoredTypes ==
    /\ stored \in Nat /\ picks \in Nat /\ faults \in Nat
    /\ rows \subseteq disk /\ disk \subseteq Uploading!Ids /\ attached \subseteq Uploading!Ids
    /\ origin \in Seq([pick : Nat, file : Selectable]) /\ Len(origin) = stored
    /\ \A i \in Uploading!Ids : origin[i].pick <= picks
    /\ dialog \in [Clients -> SUBSET UploadForms]
    /\ uploads \in [Clients -> SUBSET (UploadCalls \cup AttachCalls)]

Origin(pick, f) == [pick |-> pick, file |-> f]

\* A chosen file has the id it was stored under, and no other id of it is attached.
Filed(u, f) ==
    /\ u.pick <= picks
    /\ u.id = {} \/ \E i \in Uploading!Ids : u.id = {i} /\ origin[i] = Origin(u.pick, f)
    /\ \A a \in attached : origin[a] = Origin(u.pick, f) => u.id = {a}

\* The request of a form is about a file without an id, or about all ids.
Fitting(r, chosen) ==
    \/ /\ r.kind = "upload" /\ r.file \in DOMAIN chosen
       /\ chosen[r.file].pick = r.pick /\ chosen[r.file].id = {}
       /\ r.step # "write" => r.id \in Uploading!Ids /\ origin[r.id] = Origin(r.pick, r.file)
       /\ r.step = "row" => r.id \in disk \ rows
    \/ /\ r.kind = "attach"
       /\ \A f \in DOMAIN chosen : chosen[f].id # {} /\ chosen[f].id \subseteq r.ids
       /\ \A i \in r.ids : \E f \in DOMAIN chosen : i \in chosen[f].id
       /\ r.step = "answer" => r.ids \subseteq attached

Fit(d) ==
    /\ AtMostOne(dialog[d]) /\ AtMostOne(uploads[d])
    /\ uploads[d] # {} => dialog[d] # {}
    /\ \A form \in dialog[d] :
          /\ form.saving <=> uploads[d] # {}
          /\ Cardinality(DOMAIN form.uploads) <= MaxChosen
          /\ \A f \in DOMAIN form.uploads : Filed(form.uploads[f], f)
          /\ \A r \in uploads[d] : Fitting(r, form.uploads)

\* No two dialogs have a selection in common.
PicksApart ==
    \A d, e \in Clients : d # e => \A form \in dialog[d], other \in dialog[e] :
        \A f \in DOMAIN form.uploads, g \in DOMAIN other.uploads :
            form.uploads[f].pick # other.uploads[g].pick

UploadInv == StoredTypes /\ (\A d \in Clients : Fit(d)) /\ PicksApart /\ Uploading!AttachedOnce

\* No browser has the dialog open at first.
LEMMA UploadInit == Uploading!Init => UploadInv
  <1> SUFFICES ASSUME Uploading!Init PROVE UploadInv OBVIOUS
  <1> USE ContractsAssumption DEF Uploading!Init, Uploading!LimitsAssumption
  <1>1. StoredTypes BY DEF StoredTypes, Uploading!Ids
  <1>2. \A d \in Clients : Fit(d) BY DEF Fit, AtMostOne
  <1>3. PicksApart /\ Uploading!AttachedOnce BY DEF PicksApart, Uploading!AttachedOnce
  <1> QED BY <1>1, <1>2, <1>3 DEF UploadInv

\* What is known of a form that is open.
LEMMA FormIs ==
    ASSUME UploadInv, NEW d \in Clients, NEW form \in dialog[d]
    PROVE  /\ form \in UploadForms /\ dialog[d] = {form} /\ Fit(d)
           /\ \E D \in SUBSET (Selectable \ {"unfit"}) :
                 form.uploads \in [D -> Chosen] /\ DOMAIN form.uploads = D
  <1>1. form \in UploadForms /\ dialog[d] = {form} /\ Fit(d)
    BY DEF UploadInv, StoredTypes, Fit, AtMostOne
  <1> QED BY <1>1 DEF UploadForms

\* What is known of a request under way.
LEMMA RequestIs ==
    ASSUME UploadInv, NEW d \in Clients, NEW r \in uploads[d]
    PROVE  /\ r \in UploadCalls \cup AttachCalls /\ uploads[d] = {r}
           /\ \E form \in dialog[d] : form.saving /\ Fitting(r, form.uploads)
  BY DEF UploadInv, StoredTypes, Fit, AtMostOne

\* What was stored came with a selection that was made.
LEMMA ElementIn == ASSUME NEW S, NEW s \in Seq(S), NEW i \in 1 .. Len(s) PROVE s[i] \in S
  OBVIOUS

LEMMA OriginOf ==
    ASSUME UploadInv, NEW i \in Uploading!Ids
        PROVE  origin[i].pick \in Nat /\ origin[i].pick <= picks
  <1>1. /\ origin \in Seq([pick : Nat, file : Selectable]) /\ i \in 1 .. Len(origin)
        /\ origin[i].pick <= picks
    BY DEF UploadInv, StoredTypes, Uploading!Ids
  <1>2. origin[i] \in [pick : Nat, file : Selectable] BY <1>1, ElementIn
  <1> QED BY <1>1, <1>2

\* More stored files, selections and attachments leave a dialog as it is, unless
\* what is attached is a file of the dialog.
LEMMA StillFit ==
    ASSUME UploadInv, NEW d \in Clients, dialog'[d] = dialog[d], uploads'[d] = uploads[d],
           stored' \in Nat, stored <= stored', picks' \in Nat, picks <= picks',
           attached \subseteq attached',
           \A i \in Uploading!Ids : origin'[i] = origin[i],
           \A r \in uploads[d] :
              r.kind = "upload" /\ r.step = "row" /\ r.id \in disk \ rows => r.id \in disk' \ rows',
           \A a \in attached' \ attached : /\ a \in Uploading!Ids
               /\ \A form \in dialog[d] : \A f \in DOMAIN form.uploads :
                    origin[a] # Origin(form.uploads[f].pick, f)
    PROVE  Fit(d)'
  <1>1. Uploading!Ids \subseteq Uploading!Ids' BY DEF Uploading!Ids, UploadInv, StoredTypes
  <1>2. ASSUME NEW form \in dialog[d], NEW f \in DOMAIN form.uploads
        PROVE  Filed(form.uploads[f], f)'
    <2>1. Filed(form.uploads[f], f) BY <1>2 DEF UploadInv, Fit
    <2>2. form.uploads[f].pick \in Nat BY FormIs DEF Chosen
    <2> QED BY <1>1, <2>1, <2>2 DEF Filed, UploadInv, StoredTypes
  <1>3. ASSUME NEW form \in dialog[d], NEW r \in uploads[d] PROVE Fitting(r, form.uploads)'
    <2>1. Fitting(r, form.uploads) BY <1>3 DEF UploadInv, Fit
    <2> QED BY <1>1, <2>1 DEF Fitting
  <1> QED BY <1>2, <1>3 DEF UploadInv, Fit

\* A step of one dialog that leaves the backend alone.
LEMMA DialogKeeps ==
    ASSUME UploadInv, NEW d \in Clients, NEW forms \in SUBSET UploadForms,
           NEW calls \in SUBSET (UploadCalls \cup AttachCalls),
           dialog' = [dialog EXCEPT ![d] = forms], uploads' = [uploads EXCEPT ![d] = calls],
           UNCHANGED Uploading!Backend, faults' \in Nat, picks' \in Nat, picks <= picks',
           Fit(d)',
           \A form \in forms : \A f \in DOMAIN form.uploads :
               \/ form.uploads[f].pick > picks
               \/ \E old \in dialog[d] : /\ f \in DOMAIN old.uploads
                                         /\ form.uploads[f].pick = old.uploads[f].pick
    PROVE  UploadInv'
  <1>0. stored' = stored /\ origin' = origin /\ attached' = attached
            /\ Uploading!Ids' = Uploading!Ids
    BY DEF Uploading!Backend, Uploading!Ids
  <1>1. StoredTypes'
    <2>1. \A i \in Uploading!Ids' : origin'[i].pick <= picks'
      <3>1. \A i \in Uploading!Ids : origin[i].pick <= picks /\ origin[i].pick \in Nat
        BY OriginOf
      <3> QED BY <1>0, <3>1 DEF UploadInv, StoredTypes
    <2> QED BY <1>0, <2>1 DEF UploadInv, StoredTypes, Uploading!Backend
  <1>6. disk' = disk /\ rows' = rows BY DEF Uploading!Backend
  <1>2. \A e \in Clients \ {d} : dialog'[e] = dialog[e] /\ uploads'[e] = uploads[e]
    BY DEF UploadInv, StoredTypes
  <1>3. \A e \in Clients : Fit(e)'
    <2>1. ASSUME NEW e \in Clients \ {d} PROVE Fit(e)'
      BY <1>0, <1>2, <1>6, StillFit DEF UploadInv, StoredTypes
    <2> QED BY <2>1
  <1>4. PicksApart'
    <2>1. dialog'[d] = forms BY DEF UploadInv, StoredTypes
    <2>2. \A e \in Clients : \A other \in dialog[e] : \A g \in DOMAIN other.uploads :
             other.uploads[g].pick <= picks /\ other.uploads[g].pick \in Nat
      BY FormIs DEF Fit, Filed, Chosen
    <2>3. ASSUME NEW e \in Clients \ {d}, NEW form \in forms, NEW other \in dialog[e],
                 NEW f \in DOMAIN form.uploads, NEW g \in DOMAIN other.uploads
          PROVE  form.uploads[f].pick # other.uploads[g].pick
      <3>1. CASE form.uploads[f].pick > picks BY <2>2, <3>1 DEF UploadInv, StoredTypes
      <3>2. CASE \E old \in dialog[d] : /\ f \in DOMAIN old.uploads
                                        /\ form.uploads[f].pick = old.uploads[f].pick
        BY <3>2 DEF UploadInv, PicksApart
      <3> QED BY <3>1, <3>2
    <2>4. ASSUME NEW e \in Clients \ {d}, NEW c \in Clients \ {d}, e # c
          PROVE  \A form \in dialog'[e], other \in dialog'[c] :
                    \A f \in DOMAIN form.uploads, g \in DOMAIN other.uploads :
                        form.uploads[f].pick # other.uploads[g].pick
      BY <1>2, <2>4 DEF UploadInv, PicksApart
    <2> QED BY <1>2, <2>1, <2>3, <2>4 DEF PicksApart
  <1>5. Uploading!AttachedOnce' BY <1>0 DEF UploadInv, Uploading!AttachedOnce
  <1> QED BY <1>1, <1>3, <1>4, <1>5 DEF UploadInv

\* The next request of a form fits it.
LEMMA CallsFit ==
    ASSUME NEW D \in SUBSET Selectable, NEW chosen \in [D -> Chosen],
           NEW call \in Uploading!Calls(chosen)
    PROVE  call \in UploadCalls \cup AttachCalls /\ Fitting(call, chosen)
  <1>1. CASE Uploading!Pending(chosen) # {}
    <2>1. PICK f \in Uploading!Pending(chosen) :
            call = [kind |-> "upload", file |-> f, pick |-> chosen[f].pick, id |-> 0,
                    step |-> "write"]
      BY <1>1 DEF Uploading!Calls
    <2>2. f \in D /\ chosen[f] \in Chosen /\ chosen[f].id = {} BY DEF Uploading!Pending
    <2>3. call \in UploadCalls BY <2>1, <2>2 DEF UploadCalls, Chosen
    <2> QED BY <2>1, <2>2, <2>3 DEF Fitting
  <1>2. CASE Uploading!Pending(chosen) = {}
    <2>1. call = [kind |-> "attach", ids |-> Uploading!StoredIds(chosen), seen |-> {},
                  step |-> "check"]
      BY <1>2 DEF Uploading!Calls
    <2>2. \A f \in D : chosen[f] \in Chosen /\ chosen[f].id # {} BY <1>2 DEF Uploading!Pending
    <2>3. \A i : i \in Uploading!StoredIds(chosen) <=> \E f \in D : i \in chosen[f].id
      BY DEF Uploading!StoredIds, Uploading!Range
    <2>4. Uploading!StoredIds(chosen) \subseteq Nat BY <2>2, <2>3 DEF Chosen
    <2>5. call \in AttachCalls BY <2>1, <2>4 DEF AttachCalls
    <2> QED BY <2>1, <2>2, <2>3, <2>5 DEF Fitting
  <1> QED BY <1>1, <1>2

\* The files of a form can be counted.
LEMMA FormFinite ==
    ASSUME NEW D \in SUBSET Selectable PROVE IsFiniteSet(D) /\ Cardinality(D) \in Nat
  BY FS_Subset, FS_CardinalityType, ContractsAssumption

LEMMA OpenKeeps == ASSUME UploadInv, NEW d \in Clients, Uploading!Open(d) PROVE UploadInv'
  <1> DEFINE form == Uploading!Form(<<>>, FALSE)
  <1>1. form \in UploadForms /\ DOMAIN form.uploads = {} /\ ~form.saving
    BY DEF Uploading!Form, UploadForms
  <1>2. dialog' = [dialog EXCEPT ![d] = {form}] BY DEF Uploading!Open
  <1> HIDE DEF form
  <1>3. uploads' = [uploads EXCEPT ![d] = {}] /\ uploads[d] = {}
    BY DEF Uploading!Open, UploadInv, StoredTypes, Fit
  <1>4. dialog'[d] = {form} /\ uploads'[d] = {} BY <1>2, <1>3 DEF UploadInv, StoredTypes
  <1>5. Cardinality(DOMAIN form.uploads) <= MaxChosen
    BY <1>1, FS_EmptySet, ContractsAssumption DEF Uploading!LimitsAssumption
  <1>6. Fit(d)' BY <1>1, <1>4, <1>5 DEF Fit, AtMostOne
  <1>7. UNCHANGED Uploading!Backend /\ faults' \in Nat /\ picks' \in Nat /\ picks <= picks'
    BY DEF Uploading!Open, UploadInv, StoredTypes
  <1>8. {form} \in SUBSET UploadForms /\ {} \in SUBSET (UploadCalls \cup AttachCalls) BY <1>1
  <1>9. \A f1 \in {form} : DOMAIN f1.uploads = {} BY <1>1
  <1> QED BY <1>2, <1>3, <1>6, <1>7, <1>8, <1>9, DialogKeeps

LEMMA CloseKeeps == ASSUME UploadInv, NEW d \in Clients, Uploading!Close(d) PROVE UploadInv'
  <1>1. uploads[d] = {} BY DEF Uploading!Close, UploadInv, Fit
  <1>2. uploads' = [uploads EXCEPT ![d] = {}] BY <1>1 DEF Uploading!Close, UploadInv, StoredTypes
  <1>3. dialog' = [dialog EXCEPT ![d] = {}] BY DEF Uploading!Close
  <1>4. Fit(d)' BY <1>2, <1>3 DEF Fit, AtMostOne, UploadInv, StoredTypes
  <1>5. UNCHANGED Uploading!Backend /\ faults' \in Nat /\ picks' \in Nat /\ picks <= picks'
    BY DEF Uploading!Close, UploadInv, StoredTypes
  <1>6. {} \in SUBSET UploadForms /\ {} \in SUBSET (UploadCalls \cup AttachCalls) OBVIOUS
  <1> QED BY <1>2, <1>3, <1>4, <1>5, <1>6, DialogKeeps

\* A form that is edited: none of its files is being uploaded.
LEMMA EditKeeps ==
    ASSUME UploadInv, NEW d \in Clients, NEW form \in dialog[d], ~form.saving,
           NEW D \in SUBSET (Selectable \ {"unfit"}), NEW chosen \in [D -> Chosen],
           Uploading!Edit(d, chosen), picks' \in Nat, picks <= picks', Cardinality(D) <= MaxChosen,
           \A f \in D :
              \/ f \in DOMAIN form.uploads /\ chosen[f] = form.uploads[f]
              \/ chosen[f].id = {} /\ chosen[f].pick = picks + 1 /\ picks' = picks + 1
    PROVE  UploadInv'
  <1> DEFINE new == Uploading!Form(chosen, FALSE)
  <1>1. new \in UploadForms /\ new.uploads = chosen /\ ~new.saving /\ DOMAIN chosen = D
    BY DEF Uploading!Form, UploadForms
  <1>2. dialog' = [dialog EXCEPT ![d] = {new}] BY DEF Uploading!Edit
  <1> HIDE DEF new
  <1>3. uploads[d] = {} BY DEF UploadInv, Fit
  <1>4. uploads' = [uploads EXCEPT ![d] = {}] BY <1>3 DEF Uploading!Edit, UploadInv, StoredTypes
  <1>5. dialog'[d] = {new} /\ uploads'[d] = {} BY <1>2, <1>4 DEF UploadInv, StoredTypes
  <1>6. UNCHANGED Uploading!Backend /\ stored' = stored /\ origin' = origin
            /\ attached' = attached /\ Uploading!Ids' = Uploading!Ids
    BY DEF Uploading!Edit, Uploading!Backend, Uploading!Ids
  <1>7. ASSUME NEW f \in D PROVE Filed(chosen[f], f)'
    <2>1. CASE f \in DOMAIN form.uploads /\ chosen[f] = form.uploads[f]
      <3>1. Filed(chosen[f], f) BY <2>1 DEF UploadInv, Fit
      <3>2. chosen[f].pick \in Nat BY DEF Chosen
      <3> QED BY <1>6, <3>1, <3>2 DEF Filed, UploadInv, StoredTypes
    <2>2. CASE chosen[f].id = {} /\ chosen[f].pick = picks + 1 /\ picks' = picks + 1
      <3>1. \A a \in attached : origin[a].pick <= picks /\ origin[a].pick \in Nat
        BY OriginOf DEF UploadInv, StoredTypes
      <3>2. \A a \in attached : origin[a] # Origin(chosen[f].pick, f)
        BY <2>2, <3>1 DEF Origin, UploadInv, StoredTypes
      <3> QED BY <1>6, <2>2, <3>2 DEF Filed, UploadInv, StoredTypes
    <2> QED BY <2>1, <2>2
  <1>8. Fit(d)' BY <1>1, <1>5, <1>7 DEF Fit, AtMostOne
  <1>9. \A f \in D : chosen[f].pick > picks
                     \/ (f \in DOMAIN form.uploads /\ chosen[f].pick = form.uploads[f].pick)
    BY DEF UploadInv, StoredTypes
  <1>10. faults' \in Nat BY DEF Uploading!Edit, UploadInv, StoredTypes
  <1>11. {new} \in SUBSET UploadForms /\ {} \in SUBSET (UploadCalls \cup AttachCalls) BY <1>1
  <1>12. \A n \in {new} : \A f \in DOMAIN n.uploads :
            \/ n.uploads[f].pick > picks
            \/ \E old \in dialog[d] : /\ f \in DOMAIN old.uploads
                                      /\ n.uploads[f].pick = old.uploads[f].pick
    BY <1>1, <1>9
  <1> QED BY <1>2, <1>4, <1>6, <1>8, <1>10, <1>11, <1>12, DialogKeeps

LEMMA AppendFilesKeeps ==
    ASSUME UploadInv, NEW d \in Clients, Uploading!AppendFiles(d) PROVE UploadInv'
  <1>1. PICK form \in dialog[d], selected \in SUBSET (Selectable \ {"unfit"}) :
        LET chosen == DOMAIN form.uploads
            additions == selected \ chosen
        IN  /\ ~form.saving
            /\ Uploading!Cardinality(chosen \cup additions) <= MaxChosen
            /\ picks' = picks + 1
            /\ Uploading!Edit(d, [f \in chosen \cup additions |->
                          IF f \in chosen THEN form.uploads[f] ELSE [pick |-> picks', id |-> {}]])
    BY DEF Uploading!AppendFiles
  <1> DEFINE D == DOMAIN form.uploads \cup (selected \ DOMAIN form.uploads)
             chosen == [f \in D |-> IF f \in DOMAIN form.uploads THEN form.uploads[f]
                                     ELSE [pick |-> picks', id |-> {}]]
  <1>2. PICK E \in SUBSET (Selectable \ {"unfit"}) :
          form.uploads \in [E -> Chosen] /\ DOMAIN form.uploads = E
    BY FormIs
  <1>3. D \in SUBSET (Selectable \ {"unfit"}) BY <1>2
  <1>4. picks' \in Nat /\ picks <= picks' BY <1>1 DEF UploadInv, StoredTypes
  <1>5. chosen \in [D -> Chosen] BY <1>2, <1>4 DEF Chosen
  <1>6. \A f \in D : \/ f \in DOMAIN form.uploads /\ chosen[f] = form.uploads[f]
                     \/ chosen[f].id = {} /\ chosen[f].pick = picks + 1 /\ picks' = picks + 1
    BY <1>1
  <1>7. Uploading!Edit(d, chosen) /\ Cardinality(D) <= MaxChosen BY <1>1, UploadsCount
  <1>8. ~form.saving BY <1>1
  <1> HIDE DEF D, chosen
  <1> QED BY <1>3, <1>4, <1>5, <1>6, <1>7, <1>8, EditKeeps

LEMMA RemoveFileKeeps ==
    ASSUME UploadInv, NEW d \in Clients, Uploading!RemoveFile(d) PROVE UploadInv'
  <1>0. PICK form \in dialog[d] : \E g \in DOMAIN form.uploads :
        /\ ~form.saving /\ UNCHANGED picks
        /\ Uploading!Edit(d, Uploading!Restrict(form.uploads, DOMAIN form.uploads \ {g}))
    BY DEF Uploading!RemoveFile
  <1>1. PICK g \in DOMAIN form.uploads :
        /\ ~form.saving /\ UNCHANGED picks
        /\ Uploading!Edit(d, Uploading!Restrict(form.uploads, DOMAIN form.uploads \ {g}))
    BY <1>0
  <1>2. PICK E \in SUBSET (Selectable \ {"unfit"}) :
          form.uploads \in [E -> Chosen] /\ DOMAIN form.uploads = E
    BY FormIs
  <1> DEFINE chosen == Uploading!Restrict(form.uploads, E \ {g})
  <1>3. chosen \in [E \ {g} -> Chosen] /\ \A f \in E \ {g} : chosen[f] = form.uploads[f]
    BY <1>2 DEF Uploading!Restrict
  <1>4. Uploading!Edit(d, chosen) BY <1>1, <1>2
  <1> HIDE DEF chosen
  <1>5. Cardinality(E \ {g}) <= MaxChosen
    <2>1. Cardinality(E) <= MaxChosen BY <1>2 DEF UploadInv, Fit
    <2>2. IsFiniteSet(E) /\ Cardinality(E) \in Nat BY FormFinite
    <2>3. Cardinality(E \ {g}) <= Cardinality(E) /\ Cardinality(E \ {g}) \in Nat
      BY <2>2, FS_Subset, FormFinite
    <2> QED BY <2>1, <2>2, <2>3, ContractsAssumption DEF Uploading!LimitsAssumption
  <1>6. picks' \in Nat /\ picks <= picks' BY <1>1 DEF UploadInv, StoredTypes
  <1>7. ~form.saving BY <1>1
  <1>8. \A f \in E \ {g} : f \in DOMAIN form.uploads /\ chosen[f] = form.uploads[f] BY <1>2, <1>3
  <1>9. E \ {g} \in SUBSET (Selectable \ {"unfit"}) OBVIOUS
  <1> QED BY <1>3, <1>4, <1>5, <1>6, <1>7, <1>8, <1>9, EditKeeps

LEMMA SaveKeeps == ASSUME UploadInv, NEW d \in Clients, Uploading!Save(d) PROVE UploadInv'
  <1>0. PICK form \in dialog[d] : \E call \in Uploading!Calls(form.uploads) :
           /\ ~form.saving
           /\ dialog' = [dialog EXCEPT ![d] = {[form EXCEPT !.saving = TRUE]}]
           /\ uploads' = [uploads EXCEPT ![d] = {call}]
           /\ UNCHANGED <<Uploading!Backend, picks, faults>>
    BY DEF Uploading!Save
  <1>1. PICK call \in Uploading!Calls(form.uploads) :
           /\ ~form.saving
           /\ dialog' = [dialog EXCEPT ![d] = {[form EXCEPT !.saving = TRUE]}]
           /\ uploads' = [uploads EXCEPT ![d] = {call}]
           /\ UNCHANGED <<Uploading!Backend, picks, faults>>
    BY <1>0
  <1>2. PICK E \in SUBSET (Selectable \ {"unfit"}) :
          form.uploads \in [E -> Chosen] /\ DOMAIN form.uploads = E
    BY FormIs
  <1> DEFINE new == [form EXCEPT !.saving = TRUE]
  <1>3. new \in UploadForms /\ new.uploads = form.uploads /\ new.saving
    <2>1. form \in UploadForms BY FormIs
    <2> QED BY <2>1 DEF UploadForms
  <1>4. dialog' = [dialog EXCEPT ![d] = {new}] BY <1>1
  <1> HIDE DEF new
  <1>5. call \in UploadCalls \cup AttachCalls /\ Fitting(call, form.uploads) BY <1>2, CallsFit
  <1>6. dialog'[d] = {new} /\ uploads'[d] = {call}
    BY <1>1, <1>4 DEF UploadInv, StoredTypes
  <1>7. /\ stored' = stored /\ origin' = origin /\ attached' = attached
        /\ Uploading!Ids' = Uploading!Ids
        /\ disk' = disk /\ rows' = rows
    BY <1>1 DEF Uploading!Backend, Uploading!Ids
  <1>8. Fit(d)'
    <2>1. Fit(d) BY DEF UploadInv
    <2>2. \A f \in E : Filed(form.uploads[f], f)'
      BY <1>1, <1>2, <1>7, <2>1 DEF Fit, Filed
    <2>3. Fitting(call, form.uploads)' BY <1>5, <1>7 DEF Fitting
    <2>4. Cardinality(E) <= MaxChosen BY <1>2, <2>1 DEF Fit
    <2> QED BY <1>2, <1>3, <1>6, <2>2, <2>3, <2>4 DEF Fit, AtMostOne
  <1>9. UNCHANGED Uploading!Backend /\ faults' \in Nat /\ picks' \in Nat /\ picks <= picks'
    BY <1>1 DEF UploadInv, StoredTypes
  <1>10. {new} \in SUBSET UploadForms /\ {call} \in SUBSET (UploadCalls \cup AttachCalls)
    BY <1>3, <1>5
  <1>11. \A n \in {new} : n.uploads = form.uploads BY <1>3
  <1>12. \A n \in {new} : \A f \in DOMAIN n.uploads :
            \/ n.uploads[f].pick > picks
            \/ \E old \in dialog[d] : /\ f \in DOMAIN old.uploads
                                      /\ n.uploads[f].pick = old.uploads[f].pick
    BY <1>11
  <1>13. uploads' = [uploads EXCEPT ![d] = {call}] BY <1>1
  <1> QED BY <1>4, <1>8, <1>9, <1>10, <1>12, <1>13, DialogKeeps

\* A step of the request of one dialog.
LEMMA BackendKeeps ==
    ASSUME UploadInv, NEW d \in Clients,
           NEW call \in UploadCalls \cup AttachCalls, Uploading!Step(d, call),
           uploads[d] # {},
           stored' \in Nat, stored <= stored', \A i \in Uploading!Ids : origin'[i] = origin[i],
           origin' \in Seq([pick : Nat, file : Selectable]), Len(origin') = stored',
           \A i \in Uploading!Ids' : origin'[i].pick <= picks,
           rows' \subseteq disk', disk' \subseteq Uploading!Ids',
           attached \subseteq attached', attached' \subseteq Uploading!Ids, Uploading!AttachedOnce',
           \A e \in Clients \ {d} : \A r \in uploads[e] :
              r.kind = "upload" /\ r.step = "row" /\ r.id \in disk \ rows => r.id \in disk' \ rows',
           \A a \in attached' \ attached : \A e \in Clients \ {d} : \A form \in dialog[e] :
              \A f \in DOMAIN form.uploads : origin[a] # Origin(form.uploads[f].pick, f),
           \A form \in dialog[d] :
              Fitting(call, form.uploads)' /\ \A f \in DOMAIN form.uploads :
                  Filed(form.uploads[f], f)'
    PROVE  UploadInv'
  <1>1. /\ dialog' = dialog /\ picks' = picks /\ faults' = faults
        /\ uploads'[d] = {call} /\ \A e \in Clients \ {d} : uploads'[e] = uploads[e]
    BY DEF Uploading!Step, UploadInv, StoredTypes
  <1>2. Uploading!Ids \subseteq Uploading!Ids' BY DEF Uploading!Ids, UploadInv, StoredTypes
  <1>3. uploads' \in [Clients -> SUBSET (UploadCalls \cup AttachCalls)]
    BY DEF Uploading!Step, UploadInv, StoredTypes
  <1>4. StoredTypes' BY <1>1, <1>2, <1>3 DEF UploadInv, StoredTypes
  <1>5. ASSUME NEW e \in Clients \ {d} PROVE Fit(e)'
    <2>1. picks' \in Nat /\ picks <= picks' BY <1>1 DEF UploadInv, StoredTypes
    <2> QED BY <1>1, <2>1, StillFit
  <1>6. Fit(d)' BY <1>1 DEF UploadInv, Fit, AtMostOne
  <1>7. PicksApart' BY <1>1 DEF UploadInv, PicksApart
  <1> QED BY <1>4, <1>5, <1>6, <1>7 DEF UploadInv

\* What was stored keeps its origin when a file is stored.
LEMMA OriginGrows ==
    ASSUME UploadInv, NEW o \in [pick : Nat, file : Selectable], o.pick <= picks,
           stored' = stored + 1, origin' = Uploading!Append(origin, o)
    PROVE  /\ \A i \in Uploading!Ids : origin'[i] = origin[i]
           /\ origin' \in Seq([pick : Nat, file : Selectable]) /\ Len(origin') = stored'
           /\ \A i \in Uploading!Ids' : origin'[i].pick <= picks
           /\ origin'[stored'] = o /\ stored' \notin Uploading!Ids /\ stored' \in Uploading!Ids'
           /\ stored' \in Nat
           /\ Uploading!Ids \subseteq Uploading!Ids'
  <1>1. /\ origin \in Seq([pick : Nat, file : Selectable]) /\ Len(origin) = stored
        /\ \A i \in 1 .. stored : origin[i].pick <= picks
    BY DEF UploadInv, StoredTypes, Uploading!Ids
  <1>2. Uploading!Ids' = 1 .. (stored + 1) /\ stored \in Nat
    BY DEF Uploading!Ids, UploadInv, StoredTypes
  <1>3. /\ Len(origin') = stored + 1 /\ origin' \in Seq([pick : Nat, file : Selectable])
        /\ origin'[stored + 1] = o /\ \A i \in 1 .. stored : origin'[i] = origin[i]
    BY <1>1, <1>2
  <1>4. \A i \in 1 .. (stored + 1) : i = stored + 1 \/ i \in 1 .. stored BY <1>2
  <1> QED BY <1>1, <1>2, <1>3, <1>4 DEF Uploading!Ids

\* An origin names the selection and the file.
LEMMA OriginTells ==
    ASSUME NEW p, NEW q, NEW f, NEW g, Origin(p, f) = Origin(q, g) PROVE p = q /\ f = g
  <1>1. Origin(p, f).pick = p /\ Origin(p, f).file = f BY DEF Origin
  <1>2. Origin(q, g).pick = q /\ Origin(q, g).file = g BY DEF Origin
  <1> QED BY <1>1, <1>2

\* What is known of the dialog whose request takes a step.
LEMMA RequestOf ==
    ASSUME UploadInv, NEW d \in Clients, NEW r \in uploads[d]
    PROVE  /\ r \in UploadCalls \cup AttachCalls
           /\ \E form \in dialog[d] : dialog[d] = {form} /\ form.saving
           /\ \A form \in dialog[d] : /\ Fitting(r, form.uploads)
                                      /\ \A f \in DOMAIN form.uploads : Filed(form.uploads[f], f)
  BY DEF UploadInv, StoredTypes, Fit, AtMostOne

LEMMA WriteFileKeeps == ASSUME UploadInv, NEW d \in Clients, Uploading!WriteFile(d) PROVE UploadInv'
  <1>1. PICK r \in uploads[d] :
        /\ r.kind = "upload" /\ r.step = "write"
        /\ stored' = stored + 1
        /\ origin' = Uploading!Append(origin, [pick |-> r.pick, file |-> r.file])
        /\ disk' = disk \cup {stored'}
        /\ Uploading!Step(d, [r EXCEPT !.id = stored', !.step = "row"])
        /\ UNCHANGED <<rows, live, attached>>
    BY DEF Uploading!WriteFile
  <1>0. PICK call : call = [r EXCEPT !.id = stored', !.step = "row"] OBVIOUS
  <1> DEFINE o == [pick |-> r.pick, file |-> r.file]
  <1>2. r \in UploadCalls BY <1>1, RequestOf DEF AttachCalls
  <1>3. PICK form \in dialog[d] : dialog[d] = {form} BY RequestOf
  <1>4. /\ Fitting(r, form.uploads) /\ \A f \in DOMAIN form.uploads : Filed(form.uploads[f], f)
    BY RequestOf
  <1>5. r.file \in DOMAIN form.uploads /\ form.uploads[r.file].pick = r.pick
        /\ form.uploads[r.file].id = {}
    BY <1>1, <1>4 DEF Fitting
  <1>6. o \in [pick : Nat, file : Selectable] /\ o.pick <= picks
    BY <1>2, <1>4, <1>5 DEF UploadCalls, Filed, UploadInv, StoredTypes
  <1>7. /\ \A i \in Uploading!Ids : origin'[i] = origin[i]
        /\ origin' \in Seq([pick : Nat, file : Selectable]) /\ Len(origin') = stored'
        /\ \A i \in Uploading!Ids' : origin'[i].pick <= picks
        /\ origin'[stored'] = o /\ stored' \notin Uploading!Ids /\ stored' \in Uploading!Ids'
        /\ stored' \in Nat
        /\ Uploading!Ids \subseteq Uploading!Ids'
    BY <1>1, <1>6, OriginGrows
  <1>8. /\ call \in UploadCalls /\ call.kind = "upload" /\ call.file = r.file /\ call.pick = r.pick
        /\ call.id = stored' /\ call.step = "row"
    BY <1>0, <1>1, <1>2, <1>7 DEF UploadCalls
  <1>9. Uploading!Step(d, call) BY <1>0, <1>1
  <1>10. stored <= stored' BY <1>1 DEF UploadInv, StoredTypes
  <1>11. Fitting(call, form.uploads)'
    <2>1. stored' \in (disk \ rows)' BY <1>1, <1>7 DEF UploadInv, StoredTypes
    <2>2. origin'[call.id] = Origin(call.pick, call.file) /\ call.id \in Uploading!Ids'
      BY <1>7, <1>8 DEF Origin
    <2> QED BY <1>5, <1>8, <2>1, <2>2 DEF Fitting
  <1>12. \A f \in DOMAIN form.uploads : Filed(form.uploads[f], f)'
    <2>1. picks' = picks BY <1>9 DEF Uploading!Step
    <2>2. attached' = attached /\ attached \subseteq Uploading!Ids
      BY <1>1 DEF UploadInv, StoredTypes
    <2> QED BY <1>4, <1>7, <2>1, <2>2 DEF Filed
  <1>13. rows' \subseteq disk' /\ disk' \subseteq Uploading!Ids' /\ attached' = attached
             /\ attached' \subseteq Uploading!Ids
    BY <1>1, <1>7 DEF UploadInv, StoredTypes
  <1>14. Uploading!AttachedOnce' BY <1>7, <1>13 DEF UploadInv, Uploading!AttachedOnce
  <1>15. disk \ rows \subseteq disk' \ rows' /\ attached' \ attached = {} BY <1>1
  <1>16. call \in UploadCalls \cup AttachCalls /\ uploads[d] # {} BY <1>8
  <1> QED BY <1>3, <1>7, <1>9, <1>10, <1>11, <1>12, <1>13, <1>14, <1>15, <1>16, BackendKeeps

LEMMA InsertRowKeeps == ASSUME UploadInv, NEW d \in Clients, Uploading!InsertRow(d) PROVE UploadInv'
  <1>1. PICK r \in uploads[d] :
        /\ r.kind = "upload" /\ r.step = "row"
        /\ rows' = rows \cup {r.id}
        /\ Uploading!Step(d, [r EXCEPT !.step = "answer"])
        /\ UNCHANGED <<disk, live, attached, stored, origin>>
    BY DEF Uploading!InsertRow
  <1>0. PICK call : call = [r EXCEPT !.step = "answer"] OBVIOUS
  <1>2. r \in UploadCalls BY <1>1, RequestOf DEF AttachCalls
  <1>3. PICK form \in dialog[d] : dialog[d] = {form} BY RequestOf
  <1>4. /\ Fitting(r, form.uploads) /\ \A f \in DOMAIN form.uploads : Filed(form.uploads[f], f)
    BY RequestOf
  <1>5. /\ r.file \in DOMAIN form.uploads /\ form.uploads[r.file].pick = r.pick
        /\ form.uploads[r.file].id = {} /\ r.id \in Uploading!Ids
        /\ origin[r.id] = Origin(r.pick, r.file)
        /\ r.id \in disk \ rows
    BY <1>1, <1>4 DEF Fitting
  <1>6. /\ call \in UploadCalls /\ call.kind = "upload" /\ call.file = r.file /\ call.pick = r.pick
        /\ call.id = r.id /\ call.step = "answer"
    BY <1>0, <1>1, <1>2 DEF UploadCalls
  <1>7. Uploading!Step(d, call) BY <1>0, <1>1
  <1>8. picks' = picks /\ Uploading!Ids' = Uploading!Ids /\ origin' = origin
            /\ attached' = attached /\ disk' = disk
        /\ stored' = stored
    BY <1>1, <1>7 DEF Uploading!Step, Uploading!Ids
  <1>9. Fitting(call, form.uploads)' BY <1>5, <1>6, <1>8 DEF Fitting
  <1>10. \A f \in DOMAIN form.uploads : Filed(form.uploads[f], f)' BY <1>4, <1>8 DEF Filed
  <1>11. Uploading!AttachedOnce' BY <1>8 DEF UploadInv, Uploading!AttachedOnce
  <1>12. ASSUME NEW e \in Clients \ {d}, NEW q \in uploads[e], q.kind = "upload", q.step = "row",
                q.id \in disk \ rows
         PROVE  q.id \in disk' \ rows'
    <2>1. PICK other \in dialog[e] : TRUE BY RequestOf
    <2>2. /\ q.file \in DOMAIN other.uploads /\ other.uploads[q.file].pick = q.pick
          /\ origin[q.id] = Origin(q.pick, q.file)
      BY <1>12, RequestOf DEF Fitting
    <2>3. r.pick # q.pick BY <1>5, <2>2 DEF UploadInv, PicksApart
    <2> QED BY <1>1, <1>5, <1>12, <2>2, <2>3 DEF Origin
  <1>13. /\ stored' \in Nat /\ stored <= stored' /\ attached' \subseteq Uploading!Ids
         /\ rows' \subseteq disk' /\ disk' \subseteq Uploading!Ids'
         /\ origin' \in Seq([pick : Nat, file : Selectable]) /\ Len(origin') = stored'
         /\ \A i \in Uploading!Ids' : origin'[i].pick <= picks
    BY <1>1, <1>5, <1>8 DEF UploadInv, StoredTypes
  <1> QED BY <1>3, <1>6, <1>7, <1>8, <1>9, <1>10, <1>11, <1>12, <1>13, BackendKeeps

LEMMA CheckFilesKeeps == ASSUME UploadInv, NEW d \in Clients, Uploading!CheckFiles(d)
    PROVE  UploadInv'
  <1>1. PICK r \in uploads[d] :
        /\ r.kind = "attach" /\ r.step = "check"
        /\ Uploading!Step(d, [r EXCEPT !.seen = attached, !.step = "append"])
        /\ UNCHANGED Uploading!Backend
    BY DEF Uploading!CheckFiles
  <1>0. PICK call : call = [r EXCEPT !.seen = attached, !.step = "append"] OBVIOUS
  <1>2. r \in AttachCalls BY <1>1, RequestOf DEF UploadCalls
  <1>3. PICK form \in dialog[d] : dialog[d] = {form} BY RequestOf
  <1>4. /\ Fitting(r, form.uploads) /\ \A f \in DOMAIN form.uploads : Filed(form.uploads[f], f)
    BY RequestOf
  <1>5. attached \subseteq Nat BY DEF UploadInv, StoredTypes, Uploading!Ids
  <1>6. call \in AttachCalls /\ call.kind = "attach" /\ call.ids = r.ids /\ call.step = "append"
    BY <1>0, <1>1, <1>2, <1>5 DEF AttachCalls
  <1>7. Uploading!Step(d, call) BY <1>0, <1>1
  <1>8. picks' = picks /\ Uploading!Ids' = Uploading!Ids /\ origin' = origin
            /\ attached' = attached /\ disk' = disk
        /\ stored' = stored /\ rows' = rows
    BY <1>1, <1>7 DEF Uploading!Step, Uploading!Ids, Uploading!Backend
  <1>9. Fitting(call, form.uploads)' BY <1>1, <1>4, <1>6, <1>8 DEF Fitting
  <1>10. \A f \in DOMAIN form.uploads : Filed(form.uploads[f], f)' BY <1>4, <1>8 DEF Filed
  <1>11. Uploading!AttachedOnce' BY <1>8 DEF UploadInv, Uploading!AttachedOnce
  <1>12. /\ stored' \in Nat /\ stored <= stored' /\ attached' \subseteq Uploading!Ids
         /\ rows' \subseteq disk' /\ disk' \subseteq Uploading!Ids'
         /\ origin' \in Seq([pick : Nat, file : Selectable]) /\ Len(origin') = stored'
         /\ \A i \in Uploading!Ids' : origin'[i].pick <= picks
    BY <1>8 DEF UploadInv, StoredTypes
  <1> QED BY <1>3, <1>6, <1>7, <1>8, <1>9, <1>10, <1>11, <1>12, BackendKeeps

LEMMA AddAttachmentsKeeps == ASSUME UploadInv, NEW d \in Clients, Uploading!AddAttachments(d)
    PROVE  UploadInv'
  <1>1. PICK r \in uploads[d] :
        /\ r.kind = "attach" /\ r.step = "append"
        /\ attached' = attached \cup r.ids
        /\ Uploading!Step(d, [r EXCEPT !.step = "answer"])
        /\ UNCHANGED <<disk, rows, live, stored, origin>>
    BY DEF Uploading!AddAttachments
  <1>0. PICK call : call = [r EXCEPT !.step = "answer"] OBVIOUS
  <1>2. r \in AttachCalls BY <1>1, RequestOf DEF UploadCalls
  <1>3. PICK form \in dialog[d] : dialog[d] = {form} BY RequestOf
  <1>4. /\ Fitting(r, form.uploads) /\ \A f \in DOMAIN form.uploads : Filed(form.uploads[f], f)
    BY RequestOf
  <1>5. /\ \A f \in DOMAIN form.uploads :
              form.uploads[f].id # {} /\ form.uploads[f].id \subseteq r.ids
        /\ \A i \in r.ids : \E f \in DOMAIN form.uploads : i \in form.uploads[f].id
    BY <1>1, <1>4 DEF Fitting
  <1>6. call \in AttachCalls /\ call.kind = "attach" /\ call.ids = r.ids /\ call.step = "answer"
    BY <1>0, <1>1, <1>2 DEF AttachCalls
  <1>7. Uploading!Step(d, call) BY <1>0, <1>1
  <1>8. picks' = picks /\ Uploading!Ids' = Uploading!Ids /\ origin' = origin /\ disk' = disk
        /\ stored' = stored /\ rows' = rows
    BY <1>1, <1>7 DEF Uploading!Step, Uploading!Ids
  <1>9. \A i \in r.ids : \E f \in DOMAIN form.uploads :
            form.uploads[f].id = {i} /\ i \in Uploading!Ids
                /\ origin[i] = Origin(form.uploads[f].pick, f)
    BY <1>4, <1>5 DEF Filed
  <1>10. Fitting(call, form.uploads)'
    <2>1. call.ids \subseteq attached' BY <1>1, <1>6
    <2> QED BY <1>5, <1>6, <2>1 DEF Fitting
  <1>11. ASSUME NEW f \in DOMAIN form.uploads PROVE Filed(form.uploads[f], f)'
    <2>1. ASSUME NEW i \in r.ids, origin[i] = Origin(form.uploads[f].pick, f)
          PROVE  form.uploads[f].id = {i}
      BY <1>9, <2>1, OriginTells
    <2> QED BY <1>1, <1>4, <1>8, <2>1 DEF Filed
  <1>12. Uploading!AttachedOnce'
    <2>1. ASSUME NEW i \in r.ids, NEW a \in attached, origin[i] = origin[a] PROVE i = a
      BY <1>4, <1>9, <2>1 DEF Filed
    <2>2. ASSUME NEW i \in r.ids, NEW j \in r.ids, origin[i] = origin[j] PROVE i = j
      <3>1. PICK f \in DOMAIN form.uploads :
              form.uploads[f].id = {i} /\ origin[i] = Origin(form.uploads[f].pick, f)
        BY <1>9
      <3>2. PICK g \in DOMAIN form.uploads :
              form.uploads[g].id = {j} /\ origin[j] = Origin(form.uploads[g].pick, g)
        BY <1>9
      <3>3. Origin(form.uploads[f].pick, f) = Origin(form.uploads[g].pick, g)
        BY <2>2, <3>1, <3>2
      <3>4. f = g BY <3>3, OriginTells
      <3> QED BY <3>1, <3>2, <3>4
    <2> QED BY <1>1, <1>8, <2>1, <2>2 DEF UploadInv, Uploading!AttachedOnce
  <1>13. ASSUME NEW a \in attached' \ attached, NEW e \in Clients \ {d}, NEW other \in dialog[e],
                NEW g \in DOMAIN other.uploads
         PROVE  origin[a] # Origin(other.uploads[g].pick, g)
    <2>1. PICK f \in DOMAIN form.uploads : origin[a] = Origin(form.uploads[f].pick, f)
      BY <1>1, <1>9
    <2>2. form.uploads[f].pick # other.uploads[g].pick BY DEF UploadInv, PicksApart
    <2> QED BY <2>1, <2>2 DEF Origin
  <1>14. /\ stored' \in Nat /\ stored <= stored' /\ attached \subseteq attached'
         /\ attached' \subseteq Uploading!Ids /\ rows' \subseteq disk'
         /\ disk' \subseteq Uploading!Ids'
         /\ origin' \in Seq([pick : Nat, file : Selectable]) /\ Len(origin') = stored'
         /\ \A i \in Uploading!Ids' : origin'[i].pick <= picks
    BY <1>1, <1>8, <1>9 DEF UploadInv, StoredTypes
  <1>15. call \in UploadCalls \cup AttachCalls /\ uploads[d] # {} BY <1>6
  <1>16. disk' \ rows' = disk \ rows BY <1>8
  <1> QED BY <1>3, <1>7, <1>8, <1>10, <1>11, <1>12, <1>13, <1>14, <1>15, <1>16, BackendKeeps

LEMMA RemovesKeep == ASSUME UploadInv, Uploading!RemoveContract \/ Uploading!RemoveStoredFile
    PROVE  UploadInv'
  <1>1. /\ dialog' = dialog /\ uploads' = uploads /\ stored' = stored /\ origin' = origin
        /\ picks' = picks /\ attached' = attached /\ Uploading!Ids' = Uploading!Ids
    BY DEF Uploading!RemoveContract, Uploading!RemoveStoredFile, Uploading!Ids
  <1>2. faults' \in Nat
    BY DEF Uploading!RemoveContract, Uploading!RemoveStoredFile, UploadInv, StoredTypes
  <1>3. rows' \subseteq disk' /\ disk' \subseteq disk
    BY DEF Uploading!RemoveContract, Uploading!RemoveStoredFile, UploadInv, StoredTypes
  <1>4. disk \ rows \subseteq disk' \ rows'
    BY DEF Uploading!RemoveContract, Uploading!RemoveStoredFile
  <1>5. StoredTypes' BY <1>1, <1>2, <1>3 DEF UploadInv, StoredTypes
  <1>6. ASSUME NEW d \in Clients PROVE Fit(d)'
    <2>1. stored \in Nat /\ picks \in Nat BY DEF UploadInv, StoredTypes
    <2> QED BY <1>1, <1>4, <2>1, StillFit
  <1>7. PicksApart' /\ Uploading!AttachedOnce'
    BY <1>1 DEF UploadInv, PicksApart, Uploading!AttachedOnce
  <1> QED BY <1>5, <1>6, <1>7 DEF UploadInv

LEMMA UploadAnsweredKeeps ==
    ASSUME UploadInv, NEW d \in Clients, Uploading!UploadAnswered(d) PROVE UploadInv'
  <1>1. PICK r \in uploads[d], form \in dialog[d] :
        LET chosen == [form.uploads EXCEPT ![r.file].id = {r.id}] IN
        /\ r.kind = "upload" /\ r.step = "answer"
        /\ dialog' = [dialog EXCEPT ![d] = {Uploading!Form(chosen, TRUE)}]
        /\ \E call \in Uploading!Calls(chosen) : uploads' = [uploads EXCEPT ![d] = {call}]
        /\ UNCHANGED <<Uploading!Backend, picks, faults>>
    BY DEF Uploading!UploadAnswered
  <1> DEFINE chosen == [form.uploads EXCEPT ![r.file].id = {r.id}]
             new == Uploading!Form(chosen, TRUE)
  <1>2. r \in UploadCalls BY <1>1, RequestOf DEF AttachCalls
  <1>3. /\ Fitting(r, form.uploads) /\ \A f \in DOMAIN form.uploads : Filed(form.uploads[f], f)
    BY RequestOf
  <1>4. /\ r.file \in DOMAIN form.uploads /\ form.uploads[r.file].pick = r.pick
        /\ form.uploads[r.file].id = {} /\ r.id \in Uploading!Ids
        /\ origin[r.id] = Origin(r.pick, r.file)
    BY <1>1, <1>3 DEF Fitting
  <1>5. PICK E \in SUBSET (Selectable \ {"unfit"}) :
          form.uploads \in [E -> Chosen] /\ DOMAIN form.uploads = E
    BY FormIs
  <1>6. /\ chosen \in [E -> Chosen]
        /\ chosen[r.file].id = {r.id} /\ \A f \in E : chosen[f].pick = form.uploads[f].pick
        /\ \A f \in E \ {r.file} : chosen[f] = form.uploads[f]
    <2>1. \A f \in E : form.uploads[f] \in Chosen BY <1>5
    <2>2. r.id \in Nat /\ r.file \in E BY <1>2, <1>4, <1>5 DEF UploadCalls
    <2>3. [form.uploads[r.file] EXCEPT !.id = {r.id}] \in Chosen BY <2>1, <2>2 DEF Chosen
    <2> QED BY <1>5, <2>1, <2>2, <2>3 DEF Chosen
  <1>7. PICK call \in Uploading!Calls(chosen) : uploads' = [uploads EXCEPT ![d] = {call}] BY <1>1
  <1>8. dialog' = [dialog EXCEPT ![d] = {new}] /\ UNCHANGED <<Uploading!Backend, picks, faults>>
    BY <1>1
  <1> HIDE DEF chosen
  <1>9. new \in UploadForms /\ new.uploads = chosen /\ new.saving /\ DOMAIN chosen = E
    BY <1>6 DEF Uploading!Form, UploadForms
  <1>10. call \in UploadCalls \cup AttachCalls /\ Fitting(call, chosen) BY <1>6, CallsFit
  <1> HIDE DEF new
  <1>11. /\ stored' = stored /\ origin' = origin /\ attached' = attached
         /\ Uploading!Ids' = Uploading!Ids
         /\ disk' = disk /\ rows' = rows /\ picks' = picks
    BY <1>8 DEF Uploading!Backend, Uploading!Ids
  <1>12. dialog'[d] = {new} /\ uploads'[d] = {call} BY <1>7, <1>8 DEF UploadInv, StoredTypes
  <1>13. Fit(d)'
    <2>1. Fit(d) BY DEF UploadInv
    <2>2. ASSUME NEW f \in E PROVE Filed(chosen[f], f)'
      <3>1. Filed(form.uploads[f], f) BY <1>3, <1>5
      <3>2. CASE f = r.file
        BY <1>4, <1>6, <1>11, <3>1, <3>2 DEF Filed
      <3>3. CASE f # r.file
        BY <1>6, <1>11, <3>1, <3>3 DEF Filed
      <3> QED BY <3>2, <3>3
    <2>3. Fitting(call, chosen)' BY <1>10, <1>11 DEF Fitting
    <2>4. Cardinality(E) <= MaxChosen BY <1>5, <2>1 DEF Fit
    <2> QED BY <1>9, <1>12, <2>2, <2>3, <2>4 DEF Fit, AtMostOne
  <1>14. faults' \in Nat /\ picks' \in Nat /\ picks <= picks'
    BY <1>8 DEF UploadInv, StoredTypes
  <1>15. {new} \in SUBSET UploadForms /\ {call} \in SUBSET (UploadCalls \cup AttachCalls)
    BY <1>9, <1>10
  <1>16. \A n \in {new} : \A f \in DOMAIN n.uploads :
            \/ n.uploads[f].pick > picks
            \/ \E old \in dialog[d] : /\ f \in DOMAIN old.uploads
                                      /\ n.uploads[f].pick = old.uploads[f].pick
    BY <1>5, <1>6, <1>9
  <1> QED BY <1>7, <1>8, <1>13, <1>14, <1>15, <1>16, DialogKeeps

LEMMA AttachAnsweredKeeps ==
    ASSUME UploadInv, NEW d \in Clients, Uploading!AttachAnswered(d) PROVE UploadInv'
  <1>1. /\ dialog' = [dialog EXCEPT ![d] = {}] /\ uploads' = [uploads EXCEPT ![d] = {}]
        /\ UNCHANGED Uploading!Backend /\ picks' = picks /\ faults' = faults
    BY DEF Uploading!AttachAnswered
  <1>2. Fit(d)' BY <1>1 DEF Fit, AtMostOne, UploadInv, StoredTypes
  <1>3. faults' \in Nat /\ picks' \in Nat /\ picks <= picks' BY <1>1 DEF UploadInv, StoredTypes
  <1>4. {} \in SUBSET UploadForms /\ {} \in SUBSET (UploadCalls \cup AttachCalls) OBVIOUS
  <1> QED BY <1>1, <1>2, <1>3, <1>4, DialogKeeps

LEMMA SaveFailsKeeps == ASSUME UploadInv, NEW d \in Clients, Uploading!SaveFails(d) PROVE UploadInv'
  <1>1. PICK r \in uploads[d], form \in dialog[d] :
        /\ \/ faults < MaxUploadFaults /\ faults' = faults + 1
           \/ Uploading!Refused(r) /\ UNCHANGED faults
        /\ dialog' = [dialog EXCEPT ![d] = {[form EXCEPT !.saving = FALSE]}]
        /\ uploads' = [uploads EXCEPT ![d] = {}]
        /\ UNCHANGED <<Uploading!Backend, picks>>
    BY DEF Uploading!SaveFails
  <1> DEFINE new == [form EXCEPT !.saving = FALSE]
  <1>2. new \in UploadForms /\ new.uploads = form.uploads /\ ~new.saving
    <2>1. form \in UploadForms BY FormIs
    <2> QED BY <2>1 DEF UploadForms
  <1>3. dialog' = [dialog EXCEPT ![d] = {new}] BY <1>1
  <1> HIDE DEF new
  <1>4. dialog'[d] = {new} /\ uploads'[d] = {} BY <1>1, <1>3 DEF UploadInv, StoredTypes
  <1>5. stored' = stored /\ origin' = origin /\ attached' = attached
            /\ Uploading!Ids' = Uploading!Ids /\ picks' = picks
    BY <1>1 DEF Uploading!Backend, Uploading!Ids
  <1>6. Fit(d)'
    <2>1. Fit(d) BY DEF UploadInv
    <2>2. \A f \in DOMAIN form.uploads : Filed(form.uploads[f], f)' BY <1>5, <2>1 DEF Fit, Filed
    <2>3. Cardinality(DOMAIN form.uploads) <= MaxChosen BY <2>1 DEF Fit
    <2> QED BY <1>2, <1>4, <2>2, <2>3 DEF Fit, AtMostOne
  <1>7. UNCHANGED Uploading!Backend /\ faults' \in Nat /\ picks' \in Nat /\ picks <= picks'
    BY <1>1 DEF UploadInv, StoredTypes
  <1>8. {new} \in SUBSET UploadForms /\ {} \in SUBSET (UploadCalls \cup AttachCalls) BY <1>2
  <1>9. \A n \in {new} : \A f \in DOMAIN n.uploads :
            \/ n.uploads[f].pick > picks
            \/ \E old \in dialog[d] : /\ f \in DOMAIN old.uploads
                                      /\ n.uploads[f].pick = old.uploads[f].pick
    BY <1>2
  <1>10. uploads' = [uploads EXCEPT ![d] = {}] BY <1>1
  <1> QED BY <1>3, <1>6, <1>7, <1>8, <1>9, <1>10, DialogKeeps

LEMMA UploadNext ==
    ASSUME UploadInv, Uploading!Next \/ UNCHANGED uploadVars PROVE UploadInv'
  <1>1. CASE UNCHANGED uploadVars
    <2>1. /\ disk' = disk /\ rows' = rows /\ attached' = attached /\ dialog' = dialog
          /\ uploads' = uploads /\ stored' = stored /\ origin' = origin /\ picks' = picks
          /\ faults' = faults /\ Uploading!Ids' = Uploading!Ids
      BY <1>1 DEF uploadVars, Uploading!Ids
    <2>2. StoredTypes' BY <2>1 DEF UploadInv, StoredTypes
    <2>3. ASSUME NEW d \in Clients PROVE Fit(d)'
      <3>1. stored \in Nat /\ picks \in Nat BY DEF UploadInv, StoredTypes
      <3> QED BY <2>1, <3>1, StillFit
    <2>4. PicksApart' /\ Uploading!AttachedOnce'
      BY <2>1 DEF UploadInv, PicksApart, Uploading!AttachedOnce
    <2> QED BY <2>2, <2>3, <2>4 DEF UploadInv
  <1>2. ASSUME NEW d \in Clients,
               \/ Uploading!Open(d) \/ Uploading!AppendFiles(d) \/ Uploading!RemoveFile(d)
               \/ Uploading!Close(d) \/ Uploading!Save(d)
               \/ Uploading!WriteFile(d) \/ Uploading!InsertRow(d) \/ Uploading!CheckFiles(d)
               \/ Uploading!AddAttachments(d)
               \/ Uploading!UploadAnswered(d) \/ Uploading!AttachAnswered(d)
               \/ Uploading!SaveFails(d)
        PROVE  UploadInv'
    BY <1>2, OpenKeeps, AppendFilesKeeps, RemoveFileKeeps, CloseKeeps, SaveKeeps, WriteFileKeeps,
       InsertRowKeeps, CheckFilesKeeps, AddAttachmentsKeeps, UploadAnsweredKeeps,
       AttachAnsweredKeeps, SaveFailsKeeps
  <1> QED BY <1>1, <1>2, RemovesKeep DEF Uploading!Next

\* No or one element is at most one.
LEMMA AtMostOneCounts == ASSUME NEW S, AtMostOne(S) PROVE Cardinality(S) <= 1
  <1>1. CASE S = {} BY <1>1, FS_EmptySet
  <1>2. CASE S # {}
    <2>1. PICK x : S = {x} BY <1>2 DEF AtMostOne
    <2>2. Cardinality({x}) = 1 BY FS_Singleton
    <2> QED BY <2>1, <2>2
  <1> QED BY <1>1, <1>2

\* What the invariant says of the files and of the dialogs.
LEMMA UploadTells ==
    UploadInv => Uploading!TypeOK /\ Uploading!RowsHaveFiles /\ Uploading!AttachedOnce
  <1> SUFFICES ASSUME UploadInv
      PROVE  Uploading!TypeOK /\ Uploading!RowsHaveFiles /\ Uploading!AttachedOnce OBVIOUS
  <1>1. disk \cup rows \cup attached \subseteq Uploading!Ids /\ DOMAIN origin = Uploading!Ids
    <2>1. origin \in Seq([pick : Nat, file : Selectable]) /\ Len(origin) = stored
      BY DEF UploadInv, StoredTypes
    <2>2. DOMAIN origin = 1 .. Len(origin) BY <2>1
    <2> QED BY <2>1, <2>2 DEF UploadInv, StoredTypes, Uploading!Ids
  <1>2. ASSUME NEW d \in Clients
        PROVE  /\ Uploading!Cardinality(dialog[d]) <= 1 /\ Uploading!Cardinality(uploads[d]) <= 1
               /\ uploads[d] # {} <=> \E form \in dialog[d] : form.saving
    <2>1. \A S : AtMostOne(S) => Uploading!Cardinality(S) <= 1 BY AtMostOneCounts, UploadsCount
    <2> QED BY <2>1 DEF UploadInv, Fit
  <1>3. ASSUME NEW d \in Clients, NEW form \in dialog[d]
        PROVE  /\ DOMAIN form.uploads \subseteq Selectable \ {"unfit"}
               /\ Uploading!Cardinality(DOMAIN form.uploads) <= MaxChosen
               /\ Uploading!StoredIds(form.uploads) \subseteq Uploading!Ids
    <2>1. PICK E \in SUBSET (Selectable \ {"unfit"}) :
            form.uploads \in [E -> Chosen] /\ DOMAIN form.uploads = E
      BY FormIs
    <2>2. Cardinality(E) <= MaxChosen /\ \A f \in E : Filed(form.uploads[f], f)
      BY <2>1 DEF UploadInv, Fit
    <2>3. Uploading!Cardinality(E) <= MaxChosen BY <2>2, UploadsCount
    <2>4. Uploading!StoredIds(form.uploads) = UNION {form.uploads[f].id : f \in E}
      BY <2>1 DEF Uploading!StoredIds, Uploading!Range
    <2> QED BY <2>1, <2>2, <2>3, <2>4 DEF Filed
  <1> QED BY <1>1, <1>2, <1>3 DEF Uploading!TypeOK, Uploading!RowsHaveFiles, UploadInv, StoredTypes

\* A dialog only closes with its files attached, and no attachment is taken away.
LEMMA UploadSteps ==
    ASSUME UploadInv, UploadInv', Uploading!Next \/ UNCHANGED uploadVars
    PROVE  Uploading!AttachesChosen /\ Uploading!KeepsAttached
  <1>1. Uploading!KeepsAttached
    BY DEF Uploading!KeepsAttached, Uploading!Next, uploadVars, Uploading!Open, Uploading!Edit,
       Uploading!AppendFiles, Uploading!RemoveFile, Uploading!Close, Uploading!Save,
       Uploading!WriteFile,
           Uploading!InsertRow, Uploading!CheckFiles, Uploading!AddAttachments,
               Uploading!UploadAnswered, Uploading!AttachAnswered, Uploading!SaveFails,
           Uploading!RemoveContract, Uploading!RemoveStoredFile, Uploading!Backend
  <1>2. ASSUME NEW d \in Clients, NEW form \in dialog[d], form.saving, dialog'[d] = {},
               NEW f \in DOMAIN form.uploads
        PROVE  \E id \in attached' \cap form.uploads[f].id :
                  origin[id] = [pick |-> form.uploads[f].pick, file |-> f]
    <2>1. Uploading!AttachAnswered(d)
      <3>1. dialog'[d] # dialog[d] BY <1>2
      <3>2. ~Uploading!Close(d)
        <4>1. \A other \in dialog[d] : other = form BY DEF UploadInv, Fit, AtMostOne
        <4> QED BY <1>2, <4>1 DEF Uploading!Close
      <3>3. dialog \in [Clients -> SUBSET UploadForms] BY DEF UploadInv, StoredTypes
      <3>4. \A e \in Clients : \A forms : dialog' = [dialog EXCEPT ![e] = forms] =>
               IF e = d THEN forms = {} ELSE dialog'[d] = dialog[d]
        BY <1>2, <3>3
      <3>5. ~(UNCHANGED uploadVars) /\ ~Uploading!RemoveContract /\ ~Uploading!RemoveStoredFile
        BY <3>1 DEF uploadVars, Uploading!RemoveContract, Uploading!RemoveStoredFile
      <3>6. PICK e \in Clients :
              \/ Uploading!Open(e) \/ Uploading!AppendFiles(e) \/ Uploading!RemoveFile(e)
              \/ Uploading!Close(e) \/ Uploading!Save(e)
              \/ Uploading!WriteFile(e) \/ Uploading!InsertRow(e) \/ Uploading!CheckFiles(e)
              \/ Uploading!AddAttachments(e)
              \/ Uploading!UploadAnswered(e) \/ Uploading!AttachAnswered(e)
              \/ Uploading!SaveFails(e)
        BY <3>5 DEF Uploading!Next
      <3>7. ~Uploading!WriteFile(e) /\ ~Uploading!InsertRow(e) /\ ~Uploading!CheckFiles(e)
                /\ ~Uploading!AddAttachments(e)
        BY <3>1 DEF Uploading!WriteFile, Uploading!InsertRow, Uploading!CheckFiles,
           Uploading!AddAttachments, Uploading!Step
      <3>8. ~Uploading!Open(e) /\ ~Uploading!AppendFiles(e) /\ ~Uploading!RemoveFile(e)
                /\ ~Uploading!Save(e) /\ ~Uploading!UploadAnswered(e)
            /\ ~Uploading!SaveFails(e)
        BY <3>1, <3>4 DEF Uploading!Open, Uploading!AppendFiles, Uploading!RemoveFile,
           Uploading!Edit, Uploading!Save, Uploading!UploadAnswered, Uploading!SaveFails
      <3>9. e = d BY <3>1, <3>4, <3>6, <3>7, <3>8 DEF Uploading!Close, Uploading!AttachAnswered
      <3> QED BY <3>2, <3>6, <3>7, <3>8, <3>9
    <2>2. PICK r \in uploads[d] : r.kind = "attach" /\ r.step = "answer"
      BY <2>1 DEF Uploading!AttachAnswered
    <2>3. Fitting(r, form.uploads) /\ Filed(form.uploads[f], f) BY RequestOf
    <2>4. form.uploads[f].id # {} /\ form.uploads[f].id \subseteq attached
      BY <2>2, <2>3 DEF Fitting
    <2>5. attached' = attached BY <2>1 DEF Uploading!AttachAnswered, Uploading!Backend
    <2> QED BY <2>3, <2>4, <2>5 DEF Filed, Origin
  <1> QED BY <1>1, <1>2 DEF Uploading!AttachesChosen

(***************************************************************************)
(* What a user saves is attached, once, and stays attached.                *)
(***************************************************************************)
THEOREM UploadsAlwaysHold == MCSpec => UploadsHold
  <1> DEFINE Inv == part = "uploading" => UploadInv
             Told == part = "uploading" => /\ Uploading!TypeOK
                                           /\ Uploading!RowsHaveFiles /\ Uploading!AttachedOnce
             Does == part = "uploading" => Uploading!AttachesChosen /\ Uploading!KeepsAttached
             all == <<part, vars, orderlyVars, uploadVars, depositVars>>
  <1>1. MCInit => Inv BY UploadInit DEF MCInit
  <1>2. Inv /\ [MCNext]_all => Inv'
    <2> SUFFICES ASSUME Inv, [MCNext]_all, part' = "uploading" PROVE UploadInv' OBVIOUS
    <2>1. part = "uploading" /\ (Uploading!Next \/ UNCHANGED uploadVars) BY DEF MCNext
    <2> QED BY <2>1, UploadNext
  <1>3. Inv => Told BY UploadTells
  <1>4. Inv /\ Inv' /\ [MCNext]_all => [Does]_uploadVars
    <2> SUFFICES ASSUME Inv, Inv', [MCNext]_all, part = "uploading" PROVE Does OBVIOUS
    <2>1. part' = part /\ (Uploading!Next \/ UNCHANGED uploadVars) BY DEF MCNext
    <2> QED BY <2>1, UploadSteps
  <1> HIDE DEF Inv, Told, Does, all
  <1>5. MCSpec => []Told /\ [][Does]_uploadVars
    <2>1. MCSpec => MCInit /\ [][MCNext]_all BY DEF MCSpec, all
    <2> QED BY <1>1, <1>2, <1>3, <1>4, <2>1, PTL
  <1> QED BY <1>5 DEF UploadsHold, Told, Does

(***************************************************************************)
(* Clients that take turns on a unit: what ContractOccupancyProofs shows   *)
(* of every such behaviour, and that the orderly part is one.              *)
(***************************************************************************)
OrderlyProofs == INSTANCE ContractOccupancyProofs WITH
    units <- apartUnits, meters <- apartMeters, contracts <- apartContracts,
    history <- apartHistory, request <- apartRequest, today <- apartToday,
    Contracts <- OrderlyContracts, Spans <- Leases, Rents <- {1}, Files <- {},
    LastDay <- OrderlyDays, MaxHistory <- OrderlyHistory, Apart <- TRUE

\* ContractOccupancyProofs speaks of the same steps.
LEMMA OrderlySteps ==
  /\ Orderly!Init => OrderlyProofs!Init
  /\ Orderly!Next => OrderlyProofs!Next
  /\ UNCHANGED orderlyVars => UNCHANGED OrderlyProofs!vars
  <1>1. Orderly!Init => OrderlyProofs!Init
    BY Zenon DEF Orderly!Missing, OrderlyProofs!Missing, Orderly!Idle, OrderlyProofs!Idle,
       Orderly!Init, OrderlyProofs!Init
  <1>2. Orderly!Next => OrderlyProofs!Next
    BY Zenon DEF Orderly!Missing, OrderlyProofs!Missing, Orderly!Idle, OrderlyProofs!Idle,
       Orderly!LiveUnit, OrderlyProofs!LiveUnit, Orderly!Live, OrderlyProofs!Live,
       Orderly!LeasesOf, OrderlyProofs!LeasesOf, Orderly!MetersOf, OrderlyProofs!MetersOf,
       Orderly!Overlap, OrderlyProofs!Overlap, Orderly!About, OrderlyProofs!About, Orderly!Free,
       OrderlyProofs!Free, Orderly!Begin, OrderlyProofs!Begin, Orderly!Proceed,
       OrderlyProofs!Proceed, Orderly!Finish, OrderlyProofs!Finish, Orderly!CodeTaken,
       OrderlyProofs!CodeTaken, Orderly!CreateUnit, OrderlyProofs!CreateUnit,
       Orderly!IndexAllows, OrderlyProofs!IndexAllows, Orderly!InsertUnit,
       OrderlyProofs!InsertUnit, Orderly!FindUnit, OrderlyProofs!FindUnit, Orderly!CheckCode,
       OrderlyProofs!CheckCode, Orderly!UpdateUnit, OrderlyProofs!UpdateUnit,
       Orderly!CountContracts, OrderlyProofs!CountContracts, Orderly!CountMeters,
       OrderlyProofs!CountMeters, Orderly!DeleteUnit, OrderlyProofs!DeleteUnit,
       Orderly!CreateMeter, OrderlyProofs!CreateMeter, Orderly!InsertMeter,
       OrderlyProofs!InsertMeter, Orderly!RemoveMeter, OrderlyProofs!RemoveMeter,
       Orderly!OpenForm, OrderlyProofs!OpenForm, Orderly!FindUnitOfContract,
       OrderlyProofs!FindUnitOfContract, Orderly!SubmitNew, OrderlyProofs!SubmitNew,
       Orderly!SubmitForm, OrderlyProofs!SubmitForm, Orderly!CheckRange,
       OrderlyProofs!CheckRange, Orderly!Appended, OrderlyProofs!Appended, Orderly!RowOf,
       OrderlyProofs!RowOf, Orderly!InsertContract, OrderlyProofs!InsertContract,
       Orderly!UpdateContract, OrderlyProofs!UpdateContract, Orderly!AddAttachments,
       OrderlyProofs!AddAttachments, Orderly!RemoveContract, OrderlyProofs!RemoveContract,
       Orderly!GiveUp, OrderlyProofs!GiveUp, Orderly!NextDay, OrderlyProofs!NextDay,
       Orderly!UnitStep, OrderlyProofs!UnitStep, Orderly!ContractStep,
       OrderlyProofs!ContractStep, Orderly!Next, OrderlyProofs!Next
  <1>3. UNCHANGED orderlyVars => UNCHANGED OrderlyProofs!vars
    BY DEF orderlyVars, OrderlyProofs!vars
  <1> QED BY <1>1, <1>2, <1>3

\* What it shows is what Orderly says.
LEMMA OrderlyTells ==
  /\ OrderlyProofs!TypeOK => Orderly!TypeOK
  /\ OrderlyProofs!RowsAgree => Orderly!RowsAgree
  <1>1. OrderlyProofs!TypeOK => Orderly!TypeOK
    BY Zenon DEF Orderly!Missing, OrderlyProofs!Missing, Orderly!Unit, OrderlyProofs!Unit,
       Orderly!Meter, OrderlyProofs!Meter, Orderly!Contract, OrderlyProofs!Contract,
       Orderly!Entry, OrderlyProofs!Entry, Orderly!Idle, OrderlyProofs!Idle, Orderly!NewUnit,
       OrderlyProofs!NewUnit, Orderly!EditUnit, OrderlyProofs!EditUnit, Orderly!Removal,
       OrderlyProofs!Removal, Orderly!NewMeter, OrderlyProofs!NewMeter, Orderly!Form,
       OrderlyProofs!Form, Orderly!Terms, OrderlyProofs!Terms, Orderly!Requests,
       OrderlyProofs!Requests, Orderly!Histories, OrderlyProofs!Histories, Orderly!TypeOK,
       OrderlyProofs!TypeOK
  <1>2. OrderlyProofs!RowsAgree => Orderly!RowsAgree
    BY Zenon DEF Orderly!Missing, OrderlyProofs!Missing, Orderly!LiveUnit,
       OrderlyProofs!LiveUnit, Orderly!Live, OrderlyProofs!Live, Orderly!LeasesOf,
       OrderlyProofs!LeasesOf, Orderly!MetersOf, OrderlyProofs!MetersOf, Orderly!Overlap,
       OrderlyProofs!Overlap, Orderly!RunsToday, OrderlyProofs!RunsToday, Orderly!Newest,
       OrderlyProofs!Newest, Orderly!ListActive, OrderlyProofs!ListActive, Orderly!DaysUntil,
       OrderlyProofs!DaysUntil, Orderly!ListStatus, OrderlyProofs!ListStatus, Orderly!EndsSoon,
       OrderlyProofs!EndsSoon, Orderly!PageStatus, OrderlyProofs!PageStatus, Orderly!LeasesApart,
       OrderlyProofs!LeasesApart, Orderly!RemovedUnitEmpty, OrderlyProofs!RemovedUnitEmpty,
       Orderly!CodesUnique, OrderlyProofs!CodesUnique, Orderly!HistoryFollowsRent,
       OrderlyProofs!HistoryFollowsRent, Orderly!StatusesAgree, OrderlyProofs!StatusesAgree,
       Orderly!RowsAgree, OrderlyProofs!RowsAgree,
       Orderly!Cardinality, OrderlyProofs!Cardinality
  <1> QED BY <1>1, <1>2

(***************************************************************************)
(* As long as no two requests are about one unit, with requests about      *)
(* different units in any interleaving and contracts that move between     *)
(* units, leases lie apart, a removed unit is empty and both pages give a  *)
(* unit one status: for any number of units, codes, contracts, clients,    *)
(* leases and days (contracts.service.ts, units.service.ts).               *)
(***************************************************************************)
THEOREM OrderlyUnitsAlwaysHold == MCSpec => []OrderlyUnitsHold
  <1> DEFINE on == part = "orderly"
             all == <<part, vars, orderlyVars, uploadVars, depositVars>>
             steps == [][OrderlyProofs!Next]_(OrderlyProofs!vars)
             Types == OrderlyProofs!TypeOK
             Rows == OrderlyProofs!RowsAgree
  <1>1. on /\ MCInit => OrderlyProofs!Init
    BY OrderlySteps DEF MCInit
  <1>2. on /\ [MCNext]_all => on' /\ [OrderlyProofs!Next]_(OrderlyProofs!vars)
    BY OrderlySteps DEF MCNext
  <1>3. ~on /\ [MCNext]_all => ~on'
    BY DEF MCNext
  <1>4. OrderlyProofs!Init /\ steps => []Types /\ []Rows
    <2>1. /\ /\ OrderlyDays \in Nat \ {0} /\ ExpiringDays \in Nat /\ OrderlyHistory \in Nat \ {0}
             /\ Leases \subseteq {s \in [start : Nat, end : Nat] : s.start <= s.end}
             /\ TRUE \in BOOLEAN
      BY ContractsAssumption DEF Orderly!OccupancyConstants
    <2>2. OrderlyProofs!Spec => [](TRUE => Types)
      BY <2>1, OrderlyProofs!TypesInTurn
    <2>3. OrderlyProofs!Spec => []Rows
      BY <2>1, OrderlyProofs!RowsAlwaysAgree
    <2>4. OrderlyProofs!Init /\ steps => OrderlyProofs!Spec
      BY DEF OrderlyProofs!Spec
    <2> HIDE DEF steps, Types, Rows
    <2> QED BY <2>2, <2>3, <2>4, PTL
  <1>5. (on => Types /\ Rows) => OrderlyUnitsHold
    BY OrderlyTells DEF OrderlyUnitsHold
  <1>6. MCSpec => MCInit /\ [][MCNext]_all
    BY DEF MCSpec
  <1> HIDE DEF on, all, Types, Rows
  <1> QED BY <1>1, <1>2, <1>3, <1>4, <1>5, <1>6, PTL
=============================================================================
