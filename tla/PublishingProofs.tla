--------------------------- MODULE PublishingProofs ---------------------------
(***************************************************************************)
(* Studio and Publishing, proved for every value of the constants.  Of the *)
(* drafts: types, what a version stands for, and that nobody overwrites    *)
(* what he has not seen.  Of the publications: they leave the drafts       *)
(* alone, the types hold, and a visitor is only answered from what he was  *)
(* shown.  Of the pages: what they show of the drafts they were compiled   *)
(* from, which takes lemmas about filters and stable sorts.                *)
(***************************************************************************)
EXTENDS Publishing, FiniteSetTheorems, TLAPS

(* A draft of an item is a row as it was, at a version the row has reached; *)
(* when the row still has that version, the draft is the row, and once the  *)
(* list is complete it has its children.  Rows are never created twice.     *)
ItemDraftOK(d) ==
  /\ rows[d.item] # None
  /\ Exists(d.item) =>
       /\ d.row.version <= rows[d.item].version
       /\ d.row.version = rows[d.item].version =>
            d.row = rows[d.item] /\ (d.pc = "open" => d.children = children[d.item])
(* The same of the home page, whose version is 0 before its first save.     *)
HomeDraftOK(d) ==
  IF home = None THEN d.seen.version = 0
  ELSE d.seen.version <= home.version /\ (d.seen.version = home.version => d.seen = home)

DraftsFollow == \A e \in Editors :
  /\ drafts[e] # None /\ drafts[e].on = "item" => ItemDraftOK(drafts[e])
  /\ drafts[e] # None /\ drafts[e].on = "home" => HomeDraftOK(drafts[e])

IInv == StudioTypeOK /\ DraftsFollow

-----------------------------------------------------------------------------
LEMMA EmptyType == Empty \in Owned
BY DEF Empty, Owned

LEMMA PayloadType == ASSUME NEW payload \in [BlockIds -> Children \cup {None}]
                     PROVE payload \in Owned
BY BodiesAreValid DEF Owned

(* An open or listed draft of an item is an item draft, and likewise home.  *)
LEMMA DraftKinds ==
  ASSUME StudioTypeOK, NEW e \in Editors, drafts[e] # None
  PROVE /\ drafts[e].on = "item" => drafts[e] \in OnItem
        /\ drafts[e].on = "home" => drafts[e] \in OnHome
<1>1. drafts[e] \in OnItem \cup OnHome
  BY DEF StudioTypeOK
<1>2. \A d \in OnItem : d.on = "item"
  BY DEF OnItem
<1>3. \A d \in OnHome : d.on = "home"
  BY DEF OnHome
<1> QED BY <1>1, <1>2, <1>3

LEMMA RowType == ASSUME StudioTypeOK, NEW i \in Items, Exists(i) PROVE rows[i] \in Row
BY DEF StudioTypeOK, Exists

(* What a draft may be set to.                                              *)
LEMMA ShownType ==
  ASSUME NEW i \in Items, NEW row \in Row, NEW owned \in Owned, NEW pc \in {"listed", "open"}
  PROVE Shown(i, row, owned, pc) \in OnItem
BY DEF Shown, OnItem

LEMMA ShownHomeType ==
  ASSUME NEW seen \in Home \cup {Unwritten}, NEW sent \in Intent, NEW pc \in {"open", "checked"}
  PROVE ShownHome(seen, sent, pc) \in OnHome
BY DEF ShownHome, OnHome

LEMMA ReadHomeType ==
  ASSUME StudioTypeOK
  PROVE ReadHome \in Home \cup {Unwritten} /\ ReadHome.fields \in Intent
<1>1. Unwritten.fields \in Intent
  BY DEF Unwritten, Intent
<1>2. \A h \in Home : h.fields \in Intent
  BY DEF Home
<1> QED BY <1>1, <1>2 DEF ReadHome, StudioTypeOK

(* When the tables stay as they are, a new draft need only follow them.     *)
LEMMA SetDraft ==
  ASSUME IInv, NEW e \in Editors, NEW d \in OnItem \cup OnHome,
         d.on = "item" => ItemDraftOK(d), d.on = "home" => HomeDraftOK(d),
         drafts' = [drafts EXCEPT ![e] = d], UNCHANGED <<rows, children, home>>
  PROVE  IInv'
<1>1. StudioTypeOK'
  BY DEF IInv, StudioTypeOK
<1>2. ASSUME NEW f \in Editors, drafts'[f] # None
      PROVE  /\ drafts'[f].on = "item" => ItemDraftOK(drafts'[f])
             /\ drafts'[f].on = "home" => HomeDraftOK(drafts'[f])
  <2>1. CASE f = e
    BY <2>1 DEF IInv, StudioTypeOK
  <2>2. CASE f # e
    BY <1>2, <2>2 DEF IInv, StudioTypeOK, DraftsFollow
  <2> QED BY <2>1, <2>2
<1>3. DraftsFollow'
  BY <1>2 DEF DraftsFollow, ItemDraftOK, HomeDraftOK, Exists
<1> QED BY <1>1, <1>3 DEF IInv

(* A row that is created or saved to a version no draft had yet leaves the  *)
(* drafts of the others behind.                                             *)
LEMMA SetItem ==
  ASSUME IInv, NEW e \in Editors, NEW i \in Items, NEW row \in Row, NEW owned \in Owned,
         rows[i] = None \/ (Exists(i) /\ rows[i].version < row.version),
         NEW d \in OnItem \cup OnHome \cup {None},
         d = drafts[e] \/ d = Shown(i, row, owned, "open"),
         rows' = [rows EXCEPT ![i] = row], children' = [children EXCEPT ![i] = owned],
         drafts' = [drafts EXCEPT ![e] = d], UNCHANGED home
  PROVE  IInv'
<1>1. StudioTypeOK'
  BY DEF IInv, StudioTypeOK
<1>0. row # None /\ row # Gone /\ row.version \in Nat
  BY NoneIsNoRecord, MaxVersionIsPositive DEF Row, Versions
<1>2. rows'[i] = row /\ children'[i] = owned
  BY DEF IInv, StudioTypeOK
<1>3. \A j \in Items : j # i => rows'[j] = rows[j] /\ children'[j] = children[j]
  BY DEF IInv, StudioTypeOK
<1>4. ASSUME NEW u \in OnItem, ItemDraftOK(u)
      PROVE  ItemDraftOK(u)'
  <2>1. u.item \in Items /\ u.row \in Row
    BY DEF OnItem
  <2>2. CASE u.item # i
    BY <2>1, <2>2, <1>3, <1>4 DEF ItemDraftOK, Exists
  <2>3. CASE u.item = i
    <3>1. Exists(i) /\ rows[i].version < row.version /\ u.row.version <= rows[i].version
      BY <1>4, <2>3 DEF ItemDraftOK
    <3>2. rows[i] \in Row
      BY <3>1, RowType DEF IInv
    <3>3. u.row.version \in Nat /\ rows[i].version \in Nat
      BY <2>1, <3>2, MaxVersionIsPositive DEF Row, Versions
    <3>4. u.row.version < row.version
      BY <3>1, <3>3, <1>0
    <3> QED BY <3>3, <3>4, <1>0, <1>2, <2>3 DEF ItemDraftOK, Exists
  <2> QED BY <2>2, <2>3
<1>5. \A pc : ItemDraftOK(Shown(i, row, owned, pc))'
  BY <1>0, <1>2 DEF ItemDraftOK, Shown
<1>6. \A f \in Editors : drafts'[f] = drafts[f] \/ drafts'[f] = Shown(i, row, owned, "open")
  BY DEF IInv, StudioTypeOK
<1>7. \A f \in Editors : drafts'[f] # None /\ drafts'[f].on = "item" =>
        \E u : u = drafts'[f] /\ ItemDraftOK(u)'
  <2>1. TAKE f \in Editors
  <2>2. HAVE drafts'[f] # None /\ drafts'[f].on = "item"
  <2>3. CASE drafts'[f] = drafts[f]
    <3>1. drafts[f] \in OnItem /\ ItemDraftOK(drafts[f])
      BY <2>2, <2>3, DraftKinds DEF IInv, DraftsFollow
    <3> QED BY <3>1, <2>3, <1>4
  <2>4. CASE drafts'[f] = Shown(i, row, owned, "open")
    BY <2>4, <1>5
  <2> QED BY <2>3, <2>4, <1>6
<1>8. \A f \in Editors : drafts'[f] # None /\ drafts'[f].on = "home" =>
        drafts'[f] = drafts[f] /\ HomeDraftOK(drafts[f])
  BY <1>6 DEF IInv, DraftsFollow, Shown
<1>9. DraftsFollow'
  BY <1>7, <1>8 DEF DraftsFollow, ItemDraftOK, HomeDraftOK, Exists
<1> QED BY <1>1, <1>9 DEF IInv

(* Nothing follows a deleted row.                                           *)
LEMMA DeleteKeeps == ASSUME IInv, NEW e \in Editors, Delete(e) PROVE IInv'
<1> DEFINE i == drafts[e].item
<1>1. drafts[e] \in OnItem /\ Exists(i)
  BY DraftKinds DEF Delete, ItemOpen, IInv
<1>2. i \in Items
  BY <1>1 DEF OnItem
<1>3. rows' = [rows EXCEPT ![i] = Gone] /\ children' = [children EXCEPT ![i] = Empty]
        /\ home' = home /\ drafts' = drafts
  BY DEF Delete
<1>4. StudioTypeOK'
  BY <1>2, <1>3, EmptyType DEF IInv, StudioTypeOK
<1>5. \A j \in Items : j # i => rows'[j] = rows[j] /\ children'[j] = children[j]
  BY <1>3 DEF IInv, StudioTypeOK
<1>6. rows'[i] = Gone /\ Gone # None
  BY <1>2, <1>3, NoneIsNothing DEF IInv, StudioTypeOK
<1>7. ASSUME NEW u \in OnItem, ItemDraftOK(u) PROVE ItemDraftOK(u)'
  <2>1. u.item \in Items
    BY DEF OnItem
  <2> QED BY <2>1, <1>5, <1>6, <1>7 DEF ItemDraftOK, Exists
<1>8. \A f \in Editors : drafts[f] # None /\ drafts[f].on = "item" =>
        drafts[f] \in OnItem /\ ItemDraftOK(drafts[f])
  BY DraftKinds DEF IInv, DraftsFollow
<1>9. \A f \in Editors : drafts'[f] # None /\ drafts'[f].on = "item" =>
        \E u : u = drafts'[f] /\ ItemDraftOK(u)'
  BY <1>3, <1>7, <1>8
<1>10. \A f \in Editors : drafts'[f] # None /\ drafts'[f].on = "home" =>
         drafts'[f] = drafts[f] /\ HomeDraftOK(drafts[f])
  BY <1>3 DEF IInv, DraftsFollow
<1>11. DraftsFollow'
  BY <1>3, <1>9, <1>10 DEF DraftsFollow, ItemDraftOK, HomeDraftOK, Exists
<1> QED BY <1>4, <1>11 DEF IInv

LEMMA CreateKeeps ==
  ASSUME IInv, NEW e \in Editors, NEW i \in Items, CreateItem(e, i) PROVE IInv'
<1>1. PICK body \in Bodies, position \in Positions, payload \in [BlockIds -> Children \cup {None}] :
        LET row == [body |-> body, position |-> position, version |-> 1] IN
        /\ rows[i] = None
        /\ rows' = [rows EXCEPT ![i] = row]
        /\ children' = [children EXCEPT ![i] = payload]
        /\ drafts' = [drafts EXCEPT ![e] = Shown(i, row, payload, "open")]
        /\ UNCHANGED home
  BY DEF CreateItem
<1> DEFINE row == [body |-> body, position |-> position, version |-> 1]
<1>2. row \in Row /\ payload \in Owned
  BY PayloadType, MaxVersionIsPositive DEF Row, Versions
<1> HIDE DEF row
<1>3. Shown(i, row, payload, "open") \in OnItem
  BY <1>2, ShownType
<1>4. /\ rows[i] = None /\ rows' = [rows EXCEPT ![i] = row]
      /\ children' = [children EXCEPT ![i] = payload]
      /\ drafts' = [drafts EXCEPT ![e] = Shown(i, row, payload, "open")] /\ home' = home
  BY <1>1 DEF row
<1> QED BY <1>2, <1>3, <1>4, SetItem

(* What the diff leaves is the payload.                                     *)
LEMMA DiffIsPayload ==
  ASSUME NEW old \in Owned, NEW payload \in Owned PROVE Diff(old, payload) = payload
BY DEF Diff, Ids, Owned

LEMMA SaveKeeps == ASSUME IInv, NEW e \in Editors, Save(e) PROVE IInv'
<1> DEFINE i == drafts[e].item
<1>1. drafts[e] \in OnItem /\ Exists(i)
  BY DraftKinds DEF Save, ItemOpen, IInv
<1>2. i \in Items /\ rows[i] \in Row
  BY <1>1, RowType DEF OnItem, IInv
<1>3. PICK body \in Bodies, position \in Positions, answered \in BOOLEAN,
           payload \in [BlockIds -> Children \cup {None}] :
        LET row == [body |-> body,
                    position |-> IF KeepsPosition(body) THEN rows[i].position ELSE position,
                    version |-> NextVersion(rows[i].version)] IN
        /\ rows[i].version < MaxVersion
        /\ rows' = [rows EXCEPT ![i] = row]
        /\ children' = [children EXCEPT ![i] = Diff(children[i], payload)]
        /\ drafts' = [drafts EXCEPT ![e] =
             IF answered THEN Shown(i, row, payload, "open") ELSE drafts[e]]
        /\ UNCHANGED home
  BY DEF Save
<1> DEFINE row == [body |-> body,
                   position |-> IF KeepsPosition(body) THEN rows[i].position ELSE position,
                   version |-> NextVersion(rows[i].version)]
<1>4. row \in Row /\ rows[i].version < row.version
  BY <1>2, <1>3, MaxVersionIsPositive DEF Row, Versions, NextVersion
<1>5. payload \in Owned /\ Diff(children[i], payload) = payload
  BY <1>2, PayloadType, DiffIsPayload DEF IInv, StudioTypeOK
<1>6. /\ rows' = [rows EXCEPT ![i] = row]
      /\ children' = [children EXCEPT ![i] = payload]
      /\ drafts' = [drafts EXCEPT ![e] =
           IF answered THEN Shown(i, row, payload, "open") ELSE drafts[e]]
      /\ home' = home
  BY <1>3, <1>5
<1> HIDE DEF i, row
<1>7. Shown(i, row, payload, "open") \in OnItem
  BY <1>2, <1>4, <1>5, ShownType
<1> DEFINE d == IF answered THEN Shown(i, row, payload, "open") ELSE drafts[e]
<1>8. d \in OnItem /\ (d = drafts[e] \/ d = Shown(i, row, payload, "open"))
  BY <1>1, <1>7
<1>9. drafts' = [drafts EXCEPT ![e] = d]
  BY <1>6
<1> HIDE DEF d
<1> QED BY <1>1, <1>2, <1>4, <1>5, <1>6, <1>8, <1>9, SetItem

-----------------------------------------------------------------------------
(* The actions that only change a draft.                                    *)

LEMMA ListItemKeeps ==
  ASSUME IInv, NEW e \in Editors, NEW i \in Items, ListItem(e, i) PROVE IInv'
<1>1. Exists(i) /\ rows[i] \in Row
  BY RowType DEF ListItem, IInv
<1> DEFINE d == Shown(i, rows[i], Empty, "listed")
<1>2. d \in OnItem
  BY <1>1, EmptyType, ShownType
<1>3. ItemDraftOK(d) /\ d.on = "item"
  BY <1>1, MaxVersionIsPositive DEF ItemDraftOK, Shown, Exists, Row, Versions
<1>4. drafts' = [drafts EXCEPT ![e] = d] /\ UNCHANGED <<rows, children, home>>
  BY DEF ListItem
<1> HIDE DEF d
<1> QED BY <1>2, <1>3, <1>4, SetDraft

LEMMA ListChildrenKeeps == ASSUME IInv, NEW e \in Editors, ListChildren(e) PROVE IInv'
<1>1. drafts[e] \in OnItem /\ ItemDraftOK(drafts[e])
  BY DraftKinds DEF ListChildren, IInv, DraftsFollow
<1> DEFINE i == drafts[e].item
<1>2. i \in Items /\ drafts[e].row \in Row
  BY <1>1 DEF OnItem
<1>3. children[i] \in Owned
  BY <1>2 DEF IInv, StudioTypeOK
<1> DEFINE d == Shown(i, drafts[e].row, children[i], "open")
<1>4. d \in OnItem
  BY <1>2, <1>3, ShownType
<1>5. ItemDraftOK(d) /\ d.on = "item"
  BY <1>1 DEF ItemDraftOK, Shown
<1>6. drafts' = [drafts EXCEPT ![e] = d] /\ UNCHANGED <<rows, children, home>>
  BY DEF ListChildren
<1> HIDE DEF d
<1> QED BY <1>4, <1>5, <1>6, SetDraft

LEMMA ListHomeKeeps == ASSUME IInv, NEW e \in Editors, ListHome(e) PROVE IInv'
<1> DEFINE d == ShownHome(ReadHome, ReadHome.fields, "open")
<1>1. d \in OnHome
  BY ReadHomeType, ShownHomeType DEF IInv
<1>2. home # None => home.version \in Nat
  BY MaxVersionIsPositive DEF IInv, StudioTypeOK, Home, Versions
<1>3. HomeDraftOK(d) /\ d.on = "home"
  BY <1>2 DEF HomeDraftOK, ShownHome, ReadHome, Unwritten
<1>4. drafts' = [drafts EXCEPT ![e] = d] /\ UNCHANGED <<rows, children, home>>
  BY DEF ListHome
<1> HIDE DEF d
<1> QED BY <1>1, <1>3, <1>4, SetDraft

LEMMA CheckFeaturedKeeps == ASSUME IInv, NEW e \in Editors, CheckFeatured(e) PROVE IInv'
<1>1. PICK intent \in Intent :
        /\ drafts' = [drafts EXCEPT ![e] = ShownHome(drafts[e].seen, intent, "checked")]
        /\ UNCHANGED <<rows, children, home>>
  BY DEF CheckFeatured, IInv, StudioTypeOK
<1>2. drafts[e] \in OnHome /\ HomeDraftOK(drafts[e])
  BY DraftKinds DEF CheckFeatured, HomeAt, IInv, DraftsFollow
<1>3. drafts[e].seen \in Home \cup {Unwritten}
  BY <1>2 DEF OnHome
<1> DEFINE d == ShownHome(drafts[e].seen, intent, "checked")
<1>4. d \in OnHome
  BY <1>3, ShownHomeType
<1>5. HomeDraftOK(d) /\ d.on = "home"
  BY <1>2 DEF HomeDraftOK, ShownHome
<1>6. drafts' = [drafts EXCEPT ![e] = d]
  BY <1>1
<1> HIDE DEF d
<1> QED BY <1>1, <1>4, <1>5, <1>6, SetDraft

(* A saved home page has a version that no other draft has reached.         *)
LEMMA SaveHomeKeeps == ASSUME IInv, NEW e \in Editors, SaveHome(e) PROVE IInv'
<1>1. drafts[e] \in OnHome /\ HomeDraftOK(drafts[e])
  BY DraftKinds DEF SaveHome, HomeAt, IInv, DraftsFollow
<1>2. drafts[e].seen \in Home \cup {Unwritten} /\ drafts[e].sent \in Intent
  BY <1>1 DEF OnHome
<1> DEFINE kept == ShownHome(drafts[e].seen, drafts[e].sent, "open")
           written == [fields |-> drafts[e].sent,
                       version |-> IF home = None THEN 1 ELSE NextVersion(home.version)]
<1>3. kept \in OnHome /\ kept.on = "home" /\ kept.seen = drafts[e].seen
  BY <1>2, ShownHomeType DEF ShownHome
<1>4. CASE ~Upserts(drafts[e].seen)
  <2>1. drafts' = [drafts EXCEPT ![e] = kept] /\ UNCHANGED <<rows, children, home>>
    BY <1>4 DEF SaveHome
  <2>2. HomeDraftOK(kept)
    BY <1>1, <1>3 DEF HomeDraftOK
  <2> HIDE DEF kept
  <2> QED BY <2>1, <2>2, <1>3, SetDraft
<1>5. CASE Upserts(drafts[e].seen)
  <2>1. /\ drafts[e].seen.version < MaxVersion /\ home' = written
        /\ UNCHANGED <<rows, children>>
    BY <1>5 DEF SaveHome
  <2>2. \/ drafts' = [drafts EXCEPT ![e] = ShownHome(written, drafts[e].sent, "open")]
        \/ drafts' = [drafts EXCEPT ![e] = kept]
    BY <1>5 DEF SaveHome
  <2>3. home # None => home \in Home /\ home.version \in Versions
    BY DEF IInv, StudioTypeOK, Home
  <2>4. written.version \in Versions /\ (home # None => home.version < written.version)
    BY <2>1, <2>3, <1>5, MaxVersionIsPositive DEF Versions, Upserts, SameVersion, NextVersion
  <2>5. written \in Home
    BY <1>2, <2>4 DEF Home
  <2> HIDE DEF kept, written
  <2>6. written # None
    BY <2>5, NoneIsNoRecord
  <2> DEFINE shown == ShownHome(written, drafts[e].sent, "open")
  <2>7. shown \in OnHome /\ shown.on = "home" /\ shown.seen = written
    BY <1>2, <2>5, ShownHomeType DEF ShownHome
  <2> HIDE DEF shown
  <2>8. \A f \in Editors : drafts'[f] = drafts[f] \/ drafts'[f] = kept \/ drafts'[f] = shown
    BY <2>2 DEF IInv, StudioTypeOK, shown
  <2>9. StudioTypeOK'
    BY <2>1, <2>2, <2>5, <2>7, <1>3 DEF IInv, StudioTypeOK, shown
  <2>10. ASSUME NEW u \in OnHome, HomeDraftOK(u) \/ u = shown PROVE HomeDraftOK(u)'
    <3>1. CASE u = shown
      <4>1. home' = written
        BY <2>1
      <4>2. u.seen = written
        BY <3>1, <2>7
      <4>3. written.version <= written.version
        BY <2>4, MaxVersionIsPositive DEF Versions
      <4> QED BY <4>1, <4>2, <4>3, <2>6 DEF HomeDraftOK
    <3>2. CASE HomeDraftOK(u)
      <4>1. u.seen \in Home \cup {Unwritten}
        BY DEF OnHome
      <4>2. u.seen.version \in Nat
        BY <4>1, MaxVersionIsPositive DEF Home, Versions, Unwritten
      <4>3. u.seen.version < written.version
        BY <3>2, <4>2, <2>3, <2>4, MaxVersionIsPositive DEF HomeDraftOK, Versions
      <4>4. u.seen.version <= written.version /\ u.seen.version # written.version
        BY <4>2, <4>3, <2>4, MaxVersionIsPositive DEF Versions
      <4> QED BY <4>4, <2>1, <2>6 DEF HomeDraftOK
    <3> QED BY <3>1, <3>2, <2>10
  <2>11. HomeDraftOK(kept)
    BY <1>1, <1>3 DEF HomeDraftOK
  <2>12. \A f \in Editors : drafts'[f] # None /\ drafts'[f].on = "home" =>
           \E u : u = drafts'[f] /\ HomeDraftOK(u)'
    <3>1. TAKE f \in Editors
    <3>2. HAVE drafts'[f] # None /\ drafts'[f].on = "home"
    <3>3. drafts'[f] \in OnHome
      <4>1. CASE drafts'[f] = drafts[f]
        BY <4>1, <3>2, DraftKinds DEF IInv
      <4> QED BY <4>1, <2>7, <2>8, <1>3
    <3>4. HomeDraftOK(drafts'[f]) \/ drafts'[f] = shown
      <4>1. CASE drafts'[f] = drafts[f]
        BY <4>1, <3>2 DEF IInv, DraftsFollow
      <4> QED BY <4>1, <2>8, <2>11
    <3>5. \E u \in OnHome : u = drafts'[f] /\ (HomeDraftOK(u) \/ u = shown)
      BY <3>3, <3>4
    <3> QED BY <3>5, <2>10
  <2>13. \A f \in Editors : drafts'[f] # None /\ drafts'[f].on = "item" =>
           drafts'[f] = drafts[f] /\ ItemDraftOK(drafts[f])
    BY <2>7, <2>8, <1>3 DEF IInv, DraftsFollow
  <2>14. DraftsFollow'
    BY <2>1, <2>12, <2>13 DEF DraftsFollow, ItemDraftOK, HomeDraftOK, Exists
  <2> QED BY <2>9, <2>14 DEF IInv
<1> QED BY <1>4, <1>5

-----------------------------------------------------------------------------
LEMMA InitIInv == StudioInit => IInv
<1> SUFFICES ASSUME StudioInit PROVE IInv
  OBVIOUS
<1>1. StudioTypeOK
  BY EmptyType DEF StudioInit, StudioTypeOK
<1>2. DraftsFollow
  BY DEF StudioInit, DraftsFollow
<1> QED BY <1>1, <1>2 DEF IInv

LEMMA NextIInv == IInv /\ [StudioNext]_studio => IInv'
<1> SUFFICES ASSUME IInv, [StudioNext]_studio PROVE IInv'
  OBVIOUS
<1>1. CASE UNCHANGED studio
  BY <1>1 DEF studio, IInv, StudioTypeOK, DraftsFollow, ItemDraftOK, HomeDraftOK, Exists
<1>2. ASSUME NEW e \in Editors, NEW i \in Items, CreateItem(e, i) \/ ListItem(e, i) PROVE IInv'
  BY <1>2, CreateKeeps, ListItemKeeps
<1>3. ASSUME NEW e \in Editors,
             \/ ListChildren(e) \/ Save(e) \/ Delete(e)
             \/ ListHome(e) \/ CheckFeatured(e) \/ SaveHome(e)
      PROVE  IInv'
  BY <1>3, ListChildrenKeeps, SaveKeeps, DeleteKeeps, ListHomeKeeps, CheckFeaturedKeeps, SaveHomeKeeps
<1> QED BY <1>1, <1>2, <1>3 DEF StudioNext

(* Every variable keeps its type; the drafts follow the rows.               *)
THEOREM TypesHold == StudioSpec => [](StudioTypeOK /\ DraftsFollow)
<1>1. StudioInit => IInv
  BY InitIInv
<1>2. IInv /\ [StudioNext]_studio => IInv'
  BY NextIInv
<1>3. IInv <=> StudioTypeOK /\ DraftsFollow
  BY DEF IInv
<1> QED BY <1>1, <1>2, <1>3, PTL DEF StudioSpec

(* An editor whose version is the present one has the present content on    *)
(* screen: the row and its children, or the home page.                      *)
THEOREM VersionMeansContent == StudioSpec => []CurrentVersionIsCurrentContent
<1>1. IInv => CurrentVersionIsCurrentContent
  <2> SUFFICES ASSUME IInv, NEW e \in Editors
               PROVE  LET d == drafts[e] IN
                 /\ ItemOpen(e) /\ Exists(d.item) /\ rows[d.item].version = d.row.version =>
                      d.row = rows[d.item] /\ d.children = children[d.item]
                 /\ d # None /\ d.on = "home" /\ home # None /\ home.version = d.seen.version =>
                      d.seen = home
    BY DEF CurrentVersionIsCurrentContent
  <2>1. ItemOpen(e) => ItemDraftOK(drafts[e]) /\ drafts[e].pc = "open"
    BY DEF ItemOpen, IInv, DraftsFollow
  <2>2. drafts[e] # None /\ drafts[e].on = "home" => HomeDraftOK(drafts[e])
    BY DEF IInv, DraftsFollow
  <2> QED BY <2>1, <2>2 DEF ItemDraftOK, HomeDraftOK
<1> QED BY <1>1, InitIInv, NextIInv, PTL DEF StudioSpec

(* An open draft of the present version shows the present content.          *)
LEMMA OpenIsSeen ==
  ASSUME IInv, NEW e \in Editors, ItemOpen(e), Exists(drafts[e].item),
         SameVersion(rows[drafts[e].item], drafts[e].row.version)
  PROVE  SeenItem(e, drafts[e].item, rows[drafts[e].item], children[drafts[e].item])
<1>1. ItemDraftOK(drafts[e])
  BY DEF ItemOpen, IInv, DraftsFollow
<1> QED BY <1>1 DEF ItemDraftOK, SeenItem, ItemOpen, SameVersion

(* Rows, children and the home page change only by somebody who has their   *)
(* present content on screen.                                               *)
THEOREM NothingLost == StudioSpec => NothingOverwrittenUnseen
<1>1. IInv /\ [StudioNext]_studio => [Seen]_studio
  <2> SUFFICES ASSUME IInv, StudioNext PROVE Seen
    OBVIOUS
  <2>1. PICK e \in Editors :
          \/ \E i \in Items : CreateItem(e, i) \/ ListItem(e, i)
          \/ ListChildren(e) \/ Save(e) \/ Delete(e)
          \/ ListHome(e) \/ CheckFeatured(e) \/ SaveHome(e)
    BY DEF StudioNext
  <2>2. ASSUME NEW i \in Items, CreateItem(e, i) PROVE Seen
    <3>1. rows[i] = None /\ home' = home
      BY <2>2 DEF CreateItem
    <3>2. \A j \in Items : j # i => rows'[j] = rows[j] /\ children'[j] = children[j]
      BY <2>2 DEF CreateItem, IInv, StudioTypeOK
    <3> QED BY <3>1, <3>2 DEF Seen, Exists
  <2>3. CASE (\E i \in Items : ListItem(e, i)) \/ ListChildren(e) \/ ListHome(e) \/ CheckFeatured(e)
    BY <2>3 DEF ListItem, ListChildren, ListHome, CheckFeatured, Seen
  <2>4. CASE Save(e) \/ Delete(e)
    <3> DEFINE i == drafts[e].item
    <3>1. ItemOpen(e) /\ Exists(i) /\ SameVersion(rows[i], drafts[e].row.version) /\ home' = home
      BY <2>4 DEF Save, Delete
    <3>2. SeenItem(e, i, rows[i], children[i])
      BY <3>1, OpenIsSeen
    <3>3. \A j \in Items : j # i => rows'[j] = rows[j] /\ children'[j] = children[j]
      BY <2>4 DEF Save, Delete, IInv, StudioTypeOK
    <3> QED BY <3>1, <3>2, <3>3 DEF Seen
  <2>5. CASE SaveHome(e)
    <3>1. rows' = rows /\ children' = children /\ HomeAt(e, "checked")
      BY <2>5 DEF SaveHome
    <3>2. home' # home => Upserts(drafts[e].seen)
      BY <2>5 DEF SaveHome
    <3>3. HomeDraftOK(drafts[e])
      BY <3>1 DEF HomeAt, IInv, DraftsFollow
    <3>4. home # None /\ home' # home => drafts[e].seen = home
      BY <3>2, <3>3 DEF Upserts, SameVersion, HomeDraftOK
    <3> QED BY <3>1, <3>4 DEF Seen
  <2> QED BY <2>1, <2>2, <2>3, <2>4, <2>5
<1> QED BY <1>1, InitIInv, NextIInv, PTL DEF StudioSpec, NothingOverwrittenUnseen

-----------------------------------------------------------------------------
(* Publications, whatever the compiler does.                                *)

(* A visitor was shown the knowledge of a revision whose page exists, and   *)
(* pages never change.                                                      *)
PublicationsOK ==
  /\ last \in 0..MaxRevision
  /\ running \in SUBSET (1..last)
  /\ site \in 0..last
  /\ DOMAIN pages = Revisions
  /\ site # 0 => pages[site] # None
VisitorOK ==
  visitor # None =>
    /\ visitor.revision \in 1..last
    /\ pages[visitor.revision] # None
    /\ visitor.shown = C!Elements(Knowledge(pages[visitor.revision]))
AnswerOK == answer # None => visitor # None /\ answer \in visitor.shown
PInv == IInv /\ PublicationsOK /\ VisitorOK /\ AnswerOK

(* Every behaviour is one of the drafts: publishing never writes them.      *)
THEOREM PublishingKeepsDrafts == Spec => StudioSpec
<1>1. Init => StudioInit
  BY DEF Init
<1>2. [Next]_vars => [StudioNext]_studio
  BY DEF Next, vars, Reserve, ShowKnowledge, Ask, Snapshot, Activate, Abandon
<1> QED BY <1>1, <1>2, PTL DEF Spec, StudioSpec

LEMMA InitPInv == Init => PInv
BY InitIInv, MaxRevisionIsNatural
   DEF Init, PublishingInit, PInv, PublicationsOK, VisitorOK, AnswerOK, Revisions

(* Publications that neither change a page already there nor the visitor    *)
(* leave the visitor with what he has.                                      *)
LEMMA PagesStay ==
  ASSUME VisitorOK, AnswerOK, UNCHANGED <<visitor, answer>>, last <= last', last \in Nat, last' \in Nat,
         \A r \in 1..last : pages[r] # None => pages'[r] = pages[r]
  PROVE  VisitorOK' /\ AnswerOK'
BY DEF VisitorOK, AnswerOK

LEMMA NextPInv == PInv /\ [Next]_vars => PInv'
<1> SUFFICES ASSUME PInv, [Next]_vars PROVE PInv'
  OBVIOUS
<1>0. IInv'
  <2>1. [StudioNext]_studio
    BY DEF Next, vars, Reserve, ShowKnowledge, Ask, Snapshot, Activate, Abandon
  <2> QED BY <2>1, NextIInv DEF PInv
<1>1. CASE (StudioNext /\ UNCHANGED publishing) \/ UNCHANGED vars
  BY <1>0, <1>1 DEF publishing, vars, PInv, PublicationsOK, VisitorOK, AnswerOK
<1>2. CASE Reserve
  <2>1. PublicationsOK'
    BY <1>2, MaxRevisionIsNatural DEF Reserve, PInv, PublicationsOK
  <2>2. VisitorOK' /\ AnswerOK'
    BY <1>2, PagesStay, MaxRevisionIsNatural DEF Reserve, PInv, PublicationsOK
  <2> QED BY <1>0, <2>1, <2>2 DEF PInv
<1>3. CASE ShowKnowledge
  <2>1. PublicationsOK'
    BY <1>3 DEF ShowKnowledge, PInv, PublicationsOK
  <2>2. site \in 1..last /\ pages[site] # None
    BY <1>3, MaxRevisionIsNatural DEF ShowKnowledge, PInv, PublicationsOK
  <2>3. VisitorOK' /\ AnswerOK'
    BY <1>3, <2>2 DEF ShowKnowledge, VisitorOK, AnswerOK
  <2> QED BY <1>0, <2>1, <2>3 DEF PInv
<1>4. CASE Ask
  <2>1. PublicationsOK' /\ VisitorOK'
    BY <1>4 DEF Ask, PInv, PublicationsOK, VisitorOK
  <2>2. answer' # None => visitor.revision = site /\ answer' \in C!Elements(Knowledge(pages[site]))
    BY <1>4 DEF Ask, SameRevision
  <2>3. AnswerOK'
    BY <1>4, <2>2 DEF Ask, PInv, VisitorOK, AnswerOK
  <2> QED BY <1>0, <2>1, <2>3 DEF PInv
<1>5. ASSUME NEW r \in Revisions, Snapshot(r) PROVE PInv'
  <2>1. PICK c \in Candidates : pages' = [pages EXCEPT ![r] = C!Compile(c)]
    BY <1>5 DEF Snapshot
  <2>2. pages[r] = None /\ UNCHANGED <<last, running, site, visitor, answer>>
    BY <1>5 DEF Snapshot
  <2>3. DOMAIN pages' = Revisions /\ \A q \in Revisions : q # r => pages'[q] = pages[q]
    BY <2>1 DEF PInv, PublicationsOK
  <2>4. \A q \in Revisions : pages[q] # None => pages'[q] = pages[q]
    BY <2>2, <2>3
  <2>5. 1..last \subseteq Revisions /\ last \in Nat
    BY MaxRevisionIsNatural DEF PInv, PublicationsOK, Revisions
  <2>6. PublicationsOK'
    <3>1. site # 0 => site \in Revisions
      BY <2>5, MaxRevisionIsNatural DEF PInv, PublicationsOK, Revisions
    <3> QED BY <2>2, <2>3, <2>4, <3>1 DEF PInv, PublicationsOK
  <2>7. VisitorOK' /\ AnswerOK'
    BY <2>2, <2>4, <2>5, PagesStay DEF PInv
  <2> QED BY <1>0, <2>6, <2>7 DEF PInv
<1>6. ASSUME NEW r \in Revisions, Activate(r) \/ Abandon(r) PROVE PInv'
  <2>1. UNCHANGED <<last, pages, visitor, answer>>
    BY <1>6 DEF Activate, Abandon
  <2>2. running' \in SUBSET (1..last) /\ r \in 1..last
    BY <1>6 DEF Activate, Abandon, Compiled, PInv, PublicationsOK
  <2>3. (site' = r /\ pages[r] # None) \/ site' = site
    BY <1>6 DEF Activate, Abandon, Compiled
  <2>4. site' \in 0..last /\ (site' # 0 => pages[site'] # None)
    BY <2>2, <2>3, MaxRevisionIsNatural DEF PInv, PublicationsOK
  <2>5. PublicationsOK'
    BY <2>1, <2>2, <2>4 DEF PInv, PublicationsOK
  <2>6. VisitorOK' /\ AnswerOK'
    BY <2>1 DEF PInv, VisitorOK, AnswerOK
  <2> QED BY <1>0, <2>5, <2>6 DEF PInv
<1> QED BY <1>1, <1>2, <1>3, <1>4, <1>5, <1>6 DEF Next

(* Every variable keeps its type; the active revision is one that has a     *)
(* page, whatever the order in which publications end.                      *)
THEOREM PublishingTypes == Spec => []TypeOK
<1>1. PInv => TypeOK
  BY DEF PInv, IInv, PublicationsOK, VisitorOK, AnswerOK, TypeOK
<1> QED BY <1>1, InitPInv, NextPInv, PTL DEF Spec

(* A visitor is only ever answered from the questions he was shown.         *)
THEOREM AnsweredFromWhatWasShown == Spec => []AnswersComeFromWhatWasShown
<1>1. PInv => AnswersComeFromWhatWasShown
  BY DEF PInv, AnswerOK, AnswersComeFromWhatWasShown
<1> QED BY <1>1, InitPInv, NextPInv, PTL DEF Spec

-----------------------------------------------------------------------------
(* Filters and sorts, by ranks.                                             *)

(* What upTo must be: a linear order of D.                                  *)
Linear(upTo, D) ==
  /\ upTo \in [D -> SUBSET D]
  /\ \A k \in D : k \in upTo[k]
  /\ \A j, k \in D : j \in upTo[k] \/ k \in upTo[j]
  /\ \A j, k \in D : j \in upTo[k] /\ k \in upTo[j] => j = k
  /\ \A j, k \in D : j \in upTo[k] => upTo[j] \subseteq upTo[k]

(* Ranks in a linear order are a bijection, so InOrder lists every index    *)
(* once, and none before one that it follows.                               *)
LEMMA Ranked ==
  ASSUME NEW D, IsFiniteSet(D), NEW upTo, Linear(upTo, D), NEW s
  PROVE \E p \in Bijection(1..Cardinality(D), D) :
          /\ C!InOrder(s, upTo) = [r \in 1..Cardinality(D) |-> s[p[r]]]
          /\ \A q, r \in 1..Cardinality(D) : q <= r => p[q] \in upTo[p[r]]
<1> DEFINE N == Cardinality(D)
           rank == [k \in D |-> Cardinality(upTo[k])]
           p == [r \in 1..N |-> CHOOSE k \in D : Cardinality(upTo[k]) = r]
<1>1. N \in Nat /\ IsFiniteSet(1..N) /\ Cardinality(1..N) = N
  BY FS_CardinalityType, FS_Interval
<1>2. ASSUME NEW k \in D PROVE IsFiniteSet(upTo[k]) /\ Cardinality(upTo[k]) \in 1..N
  <2>1. upTo[k] \in SUBSET D /\ k \in upTo[k]
    BY DEF Linear
  <2>2. IsFiniteSet(upTo[k]) /\ Cardinality(upTo[k]) <= N
    BY <2>1, FS_Subset
  <2>3. Cardinality(upTo[k]) \in Nat /\ Cardinality(upTo[k]) # 0
    BY <2>1, <2>2, FS_CardinalityType, FS_EmptySet
  <2> QED BY <1>1, <2>2, <2>3
<1>3. ASSUME NEW j \in D, NEW k \in D, j \in upTo[k], j # k
      PROVE  Cardinality(upTo[j]) < Cardinality(upTo[k])
  <2>1. upTo[j] \in SUBSET upTo[k] /\ k \notin upTo[j] /\ k \in upTo[k]
    BY <1>3 DEF Linear
  <2>2. Cardinality(upTo[j]) <= Cardinality(upTo[k]) /\ Cardinality(upTo[j]) # Cardinality(upTo[k])
    BY <2>1, <1>2, FS_Subset
  <2>3. Cardinality(upTo[j]) \in Nat /\ Cardinality(upTo[k]) \in Nat
    BY <1>2, <1>1
  <2> QED BY <2>2, <2>3
<1>4. rank \in Injection(D, 1..N)
  <2>1. rank \in [D -> 1..N]
    BY <1>2
  <2>2. ASSUME NEW j \in D, NEW k \in D, rank[j] = rank[k] PROVE j = k
    <3>1. Cardinality(upTo[j]) = Cardinality(upTo[k]) /\ Cardinality(upTo[j]) \in Nat
      BY <2>2, <1>2, <1>1
    <3>2. j \in upTo[k] \/ k \in upTo[j]
      BY DEF Linear
    <3> QED BY <3>1, <3>2, <1>3
  <2> QED BY <2>1, <2>2 DEF Injection, IsInjective
<1>5. rank \in Surjection(D, 1..N)
  BY <1>1, <1>4, FS_Injection
<1>6. ASSUME NEW r \in 1..N PROVE p[r] \in D /\ Cardinality(upTo[p[r]]) = r
  <2>1. \E k \in D : Cardinality(upTo[k]) = r
    BY <1>5 DEF Surjection
  <2> QED BY <2>1
<1>7. ASSUME NEW k \in D PROVE p[Cardinality(upTo[k])] = k
  <2>1. p[Cardinality(upTo[k])] \in D /\ rank[p[Cardinality(upTo[k])]] = rank[k]
    BY <1>2, <1>6
  <2> QED BY <2>1, <1>4 DEF Injection, IsInjective
<1>8. p \in Bijection(1..N, D)
  <2>1. p \in [1..N -> D]
    BY <1>6
  <2>2. \A q, r \in 1..N : p[q] = p[r] => q = r
    BY <1>6
  <2>3. \A k \in D : \E r \in 1..N : p[r] = k
    BY <1>2, <1>7
  <2> HIDE DEF p
  <2> QED BY <2>1, <2>2, <2>3 DEF Bijection, Injection, Surjection, IsInjective
<1>9. C!InOrder(s, upTo) = [r \in 1..N |-> s[p[r]]]
  <2>1. DOMAIN upTo = D
    BY DEF Linear
  <2> QED BY <2>1 DEF C!InOrder, C!Cardinality, Cardinality
<1>10. ASSUME NEW q \in 1..N, NEW r \in 1..N, q <= r PROVE p[q] \in upTo[p[r]]
  <2>1. CASE p[q] = p[r]
    BY <2>1, <1>6 DEF Linear
  <2>2. CASE p[q] # p[r]
    <3>1. p[q] \in upTo[p[r]] \/ p[r] \in upTo[p[q]]
      BY <1>6 DEF Linear
    <3>2. p[r] \in upTo[p[q]] => r < q
      BY <2>2, <1>3, <1>6
    <3> QED BY <3>1, <3>2, <1>10
  <2> QED BY <2>1, <2>2
<1> HIDE DEF p
<1> QED BY <1>8, <1>9, <1>10

(* A filter keeps the entries in the order they had.                        *)
Keeps(t, s, kept) ==
  /\ IsFiniteSet(kept) /\ Cardinality(kept) \in Nat
  /\ \E p \in Bijection(1..Cardinality(kept), kept) :
       /\ t = [r \in 1..Cardinality(kept) |-> s[p[r]]]
       /\ \A q, r \in 1..Cardinality(kept) : q <= r => p[q] <= p[r]
LEMMA Filtered ==
  ASSUME NEW n \in Nat, NEW kept \in SUBSET (1..n), NEW s
  PROVE  Keeps(C!InOrder(s, C!Earlier(kept)), s, kept)
<1> DEFINE upTo == C!Earlier(kept)
<1>1. upTo = [k \in kept |-> {j \in kept : j <= k}]
  BY DEF C!Earlier
<1> HIDE DEF upTo
<1>2. IsFiniteSet(kept)
  <2>1. IsFiniteSet(1..n)
    BY FS_Interval
  <2> QED BY <2>1, FS_Subset
<1>3. Linear(upTo, kept)
  <2>1. \A k \in kept : k \in Int
    OBVIOUS
  <2>2. upTo \in [kept -> SUBSET kept]
    BY <1>1
  <2>3. \A j, k \in kept : j \in upTo[k] <=> j <= k
    BY <1>1
  <2>4. ASSUME NEW j \in kept, NEW k \in kept, j \in upTo[k] PROVE upTo[j] \subseteq upTo[k]
    <3>1. j <= k /\ \A i \in kept : i <= j => i <= k
      BY <1>1, <2>1, <2>4
    <3> QED BY <1>1, <3>1
  <2> QED BY <2>1, <2>2, <2>3, <2>4 DEF Linear
<1>4. PICK p \in Bijection(1..Cardinality(kept), kept) :
        /\ C!InOrder(s, upTo) = [r \in 1..Cardinality(kept) |-> s[p[r]]]
        /\ \A q, r \in 1..Cardinality(kept) : q <= r => p[q] \in upTo[p[r]]
  BY <1>2, <1>3, Ranked
<1>5. \A r \in 1..Cardinality(kept) : p[r] \in kept
  BY DEF Bijection, Injection
<1>6. \A q, r \in 1..Cardinality(kept) : q <= r => p[q] <= p[r]
  BY <1>1, <1>4, <1>5
<1> QED BY <1>2, <1>4, <1>6, FS_CardinalityType DEF Keeps, upTo

LEMMA PresentIsFinite == \A S \in SUBSET Items : IsFiniteSet(S) /\ Cardinality(S) \in Nat
BY IdsAreFinite, FS_Subset, FS_CardinalityType

OfKind(kind) == {i \in Present : Kind(i) = kind}
Count(kind) == Cardinality(OfKind(kind))

(* The snapshot lists every item of a domain, once.                         *)
LEMMA DomainLists ==
  ASSUME NEW order \in Orders, NEW m, NEW kind
  PROVE  \E q \in Bijection(1..Count(kind), OfKind(kind)) :
           Domain(kind, Entries(order, m)) = [r \in 1..Count(kind) |-> Entry(q[r], m)]
<1> DEFINE n == Cardinality(Present)
           entries == Entries(order, m)
           kept == {k \in DOMAIN entries : entries[k].body.kind = kind}
<1>1. n \in Nat /\ Present \subseteq Items
  BY PresentIsFinite DEF Present
<1>2. order \in Bijection(1..n, Present)
  BY DEF Orders, Listings
<1>3. /\ entries = [k \in 1..n |-> Entry(order[k], m)]
      /\ \A k \in 1..n : order[k] \in Present /\ entries[k].body.kind = Kind(order[k])
  BY <1>2 DEF Entries, Entry, Kind, C!Each, Bijection, Injection
<1>4. kept = {k \in 1..n : Kind(order[k]) = kind} /\ kept \in SUBSET (1..n)
  BY <1>3
<1>5. Domain(kind, entries) = C!InOrder(entries, C!Earlier(kept))
  BY DEF Domain, C!Filter
<1> HIDE DEF entries, kept, n
<1>6. Keeps(Domain(kind, entries), entries, kept)
  BY <1>1, <1>4, <1>5, Filtered
<1>7. PICK p \in Bijection(1..Cardinality(kept), kept) :
        Domain(kind, entries) = [r \in 1..Cardinality(kept) |-> entries[p[r]]]
  BY <1>6 DEF Keeps
<1>8. Cardinality(kept) = Count(kind) /\ Count(kind) \in Nat
  <2> DEFINE f == [k \in kept |-> order[k]]
  <2>1. f \in Bijection(kept, OfKind(kind))
    BY <1>2, <1>3, <1>4 DEF OfKind, Bijection, Injection, Surjection, IsInjective
  <2>2. IsFiniteSet(kept) /\ Cardinality(kept) \in Nat
    BY <1>6 DEF Keeps
  <2> HIDE DEF f
  <2> QED BY <2>1, <2>2, FS_Bijection DEF ExistsBijection, Count
<1> DEFINE q == [r \in 1..Count(kind) |-> order[p[r]]]
<1>9. q \in Bijection(1..Count(kind), OfKind(kind))
  <2>1. p \in Bijection(1..Count(kind), kept)
    BY <1>8
  <2>2. \A r \in 1..Count(kind) : p[r] \in kept
    BY <2>1 DEF Bijection, Injection
  <2>3. q \in [1..Count(kind) -> OfKind(kind)]
    BY <2>2, <1>3, <1>4 DEF OfKind
  <2>4. \A a, b \in 1..Count(kind) : q[a] = q[b] => a = b
    BY <2>1, <2>2, <1>2, <1>4 DEF Bijection, Injection, IsInjective
  <2>5. ASSUME NEW i \in OfKind(kind) PROVE \E r \in 1..Count(kind) : q[r] = i
    <3>1. PICK k \in 1..n : order[k] = i
      BY <1>2 DEF OfKind, Bijection, Surjection
    <3>2. k \in kept
      BY <3>1, <1>4 DEF OfKind
    <3>3. PICK r \in 1..Count(kind) : p[r] = k
      BY <2>1, <3>2 DEF Bijection, Surjection
    <3> QED BY <3>1, <3>3
  <2> HIDE DEF q
  <2> QED BY <2>3, <2>4, <2>5 DEF Bijection, Injection, Surjection, IsInjective
<1>10. Domain(kind, entries) = [r \in 1..Count(kind) |-> Entry(q[r], m)]
  <2>1. \A r \in 1..Count(kind) : p[r] \in kept
    BY <1>7, <1>8 DEF Bijection, Injection
  <2>2. \A r \in 1..Count(kind) : entries[p[r]] = Entry(q[r], m)
    BY <2>1, <1>3, <1>4
  <2> QED BY <1>7, <1>8, <2>2
<1> HIDE DEF q
<1> QED BY <1>9, <1>10 DEF entries

(* What a preview holds, domain by domain.                                  *)
LEMMA PreviewIsCompiled ==
  ASSUME NEW page \in Previews
  PROVE  \E order \in Orders, m \in MediaOrders : page = C!Compile(Candidate(order, m))
BY DEF Previews, Candidates

LEMMA QuestionsOfPreview ==
  ASSUME NEW order \in Orders, NEW m
  PROVE  \E q \in Bijection(1..Count("question"), OfKind("question")) :
           C!Compile(Candidate(order, m)).questions =
             [r \in 1..Count("question") |->
                [id |-> q[r], question |-> rows[q[r]].body.question, answer |-> rows[q[r]].body.answer]]
<1>1. PICK q \in Bijection(1..Count("question"), OfKind("question")) :
        Domain("question", Entries(order, m)) = [r \in 1..Count("question") |-> Entry(q[r], m)]
  BY DomainLists
<1>2. C!Compile(Candidate(order, m)).questions
        = [r \in 1..Count("question") |-> C!CompileQuestion(Entry(q[r], m))]
  BY <1>1 DEF C!Compile, Candidate, C!Each
<1> QED BY <1>2 DEF C!CompileQuestion, Entry

-----------------------------------------------------------------------------
(* Increasing listings of a set are equal.                                  *)

Increasing(x, n, E) ==
  /\ n \in Nat /\ x \in Bijection(1..n, E)
  /\ \A e \in E : e.id \in Nat
  /\ \A q, r \in 1..n : q < r => x[q].id < x[r].id

LEMMA IncreasingRank ==
  ASSUME NEW x, NEW n, NEW E, Increasing(x, n, E), NEW r \in 1..n
  PROVE  /\ IsFiniteSet(E) /\ Cardinality(E) = n
         /\ Cardinality({e \in E : e.id <= x[r].id}) = r
<1> DEFINE S == {e \in E : e.id <= x[r].id}
           f == [k \in 1..r |-> x[k]]
<1>1. /\ n \in Nat /\ x \in [1..n -> E]
      /\ \A j, k \in 1..n : x[j] = x[k] => j = k
      /\ \A e \in E : \E k \in 1..n : x[k] = e
      /\ \A k \in 1..n : x[k].id \in Nat
      /\ \A j, k \in 1..n : j < k => x[j].id < x[k].id
  BY DEF Increasing, Bijection, Injection, Surjection, IsInjective
<1>2. \A k \in 1..n : x[k] \in S <=> k \in 1..r
  BY <1>1
<1>3. f \in Bijection(1..r, S)
  <2>1. f \in [1..r -> S] /\ \A j, k \in 1..r : f[j] = f[k] => j = k
    BY <1>1, <1>2
  <2>2. \A e \in S : \E k \in 1..r : f[k] = e
    BY <1>1, <1>2
  <2> HIDE DEF f, S
  <2> QED BY <2>1, <2>2 DEF Bijection, Injection, Surjection, IsInjective
<1>4. IsFiniteSet(1..r) /\ Cardinality(1..r) = r /\ IsFiniteSet(1..n) /\ Cardinality(1..n) = n
  <2>1. r \in Int /\ r >= 1 /\ n \in Int /\ n >= 1 /\ 1 \in Int
    BY <1>1
  <2> QED BY <2>1, FS_Interval
<1> HIDE DEF f, S
<1>5. Cardinality(S) = r
  BY <1>3, <1>4, FS_Bijection DEF ExistsBijection
<1>6. IsFiniteSet(E) /\ Cardinality(E) = n
  <2>1. x \in Bijection(1..n, E)
    BY DEF Increasing
  <2> QED BY <2>1, <1>4, FS_Bijection DEF ExistsBijection
<1> QED BY <1>5, <1>6 DEF S

LEMMA IncreasingIsUnique ==
  ASSUME NEW x, NEW n, NEW y, NEW m, NEW E, Increasing(x, n, E), Increasing(y, m, E)
  PROVE  n = m /\ x = y
<1>1. n = m
  <2>1. n \in Nat /\ m \in Nat /\ (n # 0 => 1 \in 1..n) /\ (m # 0 => 1 \in 1..m)
    BY DEF Increasing
  <2>2. n # 0 => Cardinality(E) = n
    BY <2>1, IncreasingRank
  <2>3. m # 0 => Cardinality(E) = m
    BY <2>1, IncreasingRank
  <2>4. n = 0 <=> m = 0
    BY <2>1 DEF Increasing, Bijection, Injection, Surjection
  <2> QED BY <2>2, <2>3, <2>4
<1>2. ASSUME NEW r \in 1..n PROVE x[r] = y[r]
  <2>1. /\ x[r] \in E /\ y[r] \in E /\ x[r].id \in Nat /\ y[r].id \in Nat
        /\ n \in Nat /\ \A k \in 1..n : y[k].id \in Nat
    BY <1>1 DEF Increasing, Bijection, Injection
  <2> DEFINE Below(id) == {e \in E : e.id <= id}
  <2>2. /\ Cardinality(Below(x[r].id)) = r /\ Cardinality(Below(y[r].id)) = r
        /\ IsFiniteSet(E)
    BY <1>1, IncreasingRank
  <2>3. ASSUME NEW a \in E, NEW b \in E, a.id < b.id,
               Cardinality(Below(a.id)) = Cardinality(Below(b.id))
        PROVE  FALSE
    <3>1. \A e \in E : e.id \in Nat
      BY DEF Increasing
    <3>2. Below(a.id) \subseteq Below(b.id) /\ b \in Below(b.id) /\ b \notin Below(a.id)
      BY <2>3, <3>1
    <3>3. IsFiniteSet(Below(b.id))
      BY <2>2, FS_Subset
    <3> HIDE DEF Below
    <3> QED BY <2>3, <3>2, <3>3, FS_Subset
  <2>4. x[r].id = y[r].id
    BY <2>1, <2>2, <2>3
  <2>5. PICK k \in 1..n : y[k] = x[r]
    BY <1>1, <2>1 DEF Increasing, Bijection, Surjection
  <2>6. k = r
    BY <1>1, <2>1, <2>4, <2>5 DEF Increasing
  <2> QED BY <2>5, <2>6
<1>3. x \in [1..n -> E] /\ y \in [1..n -> E]
  BY <1>1 DEF Increasing, Bijection, Injection
<1>4. x = [r \in 1..n |-> x[r]] /\ y = [r \in 1..n |-> y[r]]
  BY <1>1, <1>3
<1> QED BY <1>1, <1>2, <1>4

(* The questions of a page have different ids.                              *)
DistinctQuestions(page) ==
  /\ \E n \in Nat : page.questions \in [1..n -> {page.questions[k] : k \in 1..n}]
  /\ \A k \in DOMAIN page.questions : page.questions[k].id \in Items
  /\ \A j, k \in DOMAIN page.questions : page.questions[j].id = page.questions[k].id => j = k

LEMMA CorpusIsIncreasing ==
  ASSUME NEW page, DistinctQuestions(page)
  PROVE  \E n \in Nat : Increasing(Corpus(page), n, C!Elements(page.questions))
<1> DEFINE s == page.questions
           E == C!Elements(s)
<1>1. PICK n \in Nat : s \in [1..n -> {s[k] : k \in 1..n}]
  BY DEF DistinctQuestions
<1>2. /\ DOMAIN s = 1..n /\ E = {s[k] : k \in 1..n}
      /\ \A k \in 1..n : s[k].id \in Nat
      /\ \A j, k \in 1..n : s[j].id = s[k].id => j = k
  BY <1>1, IdsAreOrdered DEF DistinctQuestions, C!Elements
<1> DEFINE NoLater(k) == {j \in DOMAIN s : s[j].id < s[k].id \/ (~(s[k].id < s[j].id) /\ j <= k)}
           upTo == [k \in DOMAIN s |-> NoLater(k)]
<1>3. Corpus(page) = C!InOrder(s, upTo)
  BY DEF Corpus, Sorted, C!StableSort
<1> HIDE DEF s, E
<1>4. upTo \in [1..n -> SUBSET (1..n)]
  BY <1>2
<1>5. ASSUME NEW j \in 1..n, NEW k \in 1..n PROVE j \in upTo[k] <=> s[j].id <= s[k].id
  <2>1. j \in upTo[k] <=> s[j].id < s[k].id \/ (~(s[k].id < s[j].id) /\ j <= k)
    BY <1>2
  <2>2. s[j].id \in Nat /\ s[k].id \in Nat /\ (s[j].id = s[k].id => j = k)
    BY <1>2
  <2> QED BY <2>1, <2>2
<1> HIDE DEF upTo
<1>6. Linear(upTo, 1..n)
  <2>1. \A j, k \in 1..n : j \in upTo[k] => upTo[j] \subseteq upTo[k]
    <3> SUFFICES ASSUME NEW j \in 1..n, NEW k \in 1..n, j \in upTo[k], NEW i \in 1..n, i \in upTo[j]
                 PROVE  i \in upTo[k]
      BY <1>4
    <3> QED BY <1>2, <1>5
  <2>2. \A j, k \in 1..n : s[j].id <= s[k].id \/ s[k].id <= s[j].id
    BY <1>2
  <2>3. ASSUME NEW j \in 1..n, NEW k \in 1..n, j \in upTo[k], k \in upTo[j] PROVE j = k
    <3>1. s[j].id <= s[k].id /\ s[k].id <= s[j].id
      BY <2>3, <1>5
    <3> QED BY <1>2, <3>1
  <2>4. \A k \in 1..n : k \in upTo[k]
    BY <1>2, <1>5
  <2>5. \A j, k \in 1..n : j \in upTo[k] \/ k \in upTo[j]
    BY <2>2, <1>5
  <2> QED BY <1>4, <2>1, <2>3, <2>4, <2>5 DEF Linear
<1>7. IsFiniteSet(1..n) /\ Cardinality(1..n) = n
  BY FS_Interval
<1>8. PICK p \in Bijection(1..n, 1..n) :
        /\ C!InOrder(s, upTo) = [r \in 1..n |-> s[p[r]]]
        /\ \A q, r \in 1..n : q <= r => p[q] \in upTo[p[r]]
  BY <1>6, <1>7, Ranked
<1> DEFINE x == [r \in 1..n |-> s[p[r]]]
<1>9. /\ \A r \in 1..n : p[r] \in 1..n
      /\ \A q, r \in 1..n : p[q] = p[r] => q = r
      /\ \A k \in 1..n : \E r \in 1..n : p[r] = k
  BY DEF Bijection, Injection, Surjection, IsInjective
<1>10. x \in Bijection(1..n, E)
  <2>1. x \in [1..n -> E]
    BY <1>2, <1>9
  <2>2. \A q, r \in 1..n : x[q] = x[r] => q = r
    BY <1>2, <1>9
  <2>3. \A e \in E : \E r \in 1..n : x[r] = e
    BY <1>2, <1>9
  <2> HIDE DEF x
  <2> QED BY <2>1, <2>2, <2>3 DEF Bijection, Injection, Surjection, IsInjective
<1>11. \A q, r \in 1..n : q < r => x[q].id < x[r].id
  <2> SUFFICES ASSUME NEW q \in 1..n, NEW r \in 1..n, q < r PROVE s[p[q]].id < s[p[r]].id
    OBVIOUS
  <2>1. q <= r /\ q # r /\ p[q] \in 1..n /\ p[r] \in 1..n /\ p[q] # p[r]
    BY <1>9
  <2>2. s[p[q]].id <= s[p[r]].id
    BY <2>1, <1>5, <1>8
  <2>3. s[p[q]].id # s[p[r]].id
    BY <2>1, <1>2
  <2>4. s[p[q]].id \in Nat /\ s[p[r]].id \in Nat
    BY <2>1, <1>2
  <2> QED BY <2>2, <2>3, <2>4
<1>12. \A e \in E : e.id \in Nat
  BY <1>2
<1> HIDE DEF x
<1>13. Increasing(x, n, E)
  BY <1>10, <1>11, <1>12 DEF Increasing
<1> QED BY <1>3, <1>8, <1>13 DEF x, E, s

(* The same questions give the same corpus.                                 *)
LEMMA SameQuestionsSameCorpus ==
  ASSUME NEW p, NEW q, DistinctQuestions(p), DistinctQuestions(q),
         C!Elements(p.questions) = C!Elements(q.questions)
  PROVE  Corpus(p) = Corpus(q)
BY CorpusIsIncreasing, IncreasingIsUnique

LEMMA PreviewsAreDistinct ==
  ASSUME NEW order \in Orders, NEW m
  PROVE  DistinctQuestions(C!Compile(Candidate(order, m)))
<1> DEFINE page == C!Compile(Candidate(order, m))
           n == Count("question")
<1>1. n \in Nat /\ OfKind("question") \subseteq Items
  BY PresentIsFinite DEF OfKind, Present, Count
<1>2. PICK q \in Bijection(1..n, OfKind("question")) :
        page.questions = [r \in 1..n |-> [id |-> q[r], question |-> rows[q[r]].body.question,
                                          answer |-> rows[q[r]].body.answer]]
  BY QuestionsOfPreview
<1>3. \A k \in 1..n : q[k] \in Items /\ \A j \in 1..n : q[j] = q[k] => j = k
  BY <1>1 DEF Bijection, Injection, IsInjective
<1> HIDE DEF page, n
<1>4. /\ DOMAIN page.questions = 1..n
      /\ page.questions \in [1..n -> {page.questions[k] : k \in 1..n}]
      /\ \A k \in 1..n : page.questions[k].id = q[k]
  BY <1>2
<1>5. DistinctQuestions(page)
  BY <1>1, <1>3, <1>4 DEF DistinctQuestions
<1> QED BY <1>5 DEF page

-----------------------------------------------------------------------------
(* The news.                                                                *)

LEMMA ArticleTypes ==
  ASSUME StudioTypeOK, NEW i \in OfKind("article")
  PROVE  i \in Items /\ rows[i].body.date \in Nat /\ rows[i].position \in Int
<1>1. i \in Items /\ rows[i] \in Row /\ rows[i].body.kind = "article"
  BY RowType DEF OfKind, Present, Kind
<1>2. rows[i].body \in Valid /\ rows[i].position \in Int
  BY <1>1, BodiesAreValid, PositionsAreNumbers DEF Row
<1>3. rows[i].body \in Articles
  BY <1>1, <1>2 DEF Valid, Questions, Milestones, Members, Sections, Ambassadors, Spaces
<1> QED BY <1>1, <1>2, <1>3 DEF Articles

(* A stable sort by Newer lists the articles from the most recent on.       *)
LEMMA NewsOfPreview ==
  ASSUME StudioTypeOK, NEW order \in Orders, NEW m
  PROVE  \E o \in Bijection(1..Count("article"), OfKind("article")) :
           /\ C!Compile(Candidate(order, m)).news
                = [r \in 1..Count("article") |-> C!CompileArticle(Entry(o[r], m))]
           /\ \A j, k \in 1..Count("article") :
                j <= k => rows[o[k]].body.date <= rows[o[j]].body.date
<1> DEFINE n == Count("article")
           d == Domain("article", Entries(order, m))
           NoLater(k) == {j \in DOMAIN d : C!Newer(d[j], d[k]) \/ (~C!Newer(d[k], d[j]) /\ j <= k)}
           upTo == [k \in DOMAIN d |-> NoLater(k)]
           news == C!Compile(Candidate(order, m)).news
<1>1. PICK q \in Bijection(1..n, OfKind("article")) : d = [r \in 1..n |-> Entry(q[r], m)]
  BY DomainLists
<1>2. news = [k \in DOMAIN C!InOrder(d, upTo) |-> C!CompileArticle(C!InOrder(d, upTo)[k])]
  BY DEF C!Compile, Candidate, C!CompileNews, C!StableSort, C!Each
<1>3. n \in Nat
  BY PresentIsFinite DEF OfKind, Present, Count
<1> HIDE DEF news, d, n
<1>4. /\ DOMAIN d = 1..n
      /\ \A k \in 1..n : d[k].body = rows[q[k]].body /\ d[k].position = rows[q[k]].position
  BY <1>1 DEF Entry
<1>5. /\ \A k \in 1..n : q[k] \in OfKind("article")
      /\ \A j, k \in 1..n : q[j] = q[k] => j = k
      /\ \A i \in OfKind("article") : \E k \in 1..n : q[k] = i
  BY DEF Bijection, Injection, Surjection, IsInjective
<1>6. \A k \in 1..n : d[k].body.date \in Nat /\ d[k].position \in Int
  BY <1>4, <1>5, ArticleTypes
<1> DEFINE Above(j, k) == d[j].position < d[k].position \/ (d[j].position = d[k].position /\ j <= k)
           Before(j, k) == d[j].body.date > d[k].body.date
                             \/ (d[j].body.date = d[k].body.date /\ Above(j, k))
<1>7. ASSUME NEW j \in 1..n, NEW k \in 1..n PROVE j \in upTo[k] <=> Before(j, k)
  <2>1. j \in upTo[k] <=> C!Newer(d[j], d[k]) \/ (~C!Newer(d[k], d[j]) /\ j <= k)
    BY <1>4
  <2> DEFINE Newer(a, b) == d[a].body.date > d[b].body.date
                              \/ (d[a].body.date = d[b].body.date /\ d[a].position < d[b].position)
  <2>2. (C!Newer(d[j], d[k]) <=> Newer(j, k)) /\ (C!Newer(d[k], d[j]) <=> Newer(k, j))
    BY DEF C!Newer
  <2>3. /\ d[j].body.date \in Nat /\ d[k].body.date \in Nat
        /\ d[j].position \in Int /\ d[k].position \in Int
    BY <1>6
  <2> QED BY <2>1, <2>2, <2>3
<1>8. upTo \in [1..n -> SUBSET (1..n)]
  BY <1>4
<1> HIDE DEF upTo
<1>9. Linear(upTo, 1..n)
  <2>1. \A k \in 1..n : Before(k, k)
    BY <1>6
  <2>2. ASSUME NEW j \in 1..n, NEW k \in 1..n PROVE Before(j, k) \/ Before(k, j)
    <3>1. /\ d[j].body.date \in Nat /\ d[k].body.date \in Nat
          /\ d[j].position \in Int /\ d[k].position \in Int
      BY <1>6
    <3> QED BY <3>1
  <2>3. \A j, k \in 1..n : Before(j, k) /\ Before(k, j) => j = k
    BY <1>6
  <2>4. ASSUME NEW j \in 1..n, NEW k \in 1..n, j \in upTo[k] PROVE upTo[j] \subseteq upTo[k]
    <3> SUFFICES ASSUME NEW i \in 1..n, i \in upTo[j] PROVE i \in upTo[k]
      BY <1>8
    <3>1. Before(i, j) /\ Before(j, k)
      BY <2>4, <1>7
    <3>2. Before(i, k)
      BY <3>1, <1>6
    <3> HIDE DEF Before
    <3> QED BY <3>2, <1>7
  <2> HIDE DEF Before
  <2> QED BY <1>7, <1>8, <2>1, <2>2, <2>3, <2>4 DEF Linear
<1>10. IsFiniteSet(1..n) /\ Cardinality(1..n) = n
  BY <1>3, FS_Interval
<1>11. PICK p \in Bijection(1..n, 1..n) :
         /\ C!InOrder(d, upTo) = [r \in 1..n |-> d[p[r]]]
         /\ \A a, r \in 1..n : a <= r => p[a] \in upTo[p[r]]
  BY <1>9, <1>10, Ranked
<1>12. /\ \A r \in 1..n : p[r] \in 1..n
       /\ \A a, r \in 1..n : p[a] = p[r] => a = r
       /\ \A k \in 1..n : \E r \in 1..n : p[r] = k
  BY DEF Bijection, Injection, Surjection, IsInjective
<1> DEFINE o == [r \in 1..n |-> q[p[r]]]
<1>13. o \in Bijection(1..n, OfKind("article"))
  <2>1. o \in [1..n -> OfKind("article")]
    BY <1>5, <1>12
  <2>2. \A a, r \in 1..n : o[a] = o[r] => a = r
    BY <1>5, <1>12
  <2>3. ASSUME NEW i \in OfKind("article") PROVE \E r \in 1..n : o[r] = i
    <3>1. PICK k \in 1..n : q[k] = i
      BY <1>5
    <3>2. PICK r \in 1..n : p[r] = k
      BY <1>12
    <3> QED BY <3>1, <3>2
  <2> HIDE DEF o
  <2> QED BY <2>1, <2>2, <2>3 DEF Bijection, Injection, Surjection, IsInjective
<1>14. news = [r \in 1..n |-> C!CompileArticle(Entry(o[r], m))]
  <2>1. \A r \in 1..n : d[p[r]] = Entry(o[r], m)
    BY <1>1, <1>12
  <2> HIDE DEF o
  <2> QED BY <1>2, <1>11, <2>1
<1>15. ASSUME NEW j \in 1..n, NEW k \in 1..n, j <= k
       PROVE  rows[o[k]].body.date <= rows[o[j]].body.date
  <2>1. Before(p[j], p[k]) /\ p[j] \in 1..n /\ p[k] \in 1..n
    BY <1>7, <1>11, <1>12, <1>15
  <2>2. d[p[k]].body.date <= d[p[j]].body.date
    BY <2>1, <1>6
  <2> QED BY <2>1, <2>2, <1>4
<1> HIDE DEF o
<1> QED BY <1>13, <1>14, <1>15 DEF news, n

LEMMA LengthOf ==
  ASSUME NEW n \in Nat, NEW s, s = [r \in 1..n |-> s[r]]
  PROVE  Len(s) = n /\ DOMAIN s = 1..n
<1>1. s \in [1..n -> {s[k] : k \in 1..n}]
  OBVIOUS
<1>2. s \in Seq({s[k] : k \in 1..n})
  BY <1>1
<1> QED BY <1>1, <1>2

LEMMA FirstOf ==
  ASSUME NEW n \in Nat, NEW s, s = [r \in 1..n |-> s[r]]
  PROVE  C!First(s) = IF n = 0 THEN None ELSE s[1]
<1>1. CASE n = 0
  <2>1. s = <<>>
    BY <1>1
  <2> QED BY <1>1, <2>1 DEF C!First
<1>2. CASE n # 0
  <2>1. 1 \in DOMAIN s
    BY <1>2
  <2>2. s # <<>>
    BY <2>1
  <2> QED BY <1>2, <2>2 DEF C!First
<1> QED BY <1>1, <1>2

(* The first entry a filter keeps is the one at the lowest index.           *)
LEMMA FirstKept ==
  ASSUME NEW n \in Nat, NEW kept \in SUBSET (1..n), NEW s
  PROVE  LET first == C!First(C!InOrder(s, C!Earlier(kept)))
         IN  \/ kept = {} /\ first = None
             \/ \E k \in kept : first = s[k] /\ \A j \in kept : k <= j
<1> DEFINE t == C!InOrder(s, C!Earlier(kept))
           c == Cardinality(kept)
<1>1. PICK p \in Bijection(1..c, kept) :
        /\ t = [r \in 1..c |-> s[p[r]]]
        /\ \A q, r \in 1..c : q <= r => p[q] <= p[r]
  BY Filtered DEF Keeps
<1>2. c \in Nat /\ (c = 0 <=> kept = {})
  BY Filtered, FS_EmptySet DEF Keeps
<1> HIDE DEF t, c
<1>3. C!First(t) = IF c = 0 THEN None ELSE t[1]
  <2>1. t = [r \in 1..c |-> t[r]]
    BY <1>1
  <2> QED BY <1>2, <2>1, FirstOf
<1>4. CASE c # 0
  <2>1. 1 \in 1..c /\ \A r \in 1..c : 1 <= r
    BY <1>2, <1>4
  <2>2. p[1] \in kept /\ \A j \in kept : \E r \in 1..c : p[r] = j
    BY <2>1 DEF Bijection, Injection, Surjection
  <2>3. \A j \in kept : p[1] <= j
    BY <1>1, <2>1, <2>2
  <2>4. C!First(t) = s[p[1]]
    BY <1>1, <1>3, <1>4, <2>1
  <2> QED BY <2>2, <2>3, <2>4 DEF t
<1> QED BY <1>2, <1>3, <1>4 DEF t

(* The media of an entry are those of the item.                             *)
LEMMA MediaOfEntry ==
  ASSUME StudioTypeOK, NEW m \in MediaOrders, NEW i \in Items
  PROVE  \E n \in Nat :
           /\ Entry(i, m).media = [k \in 1..n |-> Entry(i, m).media[k]]
           /\ \A k \in 1..n : /\ Entry(i, m).media[k].id \in BlockIds
                              /\ Entry(i, m).media[k].asset \in Assets \cup {None}
<1> DEFINE u == Cardinality(Used)
           kept == {k \in DOMAIN m : children[i][m[k]] # None}
           t == C!InOrder(m, C!Earlier(kept))
           media == Entry(i, m).media
<1>1. u \in Nat
  <2>1. Used \in SUBSET BlockIds
    BY DEF Used, Ids
  <2> QED BY <2>1, IdsAreFinite, FS_Subset, FS_CardinalityType
<1>2. DOMAIN m = 1..u /\ \A k \in 1..u : m[k] \in BlockIds
  <2>1. m \in Bijection(1..u, Used)
    BY DEF MediaOrders, Listings
  <2>2. Used \subseteq BlockIds
    BY DEF Used, Ids
  <2> HIDE DEF u
  <2> QED BY <2>1, <2>2 DEF Bijection, Injection
<1>3. media = [k \in DOMAIN t |-> Medium(i, t[k])]
  BY DEF Entry, C!Each, C!Filter
<1>4. kept \in SUBSET (1..u)
  BY <1>2
<1> HIDE DEF kept, u, media
<1> HIDE DEF t
<1>5. Keeps(t, m, kept)
  BY <1>1, <1>4, Filtered DEF t
<1>6. PICK p \in Bijection(1..Cardinality(kept), kept) : t = [r \in 1..Cardinality(kept) |-> m[p[r]]]
  BY <1>5 DEF Keeps
<1>7. Cardinality(kept) \in Nat
  BY <1>5 DEF Keeps
<1>8. media = [r \in 1..Cardinality(kept) |-> Medium(i, m[p[r]])]
  BY <1>3, <1>6
<1>9. ASSUME NEW r \in 1..Cardinality(kept)
      PROVE  media[r].id \in BlockIds /\ media[r].asset \in Assets \cup {None}
  <2>1. p[r] \in kept
    BY DEF Bijection, Injection
  <2>2. m[p[r]] \in BlockIds /\ children[i][m[p[r]]] # None
    BY <2>1, <1>2, <1>4 DEF kept
  <2>3. children[i][m[p[r]]] \in Child
    BY <2>2 DEF StudioTypeOK, Owned
  <2> QED BY <1>8, <2>2, <2>3 DEF Medium, Child
<1> QED BY <1>7, <1>8, <1>9 DEF media

LEMMA PageArticleType ==
  ASSUME StudioTypeOK, NEW m \in MediaOrders, NEW i \in OfKind("article")
  PROVE  /\ C!CompileArticle(Entry(i, m)) \in PageArticles
         /\ C!CompileArticle(Entry(i, m)).id = i
         /\ C!CompileArticle(Entry(i, m)).date = rows[i].body.date
<1> DEFINE a == Entry(i, m)
           blocks == [k \in DOMAIN a.media |-> C!CompileBlock(a.media[k])]
           kept == {k \in DOMAIN blocks : blocks[k].type = "image" /\ blocks[k].asset # None}
           images == C!InOrder(blocks, C!Earlier(kept))
<1>1. PICK n \in Nat :
        /\ a.media = [k \in 1..n |-> a.media[k]]
        /\ \A k \in 1..n : a.media[k].id \in BlockIds /\ a.media[k].asset \in Assets \cup {None}
  <2>1. i \in Items
    BY DEF OfKind, Present
  <2> QED BY <2>1, MediaOfEntry
<1>2. C!CompileArticle(a) = [id |-> i, date |-> rows[i].body.date, blocks |-> blocks,
                             asset |-> IF images = <<>> THEN None ELSE images[1].asset]
  BY DEF C!CompileArticle, C!Each, C!Filter, Entry
<1> HIDE DEF a
<1>3. DOMAIN blocks = 1..n /\ \A k \in 1..n : blocks[k] \in PageBlocks
  BY <1>1 DEF C!CompileBlock, C!AssetUrl, PageBlocks
<1>4. blocks \in Seq(PageBlocks)
  <2>1. blocks \in [1..n -> PageBlocks]
    BY <1>3
  <2> HIDE DEF blocks
  <2> QED BY <2>1
<1>5. kept \in SUBSET (1..n) /\ \A k \in kept : blocks[k].asset \in Assets \cup {None}
  BY <1>3 DEF PageBlocks
<1> HIDE DEF blocks, kept
<1>6. (IF images = <<>> THEN None ELSE images[1].asset) \in Assets \cup {None}
  <2>1. Keeps(images, blocks, kept)
    BY <1>5, Filtered
  <2> HIDE DEF images
  <2>2. PICK p \in Bijection(1..Cardinality(kept), kept) :
          images = [r \in 1..Cardinality(kept) |-> blocks[p[r]]]
    BY <2>1 DEF Keeps
  <2>3. Cardinality(kept) \in Nat
    BY <2>1 DEF Keeps
  <2>4. CASE Cardinality(kept) = 0
    <3>1. images = <<>>
      BY <2>2, <2>4
    <3> QED BY <3>1
  <2>5. CASE Cardinality(kept) # 0
    <3>1. 1 \in 1..Cardinality(kept)
      BY <2>3, <2>5
    <3>2. p[1] \in kept
      BY <3>1 DEF Bijection, Injection
    <3> QED BY <2>2, <3>1, <3>2, <1>5
  <2> QED BY <2>4, <2>5
<1>7. i \in Items /\ rows[i].body.date \in Nat
  BY ArticleTypes
<1> HIDE DEF images
<1> QED BY <1>2, <1>4, <1>6, <1>7 DEF a, PageArticles

(* News as a page lists them: different articles, the most recent first.    *)
Listed(news, n) ==
  /\ n \in Nat /\ news = [r \in 1..n |-> news[r]]
  /\ \A r \in 1..n : news[r] # None /\ news[r].date \in Nat
  /\ \A j, k \in 1..n : news[j].id = news[k].id => j = k
  /\ \A j, k \in 1..n : j <= k => news[k].date <= news[j].date

LEMMA HomeOfNews ==
  ASSUME NEW news, NEW n, Listed(news, n), NEW intent, NEW milestones
  PROVE  LET all == C!Elements(news)
             top == C!CompileHome(intent, news, milestones)
         IN  /\ top.featured = None <=> all = {}
             /\ top.featured # None => top.featured \in all
             /\ top.latest = None <=> Cardinality(all) <= 1
             /\ top.latest # None =>
                  /\ top.latest \in all \ {top.featured}
                  /\ \A a \in all \ {top.featured} : a.date <= top.latest.date
<1> DEFINE all == C!Elements(news)
           top == C!CompileHome(intent, news, milestones)
           chosen == {a \in all : a.id = intent.featured}
           manual == intent.mode = "manual" /\ intent.featured # None
           kept == {k \in DOMAIN news : top.featured = None \/ news[k].id # top.featured.id}
<1>1. /\ n \in Nat /\ news = [r \in 1..n |-> news[r]] /\ DOMAIN news = 1..n
      /\ \A r \in 1..n : news[r] # None /\ news[r].date \in Nat
      /\ \A j, k \in 1..n : news[j].id = news[k].id => j = k
      /\ \A j, k \in 1..n : j <= k => news[k].date <= news[j].date
  BY DEF Listed
<1>2. all = {news[r] : r \in 1..n}
  BY <1>1 DEF C!Elements
<1>3. top.featured = IF manual /\ chosen # {} THEN CHOOSE a \in chosen : TRUE ELSE C!First(news)
  BY DEF C!CompileHome
<1>4. top.latest = C!First(C!InOrder(news, C!Earlier(kept)))
  BY DEF C!CompileHome, C!Latest, C!Filter
<1> HIDE DEF top, all
<1>5. C!First(news) = IF n = 0 THEN None ELSE news[1]
  BY <1>1, FirstOf
<1>6. n # 0 => top.featured \in all
  <2> SUFFICES ASSUME n # 0 PROVE top.featured \in all
    OBVIOUS
  <2>1. 1 \in 1..n
    BY <1>1
  <2>2. C!First(news) \in all
    BY <2>1, <1>2, <1>5
  <2>3. chosen # {} => (CHOOSE a \in chosen : TRUE) \in chosen
    OBVIOUS
  <2> QED BY <2>2, <2>3, <1>3
<1>7. n = 0 => all = {} /\ top.featured = None
  <2> SUFFICES ASSUME n = 0 PROVE all = {} /\ top.featured = None
    OBVIOUS
  <2>1. all = {}
    BY <1>2
  <2> QED BY <2>1, <1>3, <1>5
<1>8. (n = 0 <=> all = {}) /\ None \notin all
  <2>1. n # 0 => 1 \in 1..n
    BY <1>1
  <2>2. n # 0 => news[1] \in all
    BY <2>1, <1>2
  <2>3. None \notin all
    BY <1>1, <1>2
  <2> QED BY <2>2, <2>3, <1>7
<1>9. Cardinality(all) = n
  <2> DEFINE f == [r \in 1..n |-> news[r]]
  <2>1. f \in Bijection(1..n, all)
    <3>1. f \in [1..n -> all] /\ \A a \in all : \E r \in 1..n : f[r] = a
      BY <1>2
    <3>2. \A j, k \in 1..n : f[j] = f[k] => j = k
      BY <1>1
    <3> HIDE DEF f
    <3> QED BY <3>1, <3>2 DEF Bijection, Injection, Surjection, IsInjective
  <2> HIDE DEF f, kept
  <2>2. IsFiniteSet(1..n) /\ Cardinality(1..n) = n
    <3>1. n \in Int /\ 1 \in Int /\ n >= 0
      BY <1>1
    <3> QED BY <3>1, FS_Interval
  <2> QED BY <2>1, <2>2, FS_Bijection DEF ExistsBijection
<1>10. kept \in SUBSET (1..n)
  BY <1>1
<1>11. \A k \in 1..n : k \in kept <=> news[k] # top.featured
  <2>1. CASE n = 0
    BY <2>1
  <2>2. CASE n # 0
    <3>1. PICK f \in 1..n : top.featured = news[f]
      BY <2>2, <1>2, <1>6
    <3> QED BY <3>1, <1>1
  <2> QED BY <2>1, <2>2
<1> HIDE DEF kept
<1>12. \/ kept = {} /\ top.latest = None
       \/ \E k \in kept : top.latest = news[k] /\ \A j \in kept : k <= j
  BY <1>1, <1>4, <1>10, FirstKept
<1>13. top.latest # None =>
         /\ top.latest \in all \ {top.featured}
         /\ \A a \in all \ {top.featured} : a.date <= top.latest.date
  <2> SUFFICES ASSUME top.latest # None
               PROVE  /\ top.latest \in all \ {top.featured}
                      /\ \A a \in all \ {top.featured} : a.date <= top.latest.date
    OBVIOUS
  <2>1. PICK k \in kept : top.latest = news[k] /\ \A j \in kept : k <= j
    BY <1>12
  <2>2. k \in 1..n
    BY <1>10
  <2>3. \A j \in kept : news[j].date <= news[k].date
    BY <2>1, <2>2, <1>1, <1>10
  <2> QED BY <2>1, <2>2, <2>3, <1>2, <1>11
<1>14. top.latest = None <=> n <= 1
  <2>1. top.latest = None <=> kept = {}
    BY <1>1, <1>10, <1>12
  <2>2. CASE n <= 1
    <3>1. \A j, k \in 1..n : j = k
      BY <1>1, <2>2
    <3>2. \A k \in 1..n : news[k] = top.featured
      BY <3>1, <1>2, <1>6
    <3> QED BY <2>1, <2>2, <3>2, <1>10, <1>11
  <2>3. CASE n > 1
    <3>1. 1 \in 1..n /\ 2 \in 1..n
      BY <1>1, <2>3
    <3>2. news[1] # news[2]
      BY <3>1, <1>1
    <3>3. 1 \in kept \/ 2 \in kept
      BY <3>1, <3>2, <1>11
    <3> QED BY <2>1, <2>3, <3>3, <1>1
  <2> QED BY <2>2, <2>3, <1>1
<1> QED BY <1>6, <1>7, <1>8, <1>9, <1>13, <1>14 DEF top, all

LEMMA NewsAreListed ==
  ASSUME StudioTypeOK, NEW order \in Orders, NEW m \in MediaOrders
  PROVE  /\ Listed(C!Compile(Candidate(order, m)).news, Count("article"))
         /\ \A i \in OfKind("article") :
              \E a \in C!Elements(C!Compile(Candidate(order, m)).news) : a.id = i
<1> DEFINE news == C!Compile(Candidate(order, m)).news
           n == Count("article")
<1>1. PICK o \in Bijection(1..n, OfKind("article")) :
        /\ news = [r \in 1..n |-> C!CompileArticle(Entry(o[r], m))]
        /\ \A j, k \in 1..n : j <= k => rows[o[k]].body.date <= rows[o[j]].body.date
  BY NewsOfPreview
<1>2. n \in Nat
  BY PresentIsFinite DEF OfKind, Present, Count
<1> HIDE DEF news, n
<1>3. /\ \A r \in 1..n : o[r] \in OfKind("article")
      /\ \A j, k \in 1..n : o[j] = o[k] => j = k
      /\ \A i \in OfKind("article") : \E r \in 1..n : o[r] = i
  BY DEF Bijection, Injection, Surjection, IsInjective
<1>4. ASSUME NEW r \in 1..n
      PROVE  /\ news[r].id = o[r] /\ news[r].date = rows[o[r]].body.date
             /\ news[r] # None /\ news[r].date \in Nat
  <2>1. news[r] = C!CompileArticle(Entry(o[r], m)) /\ o[r] \in OfKind("article")
    BY <1>1, <1>3
  <2> QED BY <2>1, PageArticleType, ArticleTypes, NoneIsNoArticle
<1>5. news = [r \in 1..n |-> news[r]]
  BY <1>1
<1>6. Listed(news, n)
  BY <1>1, <1>2, <1>3, <1>4, <1>5 DEF Listed
<1>7. ASSUME NEW i \in OfKind("article") PROVE \E a \in C!Elements(news) : a.id = i
  <2>1. PICK r \in 1..n : o[r] = i
    BY <1>3
  <2>2. news[r] \in C!Elements(news) /\ news[r].id = i
    BY <2>1, <1>4, <1>5 DEF C!Elements
  <2> QED BY <2>2
<1> QED BY <1>6, <1>7 DEF news, n

LEMMA HomeLeads == StudioTypeOK => HomeLeadsWithNews
<1> SUFFICES ASSUME StudioTypeOK, NEW order \in Orders, NEW m \in MediaOrders PROVE
      LET page == C!Compile(Candidate(order, m))
          news == C!Elements(page.news)
          top == page.home
      IN  /\ top.featured = None <=> news = {}
          /\ top.featured # None => top.featured \in news
          /\ top.latest = None <=> Cardinality(news) <= 1
          /\ top.latest # None =>
               /\ top.latest \in news \ {top.featured}
               /\ \A a \in news \ {top.featured} : a.date <= top.latest.date
  BY PreviewIsCompiled DEF HomeLeadsWithNews
<1> DEFINE page == C!Compile(Candidate(order, m))
<1>1. page.home = C!CompileHome(ReadHome.fields, page.news, page.timeline.milestones)
  BY DEF C!Compile, Candidate
<1>2. Listed(page.news, Count("article"))
  BY NewsAreListed
<1> HIDE DEF page
<1> QED BY <1>1, <1>2, HomeOfNews DEF page

-----------------------------------------------------------------------------
(* The progress.                                                            *)

LEMMA Quotient ==
  ASSUME NEW a \in Nat, NEW b \in Nat, NEW c \in Nat, b * c <= a, a < b * (c + 1)
  PROVE  a \div b = c
<1>1. b > 0
  OBVIOUS
<1> DEFINE q == a \div b
           r == a % b
<1>2. q \in Int /\ r \in Int /\ a = b * q + r /\ 0 <= r /\ r < b
  BY <1>1
<1> HIDE DEF q, r
<1>3. CASE q > c
  <2>1. b * q >= b * (c + 1)
    BY <1>1, <1>2, <1>3
  <2> QED BY <1>2, <2>1
<1>4. CASE q < c
  <2>1. b * (q + 1) <= b * c
    BY <1>1, <1>2, <1>4
  <2>2. b * (q + 1) = b * q + b
    BY <1>2
  <2> QED BY <1>2, <2>1, <2>2
<1> QED BY <1>2, <1>3, <1>4 DEF q

LEMMA QuotientBound ==
  ASSUME NEW a \in Nat, NEW b \in Nat, NEW c \in Nat, a < b * (c + 1)
  PROVE  a \div b \in 0..c
<1>1. b > 0
  OBVIOUS
<1> DEFINE q == a \div b
           r == a % b
<1>2. q \in Int /\ r \in Int /\ a = b * q + r /\ 0 <= r /\ r < b
  BY <1>1
<1> HIDE DEF q, r
<1>3. CASE q > c
  <2>1. b * q >= b * (c + 1)
    BY <1>1, <1>2, <1>3
  <2> QED BY <1>2, <2>1
<1>4. CASE q < 0
  <2>1. b * (q + 1) <= 0
    BY <1>1, <1>2, <1>4
  <2>2. b * (q + 1) = b * q + b
    BY <1>2
  <2> QED BY <1>2, <2>1, <2>2
<1> QED BY <1>2, <1>3, <1>4 DEF q

LEMMA Least ==
  ASSUME NEW n \in Nat, NEW kept \in SUBSET (1..n), kept # {}
  PROVE  \E k \in kept : \A j \in kept : k <= j
<1>1. Keeps(C!InOrder(<<>>, C!Earlier(kept)), <<>>, kept)
  BY Filtered
<1>2. PICK p \in Bijection(1..Cardinality(kept), kept) :
        \A q, r \in 1..Cardinality(kept) : q <= r => p[q] <= p[r]
  BY <1>1 DEF Keeps
<1>3. \A j \in kept : \E r \in 1..Cardinality(kept) : p[r] = j
  BY DEF Bijection, Surjection
<1>4. 1 \in 1..Cardinality(kept) /\ \A r \in 1..Cardinality(kept) : 1 <= r
  <2>1. PICK r \in 1..Cardinality(kept) : TRUE
    BY <1>3
  <2>2. Cardinality(kept) \in Nat
    BY <1>1 DEF Keeps
  <2> QED BY <2>1, <2>2
<1>5. p[1] \in kept
  BY <1>4 DEF Bijection, Injection
<1>6. \A j \in kept : p[1] <= j
  BY <1>2, <1>3, <1>4
<1> QED BY <1>5, <1>6

LEMMA ProgressOf ==
  ASSUME NEW n \in Nat, n # 0, NEW d, d = [r \in 1..n |-> d[r]]
  PROVE  LET progress == C!Progress(d)
             here == {k \in 1..n : d[k].body.status = "current"}
         IN  /\ progress.percent \in 0..100 /\ progress.step \in 1..n
             /\ here # {} => progress.step \in here /\ \A j \in here : progress.step <= j
             /\ (\A k \in 1..n : d[k].body.status = "done") => progress.percent = 100
             /\ (\A k \in 1..n : d[k].body.status = "future") => progress.percent = 0 /\ progress.step = 1
<1> DEFINE progress == C!Progress(d)
           Has(status) == {k \in 1..n : d[k].body.status = status}
           here == Has("current")
           done == Cardinality(Has("done"))
           current == C!CurrentIndex(d)
           halves == 2 * done + IF current > 0 THEN 1 ELSE 0
           a == 100 * halves + n
<1>1. Len(d) = n /\ DOMAIN d = 1..n
  BY LengthOf
<1>2. current = IF here = {} THEN 0 ELSE CHOOSE k \in here : \A j \in here : k <= j
  BY <1>1 DEF C!CurrentIndex
<1>3. /\ progress.step = IF current > 0 THEN current ELSE IF done < n THEN done + 1 ELSE n
      /\ progress.percent = a \div (2 * n)
  BY <1>1 DEF C!Progress, C!Cardinality, Cardinality
<1> HIDE DEF progress, current
<1>4. /\ here = {} => current = 0
      /\ here # {} => current \in here /\ (\A j \in here : current <= j)
  <2>1. here \in SUBSET (1..n)
    OBVIOUS
  <2> HIDE DEF Has
  <2>2. here # {} => \E k \in here : \A j \in here : k <= j
    BY <2>1, Least
  <2> QED BY <1>2, <2>2
<1>5. current \in 0..n /\ (current > 0 <=> here # {})
  BY <1>4
<1>6. \A S \in SUBSET (1..n) : Cardinality(S) \in Nat /\ Cardinality(S) <= n /\ (Cardinality(S) = n => S = 1..n)
  <2>1. 1 \in Int /\ n \in Int /\ n >= 1
    OBVIOUS
  <2>2. IsFiniteSet(1..n) /\ Cardinality(1..n) = n
    BY <2>1, FS_Interval
  <2> QED BY <2>2, FS_Subset, FS_CardinalityType
<1>7. done \in 0..n /\ (here # {} => done < n)
  <2>1. Has("done") \in SUBSET (1..n) /\ (here # {} => Has("done") # 1..n)
    OBVIOUS
  <2> HIDE DEF Has
  <2> QED BY <2>1, <1>6
<1>8. Has("done") = {} => done = 0
  BY FS_EmptySet
<1>9. Has("done") = 1..n => done = n
  <2>1. 1 \in Int /\ n \in Int /\ n >= 1
    OBVIOUS
  <2>2. Cardinality(1..n) = n
    BY <2>1, FS_Interval
  <2> HIDE DEF Has
  <2> QED BY <2>2
<1> HIDE DEF done
<1>10. halves \in Nat /\ halves <= 2 * n /\ a \in Nat /\ 2 * n \in Nat
  BY <1>5, <1>7
<1>11. progress.percent \in 0..100
  <2>1. a < (2 * n) * (100 + 1)
    BY <1>10
  <2> HIDE DEF a
  <2> QED BY <1>3, <1>10, <2>1, QuotientBound
<1>12. progress.step \in 1..n
  BY <1>3, <1>5, <1>7
<1>13. here # {} => progress.step \in here /\ \A j \in here : progress.step <= j
  <2> HIDE DEF Has
  <2> QED BY <1>3, <1>4, <1>5
<1>14. ASSUME \A k \in 1..n : d[k].body.status = "done" PROVE progress.percent = 100
  <2>1. done = n /\ current = 0
    BY <1>4, <1>9, <1>14
  <2>2. a = 201 * n
    BY <2>1
  <2>3. (2 * n) * 100 <= a /\ a < (2 * n) * (100 + 1)
    BY <2>2
  <2> HIDE DEF a
  <2> QED BY <1>3, <1>10, <2>3, Quotient
<1>15. ASSUME \A k \in 1..n : d[k].body.status = "future"
       PROVE  progress.percent = 0 /\ progress.step = 1
  <2>1. done = 0 /\ current = 0
    BY <1>4, <1>8, <1>15
  <2>2. a = n
    BY <2>1
  <2>3. (2 * n) * 0 <= a /\ a < (2 * n) * (0 + 1)
    BY <2>2
  <2>4. progress.percent = 0
    <3> HIDE DEF a
    <3> QED BY <1>3, <1>10, <2>3, Quotient
  <2> QED BY <1>3, <2>1, <2>4
<1> QED BY <1>11, <1>12, <1>13, <1>14, <1>15 DEF progress

(* The milestones of a page are those the progress is computed from.        *)
LEMMA ProgressMatches == ProgressMatchesMilestones
<1> SUFFICES ASSUME NEW page \in Previews PROVE
      LET milestones == page.timeline.milestones
          progress == page.timeline.progress
          All(status) == \A m \in C!Elements(milestones) : m.status = status
      IN  /\ progress.percent \in 0..100
          /\ milestones # <<>> =>
               /\ progress.step \in 1..Len(milestones)
               /\ page.home.now # None => milestones[progress.step] = page.home.now
               /\ All("done") => progress.percent = 100
               /\ All("future") => progress.percent = 0 /\ page.home.next = milestones[progress.step]
  BY DEF ProgressMatchesMilestones
<1>1. PICK order \in Orders, mediaOrder \in MediaOrders : page = C!Compile(Candidate(order, mediaOrder))
  BY PreviewIsCompiled
<1> DEFINE n == Count("milestone")
           d == Domain("milestone", Entries(order, mediaOrder))
           milestones == page.timeline.milestones
           progress == page.timeline.progress
           All(status) == \A m \in C!Elements(milestones) : m.status = status
           Has(status) == {k \in DOMAIN milestones : milestones[k].status = status}
<1>2. PICK q \in Bijection(1..n, OfKind("milestone")) : d = [r \in 1..n |-> Entry(q[r], mediaOrder)]
  BY DomainLists
<1>3. n \in Nat
  BY PresentIsFinite DEF OfKind, Present, Count
<1>4. /\ progress = C!Progress(d)
      /\ milestones = [k \in DOMAIN d |-> [id |-> d[k].id, status |-> d[k].body.status]]
      /\ page.home.now = C!First(C!InOrder(milestones, C!Earlier(Has("current"))))
      /\ page.home.next = C!First(C!InOrder(milestones, C!Earlier(Has("future"))))
  BY <1>1 DEF C!Compile, Candidate, C!CompileTimeline, C!CompileHome, C!WithStatus, C!Filter, C!Each
<1> DEFINE now == page.home.now
           next == page.home.next
<1> HIDE DEF n, d, milestones, progress, now, next
<1>5. d = [r \in 1..n |-> d[r]]
  BY <1>2
<1>6. /\ DOMAIN milestones = 1..n /\ \A k \in 1..n : milestones[k].status = d[k].body.status
      /\ milestones = [k \in 1..n |-> milestones[k]]
  BY <1>4, <1>5
<1>7. CASE n = 0
  <2>1. d = <<>> /\ milestones = <<>>
    BY <1>5, <1>6, <1>7
  <2>2. progress.percent = 0
    BY <1>4, <2>1 DEF C!Progress
  <2> QED BY <2>1, <2>2 DEF milestones, progress
<1>8. CASE n # 0
  <2>1. Len(milestones) = n
    BY <1>3, <1>6, LengthOf
  <2> DEFINE here == {k \in 1..n : d[k].body.status = "current"}
  <2>2. /\ progress.percent \in 0..100 /\ progress.step \in 1..n
        /\ here # {} => progress.step \in here /\ \A j \in here : progress.step <= j
        /\ (\A k \in 1..n : d[k].body.status = "done") => progress.percent = 100
        /\ (\A k \in 1..n : d[k].body.status = "future") => progress.percent = 0 /\ progress.step = 1
    BY <1>3, <1>4, <1>5, <1>8, ProgressOf
  <2>3. \A status : All(status) => \A k \in 1..n : d[k].body.status = status
    BY <1>6 DEF C!Elements
  <2>4. Has("current") = here /\ here \in SUBSET (1..n) /\ Has("future") \in SUBSET (1..n)
    BY <1>6
  <2>5. now # None => milestones[progress.step] = now
    <3> SUFFICES ASSUME now # None PROVE milestones[progress.step] = now
      OBVIOUS
    <3>1. \/ Has("current") = {} /\ now = None
          \/ \E k \in Has("current") : now = milestones[k] /\ \A j \in Has("current") : k <= j
      <4> HIDE DEF Has, here
      <4> QED BY <1>3, <1>4, <2>4, FirstKept DEF now
    <3> HIDE DEF Has, here
    <3>2. PICK k \in here : now = milestones[k] /\ \A j \in here : k <= j
      BY <2>4, <3>1
    <3>3. k <= progress.step /\ progress.step <= k
      BY <2>2, <3>2
    <3>4. k \in 1..n
      BY <2>4
    <3> QED BY <2>2, <3>2, <3>3, <3>4
  <2>6. All("future") => next = milestones[1]
    <3> SUFFICES ASSUME All("future") PROVE next = milestones[1]
      OBVIOUS
    <3>1. 1 \in 1..n /\ \A k \in 1..n : k \in Has("future")
      <4>1. \A k \in 1..n : d[k].body.status = "future"
        BY <2>3
      <4> QED BY <1>3, <1>6, <1>8, <4>1
    <3>2. \/ Has("future") = {} /\ next = None
          \/ \E k \in Has("future") : next = milestones[k] /\ \A j \in Has("future") : k <= j
      <4> HIDE DEF Has, here
      <4> QED BY <1>3, <1>4, <2>4, FirstKept DEF next
    <3> HIDE DEF Has
    <3>3. PICK k \in Has("future") : next = milestones[k] /\ \A j \in Has("future") : k <= j
      BY <3>1, <3>2
    <3>4. k \in 1..n /\ k <= 1
      BY <2>4, <3>1, <3>3
    <3> QED BY <1>3, <3>3, <3>4
  <2> QED BY <2>1, <2>2, <2>3, <2>5, <2>6 DEF milestones, progress, now, next
<1> QED BY <1>7, <1>8

-----------------------------------------------------------------------------
(* What the drafts and the pages promise about the choice of the home page. *)

ChoiceOK(intent) ==
  intent.mode = "manual" /\ intent.featured # None =>
    rows[intent.featured] = Gone \/ IsArticle(intent.featured)
ChoicesOK ==
  /\ home # None => ChoiceOK(home.fields)
  /\ \A e \in Editors : HomeAt(e, "checked") => ChoiceOK(drafts[e].sent)
WarningOK(page) == page.home.missing # None =>
  page.home.missing \in Items /\ rows[page.home.missing] = Gone
ManifestsOK == \A r \in Revisions :
  pages[r] # None => DistinctQuestions(pages[r]) /\ WarningOK(pages[r])
ContentInv == PInv /\ ChoicesOK /\ ManifestsOK

(* A deleted row stays deleted; an article stays one until it is deleted.   *)
LEMMA RowsProgress ==
  ASSUME IInv, [StudioNext]_studio, NEW i \in Items
  PROVE  /\ rows[i] = Gone => rows'[i] = Gone
         /\ IsArticle(i) => rows'[i] = Gone \/ IsArticle(i)'
<1>1. CASE rows' = rows
  BY <1>1 DEF IsArticle, Exists
<1>2. ASSUME NEW e \in Editors, NEW j \in Items, CreateItem(e, j)
      PROVE  rows[j] = None /\ \A k \in Items : k # j => rows'[k] = rows[k]
  BY <1>2 DEF CreateItem, IInv, StudioTypeOK
<1>3. ASSUME NEW e \in Editors, Delete(e)
      PROVE  \A k \in Items : rows'[k] = rows[k] \/ rows'[k] = Gone
  BY <1>3 DEF Delete, IInv, StudioTypeOK
<1>4. ASSUME NEW e \in Editors, Save(e)
      PROVE  \/ rows'[i] = rows[i]
             \/ Exists(i) /\ rows'[i] \in Row /\ rows'[i].body.kind = rows[i].body.kind
  <2> DEFINE j == drafts[e].item
  <2>1. PICK body \in Bodies, position \in Positions :
          /\ Exists(j) /\ rows[j].version < MaxVersion /\ body.kind = rows[j].body.kind
          /\ rows' = [rows EXCEPT ![j] =
               [body |-> body,
                position |-> IF KeepsPosition(body) THEN rows[j].position ELSE position,
                version |-> NextVersion(rows[j].version)]]
    BY <1>4 DEF Save
  <2>2. CASE j = i
    <3>1. rows[i] \in Row
      BY <2>1, <2>2, RowType DEF IInv
    <3>2. NextVersion(rows[i].version) \in Versions
      BY <2>1, <2>2, <3>1, MaxVersionIsPositive DEF Row, Versions, NextVersion
    <3> QED BY <2>1, <2>2, <3>1, <3>2 DEF Row, IInv, StudioTypeOK
  <2>3. CASE j # i
    BY <2>1, <2>3 DEF IInv, StudioTypeOK
  <2> QED BY <2>2, <2>3
<1>5. rows' = rows \/ (\E e \in Editors : Delete(e) \/ Save(e) \/ \E j \in Items : CreateItem(e, j))
  BY DEF StudioNext, studio, ListItem, ListChildren, ListHome, CheckFeatured, SaveHome
<1>6. None \notin Row /\ Gone \notin Row /\ None # Gone
  BY NoneIsNoRecord, NoneIsNothing
<1> QED BY <1>1, <1>2, <1>3, <1>4, <1>5, <1>6 DEF IsArticle, Exists

(* ChoiceOK of the rows after the step.                                     *)
ChoiceKept(intent) ==
  intent.mode = "manual" /\ intent.featured # None =>
    \/ rows'[intent.featured] = Gone
    \/ rows'[intent.featured] \notin {None, Gone} /\ rows'[intent.featured].body.kind = "article"

LEMMA ChoiceStays ==
  ASSUME IInv, [StudioNext]_studio
  PROVE  \A intent \in Intent : ChoiceOK(intent) => ChoiceKept(intent)
<1>1. \A intent \in Intent : intent.featured \in Items \cup {None}
  BY DEF Intent
<1> QED BY <1>1, RowsProgress DEF ChoiceOK, ChoiceKept, IsArticle, Exists

(* Only the check of the featured article makes a draft "checked", and only *)
(* a checked draft becomes the home page.                                   *)
LEMMA ChoicesStay ==
  ASSUME IInv, ChoicesOK, [StudioNext]_studio
  PROVE  ChoicesOK'
<1>1. \A e \in Editors : HomeAt(e, "checked") => drafts[e] \in OnHome /\ drafts[e].sent \in Intent
  BY DraftKinds DEF IInv, HomeAt, OnHome
<1>2. home # None => home.fields \in Intent
  BY DEF IInv, StudioTypeOK, Home
<1>3. ASSUME NEW f \in Editors, HomeAt(f, "checked")'
      PROVE  \/ drafts'[f] = drafts[f]
             \/ \E intent \in Intent : ChoiceExists(intent) /\ drafts'[f].sent = intent /\ rows' = rows
  <2>1. CASE UNCHANGED studio
    BY <2>1 DEF studio
  <2>2. ASSUME NEW e \in Editors, CheckFeatured(e)
        PROVE  \/ drafts'[f] = drafts[f]
               \/ \E intent \in Intent : ChoiceExists(intent) /\ drafts'[f].sent = intent /\ rows' = rows
    BY <2>2 DEF CheckFeatured, ShownHome, IInv, StudioTypeOK
  <2>3. ASSUME NEW e \in Editors,
               ListHome(e) \/ SaveHome(e) \/ ListChildren(e) \/ Save(e) \/ Delete(e)
                 \/ \E i \in Items : CreateItem(e, i) \/ ListItem(e, i)
        PROVE  drafts'[f] = drafts[f]
    <3>1. \A g \in Editors : g # e => drafts'[g] = drafts[g]
      BY <2>3 DEF ListHome, SaveHome, ListChildren, Save, Delete, CreateItem, ListItem, IInv, StudioTypeOK
    <3>2. CASE ListHome(e) \/ SaveHome(e)
      <4>1. drafts'[e].pc = "open"
        BY <3>2 DEF ListHome, SaveHome, ShownHome, IInv, StudioTypeOK
      <4> QED BY <1>3, <3>1, <4>1 DEF HomeAt
    <3>3. CASE ListChildren(e) \/ Save(e) \/ Delete(e) \/ \E i \in Items : CreateItem(e, i) \/ ListItem(e, i)
      <4>1. drafts'[e].on = "item" \/ drafts'[e] = drafts[e]
        <5>1. CASE ListChildren(e)
          BY <5>1 DEF ListChildren, Shown, IInv, StudioTypeOK
        <5>2. CASE Save(e)
          BY <5>2 DEF Save, Shown, IInv, StudioTypeOK
        <5>3. CASE Delete(e)
          BY <5>3 DEF Delete
        <5>4. CASE \E i \in Items : CreateItem(e, i) \/ ListItem(e, i)
          BY <5>4 DEF CreateItem, ListItem, Shown, IInv, StudioTypeOK
        <5> QED BY <3>3, <5>1, <5>2, <5>3, <5>4
      <4> QED BY <1>3, <3>1, <4>1 DEF HomeAt
    <3> QED BY <2>3, <3>2, <3>3
  <2> QED BY <2>1, <2>2, <2>3 DEF StudioNext
<1>4. home' # None => \/ home' = home
                     \/ \E e \in Editors : HomeAt(e, "checked") /\ home'.fields = drafts[e].sent
  <2>1. ASSUME NEW e \in Editors, SaveHome(e)
        PROVE  home' = home \/ (HomeAt(e, "checked") /\ home'.fields = drafts[e].sent)
    BY <2>1 DEF SaveHome
  <2>2. home' = home \/ \E e \in Editors : SaveHome(e)
    <3>1. ASSUME NEW e \in Editors,
                 ListChildren(e) \/ ListHome(e) \/ CheckFeatured(e) \/ Save(e) \/ Delete(e)
          PROVE  home' = home
      BY <3>1 DEF ListChildren, ListHome, CheckFeatured, Save, Delete
    <3>2. ASSUME NEW e \in Editors, NEW i \in Items, CreateItem(e, i) \/ ListItem(e, i) PROVE home' = home
      BY <3>2 DEF CreateItem, ListItem
    <3> QED BY <3>1, <3>2 DEF StudioNext, studio
  <2> QED BY <2>1, <2>2
<1>5. home' # None => ChoiceKept(home'.fields)
  BY <1>1, <1>2, <1>4, ChoiceStays DEF ChoicesOK
<1>6. ASSUME NEW f \in Editors, HomeAt(f, "checked")' PROVE ChoiceKept(drafts'[f].sent)
  <2>1. CASE drafts'[f] = drafts[f]
    <3>1. HomeAt(f, "checked")
      BY <1>6, <2>1 DEF HomeAt
    <3> QED BY <1>1, <2>1, <3>1, ChoiceStays DEF ChoicesOK
  <2>2. CASE \E intent \in Intent : ChoiceExists(intent) /\ drafts'[f].sent = intent /\ rows' = rows
    BY <2>2 DEF ChoiceExists, ChoiceKept, IsArticle, Exists
  <2> QED BY <1>3, <1>6, <2>1, <2>2
<1> QED BY <1>5, <1>6 DEF ChoicesOK, ChoiceOK, ChoiceKept, IsArticle, Exists

(* A page compiled now warns of a choice only when the article is deleted.  *)
LEMMA WarningOfPreview ==
  ASSUME IInv, ChoicesOK, NEW order \in Orders, NEW m \in MediaOrders
  PROVE  WarningOK(C!Compile(Candidate(order, m)))
<1> DEFINE page == C!Compile(Candidate(order, m))
           intent == ReadHome.fields
           news == C!Elements(page.news)
<1>1. page.home = C!CompileHome(intent, page.news, page.timeline.milestones)
  BY DEF C!Compile, Candidate
<1>2. intent \in Intent /\ ChoiceOK(intent)
  <2>1. intent \in Intent
    BY ReadHomeType DEF IInv
  <2>2. ChoiceOK(intent)
    BY DEF ReadHome, Unwritten, ChoicesOK, ChoiceOK
  <2> QED BY <2>1, <2>2
<1>3. \A i \in OfKind("article") : \E a \in news : a.id = i
  BY NewsAreListed DEF IInv
<1> HIDE DEF page, intent
<1>4. page.home.missing =
        IF intent.mode = "manual" /\ intent.featured # None /\ {a \in news : a.id = intent.featured} = {}
        THEN intent.featured ELSE None
  BY <1>1 DEF C!CompileHome
<1> HIDE DEF news
<1>5. WarningOK(page)
  <2> SUFFICES ASSUME page.home.missing # None
               PROVE  page.home.missing \in Items /\ rows[page.home.missing] = Gone
    BY DEF WarningOK
  <2>1. /\ page.home.missing = intent.featured /\ intent.mode = "manual" /\ intent.featured # None
        /\ \A a \in news : a.id # intent.featured
    BY <1>4
  <2>2. intent.featured \in Items
    BY <1>2, <2>1 DEF Intent
  <2>3. ~IsArticle(intent.featured)
    <3>1. IsArticle(intent.featured) => intent.featured \in OfKind("article")
      BY <2>2 DEF IsArticle, OfKind, Present, Kind
    <3> QED BY <1>3, <2>1, <3>1
  <2> QED BY <1>2, <2>1, <2>2, <2>3 DEF ChoiceOK
<1> QED BY <1>5 DEF page

LEMMA InitContent == Init => ContentInv
<1> SUFFICES ASSUME Init PROVE ContentInv
  OBVIOUS
<1>1. PInv
  BY InitPInv
<1>2. ChoicesOK
  BY DEF Init, StudioInit, ChoicesOK, HomeAt
<1>3. ManifestsOK
  BY DEF Init, PublishingInit, ManifestsOK
<1> QED BY <1>1, <1>2, <1>3 DEF ContentInv

(* A page is compiled once, from the drafts as they are.                    *)
LEMMA NextContent == ContentInv /\ [Next]_vars => ContentInv'
<1> SUFFICES ASSUME ContentInv, [Next]_vars PROVE ContentInv'
  OBVIOUS
<1>1. PInv' /\ IInv
  BY NextPInv DEF ContentInv, PInv
<1>2. [StudioNext]_studio
  BY DEF Next, vars, Reserve, ShowKnowledge, Ask, Snapshot, Activate, Abandon
<1>3. ChoicesOK'
  BY <1>1, <1>2, ChoicesStay DEF ContentInv
<1> DEFINE WarningKept(page) == page.home.missing # None =>
             page.home.missing \in Items /\ rows'[page.home.missing] = Gone
<1>4. ASSUME NEW page, WarningOK(page)
      PROVE  WarningKept(page)
  BY <1>1, <1>2, <1>4, RowsProgress DEF WarningOK
<1>5. ASSUME pages' = pages PROVE ManifestsOK'
  <2>1. \A k \in Revisions : pages'[k] # None => DistinctQuestions(pages'[k]) /\ WarningKept(pages'[k])
    BY <1>4, <1>5 DEF ContentInv, ManifestsOK
  <2> QED BY <2>1 DEF ManifestsOK, WarningOK, DistinctQuestions
<1>6. ASSUME NEW r \in Revisions, Snapshot(r) PROVE ManifestsOK'
  <2>1. PICK order \in Orders, m \in MediaOrders :
          pages' = [pages EXCEPT ![r] = C!Compile(Candidate(order, m))]
    <3>1. PICK c \in Candidates : pages' = [pages EXCEPT ![r] = C!Compile(c)]
      BY <1>6 DEF Snapshot
    <3>2. PICK order \in Orders, m \in MediaOrders : c = Candidate(order, m)
      BY DEF Candidates
    <3> QED BY <3>1, <3>2
  <2> DEFINE page == C!Compile(Candidate(order, m))
  <2>2. DistinctQuestions(page) /\ WarningOK(page)
    BY <1>1, PreviewsAreDistinct, WarningOfPreview DEF ContentInv
  <2>3. rows' = rows
    BY <1>6 DEF Snapshot, studio
  <2>4. \A k \in Revisions : pages'[k] = page \/ pages'[k] = pages[k]
    BY <2>1 DEF ContentInv, PInv, PublicationsOK
  <2> HIDE DEF page
  <2>5. \A k \in Revisions : pages'[k] # None => DistinctQuestions(pages'[k]) /\ WarningKept(pages'[k])
    BY <1>4, <2>2, <2>4 DEF ContentInv, ManifestsOK
  <2> QED BY <2>5 DEF ManifestsOK, WarningOK, DistinctQuestions
<1>7. pages' = pages \/ \E r \in Revisions : Snapshot(r)
  BY DEF Next, vars, publishing, Reserve, ShowKnowledge, Ask, Activate, Abandon
<1>8. ManifestsOK'
  BY <1>5, <1>6, <1>7
<1> QED BY <1>1, <1>3, <1>8 DEF ContentInv

(* The warning that the featured article no longer exists is only given of  *)
(* an article that was deleted, on a page compiled now or before.           *)
THEOREM WarningTheorem == Spec => []WarningMeansDeleted
<1>1. ContentInv => WarningMeansDeleted
  <2> SUFFICES ASSUME ContentInv, NEW page \in Previews \cup Manifests PROVE WarningOK(page)
    BY DEF WarningMeansDeleted, WarningOK
  <2>1. CASE page \in Previews
    BY <2>1, PreviewIsCompiled, WarningOfPreview DEF ContentInv, PInv
  <2>2. CASE page \in Manifests
    BY <2>2 DEF Manifests, ContentInv, ManifestsOK
  <2> QED BY <2>1, <2>2
<1> QED BY <1>1, InitContent, NextContent, PTL DEF Spec

(* Pages with the same questions have the same corpus, whatever the order   *)
(* in which the snapshot listed them.                                       *)
THEOREM KnowledgeTheorem == Spec => []KnowledgeFollowsQuestions
<1>1. ContentInv => KnowledgeFollowsQuestions
  <2> SUFFICES ASSUME ContentInv PROVE \A page \in Previews \cup Manifests : DistinctQuestions(page)
    BY SameQuestionsSameCorpus DEF KnowledgeFollowsQuestions
  <2>1. \A page \in Previews : DistinctQuestions(page)
    BY PreviewIsCompiled, PreviewsAreDistinct
  <2>2. \A page \in Manifests : DistinctQuestions(page)
    BY DEF Manifests, ContentInv, ManifestsOK
  <2> QED BY <2>1, <2>2
<1> QED BY <1>1, InitContent, NextContent, PTL DEF Spec

(* The home page leads with a published article when there is one, and with *)
(* the newest of the others after it, never the same twice.                 *)
THEOREM HomeTheorem == Spec => []HomeLeadsWithNews
<1>1. PInv => HomeLeadsWithNews
  BY HomeLeads DEF PInv, IInv
<1> QED BY <1>1, InitPInv, NextPInv, PTL DEF Spec

(* The progress shown is that of the milestones shown.                      *)
THEOREM ProgressTheorem == Spec => []ProgressMatchesMilestones
BY ProgressMatches, PTL
=============================================================================
