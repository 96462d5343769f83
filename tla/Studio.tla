-------------------------------- MODULE Studio --------------------------------
(***************************************************************************)
(* The drafts of a project's content, edited by several people.            *)
(*                                                                         *)
(* Questions, milestones, team members, ambassadors, articles (with        *)
(* blocks), narrative sections and spaces (with media): every item carries *)
(* a version, an update or a deletion names the version it was made from,  *)
(* and it changes nothing when the version has moved.  The children of an  *)
(* item have no version of their own: a save sends all of them, those the  *)
(* payload omits are deleted, and the version of the parent stands for     *)
(* both.  A list reads the items in one statement and their children in a  *)
(* second one, outside a transaction.  The home page is one versioned row  *)
(* that may name a featured article, checked in a statement before the     *)
(* write.  The screen of an editor is what the program last answered it.   *)
(***************************************************************************)
EXTENDS Integers, FiniteSets

CONSTANTS
  Items,        \* ids of items: never used twice
  BlockIds,     \* ids of blocks and media
  Bodies,       \* what editors write in an item
  Children,     \* what they write in a block or a medium
  Positions,
  Assets,
  Texts,        \* "" among them
  Contacts,     \* classes of contact values, as ambassadorContactHref tells them apart
  MaxVersion,   \* bound: saves of one row
  Editors,
  None, Gone    \* not created yet; deleted

SectionTypes == {"focus", "keyFigures", "text", "image", "gallery", "timeline", "quote",
                 "choices", "team"}

(* The columns that the functions of each domain write.  A draft may be     *)
(* incomplete: empty texts, no date (0), no status.                         *)
Questions == [kind : {"question"}, question : Texts, answer : Texts]
Milestones == [kind : {"milestone"}, status : {"done", "current", "future", None}]
Members == [kind : {"member"}, photo : Assets \cup {None}]
Articles == [kind : {"article"}, date : Nat]
Sections == [kind : {"section"}, type : SectionTypes, enabled : BOOLEAN]
Ambassadors == [kind : {"ambassador"}, contactable : BOOLEAN, contact : Contacts,
                channel : {"email", "phone", "teams", "link", None}, photo : Assets \cup {None}]
Spaces == [kind : {"space"}, status : {"designing", "approved", "delivered", None}]
(* What the validation lets through.                                        *)
Valid == Questions \cup Milestones \cup Members \cup Articles \cup Sections
           \cup Ambassadors \cup Spaces

(* A paragraph or a heading has no asset; a medium always has one.          *)
Child == [position : Positions, asset : Assets \cup {None}]

ASSUME BodiesAreValid == Bodies \subseteq Valid /\ Children \subseteq Child
ASSUME PositionsAreNumbers == Positions \subseteq Int
ASSUME MaxVersionIsPositive == MaxVersion \in Nat \ {0}
ASSUME NoneIsNothing == None \notin Items \cup BlockIds \cup Child \cup {Gone}

VARIABLES
  rows,      \* the tables of items
  children,  \* blocks and media, by item
  home,      \* the homepage row of project_section_content
  drafts     \* what each editor has on screen, and the request it has in progress

studio == <<rows, children, home, drafts>>

Versions == 1..MaxVersion
Row == [body : Bodies, position : Positions, version : Versions]
Intent == [mode : {"latest", "manual"}, featured : Items \cup {None}]
Home == [fields : Intent, version : Versions]
Owned == [BlockIds -> Child \cup {None}]

(* Some row has no draft yet: version 0 stands for "no version to send".    *)
Unwritten == [fields |-> [mode |-> "latest", featured |-> None], version |-> 0]
OnItem == [on : {"item"}, pc : {"listed", "open"}, item : Items, row : Row, children : Owned]
OnHome == [on : {"home"}, pc : {"open", "checked"}, seen : Home \cup {Unwritten}, sent : Intent]
ASSUME NoneIsNoRecord == {None, Gone} \cap (Row \cup Home \cup OnItem \cup OnHome) = {}

StudioTypeOK ==
  /\ rows \in [Items -> Row \cup {None, Gone}]
  /\ children \in [Items -> Owned]
  /\ home \in Home \cup {None}
  /\ drafts \in [Editors -> OnItem \cup OnHome \cup {None}]

Empty == [b \in BlockIds |-> None]
StudioInit ==
  /\ rows = [i \in Items |-> None]
  /\ children = [i \in Items |-> Empty]
  /\ home = None
  /\ drafts = [e \in Editors |-> None]

-----------------------------------------------------------------------------
(* What the handlers test.                                                  *)

Exists(i) == rows[i] \notin {None, Gone}
Free(b) == \A i \in Items : children[i][b] = None
Ids(payload) == {b \in BlockIds : payload[b] # None}

(* Who has children.  A section loses its media when it changes to a type   *)
(* without any: they are not in the payload.                                *)
ArticleBlocks(body, payload) == body.kind = "article"
SectionMedia(body, payload) ==
  /\ body.kind = "section" /\ body.type \in {"image", "gallery"}
  /\ \A b \in Ids(payload) : payload[b].asset # None
SpaceMedia(body, payload) ==
  body.kind = "space" /\ \A b \in Ids(payload) : payload[b].asset # None
MayCarry(body, payload) ==
  \/ ArticleBlocks(body, payload) \/ SectionMedia(body, payload) \/ SpaceMedia(body, payload)
  \/ Ids(payload) = {}
(* An update of an article or of a space has no position.                   *)
KeepsPosition(body) == body.kind \in {"article", "space"}

(* An id of the payload must be one of this item's; an entry without id     *)
(* gets a new one.                                                          *)
Accepted(i, payload) == \A b \in Ids(payload) : children[i][b] # None \/ Free(b)

AnyVersion(row, version) == TRUE   \* mutant of SameVersion: the update does not test the version
(* update ... where version = $n                                            *)
SameVersion(row, version) == row.version = version

NextVersion(version) == version + 1

Merged(old, payload) ==            \* mutant of Diff: what the payload omits stays
  [b \in BlockIds |-> IF b \in Ids(payload) THEN payload[b] ELSE old[b]]
(* Known ids are updated, new ones inserted, and what is not kept deleted.  *)
Diff(old, payload) ==
  LET kept == Ids(payload) \cap Ids(old)
      inserted == Ids(payload) \ Ids(old)
  IN  [b \in BlockIds |-> IF b \in kept \cup inserted THEN payload[b] ELSE None]

-----------------------------------------------------------------------------
(* Items.                                                                   *)

ItemOpen(e) == drafts[e] # None /\ drafts[e].on = "item" /\ drafts[e].pc = "open"
HomeAt(e, pc) == drafts[e] # None /\ drafts[e].on = "home" /\ drafts[e].pc = pc
Shown(i, row, owned, pc) == [on |-> "item", pc |-> pc, item |-> i, row |-> row, children |-> owned]

(* POST: the row at version 1 and its children, in one transaction.         *)
CreateItem(e, i) == \E body \in Bodies, position \in Positions :
                    \E payload \in [BlockIds -> Children \cup {None}] :
  LET row == [body |-> body, position |-> position, version |-> 1] IN
  /\ rows[i] = None
  /\ MayCarry(body, payload)
  /\ \A b \in Ids(payload) : Free(b)
  /\ rows' = [rows EXCEPT ![i] = row]
  /\ children' = [children EXCEPT ![i] = payload]
  /\ drafts' = [drafts EXCEPT ![e] = Shown(i, row, payload, "open")]
  /\ UNCHANGED home

(* GET, first statement: the rows of the domain.                            *)
ListItem(e, i) ==
  /\ Exists(i)
  /\ drafts' = [drafts EXCEPT ![e] = Shown(i, rows[i], Empty, "listed")]
  /\ UNCHANGED <<rows, children, home>>

(* GET, second statement: the children of the rows that are still there.    *)
ListChildren(e) ==
  /\ drafts[e] # None /\ drafts[e].on = "item" /\ drafts[e].pc = "listed"
  /\ LET d == drafts[e] IN
     drafts' = [drafts EXCEPT ![e] = Shown(d.item, d.row, children[d.item], "open")]
  /\ UNCHANGED <<rows, children, home>>

(* PATCH: the row when the version is the one sent, then its children, in   *)
(* one transaction.  The answer shows the new row, unless it is lost.       *)
Save(e) == \E body \in Bodies, position \in Positions, answered \in BOOLEAN :
           \E payload \in [BlockIds -> Children \cup {None}] :
  LET d == drafts[e]
      i == d.item
      row == [body |-> body,
              position |-> IF KeepsPosition(body) THEN rows[i].position ELSE position,
              version |-> NextVersion(rows[i].version)]
  IN
  /\ ItemOpen(e)
  /\ Exists(i) /\ SameVersion(rows[i], d.row.version) /\ rows[i].version < MaxVersion
  /\ body.kind = rows[i].body.kind
  /\ MayCarry(body, payload) /\ Accepted(i, payload)
  /\ rows' = [rows EXCEPT ![i] = row]
  /\ children' = [children EXCEPT ![i] = Diff(children[i], payload)]
  /\ drafts' = [drafts EXCEPT ![e] = IF answered THEN Shown(i, row, payload, "open") ELSE d]
  /\ UNCHANGED home

(* DELETE ?version=n; the children go with the row.                         *)
Delete(e) ==
  LET i == drafts[e].item IN
  /\ ItemOpen(e)
  /\ Exists(i) /\ SameVersion(rows[i], drafts[e].row.version)
  /\ rows' = [rows EXCEPT ![i] = Gone]
  /\ children' = [children EXCEPT ![i] = Empty]
  /\ UNCHANGED <<home, drafts>>

-----------------------------------------------------------------------------
(* The home page.                                                           *)

ShownHome(seen, sent, pc) == [on |-> "home", pc |-> pc, seen |-> seen, sent |-> sent]
ReadHome == IF home = None THEN Unwritten ELSE home

(* GET section-content/homepage                                             *)
ListHome(e) ==
  /\ drafts' = [drafts EXCEPT ![e] = ShownHome(ReadHome, ReadHome.fields, "open")]
  /\ UNCHANGED <<rows, children, home>>

IsArticle(i) == Exists(i) /\ rows[i].body.kind = "article"
AnyChoice(intent) == TRUE   \* mutant of ChoiceExists: the featured article is not looked up
(* A manual choice must be an article of the project when it is checked.    *)
ChoiceExists(intent) ==
  intent.mode = "manual" /\ intent.featured # None => IsArticle(intent.featured)

(* PATCH, first statement.                                                  *)
CheckFeatured(e) == \E intent \in Intent :
  /\ HomeAt(e, "open")
  /\ ChoiceExists(intent)
  /\ drafts' = [drafts EXCEPT ![e] = ShownHome(@.seen, intent, "checked")]
  /\ UNCHANGED <<rows, children, home>>

(* PATCH, second statement: insert when no version is sent and no row       *)
(* exists, update when the version is the one sent, else a conflict.        *)
Upserts(seen) == \/ seen.version = 0 /\ home = None
                 \/ seen.version # 0 /\ home # None /\ SameVersion(home, seen.version)
SaveHome(e) == \E answered \in BOOLEAN :
  LET d == drafts[e]
      written == [fields |-> d.sent, version |-> IF home = None THEN 1 ELSE NextVersion(home.version)]
  IN
  /\ HomeAt(e, "checked")
  /\ IF Upserts(d.seen)
     THEN /\ d.seen.version < MaxVersion
          /\ home' = written
          /\ drafts' = [drafts EXCEPT ![e] =
               IF answered THEN ShownHome(written, d.sent, "open")
                           ELSE ShownHome(d.seen, d.sent, "open")]
     ELSE /\ drafts' = [drafts EXCEPT ![e] = ShownHome(d.seen, d.sent, "open")]
          /\ UNCHANGED home
  /\ UNCHANGED <<rows, children>>

-----------------------------------------------------------------------------
StudioNext == \E e \in Editors :
  \/ \E i \in Items : CreateItem(e, i) \/ ListItem(e, i)
  \/ ListChildren(e) \/ Save(e) \/ Delete(e)
  \/ ListHome(e) \/ CheckFeatured(e) \/ SaveHome(e)

StudioSpec == StudioInit /\ [][StudioNext]_studio

-----------------------------------------------------------------------------
(* The version stands for the whole of what an editor sees: an editor whose *)
(* version is the present one has the present row AND the present children  *)
(* on screen, although a list reads them in two statements and an answer    *)
(* may be lost.  Otherwise a save that the version check lets through       *)
(* deletes, by omission, children its author never saw.                     *)
CurrentVersionIsCurrentContent == \A e \in Editors :
  LET d == drafts[e] IN
  /\ ItemOpen(e) /\ Exists(d.item) /\ rows[d.item].version = d.row.version =>
       d.row = rows[d.item] /\ d.children = children[d.item]
  /\ d # None /\ d.on = "home" /\ home # None /\ home.version = d.seen.version =>
       d.seen = home

(* Nobody overwrites what he has not seen: a row, its children or the home  *)
(* page change only by an editor who has exactly their present content on   *)
(* screen.                                                                  *)
SeenItem(e, i, row, owned) == /\ ItemOpen(e) /\ drafts[e].item = i
                              /\ drafts[e].row = row /\ drafts[e].children = owned
Seen ==
  /\ \A i \in Items :
       Exists(i) /\ (rows'[i] # rows[i] \/ children'[i] # children[i]) =>
         \E e \in Editors : SeenItem(e, i, rows[i], children[i])
  /\ home # None /\ home' # home => \E e \in Editors : HomeAt(e, "checked") /\ drafts[e].seen = home
NothingOverwrittenUnseen == [][Seen]_studio
=============================================================================
