------------------------- MODULE PublicAddressProofs -------------------------
(***************************************************************************)
(* PublicAddress, proved for every value of the constants: types, one      *)
(* active publication and one current address at most, who is served, who  *)
(* is told that a link changed, and that an address follows the names of   *)
(* its project and client unless requests overtook each other.             *)
(*                                                                         *)
(* Two invariants: IInv on publications and rows, NamesInv, inductive with *)
(* it, on what each request remembers of the names.                        *)
(***************************************************************************)
EXTENDS PublicAddress, TLAPS

-----------------------------------------------------------------------------
(* The invariant.                                                           *)

(* What a request relies on between its steps: a publication in progress is *)
(* still compiling, a rotation knows both slugs, one by hand is of a        *)
(* published project and revokes a row of that project.                     *)
CallOK(c) ==
  /\ c.op = "publish" =>
       /\ publication[c.project][c.revision] = "compiling"
       /\ c.pc = "activating" => c.clientSlug # None
  /\ c.op = "rename" => (c.pc = "seeking" \/ c.target # None => c.clientSlug # None)
  /\ c.op = "reassign" => (c.pc = "seeking" \/ c.target # None => c.projectSlug # None)
  /\ c.op = "rotate" =>
       /\ Published(c.project) # {}
       /\ c.pc # "resolved" => c.target \in Accesses /\ Of(c.target, c.project)
  /\ c.op = "renameClient" => \A a \in c.targets : access[a] # None
CallsOK == \A k \in Callers : calls[k] # None => CallOK(calls[k])

Publishes(k) == calls[k] # None /\ calls[k].op = "publish"
RevisionsAreDistinct == \A j, k \in Callers :
  Publishes(j) /\ Publishes(k) /\ calls[j].project = calls[k].project
    /\ calls[j].revision = calls[k].revision => j = k

Served == \A p \in Projects : Current(p) # {} => Published(p) # {}
(* A project that was ever addressed, or is published, has an address.      *)
Addressed == \A p \in Projects :
  Published(p) # {} \/ (\E a \in Accesses : Of(a, p)) => Current(p) # {} \/ HalfRotated(p)

AddressInv == OneOfEach /\ Served /\ Addressed /\ NoticeUnlessFirst
IInv == TypeOK /\ CallsOK /\ RevisionsAreDistinct /\ AddressInv

-----------------------------------------------------------------------------
(* Requests.                                                                *)

LEMMA Kinds == ASSUME NEW c \in Call
  PROVE /\ c.op \in {"publish", "rename", "reassign", "rotate", "renameClient"}
        /\ c.op = "publish" => c \in Publish
        /\ c.op = "rename" => c \in ProjectRename
        /\ c.op = "reassign" => c \in Reassignment
        /\ c.op = "rotate" => c \in Rotation
        /\ c.op = "renameClient" => c \in ClientRename
BY DEF Call, Publish, ProjectRename, Reassignment, Rotation, ClientRename

(* Being overtaken changes nothing else.                                    *)
Marked(c) == [c EXCEPT !.overtaken = TRUE]
LEMMA MarkedSame == ASSUME NEW c \in Call
  PROVE /\ Marked(c) \in Call
        /\ Marked(c).op = c.op
        /\ c.op # "renameClient" => Marked(c).pc = c.pc /\ Marked(c).project = c.project
        /\ c.op = "publish" => Marked(c).revision = c.revision
        /\ Marked(c).overtaken
        /\ CallOK(c) => CallOK(Marked(c))
<1>1. CASE c \in Publish
  BY <1>1 DEF Marked, CallOK, Call, Publish
<1>2. CASE c \in ProjectRename
  BY <1>2 DEF Marked, CallOK, Call, ProjectRename
<1>3. CASE c \in Reassignment
  BY <1>3 DEF Marked, CallOK, Call, Reassignment
<1>4. CASE c \in Rotation
  BY <1>4 DEF Marked, CallOK, Call, Rotation
<1>5. CASE c \in ClientRename
  BY <1>5 DEF Marked, CallOK, Call, ClientRename
<1> QED BY <1>1, <1>2, <1>3, <1>4, <1>5 DEF Call

(* How the calls of a step relate to those before it: request k is as given *)
(* and every other one is the same, or overtaken.                           *)
OthersGoOn(k) ==
  /\ calls' \in [Callers -> Call \cup {None}]
  /\ \A j \in Callers \ {k} : \/ calls'[j] = calls[j]
                              \/ calls[j] # None /\ calls'[j] = Marked(calls[j])

LEMMA EndedCalls ==
  ASSUME TypeOK, NEW k \in Callers, calls' = Ended(k, EveryReader) \/ calls' = Ended(k, NoCall)
  PROVE  OthersGoOn(k) /\ calls'[k] = None
<1>1. \A j \in Callers : calls[j] # None => Marked(calls[j]) \in Call
  BY MarkedSame DEF TypeOK
<1>2. CASE calls' = Ended(k, EveryReader)
  BY <1>1, <1>2 DEF TypeOK, Ended, Marked, OthersGoOn, EveryReader
<1>3. CASE calls' = Ended(k, NoCall)
  BY <1>1, <1>3 DEF TypeOK, Ended, OthersGoOn, NoCall
<1> QED BY <1>2, <1>3

LEMMA SetCall ==
  ASSUME TypeOK, NEW k \in Callers, NEW c \in Call, calls' = [calls EXCEPT ![k] = c]
  PROVE  OthersGoOn(k) /\ calls'[k] = c
BY DEF TypeOK, OthersGoOn

(* What the others relied on still holds when rows stay in their project,   *)
(* published projects stay published, and nobody ends their publication.    *)
LEMMA OthersStayOK ==
  ASSUME TypeOK, CallsOK, RevisionsAreDistinct, NEW k \in Callers, OthersGoOn(k),
         \A a \in Accesses : access[a] # None =>
           access'[a] # None /\ access'[a].project = access[a].project,
         \A p \in Projects : Published(p) # {} => Published(p)' # {},
         \A j \in Callers \ {k} : Publishes(j) =>
           publication'[calls[j].project][calls[j].revision] = "compiling"
  PROVE  \A j \in Callers \ {k} : (calls[j] # None => CallOK(calls[j]))'
<1> SUFFICES ASSUME NEW j \in Callers \ {k}, calls'[j] # None PROVE CallOK(calls[j])'
  OBVIOUS
<1>1. calls[j] # None /\ calls[j] \in Call /\ CallOK(calls[j])
  BY DEF OthersGoOn, TypeOK, CallsOK
<1> DEFINE c == calls[j]
<1>2. CASE c \in Publish
  BY <1>1, <1>2 DEF CallOK, OthersGoOn, Marked, Publish, Publishes
<1>3. CASE c \in ProjectRename
  BY <1>1, <1>3 DEF CallOK, OthersGoOn, Marked, ProjectRename
<1>4. CASE c \in Reassignment
  BY <1>1, <1>4 DEF CallOK, OthersGoOn, Marked, Reassignment
<1>5. CASE c \in Rotation
  BY <1>1, <1>5 DEF CallOK, OthersGoOn, Marked, Rotation, Of
<1>6. CASE c \in ClientRename
  BY <1>1, <1>6 DEF CallOK, OthersGoOn, Marked, ClientRename
<1> QED BY <1>1, <1>2, <1>3, <1>4, <1>5, <1>6 DEF Call

LEMMA OthersStayDistinct ==
  ASSUME TypeOK, RevisionsAreDistinct, NEW k \in Callers, OthersGoOn(k),
         ~Publishes(k)' \/ (/\ Publishes(k) /\ calls'[k].project = calls[k].project
                            /\ calls'[k].revision = calls[k].revision)
  PROVE  RevisionsAreDistinct'
<1>1. \A j \in Callers : Publishes(j)' =>
        Publishes(j) /\ calls'[j].project = calls[j].project /\ calls'[j].revision = calls[j].revision
  BY MarkedSame DEF TypeOK, OthersGoOn, Publishes
<1> QED BY <1>1 DEF RevisionsAreDistinct

HalfRotates(k, p) == Doing(k, "rotate", "revoked") /\ calls[k].project = p
LEMMA OthersKeepRotating ==
  ASSUME TypeOK, NEW k \in Callers, OthersGoOn(k)
  PROVE  \A j \in Callers \ {k}, p \in Projects : HalfRotates(j, p) <=> HalfRotates(j, p)'
<1>1. \A j \in Callers : calls[j] # None => calls[j] \in Call /\ Marked(calls[j]) # None
  BY MarkedSame, NoneIsNoRow DEF TypeOK
<1> QED BY <1>1, MarkedSame DEF OthersGoOn, HalfRotates, Doing

-----------------------------------------------------------------------------
(* What the writes do to the rows of a project.                             *)

RowsStay == \A a \in Accesses :
  access[a] # None => access'[a] # None /\ access'[a].project = access[a].project

AccessType == access \in [Accesses -> Access \cup RevokedAccess \cup {None}]

LEMMA CurrentRow ==
  ASSUME TypeOK, NEW a \in Accesses, NEW p \in Projects, IsCurrent(a, p)
  PROVE  access[a] \in Access /\ access[a].status = "active" /\ access[a].project = p
BY DEF TypeOK, IsCurrent, Of, Access, RevokedAccess

LEMMA NewRow ==
  ASSUME TypeOK, NEW n \in Accesses, Fresh(n), NEW p \in Projects, NEW cs \in ClientSlugs,
         NEW ps \in Slugs, NEW notice \in {"none", "pending"},
         access' = [access EXCEPT ![n] = Row(p, cs, ps, notice)]
  PROVE  /\ AccessType' /\ RowsStay
         /\ \A a \in Accesses \ {n} : access'[a] = access[a]
         /\ access'[n] = Row(p, cs, ps, notice)
         /\ \A a \in Accesses, q \in Projects :
              /\ Of(a, q)' <=> Of(a, q) \/ (a = n /\ q = p)
              /\ IsCurrent(a, q)' <=> IsCurrent(a, q) \/ (a = n /\ q = p)
<1>1. Row(p, cs, ps, notice) \in Access
  BY DEF Row, Access
<1> QED BY <1>1, NoneIsNoRow DEF TypeOK, Fresh, AccessType, RowsStay, Of, IsCurrent, Row

LEMMA RotatedRow ==
  ASSUME TypeOK, NEW p \in Projects, NEW old \in Accesses, IsCurrent(old, p),
         NEW n \in Accesses, Fresh(n), NEW cs \in ClientSlugs, NEW ps \in Slugs,
         access' = Rotated(old, n, cs, ps)
  PROVE  /\ AccessType' /\ RowsStay
         /\ \A a \in Accesses \ {old, n} : access'[a] = access[a]
         /\ access'[n] = Row(p, cs, ps, "pending")
         /\ \A a \in Accesses, q \in Projects :
              /\ Of(a, q)' <=> Of(a, q) \/ (a = n /\ q = p)
              /\ IsCurrent(a, q)' <=> (IsCurrent(a, q) /\ a # old) \/ (a = n /\ q = p)
<1>1. Row(p, cs, ps, "pending") \in Access
  BY DEF Row, Access
<1>2. access[old].project = p /\ access[old] # None /\ old # n
  BY DEF IsCurrent, Of, Fresh
<1>3. Revoked(old) \in RevokedAccess /\ Revoked(old).project = p /\ Revoked(old).status = "revoked"
  BY <1>2 DEF Revoked, RevokedAccess
<1>4. access' = [access EXCEPT ![old] = Revoked(old), ![n] = Row(p, cs, ps, "pending")]
  BY <1>2 DEF Rotated
<1>5. Row(p, cs, ps, "pending").project = p /\ Row(p, cs, ps, "pending").status # "revoked"
  BY DEF Row
<1> HIDE DEF Row, Revoked
<1> QED BY <1>1, <1>2, <1>3, <1>4, <1>5, NoneIsNoRow DEF TypeOK, Fresh, AccessType, RowsStay, Of, IsCurrent

LEMMA RevokedRow ==
  ASSUME TypeOK, NEW p \in Projects, NEW old \in Accesses, Of(old, p),
         access' = [access EXCEPT ![old] = Revoked(old)]
  PROVE  /\ AccessType' /\ RowsStay
         /\ \A a \in Accesses \ {old} : access'[a] = access[a]
         /\ \A a \in Accesses, q \in Projects :
              /\ Of(a, q)' <=> Of(a, q)
              /\ IsCurrent(a, q)' <=> IsCurrent(a, q) /\ a # old
<1>1. Revoked(old) \in RevokedAccess /\ Revoked(old).project = p /\ Revoked(old).status = "revoked"
  BY DEF Revoked, RevokedAccess, Of
<1> QED BY <1>1, NoneIsNoRow DEF TypeOK, AccessType, RowsStay, Of, IsCurrent

LEMMA ActivatedPublication ==
  ASSUME TypeOK, NEW p \in Projects, NEW r \in Revisions, publication' = Activated(p, r)
  PROVE  /\ publication' \in [Projects -> [Revisions -> PublicationStatus]]
         /\ Published(p)' = {r}
         /\ \A q \in Projects \ {p} : Published(q)' = Published(q)
         /\ \A q \in Projects, s \in Revisions :
              (q # p \/ s # r) /\ publication[q][s] = "compiling" => publication'[q][s] = "compiling"
BY DEF TypeOK, Activated, Published, PublicationStatus

-----------------------------------------------------------------------------
(* Steps that only read: the request remembers, nothing else changes.       *)

LEMMA ReadStep ==
  ASSUME IInv, NEW k \in Callers, NEW c \in Call, calls' = [calls EXCEPT ![k] = c],
         UNCHANGED <<name, client, slug, access, publication, severed, raced>>,
         CallOK(c),
         c.op = "publish" =>
           Publishes(k) /\ calls[k].project = c.project /\ calls[k].revision = c.revision,
         \A p \in Projects : ~HalfRotates(k, p),
         ~(c.op = "rotate" /\ c.pc = "revoked")
  PROVE  IInv'
<1>0. TypeOK /\ CallsOK /\ RevisionsAreDistinct /\ OthersGoOn(k) /\ calls'[k] = c
  BY SetCall DEF IInv
<1>1. TypeOK'
  BY <1>0 DEF TypeOK, OthersGoOn
<1>2. CallsOK'
  <2>1. \A j \in Callers \ {k} : (calls[j] # None => CallOK(calls[j]))'
    BY <1>0, OthersStayOK DEF CallsOK, CallOK, Publishes, Published
  <2>2. CallOK(calls[k])'
    BY <1>0 DEF CallOK, Published, Of
  <2> QED BY <2>1, <2>2 DEF CallsOK
<1>3. RevisionsAreDistinct'
  BY <1>0, OthersStayDistinct DEF Publishes
<1>4. \A p \in Projects : Current(p)' = Current(p) /\ Published(p)' = Published(p)
  BY DEF Current, IsCurrent, Of, Published
<1>5. \A p \in Projects : HalfRotated(p)' <=> HalfRotated(p)
  BY <1>0, OthersKeepRotating DEF HalfRotated, HalfRotates, Doing
<1>6. AddressInv'
  <2>1. OneOfEach'
    BY <1>4 DEF IInv, AddressInv, OneOfEach
  <2>2. Served'
    BY <1>4 DEF IInv, AddressInv, Served
  <2>3. Addressed'
    BY <1>4, <1>5 DEF IInv, AddressInv, Addressed, Of
  <2>4. NoticeUnlessFirst'
    BY <1>4, <1>5 DEF IInv, AddressInv, NoticeUnlessFirst, Of
  <2> QED BY <2>1, <2>2, <2>3, <2>4 DEF AddressInv
<1> QED BY <1>1, <1>2, <1>3, <1>6 DEF IInv

LEMMA ActivateFirstInv == ASSUME IInv, NEW k \in Callers, ActivateFirst(k) PROVE IInv'
<1> DEFINE c == [calls[k] EXCEPT !.pc = "activating",
                   !.clientSlug = slug[client[calls[k].project]], !.overtaken = FALSE]
<1>1. calls[k] \in Publish
  BY Kinds DEF IInv, TypeOK, ActivateFirst, Doing
<1>2. slug[client[calls[k].project]] \in ClientSlugs
  BY <1>1 DEF IInv, TypeOK, ActivateFirst, Publish
<1>3. c \in Publish /\ c.project = calls[k].project /\ c.revision = calls[k].revision
      /\ c.op = "publish" /\ c.clientSlug # None
  BY <1>1, <1>2, NoneIsNoName DEF Publish
<1>4. CallOK(c)
  BY <1>1, <1>3 DEF IInv, CallsOK, CallOK, ActivateFirst, Doing, Publish
<1>5. calls' = [calls EXCEPT ![k] = c]
  BY DEF ActivateFirst
<1>6. c \in Call /\ Publishes(k) /\ \A p \in Projects : ~HalfRotates(k, p)
  BY <1>1, <1>3 DEF Call, Publishes, HalfRotates, Doing, ActivateFirst, Publish
<1> HIDE DEF c
<1> QED BY <1>3, <1>4, <1>5, <1>6, ReadStep DEF ActivateFirst

LEMMA RenameProjectInv ==
  ASSUME IInv, NEW k \in Callers, NEW p \in Projects, NEW n \in Names, RenameProject(k, p, n)
  PROVE  IInv'
<1>1. PICK pc \in {"seeking", "committing"}, cs \in ClientSlugs \cup {None} :
        /\ pc = "seeking" => \E a \in Current(p) : cs = access[a].clientSlug
        /\ calls' = [calls EXCEPT ![k] =
             [op |-> "rename", pc |-> pc, project |-> p, name |-> n, clientSlug |-> cs,
              projectSlug |-> SlugOf[n], target |-> None, overtaken |-> FALSE]]
  BY DEF RenameProject
<1> DEFINE c == [op |-> "rename", pc |-> pc, project |-> p, name |-> n, clientSlug |-> cs,
                 projectSlug |-> SlugOf[n], target |-> None, overtaken |-> FALSE]
<1>2. pc = "seeking" => cs # None
  BY <1>1, CurrentRow, NoneIsNoName DEF Current, IInv, Access
<1>3. c \in Call /\ c.op = "rename" /\ CallOK(c)
  BY <1>2, SlugOfIsAFunction DEF Call, ProjectRename, Slugs, CallOK
<1>4. calls' = [calls EXCEPT ![k] = c] /\ \A q \in Projects : ~HalfRotates(k, q)
  BY <1>1 DEF HalfRotates, Doing, RenameProject
<1> HIDE DEF c
<1> QED BY <1>3, <1>4, ReadStep DEF RenameProject

LEMMA ReadNewClientInv ==
  ASSUME IInv, NEW k \in Callers, NEW p \in Projects, NEW c \in Clients, ReadNewClient(k, p, c)
  PROVE  IInv'
<1> DEFINE d == [op |-> "reassign", pc |-> "resolved", project |-> p, client |-> c,
                 clientSlug |-> slug[c], projectSlug |-> None, target |-> None, overtaken |-> FALSE]
<1>1. d \in Call /\ d.op = "reassign" /\ CallOK(d)
  BY DEF Call, Reassignment, CallOK, IInv, TypeOK
<1>2. calls' = [calls EXCEPT ![k] = d] /\ \A q \in Projects : ~HalfRotates(k, q)
  BY DEF HalfRotates, Doing, ReadNewClient
<1> HIDE DEF d
<1> QED BY <1>1, <1>2, ReadStep DEF ReadNewClient

LEMMA ReassignClientInv == ASSUME IInv, NEW k \in Callers, ReassignClient(k) PROVE IInv'
<1>1. calls[k] \in Reassignment /\ calls[k].op = "reassign" /\ calls[k].pc = "resolved" /\ CallOK(calls[k])
  BY Kinds DEF IInv, TypeOK, ReassignClient, Doing, CallsOK
<1>2. PICK c : /\ calls' = [calls EXCEPT ![k] = c]
               /\ \/ c = [calls[k] EXCEPT !.pc = "committing"]
                  \/ \E a \in Current(calls[k].project) :
                       c = [calls[k] EXCEPT !.pc = "seeking", !.projectSlug = access[a].projectSlug]
  BY DEF ReassignClient
<1>3. c \in Reassignment /\ c.op = "reassign" /\ CallOK(c)
  <2>1. CASE c = [calls[k] EXCEPT !.pc = "committing"]
    BY <1>1, <2>1 DEF Reassignment, CallOK
  <2>2. ASSUME NEW a \in Current(calls[k].project),
               c = [calls[k] EXCEPT !.pc = "seeking", !.projectSlug = access[a].projectSlug]
        PROVE  c \in Reassignment /\ c.op = "reassign" /\ CallOK(c)
    <3>1. access[a].projectSlug \in Slugs /\ access[a].projectSlug # None
      BY <1>1, CurrentRow, NoneIsNoName DEF Current, IInv, Access, Reassignment
    <3> QED BY <1>1, <2>2, <3>1 DEF Reassignment, CallOK
  <2> QED BY <1>2, <2>1, <2>2
<1>4. c \in Call /\ \A q \in Projects : ~HalfRotates(k, q)
  BY <1>1, <1>3 DEF Call, HalfRotates, Doing
<1> QED BY <1>2, <1>3, <1>4, ReadStep DEF ReassignClient

LEMMA SeekInv == ASSUME IInv, NEW k \in Callers, Seek(k) PROVE IInv'
<1>1. /\ calls[k] \in ProjectRename \cup Reassignment
      /\ calls[k].op \in {"rename", "reassign"} /\ calls[k].pc = "seeking" /\ CallOK(calls[k])
  BY Kinds DEF IInv, TypeOK, Seek, Doing, CallsOK
<1>2. PICK a \in Accesses \cup {None} :
        calls' = [calls EXCEPT ![k] = [calls[k] EXCEPT !.pc = "committing", !.target = a]]
  BY DEF Seek
<1> DEFINE c == [calls[k] EXCEPT !.pc = "committing", !.target = a]
<1>3. c \in Call /\ c.op \in {"rename", "reassign"} /\ CallOK(c)
  BY <1>1 DEF Call, ProjectRename, Reassignment, CallOK
<1>4. calls' = [calls EXCEPT ![k] = c] /\ \A q \in Projects : ~HalfRotates(k, q)
  BY <1>1, <1>2 DEF HalfRotates, Doing
<1> HIDE DEF c
<1> QED BY <1>3, <1>4, ReadStep DEF Seek

LEMMA RenameClientInv ==
  ASSUME IInv, NEW k \in Callers, NEW c \in Clients, NEW cs \in ClientSlugs, RenameClient(k, c, cs)
  PROVE  IInv'
<1> DEFINE targets == UNION {Current(p) : p \in ClientsOf(c)}
           d == [op |-> "renameClient", client |-> c, clientSlug |-> cs, targets |-> targets,
                 overtaken |-> FALSE]
<1>1. targets \subseteq Accesses /\ \A a \in targets : access[a] # None
  BY DEF Current, IsCurrent, Of
<1> HIDE DEF targets
<1>2. d \in Call /\ d.op = "renameClient" /\ CallOK(d)
  BY <1>1 DEF Call, ClientRename, CallOK
<1>3. calls' = [calls EXCEPT ![k] = d] /\ \A q \in Projects : ~HalfRotates(k, q)
  BY DEF HalfRotates, Doing, RenameClient, targets
<1> HIDE DEF d
<1> QED BY <1>2, <1>3, ReadStep DEF RenameClient

LEMMA ReadForRotationInv ==
  ASSUME IInv, NEW k \in Callers, NEW p \in Projects, ReadForRotation(k, p) PROVE IInv'
<1>1. PICK a \in Current(p) : calls' = [calls EXCEPT ![k] =
         [op |-> "rotate", pc |-> "resolved", project |-> p, clientSlug |-> access[a].clientSlug,
          projectSlug |-> access[a].projectSlug, target |-> None, overtaken |-> FALSE]]
  BY DEF ReadForRotation
<1> DEFINE c == [op |-> "rotate", pc |-> "resolved", project |-> p, clientSlug |-> access[a].clientSlug,
                 projectSlug |-> access[a].projectSlug, target |-> None, overtaken |-> FALSE]
<1>2. access[a] \in Access /\ access[a].status = "active" /\ access[a].project = p
  BY CurrentRow DEF Current, IInv
<1>3. Published(p) # {}
  BY DEF IInv, AddressInv, Served
<1>4. c \in Call /\ c.op = "rotate" /\ c.pc = "resolved" /\ CallOK(c)
  BY <1>2, <1>3 DEF Call, Rotation, Access, CallOK
<1>5. calls' = [calls EXCEPT ![k] = c] /\ \A q \in Projects : ~HalfRotates(k, q)
  BY <1>1 DEF HalfRotates, Doing, ReadForRotation
<1> HIDE DEF c
<1> QED BY <1>4, <1>5, ReadStep DEF ReadForRotation

LEMMA SelectForRotationInv == ASSUME IInv, NEW k \in Callers, SelectForRotation(k) PROVE IInv'
<1>1. /\ calls[k] \in Rotation /\ calls[k].op = "rotate" /\ calls[k].pc = "resolved"
      /\ CallOK(calls[k])
  BY Kinds DEF IInv, TypeOK, SelectForRotation, Doing, CallsOK
<1>2. PICK a \in Current(calls[k].project) :
        calls' = [calls EXCEPT ![k] = [calls[k] EXCEPT !.pc = "selected", !.target = a]]
  BY DEF SelectForRotation
<1> DEFINE c == [calls[k] EXCEPT !.pc = "selected", !.target = a]
<1>3. c \in Call /\ c.op = "rotate" /\ c.pc = "selected" /\ CallOK(c)
  BY <1>1 DEF Call, Rotation, CallOK, Current, IsCurrent
<1>4. calls' = [calls EXCEPT ![k] = c] /\ \A q \in Projects : ~HalfRotates(k, q)
  BY <1>1, <1>2 DEF HalfRotates, Doing
<1> HIDE DEF c
<1> QED BY <1>3, <1>4, ReadStep DEF SelectForRotation

-----------------------------------------------------------------------------
(* Steps that end a request or move one on, with what they write.           *)

StillTyped ==
  /\ name' \in [Projects -> Names]
  /\ client' \in [Projects -> Clients \cup {None}]
  /\ slug' \in [Clients -> ClientSlugs]
  /\ AccessType'
  /\ publication' \in [Projects -> [Revisions -> PublicationStatus]]
  /\ severed' \in SUBSET Projects
  /\ raced' \in SUBSET Projects

LEMMA TaintTyped ==
  ASSUME TypeOK, NEW k, NEW ps \in SUBSET Projects, Taint(k, ps)
  PROVE  raced' \in SUBSET Projects
BY DEF TypeOK, Taint

LEMMA SameRows ==
  ASSUME TypeOK, UNCHANGED access
  PROVE  AccessType' /\ RowsStay
BY DEF TypeOK, AccessType, RowsStay

(* The last step of request k leaves the other requests right.              *)
LEMMA LastStep ==
  ASSUME IInv, NEW k \in Callers, OthersGoOn(k), calls'[k] = None, StillTyped, RowsStay,
         \A p \in Projects : Published(p) # {} => Published(p)' # {},
         \A j \in Callers \ {k} : Publishes(j) =>
           publication'[calls[j].project][calls[j].revision] = "compiling"
  PROVE  TypeOK' /\ CallsOK' /\ RevisionsAreDistinct'
<1>0. TypeOK /\ CallsOK /\ RevisionsAreDistinct
  BY DEF IInv
<1>1. TypeOK'
  BY DEF TypeOK, StillTyped, AccessType, OthersGoOn
<1>2. CallsOK'
  BY <1>0, OthersStayOK DEF CallsOK, RowsStay
<1>3. RevisionsAreDistinct'
  BY <1>0, OthersStayDistinct DEF Publishes
<1> QED BY <1>1, <1>2, <1>3

LEMMA OthersCompile ==
  ASSUME IInv, NEW k \in Callers, NEW j \in Callers \ {k}, Publishes(j)
  PROVE  /\ calls[j].project \in Projects /\ calls[j].revision \in Revisions
         /\ publication[calls[j].project][calls[j].revision] = "compiling"
         /\ Publishes(k) =>
              calls[j].project # calls[k].project \/ calls[j].revision # calls[k].revision
<1>1. calls[j] \in Publish
  BY Kinds DEF IInv, TypeOK, Publishes
<1> QED BY <1>1 DEF IInv, CallsOK, CallOK, RevisionsAreDistinct, Publishes, Publish

LEMMA StillHalfRotated ==
  ASSUME TypeOK, NEW k \in Callers, OthersGoOn(k), severed' = severed,
         NEW p \in Projects, HalfRotates(k, p) <=> HalfRotates(k, p)'
  PROVE  HalfRotated(p)' <=> HalfRotated(p)
<1>1. \A q \in Projects : HalfRotated(q) <=> q \in severed \/ \E j \in Callers : HalfRotates(j, q)
  BY DEF HalfRotated, HalfRotates
<1>2. HalfRotated(p)' <=> p \in severed' \/ \E j \in Callers : HalfRotates(j, p)'
  BY DEF HalfRotated, HalfRotates
<1> QED BY <1>1, <1>2, OthersKeepRotating

LEMMA ReserveInv == ASSUME IInv, NEW k \in Callers, NEW p \in Projects, Reserve(k, p) PROVE IInv'
<1>0. TypeOK /\ CallsOK /\ RevisionsAreDistinct /\ AddressInv
  BY DEF IInv
<1>1. PICK r \in Revisions :
        /\ Used(p) = 1..(r - 1)
        /\ publication' = [publication EXCEPT ![p][r] = "compiling"]
        /\ calls' = [calls EXCEPT ![k] = [op |-> "publish", pc |-> "compiling", project |-> p,
                       revision |-> r, clientSlug |-> None, overtaken |-> FALSE]]
  BY DEF Reserve
<1> DEFINE c == [op |-> "publish", pc |-> "compiling", project |-> p,
                 revision |-> r, clientSlug |-> None, overtaken |-> FALSE]
<1>2. publication[p][r] = "absent"
  BY <1>1, MaxRevisionIsNatural DEF Used, Revisions
<1>3. /\ publication' \in [Projects -> [Revisions -> PublicationStatus]]
      /\ publication'[p][r] = "compiling"
      /\ \A q \in Projects : Published(q)' = Published(q)
      /\ \A q \in Projects, s \in Revisions :
           (q # p \/ s # r) => publication'[q][s] = publication[q][s]
  BY <1>0, <1>1, <1>2 DEF TypeOK, PublicationStatus, Published
<1>4. c \in Call /\ c.op = "publish" /\ c.pc = "compiling" /\ c.project = p /\ c.revision = r
  BY DEF Call, Publish
<1> HIDE DEF c
<1>5. OthersGoOn(k) /\ calls'[k] = c
  BY <1>0, <1>1, <1>4, SetCall DEF c
<1>6. TypeOK'
  BY <1>0, <1>3, <1>5 DEF TypeOK, OthersGoOn, Reserve
<1>7. \A j \in Callers \ {k} : Publishes(j) =>
        /\ calls[j].project # p \/ calls[j].revision # r
        /\ publication'[calls[j].project][calls[j].revision] = "compiling"
  BY <1>2, <1>3, OthersCompile
<1>8. CallsOK'
  <2>1. RowsStay
    BY <1>0, SameRows DEF Reserve
  <2>2. \A j \in Callers \ {k} : (calls[j] # None => CallOK(calls[j]))'
    BY <1>0, <1>3, <1>5, <1>7, <2>1, OthersStayOK DEF RowsStay
  <2>3. CallOK(calls[k])'
    BY <1>3, <1>4, <1>5 DEF CallOK
  <2> QED BY <2>2, <2>3 DEF CallsOK
<1>9. RevisionsAreDistinct'
  <2>1. \A j \in Callers \ {k} : Publishes(j)' =>
          Publishes(j) /\ calls'[j].project = calls[j].project /\ calls'[j].revision = calls[j].revision
    BY <1>0, <1>5, MarkedSame DEF TypeOK, OthersGoOn, Publishes
  <2> QED BY <1>0, <1>4, <1>5, <1>7, <2>1 DEF RevisionsAreDistinct
<1>10. \A q \in Projects : HalfRotated(q)' <=> HalfRotated(q)
  <2>1. \A q \in Projects : ~HalfRotates(k, q) /\ ~HalfRotates(k, q)'
    BY <1>4, <1>5 DEF HalfRotates, Doing, Reserve
  <2> QED BY <1>0, <1>5, <2>1, StillHalfRotated DEF Reserve
<1>11. AddressInv'
  <2>1. \A q \in Projects : Current(q)' = Current(q)
    BY DEF Current, IsCurrent, Of, Reserve
  <2>2. OneOfEach'
    BY <1>0, <1>3, <2>1 DEF AddressInv, OneOfEach
  <2>3. Served'
    BY <1>0, <1>3, <2>1 DEF AddressInv, Served
  <2>4. Addressed'
    BY <1>0, <1>3, <1>10, <2>1 DEF AddressInv, Addressed, Of, Reserve
  <2>5. NoticeUnlessFirst'
    BY <1>0, <1>10, <2>1 DEF AddressInv, NoticeUnlessFirst, Of, Reserve
  <2> QED BY <2>2, <2>3, <2>4, <2>5 DEF AddressInv
<1> QED BY <1>6, <1>8, <1>9, <1>11 DEF IInv

LEMMA PublishFailedInv == ASSUME IInv, NEW k \in Callers, PublishFailed(k) PROVE IInv'
<1>0. TypeOK /\ CallsOK /\ AddressInv
  BY DEF IInv
<1> DEFINE p == calls[k].project
           r == calls[k].revision
<1>1. calls[k] \in Publish /\ publication[p][r] = "compiling" /\ Publishes(k)
  BY <1>0, Kinds DEF TypeOK, CallsOK, CallOK, PublishFailed, Doing, Publishes
<1>2. p \in Projects /\ r \in Revisions
  BY <1>1 DEF Publish
<1> HIDE DEF p, r
<1>3. publication' = [publication EXCEPT ![p][r] = "failed"]
  BY DEF PublishFailed, p, r
<1>4. /\ publication' \in [Projects -> [Revisions -> PublicationStatus]]
      /\ \A q \in Projects : Published(q)' = Published(q)
      /\ \A q \in Projects, s \in Revisions :
           (q # p \/ s # r) => publication'[q][s] = publication[q][s]
  BY <1>0, <1>1, <1>2, <1>3 DEF TypeOK, PublicationStatus, Published
<1>5. OthersGoOn(k) /\ calls'[k] = None
  BY <1>0, EndedCalls DEF PublishFailed
<1>6. TypeOK' /\ CallsOK' /\ RevisionsAreDistinct'
  <2>1. StillTyped /\ RowsStay
    BY <1>0, <1>4, SameRows DEF StillTyped, TypeOK, PublishFailed
  <2>2. \A j \in Callers \ {k} : Publishes(j) =>
          publication'[calls[j].project][calls[j].revision] = "compiling"
    BY <1>1, <1>4, OthersCompile DEF p, r
  <2> QED BY <1>4, <1>5, <2>1, <2>2, LastStep
<1>7. \A q \in Projects : HalfRotated(q)' <=> HalfRotated(q)
  <2>1. \A q \in Projects : ~HalfRotates(k, q) /\ ~HalfRotates(k, q)'
    BY <1>5 DEF HalfRotates, Doing, PublishFailed
  <2> QED BY <1>0, <1>5, <2>1, StillHalfRotated DEF PublishFailed
<1>8. AddressInv'
  <2>1. \A q \in Projects : Current(q)' = Current(q)
    BY DEF Current, IsCurrent, Of, PublishFailed
  <2>2. OneOfEach'
    BY <1>0, <1>4, <2>1 DEF AddressInv, OneOfEach
  <2>3. Served'
    BY <1>0, <1>4, <2>1 DEF AddressInv, Served
  <2>4. Addressed'
    BY <1>0, <1>4, <1>7, <2>1 DEF AddressInv, Addressed, Of, PublishFailed
  <2>5. NoticeUnlessFirst'
    BY <1>0, <1>7, <2>1 DEF AddressInv, NoticeUnlessFirst, Of, PublishFailed
  <2> QED BY <2>2, <2>3, <2>4, <2>5 DEF AddressInv
<1> QED BY <1>6, <1>8 DEF IInv

-----------------------------------------------------------------------------
(* Activation.                                                              *)

LEMMA ActivateInv == ASSUME IInv, NEW k \in Callers, Activate(k) PROVE IInv'
<1>0. TypeOK /\ CallsOK /\ AddressInv
  BY DEF IInv
<1>1. calls[k] \in Publish /\ Publishes(k)
  BY <1>0, Kinds DEF TypeOK, Activate, Doing, Publishes
<1>2. PICK p \in Projects, r \in Revisions : p = calls[k].project /\ r = calls[k].revision
  BY <1>1 DEF Publish
<1>3. publication' = Activated(p, r) /\ Current(p) # {}
  BY <1>2 DEF Activate, NeedsAccess
<1>4. /\ publication' \in [Projects -> [Revisions -> PublicationStatus]]
      /\ Published(p)' = {r}
      /\ \A q \in Projects \ {p} : Published(q)' = Published(q)
      /\ \A q \in Projects, s \in Revisions :
           (q # p \/ s # r) /\ publication[q][s] = "compiling" => publication'[q][s] = "compiling"
  BY <1>0, <1>3, ActivatedPublication
<1>5. OthersGoOn(k) /\ calls'[k] = None
  BY <1>0, EndedCalls DEF Activate
<1>6. TypeOK' /\ CallsOK' /\ RevisionsAreDistinct'
  <2>1. StillTyped /\ RowsStay
    BY <1>0, <1>4, SameRows DEF StillTyped, TypeOK, Activate
  <2>2. \A j \in Callers \ {k} : Publishes(j) =>
          publication'[calls[j].project][calls[j].revision] = "compiling"
    BY <1>1, <1>2, <1>4, OthersCompile
  <2>3. \A q \in Projects : Published(q) # {} => Published(q)' # {}
    BY <1>4
  <2> QED BY <1>5, <2>1, <2>2, <2>3, LastStep
<1>7. \A q \in Projects : HalfRotated(q)' <=> HalfRotated(q)
  <2>1. \A q \in Projects : ~HalfRotates(k, q) /\ ~HalfRotates(k, q)'
    BY <1>5 DEF HalfRotates, Doing, Activate
  <2> QED BY <1>0, <1>5, <2>1, StillHalfRotated DEF Activate
<1>8. AddressInv'
  <2>1. \A q \in Projects : Current(q)' = Current(q)
    BY DEF Current, IsCurrent, Of, Activate
  <2>2. OneOfEach'
    BY <1>0, <1>4, <2>1 DEF AddressInv, OneOfEach
  <2>3. Served'
    BY <1>0, <1>4, <2>1 DEF AddressInv, Served
  <2>4. Addressed'
    BY <1>0, <1>3, <1>4, <1>7, <2>1 DEF AddressInv, Addressed, Of, Activate
  <2>5. NoticeUnlessFirst'
    BY <1>0, <1>7, <2>1 DEF AddressInv, NoticeUnlessFirst, Of, Activate
  <2> QED BY <2>2, <2>3, <2>4, <2>5 DEF AddressInv
<1> QED BY <1>6, <1>8 DEF IInv

(* A first address shows no notice: by Addressed the project had none       *)
(* before, or a rotation by hand has lost it.                               *)
LEMMA CreateFirstAccessInv ==
  ASSUME IInv, NEW k \in Callers, CreateFirstAccess(k) PROVE IInv'
<1>0. TypeOK /\ CallsOK /\ AddressInv
  BY DEF IInv
<1>1. calls[k] \in Publish /\ Publishes(k) /\ calls[k].clientSlug # None
  BY <1>0, Kinds DEF TypeOK, CallsOK, CallOK, CreateFirstAccess, Doing, Publishes
<1>2. PICK p \in Projects, r \in Revisions, cs \in ClientSlugs, ps \in Slugs :
        /\ p = calls[k].project /\ r = calls[k].revision
        /\ cs = calls[k].clientSlug /\ ps = SlugOf[name[p]]
  BY <1>0, <1>1, SlugOfIsAFunction DEF Publish, TypeOK
<1>3. PICK n \in Accesses : Fresh(n) /\ access' = [access EXCEPT ![n] = Row(p, cs, ps, "none")]
  BY <1>2 DEF CreateFirstAccess
<1>4. publication' = Activated(p, r) /\ Current(p) = {} /\ Taint(k, {p})
  BY <1>2 DEF CreateFirstAccess
<1>5. /\ publication' \in [Projects -> [Revisions -> PublicationStatus]]
      /\ Published(p)' = {r}
      /\ \A q \in Projects \ {p} : Published(q)' = Published(q)
      /\ \A q \in Projects, s \in Revisions :
           (q # p \/ s # r) /\ publication[q][s] = "compiling" => publication'[q][s] = "compiling"
  BY <1>0, <1>4, ActivatedPublication
<1>6. /\ AccessType' /\ RowsStay
      /\ \A a \in Accesses \ {n} : access'[a] = access[a]
      /\ access'[n] = Row(p, cs, ps, "none")
      /\ \A a \in Accesses, q \in Projects :
           /\ Of(a, q)' <=> Of(a, q) \/ (a = n /\ q = p)
           /\ IsCurrent(a, q)' <=> IsCurrent(a, q) \/ (a = n /\ q = p)
  BY <1>0, <1>3, NewRow
<1>7. OthersGoOn(k) /\ calls'[k] = None
  BY <1>0, EndedCalls DEF CreateFirstAccess, End
<1>8. TypeOK' /\ CallsOK' /\ RevisionsAreDistinct'
  <2>1. raced' \in SUBSET Projects
    BY <1>0, <1>4, TaintTyped
  <2>2. StillTyped
    BY <1>0, <1>5, <1>6, <2>1 DEF StillTyped, TypeOK, CreateFirstAccess
  <2>3. \A j \in Callers \ {k} : Publishes(j) =>
          publication'[calls[j].project][calls[j].revision] = "compiling"
    BY <1>1, <1>2, <1>5, OthersCompile
  <2>4. \A q \in Projects : Published(q) # {} => Published(q)' # {}
    BY <1>5
  <2> QED BY <1>6, <1>7, <2>2, <2>3, <2>4, LastStep
<1>9. \A q \in Projects : HalfRotated(q)' <=> HalfRotated(q)
  <2>1. \A q \in Projects : ~HalfRotates(k, q) /\ ~HalfRotates(k, q)'
    BY <1>7 DEF HalfRotates, Doing, CreateFirstAccess
  <2> QED BY <1>0, <1>7, <2>1, StillHalfRotated DEF CreateFirstAccess
<1>10. AddressInv'
  <2>1. Current(p)' = {n} /\ \A q \in Projects \ {p} : Current(q)' = Current(q)
    BY <1>4, <1>6 DEF Current
  <2>2. OneOfEach'
    BY <1>0, <1>5, <2>1 DEF AddressInv, OneOfEach
  <2>3. Served'
    BY <1>0, <1>5, <2>1 DEF AddressInv, Served
  <2>4. Addressed'
    BY <1>0, <1>5, <1>6, <1>9, <2>1 DEF AddressInv, Addressed
  <2>5. NoticeUnlessFirst'
    <3> SUFFICES ASSUME NEW q \in Projects, NEW a \in Current(q)', access'[a].notice = "none"
                 PROVE  (\A b \in Accesses : Of(b, q)' => a = b) \/ HalfRotated(q)'
      BY DEF NoticeUnlessFirst
    <3>1. CASE q = p
      BY <1>0, <1>4, <1>6, <1>9, <2>1, <3>1 DEF AddressInv, Addressed
    <3>2. CASE q # p
      <4>1. a \in Current(q) /\ a # n /\ a \in Accesses
        BY <1>3, <2>1, <3>2 DEF Current, IsCurrent, Of, Fresh
      <4> QED BY <1>0, <1>6, <1>9, <3>2, <4>1 DEF AddressInv, NoticeUnlessFirst
    <3> QED BY <3>1, <3>2
  <2> QED BY <2>2, <2>3, <2>4, <2>5 DEF AddressInv
<1> QED BY <1>8, <1>10 DEF IInv

-----------------------------------------------------------------------------
(* The rotation that a rename or a reassignment brings.                     *)

LEMMA CommitChangeInv == ASSUME IInv, NEW k \in Callers, CommitChange(k) PROVE IInv'
<1>0. TypeOK /\ CallsOK /\ AddressInv
  BY DEF IInv
<1>1. calls[k] \in ProjectRename \cup Reassignment /\ CallOK(calls[k])
  BY <1>0, Kinds DEF TypeOK, CallsOK, CommitChange, Doing
<1>2. PICK p \in Projects : p = calls[k].project
  BY <1>1 DEF ProjectRename, Reassignment
<1>2a. PICK cs, ps, old :
         cs = calls[k].clientSlug /\ ps = calls[k].projectSlug /\ old = calls[k].target
  OBVIOUS
<1>3. old \in Current(p) => cs \in ClientSlugs /\ ps \in Slugs /\ IsCurrent(old, p) /\ old \in Accesses
  BY <1>1, <1>2, <1>2a, NoneIsNoName DEF ProjectRename, Reassignment, CallOK, Current
<1>4. name' \in [Projects -> Names] /\ client' \in [Projects -> Clients \cup {None}]
  <2>1. CASE calls[k] \in ProjectRename
    BY <1>0, <2>1 DEF CommitChange, TypeOK, ProjectRename
  <2>2. CASE calls[k] \in Reassignment
    BY <1>0, <2>2 DEF CommitChange, TypeOK, Reassignment
  <2> QED BY <1>1, <2>1, <2>2
<1>5. Taint(k, {p}) /\ OthersGoOn(k) /\ calls'[k] = None
  BY <1>0, <1>2, <1>2a, EndedCalls DEF CommitChange, End
<1>6. \/ UNCHANGED access
      \/ old \in Current(p) /\ \E n \in Accesses : Fresh(n) /\ access' = Rotated(old, n, cs, ps)
  BY <1>2, <1>2a DEF CommitChange
<1>7. AccessType' /\ RowsStay
  BY <1>0, <1>2, <1>2a, <1>3, <1>6, RotatedRow, SameRows
<1>8. TypeOK' /\ CallsOK' /\ RevisionsAreDistinct'
  <2>1. raced' \in SUBSET Projects
    BY <1>0, <1>2, <1>2a, <1>5, TaintTyped
  <2>2. StillTyped
    BY <1>0, <1>4, <1>7, <2>1 DEF StillTyped, TypeOK, CommitChange
  <2>3. \A j \in Callers \ {k} : Publishes(j) =>
          publication'[calls[j].project][calls[j].revision] = "compiling"
    BY OthersCompile DEF CommitChange
  <2>4. \A q \in Projects : Published(q) # {} => Published(q)' # {}
    BY DEF Published, CommitChange
  <2> QED BY <1>5, <1>7, <2>2, <2>3, <2>4, LastStep
<1>9. \A q \in Projects : (HalfRotated(q)' <=> HalfRotated(q)) /\ Published(q)' = Published(q)
  <2>1. \A q \in Projects : ~HalfRotates(k, q) /\ ~HalfRotates(k, q)'
    BY <1>5 DEF HalfRotates, Doing, CommitChange
  <2> QED BY <1>0, <1>5, <2>1, StillHalfRotated DEF CommitChange, Published
<1>10. CASE UNCHANGED access
  <2>1. \A q \in Projects : Current(q)' = Current(q)
    BY <1>10 DEF Current, IsCurrent, Of
  <2>2. OneOfEach'
    BY <1>0, <1>9, <2>1 DEF AddressInv, OneOfEach
  <2>3. Served'
    BY <1>0, <1>9, <2>1 DEF AddressInv, Served
  <2>4. Addressed'
    BY <1>0, <1>9, <1>10, <2>1 DEF AddressInv, Addressed, Of
  <2>5. NoticeUnlessFirst'
    BY <1>0, <1>9, <1>10, <2>1 DEF AddressInv, NoticeUnlessFirst, Of
  <2> QED BY <1>8, <2>2, <2>3, <2>4, <2>5 DEF AddressInv, IInv
<1>11. ASSUME old \in Current(p), NEW n \in Accesses, Fresh(n), access' = Rotated(old, n, cs, ps)
       PROVE  AddressInv'
  <2>0. /\ \A a \in Accesses \ {old, n} : access'[a] = access[a]
        /\ access'[n] = Row(p, cs, ps, "pending")
        /\ \A a \in Accesses, q \in Projects :
             /\ Of(a, q)' <=> Of(a, q) \/ (a = n /\ q = p)
             /\ IsCurrent(a, q)' <=> (IsCurrent(a, q) /\ a # old) \/ (a = n /\ q = p)
    BY <1>0, <1>2, <1>2a, <1>3, <1>11, RotatedRow
  <2>1. Current(p)' = {n} /\ \A q \in Projects \ {p} : Current(q)' = Current(q)
    <3>1. \A a \in Accesses : IsCurrent(a, p) => a = old
      BY <1>0, <1>2, <1>2a, <1>11 DEF AddressInv, OneOfEach, Current
    <3>2. \A q \in Projects \ {p} : ~IsCurrent(old, q)
      BY <1>3, <1>11 DEF IsCurrent, Of
    <3> QED BY <1>2, <1>2a, <2>0, <3>1, <3>2 DEF Current
  <2>2. OneOfEach'
    BY <1>0, <1>9, <2>1 DEF AddressInv, OneOfEach
  <2>3. Served'
    BY <1>0, <1>9, <1>11, <2>1 DEF AddressInv, Served
  <2>4. Addressed'
    BY <1>0, <1>9, <2>0, <2>1 DEF AddressInv, Addressed
  <2>5. NoticeUnlessFirst'
    <3> SUFFICES ASSUME NEW q \in Projects, NEW a \in Current(q)', access'[a].notice = "none"
                 PROVE  (\A b \in Accesses : Of(b, q)' => a = b) \/ HalfRotated(q)'
      BY DEF NoticeUnlessFirst
    <3>1. q # p
      BY <2>0, <2>1 DEF Row
    <3>2. a \in Current(q) /\ a # n /\ a # old /\ a \in Accesses
      BY <1>3, <1>11, <2>1, <3>1 DEF Current, IsCurrent, Of, Fresh
    <3> QED BY <1>0, <1>9, <2>0, <3>1, <3>2 DEF AddressInv, NoticeUnlessFirst
  <2> QED BY <2>2, <2>3, <2>4, <2>5 DEF AddressInv
<1> QED BY <1>6, <1>8, <1>10, <1>11 DEF IInv

(* Many rows rotate at once: each of them gets a row of its own.            *)
RotateInto(S, new, cs) ==
  /\ \A a \in S : Fresh(new[a])
  /\ \A a, b \in S : new[a] = new[b] => a = b
  /\ access' = [a \in Accesses |->
       IF a \in S THEN Revoked(a)
       ELSE IF \E old \in S : new[old] = a
       THEN LET old == CHOOSE old \in S : new[old] = a
            IN  Row(access[old].project, cs, access[old].projectSlug, "pending")
       ELSE access[a]]

RowsRotated(S, new, cs) ==
  /\ \A a \in Accesses \ S : (\A b \in S : new[b] # a) => access'[a] = access[a]
  /\ \A b \in S : /\ access'[new[b]].notice = "pending" /\ access'[new[b]].clientSlug = cs
                   /\ access'[new[b]].projectSlug = access[b].projectSlug
  /\ \A a \in Accesses, q \in Projects :
       /\ Of(a, q)' <=> Of(a, q) \/ \E b \in S : new[b] = a /\ Of(b, q)
       /\ IsCurrent(a, q)' <=>
            (IsCurrent(a, q) /\ a \notin S) \/ \E b \in S : new[b] = a /\ IsCurrent(b, q)

LEMMA RotatedRows ==
  ASSUME TypeOK, NEW S, S \subseteq Accesses, NEW cs \in ClientSlugs,
         \A a \in S : access[a] # None /\ access[a].status # "revoked",
         NEW new \in [S -> Accesses], RotateInto(S, new, cs)
  PROVE  AccessType' /\ RowsStay /\ RowsRotated(S, new, cs)
<1>1. \A a \in S : access[a] \in Access /\ IsCurrent(a, access[a].project)
  BY DEF TypeOK, RevokedAccess, IsCurrent, Of
<1>2. \A b \in S : new[b] \in Accesses \ S /\ access[new[b]] = None
  BY DEF RotateInto, Fresh
<1>3. \A b \in S : (CHOOSE old \in S : new[old] = new[b]) = b
  BY DEF RotateInto
<1>4. \A b \in S : access'[new[b]] = Row(access[b].project, cs, access[b].projectSlug, "pending")
  BY <1>2, <1>3 DEF RotateInto
<1>5. \A a \in S : access'[a] = Revoked(a)
  BY DEF RotateInto
<1>6. \A a \in Accesses \ S : (\A b \in S : new[b] # a) => access'[a] = access[a]
  BY DEF RotateInto
<1>7. \A a \in S : /\ Revoked(a) \in RevokedAccess /\ Revoked(a).project = access[a].project
                   /\ Revoked(a).status = "revoked"
  BY <1>1 DEF Revoked, RevokedAccess, Access
<1>8. \A b \in S : LET row == Row(access[b].project, cs, access[b].projectSlug, "pending")
                   IN  /\ row \in Access /\ row.project = access[b].project
                       /\ row.status # "revoked" /\ row.notice = "pending"
                       /\ row.clientSlug = cs /\ row.projectSlug = access[b].projectSlug
  BY <1>1 DEF Row, Access
<1> HIDE DEF Row, Revoked
<1>9. AccessType'
  <2>0. access' = [a \in Accesses |-> access'[a]]
    BY DEF RotateInto
  <2>1. \A a \in Accesses : access'[a] \in Access \cup RevokedAccess \cup {None}
    BY <1>4, <1>5, <1>6, <1>7, <1>8 DEF TypeOK
  <2> QED BY <2>0, <2>1 DEF AccessType
<1>10. RowsStay
  BY <1>2, <1>5, <1>6, <1>7, NoneIsNoRow DEF RowsStay
<1>11. \A a \in Accesses, q \in Projects :
         /\ Of(a, q)' <=> Of(a, q) \/ \E b \in S : new[b] = a /\ Of(b, q)
         /\ IsCurrent(a, q)' <=>
              (IsCurrent(a, q) /\ a \notin S) \/ \E b \in S : new[b] = a /\ IsCurrent(b, q)
  <2> TAKE a \in Accesses, q \in Projects
  <2>1. CASE a \in S
    BY <1>2, <1>5, <1>7, <2>1, NoneIsNoRow DEF Of, IsCurrent
  <2>2. CASE \E b \in S : new[b] = a
    <3>1. PICK b \in S : new[b] = a
      BY <2>2
    <3>2. access'[a] \in Access /\ access'[a].project = access[b].project
          /\ access'[a].status # "revoked" /\ access[a] = None /\ \A d \in S : new[d] = a => d = b
      BY <1>2, <1>4, <1>8, <3>1 DEF RotateInto
    <3> QED BY <3>1, <3>2, NoneIsNoRow DEF Of, IsCurrent
  <2>3. CASE a \notin S /\ \A b \in S : new[b] # a
    BY <1>6, <2>3 DEF Of, IsCurrent
  <2> QED BY <2>1, <2>2, <2>3
<1> QED BY <1>4, <1>6, <1>8, <1>9, <1>10, <1>11 DEF RowsRotated

LEMMA CommitClientRenameInv ==
  ASSUME IInv, NEW k \in Callers, CommitClientRename(k) PROVE IInv'
<1>0. TypeOK /\ CallsOK /\ AddressInv
  BY DEF IInv
<1>1. calls[k] \in ClientRename
  BY <1>0, Kinds DEF TypeOK, CommitClientRename
<1>2. PICK S \in SUBSET Accesses, cs \in ClientSlugs, c \in Clients :
        S = Affected(k) /\ cs = calls[k].clientSlug /\ c = calls[k].client
  BY <1>1 DEF ClientRename, Affected
<1>3. \A a \in S : access[a] # None /\ access[a].status # "revoked"
  BY <1>2 DEF Affected
<1>4. PICK new \in [S -> Accesses] : RotateInto(S, new, cs)
  BY <1>2 DEF CommitClientRename, RotateInto
<1>5. AccessType' /\ RowsStay /\ RowsRotated(S, new, cs)
  BY <1>0, <1>3, <1>4, RotatedRows
<1>6. OthersGoOn(k) /\ calls'[k] = None
  BY <1>0, EndedCalls DEF CommitClientRename, End
<1>7. TypeOK' /\ CallsOK' /\ RevisionsAreDistinct'
  <2>1. raced' \in SUBSET Projects
    BY <1>0, TaintTyped DEF CommitClientRename, ClientsOf
  <2>2. slug' \in [Clients -> ClientSlugs]
    BY <1>0, <1>2 DEF CommitClientRename, TypeOK
  <2>3. StillTyped
    BY <1>0, <1>5, <2>1, <2>2 DEF StillTyped, TypeOK, CommitClientRename
  <2>4. \A j \in Callers \ {k} : Publishes(j) =>
          publication'[calls[j].project][calls[j].revision] = "compiling"
    BY OthersCompile DEF CommitClientRename
  <2>5. \A q \in Projects : Published(q) # {} => Published(q)' # {}
    BY DEF Published, CommitClientRename
  <2> QED BY <1>5, <1>6, <2>3, <2>4, <2>5, LastStep
<1>8. \A q \in Projects : (HalfRotated(q)' <=> HalfRotated(q)) /\ Published(q)' = Published(q)
  <2>1. \A q \in Projects : ~HalfRotates(k, q) /\ ~HalfRotates(k, q)'
    BY <1>6 DEF HalfRotates, Doing, CommitClientRename
  <2> QED BY <1>0, <1>6, <2>1, StillHalfRotated DEF CommitClientRename, Published
<1>9. AddressInv'
  <2>1. \A q \in Projects : Current(q)' # {} <=> Current(q) # {}
    <3> TAKE q \in Projects
    <3>1. ASSUME NEW a \in Current(q) PROVE Current(q)' # {}
      <4>1. CASE a \in S
        <5>1. new[a] \in Accesses /\ IsCurrent(new[a], q)'
          BY <1>5, <3>1, <4>1 DEF Current, RowsRotated
        <5> QED BY <5>1 DEF Current
      <4>2. CASE a \notin S
        BY <1>5, <3>1, <4>2 DEF Current, RowsRotated
      <4> QED BY <4>1, <4>2
    <3>2. ASSUME NEW a \in Current(q)' PROVE Current(q) # {}
      BY <1>5, <3>2 DEF Current, RowsRotated
    <3> QED BY <3>1, <3>2
  <2>2. OneOfEach'
    <3>1. \A q \in Projects : \A a, b \in Accesses : IsCurrent(a, q) /\ IsCurrent(b, q) => a = b
      BY <1>0 DEF AddressInv, OneOfEach, Current
    <3>2. \A q \in Projects : \A a, b \in Current(q)' : a = b
      BY <1>5, <3>1 DEF Current, RowsRotated
    <3> QED BY <1>0, <1>8, <3>2 DEF AddressInv, OneOfEach
  <2>3. Served'
    BY <1>0, <1>8, <2>1 DEF AddressInv, Served
  <2>4. Addressed'
    BY <1>0, <1>5, <1>8, <2>1 DEF AddressInv, Addressed, RowsRotated
  <2>5. NoticeUnlessFirst'
    <3> SUFFICES ASSUME NEW q \in Projects, NEW a \in Current(q)', access'[a].notice = "none"
                 PROVE  (\A b \in Accesses : Of(b, q)' => a = b) \/ HalfRotated(q)'
      BY DEF NoticeUnlessFirst
    <3>1. a \in Accesses /\ IsCurrent(a, q)'
      BY DEF Current
    <3>2. \A b \in S : new[b] # a
      BY <1>5 DEF RowsRotated
    <3>3. IsCurrent(a, q) /\ a \notin S /\ access'[a] = access[a]
      BY <1>5, <3>1, <3>2 DEF RowsRotated
    <3>4. \A b \in S : ~Of(b, q)
      BY <1>0, <1>3, <3>1, <3>3 DEF AddressInv, OneOfEach, Current, IsCurrent
    <3> QED BY <1>0, <1>5, <1>8, <3>1, <3>3, <3>4 DEF AddressInv, NoticeUnlessFirst, Current, RowsRotated
  <2> QED BY <2>2, <2>3, <2>4, <2>5 DEF AddressInv
<1> QED BY <1>7, <1>9 DEF IInv

-----------------------------------------------------------------------------
(* The rotation by hand, an abort, an acknowledgement.                      *)

(* Between its two statements the project counts as half rotated.           *)
LEMMA RevokeByHandInv == ASSUME IInv, NEW k \in Callers, RevokeByHand(k) PROVE IInv'
<1>0. TypeOK /\ CallsOK /\ RevisionsAreDistinct /\ AddressInv
  BY DEF IInv
<1>1. /\ calls[k] \in Rotation /\ calls[k] \in Call /\ calls[k].op = "rotate"
      /\ calls[k].pc = "selected" /\ CallOK(calls[k])
  BY <1>0, Kinds DEF TypeOK, CallsOK, RevokeByHand, Doing
<1>2. PICK p \in Projects, old \in Accesses :
        p = calls[k].project /\ old = calls[k].target /\ Of(old, p) /\ Published(p) # {}
  BY <1>1 DEF Rotation, CallOK
<1>3. access' = [access EXCEPT ![old] = Revoked(old)]
  BY <1>2 DEF RevokeByHand
<1>4. /\ AccessType' /\ RowsStay
      /\ \A a \in Accesses \ {old} : access'[a] = access[a]
      /\ \A a \in Accesses, q \in Projects :
           /\ Of(a, q)' <=> Of(a, q)
           /\ IsCurrent(a, q)' <=> IsCurrent(a, q) /\ a # old
  <2>1. TypeOK /\ Of(old, p)
    BY <1>0, <1>2
  <2> QED BY <1>3, <2>1, RevokedRow
<1>5. PICK c \in Call : /\ calls'[k] = c /\ c.op = "rotate" /\ c.pc = "revoked"
                        /\ c.project = p /\ c.target = old
  <2>1. [calls[k] EXCEPT !.pc = "revoked"] \in Rotation
    BY <1>1 DEF Rotation
  <2>2. calls'[k] = [calls[k] EXCEPT !.pc = "revoked"]
    BY DEF RevokeByHand
  <2> QED BY <1>1, <1>2, <2>1, <2>2 DEF Call, Rotation
<1>6. OthersGoOn(k)
  <2>1. \A j \in Callers : calls[j] # None => Marked(calls[j]) \in Call
    BY <1>0, MarkedSame DEF TypeOK
  <2>2. \A j \in Callers \ {k} : calls'[j] = calls[j] \/ (calls[j] # None /\ calls'[j] = Marked(calls[j]))
    BY DEF RevokeByHand, Ended, Marked
  <2>3. \A j \in Callers : calls'[j] \in Call \cup {None}
    BY <1>0, <1>5, <2>1, <2>2 DEF TypeOK
  <2>4. calls' = [j \in Callers |-> calls'[j]]
    BY DEF RevokeByHand
  <2>5. calls' \in [Callers -> Call \cup {None}]
    BY <2>3, <2>4
  <2> QED BY <2>2, <2>5 DEF OthersGoOn
<1>7. TypeOK'
  BY <1>0, <1>4, <1>6 DEF TypeOK, AccessType, OthersGoOn, RevokeByHand
<1>8. \A q \in Projects : Published(q)' = Published(q)
  BY DEF Published, RevokeByHand
<1>9. CallsOK'
  <2>1. \A j \in Callers \ {k} : Publishes(j) =>
          publication'[calls[j].project][calls[j].revision] = "compiling"
    BY OthersCompile DEF RevokeByHand
  <2>2. \A j \in Callers \ {k} : (calls[j] # None => CallOK(calls[j]))'
    BY <1>0, <1>4, <1>6, <1>8, <2>1, OthersStayOK DEF RowsStay
  <2>3. CallOK(calls[k])'
    BY <1>2, <1>4, <1>5, <1>8 DEF CallOK
  <2> QED BY <2>2, <2>3 DEF CallsOK
<1>10. RevisionsAreDistinct'
  BY <1>0, <1>5, <1>6, OthersStayDistinct DEF Publishes
<1>11. HalfRotated(p)' /\ \A q \in Projects \ {p} : HalfRotated(q)' <=> HalfRotated(q)
  <2>1. \A q \in Projects : ~HalfRotates(k, q)
    BY <1>1 DEF HalfRotates, Doing
  <2>2. \A q \in Projects : HalfRotates(k, q)' <=> q = p
    BY <1>5, NoneIsNoRow DEF HalfRotates, Doing
  <2>3. HalfRotated(p)'
    BY <2>2 DEF HalfRotated, HalfRotates
  <2> QED BY <1>0, <1>6, <2>1, <2>2, <2>3, StillHalfRotated DEF RevokeByHand
<1>12. AddressInv'
  <2>1. Current(p)' \subseteq Current(p) /\ \A q \in Projects \ {p} : Current(q)' = Current(q)
    BY <1>2, <1>4 DEF Current, IsCurrent, Of
  <2>2. OneOfEach'
    BY <1>0, <1>8, <2>1 DEF AddressInv, OneOfEach
  <2>3. Served'
    BY <1>0, <1>8, <2>1 DEF AddressInv, Served
  <2>4. Addressed'
    BY <1>0, <1>4, <1>8, <1>11, <2>1 DEF AddressInv, Addressed
  <2>5. NoticeUnlessFirst'
    <3> SUFFICES ASSUME NEW q \in Projects \ {p}, NEW a \in Current(q)', access'[a].notice = "none"
                 PROVE  (\A b \in Accesses : Of(b, q)' => a = b) \/ HalfRotated(q)'
      BY <1>11 DEF NoticeUnlessFirst
    <3>1. a \in Current(q) /\ a \in Accesses /\ a # old
      BY <1>4, <2>1 DEF Current
    <3> QED BY <1>0, <1>4, <1>11, <3>1 DEF AddressInv, NoticeUnlessFirst
  <2> QED BY <2>2, <2>3, <2>4, <2>5 DEF AddressInv
<1> QED BY <1>7, <1>9, <1>10, <1>12 DEF IInv

LEMMA InsertByHandInv == ASSUME IInv, NEW k \in Callers, InsertByHand(k) PROVE IInv'
<1>0. TypeOK /\ CallsOK /\ AddressInv
  BY DEF IInv
<1>1. calls[k] \in Rotation /\ calls[k].op = "rotate" /\ calls[k].pc = "revoked" /\ CallOK(calls[k])
  BY <1>0, Kinds DEF TypeOK, CallsOK, InsertByHand, Doing
<1>2. PICK p \in Projects, cs \in ClientSlugs, ps \in Slugs :
        /\ p = calls[k].project /\ cs = calls[k].clientSlug /\ ps = calls[k].projectSlug
        /\ Published(p) # {}
  BY <1>1 DEF Rotation, CallOK
<1>3. PICK n \in Accesses : Fresh(n) /\ access' = [access EXCEPT ![n] = Row(p, cs, ps, "pending")]
  BY <1>2 DEF InsertByHand
<1>4. Current(p) = {} /\ Taint(k, {p})
  BY <1>2 DEF InsertByHand
<1>5. /\ AccessType' /\ RowsStay
      /\ \A a \in Accesses \ {n} : access'[a] = access[a]
      /\ access'[n] = Row(p, cs, ps, "pending")
      /\ \A a \in Accesses, q \in Projects :
           /\ Of(a, q)' <=> Of(a, q) \/ (a = n /\ q = p)
           /\ IsCurrent(a, q)' <=> IsCurrent(a, q) \/ (a = n /\ q = p)
  BY <1>0, <1>3, NewRow
<1>6. OthersGoOn(k) /\ calls'[k] = None
  BY <1>0, EndedCalls DEF InsertByHand, End
<1>7. \A q \in Projects : Published(q)' = Published(q)
  BY DEF Published, InsertByHand
<1>8. TypeOK' /\ CallsOK' /\ RevisionsAreDistinct'
  <2>1. raced' \in SUBSET Projects
    BY <1>0, <1>4, TaintTyped
  <2>2. StillTyped
    BY <1>0, <1>5, <2>1 DEF StillTyped, TypeOK, InsertByHand
  <2>3. \A j \in Callers \ {k} : Publishes(j) =>
          publication'[calls[j].project][calls[j].revision] = "compiling"
    BY OthersCompile DEF InsertByHand
  <2> QED BY <1>5, <1>6, <1>7, <2>2, <2>3, LastStep
<1>9. \A q \in Projects \ {p} : HalfRotated(q)' <=> HalfRotated(q)
  <2>1. \A q \in Projects \ {p} : ~HalfRotates(k, q) /\ ~HalfRotates(k, q)'
    BY <1>2, <1>6 DEF HalfRotates, Doing
  <2> QED BY <1>0, <1>6, <2>1, StillHalfRotated DEF InsertByHand
<1>10. AddressInv'
  <2>1. Current(p)' = {n} /\ \A q \in Projects \ {p} : Current(q)' = Current(q)
    BY <1>4, <1>5 DEF Current
  <2>2. OneOfEach'
    BY <1>0, <1>7, <2>1 DEF AddressInv, OneOfEach
  <2>3. Served'
    BY <1>0, <1>2, <1>7, <2>1 DEF AddressInv, Served
  <2>4. Addressed'
    BY <1>0, <1>5, <1>7, <1>9, <2>1 DEF AddressInv, Addressed
  <2>5. NoticeUnlessFirst'
    <3> SUFFICES ASSUME NEW q \in Projects, NEW a \in Current(q)', access'[a].notice = "none"
                 PROVE  (\A b \in Accesses : Of(b, q)' => a = b) \/ HalfRotated(q)'
      BY DEF NoticeUnlessFirst
    <3>1. q # p
      BY <1>5, <2>1 DEF Row
    <3>2. a \in Current(q) /\ a # n /\ a \in Accesses
      BY <1>3, <2>1, <3>1 DEF Current, IsCurrent, Of, Fresh
    <3> QED BY <1>0, <1>5, <1>9, <3>1, <3>2 DEF AddressInv, NoticeUnlessFirst
  <2> QED BY <2>2, <2>3, <2>4, <2>5 DEF AddressInv
<1> QED BY <1>8, <1>10 DEF IInv

(* A rotation that stops half-way leaves its project half rotated for good. *)
LEMMA AbortInv == ASSUME IInv, NEW k \in Callers, Abort(k) PROVE IInv'
<1>0. TypeOK /\ CallsOK /\ AddressInv
  BY DEF IInv
<1>1. OthersGoOn(k) /\ calls'[k] = None
  BY <1>0, EndedCalls DEF Abort
<1>2. severed' \in SUBSET Projects
  BY <1>0, Kinds DEF TypeOK, Abort, Doing, Rotation
<1>3. \A q \in Projects : Published(q)' = Published(q) /\ Current(q)' = Current(q)
  BY DEF Published, Current, IsCurrent, Of, Abort
<1>4. TypeOK' /\ CallsOK' /\ RevisionsAreDistinct'
  <2>1. StillTyped /\ RowsStay
    BY <1>0, <1>2, SameRows DEF StillTyped, TypeOK, Abort
  <2>2. \A j \in Callers \ {k} : Publishes(j) =>
          publication'[calls[j].project][calls[j].revision] = "compiling"
    BY OthersCompile DEF Abort
  <2> QED BY <1>1, <1>3, <2>1, <2>2, LastStep
<1>5. \A q \in Projects : HalfRotated(q) => HalfRotated(q)'
  <2> TAKE q \in Projects
  <2>1. HalfRotated(q) <=> q \in severed \/ \E j \in Callers : HalfRotates(j, q)
    BY DEF HalfRotated, HalfRotates
  <2>2. HalfRotated(q)' <=> q \in severed' \/ \E j \in Callers : HalfRotates(j, q)'
    BY DEF HalfRotated, HalfRotates
  <2>3. HalfRotates(k, q) => q \in severed'
    BY <1>0 DEF TypeOK, Abort, HalfRotates
  <2>4. q \in severed => q \in severed'
    BY DEF Abort
  <2> QED BY <1>0, <1>1, <2>1, <2>2, <2>3, <2>4, OthersKeepRotating
<1>6. AddressInv'
  <2>1. OneOfEach'
    BY <1>0, <1>3 DEF AddressInv, OneOfEach
  <2>2. Served'
    BY <1>0, <1>3 DEF AddressInv, Served
  <2>3. Addressed'
    BY <1>0, <1>3, <1>5 DEF AddressInv, Addressed, Of, Abort
  <2>4. NoticeUnlessFirst'
    BY <1>0, <1>3, <1>5 DEF AddressInv, NoticeUnlessFirst, Of, Abort
  <2> QED BY <2>1, <2>2, <2>3, <2>4 DEF AddressInv
<1> QED BY <1>4, <1>6 DEF IInv

LEMMA AcknowledgeInv == ASSUME IInv, NEW p \in Projects, Acknowledge(p) PROVE IInv'
<1>0. TypeOK /\ CallsOK /\ RevisionsAreDistinct /\ AddressInv
  BY DEF IInv
<1>1. PICK n \in Accesses : /\ IsCurrent(n, p) /\ access[n].notice = "pending"
                            /\ access' = [access EXCEPT ![n].notice = "acknowledged"]
  BY DEF Acknowledge, Current
<1>2. access[n] \in Access /\ access[n].project = p
  BY <1>0, <1>1, CurrentRow
<1>3. /\ access'[n] \in Access /\ access'[n].project = p /\ access'[n].status = access[n].status
      /\ access'[n].notice = "acknowledged"
      /\ \A a \in Accesses \ {n} : access'[a] = access[a]
  BY <1>0, <1>1, <1>2 DEF TypeOK, Access
<1>4. AccessType' /\ RowsStay
  BY <1>0, <1>1, <1>2, <1>3, NoneIsNoRow DEF TypeOK, AccessType, RowsStay
<1>5. \A a \in Accesses, q \in Projects :
        (Of(a, q)' <=> Of(a, q)) /\ (IsCurrent(a, q)' <=> IsCurrent(a, q))
  BY <1>2, <1>3, NoneIsNoRow DEF Of, IsCurrent
<1>6. \A q \in Projects : /\ Published(q)' = Published(q) /\ Current(q)' = Current(q)
                          /\ HalfRotated(q)' <=> HalfRotated(q)
  BY <1>5 DEF Published, Current, HalfRotated, Doing, Acknowledge
<1>7. TypeOK'
  BY <1>0, <1>4 DEF TypeOK, AccessType, Acknowledge
<1>8. CallsOK'
  <2> SUFFICES ASSUME NEW k \in Callers, calls[k] # None PROVE CallOK(calls[k])'
    BY DEF CallsOK, Acknowledge
  <2>1. calls[k] \in Call /\ CallOK(calls[k]) /\ calls'[k] = calls[k] /\ publication' = publication
    BY <1>0 DEF TypeOK, CallsOK, Acknowledge
  <2>2. CASE calls[k] \in Rotation
    BY <1>5, <1>6, <2>1, <2>2 DEF CallOK, Rotation
  <2>3. CASE calls[k] \in ClientRename
    BY <1>4, <2>1, <2>3 DEF CallOK, ClientRename, RowsStay
  <2>4. CASE calls[k] \in Publish \cup ProjectRename \cup Reassignment
    BY <2>1, <2>4 DEF CallOK, Publish, ProjectRename, Reassignment
  <2> QED BY <2>1, <2>2, <2>3, <2>4 DEF Call
<1>9. RevisionsAreDistinct'
  BY <1>0 DEF RevisionsAreDistinct, Publishes, Acknowledge
<1>10. AddressInv'
  <2>1. OneOfEach'
    BY <1>0, <1>6 DEF AddressInv, OneOfEach
  <2>2. Served'
    BY <1>0, <1>6 DEF AddressInv, Served
  <2>3. Addressed'
    BY <1>0, <1>5, <1>6 DEF AddressInv, Addressed
  <2>4. NoticeUnlessFirst'
    <3> SUFFICES ASSUME NEW q \in Projects, NEW a \in Current(q)', access'[a].notice = "none"
                 PROVE  (\A b \in Accesses : Of(b, q)' => a = b) \/ HalfRotated(q)'
      BY DEF NoticeUnlessFirst
    <3>1. a \in Current(q) /\ access'[a] = access[a]
      BY <1>3, <1>6 DEF Current
    <3> QED BY <1>0, <1>5, <1>6, <3>1 DEF AddressInv, NoticeUnlessFirst
  <2> QED BY <2>1, <2>2, <2>3, <2>4 DEF AddressInv
<1> QED BY <1>7, <1>8, <1>9, <1>10 DEF IInv

-----------------------------------------------------------------------------
(* The invariant is inductive.                                              *)

LEMMA InitInv == ASSUME Init PROVE IInv
<1>1. TypeOK
  BY DEF Init, TypeOK, PublicationStatus
<1>2. CallsOK /\ RevisionsAreDistinct
  BY DEF Init, CallsOK, RevisionsAreDistinct, Publishes
<1>3. \A p \in Projects : Current(p) = {} /\ Published(p) = {} /\ \A a \in Accesses : ~Of(a, p)
  BY DEF Init, Current, IsCurrent, Of, Published
<1>4. AddressInv
  BY <1>3 DEF AddressInv, OneOfEach, Served, Addressed, NoticeUnlessFirst
<1> QED BY <1>1, <1>2, <1>4 DEF IInv

LEMMA NextInv == ASSUME IInv, Next PROVE IInv'
<1>1. ASSUME NEW k \in Callers, NEW p \in Projects, Reserve(k, p) PROVE IInv'
  BY <1>1, ReserveInv
<1>2. ASSUME NEW k \in Callers, NEW p \in Projects, ReadForRotation(k, p) PROVE IInv'
  BY <1>2, ReadForRotationInv
<1>3. ASSUME NEW k \in Callers, NEW p \in Projects, NEW n \in Names, RenameProject(k, p, n) PROVE IInv'
  BY <1>3, RenameProjectInv
<1>4. ASSUME NEW k \in Callers, NEW p \in Projects, NEW c \in Clients, ReadNewClient(k, p, c) PROVE IInv'
  BY <1>4, ReadNewClientInv
<1>5. ASSUME NEW k \in Callers, NEW c \in Clients, NEW cs \in ClientSlugs, RenameClient(k, c, cs) PROVE IInv'
  BY <1>5, RenameClientInv
<1>6. ASSUME NEW k \in Callers, PublishFailed(k) \/ Activate(k) \/ ActivateFirst(k) \/ CreateFirstAccess(k)
      PROVE  IInv'
  BY <1>6, PublishFailedInv, ActivateInv, ActivateFirstInv, CreateFirstAccessInv
<1>7. ASSUME NEW k \in Callers,
             ReassignClient(k) \/ Seek(k) \/ CommitChange(k) \/ CommitClientRename(k)
      PROVE  IInv'
  BY <1>7, ReassignClientInv, SeekInv, CommitChangeInv, CommitClientRenameInv
<1>8. ASSUME NEW k \in Callers,
             SelectForRotation(k) \/ RevokeByHand(k) \/ InsertByHand(k) \/ Abort(k)
      PROVE  IInv'
  BY <1>8, SelectForRotationInv, RevokeByHandInv, InsertByHandInv, AbortInv
<1>9. ASSUME NEW p \in Projects, Acknowledge(p) PROVE IInv'
  BY <1>9, AcknowledgeInv
<1> QED BY <1>1, <1>2, <1>3, <1>4, <1>5, <1>6, <1>7, <1>8, <1>9 DEF Next

LEMMA StutterInv == ASSUME IInv, UNCHANGED vars PROVE IInv'
<1>1. TypeOK' /\ CallsOK' /\ RevisionsAreDistinct'
  BY DEF IInv, vars, TypeOK, CallsOK, CallOK, RevisionsAreDistinct, Publishes, Published, Of
<1>2. \A q \in Projects : /\ Published(q)' = Published(q) /\ Current(q)' = Current(q)
                          /\ HalfRotated(q)' <=> HalfRotated(q)
  BY DEF vars, Published, Current, IsCurrent, Of, HalfRotated, Doing
<1>3. AddressInv'
  BY <1>2 DEF IInv, AddressInv, OneOfEach, Served, Addressed, NoticeUnlessFirst, Of, vars
<1> QED BY <1>1, <1>3 DEF IInv

LEMMA Invariance == Spec => []IInv
<1>1. IInv /\ [Next]_vars => IInv'
  BY NextInv, StutterInv
<1> QED BY <1>1, InitInv, PTL DEF Spec

-----------------------------------------------------------------------------
(* What follows from it.                                                    *)

(* Rows, publications and requests have their types; the project slug of an *)
(* address is always a normalised name, wherever a rotation copied it from. *)
THEOREM AddressTypes == Spec => []TypeOK
<1>1. IInv => TypeOK
  BY DEF IInv
<1> QED BY <1>1, Invariance, PTL

(* A project never has two active publications nor two current addresses.   *)
THEOREM OneOfEachHolds == Spec => []OneOfEach
<1>1. IInv => OneOfEach
  BY DEF IInv, AddressInv
<1> QED BY <1>1, Invariance, PTL

(* Activation and the address belong together: an available address is      *)
(* served, and a published project has an address unless a rotation by hand *)
(* is, or was left, between its two statements.                             *)
THEOREM PublishedProjectsAreAddressed == Spec => []PublishedIsAddressed
<1>1. ASSUME IInv PROVE PublishedIsAddressed
  <2>1. ASSUME NEW a \in Accesses, access[a] # None, access[a].status = "active"
        PROVE  Resolved(a) = "served"
    <3>1. access[a].project \in Projects /\ a \in Current(access[a].project)
      BY <2>1, <1>1 DEF IInv, TypeOK, Access, RevokedAccess, Current, IsCurrent, Of
    <3>2. Published(access[a].project) # {}
      BY <1>1, <3>1 DEF IInv, AddressInv, Served
    <3> QED BY <2>1, <3>2 DEF Resolved
  <2>2. \A p \in Projects : Published(p) # {} => Current(p) # {} \/ HalfRotated(p)
    BY <1>1 DEF IInv, AddressInv, Addressed
  <2> QED BY <2>1, <2>2 DEF PublishedIsAddressed
<1> QED BY <1>1, Invariance, PTL

(* Whoever holds a link that a rotation replaced is told: the current       *)
(* address of a project that had another one before carries a notice.       *)
THEOREM RotationsAreNoticed == Spec => []NoticeUnlessFirst
<1>1. IInv => NoticeUnlessFirst
  BY DEF IInv, AddressInv
<1> QED BY <1>1, Invariance, PTL

-----------------------------------------------------------------------------
(* Addresses follow names.  A request that nobody overtook still knows the  *)
(* present names: what it copied is what AddressesFollowNames says of the   *)
(* row it read.  What an overtaken one writes makes its project raced.      *)

Named(p, cs) == client[p] # None /\ cs = slug[client[p]]

NamesOK(c) == ~c.overtaken =>
  /\ c.op = "publish" /\ c.pc = "activating" => Named(c.project, c.clientSlug)
  /\ c.op = "rename" =>
       /\ c.pc = "seeking" => Current(c.project) # {}
       /\ c.pc = "committing" /\ c.target \notin Current(c.project) =>
            \A a \in Current(c.project) : access[a].projectSlug = c.projectSlug
       /\ (c.pc = "seeking" \/ c.target # None) /\ c.project \notin raced =>
            Named(c.project, c.clientSlug)
  /\ c.op = "reassign" =>
       /\ c.clientSlug = slug[c.client]
       /\ c.pc = "seeking" => Current(c.project) # {}
       /\ c.pc = "committing" /\ c.target \notin Current(c.project) => Current(c.project) = {}
       /\ c.pc # "resolved" /\ c.projectSlug # None /\ c.project \notin raced =>
            c.projectSlug = SlugOf[name[c.project]]
  /\ c.op = "rotate" /\ c.project \notin raced =>
       Named(c.project, c.clientSlug) /\ c.projectSlug = SlugOf[name[c.project]]
  /\ c.op = "renameClient" => \A p \in ClientsOf(c.client) : Current(p) \subseteq c.targets
GivenOK(c) ==
  /\ c.op = "rename" => c.projectSlug = SlugOf[c.name]
  /\ c.op = "reassign" /\ c.pc = "resolved" => c.projectSlug = None
(* An address that a rename of a client selected is still of that client.   *)
TargetsOK(c) == c.op = "renameClient" =>
  \A p \in Projects : \A a \in c.targets : IsCurrent(a, p) /\ p \notin raced => client[p] = c.client
KnowsNames(c) == NamesOK(c) /\ GivenOK(c) /\ TargetsOK(c)

NamesInv ==
  /\ AddressesFollowNames
  /\ \A k \in Callers : calls[k] # None => KnowsNames(calls[k])

(* The other requests, when this one wrote nothing that they read.          *)
LEMMA OthersKnowSame ==
  ASSUME TypeOK, NamesInv, NEW k \in Callers,
         UNCHANGED <<name, client, slug, access, raced>>,
         \A j \in Callers \ {k} : calls'[j] = calls[j]
  PROVE  /\ AddressesFollowNames'
         /\ \A j \in Callers \ {k} : (calls[j] # None => KnowsNames(calls[j]))'
<1>1. AddressesFollowNames'
  BY DEF NamesInv, AddressesFollowNames, Current, IsCurrent, Of
<1> SUFFICES ASSUME NEW j \in Callers \ {k}, calls'[j] # None PROVE KnowsNames(calls[j])'
  BY <1>1
<1>2. KnowsNames(calls[j]) /\ calls'[j] = calls[j]
  BY DEF NamesInv
<1>3. \A p : Current(p)' = Current(p)
  BY DEF Current, IsCurrent, Of
<1>4. \A p, cs : Named(p, cs)' <=> Named(p, cs)
  BY DEF Named
<1>5. NamesOK(calls[j])'
  BY <1>2, <1>3, <1>4 DEF KnowsNames, NamesOK, ClientsOf
<1>6. GivenOK(calls[j])'
  BY <1>2 DEF KnowsNames, GivenOK
<1>7. TargetsOK(calls[j])'
  BY <1>2 DEF KnowsNames, TargetsOK, IsCurrent, Of
<1> QED BY <1>5, <1>6, <1>7 DEF KnowsNames

(* The other requests, when this one overtakes them: addresses they know    *)
(* stay with the client, or their project is raced.                         *)
Overtakes(k) == \A j \in Callers \ {k} : calls'[j] # None =>
  calls'[j].overtaken \/ (calls'[j].op = "publish" /\ calls'[j].pc = "compiling")

LEMMA OvertakingCalls ==
  ASSUME TypeOK, NEW k \in Callers,
         \A j \in Callers \ {k} : calls'[j] = Ended(k, EveryReader)[j]
  PROVE  Overtakes(k)
<1> SUFFICES ASSUME NEW j \in Callers \ {k}, calls'[j] # None
             PROVE  calls'[j].overtaken \/ (calls'[j].op = "publish" /\ calls'[j].pc = "compiling")
  BY DEF Overtakes
<1>1. calls[j] # None /\ calls[j] \in Call
  BY DEF Ended, TypeOK
<1>2. CASE EveryReader(calls[j])
  <2>1. calls'[j] = Marked(calls[j])
    BY <1>1, <1>2 DEF Ended, Marked
  <2> QED BY <1>1, <2>1, MarkedSame
<1>3. CASE ~EveryReader(calls[j])
  <2>1. calls'[j] = calls[j]
    BY <1>1, <1>3 DEF Ended
  <2> QED BY <1>3, <2>1 DEF EveryReader
<1> QED BY <1>2, <1>3

LEMMA OthersOvertaken ==
  ASSUME IInv, NamesInv, NEW k \in Callers, OthersGoOn(k), Overtakes(k), raced \subseteq raced',
         \A p \in Projects, a \in Accesses :
           access[a] # None /\ IsCurrent(a, p)' /\ p \notin raced' =>
             IsCurrent(a, p) /\ client'[p] = client[p]
  PROVE  \A j \in Callers \ {k} : (calls[j] # None => KnowsNames(calls[j]))'
<1> SUFFICES ASSUME NEW j \in Callers \ {k}, calls'[j] # None PROVE KnowsNames(calls[j])'
  OBVIOUS
<1>1. calls[j] # None /\ calls[j] \in Call /\ CallOK(calls[j]) /\ KnowsNames(calls[j])
  BY DEF OthersGoOn, IInv, TypeOK, CallsOK, NamesInv
<1>2. calls'[j] = calls[j] \/ calls'[j] = Marked(calls[j])
  BY DEF OthersGoOn
<1>3. NamesOK(calls[j])'
  BY DEF Overtakes, NamesOK
<1>4. GivenOK(calls[j])'
  <2>1. CASE calls[j] \in ProjectRename
    BY <1>1, <1>2, <2>1 DEF KnowsNames, GivenOK, Marked, ProjectRename
  <2>2. CASE calls[j] \in Reassignment
    BY <1>1, <1>2, <2>2 DEF KnowsNames, GivenOK, Marked, Reassignment
  <2>3. CASE calls[j] \notin ProjectRename \cup Reassignment
    BY <1>1, <1>2, <2>3, Kinds, MarkedSame DEF GivenOK
  <2> QED BY <2>1, <2>2, <2>3
<1>5. TargetsOK(calls[j])'
  <2>1. CASE calls[j] \in ClientRename
    <3>1. calls'[j].targets = calls[j].targets /\ calls'[j].client = calls[j].client
          /\ calls[j].op = "renameClient" /\ calls[j].targets \subseteq Accesses
      BY <1>2, <2>1 DEF Marked, ClientRename
    <3>2. \A a \in calls[j].targets : access[a] # None
      BY <1>1, <3>1 DEF CallOK
    <3> QED BY <1>1, <3>1, <3>2 DEF KnowsNames, TargetsOK
  <2>2. CASE calls[j] \notin ClientRename
    BY <1>1, <1>2, <2>2, Kinds, MarkedSame DEF TargetsOK
  <2> QED BY <2>1, <2>2
<1> QED BY <1>3, <1>4, <1>5 DEF KnowsNames

-----------------------------------------------------------------------------
(* Steps that write no address, name, client or slug.                       *)

LEMMA ReadNames ==
  ASSUME IInv, NamesInv, NEW k \in Callers, NEW c \in Call, calls' = [calls EXCEPT ![k] = c],
         UNCHANGED <<name, client, slug, access, raced>>, KnowsNames(c)
  PROVE  NamesInv'
<1>1. TypeOK /\ calls'[k] = c /\ \A j \in Callers \ {k} : calls'[j] = calls[j]
  BY DEF IInv, TypeOK
<1>2. \A p : Current(p)' = Current(p)
  BY DEF Current, IsCurrent, Of
<1>3. \A p, cs : Named(p, cs)' <=> Named(p, cs)
  BY DEF Named
<1>4. NamesOK(calls[k])'
  BY <1>1, <1>2, <1>3 DEF KnowsNames, NamesOK, ClientsOf
<1>5. GivenOK(calls[k])' /\ TargetsOK(calls[k])'
  BY <1>1 DEF KnowsNames, GivenOK, TargetsOK, IsCurrent, Of
<1> QED BY <1>1, <1>4, <1>5, OthersKnowSame DEF NamesInv, KnowsNames

LEMMA QuietEndNames ==
  ASSUME IInv, NamesInv, NEW k \in Callers, PublishFailed(k) \/ Activate(k) \/ Abort(k)
  PROVE  NamesInv'
<1>1. /\ UNCHANGED <<name, client, slug, access, raced>>
      /\ calls' = Ended(k, NoCall)
  BY DEF PublishFailed, Activate, Abort
<1>2. calls'[k] = None /\ \A j \in Callers \ {k} : calls'[j] = calls[j]
  BY <1>1 DEF Ended, NoCall
<1> QED BY <1>1, <1>2, OthersKnowSame DEF NamesInv, IInv

LEMMA ReserveNames ==
  ASSUME IInv, NamesInv, NEW k \in Callers, NEW p \in Projects, Reserve(k, p)
  PROVE  NamesInv'
<1>1. PICK r \in Revisions :
        calls' = [calls EXCEPT ![k] = [op |-> "publish", pc |-> "compiling", project |-> p,
                    revision |-> r, clientSlug |-> None, overtaken |-> FALSE]]
  BY DEF Reserve
<1> DEFINE c == [op |-> "publish", pc |-> "compiling", project |-> p,
                 revision |-> r, clientSlug |-> None, overtaken |-> FALSE]
<1>2. c \in Call /\ KnowsNames(c)
  BY DEF Call, Publish, KnowsNames, NamesOK, GivenOK, TargetsOK
<1> HIDE DEF c
<1> QED BY <1>1, <1>2, ReadNames DEF Reserve, c

LEMMA ActivateFirstNames ==
  ASSUME IInv, NamesInv, NEW k \in Callers, ActivateFirst(k)
  PROVE  NamesInv'
<1> DEFINE c == [calls[k] EXCEPT !.pc = "activating",
                   !.clientSlug = slug[client[calls[k].project]], !.overtaken = FALSE]
<1>1. calls[k] \in Publish
  BY Kinds DEF IInv, TypeOK, ActivateFirst, Doing
<1>2. slug[client[calls[k].project]] \in ClientSlugs /\ client[calls[k].project] # None
  BY <1>1 DEF IInv, TypeOK, ActivateFirst, Publish
<1>3. c \in Publish /\ c.project = calls[k].project /\ c.op = "publish"
      /\ c.clientSlug = slug[client[calls[k].project]]
  BY <1>1, <1>2 DEF Publish
<1>4. c \in Call /\ KnowsNames(c)
  BY <1>2, <1>3 DEF Call, KnowsNames, NamesOK, GivenOK, TargetsOK, Named
<1>5. calls' = [calls EXCEPT ![k] = c]
  BY DEF ActivateFirst
<1> HIDE DEF c
<1> QED BY <1>4, <1>5, ReadNames DEF ActivateFirst

LEMMA RenameProjectNames ==
  ASSUME IInv, NamesInv, NEW k \in Callers, NEW p \in Projects, NEW n \in Names, RenameProject(k, p, n)
  PROVE  NamesInv'
<1>1. PICK pc \in {"seeking", "committing"}, cs \in ClientSlugs \cup {None} :
        /\ IF \E a \in Current(p) : ~SlugUnchanged(a, n)
           THEN pc = "seeking" /\ \E a \in Current(p) : cs = access[a].clientSlug
           ELSE pc = "committing" /\ cs = None
        /\ calls' = [calls EXCEPT ![k] =
             [op |-> "rename", pc |-> pc, project |-> p, name |-> n, clientSlug |-> cs,
              projectSlug |-> SlugOf[n], target |-> None, overtaken |-> FALSE]]
  BY DEF RenameProject
<1> DEFINE c == [op |-> "rename", pc |-> pc, project |-> p, name |-> n, clientSlug |-> cs,
                 projectSlug |-> SlugOf[n], target |-> None, overtaken |-> FALSE]
<1>2. /\ pc = "seeking" => Current(p) # {}
      /\ pc = "committing" => \A a \in Current(p) : access[a].projectSlug = SlugOf[n]
      /\ pc = "seeking" /\ p \notin raced => Named(p, cs)
  BY <1>1 DEF SlugUnchanged, NamesInv, AddressesFollowNames, Named
<1>3. c \in Call /\ KnowsNames(c)
  BY <1>2, SlugOfIsAFunction DEF Call, ProjectRename, Slugs, KnowsNames, NamesOK, GivenOK, TargetsOK
<1>4. calls' = [calls EXCEPT ![k] = c]
  BY <1>1
<1> HIDE DEF c
<1> QED BY <1>3, <1>4, ReadNames DEF RenameProject

LEMMA ReadNewClientNames ==
  ASSUME IInv, NamesInv, NEW k \in Callers, NEW p \in Projects, NEW c \in Clients, ReadNewClient(k, p, c)
  PROVE  NamesInv'
<1> DEFINE d == [op |-> "reassign", pc |-> "resolved", project |-> p, client |-> c,
                 clientSlug |-> slug[c], projectSlug |-> None, target |-> None, overtaken |-> FALSE]
<1>1. d \in Call /\ KnowsNames(d)
  BY DEF Call, Reassignment, IInv, TypeOK, KnowsNames, NamesOK, GivenOK, TargetsOK
<1>2. calls' = [calls EXCEPT ![k] = d]
  BY DEF ReadNewClient
<1> HIDE DEF d
<1> QED BY <1>1, <1>2, ReadNames DEF ReadNewClient

LEMMA ReassignClientNames ==
  ASSUME IInv, NamesInv, NEW k \in Callers, ReassignClient(k) PROVE NamesInv'
<1>1. /\ calls[k] \in Reassignment /\ calls[k].op = "reassign" /\ calls[k].pc = "resolved"
      /\ CallOK(calls[k]) /\ KnowsNames(calls[k])
  BY Kinds DEF IInv, TypeOK, ReassignClient, Doing, CallsOK, NamesInv
<1>2. PICK c : /\ calls' = [calls EXCEPT ![k] = c]
               /\ \/ /\ Current(calls[k].project) = {}
                     /\ c = [calls[k] EXCEPT !.pc = "committing"]
                  \/ \E a \in Current(calls[k].project) :
                       c = [calls[k] EXCEPT !.pc = "seeking", !.projectSlug = access[a].projectSlug]
  BY DEF ReassignClient
<1>3. c \in Reassignment /\ KnowsNames(c)
  <2>1. CASE Current(calls[k].project) = {} /\ c = [calls[k] EXCEPT !.pc = "committing"]
    <3>1. /\ c \in Reassignment /\ c.op = "reassign" /\ c.pc = "committing"
          /\ c.client = calls[k].client /\ c.clientSlug = calls[k].clientSlug
          /\ c.project = calls[k].project /\ c.projectSlug = None /\ c.overtaken = calls[k].overtaken
      BY <1>1, <2>1 DEF Reassignment, KnowsNames, GivenOK
    <3> QED BY <1>1, <2>1, <3>1 DEF KnowsNames, NamesOK, GivenOK, TargetsOK
  <2>2. ASSUME NEW a \in Current(calls[k].project),
               c = [calls[k] EXCEPT !.pc = "seeking", !.projectSlug = access[a].projectSlug]
        PROVE  c \in Reassignment /\ KnowsNames(c)
    <3>1. access[a].projectSlug \in Slugs /\ calls[k].project \in Projects
      BY <1>1, CurrentRow DEF Current, IInv, Access, Reassignment
    <3>2. /\ c \in Reassignment /\ c.op = "reassign" /\ c.pc = "seeking"
          /\ c.client = calls[k].client /\ c.clientSlug = calls[k].clientSlug
          /\ c.project = calls[k].project /\ c.projectSlug = access[a].projectSlug
          /\ c.overtaken = calls[k].overtaken
      BY <1>1, <2>2, <3>1 DEF Reassignment
    <3>3. c.project \notin raced => c.projectSlug = SlugOf[name[c.project]]
      BY <2>2, <3>1, <3>2 DEF NamesInv, AddressesFollowNames
    <3> QED BY <1>1, <2>2, <3>2, <3>3 DEF KnowsNames, NamesOK, GivenOK, TargetsOK
  <2> QED BY <1>2, <2>1, <2>2
<1>4. c \in Call
  BY <1>3 DEF Call
<1> QED BY <1>2, <1>3, <1>4, ReadNames DEF ReassignClient

LEMMA SeekNames == ASSUME IInv, NamesInv, NEW k \in Callers, Seek(k) PROVE NamesInv'
<1>1. /\ calls[k] \in ProjectRename \cup Reassignment
      /\ calls[k].op \in {"rename", "reassign"} /\ calls[k].pc = "seeking" /\ KnowsNames(calls[k])
  BY Kinds DEF IInv, TypeOK, Seek, Doing, NamesInv
<1>2. PICK a \in Accesses \cup {None} :
        /\ IF a = None THEN Current(calls[k].project) = {} ELSE a \in Current(calls[k].project)
        /\ calls' = [calls EXCEPT ![k] = [calls[k] EXCEPT !.pc = "committing", !.target = a]]
  BY DEF Seek
<1> DEFINE c == [calls[k] EXCEPT !.pc = "committing", !.target = a]
<1>3. CASE calls[k] \in ProjectRename
  <2>1. /\ c \in ProjectRename /\ c.op = "rename" /\ c.pc = "committing" /\ c.target = a
        /\ c.project = calls[k].project /\ c.clientSlug = calls[k].clientSlug
        /\ c.projectSlug = calls[k].projectSlug /\ c.name = calls[k].name
        /\ c.overtaken = calls[k].overtaken /\ calls[k].op = "rename"
    BY <1>1, <1>3 DEF ProjectRename
  <2>2. c \in Call /\ calls' = [calls EXCEPT ![k] = c]
    BY <1>2, <2>1 DEF Call
  <2> HIDE DEF c
  <2>3. KnowsNames(c)
    BY <1>1, <1>2, <2>1 DEF KnowsNames, NamesOK, GivenOK, TargetsOK
  <2> QED BY <2>2, <2>3, ReadNames DEF Seek
<1>4. CASE calls[k] \in Reassignment
  <2>1. /\ c \in Reassignment /\ c.op = "reassign" /\ c.pc = "committing" /\ c.target = a
        /\ c.project = calls[k].project /\ c.clientSlug = calls[k].clientSlug
        /\ c.projectSlug = calls[k].projectSlug /\ c.client = calls[k].client
        /\ c.overtaken = calls[k].overtaken /\ calls[k].op = "reassign"
    BY <1>1, <1>4 DEF Reassignment
  <2>2. c \in Call /\ calls' = [calls EXCEPT ![k] = c]
    BY <1>2, <2>1 DEF Call
  <2> HIDE DEF c
  <2>3. KnowsNames(c)
    BY <1>1, <1>2, <2>1 DEF KnowsNames, NamesOK, GivenOK, TargetsOK
  <2> QED BY <2>2, <2>3, ReadNames DEF Seek
<1> QED BY <1>1, <1>3, <1>4

LEMMA RenameClientNames ==
  ASSUME IInv, NamesInv, NEW k \in Callers, NEW c \in Clients, NEW cs \in ClientSlugs,
         RenameClient(k, c, cs)
  PROVE  NamesInv'
<1> DEFINE targets == UNION {Current(p) : p \in ClientsOf(c)}
           d == [op |-> "renameClient", client |-> c, clientSlug |-> cs, targets |-> targets,
                 overtaken |-> FALSE]
<1>1. /\ targets \subseteq Accesses /\ \A p \in ClientsOf(c) : Current(p) \subseteq targets
      /\ \A a \in targets, p \in Projects : IsCurrent(a, p) => client[p] = c
  BY DEF Current, IsCurrent, Of, ClientsOf
<1>2. calls' = [calls EXCEPT ![k] = d]
  BY DEF RenameClient
<1> HIDE DEF targets
<1>3. d \in Call /\ KnowsNames(d)
  BY <1>1 DEF Call, ClientRename, KnowsNames, NamesOK, GivenOK, TargetsOK
<1> HIDE DEF d
<1> QED BY <1>2, <1>3, ReadNames DEF RenameClient

LEMMA ReadForRotationNames ==
  ASSUME IInv, NamesInv, NEW k \in Callers, NEW p \in Projects, ReadForRotation(k, p) PROVE NamesInv'
<1>1. PICK a \in Current(p) : calls' = [calls EXCEPT ![k] =
         [op |-> "rotate", pc |-> "resolved", project |-> p, clientSlug |-> access[a].clientSlug,
          projectSlug |-> access[a].projectSlug, target |-> None, overtaken |-> FALSE]]
  BY DEF ReadForRotation
<1> DEFINE c == [op |-> "rotate", pc |-> "resolved", project |-> p, clientSlug |-> access[a].clientSlug,
                 projectSlug |-> access[a].projectSlug, target |-> None, overtaken |-> FALSE]
<1>2. access[a] \in Access
  BY CurrentRow DEF Current, IInv
<1>3. p \notin raced => Named(p, access[a].clientSlug) /\ access[a].projectSlug = SlugOf[name[p]]
  BY DEF NamesInv, AddressesFollowNames, Named
<1>4. c \in Call /\ KnowsNames(c)
  BY <1>2, <1>3 DEF Call, Rotation, Access, KnowsNames, NamesOK, GivenOK, TargetsOK
<1>5. calls' = [calls EXCEPT ![k] = c]
  BY <1>1
<1> HIDE DEF c
<1> QED BY <1>4, <1>5, ReadNames DEF ReadForRotation

LEMMA SelectForRotationNames ==
  ASSUME IInv, NamesInv, NEW k \in Callers, SelectForRotation(k) PROVE NamesInv'
<1>1. calls[k] \in Rotation /\ calls[k].op = "rotate" /\ KnowsNames(calls[k])
  BY Kinds DEF IInv, TypeOK, SelectForRotation, Doing, NamesInv
<1>2. PICK a \in Current(calls[k].project) :
        calls' = [calls EXCEPT ![k] = [calls[k] EXCEPT !.pc = "selected", !.target = a]]
  BY DEF SelectForRotation
<1> DEFINE c == [calls[k] EXCEPT !.pc = "selected", !.target = a]
<1>3. c \in Call /\ KnowsNames(c)
  BY <1>1 DEF Call, Rotation, Current, KnowsNames, NamesOK, GivenOK, TargetsOK
<1>4. calls' = [calls EXCEPT ![k] = c]
  BY <1>2
<1> HIDE DEF c
<1> QED BY <1>3, <1>4, ReadNames DEF SelectForRotation

-----------------------------------------------------------------------------
(* Steps that write an address.                                             *)

LEMMA EndNames ==
  ASSUME IInv, NamesInv, NEW k \in Callers, End(k), raced \subseteq raced',
         \A p \in Projects, a \in Accesses :
           access[a] # None /\ IsCurrent(a, p)' /\ p \notin raced' =>
             IsCurrent(a, p) /\ client'[p] = client[p],
         AddressesFollowNames'
  PROVE  NamesInv'
<1>1. OthersGoOn(k) /\ calls'[k] = None
  BY EndedCalls DEF End, IInv
<1>2. Overtakes(k)
  BY OvertakingCalls DEF End, IInv
<1> QED BY <1>1, <1>2, OthersOvertaken DEF NamesInv

LEMMA Tainted ==
  ASSUME NEW k, NEW ps, Taint(k, ps)
  PROVE  raced \subseteq raced' /\ (calls[k].overtaken => ps \subseteq raced')
BY DEF Taint

(* The only current address of p is new and shows the present names.        *)
LEMMA NewRowNames ==
  ASSUME IInv, NamesInv, NEW k \in Callers, End(k),
         UNCHANGED <<name, client, slug>>, raced \subseteq raced',
         NEW p \in Projects, NEW n \in Accesses, Fresh(n), Current(p) = {},
         \A a \in Accesses \ {n} : access'[a] = access[a],
         \A a \in Accesses, q \in Projects :
           IsCurrent(a, q)' <=> IsCurrent(a, q) \/ (a = n /\ q = p),
         p \notin raced' =>
           Named(p, access'[n].clientSlug) /\ access'[n].projectSlug = SlugOf[name[p]]
  PROVE  NamesInv'
<1>1. access[n] = None
  BY DEF Fresh
<1>2. AddressesFollowNames'
  <2> SUFFICES ASSUME NEW q \in Projects, NEW a \in Current(q)', q \notin raced'
               PROVE  access'[a].projectSlug = SlugOf[name[q]] /\ Named(q, access'[a].clientSlug)
    BY DEF AddressesFollowNames, Named
  <2>1. a \in Accesses /\ IsCurrent(a, q)'
    BY DEF Current
  <2>2. CASE q = p
    BY <2>1, <2>2 DEF Current
  <2>3. CASE q # p
    <3>1. a \in Current(q) /\ a # n
      BY <1>1, <2>1, <2>3 DEF Current, IsCurrent, Of
    <3> QED BY <2>1, <3>1 DEF NamesInv, AddressesFollowNames, Named
  <2> QED BY <2>2, <2>3
<1> QED BY <1>1, <1>2, EndNames

LEMMA CreateFirstAccessNames ==
  ASSUME IInv, NamesInv, NEW k \in Callers, CreateFirstAccess(k) PROVE NamesInv'
<1>1. /\ calls[k] \in Publish /\ calls[k].op = "publish" /\ calls[k].pc = "activating"
      /\ calls[k].clientSlug # None /\ KnowsNames(calls[k])
  BY Kinds DEF IInv, TypeOK, CallsOK, CallOK, CreateFirstAccess, Doing, NamesInv
<1>2. PICK p \in Projects, cs \in ClientSlugs, ps \in Slugs :
        p = calls[k].project /\ cs = calls[k].clientSlug /\ ps = SlugOf[name[p]]
  BY <1>1, SlugOfIsAFunction DEF Publish, IInv, TypeOK
<1>3. PICK n \in Accesses : Fresh(n) /\ access' = [access EXCEPT ![n] = Row(p, cs, ps, "none")]
  BY <1>2 DEF CreateFirstAccess
<1>4. Current(p) = {} /\ Taint(k, {p})
  BY <1>2 DEF CreateFirstAccess
<1>5. raced \subseteq raced' /\ (p \notin raced' => Named(p, cs))
  BY <1>1, <1>2, <1>4, Tainted DEF KnowsNames, NamesOK
<1>6. /\ AccessType' /\ RowsStay
      /\ \A a \in Accesses \ {n} : access'[a] = access[a]
      /\ access'[n] = Row(p, cs, ps, "none")
      /\ \A a \in Accesses, q \in Projects :
           /\ Of(a, q)' <=> Of(a, q) \/ (a = n /\ q = p)
           /\ IsCurrent(a, q)' <=> IsCurrent(a, q) \/ (a = n /\ q = p)
  <2>1. TypeOK
    BY DEF IInv
  <2> QED BY <1>3, <2>1, NewRow
<1>7. access'[n].clientSlug = cs /\ access'[n].projectSlug = ps
  BY <1>6 DEF Row
<1>8. End(k) /\ UNCHANGED <<name, client, slug>>
  BY DEF CreateFirstAccess
<1> QED BY <1>2, <1>3, <1>4, <1>5, <1>6, <1>7, <1>8, NewRowNames

LEMMA InsertByHandNames ==
  ASSUME IInv, NamesInv, NEW k \in Callers, InsertByHand(k) PROVE NamesInv'
<1>1. calls[k] \in Rotation /\ calls[k].op = "rotate" /\ KnowsNames(calls[k])
  BY Kinds DEF IInv, TypeOK, InsertByHand, Doing, NamesInv
<1>2. PICK p \in Projects, cs \in ClientSlugs, ps \in Slugs :
        p = calls[k].project /\ cs = calls[k].clientSlug /\ ps = calls[k].projectSlug
  BY <1>1 DEF Rotation
<1>3. PICK n \in Accesses : Fresh(n) /\ access' = [access EXCEPT ![n] = Row(p, cs, ps, "pending")]
  BY <1>2 DEF InsertByHand
<1>4. Current(p) = {} /\ Taint(k, {p})
  BY <1>2 DEF InsertByHand
<1>5. raced \subseteq raced' /\ (p \notin raced' => Named(p, cs) /\ ps = SlugOf[name[p]])
  BY <1>1, <1>2, <1>4, Tainted DEF KnowsNames, NamesOK
<1>6. /\ AccessType' /\ RowsStay
      /\ \A a \in Accesses \ {n} : access'[a] = access[a]
      /\ access'[n] = Row(p, cs, ps, "pending")
      /\ \A a \in Accesses, q \in Projects :
           /\ Of(a, q)' <=> Of(a, q) \/ (a = n /\ q = p)
           /\ IsCurrent(a, q)' <=> IsCurrent(a, q) \/ (a = n /\ q = p)
  <2>1. TypeOK
    BY DEF IInv
  <2> QED BY <1>3, <2>1, NewRow
<1>7. access'[n].clientSlug = cs /\ access'[n].projectSlug = ps
  BY <1>6 DEF Row
<1>8. End(k) /\ UNCHANGED <<name, client, slug>>
  BY DEF InsertByHand
<1> QED BY <1>3, <1>4, <1>5, <1>6, <1>7, <1>8, NewRowNames

LEMMA CommitChangeNames ==
  ASSUME IInv, NamesInv, NEW k \in Callers, CommitChange(k) PROVE NamesInv'
<1>1. /\ calls[k] \in ProjectRename \cup Reassignment /\ calls[k].pc = "committing"
      /\ CallOK(calls[k]) /\ KnowsNames(calls[k])
  BY Kinds DEF IInv, TypeOK, CallsOK, CommitChange, Doing, NamesInv
<1>2. PICK p \in Projects : p = calls[k].project
  BY <1>1 DEF ProjectRename, Reassignment
<1>2a. PICK cs, ps, old :
         cs = calls[k].clientSlug /\ ps = calls[k].projectSlug /\ old = calls[k].target
  OBVIOUS
<1>3. old \in Current(p) =>
        cs \in ClientSlugs /\ ps \in Slugs /\ IsCurrent(old, p) /\ old \in Accesses /\ old # None
  BY <1>1, <1>2, <1>2a, NoneIsNoName DEF ProjectRename, Reassignment, CallOK, Current
<1>4. /\ End(k) /\ raced \subseteq raced' /\ (calls[k].overtaken => p \in raced')
      /\ slug' = slug
  BY <1>2, <1>2a, Tainted DEF CommitChange
<1>5. \/ old \notin Current(p) /\ UNCHANGED access
      \/ old \in Current(p) /\ \E n \in Accesses : Fresh(n) /\ access' = Rotated(old, n, cs, ps)
  BY <1>2, <1>2a DEF CommitChange
<1>6. \A q \in Projects \ {p} : client'[q] = client[q] /\ name'[q] = name[q]
  BY <1>2, <1>2a DEF CommitChange, IInv, TypeOK
<1>7. p \notin raced' =>
        /\ old \in Current(p) => ps = SlugOf[name'[p]] /\ client'[p] # None /\ cs = slug[client'[p]]
        /\ old \notin Current(p) => \A a \in Current(p) :
             /\ access[a].projectSlug = SlugOf[name'[p]]
             /\ client'[p] = client[p] /\ client[p] # None /\ access[a].clientSlug = slug[client[p]]
  <2>1. CASE calls[k] \in ProjectRename
    <3>1. calls[k].op = "rename" /\ name'[p] = calls[k].name /\ client'[p] = client[p]
      BY <1>2, <1>2a, <2>1 DEF ProjectRename, CommitChange, IInv, TypeOK
    <3> QED BY <1>1, <1>2, <1>2a, <1>3, <1>4, <3>1
            DEF KnowsNames, NamesOK, GivenOK, NamesInv, AddressesFollowNames, Named
  <2>2. CASE calls[k] \in Reassignment
    <3>1. /\ calls[k].op = "reassign" /\ name'[p] = name[p] /\ client'[p] = calls[k].client
          /\ calls[k].client \in Clients
      BY <1>2, <1>2a, <2>2 DEF Reassignment, CommitChange, IInv, TypeOK
    <3>2. client'[p] # None
      BY <3>1, NoneIsNoName
    <3> QED BY <1>1, <1>2, <1>2a, <1>3, <1>4, <3>1, <3>2 DEF KnowsNames, NamesOK, CallOK
  <2> QED BY <1>1, <2>1, <2>2
<1>8. CASE old \notin Current(p) /\ UNCHANGED access
  <2>1. \A q \in Projects : Current(q)' = Current(q)
    BY <1>8 DEF Current, IsCurrent, Of
  <2>2. AddressesFollowNames'
    <3> SUFFICES ASSUME NEW q \in Projects, NEW a \in Current(q)', q \notin raced'
                 PROVE  /\ access'[a].projectSlug = SlugOf[name'[q]]
                        /\ client'[q] # None /\ access'[a].clientSlug = slug'[client'[q]]
      BY DEF AddressesFollowNames
    <3>1. CASE q = p
      BY <1>4, <1>7, <1>8, <2>1, <3>1
    <3>2. CASE q # p
      BY <1>4, <1>6, <1>8, <2>1, <3>2 DEF NamesInv, AddressesFollowNames
    <3> QED BY <3>1, <3>2
  <2>3. \A q \in Projects, a \in Accesses :
          access[a] # None /\ IsCurrent(a, q)' /\ q \notin raced' =>
            IsCurrent(a, q) /\ client'[q] = client[q]
    BY <1>6, <1>7, <1>8, <2>1 DEF Current
  <2> QED BY <1>4, <2>2, <2>3, EndNames
<1>9. ASSUME old \in Current(p), NEW n \in Accesses, Fresh(n), access' = Rotated(old, n, cs, ps)
      PROVE  NamesInv'
  <2>1. /\ \A a \in Accesses \ {old, n} : access'[a] = access[a]
        /\ access'[n] = Row(p, cs, ps, "pending")
        /\ \A a \in Accesses, q \in Projects :
             IsCurrent(a, q)' <=> (IsCurrent(a, q) /\ a # old) \/ (a = n /\ q = p)
    BY <1>3, <1>9, RotatedRow DEF IInv
  <2>2. /\ access[n] = None /\ access'[n].clientSlug = cs /\ access'[n].projectSlug = ps
        /\ \A a \in Accesses : IsCurrent(a, p)' => a = n
    BY <1>9, <2>1 DEF Fresh, Row, IInv, AddressInv, OneOfEach, Current
  <2>3. AddressesFollowNames'
    <3> SUFFICES ASSUME NEW q \in Projects, NEW a \in Current(q)', q \notin raced'
                 PROVE  /\ access'[a].projectSlug = SlugOf[name'[q]]
                        /\ client'[q] # None /\ access'[a].clientSlug = slug'[client'[q]]
      BY DEF AddressesFollowNames
    <3>0. a \in Accesses /\ IsCurrent(a, q)'
      BY DEF Current
    <3>1. CASE q = p
      BY <1>4, <1>7, <1>9, <2>2, <3>0, <3>1
    <3>2. CASE q # p
      <4>1. a \in Current(q) /\ access'[a] = access[a]
        BY <2>1, <2>2, <3>0, <3>2 DEF Current, IsCurrent, Of
      <4> QED BY <1>4, <1>6, <3>2, <4>1 DEF NamesInv, AddressesFollowNames
    <3> QED BY <3>1, <3>2
  <2>4. \A q \in Projects, a \in Accesses :
          access[a] # None /\ IsCurrent(a, q)' /\ q \notin raced' =>
            IsCurrent(a, q) /\ client'[q] = client[q]
    BY <1>6, <2>1, <2>2
  <2> QED BY <1>4, <2>3, <2>4, EndNames
<1> QED BY <1>5, <1>8, <1>9

LEMMA CommitClientRenameNames ==
  ASSUME IInv, NamesInv, NEW k \in Callers, CommitClientRename(k) PROVE NamesInv'
<1>1. calls[k] \in ClientRename /\ calls[k].op = "renameClient" /\ KnowsNames(calls[k])
  BY Kinds DEF IInv, TypeOK, CommitClientRename, NamesInv
<1>2. PICK S \in SUBSET Accesses, T \in SUBSET Accesses, cs \in ClientSlugs, c \in Clients :
        /\ S = Affected(k) /\ cs = calls[k].clientSlug /\ c = calls[k].client
        /\ T = calls[k].targets
  BY <1>1 DEF ClientRename, Affected
<1>3. /\ \A a \in S : access[a] # None /\ access[a].status # "revoked" /\ a \in T
      /\ \A a \in T, q \in Projects : IsCurrent(a, q) /\ a \notin S => access[a].clientSlug = cs
  BY <1>2 DEF Affected, IsCurrent, Of
<1>4. PICK new \in [S -> Accesses] : RotateInto(S, new, cs)
  BY <1>2 DEF CommitClientRename, RotateInto
<1>5. RowsRotated(S, new, cs)
  BY <1>3, <1>4, RotatedRows DEF IInv
<1>6. /\ End(k) /\ raced \subseteq raced' /\ UNCHANGED <<name, client>>
      /\ calls[k].overtaken => ClientsOf(c) \subseteq raced'
      /\ slug' = [slug EXCEPT ![c] = cs]
  BY <1>2, Tainted DEF CommitClientRename
<1>7. /\ slug'[c] = cs /\ \A d \in Clients \ {c} : slug'[d] = slug[d]
      /\ \A q \in Projects : client[q] \in Clients \cup {None}
  BY <1>6 DEF IInv, TypeOK
<1>8. \A q \in Projects, a \in Accesses : IsCurrent(a, q) /\ q \notin raced' =>
        (client[q] = c <=> a \in T)
  <2> TAKE q \in Projects, a \in Accesses
  <2>1. IsCurrent(a, q) /\ q \notin raced' /\ a \in T => client[q] = c
    BY <1>1, <1>2, <1>6 DEF KnowsNames, TargetsOK
  <2>2. IsCurrent(a, q) /\ q \notin raced' /\ client[q] = c => a \in T
    BY <1>1, <1>2, <1>6 DEF KnowsNames, NamesOK, ClientsOf, Current
  <2> QED BY <2>1, <2>2
<1>9. AddressesFollowNames'
  <2> SUFFICES ASSUME NEW q \in Projects, NEW a \in Current(q)', q \notin raced'
               PROVE  /\ access'[a].projectSlug = SlugOf[name[q]]
                      /\ client[q] # None /\ access'[a].clientSlug = slug'[client[q]]
    BY <1>6 DEF AddressesFollowNames
  <2>1. a \in Accesses /\ IsCurrent(a, q)' /\ q \notin raced
    BY <1>6 DEF Current
  <2>2. ASSUME NEW b \in S, new[b] = a, IsCurrent(b, q)
        PROVE  /\ access'[a].projectSlug = SlugOf[name[q]]
               /\ client[q] # None /\ access'[a].clientSlug = slug'[client[q]]
    <3>1. client[q] = c /\ client[q] # None
      BY <1>3, <1>8, <2>2, NoneIsNoName
    <3>2. access[b].projectSlug = SlugOf[name[q]]
      BY <2>1, <2>2 DEF NamesInv, AddressesFollowNames, Current
    <3>3. access'[a].clientSlug = cs /\ access'[a].projectSlug = access[b].projectSlug
      BY <1>5, <2>2 DEF RowsRotated
    <3> QED BY <1>7, <3>1, <3>2, <3>3
  <2>3. CASE IsCurrent(a, q) /\ a \notin S /\ \A b \in S : new[b] # a
    <3>1. access'[a] = access[a]
      BY <1>5, <2>1, <2>3 DEF RowsRotated
    <3>2. /\ access[a].projectSlug = SlugOf[name[q]]
          /\ client[q] # None /\ access[a].clientSlug = slug[client[q]]
      BY <2>1, <2>3 DEF NamesInv, AddressesFollowNames, Current
    <3>3. client[q] = c => access[a].clientSlug = cs
      BY <1>3, <1>8, <2>1, <2>3
    <3> QED BY <1>7, <3>1, <3>2, <3>3
  <2>4. IsCurrent(a, q) => \A b \in S : new[b] # a
    BY <1>4 DEF RotateInto, Fresh, IsCurrent, Of
  <2> QED BY <1>5, <2>1, <2>2, <2>3, <2>4 DEF RowsRotated
<1>10. \A q \in Projects, a \in Accesses :
         access[a] # None /\ IsCurrent(a, q)' /\ q \notin raced' =>
           IsCurrent(a, q) /\ client'[q] = client[q]
  <2>1. \A b \in S : access[new[b]] = None
    BY <1>4 DEF RotateInto, Fresh
  <2> QED BY <1>5, <1>6, <2>1 DEF RowsRotated
<1> QED BY <1>6, <1>9, <1>10, EndNames

LEMMA RevokeByHandNames ==
  ASSUME IInv, NamesInv, NEW k \in Callers, RevokeByHand(k) PROVE NamesInv'
<1>0. TypeOK /\ CallsOK /\ TypeOK'
  BY RevokeByHandInv DEF IInv
<1>1. /\ calls[k] \in Rotation /\ calls[k].op = "rotate" /\ CallOK(calls[k])
      /\ calls[k].pc = "selected" /\ KnowsNames(calls[k])
  BY <1>0, Kinds DEF TypeOK, CallsOK, RevokeByHand, Doing, NamesInv
<1>2. PICK p \in Projects, old \in Accesses :
        p = calls[k].project /\ old = calls[k].target /\ Of(old, p)
  BY <1>1 DEF Rotation, CallOK
<1>3. access' = [access EXCEPT ![old] = Revoked(old)] /\ UNCHANGED <<name, client, slug, raced>>
  BY <1>2 DEF RevokeByHand
<1>4. /\ \A a \in Accesses \ {old} : access'[a] = access[a]
      /\ \A a \in Accesses, q \in Projects : IsCurrent(a, q)' <=> IsCurrent(a, q) /\ a # old
  <2>1. TypeOK /\ Of(old, p)
    BY <1>0, <1>2
  <2> QED BY <1>3, <2>1, RevokedRow
<1>5. AddressesFollowNames'
  <2> SUFFICES ASSUME NEW q \in Projects, NEW a \in Current(q)', q \notin raced
               PROVE  /\ access'[a].projectSlug = SlugOf[name[q]]
                      /\ client[q] # None /\ access'[a].clientSlug = slug[client[q]]
    BY <1>3 DEF AddressesFollowNames
  <2>1. a \in Current(q) /\ access'[a] = access[a]
    BY <1>4 DEF Current
  <2> QED BY <2>1 DEF NamesInv, AddressesFollowNames
<1>6. \A j \in Callers \ {k} : (calls[j] # None => KnowsNames(calls[j]))'
  <2>1. \A j \in Callers \ {k} : calls'[j] = Ended(k, EveryReader)[j]
    BY DEF RevokeByHand
  <2>2. OthersGoOn(k)
    <3>1. \A j \in Callers \ {k} :
            calls'[j] = calls[j] \/ (calls[j] # None /\ calls'[j] = Marked(calls[j]))
      BY DEF RevokeByHand, Ended, Marked
    <3> QED BY <1>0, <3>1 DEF OthersGoOn, TypeOK
  <2>3. Overtakes(k)
    BY <1>0, <2>1, OvertakingCalls
  <2> QED BY <1>3, <1>4, <2>2, <2>3, OthersOvertaken
<1>7. KnowsNames(calls[k])'
  <2>1. /\ calls'[k].op = "rotate" /\ calls'[k].overtaken = calls[k].overtaken
        /\ calls'[k].project = p /\ calls'[k].clientSlug = calls[k].clientSlug
        /\ calls'[k].projectSlug = calls[k].projectSlug
    BY <1>1, <1>2 DEF RevokeByHand, Rotation
  <2> QED BY <1>1, <1>2, <1>3, <2>1 DEF KnowsNames, NamesOK, GivenOK, TargetsOK, Named
<1> QED BY <1>5, <1>6, <1>7 DEF NamesInv

LEMMA AcknowledgeNames ==
  ASSUME IInv, NamesInv, NEW p \in Projects, Acknowledge(p) PROVE NamesInv'
<1>1. PICK n \in Accesses : /\ IsCurrent(n, p)
                            /\ access' = [access EXCEPT ![n].notice = "acknowledged"]
  BY DEF Acknowledge, Current
<1>2. access[n] \in Access /\ UNCHANGED <<name, client, slug, calls, raced>>
  BY <1>1, CurrentRow DEF IInv, Acknowledge
<1>3. /\ access'[n] \in Access /\ access'[n].project = access[n].project
      /\ access'[n].status = access[n].status /\ access'[n].clientSlug = access[n].clientSlug
      /\ access'[n].projectSlug = access[n].projectSlug
      /\ \A a \in Accesses \ {n} : access'[a] = access[a]
  BY <1>1, <1>2 DEF IInv, TypeOK, Access
<1>4. \A a \in Accesses : /\ \A q : IsCurrent(a, q)' <=> IsCurrent(a, q)
                          /\ access'[a].projectSlug = access[a].projectSlug
                          /\ access'[a].clientSlug = access[a].clientSlug
  BY <1>2, <1>3, NoneIsNoRow DEF IsCurrent, Of
<1>5. \A q : Current(q)' = Current(q) /\ Current(q) \subseteq Accesses
  BY <1>4 DEF Current
<1>6. AddressesFollowNames'
  BY <1>2, <1>4, <1>5 DEF NamesInv, AddressesFollowNames
<1>7. ASSUME NEW k \in Callers, calls[k] # None PROVE KnowsNames(calls[k])'
  <2>1. calls[k] \in Call /\ KnowsNames(calls[k]) /\ calls'[k] = calls[k]
    BY <1>2, <1>7 DEF IInv, TypeOK, NamesInv
  <2>2. \A q, cs : Named(q, cs)' <=> Named(q, cs)
    BY <1>2 DEF Named
  <2>3. NamesOK(calls[k])'
    BY <1>2, <1>4, <1>5, <2>1, <2>2 DEF KnowsNames, NamesOK, ClientsOf
  <2>4. GivenOK(calls[k])'
    BY <2>1 DEF KnowsNames, GivenOK
  <2>5. TargetsOK(calls[k])'
    <3>1. calls[k].op = "renameClient" => calls[k].targets \subseteq Accesses
      BY <2>1, Kinds DEF ClientRename
    <3> QED BY <1>2, <1>4, <2>1, <3>1 DEF KnowsNames, TargetsOK
  <2> QED BY <2>3, <2>4, <2>5 DEF KnowsNames
<1> QED BY <1>2, <1>6, <1>7 DEF NamesInv

-----------------------------------------------------------------------------
(* The second invariant is inductive together with the first.               *)

LEMMA InitNames == ASSUME Init PROVE NamesInv
BY DEF Init, NamesInv, AddressesFollowNames, Current, IsCurrent, Of

LEMMA NextNames == ASSUME IInv, NamesInv, Next PROVE NamesInv'
<1>1. ASSUME NEW k \in Callers, NEW p \in Projects, Reserve(k, p) PROVE NamesInv'
  BY <1>1, ReserveNames
<1>2. ASSUME NEW k \in Callers, NEW p \in Projects, ReadForRotation(k, p) PROVE NamesInv'
  BY <1>2, ReadForRotationNames
<1>3. ASSUME NEW k \in Callers, NEW p \in Projects, NEW n \in Names, RenameProject(k, p, n)
      PROVE  NamesInv'
  BY <1>3, RenameProjectNames
<1>4. ASSUME NEW k \in Callers, NEW p \in Projects, NEW c \in Clients, ReadNewClient(k, p, c)
      PROVE  NamesInv'
  BY <1>4, ReadNewClientNames
<1>5. ASSUME NEW k \in Callers, NEW c \in Clients, NEW cs \in ClientSlugs, RenameClient(k, c, cs)
      PROVE  NamesInv'
  BY <1>5, RenameClientNames
<1>6. ASSUME NEW k \in Callers, PublishFailed(k) \/ Activate(k) \/ Abort(k) PROVE NamesInv'
  BY <1>6, QuietEndNames
<1>7. ASSUME NEW k \in Callers,
             ActivateFirst(k) \/ CreateFirstAccess(k) \/ ReassignClient(k) \/ Seek(k)
      PROVE  NamesInv'
  BY <1>7, ActivateFirstNames, CreateFirstAccessNames, ReassignClientNames, SeekNames
<1>8. ASSUME NEW k \in Callers, CommitChange(k) \/ CommitClientRename(k) PROVE NamesInv'
  BY <1>8, CommitChangeNames, CommitClientRenameNames
<1>9. ASSUME NEW k \in Callers, SelectForRotation(k) \/ RevokeByHand(k) \/ InsertByHand(k)
      PROVE  NamesInv'
  BY <1>9, SelectForRotationNames, RevokeByHandNames, InsertByHandNames
<1>10. ASSUME NEW p \in Projects, Acknowledge(p) PROVE NamesInv'
  BY <1>10, AcknowledgeNames
<1> QED BY <1>1, <1>2, <1>3, <1>4, <1>5, <1>6, <1>7, <1>8, <1>9, <1>10 DEF Next

LEMMA StutterNames == ASSUME NamesInv, UNCHANGED vars PROVE NamesInv'
<1>1. \A q : Current(q)' = Current(q)
  BY DEF vars, Current, IsCurrent, Of
<1>2. \A q, cs : Named(q, cs)' <=> Named(q, cs)
  BY DEF vars, Named
<1>3. AddressesFollowNames'
  BY <1>1 DEF NamesInv, AddressesFollowNames, vars
<1>4. ASSUME NEW k \in Callers, calls[k] # None PROVE KnowsNames(calls[k])'
  <2>1. KnowsNames(calls[k])
    BY <1>4 DEF NamesInv
  <2>2. NamesOK(calls[k])'
    BY <1>1, <1>2, <2>1 DEF KnowsNames, NamesOK, ClientsOf, vars
  <2>3. GivenOK(calls[k])' /\ TargetsOK(calls[k])'
    BY <2>1 DEF KnowsNames, GivenOK, TargetsOK, IsCurrent, Of, vars
  <2> QED BY <2>2, <2>3 DEF KnowsNames
<1> QED BY <1>3, <1>4 DEF NamesInv, vars

(* The current address shows the present names of project and client unless *)
(* a request that wrote it was overtaken by another one.                    *)
THEOREM NamesAreFollowed == Spec => []AddressesFollowNames
<1>1. Init => NamesInv
  BY InitNames
<1>2. IInv /\ NamesInv /\ [Next]_vars => NamesInv'
  BY NextNames, StutterNames
<1>3. NamesInv => AddressesFollowNames
  BY DEF NamesInv
<1> QED BY <1>1, <1>2, <1>3, Invariance, PTL DEF Spec

=============================================================================
