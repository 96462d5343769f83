---------------------------- MODULE PublicAddress ----------------------------
(***************************************************************************)
(* Publications and the public address of a project.                       *)
(*                                                                         *)
(* The address of a published site carries the slug of the client, the     *)
(* slug of the project and a secret; it is a row, and rotating it revokes  *)
(* the row and inserts another.  The first publication creates it; it is   *)
(* rotated by hand and whenever the project or its client is renamed or    *)
(* the project changes client.  Each of these copies what it read earlier: *)
(* the slug that does not change, or the status.                           *)
(*                                                                         *)
(* Everything runs at READ COMMITTED.  What excludes two calls is the lock *)
(* of the project row (ProjectLocked) and of the client row                *)
(* (ClientLocked); the lock of an address is held from the moment a        *)
(* rotation decides until it commits, which is one step here.  SELECT ...  *)
(* FOR UPDATE picks its row from a snapshot (a Seek action) and finds it   *)
(* again, possibly revoked, once it has the lock (the commit): a row that  *)
(* replaced it meanwhile is not in the snapshot and is not found.  The     *)
(* rotation by hand runs on the pool: three statements, each its own       *)
(* transaction.  No caller makes an address unavailable (setAvailability), *)
(* so that status is left out.                                             *)
(*                                                                         *)
(* Snapshot and compilation are an outcome here; Publishing details them.  *)
(***************************************************************************)
EXTENDS Naturals, FiniteSets

CONSTANTS
  Projects, Clients,
  Names,        \* names of projects
  SlugOf,       \* normalizeSlug on them: several names may share a slug
  ClientSlugs,  \* slugs of client names
  Accesses,     \* bound: rows of project_public_access
  MaxRevision,  \* bound: publications of a project
  Callers,      \* bound: requests in progress at once
  None

Slugs == {SlugOf[n] : n \in Names}
Revisions == 1..MaxRevision

ASSUME SlugOfIsAFunction == SlugOf \in [Names -> Slugs]
ASSUME MaxRevisionIsNatural == MaxRevision \in Nat
ASSUME NoneIsNoName == None \notin Projects \cup Clients \cup ClientSlugs \cup Slugs \cup Accesses

VARIABLES
  name,         \* projects.name
  client,       \* projects.client_id
  slug,         \* clients.normalized_slug
  access,       \* project_public_access
  publication,  \* project_publications.status, by project and revision
  calls,        \* requests in progress
  severed,      \* history: projects where a rotation by hand revoked and did not insert
  raced         \* history: projects whose address a call wrote that another overtook

vars == <<name, client, slug, access, publication, calls, severed, raced>>

-----------------------------------------------------------------------------
(* Types.                                                                   *)

Access == [project : Projects, clientSlug : ClientSlugs, projectSlug : Slugs,
           status : {"active"}, notice : {"none", "pending", "acknowledged"}]
RevokedAccess == [project : Projects, status : {"revoked"}]   \* no handler reads more of it
PublicationStatus == {"absent", "compiling", "failed", "active", "superseded"}

(* "overtaken": another commit changed an address, a name, a client or a    *)
(* slug since the call first read one.                                      *)
Publish == [op : {"publish"}, pc : {"compiling", "activating"}, project : Projects,
            revision : Revisions, clientSlug : ClientSlugs \cup {None}, overtaken : BOOLEAN]
ProjectRename == [op : {"rename"}, pc : {"seeking", "committing"}, project : Projects,
                  name : Names, clientSlug : ClientSlugs \cup {None}, projectSlug : Slugs,
                  target : Accesses \cup {None}, overtaken : BOOLEAN]
Reassignment == [op : {"reassign"}, pc : {"resolved", "seeking", "committing"},
                 project : Projects, client : Clients, clientSlug : ClientSlugs,
                 projectSlug : Slugs \cup {None}, target : Accesses \cup {None},
                 overtaken : BOOLEAN]
Rotation == [op : {"rotate"}, pc : {"resolved", "selected", "revoked"}, project : Projects,
             clientSlug : ClientSlugs, projectSlug : Slugs,
             target : Accesses \cup {None}, overtaken : BOOLEAN]
ClientRename == [op : {"renameClient"}, client : Clients, clientSlug : ClientSlugs,
                 targets : SUBSET Accesses, overtaken : BOOLEAN]
Call == Publish \cup ProjectRename \cup Reassignment \cup Rotation \cup ClientRename

ASSUME NoneIsNoRow == None \notin Access \cup RevokedAccess \cup Call

(* Every variable has its type; in particular the project slug of an        *)
(* address is always a normalised name.                                     *)
TypeOK ==
  /\ name \in [Projects -> Names]
  /\ client \in [Projects -> Clients \cup {None}]
  /\ slug \in [Clients -> ClientSlugs]
  /\ access \in [Accesses -> Access \cup RevokedAccess \cup {None}]
  /\ publication \in [Projects -> [Revisions -> PublicationStatus]]
  /\ calls \in [Callers -> Call \cup {None}]
  /\ severed \in SUBSET Projects
  /\ raced \in SUBSET Projects

(* Projects exist, some of them without a client, and nothing is published. *)
Init ==
  /\ name \in [Projects -> Names]
  /\ client \in [Projects -> Clients \cup {None}]
  /\ slug \in {f \in [Clients -> ClientSlugs] : \A c, d \in Clients : f[c] = f[d] => c = d}
  /\ access = [a \in Accesses |-> None]
  /\ publication = [p \in Projects |-> [r \in Revisions |-> "absent"]]
  /\ calls = [k \in Callers |-> None]
  /\ severed = {}
  /\ raced = {}

-----------------------------------------------------------------------------
(* What the handlers read.                                                  *)

Doing(k, op, pc) == calls[k] # None /\ calls[k].op = op /\ calls[k].pc = pc

Of(a, p) == access[a] # None /\ access[a].project = p
IsCurrent(a, p) == Of(a, p) /\ access[a].status # "revoked"

(* findCurrentAccess: at most one, by a unique index.                       *)
Current(p) == {a \in Accesses : IsCurrent(a, p)}
Published(p) == {r \in Revisions : publication[p][r] = "active"}
Used(p) == {r \in Revisions : publication[p][r] # "absent"}

(* Who holds the lock of a project or of a client: an update of the row in  *)
(* progress, or the FOR UPDATE that opens an activation.  A reassignment    *)
(* also locks its client, through the foreign key.                          *)
ProjectLocked(p) == \E k \in Callers :
  /\ calls[k] # None
  /\ \/ calls[k].op = "publish" /\ calls[k].pc = "activating"
     \/ calls[k].op \in {"rename", "reassign"} /\ calls[k].pc \in {"seeking", "committing"}
  /\ calls[k].project = p
ClientLocked(c) == \E k \in Callers :
  /\ calls[k] # None
  /\ \/ calls[k].op = "renameClient"
     \/ calls[k].op = "reassign" /\ calls[k].pc \in {"seeking", "committing"}
  /\ calls[k].client = c

-----------------------------------------------------------------------------
(* What the handlers write.                                                 *)

NamedRow(p, cs, ps, notice) ==   \* mutant of Row: the name goes into the path as it is
  [project |-> p, clientSlug |-> cs, projectSlug |-> name[p], status |-> "active", notice |-> notice]
(* A first address (no supersedes_access_id) shows no notice of             *)
(* redistribution; a rotated one does until it is acknowledged.             *)
Row(p, cs, ps, notice) ==
  [project |-> p, clientSlug |-> cs, projectSlug |-> ps, status |-> "active", notice |-> notice]
Revoked(a) == [project |-> access[a].project, status |-> "revoked"]

Fresh(a) == access[a] = None

SilentlyRotated(old, new, cs, ps) ==   \* mutant of Rotated: it does not say what it supersedes
  [access EXCEPT ![old] = Revoked(old),
                 ![new] = Row(access[old].project, cs, ps, "none")]
(* The table after the rotation of old into new, both within one project.   *)
Rotated(old, new, cs, ps) ==
  [access EXCEPT ![old] = Revoked(old),
                 ![new] = Row(access[old].project, cs, ps, "pending")]

(* Call k ends; every other call among those selected is overtaken.         *)
Ended(k, Selected(_)) ==
  [j \in Callers |->
    IF j = k THEN None
    ELSE IF calls[j] # None /\ Selected(calls[j]) THEN [calls[j] EXCEPT !.overtaken = TRUE]
    ELSE calls[j]]
EveryReader(call) == call.op # "publish" \/ call.pc # "compiling"
NoCall(call) == FALSE
End(k) == calls' = Ended(k, EveryReader)

(* The address of the projects in ps was written by call k, perhaps from    *)
(* what it read before another commit.                                      *)
Taint(k, ps) == raced' = IF calls[k].overtaken THEN raced \cup ps ELSE raced

-----------------------------------------------------------------------------
(* Publication: three transactions (createPublication).                     *)

(* Transaction 1: the next revision, under the lock of the project.  A      *)
(* project without a client is refused before a revision is used.           *)
Reserve(k, p) ==
  /\ calls[k] = None
  /\ ~ProjectLocked(p)
  /\ client[p] # None
  /\ \E r \in Revisions :
       /\ Used(p) = 1..(r - 1)
       /\ publication' = [publication EXCEPT ![p][r] = "compiling"]
       /\ calls' = [calls EXCEPT ![k] = [op |-> "publish", pc |-> "compiling", project |-> p,
                      revision |-> r, clientSlug |-> None, overtaken |-> FALSE]]
  /\ UNCHANGED <<name, client, slug, access, severed, raced>>

(* Transaction 3 after a CompilerBlockingError.                             *)
PublishFailed(k) ==
  /\ Doing(k, "publish", "compiling")
  /\ ~ProjectLocked(calls[k].project)
  /\ publication' = [publication EXCEPT ![calls[k].project][calls[k].revision] = "failed"]
  /\ calls' = Ended(k, NoCall)
  /\ UNCHANGED <<name, client, slug, access, severed, raced>>

KeepActive(p, revision) ==   \* mutant of Activated: the previous one is not superseded
  [publication EXCEPT ![p][revision] = "active"]
(* The previous active publication is superseded, whatever its revision.    *)
Activated(p, revision) ==
  [publication EXCEPT ![p] = [r \in Revisions |->
     IF r = revision THEN "active"
     ELSE IF publication[p][r] = "active" THEN "superseded"
     ELSE publication[p][r]]]

NeverNeedsAccess(p) == FALSE   \* mutant of NeedsAccess
NeedsAccess(p) == Current(p) = {}

(* Transaction 3 of a project that has an address.                          *)
Activate(k) ==
  /\ Doing(k, "publish", "compiling")
  /\ LET p == calls[k].project
     IN  /\ ~ProjectLocked(p)
         /\ ~NeedsAccess(p)
         /\ publication' = Activated(p, calls[k].revision)
  /\ calls' = Ended(k, NoCall)
  /\ UNCHANGED <<name, client, slug, access, severed, raced>>

(* Transaction 3 of a project without one: it reads the slug of the client, *)
(* whose row nobody locks for it.  The project row is locked.               *)
ActivateFirst(k) ==
  /\ Doing(k, "publish", "compiling")
  /\ LET p == calls[k].project
     IN  /\ ~ProjectLocked(p)
         /\ NeedsAccess(p)
         /\ client[p] # None
         /\ calls' = [calls EXCEPT ![k] = [@ EXCEPT !.pc = "activating",
                        !.clientSlug = slug[client[p]], !.overtaken = FALSE]]
  /\ UNCHANGED <<name, client, slug, access, publication, severed, raced>>

(* The insert and the commit.  Should another address have come meanwhile,  *)
(* the unique index refuses this one and everything is rolled back: Abort.  *)
CreateFirstAccess(k) ==
  /\ Doing(k, "publish", "activating")
  /\ LET p == calls[k].project
     IN  /\ Current(p) = {}
         /\ publication' = Activated(p, calls[k].revision)
         /\ \E a \in Accesses :
              /\ Fresh(a)
              /\ access' = [access EXCEPT ![a] =
                   Row(p, calls[k].clientSlug, SlugOf[name[p]], "none")]
         /\ Taint(k, {p})
  /\ End(k)
  /\ UNCHANGED <<name, client, slug, severed>>

-----------------------------------------------------------------------------
(* Renaming a project and changing its client: one transaction each, which  *)
(* holds the lock of the project from its first update.                     *)

SlugIsKept(a, n) == TRUE   \* mutant of SlugUnchanged
SlugUnchanged(a, n) == access[a].projectSlug = SlugOf[n]

(* renameProjectAtomic: the update, then findCurrentAccess.  It rotates if  *)
(* there is an address with another project slug, and keeps the client slug *)
(* it finds there.  A stale version changes nothing.                        *)
RenameProject(k, p, n) ==
  /\ calls[k] = None
  /\ ~ProjectLocked(p)
  /\ \E pc \in {"seeking", "committing"}, cs \in ClientSlugs \cup {None} :
       /\ IF \E a \in Current(p) : ~SlugUnchanged(a, n)
          THEN pc = "seeking" /\ \E a \in Current(p) : cs = access[a].clientSlug
          ELSE pc = "committing" /\ cs = None
       /\ calls' = [calls EXCEPT ![k] =
            [op |-> "rename", pc |-> pc, project |-> p, name |-> n, clientSlug |-> cs,
             projectSlug |-> SlugOf[n], target |-> None, overtaken |-> FALSE]]
  /\ UNCHANGED <<name, client, slug, access, publication, severed, raced>>

(* reassignProjectClient reads the slug of the new client, locking nothing. *)
ReadNewClient(k, p, c) ==
  /\ calls[k] = None
  /\ calls' = [calls EXCEPT ![k] =
       [op |-> "reassign", pc |-> "resolved", project |-> p, client |-> c, clientSlug |-> slug[c],
        projectSlug |-> None, target |-> None, overtaken |-> FALSE]]
  /\ UNCHANGED <<name, client, slug, access, publication, severed, raced>>

(* Then it updates the project and reads its address, whose project slug it *)
(* keeps.  It rotates even to the same slugs.                               *)
ReassignClient(k) ==
  /\ Doing(k, "reassign", "resolved")
  /\ ~ProjectLocked(calls[k].project)
  /\ ~ClientLocked(calls[k].client)
  /\ LET old == Current(calls[k].project)
     IN  \/ /\ old = {}
            /\ calls' = [calls EXCEPT ![k] = [@ EXCEPT !.pc = "committing"]]
         \/ \E a \in old :
              calls' = [calls EXCEPT ![k] = [@ EXCEPT !.pc = "seeking",
                                              !.projectSlug = access[a].projectSlug]]
  /\ UNCHANGED <<name, client, slug, access, publication, severed, raced>>

(* rotateAccess begins: the snapshot of its SELECT ... FOR UPDATE.          *)
Seek(k) ==
  /\ \E op \in {"rename", "reassign"} : Doing(k, op, "seeking")
  /\ \E a \in Accesses \cup {None} :
       /\ IF a = None THEN Current(calls[k].project) = {} ELSE a \in Current(calls[k].project)
       /\ calls' = [calls EXCEPT ![k] = [@ EXCEPT !.pc = "committing", !.target = a]]
  /\ UNCHANGED <<name, client, slug, access, publication, severed, raced>>

(* The rotation of the address it sought, if that is still current, and the *)
(* commit, which makes the new name or client visible.                      *)
CommitChange(k) ==
  /\ \E op \in {"rename", "reassign"} : Doing(k, op, "committing")
  /\ LET call == calls[k]  p == call.project
     IN  /\ name' = IF call.op = "rename" THEN [name EXCEPT ![p] = call.name] ELSE name
         /\ client' = IF call.op = "reassign" THEN [client EXCEPT ![p] = call.client] ELSE client
         /\ \/ /\ call.target \notin Current(p)
               /\ UNCHANGED access
            \/ /\ call.target \in Current(p)
               /\ \E a \in Accesses :
                    Fresh(a) /\ access' = Rotated(call.target, a, call.clientSlug, call.projectSlug)
         /\ Taint(k, {p})
  /\ End(k)
  /\ UNCHANGED <<slug, publication, severed>>

-----------------------------------------------------------------------------
(* Renaming a client: one transaction that rotates the address of each of   *)
(* its projects (renameClientAtomic).                                       *)

ClientsOf(c) == {p \in Projects : client[p] = c}

(* The update locks the client; the SELECT joins its projects with their    *)
(* addresses.                                                               *)
RenameClient(k, c, cs) ==
  /\ calls[k] = None
  /\ ~ClientLocked(c)
  /\ calls' = [calls EXCEPT ![k] = [op |-> "renameClient", client |-> c, clientSlug |-> cs,
                 targets |-> UNION {Current(p) : p \in ClientsOf(c)}, overtaken |-> FALSE]]
  /\ UNCHANGED <<name, client, slug, access, publication, severed, raced>>

NoneAffected(k) == {}   \* mutant of Affected
(* The rows it selected that are still current and carry another slug.      *)
Affected(k) == {a \in calls[k].targets :
  access[a] # None /\ access[a].status # "revoked" /\ access[a].clientSlug # calls[k].clientSlug}

(* All of them rotate and the client gets its slug, unless another client   *)
(* has it by now (DUPLICATE_CLIENT_SLUG, which Abort stands for).           *)
CommitClientRename(k) ==
  /\ calls[k] # None /\ calls[k].op = "renameClient"
  /\ \A c \in Clients \ {calls[k].client} : slug[c] # calls[k].clientSlug
  /\ \E new \in [Affected(k) -> {a \in Accesses : Fresh(a)}] :
       /\ \A a, b \in Affected(k) : new[a] = new[b] => a = b
       /\ access' = [a \in Accesses |->
            IF a \in Affected(k) THEN Revoked(a)
            ELSE IF \E old \in Affected(k) : new[old] = a
            THEN LET old == CHOOSE old \in Affected(k) : new[old] = a
                 IN  Row(access[old].project, calls[k].clientSlug, access[old].projectSlug, "pending")
            ELSE access[a]]
  /\ slug' = [slug EXCEPT ![calls[k].client] = calls[k].clientSlug]
  /\ Taint(k, ClientsOf(calls[k].client))
  /\ End(k)
  /\ UNCHANGED <<name, client, publication, severed>>

-----------------------------------------------------------------------------
(* Rotation by hand: the route reads the address, then rotateAccess runs    *)
(* on the pool, one transaction per statement.                              *)

ReadForRotation(k, p) ==
  /\ calls[k] = None
  /\ \E a \in Current(p) :
       calls' = [calls EXCEPT ![k] =
         [op |-> "rotate", pc |-> "resolved", project |-> p, clientSlug |-> access[a].clientSlug,
          projectSlug |-> access[a].projectSlug, target |-> None, overtaken |-> FALSE]]
  /\ UNCHANGED <<name, client, slug, access, publication, severed, raced>>

(* SELECT ... FOR UPDATE, whose lock ends with it.  Without a row the       *)
(* handler fails on null: Abort.                                            *)
SelectForRotation(k) ==
  /\ Doing(k, "rotate", "resolved")
  /\ \E a \in Current(calls[k].project) :
       calls' = [calls EXCEPT ![k] = [@ EXCEPT !.pc = "selected", !.target = a]]
  /\ UNCHANGED <<name, client, slug, access, publication, severed, raced>>

(* The update by identifier, which does not look at the status.             *)
RevokeByHand(k) ==
  /\ Doing(k, "rotate", "selected")
  /\ access' = [access EXCEPT ![calls[k].target] = Revoked(calls[k].target)]
  /\ calls' = [j \in Callers |->
       IF j = k THEN [calls[k] EXCEPT !.pc = "revoked"] ELSE Ended(k, EveryReader)[j]]
  /\ UNCHANGED <<name, client, slug, publication, severed, raced>>

(* The insert, unless the unique index refuses it: Abort.                   *)
InsertByHand(k) ==
  /\ Doing(k, "rotate", "revoked")
  /\ LET p == calls[k].project
     IN  /\ Current(p) = {}
         /\ \E a \in Accesses :
              /\ Fresh(a)
              /\ access' = [access EXCEPT ![a] = Row(p, calls[k].clientSlug,
                   calls[k].projectSlug, "pending")]
         /\ Taint(k, {p})
  /\ End(k)
  /\ UNCHANGED <<name, client, slug, publication, severed>>

-----------------------------------------------------------------------------
(* A call fails or its process dies.  A transaction rolls back; what a      *)
(* publication reserved and what a rotation by hand revoked stays.          *)

Abort(k) ==
  /\ calls[k] # None
  /\ severed' = IF Doing(k, "rotate", "revoked") THEN severed \cup {calls[k].project} ELSE severed
  /\ calls' = Ended(k, NoCall)
  /\ UNCHANGED <<name, client, slug, access, publication, raced>>

(* acknowledgeRedistribution of the row the route just read.                *)
Acknowledge(p) ==
  /\ \E a \in Current(p) :
       /\ access[a].notice = "pending"
       /\ access' = [access EXCEPT ![a].notice = "acknowledged"]
  /\ UNCHANGED <<name, client, slug, publication, calls, severed, raced>>

Next ==
  \/ \E k \in Callers :
       \/ \E p \in Projects :
            \/ Reserve(k, p) \/ ReadForRotation(k, p)
            \/ \E n \in Names : RenameProject(k, p, n)
            \/ \E c \in Clients : ReadNewClient(k, p, c)
       \/ \E c \in Clients, cs \in ClientSlugs : RenameClient(k, c, cs)
       \/ PublishFailed(k) \/ Activate(k) \/ ActivateFirst(k) \/ CreateFirstAccess(k)
       \/ ReassignClient(k) \/ Seek(k) \/ CommitChange(k) \/ CommitClientRename(k)
       \/ SelectForRotation(k) \/ RevokeByHand(k) \/ InsertByHand(k) \/ Abort(k)
  \/ \E p \in Projects : Acknowledge(p)

Spec == Init /\ [][Next]_vars

-----------------------------------------------------------------------------
(* The public reader: resolvePublicAccess, then findActivePublication.      *)

(* What a visitor gets who presents the address of row a.                   *)
Resolved(a) ==
  CASE access[a].status = "revoked" -> "gone"
    [] OTHER -> IF Published(access[a].project) = {} THEN "not found" ELSE "served"

-----------------------------------------------------------------------------
(* Properties.                                                              *)

HalfRotated(p) ==
  \/ p \in severed
  \/ \E k \in Callers : Doing(k, "rotate", "revoked") /\ calls[k].project = p

(* Activation and the address belong together (createPublication): whoever  *)
(* presents an available address is served, and a published project has an  *)
(* address, unless a rotation by hand stopped between its two statements.   *)
PublishedIsAddressed ==
  /\ \A a \in Accesses :
       access[a] # None /\ access[a].status = "active" => Resolved(a) = "served"
  /\ \A p \in Projects : Published(p) # {} => Current(p) # {} \/ HalfRotated(p)

(* What createPublication promises in its comment, without the exception:   *)
(* no active publication is left without an address once every request has  *)
(* ended.  It does not hold.                                                *)
NoOrphanPublication ==
  (\A k \in Callers : calls[k] = None) =>
    \A p \in Projects : Published(p) # {} => Current(p) # {}

(* The current address shows the present names of project and client unless *)
(* a call that wrote it was overtaken by another: every caller of           *)
(* rotateAccess copies the half that it does not change.                    *)
AddressesFollowNames ==
  \A p \in Projects : \A a \in Current(p) : p \notin raced =>
    /\ access[a].projectSlug = SlugOf[name[p]]
    /\ client[p] # None /\ access[a].clientSlug = slug[client[p]]

(* Whoever has to hand out a new link is told so: the current address shows *)
(* a notice, pending or acknowledged, when the project had another before,  *)
(* unless a rotation by hand was interrupted (isRedistributionPending).     *)
NoticeUnlessFirst ==
  \A p \in Projects : \A a \in Current(p) :
    access[a].notice = "none" =>
      \/ \A b \in Accesses : Of(b, p) => a = b
      \/ HalfRotated(p)

(* At most one publication of a project is active and one address current,  *)
(* although rotations and activations start from different transactions.    *)
OneOfEach == \A p \in Projects :
  /\ \A a, b \in Current(p) : a = b
  /\ \A r, q \in Published(p) : r = q
=============================================================================
