-------------------------------- MODULE Access --------------------------------
(***************************************************************************)
(* Who may do what: grants, the group mappings that produce some of them,  *)
(* logins that reconcile them, the life of a user, and sessions.           *)
(*                                                                         *)
(* An administrator revokes a grant, disables a mapping or deactivates a   *)
(* user; each first checks that the scope keeps an active administrator,   *)
(* and writes afterwards.  At the same time people log in: a login reads   *)
(* the user, reconciles the grants of the user with the groups the         *)
(* identity provider claims, and inserts a session, in three transactions. *)
(*                                                                         *)
(* Everything runs at READ COMMITTED.  A call is a check step and a commit *)
(* step; what excludes two calls is only the row one of them locks, which  *)
(* UserLocked and MappingLocked name.  The foreign keys of sessions and of *)
(* grants take a share lock that FOR UPDATE excludes.                      *)
(*                                                                         *)
(* A grant that is revoked and a session that is revoked or deleted are    *)
(* no rows here: no query reads them again, and their identifier may       *)
(* return once no call remembers it.  There is one identity provider and   *)
(* a group is the mapping it selects.  Every user is linked to an external *)
(* identity until anonymized, and is a member wherever grants may come.    *)
(***************************************************************************)
EXTENDS Naturals, FiniteSets

CONSTANTS
  Users, Projects, Organizations,
  Mappings,     \* external_group_mappings
  Target,       \* the project or organisation of a mapping
  Administers,  \* whether the bundle of a mapping carries the administrative capability
  Grants,       \* bound: rows of project_grants and organization_grants active at once
  Sessions,     \* bound: sessions usable at once
  Callers,      \* bound: requests in progress at once
  Founders,     \* bound: direct administrators a scope begins with
  None

Scopes == Projects \cup Organizations

ASSUME NoneIsNoName == None \notin Users \cup Mappings \cup Grants \cup Sessions
ASSUME FoundersIsPositive == Founders \in Nat \ {0}
ASSUME MappingsAreConfigured ==
  Target \in [Mappings -> Scopes] /\ Administers \in [Mappings -> BOOLEAN]

VARIABLES
  status,    \* users.status
  rows,      \* the active grants
  disabled,  \* mappings with status 'disabled'
  sessions,  \* auth_sessions with revoked_at null
  calls      \* requests in progress

vars == <<status, rows, disabled, sessions, calls>>

-----------------------------------------------------------------------------
(* Types.                                                                   *)

UserStatus == {"active", "deactivated", "anonymized"}

(* A direct grant has no mapping; a mapped one has the target and bundle of *)
(* its mapping.                                                             *)
Row == [user : Users, scope : Scopes, admin : BOOLEAN, mapping : Mappings \cup {None}]
ASSUME NoneIsNoRow == None \notin Row
ElevatedRow(u, m) ==   \* mutant of MappedRow: every mapped grant is administrative
  [user |-> u, scope |-> Target[m], admin |-> TRUE, mapping |-> m]
MappedRow(u, m) ==
  [user |-> u, scope |-> Target[m], admin |-> Administers[m], mapping |-> m]

(* "late" is history: the session was inserted after the last deactivation  *)
(* of its user, before any reactivation.                                    *)
Session == [user : Users, late : BOOLEAN]

(* "raced": another commit came since the call made its checks.  "claim" is *)
(* the complete list of groups, None when the provider had none to give.    *)
Revocation == [op : {"revoke"}, grant : Grants, raced : BOOLEAN]
Disabling == [op : {"disable"}, mapping : Mappings, raced : BOOLEAN]
Deactivation == [op : {"deactivate"}, user : Users, open : SUBSET Sessions, raced : BOOLEAN]
Login == [op : {"login"}, pc : {"resolved", "decided", "reconciled"},
          user : Users, claim : (SUBSET Mappings) \cup {None},
          matching : SUBSET Mappings, add : SUBSET Mappings,
          drop : SUBSET Grants, raced : BOOLEAN]
NewLogin(u) == [op |-> "login", pc |-> "resolved", user |-> u, claim |-> None,
                matching |-> {}, add |-> {}, drop |-> {}, raced |-> FALSE]

Call == Revocation \cup Disabling \cup Deactivation \cup Login

(* Every variable has its type; a mapped grant carries exactly the target   *)
(* and bundle of its mapping (the inserts of groupReconciliation.js), so a  *)
(* mapping never gives authority beyond its own scope and bundle.           *)
TypeOK ==
  /\ status \in [Users -> UserStatus]
  /\ rows \in [Grants -> Row \cup {None}]
  /\ \A g \in Grants : rows[g] # None /\ rows[g].mapping # None =>
       /\ rows[g].scope = Target[rows[g].mapping]
       /\ rows[g].admin = Administers[rows[g].mapping]
  /\ disabled \in SUBSET Mappings
  /\ sessions \in [Sessions -> Session \cup {None}]
  /\ calls \in [Callers -> Call \cup {None}]

(* Every scope begins with direct administrators: who created it, and those *)
(* who accepted an invitation since.                                        *)
Init ==
  /\ status = [u \in Users |-> "active"]
  /\ \E who \in [Scopes \X (1..Founders) -> Users], at \in [Scopes \X (1..Founders) -> Grants] :
       /\ \A p, q \in DOMAIN at : at[p] = at[q] => p = q
       /\ rows = [g \in Grants |->
            IF \E p \in DOMAIN at : at[p] = g
            THEN LET p == CHOOSE p \in DOMAIN at : at[p] = g
                 IN  [user |-> who[p], scope |-> p[1], admin |-> TRUE, mapping |-> None]
            ELSE None]
  /\ disabled = {}
  /\ sessions = [s \in Sessions |-> None]
  /\ calls = [c \in Callers |-> None]

-----------------------------------------------------------------------------
(* The predicates the handlers share.                                       *)

Doing(c, op) == calls[c] # None /\ calls[c].op = op

UserNeverLocked(u) == FALSE   \* mutant of UserLocked: no FOR UPDATE on the user

(* The rows held by a transaction in progress.                              *)
UserLocked(u) == \E c \in Callers : Doing(c, "deactivate") /\ calls[c].user = u
MappingLocked(m) == \E c \in Callers : Doing(c, "disable") /\ calls[c].mapping = m

(* A login that inserted grants of m and has not committed keeps a share    *)
(* lock on the mapping.                                                     *)
MappingShared(m) ==
  \E c \in Callers : Doing(c, "login") /\ calls[c].pc = "decided" /\ m \in calls[c].add

Active(g) == rows[g] # None
Remembered(g) == \E c \in Callers :
  \/ Doing(c, "revoke") /\ calls[c].grant = g
  \/ Doing(c, "login") /\ g \in calls[c].drop
FreeGrants == {g \in Grants : ~Active(g) /\ ~Remembered(g)}
FreeSessions == {s \in Sessions : /\ sessions[s] = None
                                  /\ \A c \in Callers : Doing(c, "deactivate") => s \notin calls[c].open}

(* Mutant of AuthorityRemains: users who may not log in are counted.        *)
AuthorityOfAnybody(s, excluding, own) ==
  \E r \in {rows[g] : g \in {h \in Grants \ excluding : Active(h)}} \cup own :
    r.scope = s /\ r.admin

(* hasAdministrativeCapabilityRemaining; "own" are rows the transaction     *)
(* inserted itself.                                                         *)
AuthorityRemains(s, excluding, own) ==
  \E r \in {rows[g] : g \in {h \in Grants \ excluding : Active(h)}} \cup own :
    r.scope = s /\ r.admin /\ status[r.user] = "active"

(* A commit ends or advances call c and overtakes the calls whose checks    *)
(* came before it.                                                          *)
Checked(call) == call.op = "login" => call.pc = "decided"
Commits(c, next) ==
  calls' = [d \in Callers |->
    IF d = c THEN next
    ELSE IF calls[d] # None /\ Checked(calls[d]) THEN [calls[d] EXCEPT !.raced = TRUE]
    ELSE calls[d]]
Begins(c, call) == calls[c] = None /\ calls' = [calls EXCEPT ![c] = call]

-----------------------------------------------------------------------------
(* Revocation of one grant of a project.                                    *)

(* The grant was active when it was read; one that is not when the check    *)
(* runs only makes the write a no-op.                                       *)
RevokeCheck(c, g) ==
  /\ Active(g) /\ rows[g].scope \in Projects
  /\ rows[g].admin => AuthorityRemains(rows[g].scope, {g}, {})
  /\ Begins(c, [op |-> "revoke", grant |-> g, raced |-> FALSE])
  /\ UNCHANGED <<status, rows, disabled, sessions>>

RevokeWrite(c) ==
  /\ Doing(c, "revoke")
  /\ rows' = [rows EXCEPT ![calls[c].grant] = None]
  /\ Commits(c, None)
  /\ UNCHANGED <<status, disabled, sessions>>

-----------------------------------------------------------------------------
(* Disabling a mapping, which revokes the grants it produced.               *)

FromMapping(m) == {g \in Grants : Active(g) /\ rows[g].mapping = m}

DisableCheck(c, m) ==
  /\ m \notin disabled /\ ~MappingLocked(m) /\ ~MappingShared(m)
  /\ (\E g \in FromMapping(m) : rows[g].admin) =>
       AuthorityRemains(Target[m], FromMapping(m), {})
  /\ Begins(c, [op |-> "disable", mapping |-> m, raced |-> FALSE])
  /\ UNCHANGED <<status, rows, disabled, sessions>>

DisableCommit(c) ==
  /\ Doing(c, "disable")
  /\ LET m == calls[c].mapping
     IN  /\ rows' = [g \in Grants |-> IF g \in FromMapping(m) THEN None ELSE rows[g]]
         /\ disabled' = disabled \cup {m}
  /\ Commits(c, None)
  /\ UNCHANGED <<status, sessions>>

-----------------------------------------------------------------------------
(* The life of a user.                                                      *)

AdministrativeGrants(u, s) ==
  {g \in Grants : Active(g) /\ rows[g].user = u /\ rows[g].scope = s /\ rows[g].admin}

(* The check, and the sessions the revocation finds; the row of the user    *)
(* stays locked until the commit.                                           *)
DeactivateCheck(c, u) ==
  /\ status[u] = "active" /\ ~UserLocked(u)
  /\ \A s \in Scopes : AdministrativeGrants(u, s) # {} =>
       AuthorityRemains(s, AdministrativeGrants(u, s), {})
  /\ Begins(c, [op |-> "deactivate", user |-> u, raced |-> FALSE,
                open |-> {s \in Sessions : sessions[s] # None /\ sessions[s].user = u}])
  /\ UNCHANGED <<status, rows, disabled, sessions>>

DeactivateCommit(c) ==
  /\ Doing(c, "deactivate")
  /\ LET u == calls[c].user
     IN  /\ status' = [status EXCEPT ![u] = "deactivated"]
         /\ sessions' = [s \in Sessions |->
              IF s \in calls[c].open THEN None
              ELSE IF sessions[s] # None /\ sessions[s].user = u
              THEN [sessions[s] EXCEPT !.late = FALSE]
              ELSE sessions[s]]
  /\ Commits(c, None)
  /\ UNCHANGED <<rows, disabled>>

Reactivate(u) ==
  /\ status[u] = "deactivated"
  /\ status' = [status EXCEPT ![u] = "active"]
  /\ Commits(None, None)
  /\ UNCHANGED <<rows, disabled, sessions>>

(* Sessions and external identities are deleted, grants revoked; no check   *)
(* for a last administrator, the user lost that authority before.           *)
Anonymize(u) ==
  /\ status[u] = "deactivated"
  /\ status' = [status EXCEPT ![u] = "anonymized"]
  /\ rows' = [g \in Grants |-> IF Active(g) /\ rows[g].user = u THEN None ELSE rows[g]]
  /\ sessions' = [s \in Sessions |->
       IF sessions[s] # None /\ sessions[s].user = u THEN None ELSE sessions[s]]
  /\ Commits(None, None)
  /\ UNCHANGED disabled

-----------------------------------------------------------------------------
(* A login through the identity provider.                                   *)

AlwaysLinked(u) == TRUE   \* mutant of Linked: the identity outlives its user

(* Anonymization deletes the external identities of the user.               *)
Linked(u) == status[u] # "anonymized"

(* The user is resolved and the mappings of the claimed groups are read;    *)
(* the list of groups may be incomplete.                                    *)
LoginStart(c, u, groups) ==
  /\ Linked(u) /\ status[u] = "active"
  /\ \E claim \in {groups, None} :
       Begins(c, [NewLogin(u) EXCEPT !.claim = claim, !.matching = groups \ disabled])
  /\ UNCHANGED <<status, rows, disabled, sessions>>

(* The provider gave no groups, or an error: no reconciliation.             *)
LoginWithoutGroups(c, u) ==
  /\ Linked(u) /\ status[u] = "active"
  /\ Begins(c, [NewLogin(u) EXCEPT !.pc = "reconciled"])
  /\ UNCHANGED <<status, rows, disabled, sessions>>

MappedTo(u, m) == {g \in Grants : Active(g) /\ rows[g].user = u /\ rows[g].mapping = m}
Missing(u, matching) == {m \in matching : MappedTo(u, m) = {}}

(* Mutant of Unclaimed: only the mappings still active are looked at.       *)
UnclaimedActive(u, claim) == UNION {MappedTo(u, m) : m \in Mappings \ (claim \cup disabled)}

(* Grants whose group is no longer claimed, whatever became of the mapping. *)
Unclaimed(u, claim) == UNION {MappedTo(u, m) : m \in Mappings \ claim}
UnclaimedIn(u, claim, s) == {g \in Unclaimed(u, claim) : rows[g].scope = s}

(* All the unclaimed grants of a scope go, or none if they hold its last    *)
(* authority.                                                               *)
Withdrawn(u, claim, own) ==
  UNION {UnclaimedIn(u, claim, s) : s \in {t \in Scopes :
    (\E g \in UnclaimedIn(u, claim, t) : rows[g].admin) =>
      AuthorityRemains(t, UnclaimedIn(u, claim, t), own)}}

(* The statements of the reconciliation: inserts, then checks and           *)
(* revocations, nothing visible to others before the commit.                *)
LoginDecide(c) ==
  /\ Doing(c, "login") /\ calls[c].pc = "resolved"
  /\ LET l == calls[c]
         add == Missing(l.user, l.matching)
         own == {MappedRow(l.user, m) : m \in add}
         drop == IF l.claim = None THEN {} ELSE Withdrawn(l.user, l.claim, own)
     IN  /\ \A m \in add : ~MappingLocked(m)
         /\ calls' = [calls EXCEPT ![c] =
              [l EXCEPT !.pc = "decided", !.matching = {}, !.add = add, !.drop = drop]]
  /\ UNCHANGED <<status, rows, disabled, sessions>>

LoginCommit(c) ==
  /\ Doing(c, "login") /\ calls[c].pc = "decided"
  /\ LET l == calls[c]
     IN  /\ \E at \in [l.add -> FreeGrants] :
              /\ \A m, n \in l.add : at[m] = at[n] => m = n
              /\ rows' = [g \in Grants |->
                   IF \E m \in l.add : at[m] = g
                   THEN MappedRow(l.user, CHOOSE m \in l.add : at[m] = g)
                   ELSE IF g \in l.drop THEN None ELSE rows[g]]
         /\ Commits(c, [NewLogin(l.user) EXCEPT !.pc = "reconciled"])
  /\ UNCHANGED <<status, disabled, sessions>>

(* The session refers to the user and to the external identity: the insert  *)
(* waits for a deactivation and fails once the identity is gone.  Nobody    *)
(* reads the status again, so a user deactivated since gets his session.    *)
LoginSession(c, s) ==
  /\ Doing(c, "login") /\ calls[c].pc = "reconciled"
  /\ ~UserLocked(calls[c].user) /\ Linked(calls[c].user)
  /\ s \in FreeSessions
  /\ sessions' = [sessions EXCEPT ![s] =
       [user |-> calls[c].user, late |-> status[calls[c].user] # "active"]]
  /\ calls' = [calls EXCEPT ![c] = None]
  /\ UNCHANGED <<status, rows, disabled>>

(* A statement fails: rollback, and no session.                             *)
LoginFails(c) ==
  /\ Doing(c, "login")
  /\ calls' = [calls EXCEPT ![c] = None]
  /\ UNCHANGED <<status, rows, disabled, sessions>>

Logout(s) ==
  /\ sessions[s] # None
  /\ sessions' = [sessions EXCEPT ![s] = None]
  /\ UNCHANGED <<status, rows, disabled, calls>>

-----------------------------------------------------------------------------
Next ==
  \/ \E c \in Callers :
       \/ \E g \in Grants : RevokeCheck(c, g)
       \/ RevokeWrite(c)
       \/ \E m \in Mappings : DisableCheck(c, m)
       \/ DisableCommit(c)
       \/ \E u \in Users : DeactivateCheck(c, u)
       \/ DeactivateCommit(c)
       \/ \E u \in Users, groups \in SUBSET Mappings : LoginStart(c, u, groups)
       \/ \E u \in Users : LoginWithoutGroups(c, u)
       \/ LoginDecide(c)
       \/ LoginCommit(c)
       \/ \E s \in Sessions : LoginSession(c, s)
       \/ LoginFails(c)
  \/ \E u \in Users : Reactivate(u) \/ Anonymize(u)
  \/ \E s \in Sessions : Logout(s)

Spec == Init /\ [][Next]_vars

-----------------------------------------------------------------------------
(* Properties.                                                              *)

HasAdministrator(s) ==
  \E g \in Grants : /\ rows[g] # None
                    /\ rows[g].scope = s /\ rows[g].admin
                    /\ status[rows[g].user] = "active"

(* A scope loses its last active administrator only through a call whose    *)
(* check was overtaken by another commit: revocation, disabling,            *)
(* deactivation, login and anonymization each keep the rule of              *)
(* lastAdministrator.js when they do not overlap, whatever came before.     *)
OnlyRacesOrphan ==
  [][\A s \in Scopes : HasAdministrator(s) /\ ~HasAdministrator(s)' =>
       \E c \in Callers : /\ calls[c] # None /\ calls[c].raced
                          /\ calls'[c] # calls[c]]_vars

Holds(u, m) == \E g \in Grants :
  rows[g] # None /\ rows[g].user = u /\ rows[g].mapping = m

(* The grants of u agree with a claim: every claimed mapping still active   *)
(* is granted, and one no longer claimed is held only where its withdrawal  *)
(* would leave the scope to nobody else.                                    *)
Reconciled(u, claim) ==
  /\ \A m \in claim \ disabled : Holds(u, m)
  /\ \A m \in Mappings \ claim : Holds(u, m) =>
       ~\E g \in Grants :
          /\ rows[g] # None /\ rows[g].admin /\ rows[g].scope = Target[m]
          /\ status[rows[g].user] = "active"
          /\ ~(rows[g].user = u /\ rows[g].mapping \in Mappings \ claim)

(* A login with a complete list of groups leaves the grants of its user     *)
(* exactly as the provider says, also those a disabled mapping left behind, *)
(* unless another commit came between its reads and its commit.             *)
ReconciliationIsExact ==
  [][\A c \in Callers :
       /\ Doing(c, "login") /\ calls[c].pc = "decided" /\ ~calls[c].raced
       /\ calls'[c] # None /\ calls'[c].pc = "reconciled"
       => \A u \in {calls[c].user}, claim \in {calls[c].claim} \ {None} :
            Reconciled(u, claim)']_vars

(* No session outlives a deactivation of its user, not even one inserted    *)
(* while the deactivation was in progress: what a deactivated user has, and *)
(* a reactivation makes valid, was inserted after the deactivation by a     *)
(* login that had read him active before.  That exception is the code's:    *)
(* linking.js says that no session is ever created for a user who is not    *)
(* active, and userLifecycle.js that a reactivated user must log in again.  *)
SessionsAreCurrent ==
  \A s \in Sessions :
    sessions[s] # None /\ status[sessions[s].user] = "deactivated" => sessions[s].late

(* An anonymized user has no session, also when a login was in progress.    *)
AnonymizedLeavesNoSession ==
  \A s \in Sessions : sessions[s] # None => status[sessions[s].user] # "anonymized"

(* The comment before revokeProjectGrant: a revocation that would leave the *)
(* project without any administrative capability is blocked.                *)
LastAdminKept == \A s \in Scopes : HasAdministrator(s)

(* The comment before disableExternalGroupMapping: disabling a mapping      *)
(* revokes all the active grants it is the source of.                       *)
DisabledMappingGrantsNothing ==
  \A g \in Grants : rows[g] # None => rows[g].mapping \notin disabled
=============================================================================
