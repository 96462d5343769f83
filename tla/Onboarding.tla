------------------------------ MODULE Onboarding ------------------------------
(***************************************************************************)
(* How people come in: a project is created with its invitations, more are *)
(* sent or revoked, and whoever logs in for the first time is linked to a  *)
(* new account, which takes the invitations that wait for its email.       *)
(*                                                                         *)
(* The first login runs on the pool, each statement its own transaction:   *)
(* look up the identity, look up the email, insert the user, insert the    *)
(* identity, list the invitations, accept each in a transaction, insert    *)
(* the session.  The process may stop between any two.  The groups of the  *)
(* provider are reconciled before the session (Access); the project itself *)
(* lives in ProjectDeletion and PublicAddress.  The end of an account is   *)
(* here for what it deletes; the last-administrator rule, which may refuse *)
(* a deactivation, is in Access.                                           *)
(***************************************************************************)
EXTENDS Clock, FiniteSets

CONSTANTS
  Projects, Users, Subjects, Invitations, Sessions,
  Emails,       \* as they are written
  Folded,       \* trimmed and in lower case: only the creation of a project folds them
  Browsers,     \* bound: logins in progress at once
  MaxLogins,    \* bound: logins
  SessionTtl,   \* config.sso.sessionTtlHours
  None, Gone    \* not created yet; deleted, and the id never used again

ASSUME FoldedIsAFunction == Folded \in [Emails -> Emails]
ASSUME TtlIsPositive == SessionTtl \in Nat \ {0}
ASSUME NoneIsNoValue == None \notin Nat \cup Users \cup Invitations \cup {Gone}

VARIABLES
  creator,      \* projects: who created each
  invitations,  \* project_invitations
  grants,       \* project_grants, with the invitation each comes from
  staff,        \* tenant_memberships
  users,
  identities,   \* external_identities, by (issuer, subject)
  sessions,     \* auth_sessions
  logins,       \* callbacks in progress
  started,      \* logins so far
  stranded,     \* history: users whose login stopped before their identity was linked
  overtaken     \* history: users anonymized before their first login ended

onboarding == <<creator, invitations, grants, staff, users, identities, sessions,
                logins, started, stranded, overtaken>>

Terminal == {"accepted", "revoked", "expired"}
(* accepted_at, revoked_at, expired_at: the one of its status is set.       *)
Invitation == [project : Projects, email : Emails, status : {"pending"} \cup Terminal,
               created : Times, settled : Times \cup {None}]
Grant == [user : Users, project : Projects, from : Invitations \cup {None}]
(* "born" and "by" are history: the email and the subject at the creation.  *)
User == [email : Emails \cup {None}, status : {"active", "deactivated", "anonymized"},
         born : Emails, by : Subjects]
Identity == [user : Users, linked : Times, email : BOOLEAN]   \* whether email_at_linking is set
AuthSession == [user : Users, identity : Subjects, expires : Nat, revoked : Times \cup {None}]
Login == [pc : {"unlinked", "creating", "created", "linked", "accepting"},
          subject : Subjects, email : Emails, user : Users \cup {None},
          listed : SUBSET Invitations]
ASSUME NoneIsNoRow == {None, Gone} \cap (Invitation \cup User \cup Identity \cup AuthSession \cup Login) = {}

(* Types, and the unique and foreign keys the handlers lean on: emails,     *)
(* and identities that refer to a user.                                     *)
OnboardingTypeOK ==
  /\ creator \in [Projects -> Users \cup {None}]
  /\ invitations \in [Invitations -> Invitation \cup {None, Gone}]
  /\ grants \in SUBSET Grant /\ staff \in SUBSET Users
  /\ users \in [Users -> User \cup {None}]
  /\ \A u, v \in Users : users[u] # None /\ users[v] # None /\ u # v =>
       users[u].email = None \/ users[u].email # users[v].email
  /\ identities \in [Subjects -> Identity \cup {None}]
  /\ \A s \in Subjects : identities[s] # None => users[identities[s].user] # None
  /\ sessions \in [Sessions -> AuthSession \cup {None}]
  /\ logins \in [Browsers -> Login \cup {None}]
  /\ started \in Nat /\ stranded \in SUBSET Users /\ overtaken \in SUBSET Users

OnboardingInit ==
  /\ creator = [p \in Projects |-> None] /\ invitations = [i \in Invitations |-> None]
  /\ grants = {} /\ staff = {}
  /\ users = [u \in Users |-> None] /\ identities = [s \in Subjects |-> None]
  /\ sessions = [x \in Sessions |-> None]
  /\ logins = [b \in Browsers |-> None] /\ started = 0
  /\ stranded = {} /\ overtaken = {}

-----------------------------------------------------------------------------
(* Invitations.                                                             *)

Pending(i) == invitations[i] \notin {None, Gone} /\ invitations[i].status = "pending"
NewInvitation(p, e) == [project |-> p, email |-> e, status |-> "pending",
                        created |-> now, settled |-> None]
Settled(i, status) == [invitations[i] EXCEPT !.status = status, !.settled = now]

IsActive(u) == users[u] # None /\ users[u].status = "active"

(* POST /api/projects, one transaction: the project, its creator as member  *)
(* and administrator, the invitations.  Two invitations that differ by case *)
(* are refused, one to the creator himself is dropped.                      *)
Acceptable(invited) == \A e, f \in invited : Folded[e] = Folded[f] => e = f
Guests(invited, u) == {e \in invited : Folded[e] # Folded[users[u].email]}
(* The row with its identity, settings and modules.                         *)
InsertProject(p, u) == creator' = [creator EXCEPT ![p] = u]
InsertMembership(u, p) == grants' = grants \cup {[user |-> u, project |-> p, from |-> None]}
CreateProject(u, p) == \E invited \in SUBSET Emails :
  /\ creator[p] = None /\ IsActive(u)
  /\ Acceptable(invited)
  /\ \E row \in [Guests(invited, u) -> {i \in Invitations : invitations[i] = None}] :
       /\ \A e, f \in Guests(invited, u) : row[e] = row[f] => e = f
       /\ invitations' = [i \in Invitations |->
            IF \E e \in DOMAIN row : row[e] = i
            THEN NewInvitation(p, CHOOSE e \in DOMAIN row : row[e] = i)
            ELSE invitations[i]]
  /\ InsertProject(p, u)
  /\ InsertMembership(u, p)
  /\ UNCHANGED <<staff, users, identities, sessions, logins, started, stranded, overtaken>>

(* POST invitations: to anybody, invited or member already or not.          *)
Invite(p, e) == \E i \in Invitations :
  /\ creator[p] # None /\ invitations[i] = None
  /\ invitations' = [invitations EXCEPT ![i] = NewInvitation(p, e)]
  /\ UNCHANGED <<creator, grants, staff, users, identities, sessions, logins, started,
                 stranded, overtaken>>

RevokeInvitation(i) ==
  /\ Pending(i)
  /\ invitations' = [invitations EXCEPT ![i] = Settled(i, "revoked")]
  /\ UNCHANGED <<creator, grants, staff, users, identities, sessions, logins, started,
                 stranded, overtaken>>

-----------------------------------------------------------------------------
(* A login, from the callback on.                                           *)

At(b, pc) == logins[b] # None /\ logins[b].pc = pc
Goes(b, login) == logins' = [logins EXCEPT ![b] = login]
Taken(e) == \E u \in Users : users[u] # None /\ users[u].email = e
NeverTaken(e) == FALSE   \* mutant of Duplicate: no unique key on the emails
Duplicate(e) == Taken(e)

ByEmail(s, e) ==   \* mutant of LinkedUsers: the account with the email will do
  {u \in Users : users[u] # None /\ (users[u].email = e)}
(* findExternalIdentityByIssuerSubject                                      *)
LinkedUsers(s, e) == {u \in Users : identities[s] # None /\ identities[s].user = u}

NewSession(u, s) == [user |-> u, identity |-> s, expires |-> now + SessionTtl, revoked |-> None]
OpensSession(u, s) == \E x \in Sessions :
  sessions[x] = None /\ sessions' = [sessions EXCEPT ![x] = NewSession(u, s)]

(* A known subject: the account it is linked to, if that is active.  The    *)
(* email of the provider plays no part.  (What happens between this look-up *)
(* and the session is in Access.)  The signed login transaction, the issuer *)
(* and the nonce were checked before; a callback that fails there leaves    *)
(* nothing.                                                                 *)
LogIn(s, e) == \E u \in LinkedUsers(s, e) :
  /\ started < MaxLogins /\ started' = started + 1
  /\ IsActive(u)
  /\ OpensSession(u, s)
  /\ UNCHANGED <<creator, invitations, grants, staff, users, identities, logins, stranded, overtaken>>

(* An unknown subject needs a verified email.                               *)
FindIdentity(b, s, e) ==
  /\ logins[b] = None /\ started < MaxLogins /\ started' = started + 1
  /\ LinkedUsers(s, e) = {}
  /\ Goes(b, [pc |-> "unlinked", subject |-> s, email |-> e, user |-> None, listed |-> {}])
  /\ UNCHANGED <<creator, invitations, grants, staff, users, identities, sessions, stranded, overtaken>>

(* EMAIL_COLLISION ends the login: an account is never taken over by email. *)
FindUser(b) ==
  /\ At(b, "unlinked")
  /\ Goes(b, IF Taken(logins[b].email) THEN None ELSE [logins[b] EXCEPT !.pc = "creating"])
  /\ UNCHANGED <<creator, invitations, grants, staff, users, identities, sessions, started,
                 stranded, overtaken>>

(* The unique key refuses the email when another login was faster.          *)
InsertUser(b) ==
  LET login == logins[b] IN
  /\ At(b, "creating")
  /\ \/ Duplicate(login.email) /\ Goes(b, None) /\ UNCHANGED users
     \/ /\ ~Duplicate(login.email)
        /\ \E u \in Users :
             /\ users[u] = None
             /\ users' = [users EXCEPT ![u] = [email |-> login.email, status |-> "active",
                                               born |-> login.email, by |-> login.subject]]
             /\ Goes(b, [login EXCEPT !.pc = "created", !.user = u])
  /\ UNCHANGED <<creator, invitations, grants, staff, identities, sessions, started,
                 stranded, overtaken>>

(* DUPLICATE_IDENTITY, when the same subject came meanwhile with another    *)
(* email, leaves the user that was just inserted.                           *)
CreateIdentity(b) ==
  LET login == logins[b] IN
  /\ At(b, "created")
  /\ \/ /\ identities[login.subject] # None
        /\ Goes(b, None)
        /\ stranded' = stranded \cup {login.user}
        /\ UNCHANGED identities
     \/ /\ identities[login.subject] = None
        /\ identities' = [identities EXCEPT ![login.subject] =
             [user |-> login.user, linked |-> now, email |-> TRUE]]
        /\ Goes(b, [login EXCEPT !.pc = "linked"])
        /\ UNCHANGED stranded
  /\ UNCHANGED <<creator, invitations, grants, staff, users, sessions, started, overtaken>>

(* listPendingInvitationsForEmail, as the email is written, and only now:   *)
(* a later login lists nothing.                                             *)
ListInvitations(b) ==
  /\ At(b, "linked")
  /\ Goes(b, [logins[b] EXCEPT !.pc = "accepting",
       !.listed = {i \in Invitations : Pending(i) /\ invitations[i].email = logins[b].email}])
  /\ UNCHANGED <<creator, invitations, grants, staff, users, identities, sessions, started,
                 stranded, overtaken>>

AnyStatus(i) == invitations[i] \notin {None, Gone}   \* mutant of StillPending
(* What acceptProjectInvitation finds once it has the lock of the row.      *)
StillPending(i) == Pending(i)

(* One transaction: the user joins the organisation and the project.  One   *)
(* that fails, or comes too late, is skipped.                               *)
AcceptInvitation(b) ==
  /\ At(b, "accepting")
  /\ \E i \in logins[b].listed, succeeds \in BOOLEAN :
       /\ Goes(b, [logins[b] EXCEPT !.listed = @ \ {i}])
       /\ IF succeeds /\ StillPending(i)
          THEN /\ invitations' = [invitations EXCEPT ![i] = Settled(i, "accepted")]
               /\ grants' = grants \cup {[user |-> logins[b].user,
                                          project |-> invitations[i].project, from |-> i]}
               /\ staff' = staff \cup {logins[b].user}
          ELSE UNCHANGED <<invitations, grants, staff>>
  /\ UNCHANGED <<creator, users, identities, sessions, started, stranded, overtaken>>

(* The session refers to the identity: the foreign key refuses one that is  *)
(* gone.                                                                    *)
EnterStorm(b) ==
  /\ At(b, "accepting") /\ logins[b].listed = {}
  /\ identities[logins[b].subject] # None /\ identities[logins[b].subject].user = logins[b].user
  /\ OpensSession(logins[b].user, logins[b].subject)
  /\ Goes(b, None)
  /\ UNCHANGED <<creator, invitations, grants, staff, users, identities, started, stranded, overtaken>>

(* The callback fails or its process dies; what it wrote stays.             *)
Interrupt(b) ==
  /\ logins[b] # None
  /\ Goes(b, None)
  /\ stranded' = IF At(b, "created") THEN stranded \cup {logins[b].user} ELSE stranded
  /\ UNCHANGED <<creator, invitations, grants, staff, users, identities, sessions, started, overtaken>>

-----------------------------------------------------------------------------
(* Sessions, and the end of an account.                                     *)

(* findActiveSessionByRawToken                                              *)
Valid(x) == sessions[x] # None /\ sessions[x].revoked = None /\ sessions[x].expires > now

Logout(x) ==
  /\ Valid(x)
  /\ sessions' = [sessions EXCEPT ![x].revoked = now]
  /\ UNCHANGED <<creator, invitations, grants, staff, users, identities, logins, started,
                 stranded, overtaken>>

(* One transaction; the sessions are revoked, identities and grants stay.   *)
Deactivate(u) ==
  /\ IsActive(u)
  /\ users' = [users EXCEPT ![u].status = "deactivated"]
  /\ sessions' = [x \in Sessions |->
       IF sessions[x] # None /\ sessions[x].user = u /\ sessions[x].revoked = None
       THEN [sessions[x] EXCEPT !.revoked = now] ELSE sessions[x]]
  /\ UNCHANGED <<creator, invitations, grants, staff, identities, logins, started,
                 stranded, overtaken>>

Deactivated(u) == users[u] # None /\ users[u].status = "deactivated"
Reactivate(u) ==
  /\ Deactivated(u)
  /\ users' = [users EXCEPT ![u].status = "active"]
  /\ UNCHANGED <<creator, invitations, grants, staff, identities, sessions, logins, started,
                 stranded, overtaken>>

StillThere(u) == [users[u] EXCEPT !.email = None]   \* mutant of Anonymized: the status stays
Anonymized(u) == [users[u] EXCEPT !.email = None, !.status = "anonymized"]

(* One transaction, of a deactivated account: its grants are revoked, its   *)
(* sessions, identities and the invitations to its email deleted, and the   *)
(* email is free again.                                                     *)
Anonymize(u) ==
  /\ Deactivated(u)
  /\ users' = [users EXCEPT ![u] = Anonymized(u)]
  /\ grants' = {g \in grants : g.user # u}
  /\ sessions' = [x \in Sessions |->
       IF sessions[x] # None /\ sessions[x].user = u THEN None ELSE sessions[x]]
  /\ identities' = [s \in Subjects |->
       IF identities[s] # None /\ identities[s].user = u THEN None ELSE identities[s]]
  /\ invitations' = [i \in Invitations |->
       IF invitations[i] \notin {None, Gone} /\ invitations[i].email = users[u].email
       THEN Gone ELSE invitations[i]]
  /\ overtaken' = IF \E b \in Browsers : logins[b] # None /\ logins[b].user = u
                  THEN overtaken \cup {u} ELSE overtaken
  /\ UNCHANGED <<creator, staff, logins, started, stranded>>

OnboardingNext ==
  \/ \E p \in Projects : (\E u \in Users : CreateProject(u, p)) \/ (\E e \in Emails : Invite(p, e))
  \/ \E i \in Invitations : RevokeInvitation(i)
  \/ \E s \in Subjects, e \in Emails : LogIn(s, e) \/ \E b \in Browsers : FindIdentity(b, s, e)
  \/ \E b \in Browsers :
       \/ FindUser(b) \/ InsertUser(b) \/ CreateIdentity(b) \/ ListInvitations(b)
       \/ AcceptInvitation(b) \/ EnterStorm(b) \/ Interrupt(b)
  \/ \E x \in Sessions : Logout(x)
  \/ \E u \in Users : Deactivate(u) \/ Reactivate(u) \/ Anonymize(u)

-----------------------------------------------------------------------------
(* An invitation is spent once: what is accepted, revoked or expired stays  *)
(* so until it is deleted, however the list that a first login read aged;   *)
(* and a grant comes of an invitation in the step that accepts it, for the  *)
(* one it was sent to, as a member of the organisation.                     *)
InvitationsAreSpentOnce == [][\A i \in Invitations :
  LET given == {g \in grants' \ grants : g.from = i} IN
  /\ invitations[i] # None /\ ~Pending(i) => invitations'[i] \in {invitations[i], Gone}
  /\ IF Pending(i) /\ invitations'[i] # Gone /\ invitations'[i].status = "accepted"
     THEN \E g \in given : /\ given = {g} /\ g.user \in staff'
                           /\ users[g.user].born = invitations[i].email
     ELSE given = {}]_onboarding

(* A living account has an identity through which its owner logs in,       *)
(* except while its first login is under way, when that was interrupted, or *)
(* when the same subject arrived twice at once with two emails: then nobody *)
(* can ever use it, and its email is taken (EMAIL_COLLISION).               *)
EveryAccountCanBeEntered == \A u \in Users : IsActive(u) \/ Deactivated(u) =>
  \/ \E s \in Subjects : identities[s] # None /\ identities[s].user = u
  \/ \E b \in Browsers : At(b, "created") /\ logins[b].user = u
  \/ u \in stranded

(* An account is only ever entered by the subject it was created for, what- *)
(* ever emails the provider asserts and whoever had the email before; and   *)
(* an anonymized account keeps neither identity nor grant nor session,      *)
(* unless its own first login was still under way.                          *)
AccountsKeepTheirOwner ==
  /\ \A s \in Subjects : identities[s] # None => users[identities[s].user].by = s
  /\ \A x \in Sessions : sessions[x] # None => users[sessions[x].user].by = sessions[x].identity
  /\ \A u \in Users \ overtaken : users[u] # None /\ users[u].status = "anonymized" =>
       /\ \A s \in Subjects : identities[s] # None => identities[s].user # u
       /\ \A x \in Sessions : sessions[x] # None => sessions[x].user # u
       /\ \A g \in grants : g.user # u
=============================================================================
