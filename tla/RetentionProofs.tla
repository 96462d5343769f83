-------------------------- MODULE RetentionProofs --------------------------
(***************************************************************************)
(* Proofs about Retention: passes of the runner over the rows of Onboarding*)
(* and Telemetry, whatever these do meanwhile.                             *)
(***************************************************************************)
EXTENDS Retention, OnboardingProofs, TelemetryProofs

-----------------------------------------------------------------------------
(* The inductive invariant.                                                 *)

(* Nothing of a policy is left that was due at a time t.                    *)
KeptLong(t) == \A i \in Invitations : Here(i) /\ invitations[i].settled # None =>
                 invitations[i].settled > t - TerminalRetention
(* A pass leaves behind it what its policies have cleaned so far.           *)
PassOK ==
  /\ passed # None =>
       /\ DueSessions(passed) = {} /\ DueToExpire(passed) = {} /\ KeptLong(passed)
       /\ Aged(passed) = {} /\ DueEmails(passed) = {}
  /\ pass # None =>
       /\ passed # None => passed <= pass.now
       /\ pass.policy > 1 => DueSessions(pass.now) = {}
       /\ pass.policy > 2 => DueToExpire(pass.now) = {} /\ KeptLong(pass.now)
       /\ pass.policy > 4 => Aged(pass.now) = {}

Inv == TypeOK /\ OnboardingInv /\ TelemetryIInv /\ PassOK

-----------------------------------------------------------------------------
(* What a step of Onboarding may do to the rows that the policies look at.  *)

SessionsGoOn == \A x \in Sessions :
  \/ sessions'[x] = sessions[x]
  \/ sessions[x] # None /\ sessions'[x] = None /\ Anonymizing
  \/ /\ sessions[x] = None /\ sessions'[x] # None
     /\ sessions'[x].expires = now + SessionTtl /\ sessions'[x].revoked = None
  \/ /\ sessions[x] # None /\ sessions'[x] # None /\ sessions[x].revoked = None
     /\ sessions'[x].expires = sessions[x].expires /\ sessions'[x].revoked = now
RowsGoOn == \A i \in Invitations :
  \/ invitations'[i] = invitations[i]
  \/ invitations[i] = None /\ Pending(i)' /\ invitations'[i].created = now
  \/ /\ Pending(i) /\ Here(i)' /\ ~Pending(i)' /\ invitations'[i].status # "expired"
     /\ invitations'[i].settled = now
  \/ Here(i) /\ invitations'[i] = Gone /\ Anonymizing
LinksGoOn == \A s \in Subjects :
  \/ identities'[s] = identities[s]
  \/ identities[s] = None /\ identities'[s] # None /\ identities'[s].linked = now
  \/ identities[s] # None /\ identities'[s] = None /\ Anonymizing

(* What InvitationsAreSpentOnce says of a step.                             *)
SpentOnce == \A i \in Invitations :
  LET given == {g \in grants' \ grants : g.from = i} IN
  /\ invitations[i] # None /\ ~Pending(i) => invitations'[i] \in {invitations[i], Gone}
  /\ IF Pending(i) /\ invitations'[i] # Gone /\ invitations'[i].status = "accepted"
     THEN \E g \in given : /\ given = {g} /\ g.user \in staff'
                           /\ users[g.user].born = invitations[i].email
     ELSE given = {}

(* A step that accepts nothing and lets nobody in by an invitation.         *)
LEMMA NothingAccepted ==
  ASSUME \A g \in grants' : g \in grants \/ g.from = None,
         \A i \in Invitations : /\ invitations[i] # None /\ ~Pending(i) => invitations'[i] \in {invitations[i], Gone}
                                /\ Pending(i) => invitations'[i] = Gone \/ invitations'[i].status # "accepted"
  PROVE  SpentOnce
<1>1. None \notin Invitations
  BY NoneIsNothing
<1>2. \A i \in Invitations : {g \in grants' \ grants : g.from = i} = {}
  BY <1>1
<1> QED BY <1>2 DEF SpentOnce

LEMMA QuietRows ==
  ASSUME UNCHANGED <<invitations, grants>>
  PROVE  RowsGoOn /\ SpentOnce
<1>1. \A i \in Invitations : Pending(i) => invitations'[i].status # "accepted"
  BY DEF Pending
<1> QED BY <1>1, NothingAccepted DEF RowsGoOn
LEMMA QuietSessions == ASSUME UNCHANGED sessions PROVE SessionsGoOn
BY DEF SessionsGoOn
LEMMA QuietLinks == ASSUME UNCHANGED identities PROVE LinksGoOn
BY DEF LinksGoOn

GoOn == SessionsGoOn /\ RowsGoOn /\ LinksGoOn /\ SpentOnce

(* A session is opened or revoked.                                          *)
LEMMA OneSession ==
  ASSUME NEW x \in Sessions, \A y \in Sessions \ {x} : sessions'[y] = sessions[y],
         \/ /\ sessions[x] = None
            /\ \E u \in Users, s \in Subjects : sessions'[x] = NewSession(u, s)
         \/ /\ sessions[x] # None /\ sessions'[x] # None /\ sessions[x].revoked = None
            /\ sessions'[x] = [sessions[x] EXCEPT !.revoked = now] /\ sessions[x] \in AuthSession,
         now \in Times
  PROVE  SessionsGoOn
<1>1. \/ /\ sessions[x] = None /\ sessions'[x] # None
         /\ sessions'[x].expires = now + SessionTtl /\ sessions'[x].revoked = None
      \/ /\ sessions[x] # None /\ sessions'[x] # None /\ sessions[x].revoked = None
         /\ sessions'[x].expires = sessions[x].expires /\ sessions'[x].revoked = now
  BY NewSessionFields DEF AuthSession
<1> QED BY <1>1 DEF SessionsGoOn

(* Invitations are written.                                                 *)
LEMMA NewRows ==
  ASSUME OnboardingTypeOK, OnboardingTypeOK',
         \A i \in Invitations : invitations[i] # None => invitations'[i] = invitations[i],
         \A i \in Invitations : invitations[i] = None => invitations'[i] = None \/
           (Pending(i)' /\ invitations'[i].created = now),
         \A g \in grants' : g \in grants \/ g.from = None
  PROVE  RowsGoOn /\ SpentOnce
<1>1. RowsGoOn
  BY DEF RowsGoOn
<1>2. \A i \in Invitations : Pending(i) => invitations'[i].status # "accepted"
  BY DEF Pending
<1>3. \A i \in Invitations : invitations[i] # None /\ ~Pending(i) => invitations'[i] \in {invitations[i], Gone}
  OBVIOUS
<1> QED BY <1>1, <1>2, <1>3, NothingAccepted

LEMMA GoesOnCreateProject ==
  ASSUME OnboardingInv, now \in Times, now' = now, NEW u \in Users, NEW p \in Projects, CreateProject(u, p)
  PROVE  OnboardingInv' /\ GoOn
<1>1. OnboardingInv' /\ \A i \in Invitations : invitations[i] # None => invitations'[i] = invitations[i]
  BY KeepsCreateProject
<1>2. PICK invited \in SUBSET Emails :
        \E row \in [Guests(invited, u) -> {i \in Invitations : invitations[i] = None}] :
          invitations' = [i \in Invitations |->
            IF \E e \in DOMAIN row : row[e] = i
            THEN NewInvitation(p, CHOOSE e \in DOMAIN row : row[e] = i)
            ELSE invitations[i]]
  BY DEF CreateProject
<1>3. PICK row \in [Guests(invited, u) -> {i \in Invitations : invitations[i] = None}] :
        invitations' = [i \in Invitations |->
            IF \E e \in DOMAIN row : row[e] = i
            THEN NewInvitation(p, CHOOSE e \in DOMAIN row : row[e] = i)
            ELSE invitations[i]]
  BY <1>2
<1>4. \A i \in Invitations : \/ invitations'[i] = invitations[i]
                             \/ \E e \in Emails : invitations'[i] = NewInvitation(p, e)
  <2> SUFFICES ASSUME NEW i \in Invitations, \E e \in DOMAIN row : row[e] = i
               PROVE  \E e \in Emails : invitations'[i] = NewInvitation(p, e)
    BY <1>3
  <2>1. PICK e : e = CHOOSE f \in DOMAIN row : row[f] = i
    OBVIOUS
  <2>2. e \in DOMAIN row
    BY <2>1
  <2>3. e \in Emails
    BY <1>3, <2>2 DEF Guests
  <2>4. invitations'[i] = NewInvitation(p, e)
    BY <1>3, <2>1
  <2> QED BY <2>3, <2>4
<1>5. \A i \in Invitations : invitations[i] = None => invitations'[i] = None \/
        (Pending(i)' /\ invitations'[i].created = now)
  BY <1>4, NewInvitationFields DEF Pending
<1>6. \A g \in grants' : g \in grants \/ g.from = None
  BY DEF CreateProject, InsertMembership
<1>7. RowsGoOn /\ SpentOnce
  BY <1>1, <1>5, <1>6, NewRows DEF OnboardingInv
<1>8. SessionsGoOn /\ LinksGoOn
  BY QuietSessions, QuietLinks DEF CreateProject
<1> QED BY <1>1, <1>7, <1>8 DEF GoOn

LEMMA GoesOnInvite ==
  ASSUME OnboardingInv, now \in Times, now' = now, NEW p \in Projects, NEW e \in Emails, Invite(p, e)
  PROVE  OnboardingInv' /\ GoOn
<1>1. OnboardingInv' /\ \A i \in Invitations : invitations[i] # None => invitations'[i] = invitations[i]
  BY KeepsInvite
<1>2. OnboardingTypeOK
  BY DEF OnboardingInv
<1>3. \A i \in Invitations : invitations[i] = None => invitations'[i] = None \/
        (Pending(i)' /\ invitations'[i].created = now)
  BY <1>2, NewInvitationFields DEF Invite, Pending, OnboardingTypeOK
<1>4. RowsGoOn /\ SpentOnce
  BY <1>1, <1>2, <1>3, NewRows DEF Invite, OnboardingInv
<1>5. SessionsGoOn /\ LinksGoOn
  BY QuietSessions, QuietLinks DEF Invite
<1> QED BY <1>1, <1>4, <1>5 DEF GoOn

LEMMA GoesOnRevokeInvitation ==
  ASSUME OnboardingInv, now \in Times, now' = now, NEW i \in Invitations, RevokeInvitation(i)
  PROVE  OnboardingInv' /\ GoOn
<1>1. /\ OnboardingInv' /\ Pending(i)
      /\ invitations'[i] = Settled(i, "revoked") /\ \A j \in Invitations \ {i} : invitations'[j] = invitations[j]
  BY KeepsRevokeInvitation DEF RevokeInvitation
<1>2. Here(i) /\ "revoked" \in Terminal
  BY <1>1 DEF Pending, Here, Terminal
<1>3. /\ invitations'[i] \notin {None, Gone} /\ invitations'[i].status = "revoked" /\ invitations'[i].settled = now
  BY <1>1, <1>2, SettledFields DEF OnboardingInv
<1>4. RowsGoOn
  BY <1>1, <1>3 DEF RowsGoOn, Here, Pending
<1>5. \A j \in Invitations :
        /\ invitations[j] # None /\ ~Pending(j) => invitations'[j] \in {invitations[j], Gone}
        /\ Pending(j) => invitations'[j] = Gone \/ invitations'[j].status # "accepted"
  BY <1>1, <1>3 DEF Pending
<1>6. SpentOnce /\ SessionsGoOn /\ LinksGoOn
  BY <1>5, NothingAccepted, QuietSessions, QuietLinks DEF RevokeInvitation
<1> QED BY <1>1, <1>4, <1>6 DEF GoOn

LEMMA GoesOnLogIn ==
  ASSUME OnboardingInv, now \in Times, now' = now, NEW s \in Subjects, NEW e \in Emails, LogIn(s, e)
  PROVE  OnboardingInv' /\ GoOn
<1>1. OnboardingInv' /\ SessionsGoOn
  BY KeepsLogIn, OneSession
<1> QED BY <1>1, QuietRows, QuietLinks DEF GoOn, LogIn

LEMMA GoesOnEnterStorm ==
  ASSUME OnboardingInv, now \in Times, now' = now, NEW b \in Browsers, EnterStorm(b)
  PROVE  OnboardingInv' /\ GoOn
<1>1. OnboardingInv' /\ SessionsGoOn
  BY KeepsEnterStorm, OneSession
<1> QED BY <1>1, QuietRows, QuietLinks DEF GoOn, EnterStorm

LEMMA GoesOnLogout ==
  ASSUME OnboardingInv, now \in Times, now' = now, NEW x \in Sessions, Logout(x)
  PROVE  OnboardingInv' /\ GoOn
<1>1. sessions[x].revoked = None
  BY DEF Logout, Valid
<1>2. OnboardingInv' /\ SessionsGoOn
  BY <1>1, KeepsLogout, OneSession
<1> QED BY <1>2, QuietRows, QuietLinks DEF GoOn, Logout

LEMMA GoesOnDeactivate ==
  ASSUME OnboardingInv, now \in Times, now' = now, NEW u \in Users, Deactivate(u)
  PROVE  OnboardingInv' /\ GoOn
<1>1. /\ OnboardingInv'
      /\ \A x \in Sessions :
           \/ sessions'[x] = sessions[x]
           \/ /\ sessions[x] # None /\ sessions[x].revoked = None /\ sessions'[x] # None
              /\ sessions'[x] = [sessions[x] EXCEPT !.revoked = now] /\ sessions[x] \in AuthSession
  BY KeepsDeactivate
<1>2. SessionsGoOn
  BY <1>1 DEF SessionsGoOn, AuthSession
<1> QED BY <1>1, <1>2, QuietRows, QuietLinks DEF GoOn, Deactivate

LEMMA GoesOnAnonymize ==
  ASSUME OnboardingInv, now' = now, NEW u \in Users, Anonymize(u)
  PROVE  OnboardingInv' /\ GoOn
<1>1. /\ OnboardingInv' /\ Anonymizing
      /\ \A s \in Subjects : identities'[s] \in {None, identities[s]}
      /\ \A x \in Sessions : sessions'[x] \in {None, sessions[x]}
      /\ \A i \in Invitations : invitations'[i] \in {Gone, invitations[i]}
      /\ grants' \subseteq grants
      /\ \A i \in Invitations : invitations[i] = None => invitations'[i] = None
  BY KeepsAnonymize DEF Anonymizing
<1>2. SessionsGoOn /\ RowsGoOn /\ LinksGoOn
  BY <1>1 DEF SessionsGoOn, RowsGoOn, LinksGoOn, Here
<1>3. SpentOnce
  BY <1>1, NothingAccepted DEF Pending
<1> QED BY <1>1, <1>2, <1>3 DEF GoOn

LEMMA GoesOnCreateIdentity ==
  ASSUME OnboardingInv, now \in Times, now' = now, NEW b \in Browsers, CreateIdentity(b)
  PROVE  OnboardingInv' /\ GoOn
<1>1. OnboardingInv' /\ LinksGoOn
  BY KeepsCreateIdentity DEF LinksGoOn
<1> QED BY <1>1, QuietRows, QuietSessions DEF GoOn, CreateIdentity

(* The grant is the only one of its invitation: one that was still pending  *)
(* had let nobody in.                                                       *)
LEMMA GoesOnAcceptInvitation ==
  ASSUME OnboardingInv, now \in Times, now' = now, NEW b \in Browsers, AcceptInvitation(b)
  PROVE  OnboardingInv' /\ GoOn
<1>1. OnboardingInv' /\ SessionsGoOn /\ LinksGoOn
  BY KeepsAcceptInvitation, QuietSessions, QuietLinks DEF AcceptInvitation
<1>2. CASE UNCHANGED <<invitations, grants>>
  BY <1>1, <1>2, QuietRows DEF GoOn
<1>3. ASSUME NEW i \in Invitations, NEW u \in Users,
             Pending(i), invitations'[i] = Settled(i, "accepted"),
             \A j \in Invitations \ {i} : invitations'[j] = invitations[j],
             grants' = grants \cup {[user |-> u, project |-> invitations[i].project, from |-> i]},
             u \in staff', users[u].born = invitations[i].email
      PROVE  GoOn
  <2>1. PICK grant : grant = [user |-> u, project |-> invitations[i].project, from |-> i]
    OBVIOUS
  <2>2. grant.user = u /\ grant.from = i /\ grants' = grants \cup {grant}
    BY <1>3, <2>1
  <2>3. \A g \in grants : g.from # i
    BY <1>3, NoneIsNothing DEF OnboardingInv, InvitationsOK
  <2>4. Here(i) /\ "accepted" \in Terminal
    BY <1>3 DEF Pending, Here, Terminal
  <2>5. invitations'[i] \notin {None, Gone} /\ invitations'[i].status = "accepted" /\ invitations'[i].settled = now
    BY <1>3, <2>4, SettledFields DEF OnboardingInv
  <2>6. RowsGoOn
    BY <1>3, <2>5 DEF RowsGoOn, Here, Pending
  <2>7. ASSUME NEW j \in Invitations
        PROVE  LET given == {g \in grants' \ grants : g.from = j} IN
               /\ invitations[j] # None /\ ~Pending(j) => invitations'[j] \in {invitations[j], Gone}
               /\ IF Pending(j) /\ invitations'[j] # Gone /\ invitations'[j].status = "accepted"
                  THEN \E g \in given : /\ given = {g} /\ g.user \in staff'
                                        /\ users[g.user].born = invitations[j].email
                  ELSE given = {}
    <3>1. CASE j = i
      <4>1. {g \in grants' \ grants : g.from = j} = {grant}
        BY <2>2, <2>3, <3>1
      <4> QED BY <1>3, <2>2, <2>5, <3>1, <4>1
    <3>2. CASE j # i
      <4>1. {g \in grants' \ grants : g.from = j} = {}
        BY <2>2, <3>2
      <4>2. invitations'[j] = invitations[j]
        BY <1>3, <3>2
      <4>3. Pending(j) => invitations'[j].status # "accepted"
        BY <4>2 DEF Pending
      <4> QED BY <4>1, <4>2, <4>3
    <3> QED BY <3>1, <3>2
  <2>8. SpentOnce
    BY <2>7 DEF SpentOnce
  <2> QED BY <1>1, <2>6, <2>8 DEF GoOn
<1> QED BY <1>1, <1>2, <1>3, KeepsAcceptInvitation

(* A login that looks or stops, and an account that is inserted or          *)
(* reactivated.                                                             *)
LEMMA GoesOnQuietly ==
  ASSUME UNCHANGED <<invitations, grants, sessions, identities>>
  PROVE  GoOn
BY QuietRows, QuietSessions, QuietLinks DEF GoOn

LEMMA GoesOnReactivate ==
  ASSUME OnboardingInv, now' = now, NEW u \in Users, Reactivate(u)
  PROVE  OnboardingInv' /\ GoOn
BY KeepsReactivate, GoesOnQuietly DEF Reactivate

LEMMA GoesOnLogins ==
  ASSUME OnboardingInv, now \in Times, now' = now, NEW b \in Browsers,
         \/ FindUser(b) \/ InsertUser(b) \/ ListInvitations(b) \/ Interrupt(b)
         \/ \E s \in Subjects, e \in Emails : FindIdentity(b, s, e)
  PROVE  OnboardingInv' /\ GoOn
<1>1. CASE FindUser(b)
  BY <1>1, KeepsFindUser, GoesOnQuietly DEF FindUser
<1>2. CASE InsertUser(b)
  BY <1>2, KeepsInsertUser, GoesOnQuietly DEF InsertUser
<1>3. CASE ListInvitations(b)
  BY <1>3, KeepsListInvitations, GoesOnQuietly DEF ListInvitations
<1>4. CASE Interrupt(b)
  BY <1>4, KeepsInterrupt, GoesOnQuietly DEF Interrupt
<1>5. ASSUME NEW s \in Subjects, NEW e \in Emails, FindIdentity(b, s, e) PROVE OnboardingInv' /\ GoOn
  BY <1>5, KeepsFindIdentity, GoesOnQuietly DEF FindIdentity
<1> QED BY <1>1, <1>2, <1>3, <1>4, <1>5

LEMMA OnboardingGoesOn ==
  ASSUME OnboardingInv, now \in Times, now' = now, OnboardingNext
  PROVE  OnboardingInv' /\ GoOn
<1>1. ASSUME NEW p \in Projects, NEW u \in Users, CreateProject(u, p) PROVE OnboardingInv' /\ GoOn
  BY <1>1, GoesOnCreateProject
<1>2. ASSUME NEW p \in Projects, NEW e \in Emails, Invite(p, e) PROVE OnboardingInv' /\ GoOn
  BY <1>2, GoesOnInvite
<1>3. ASSUME NEW i \in Invitations, RevokeInvitation(i) PROVE OnboardingInv' /\ GoOn
  BY <1>3, GoesOnRevokeInvitation
<1>4. ASSUME NEW s \in Subjects, NEW e \in Emails, LogIn(s, e) PROVE OnboardingInv' /\ GoOn
  BY <1>4, GoesOnLogIn
<1>5. ASSUME NEW b \in Browsers,
             \/ FindUser(b) \/ InsertUser(b) \/ ListInvitations(b) \/ Interrupt(b)
             \/ \E s \in Subjects, e \in Emails : FindIdentity(b, s, e)
      PROVE  OnboardingInv' /\ GoOn
  BY <1>5, GoesOnLogins
<1>6. ASSUME NEW b \in Browsers, CreateIdentity(b) PROVE OnboardingInv' /\ GoOn
  BY <1>6, GoesOnCreateIdentity
<1>7. ASSUME NEW b \in Browsers, AcceptInvitation(b) PROVE OnboardingInv' /\ GoOn
  BY <1>7, GoesOnAcceptInvitation
<1>8. ASSUME NEW b \in Browsers, EnterStorm(b) PROVE OnboardingInv' /\ GoOn
  BY <1>8, GoesOnEnterStorm
<1>9. ASSUME NEW x \in Sessions, Logout(x) PROVE OnboardingInv' /\ GoOn
  BY <1>9, GoesOnLogout
<1>10. ASSUME NEW u \in Users, Deactivate(u) PROVE OnboardingInv' /\ GoOn
  BY <1>10, GoesOnDeactivate
<1>11. ASSUME NEW u \in Users, Reactivate(u) PROVE OnboardingInv' /\ GoOn
  BY <1>11, GoesOnReactivate
<1>12. ASSUME NEW u \in Users, Anonymize(u) PROVE OnboardingInv' /\ GoOn
  BY <1>12, GoesOnAnonymize
<1> QED BY <1>1, <1>2, <1>3, <1>4, <1>5, <1>6, <1>7, <1>8, <1>9, <1>10, <1>11, <1>12 DEF OnboardingNext

-----------------------------------------------------------------------------
(* What was cleaned stays clean: whatever comes later is stamped later.     *)

LEMMA RetentionPeriods ==
  /\ PurgeAfterInvalidation \in Nat /\ PurgeAfterInvalidation > 0
  /\ PendingExpiresAfter \in Nat /\ PendingExpiresAfter > 0
  /\ TerminalRetention \in Nat /\ TerminalRetention > 0
  /\ EmailRetention \in Nat /\ EmailRetention > 0
  /\ SessionTtl \in Nat /\ SessionTtl > 0
BY RetentionsArePositive, TtlIsPositive

LEMMA SessionFields ==
  ASSUME OnboardingTypeOK, NEW x \in Sessions, sessions[x] # None
  PROVE  /\ sessions[x].expires \in Nat /\ sessions[x].revoked \in Nat \cup {None}
         /\ sessions[x] \in AuthSession /\ None \notin Nat
<1>1. sessions[x] \in AuthSession
  BY DEF OnboardingTypeOK
<1> QED BY <1>1, MaxTimeIsNatural, NoneIsNothing DEF AuthSession, Times

LEMMA LinkFields ==
  ASSUME OnboardingTypeOK, NEW s \in Subjects, identities[s] # None
  PROVE  /\ identities[s] \in Identity /\ identities[s].linked \in Nat /\ identities[s].email \in BOOLEAN
<1>1. identities[s] \in Identity
  BY DEF OnboardingTypeOK
<1> QED BY <1>1, MaxTimeIsNatural DEF Identity, Times

LEMMA SessionsStayClean ==
  ASSUME OnboardingTypeOK, now \in Nat, SessionsGoOn, NEW t \in 0..now, DueSessions(t) = {}
  PROVE  DueSessions(t)' = {}
<1> SUFFICES ASSUME NEW x \in Sessions, sessions'[x] # None
             PROVE  ~(Invalidated(x)' <= t - PurgeAfterInvalidation)
  BY DEF DueSessions
<1>1. CASE sessions'[x] = sessions[x]
  BY <1>1 DEF DueSessions, Invalidated, AtRevocation
<1>2. CASE sessions'[x].expires = now + SessionTtl /\ sessions'[x].revoked = None
  <2>1. Invalidated(x)' = now + SessionTtl
    BY <1>2 DEF Invalidated, AtRevocation
  <2> QED BY <2>1, RetentionPeriods
<1>3. CASE /\ sessions[x] # None /\ sessions[x].revoked = None
           /\ sessions'[x].expires = sessions[x].expires /\ sessions'[x].revoked = now
  <2>1. sessions[x].expires \in Nat /\ now # None
    BY <1>3, SessionFields
  <2>2. ~(sessions[x].expires <= t - PurgeAfterInvalidation)
    BY <1>3 DEF DueSessions, Invalidated, AtRevocation
  <2>3. Invalidated(x)' \in {now, sessions[x].expires}
    BY <1>3, <2>1 DEF Invalidated, AtRevocation
  <2> QED BY <2>1, <2>2, <2>3, RetentionPeriods
<1> QED BY <1>1, <1>2, <1>3 DEF SessionsGoOn

LEMMA RowsStayClean ==
  ASSUME OnboardingTypeOK, OnboardingTypeOK', InvitationsOK, InvitationsOK', now \in Nat, now' = now,
         RowsGoOn, NEW t \in 0..now
  PROVE  /\ DueToExpire(t) = {} => DueToExpire(t)' = {}
         /\ KeptLong(t) => KeptLong(t)'
<1>1. ASSUME DueToExpire(t) = {}, NEW i \in Invitations, Pending(i)'
      PROVE  ~(invitations'[i].created <= t - PendingExpiresAfter)
  <2>1. CASE invitations'[i] = invitations[i]
    BY <1>1, <2>1 DEF DueToExpire, Pending
  <2>2. CASE invitations'[i].created = now
    BY <2>2, RetentionPeriods
  <2> QED BY <1>1, <2>1, <2>2 DEF RowsGoOn, Pending, Here
<1>2. ASSUME KeptLong(t), NEW i \in Invitations, Here(i)', invitations'[i].settled # None
      PROVE  invitations'[i].settled > t - TerminalRetention
  <2>1. CASE invitations'[i] = invitations[i]
    BY <1>2, <2>1 DEF KeptLong, Here
  <2>2. CASE Pending(i)'
    BY <1>2, <2>2 DEF InvitationsOK
  <2>3. CASE invitations'[i].settled = now
    BY <2>3, RetentionPeriods
  <2> QED BY <1>2, <2>1, <2>2, <2>3 DEF RowsGoOn, Here
<1> QED BY <1>1, <1>2 DEF DueToExpire, KeptLong

LEMMA LinksStayClean ==
  ASSUME OnboardingTypeOK, now \in Nat, LinksGoOn, NEW t \in 0..now, DueEmails(t) = {}
  PROVE  DueEmails(t)' = {}
<1> SUFFICES ASSUME NEW s \in Subjects, identities'[s] # None, identities'[s].email
             PROVE  ~(identities'[s].linked < t - EmailRetention)
  BY DEF DueEmails
<1>1. CASE identities'[s] = identities[s]
  BY <1>1 DEF DueEmails
<1>2. CASE identities'[s].linked = now
  BY <1>2, RetentionPeriods
<1> QED BY <1>1, <1>2 DEF LinksGoOn

(* A request inserts an event of less than its longest time ago, which no   *)
(* purge reaches; and it takes away only what its own purge reaches.        *)
EventsGoOn ==
  /\ \A r \in events' : r \in events \/ now <= visits'[r].at + RequestTime
  /\ \A r \in events : visits'[r].at = visits[r].at
  /\ \A r \in events \ events' : visits[r].at + RawRetention < now

LEMMA EventsOfQuietSteps ==
  ASSUME TelemetryInv, NEW r \in DOMAIN visits, NEW v, GoesOn(r, v), events' = events
  PROVE  EventsGoOn
<1>1. \A q \in DOMAIN visits : Keeps(q)
  BY GoesOnFacts DEF TelemetryInv
<1>2. events \subseteq DOMAIN visits
  BY ConjunctsOfInv
<1> QED BY <1>1, <1>2 DEF EventsGoOn, Keeps

LEMMA TelemetryGoesOn ==
  ASSUME TelemetryIInv, now' = now, TelemetryNext
  PROVE  TelemetryIInv' /\ EventsGoOn
<1>0. TelemetryIInv'
  BY TelemetryISteps
<1>1. /\ TelemetryInv /\ TelemetryTypeOK /\ events \subseteq DOMAIN visits /\ now \in Nat
      /\ \A r \in DOMAIN visits : Placed(r) /\ visits[r].at \in Nat
  BY ConjunctsOfInv DEF TelemetryIInv
<1>2. ASSUME NEW kind \in Kinds, NEW w \in Visitors \cup {Nobody}, Arrive(kind, w) PROVE EventsGoOn
  <2>1. \A q \in DOMAIN visits : visits'[q] = visits[q]
    BY <1>1, <1>2, InvArrive
  <2>2. events' = events
    BY <1>2 DEF Arrive
  <2> QED BY <1>1, <2>1, <2>2 DEF EventsGoOn
<1>3. ASSUME NEW r \in DOMAIN visits, NEW v, GoesOn(r, v), events' = events PROVE EventsGoOn
  BY <1>1, <1>3, EventsOfQuietSteps
<1>4. ASSUME NEW r \in DOMAIN visits, LookToday(r) PROVE EventsGoOn
  BY <1>1, <1>3, <1>4, InvLookToday DEF LookToday
<1>5. ASSUME NEW r \in DOMAIN visits, LastEvent(r) PROVE EventsGoOn
  BY <1>1, <1>3, <1>5, InvLastEvent DEF LastEvent
<1>6. ASSUME NEW r \in DOMAIN visits, SessionStart(r) PROVE EventsGoOn
  BY <1>1, <1>3, <1>6, InvSessionStart DEF SessionStart
<1>7. ASSUME NEW r \in DOMAIN visits, InsertEvent(r) PROVE EventsGoOn
  <2>1. PICK v \in Request : GoesOn(r, v)
    BY <1>1, <1>7, InvInsertEvent
  <2>2. \A q \in DOMAIN visits : visits'[q].at = visits[q].at
    BY <1>1, <2>1, GoesOnFacts DEF Keeps
  <2>3. events' = events \cup {r} /\ InProgress(r)
    BY <1>7 DEF InsertEvent, InProgress, Ended
  <2>4. now <= visits'[r].at + RequestTime
    BY <1>1, <2>2, <2>3 DEF Placed
  <2> QED BY <1>1, <2>2, <2>3, <2>4 DEF EventsGoOn
<1>8. ASSUME NEW r \in DOMAIN visits, Count(r) PROVE EventsGoOn
  BY <1>1, <1>3, <1>8, InvCount DEF Count
<1>9. ASSUME NEW r \in DOMAIN visits, MaybePurge(r) PROVE EventsGoOn
  <2>1. PICK v \in Request : GoesOn(r, v)
    BY <1>1, <1>9, InvMaybePurge
  <2>2. \A q \in DOMAIN visits : visits'[q].at = visits[q].at
    BY <1>1, <2>1, GoesOnFacts DEF Keeps
  <2>3. events' = events \/ events' = events \ Aged(now)
    BY <1>9 DEF MaybePurge
  <2>4. \A q \in Aged(now) : visits[q].at + RawRetention < now
    BY <1>1, Windows2 DEF Aged
  <2> QED BY <1>1, <2>2, <2>3, <2>4 DEF EventsGoOn
<1>10. ASSUME NEW r \in DOMAIN visits, FailRequest(r) PROVE EventsGoOn
  BY <1>1, <1>3, <1>10, InvFailRequest DEF FailRequest
<1> QED BY <1>0, <1>2, <1>4, <1>5, <1>6, <1>7, <1>8, <1>9, <1>10 DEF TelemetryNext

LEMMA EventsStayClean ==
  ASSUME TelemetryIInv, TelemetryIInv', now' = now, EventsGoOn, NEW t \in 0..now, Aged(t) = {}
  PROVE  Aged(t)' = {}
<1>1. now \in Nat /\ \A r \in events' : visits'[r].at \in Nat
  <2>1. visits' \in Seq(Request) /\ events' \subseteq DOMAIN visits' /\ now \in Nat
    BY ConjunctsOfInv DEF TelemetryIInv, TelemetryInv, TelemetryTypeOK
  <2>2. \A r \in events' : visits'[r] \in Request
    BY <2>1
  <2> QED BY <2>1, <2>2, RequestFields
<1> SUFFICES ASSUME NEW r \in events' PROVE ~(visits'[r].at < t - RawRetention)
  BY DEF Aged
<1>2. CASE r \in events
  BY <1>2 DEF Aged, EventsGoOn
<1>3. CASE now <= visits'[r].at + RequestTime
  BY <1>1, <1>3, Windows2
<1> QED BY <1>2, <1>3 DEF EventsGoOn

-----------------------------------------------------------------------------
(* Every step keeps the invariant.                                          *)

LEMMA Times0 == 0 \in Times /\ Times \subseteq Nat
BY MaxTimeIsNatural DEF Times

LEMMA PolicyFacts ==
  /\ DOMAIN Policies = 1..5
  /\ \A n \in 1..5 : /\ Policies[n] = "sessions" => n = 1
                     /\ Policies[n] = "invitations" => n = 2
                     /\ Policies[n] = "audit_events" => n = 3
                     /\ Policies[n] = "pilotage" => n = 4
                     /\ Policies[n] = "external_identities" => n = 5
<1>1. /\ DOMAIN Policies = 1..5
      /\ Policies[1] = "sessions" /\ Policies[2] = "invitations" /\ Policies[3] = "audit_events"
      /\ Policies[4] = "pilotage" /\ Policies[5] = "external_identities"
  BY DEF Policies
<1> QED BY <1>1

(* The pass in progress, and the time of the last one.                      *)
LEMMA PassFields ==
  ASSUME Inv
  PROVE  /\ now \in Times /\ now \in Nat /\ passes \in Nat /\ passes <= MaxPasses
         /\ OnboardingTypeOK /\ OnboardingInv /\ InvitationsOK /\ TelemetryTypeOK /\ TelemetryIInv /\ PassOK
         /\ pass # None => /\ pass.now \in 0..now /\ pass.now \in Nat /\ pass.policy \in 1..5
                           /\ pass = [now |-> pass.now, policy |-> pass.policy]
         /\ passed # None => passed \in 0..now /\ passed \in Nat
<1>1. TypeOK /\ OnboardingInv
  BY DEF Inv
<1>2. now \in Nat
  BY <1>1, Times0 DEF TypeOK
<1>3. ASSUME pass # None
      PROVE  pass.now \in 0..now /\ pass.policy \in 1..5 /\ pass = [now |-> pass.now, policy |-> pass.policy]
  BY <1>1, <1>3, PolicyFacts DEF TypeOK
<1> QED BY <1>1, <1>2, <1>3, MaxPassesIsNatural DEF TypeOK, Inv, OnboardingInv

(* What a step that is no policy leaves clean.                              *)
LEMMA PassGoesOn ==
  ASSUME Inv, UNCHANGED retention, now' \in Times, now <= now',
         \A t \in 0..now : /\ DueSessions(t) = {} => DueSessions(t)' = {}
                           /\ DueToExpire(t) = {} => DueToExpire(t)' = {}
                           /\ KeptLong(t) => KeptLong(t)'
                           /\ Aged(t) = {} => Aged(t)' = {}
                           /\ DueEmails(t) = {} => DueEmails(t)' = {},
         OnboardingInv', TelemetryIInv'
  PROVE  Inv'
<1>1. TypeOK'
  <2>1. now \in Nat /\ now' \in Nat
    BY PassFields, Times0
  <2>2. OnboardingTypeOK' /\ TelemetryTypeOK'
    BY DEF OnboardingInv, TelemetryIInv, TelemetryInv
  <2>3. 0..now \subseteq 0..now'
    BY <2>1
  <2> QED BY <2>2, <2>3 DEF Inv, TypeOK, retention
<1>2. PassOK'
  <2>1. PassOK /\ pass' = pass /\ passed' = passed
    BY DEF Inv, retention
  <2>2. ASSUME passed # None
        PROVE  /\ DueSessions(passed)' = {} /\ DueToExpire(passed)' = {} /\ KeptLong(passed)'
               /\ Aged(passed)' = {} /\ DueEmails(passed)' = {}
    <3>1. PICK t \in 0..now : t = passed
      BY <2>2, PassFields
    <3>2. DueSessions(t) = {} /\ DueToExpire(t) = {} /\ KeptLong(t) /\ Aged(t) = {} /\ DueEmails(t) = {}
      BY <2>1, <2>2, <3>1 DEF PassOK
    <3>3. DueSessions(t)' = {} /\ DueToExpire(t)' = {} /\ KeptLong(t)' /\ Aged(t)' = {} /\ DueEmails(t)' = {}
      BY <3>2
    <3> QED BY <2>1, <3>1, <3>3 DEF DueSessions, DueToExpire, KeptLong, Aged, DueEmails
  <2>3. ASSUME pass # None
        PROVE  /\ passed' # None => passed' <= pass'.now
               /\ pass'.policy > 1 => DueSessions(pass.now)' = {}
               /\ pass'.policy > 2 => DueToExpire(pass.now)' = {} /\ KeptLong(pass.now)'
               /\ pass'.policy > 4 => Aged(pass.now)' = {}
    <3>1. PICK t \in 0..now : t = pass.now
      BY <2>3, PassFields
    <3>2. /\ passed # None => passed <= t
          /\ pass.policy > 1 => DueSessions(t) = {}
          /\ pass.policy > 2 => DueToExpire(t) = {} /\ KeptLong(t)
          /\ pass.policy > 4 => Aged(t) = {}
      BY <2>1, <2>3, <3>1 DEF PassOK
    <3>3. /\ pass.policy > 1 => DueSessions(t)' = {}
          /\ pass.policy > 2 => DueToExpire(t)' = {} /\ KeptLong(t)'
          /\ pass.policy > 4 => Aged(t)' = {}
      BY <3>2
    <3> QED BY <2>1, <3>1, <3>2, <3>3 DEF DueSessions, DueToExpire, KeptLong, Aged
  <2> QED BY <2>1, <2>2, <2>3 DEF PassOK
<1> QED BY <1>1, <1>2 DEF Inv

LEMMA InvOnboarding ==
  ASSUME Inv, OnboardingNext, UNCHANGED <<now, telemetry, retention>>
  PROVE  Inv' /\ GoOn
<1>1. /\ OnboardingTypeOK /\ InvitationsOK /\ OnboardingInv /\ TelemetryIInv /\ now \in Times /\ now \in Nat
      /\ UNCHANGED <<now, retention>> /\ UNCHANGED <<visits, events>>
  BY PassFields DEF telemetry
<1>2. OnboardingInv' /\ GoOn
  BY <1>1, OnboardingGoesOn
<1>3. TelemetryIInv'
  BY <1>1, TelemetryIStutter
<1>4. OnboardingTypeOK' /\ InvitationsOK'
  BY <1>2 DEF OnboardingInv
<1>5. ASSUME NEW t \in 0..now
      PROVE  /\ DueSessions(t) = {} => DueSessions(t)' = {}
             /\ DueToExpire(t) = {} => DueToExpire(t)' = {}
             /\ KeptLong(t) => KeptLong(t)'
             /\ Aged(t) = {} => Aged(t)' = {}
             /\ DueEmails(t) = {} => DueEmails(t)' = {}
  <2>1. Aged(t)' = Aged(t)
    BY <1>1 DEF Aged
  <2> QED BY <1>1, <1>2, <1>4, <2>1, SessionsStayClean, RowsStayClean, LinksStayClean DEF GoOn
<1> QED BY <1>1, <1>2, <1>3, <1>5, PassGoesOn

(* Steps that leave the rows of Onboarding alone.                           *)
LEMMA RowsAlone ==
  ASSUME UNCHANGED onboarding, NEW t
  PROVE  /\ DueSessions(t)' = DueSessions(t) /\ DueToExpire(t)' = DueToExpire(t)
         /\ KeptLong(t)' = KeptLong(t) /\ DueEmails(t)' = DueEmails(t)
BY DEF onboarding, DueSessions, Invalidated, AtRevocation, DueToExpire, Pending, KeptLong, Here, DueEmails

LEMMA InvTelemetry ==
  ASSUME Inv, TelemetryNext, UNCHANGED <<now, onboarding, retention>>
  PROVE  Inv' /\ EventsGoOn
<1>1. OnboardingInv /\ TelemetryIInv /\ now \in Times /\ now \in Nat /\ UNCHANGED <<now, onboarding, retention>>
  BY PassFields
<1>2. TelemetryIInv' /\ EventsGoOn
  BY <1>1, TelemetryGoesOn
<1>3. OnboardingInv'
  BY <1>1, KeepsTime
<1>4. \A t \in 0..now : Aged(t) = {} => Aged(t)' = {}
  BY <1>1, <1>2, EventsStayClean
<1> QED BY <1>1, <1>2, <1>3, <1>4, RowsAlone, PassGoesOn

LEMMA InvClock ==
  ASSUME Inv, Tick, RequestsAreShort, UNCHANGED <<onboarding, telemetry, retention>>
  PROVE  Inv'
<1>1. /\ OnboardingInv /\ TelemetryIInv /\ now \in Times /\ now \in Nat
      /\ UNCHANGED <<visits, events>> /\ UNCHANGED onboarding /\ UNCHANGED retention
  BY PassFields DEF telemetry
<1>2. now' \in Times /\ now <= now'
  BY <1>1, MaxTimeIsNatural DEF Tick, Times
<1>3. TelemetryIInv'
  BY <1>1, TelemetryITick
<1>4. OnboardingInv'
  BY <1>1, <1>2, KeepsTime
<1>5. \A t : Aged(t)' = Aged(t)
  BY <1>1 DEF Aged
<1> QED BY <1>1, <1>2, <1>3, <1>4, <1>5, RowsAlone, PassGoesOn

LEMMA InvStutter ==
  ASSUME Inv, UNCHANGED vars
  PROVE  Inv'
<1>1. /\ OnboardingInv /\ TelemetryIInv /\ now \in Times /\ now \in Nat /\ now' = now
      /\ UNCHANGED <<visits, events>> /\ UNCHANGED onboarding /\ UNCHANGED retention /\ UNCHANGED <<now, telemetry>>
  BY PassFields DEF vars, telemetry
<1>2. TelemetryIInv' /\ OnboardingInv'
  BY <1>1, TelemetryIStutter, KeepsTime
<1>3. \A t : Aged(t)' = Aged(t)
  BY <1>1 DEF Aged
<1> QED BY <1>1, <1>2, <1>3, RowsAlone, PassGoesOn

(* A pass starts, or ends before its time.                                  *)
LEMMA InvStartOrFail ==
  ASSUME Inv, StartPass \/ FailPass
  PROVE  Inv'
<1>1. /\ OnboardingInv /\ TelemetryIInv /\ now \in Times /\ now \in Nat /\ passes \in Nat /\ PassOK /\ TypeOK
      /\ passed # None => passed \in 0..now
      /\ UNCHANGED <<now, onboarding, telemetry, passed>> /\ UNCHANGED onboarding /\ UNCHANGED <<now, telemetry>>
      /\ UNCHANGED <<visits, events>>
  BY PassFields DEF StartPass, FailPass, telemetry, Inv
<1>2. TelemetryIInv' /\ OnboardingInv'
  BY <1>1, TelemetryIStutter, KeepsTime
<1>3. /\ pass' = [now |-> now, policy |-> 1] \/ pass' = None
      /\ passes' \in 0..MaxPasses
  BY <1>1, MaxPassesIsNatural DEF StartPass, FailPass, TypeOK
<1>4. TypeOK'
  <2>1. pass' \in [now : 0..now, policy : DOMAIN Policies] \cup {None}
    BY <1>1, <1>3, PolicyFacts
  <2> QED BY <1>1, <1>2, <1>3, <2>1 DEF TypeOK, OnboardingInv, TelemetryIInv, TelemetryInv
<1>5. PassOK'
  <2>1. ASSUME passed # None
        PROVE  /\ DueSessions(passed)' = {} /\ DueToExpire(passed)' = {} /\ KeptLong(passed)'
               /\ Aged(passed)' = {} /\ DueEmails(passed)' = {}
    <3>1. PICK t : t = passed
      OBVIOUS
    <3>2. Aged(t)' = Aged(t)
      BY <1>1 DEF Aged
    <3>3. DueSessions(t)' = {} /\ DueToExpire(t)' = {} /\ KeptLong(t)' /\ Aged(t)' = {} /\ DueEmails(t)' = {}
      BY <1>1, <2>1, <3>1, <3>2, RowsAlone DEF PassOK
    <3> QED BY <1>1, <3>1, <3>3 DEF DueSessions, DueToExpire, KeptLong, Aged, DueEmails
  <2>2. passed' # None => passed' <= now
    BY <1>1
  <2> QED BY <1>1, <1>3, <2>1, <2>2 DEF PassOK
<1> QED BY <1>2, <1>4, <1>5 DEF Inv

(* A policy has done its work: what it and the ones before have cleaned is  *)
(* clean.                                                                   *)
LEMMA PolicyGoesOn ==
  ASSUME Inv, pass # None, Continue, pass.policy \in 1..4, NEW t, t = pass.now,
         OnboardingInv', TelemetryIInv',
         \A d \in 0..t : /\ DueSessions(d) = {} => DueSessions(d)' = {}
                         /\ DueToExpire(d) = {} => DueToExpire(d)' = {}
                         /\ KeptLong(d) => KeptLong(d)'
                         /\ Aged(d) = {} => Aged(d)' = {}
                         /\ DueEmails(d) = {} => DueEmails(d)' = {},
         pass.policy = 1 => DueSessions(t)' = {},
         pass.policy = 2 => DueToExpire(t)' = {} /\ KeptLong(t)',
         pass.policy = 4 => Aged(t)' = {}
  PROVE  Inv'
<1>1. /\ now \in Times /\ now \in Nat /\ t \in 0..now /\ t \in Nat /\ PassOK /\ TypeOK
      /\ pass = [now |-> t, policy |-> pass.policy]
      /\ passed # None => passed \in 0..now /\ passed \in Nat
  BY PassFields DEF Inv
<1>2. UNCHANGED <<now, passes, passed>> /\ pass' = [now |-> t, policy |-> pass.policy + 1]
  BY <1>1 DEF Continue
<1>3. TypeOK'
  <2>1. pass' \in [now : 0..now, policy : DOMAIN Policies]
    BY <1>1, <1>2, PolicyFacts
  <2> QED BY <1>1, <1>2, <2>1 DEF TypeOK, OnboardingInv, TelemetryIInv, TelemetryInv
<1>4. ASSUME passed # None
      PROVE  /\ DueSessions(passed)' = {} /\ DueToExpire(passed)' = {} /\ KeptLong(passed)'
             /\ Aged(passed)' = {} /\ DueEmails(passed)' = {}
  <2>1. PICK d \in 0..t : d = passed
    BY <1>1, <1>4 DEF PassOK
  <2>2. DueSessions(d) = {} /\ DueToExpire(d) = {} /\ KeptLong(d) /\ Aged(d) = {} /\ DueEmails(d) = {}
    BY <1>1, <1>4, <2>1 DEF PassOK
  <2>3. DueSessions(d)' = {} /\ DueToExpire(d)' = {} /\ KeptLong(d)' /\ Aged(d)' = {} /\ DueEmails(d)' = {}
    BY <2>2
  <2> QED BY <1>2, <2>1, <2>3 DEF DueSessions, DueToExpire, KeptLong, Aged, DueEmails
<1>5. /\ DueSessions(t)' = {}
      /\ pass.policy + 1 > 2 => DueToExpire(t)' = {} /\ KeptLong(t)'
      /\ pass.policy + 1 > 4 => Aged(t)' = {}
  <2>1. t \in 0..t
    BY <1>1
  <2>2. /\ pass.policy > 1 => DueSessions(t) = {}
        /\ pass.policy > 2 => DueToExpire(t) = {} /\ KeptLong(t)
    BY <1>1 DEF PassOK
  <2> QED BY <2>1, <2>2
<1>6. PassOK'
  <2>1. /\ pass'.now = t /\ pass'.policy = pass.policy + 1
        /\ passed' # None => passed' <= t
    BY <1>1, <1>2 DEF PassOK
  <2>2. passed' # None => /\ DueSessions(passed)' = {} /\ DueToExpire(passed)' = {} /\ KeptLong(passed)'
                          /\ Aged(passed)' = {} /\ DueEmails(passed)' = {}
    BY <1>2, <1>4
  <2>3. /\ pass'.policy > 1 => DueSessions(pass.now)' = {}
        /\ pass'.policy > 2 => DueToExpire(pass.now)' = {} /\ KeptLong(pass.now)'
        /\ pass'.policy > 4 => Aged(pass.now)' = {}
    BY <1>5, <2>1 DEF DueSessions, DueToExpire, KeptLong, Aged
  <2> QED BY <2>1, <2>2, <2>3 DEF PassOK
<1> QED BY <1>3, <1>6 DEF Inv

LEMMA InvPurgeSessions ==
  ASSUME Inv, PurgeSessions
  PROVE  Inv'
<1>1. PICK t : t = pass.now
  OBVIOUS
<1>2. /\ pass # None /\ Continue /\ pass.policy = 1 /\ OnboardingInv /\ TelemetryIInv /\ OnboardingTypeOK
      /\ UNCHANGED <<now, telemetry>>
      /\ UNCHANGED <<creator, invitations, grants, staff, users, identities, logins, started, stranded, overtaken>>
      /\ UNCHANGED events /\ UNCHANGED visits
      /\ \A x \in Sessions : sessions'[x] = IF x \in DueSessions(t) THEN None ELSE sessions[x]
  BY <1>1, PassFields, PolicyFacts DEF PurgeSessions, Policy, Continue, telemetry
<1>3. sessions' \in [Sessions -> AuthSession \cup {None}] /\ started' \in Nat
  BY <1>2 DEF PurgeSessions, OnboardingTypeOK
<1>4. OnboardingInv'
  BY <1>2, <1>3, OnlySessions
<1>5. TelemetryIInv'
  BY <1>2, TelemetryIStutter
<1>6. \A d : /\ DueSessions(d)' \subseteq DueSessions(d) /\ DueToExpire(d)' = DueToExpire(d)
             /\ KeptLong(d) => KeptLong(d)'
             /\ Aged(d)' = Aged(d) /\ DueEmails(d)' = DueEmails(d)
  BY <1>2 DEF DueSessions, Invalidated, AtRevocation, DueToExpire, Pending, KeptLong, Here, Aged, DueEmails
<1>7. DueSessions(t)' = {}
  BY <1>2 DEF DueSessions, Invalidated, AtRevocation
<1> QED BY <1>1, <1>2, <1>4, <1>5, <1>6, <1>7, PolicyGoesOn

LEMMA InvPurgeAudit ==
  ASSUME Inv, PurgeAudit
  PROVE  Inv'
<1>1. PICK t : t = pass.now
  OBVIOUS
<1>2. /\ pass # None /\ Continue /\ pass.policy = 3 /\ OnboardingInv /\ TelemetryIInv /\ now \in Times /\ now \in Nat
      /\ UNCHANGED <<now, telemetry>> /\ UNCHANGED onboarding /\ UNCHANGED <<visits, events>>
  BY <1>1, PassFields, PolicyFacts DEF PurgeAudit, Policy, Continue, telemetry
<1>3. OnboardingInv' /\ TelemetryIInv'
  BY <1>2, TelemetryIStutter, KeepsTime
<1>4. \A d : Aged(d)' = Aged(d)
  BY <1>2 DEF Aged
<1> QED BY <1>1, <1>2, <1>3, <1>4, RowsAlone, PolicyGoesOn

LEMMA InvPurgeEvents ==
  ASSUME Inv, PurgeEvents
  PROVE  Inv'
<1>1. PICK t : t = pass.now
  OBVIOUS
<1>2. /\ pass # None /\ Continue /\ pass.policy = 4 /\ OnboardingInv /\ TelemetryIInv /\ now \in Times /\ now \in Nat
      /\ UNCHANGED <<now, visits, written, usage, overlapped>> /\ UNCHANGED onboarding /\ UNCHANGED visits
      /\ events' = events \ Aged(t) /\ t \in 0..now
  BY <1>1, PassFields, PolicyFacts DEF PurgeEvents, Policy, Continue
<1>3. OnboardingInv' /\ TelemetryIInv'
  BY <1>2, TelemetryIPurge, KeepsTime
<1>4. \A d : Aged(d)' \subseteq Aged(d)
  BY <1>2 DEF Aged
<1>5. Aged(t)' = {}
  BY <1>2 DEF Aged
<1> QED BY <1>1, <1>2, <1>3, <1>4, <1>5, RowsAlone, PolicyGoesOn

(* An invitation waits, expires, or goes a year after it was settled.       *)
LEMMA PurgedInvitations ==
  ASSUME Inv, PurgeInvitations, NEW t, t = pass.now
  PROVE  /\ invitations' \in [Invitations -> Invitation \cup {None, Gone}]
         /\ t \in 0..now /\ t \in Nat
         /\ \A i \in Invitations :
              \/ invitations'[i] = invitations[i] /\ i \notin DueToExpire(t) /\ i \notin DueInvitations(t)
              \/ /\ Here(i) /\ Pending(i) /\ i \in DueToExpire(t) /\ Here(i)' /\ ~Pending(i)'
                 /\ invitations'[i].status = "expired" /\ invitations'[i].settled = t
                 /\ invitations'[i].email = invitations[i].email /\ invitations'[i].created = invitations[i].created
              \/ Here(i) /\ ~Pending(i) /\ i \in DueInvitations(t) /\ invitations'[i] = Gone
<1>1. /\ OnboardingTypeOK /\ t \in 0..now /\ t \in Nat /\ now \in Times /\ now \in Nat
      /\ invitations' = [i \in Invitations |->
           IF i \in DueToExpire(t)
           THEN [invitations[i] EXCEPT !.status = "expired", !.settled = t]
           ELSE IF i \in DueInvitations(t) THEN Gone ELSE invitations[i]]
  BY PassFields DEF PurgeInvitations, Policy
<1>2. t \in Times
  <2>1. t \in 0..now /\ now \in 0..MaxTime
    BY <1>1 DEF Times
  <2> QED BY <2>1, MaxTimeIsNatural DEF Times
<1>3. ASSUME NEW i \in Invitations, i \in DueToExpire(t)
      PROVE  /\ Here(i) /\ Pending(i) /\ invitations'[i] \in Invitation
             /\ Here(i)' /\ ~Pending(i)' /\ invitations'[i].status = "expired" /\ invitations'[i].settled = t
             /\ invitations'[i].email = invitations[i].email /\ invitations'[i].created = invitations[i].created
  <2>1. Here(i) /\ Pending(i)
    BY <1>3 DEF DueToExpire, Pending, Here
  <2>2. invitations[i] \in Invitation
    BY <1>1, <2>1, InvitationFields
  <2>3. PICK row : row = [invitations[i] EXCEPT !.status = "expired", !.settled = t]
    OBVIOUS
  <2>4. /\ row \in Invitation /\ row.status = "expired" /\ row.settled = t
        /\ row.email = invitations[i].email /\ row.created = invitations[i].created
    BY <1>2, <2>2, <2>3 DEF Invitation, Terminal
  <2>5. invitations'[i] = row
    BY <1>1, <1>3, <2>3
  <2> QED BY <2>1, <2>4, <2>5, NoneIsNothing DEF Here, Pending
<1>4. ASSUME NEW i \in Invitations, i \notin DueToExpire(t), i \in DueInvitations(t)
      PROVE  Here(i) /\ ~Pending(i) /\ invitations'[i] = Gone
  BY <1>1, <1>4 DEF DueInvitations, Here, Pending, Terminal
<1>5. ASSUME NEW i \in Invitations, i \notin DueToExpire(t), i \notin DueInvitations(t)
      PROVE  invitations'[i] = invitations[i]
  BY <1>1, <1>5
<1>6. \A i \in Invitations : invitations'[i] \in Invitation \cup {None, Gone}
  BY <1>1, <1>3, <1>4, <1>5 DEF OnboardingTypeOK
<1>7. invitations' \in [Invitations -> Invitation \cup {None, Gone}]
  BY <1>1, <1>6
<1> QED BY <1>1, <1>3, <1>4, <1>5, <1>7

LEMMA InvPurgeInvitations ==
  ASSUME Inv, PurgeInvitations
  PROVE  Inv'
<1>1. PICK t : t = pass.now
  OBVIOUS
<1>2. /\ pass # None /\ Continue /\ pass.policy = 2 /\ OnboardingInv /\ TelemetryIInv /\ OnboardingTypeOK
      /\ InvitationsOK /\ now \in Nat
      /\ UNCHANGED <<now, telemetry>>
      /\ UNCHANGED <<creator, grants, staff, users, identities, sessions, logins, started, stranded, overtaken>>
      /\ UNCHANGED events /\ UNCHANGED visits
  BY <1>1, PassFields, PolicyFacts DEF PurgeInvitations, Policy, Continue, telemetry
<1>3. /\ invitations' \in [Invitations -> Invitation \cup {None, Gone}]
      /\ t \in 0..now /\ t \in Nat
      /\ \A i \in Invitations :
           \/ invitations'[i] = invitations[i] /\ i \notin DueToExpire(t) /\ i \notin DueInvitations(t)
           \/ /\ Here(i) /\ Pending(i) /\ i \in DueToExpire(t) /\ Here(i)' /\ ~Pending(i)'
              /\ invitations'[i].status = "expired" /\ invitations'[i].settled = t
              /\ invitations'[i].email = invitations[i].email /\ invitations'[i].created = invitations[i].created
           \/ Here(i) /\ ~Pending(i) /\ i \in DueInvitations(t) /\ invitations'[i] = Gone
  BY <1>1, PurgedInvitations
<1>4. InvitationsGoOn
  BY <1>3, NoneIsNothing DEF InvitationsGoOn, Here
<1>5. \A i \in Invitations : invitations[i] # None /\ ~Pending(i) => invitations'[i] \in {invitations[i], Gone}
  BY <1>3
<1>6. ASSUME NEW i \in Invitations, Here(i)', invitations'[i] # invitations[i]
      PROVE  /\ invitations'[i].created <= now
             /\ invitations'[i].settled = None <=> Pending(i)'
             /\ invitations'[i].settled # None => invitations'[i].settled <= now
  <2>1. /\ Here(i) /\ ~Pending(i)' /\ invitations'[i].settled = t /\ invitations'[i].created = invitations[i].created
    BY <1>3, <1>6 DEF Here
  <2> QED BY <1>2, <1>3, <2>1, NoneIsNothing DEF InvitationsOK
<1>7. OnboardingInv'
  BY <1>2, <1>3, <1>4, <1>5, <1>6, OnlyInvitations
<1>8. TelemetryIInv'
  BY <1>2, TelemetryIStutter
<1>9. ASSUME NEW d \in 0..t
      PROVE  /\ DueSessions(d)' = DueSessions(d) /\ DueEmails(d)' = DueEmails(d) /\ Aged(d)' = Aged(d)
             /\ DueToExpire(d)' \subseteq DueToExpire(d)
             /\ KeptLong(d) => KeptLong(d)'
  <2>1. DueToExpire(d)' \subseteq DueToExpire(d)
    BY <1>3 DEF DueToExpire, Pending, Here
  <2>2. ASSUME KeptLong(d), NEW i \in Invitations, Here(i)', invitations'[i].settled # None
        PROVE  invitations'[i].settled > d - TerminalRetention
    <3>1. CASE invitations'[i] = invitations[i]
      BY <2>2, <3>1 DEF KeptLong, Here
    <3>2. CASE invitations'[i].settled = t
      BY <1>3, <3>2, RetentionPeriods
    <3> QED BY <1>3, <2>2, <3>1, <3>2 DEF Here
  <2> QED BY <1>2, <2>1, <2>2
          DEF DueSessions, Invalidated, AtRevocation, KeptLong, DueEmails, Aged
<1>10. DueToExpire(t)' = {}
  BY <1>3 DEF DueToExpire, Pending, Here
<1>11. KeptLong(t)'
  <2> SUFFICES ASSUME NEW i \in Invitations, Here(i)', invitations'[i].settled # None
               PROVE  invitations'[i].settled > t - TerminalRetention
    BY DEF KeptLong
  <2>1. CASE invitations'[i] = invitations[i] /\ i \notin DueInvitations(t)
    <3>1. Here(i) /\ invitations[i].settled # None
      BY <2>1 DEF Here
    <3>2. ~Pending(i)
      BY <1>2, <3>1 DEF InvitationsOK
    <3>3. invitations[i].status \in Terminal /\ invitations[i].settled \in Nat
      BY <1>2, <3>1, <3>2, InvitationFields DEF Pending, Here, Terminal
    <3>4. ~(invitations[i].settled <= t - TerminalRetention)
      BY <2>1, <3>1, <3>3 DEF DueInvitations, SinceSettled, Here
    <3> QED BY <1>3, <2>1, <3>3, <3>4, RetentionPeriods
  <2>2. CASE invitations'[i].settled = t
    BY <1>3, <2>2, RetentionPeriods
  <2> QED BY <1>3, <2>1, <2>2 DEF Here
<1> QED BY <1>1, <1>2, <1>7, <1>8, <1>9, <1>10, <1>11, PolicyGoesOn

(* The last policy ends the pass, and all of them have done their work.     *)
LEMMA InvNullifyEmails ==
  ASSUME Inv, NullifyEmails
  PROVE  Inv'
<1>1. PICK t : t = pass.now
  OBVIOUS
<1>2. /\ pass # None /\ pass.policy = 5 /\ OnboardingInv /\ TelemetryIInv /\ OnboardingTypeOK /\ TypeOK /\ PassOK
      /\ t \in 0..now /\ t \in Nat
      /\ UNCHANGED <<now, telemetry>> /\ pass' = None /\ passed' = t /\ passes' = passes
      /\ UNCHANGED <<creator, invitations, grants, staff, users, sessions, logins, started, stranded, overtaken>>
      /\ UNCHANGED events /\ UNCHANGED visits
      /\ identities' = [s \in Subjects |->
           IF s \in DueEmails(t) THEN [identities[s] EXCEPT !.email = FALSE] ELSE identities[s]]
  BY <1>1, PassFields, PolicyFacts DEF NullifyEmails, Policy, telemetry, Inv
<1>3. ASSUME NEW s \in Subjects
      PROVE  /\ identities'[s] \in Identity \cup {None}
             /\ identities'[s] # None <=> identities[s] # None
             /\ identities'[s].user = identities[s].user
             /\ \/ s \notin DueEmails(t) /\ identities'[s] = identities[s]
                \/ identities'[s].email = FALSE
  <2>1. CASE s \in DueEmails(t)
    <3>1. identities[s] \in Identity /\ identities[s] # None
      BY <1>2, <2>1, LinkFields DEF DueEmails
    <3>2. PICK row : row = [identities[s] EXCEPT !.email = FALSE]
      OBVIOUS
    <3>3. row \in Identity /\ row.user = identities[s].user /\ row.email = FALSE
      BY <3>1, <3>2 DEF Identity
    <3>4. identities'[s] = row
      BY <1>2, <2>1, <3>2
    <3> QED BY <3>1, <3>3, <3>4, NoneIsNothing
  <2>2. CASE s \notin DueEmails(t)
    BY <1>2, <2>2 DEF OnboardingTypeOK
  <2> QED BY <2>1, <2>2
<1>4. OnboardingInv'
  <2>1. identities' \in [Subjects -> Identity \cup {None}]
    BY <1>2, <1>3
  <2> QED BY <1>2, <1>3, <2>1, KeepsIdentities
<1>5. TelemetryIInv'
  BY <1>2, TelemetryIStutter
<1>6. TypeOK'
  BY <1>2, <1>4, <1>5 DEF TypeOK, OnboardingInv, TelemetryIInv, TelemetryInv
<1>7. DueEmails(t)' = {}
  BY <1>3 DEF DueEmails
<1>8. DueSessions(t)' = {} /\ DueToExpire(t)' = {} /\ KeptLong(t)' /\ Aged(t)' = {}
  <2>1. DueSessions(t) = {} /\ DueToExpire(t) = {} /\ KeptLong(t) /\ Aged(t) = {}
    BY <1>1, <1>2 DEF PassOK
  <2> QED BY <1>2, <2>1
          DEF DueSessions, Invalidated, AtRevocation, DueToExpire, Pending, KeptLong, Here, Aged
<1>9. PassOK'
  BY <1>2, <1>7, <1>8 DEF PassOK, DueSessions, DueToExpire, KeptLong, Aged, DueEmails
<1> QED BY <1>4, <1>5, <1>6, <1>9 DEF Inv

LEMMA InvInit0 == Init => Inv
<1> SUFFICES ASSUME Init PROVE Inv
  OBVIOUS
<1>1. OnboardingInv /\ TelemetryIInv
  BY KeepsInit, TelemetryIInit DEF Init
<1>2. TypeOK
  BY <1>1, Times0, MaxPassesIsNatural DEF Init, TypeOK, OnboardingInv, TelemetryIInv, TelemetryInv
<1>3. PassOK
  BY DEF Init, PassOK
<1> QED BY <1>1, <1>2, <1>3 DEF Inv

LEMMA InvRetain ==
  ASSUME Inv, Retain
  PROVE  Inv'
BY InvStartOrFail, InvPurgeSessions, InvPurgeInvitations, InvPurgeAudit, InvPurgeEvents, InvNullifyEmails DEF Retain

LEMMA InvNext == Inv /\ [Next]_vars => Inv'
<1> SUFFICES ASSUME Inv, [Next]_vars PROVE Inv'
  OBVIOUS
<1> QED BY InvOnboarding, InvTelemetry, InvRetain, InvClock, InvStutter DEF Next

-----------------------------------------------------------------------------
(* What a step may never do.                                                *)

(* The policies accept nothing.                                             *)
LEMMA RetainSpends ==
  ASSUME Inv, Retain
  PROVE  UNCHANGED onboarding \/ SpentOnce
<1>1. CASE PurgeInvitations
  <2>1. PICK t : t = pass.now
    OBVIOUS
  <2>2. grants' = grants
    BY <1>1 DEF PurgeInvitations
  <2>3. \A i \in Invitations :
          /\ invitations[i] # None /\ ~Pending(i) => invitations'[i] \in {invitations[i], Gone}
          /\ Pending(i) => invitations'[i] = Gone \/ invitations'[i].status # "accepted"
    BY <1>1, <2>1, PurgedInvitations DEF Pending
  <2> QED BY <2>2, <2>3, NothingAccepted
<1>2. CASE PurgeSessions \/ NullifyEmails
  BY <1>2, QuietRows DEF PurgeSessions, NullifyEmails
<1>3. CASE StartPass \/ PurgeAudit \/ PurgeEvents \/ FailPass
  BY <1>3 DEF StartPass, PurgeAudit, PurgeEvents, FailPass
<1> QED BY <1>1, <1>2, <1>3 DEF Retain

LEMMA SpentOnceStep == Inv /\ [Next]_vars => [SpentOnce]_onboarding
<1> SUFFICES ASSUME Inv, [Next]_vars PROVE SpentOnce \/ UNCHANGED onboarding
  OBVIOUS
<1>1. CASE OnboardingNext /\ UNCHANGED <<now, telemetry, retention>>
  BY <1>1, InvOnboarding DEF GoOn
<1>2. CASE Retain
  BY <1>2, RetainSpends
<1> QED BY <1>1, <1>2 DEF Next, vars

(* What NothingPurgedEarly says of a step.                                  *)
SessionsInTime == \A x \in Sessions : sessions[x] # None /\ sessions'[x] = None /\ ~Anonymizing =>
  Invalidated(x) + PurgeAfterInvalidation <= now
InvitationsInTime ==
  \A i \in Invitations : invitations[i] \notin {None, Gone} /\ invitations'[i] # invitations[i] =>
    IF invitations'[i] = Gone
    THEN \/ Anonymizing
         \/ ~Pending(i) /\ invitations[i].settled + TerminalRetention <= now
    ELSE invitations'[i].status = "expired" =>
           Pending(i) /\ invitations[i].created + PendingExpiresAfter <= now
EventsInTime == \A r \in events \ events' : visits[r].at + RawRetention < now
LinksInTime ==
  \A s \in Subjects : identities[s] # None /\ identities'[s] # identities[s] /\ ~Anonymizing =>
    identities[s].linked + EmailRetention < now
InTime == SessionsInTime /\ InvitationsInTime /\ EventsInTime /\ LinksInTime

LEMMA NothingGone ==
  /\ UNCHANGED sessions => SessionsInTime
  /\ UNCHANGED invitations => InvitationsInTime
  /\ UNCHANGED events => EventsInTime
  /\ UNCHANGED identities => LinksInTime
BY DEF SessionsInTime, InvitationsInTime, EventsInTime, LinksInTime

LEMMA OnboardingInTime ==
  ASSUME Inv, OnboardingNext, UNCHANGED <<now, telemetry, retention>>
  PROVE  InTime
<1>1. GoOn /\ UNCHANGED events
  BY InvOnboarding DEF telemetry
<1>2. SessionsInTime
  BY <1>1 DEF GoOn, SessionsGoOn, SessionsInTime
<1>3. InvitationsInTime
  BY <1>1 DEF GoOn, RowsGoOn, InvitationsInTime, Here
<1>4. LinksInTime
  BY <1>1 DEF GoOn, LinksGoOn, LinksInTime
<1> QED BY <1>1, <1>2, <1>3, <1>4, NothingGone DEF InTime

LEMMA RetainInTime ==
  ASSUME Inv, Retain
  PROVE  InTime
<1>0. /\ OnboardingTypeOK /\ InvitationsOK /\ TelemetryIInv /\ now \in Nat
      /\ pass # None => pass.now \in 0..now /\ pass.now \in Nat
  BY PassFields
<1>1. CASE PurgeSessions
  <2>1. PICK t \in 0..now : t = pass.now
    BY <1>0, <1>1 DEF PurgeSessions, Policy
  <2>2. SessionsInTime
    <3> SUFFICES ASSUME NEW x \in Sessions, sessions[x] # None, sessions'[x] = None
                 PROVE  Invalidated(x) + PurgeAfterInvalidation <= now
      BY DEF SessionsInTime
    <3>1. x \in DueSessions(t)
      BY <1>1, <2>1 DEF PurgeSessions
    <3>2. Invalidated(x) \in Nat
      BY <1>0, SessionFields DEF Invalidated, AtRevocation
    <3> QED BY <1>0, <3>1, <3>2, RetentionPeriods DEF DueSessions
  <2> QED BY <1>1, <2>2, NothingGone DEF InTime, PurgeSessions, telemetry
<1>2. CASE PurgeInvitations
  <2>1. PICK t \in 0..now : t = pass.now
    BY <1>0, <1>2 DEF PurgeInvitations, Policy
  <2>2. InvitationsInTime
    <3> SUFFICES ASSUME NEW i \in Invitations, Here(i), invitations'[i] # invitations[i]
                 PROVE  IF invitations'[i] = Gone
                        THEN ~Pending(i) /\ invitations[i].settled + TerminalRetention <= now
                        ELSE invitations'[i].status = "expired" =>
                               Pending(i) /\ invitations[i].created + PendingExpiresAfter <= now
      BY DEF InvitationsInTime, Here
    <3>1. /\ invitations[i].created \in Nat /\ invitations[i].settled \in Nat \cup {None}
          /\ invitations[i].settled = None <=> Pending(i)
      BY <1>0, InvitationFields DEF InvitationsOK
    <3>2. \/ Pending(i) /\ i \in DueToExpire(t) /\ Here(i)' /\ invitations'[i].status = "expired"
          \/ ~Pending(i) /\ i \in DueInvitations(t) /\ invitations'[i] = Gone
      BY <1>2, <2>1, PurgedInvitations
    <3>3. i \in DueToExpire(t) => invitations[i].created + PendingExpiresAfter <= now
      BY <1>0, <3>1, RetentionPeriods DEF DueToExpire
    <3>4. ~Pending(i) /\ i \in DueInvitations(t) => invitations[i].settled + TerminalRetention <= now
      BY <1>0, <3>1, RetentionPeriods DEF DueInvitations, SinceSettled
    <3> QED BY <3>2, <3>3, <3>4 DEF Here
  <2> QED BY <1>2, <2>2, NothingGone DEF InTime, PurgeInvitations, telemetry
<1>3. CASE PurgeEvents
  <2>1. PICK t \in 0..now : t = pass.now
    BY <1>0, <1>3 DEF PurgeEvents, Policy
  <2>2. \A r \in events : visits[r].at \in Nat
    BY <1>0, ConjunctsOfInv DEF TelemetryIInv
  <2>3. EventsInTime
    BY <1>0, <1>3, <2>1, <2>2, Windows2 DEF EventsInTime, PurgeEvents, Aged
  <2> QED BY <1>3, <2>3, NothingGone DEF InTime, PurgeEvents, onboarding
<1>4. CASE NullifyEmails
  <2>1. PICK t \in 0..now : t = pass.now
    BY <1>0, <1>4 DEF NullifyEmails, Policy
  <2>2. LinksInTime
    <3> SUFFICES ASSUME NEW s \in Subjects, identities[s] # None, identities'[s] # identities[s]
                 PROVE  identities[s].linked + EmailRetention < now
      BY DEF LinksInTime
    <3>1. s \in DueEmails(t)
      BY <1>4, <2>1 DEF NullifyEmails
    <3>2. identities[s].linked \in Nat
      BY <1>0, LinkFields
    <3> QED BY <1>0, <3>1, <3>2, RetentionPeriods DEF DueEmails
  <2> QED BY <1>4, <2>2, NothingGone DEF InTime, NullifyEmails, telemetry
<1>5. CASE StartPass \/ PurgeAudit \/ FailPass
  BY <1>5, NothingGone DEF InTime, StartPass, PurgeAudit, FailPass, onboarding, telemetry
<1> QED BY <1>1, <1>2, <1>3, <1>4, <1>5 DEF Retain

LEMMA InTimeStep == Inv /\ [Next]_vars => [InTime]_vars
<1> SUFFICES ASSUME Inv, [Next]_vars PROVE InTime \/ UNCHANGED vars
  OBVIOUS
<1>1. CASE OnboardingNext /\ UNCHANGED <<now, telemetry, retention>>
  BY <1>1, OnboardingInTime
<1>2. CASE TelemetryNext /\ UNCHANGED <<now, onboarding, retention>>
  BY <1>2, InvTelemetry, NothingGone DEF InTime, EventsInTime, EventsGoOn, onboarding
<1>3. CASE Retain
  BY <1>3, RetainInTime
<1>4. CASE Tick /\ RequestsAreShort /\ UNCHANGED <<onboarding, telemetry, retention>>
  BY <1>4, NothingGone DEF InTime, onboarding, telemetry
<1> QED BY <1>1, <1>2, <1>3, <1>4 DEF Next

-----------------------------------------------------------------------------
(* The theorems.                                                            *)

LEMMA Invariance == Spec => []Inv
BY InvInit0, InvNext, PTL DEF Spec

(* Whatever arrives while passes run, the rows have their types, and the    *)
(* keys the handlers lean on hold: emails are unique among the accounts,    *)
(* an identity refers to one.                                               *)
THEOREM RetentionTypeCorrect == Spec => []TypeOK
<1>1. Inv => TypeOK
  BY DEF Inv
<1> QED BY <1>1, Invariance, PTL

(* A living account can be entered, or its first login is under way or was  *)
(* cut short.                                                               *)
THEOREM AccountsEnteredTheorem == Spec => []EveryAccountCanBeEntered
<1>1. Inv => EveryAccountCanBeEntered
  BY DEF Inv, OnboardingInv
<1> QED BY <1>1, Invariance, PTL

(* Only the subject an account was created for ever enters it, and an       *)
(* anonymized account keeps no identity, session or grant.                  *)
THEOREM AccountsOwnedTheorem == Spec => []AccountsKeepTheirOwner
<1>1. Inv => AccountsKeepTheirOwner
  BY DEF Inv, OnboardingInv
<1> QED BY <1>1, Invariance, PTL

(* An invitation lets one account in, the one it was sent to, in the step   *)
(* that accepts it, and is never pending again.                             *)
THEOREM SpentOnceTheorem == Spec => InvitationsAreSpentOnce
<1>1. [][SpentOnce]_onboarding => InvitationsAreSpentOnce
  BY PTL DEF SpentOnce, InvitationsAreSpentOnce
<1> QED BY <1>1, SpentOnceStep, Invariance, PTL DEF Spec

(* Sessions of visitors who never had two requests at once are within their *)
(* limits, whatever was purged meanwhile.                                   *)
THEOREM SessionLimitsTheorem == Spec => []SessionsWithinLimits
<1>1. Inv => SessionsWithinLimits
  BY TelemetryIFacts DEF Inv
<1> QED BY <1>1, Invariance, PTL

(* The rows of a day count the events of the day, even after these are      *)
(* purged.                                                                  *)
THEOREM UsageTheorem == Spec => []UsageMatchesEvents
<1>1. Inv => UsageMatchesEvents
  BY TelemetryIFacts DEF Inv
<1> QED BY <1>1, Invariance, PTL

(* The visitors of a day are nobody twice, and everybody who saw a page     *)
(* without a match that day.                                                *)
THEOREM VisitorsTheorem == Spec => []NoVisitorCountedTwice
<1>1. Inv => NoVisitorCountedTwice
  BY TelemetryIFacts DEF Inv
<1> QED BY <1>1, Invariance, PTL

(* The total of a period has all its views, and none of another day.        *)
THEOREM ReportsTheorem == Spec => []ReportsCountEveryView
<1>1. Inv => ReportsCountEveryView
  BY TelemetryIFacts DEF Inv
<1> QED BY <1>1, Invariance, PTL

(* A number of visitors that the report calls exact counts all who came.    *)
THEOREM ExactTheorem == Spec => []ExactMeansExact
<1>1. Inv => ExactMeansExact
  BY TelemetryIFacts DEF Inv
<1> QED BY <1>1, Invariance, PTL

(* After a complete pass nothing is left that was due when it began.        *)
THEOREM NothingOverdueTheorem == Spec => []AfterAPassNothingOverdue
<1>1. Inv => AfterAPassNothingOverdue
  BY DEF Inv, PassOK, KeptLong, Here, AfterAPassNothingOverdue
<1> QED BY <1>1, Invariance, PTL

(* A row goes only when its time is over, or with its account.              *)
THEOREM NothingEarlyTheorem == Spec => NothingPurgedEarly
<1>1. [][InTime]_vars => NothingPurgedEarly
  BY PTL DEF InTime, SessionsInTime, InvitationsInTime, EventsInTime, LinksInTime, NothingPurgedEarly
<1> QED BY <1>1, InTimeStep, Invariance, PTL DEF Spec
=============================================================================
