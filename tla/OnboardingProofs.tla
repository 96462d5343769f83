-------------------------- MODULE OnboardingProofs --------------------------
(***************************************************************************)
(* Proofs about Onboarding, for any number of people, projects and logins. *)
(***************************************************************************)
EXTENDS Onboarding, TLAPS

-----------------------------------------------------------------------------
(* The inductive invariant.                                                 *)

Here(i) == invitations[i] \notin {None, Gone}
Anonymous(u) == users[u] # None /\ users[u].status = "anonymized"
Entering(b) == logins[b] # None /\ logins[b].pc \in {"created", "linked", "accepting"}

(* A login knows whom it created: an account of its own subject and email,  *)
(* which cannot be anonymized behind its back without a trace; and what it  *)
(* has listed was sent to that email.                                       *)
LoginOK(b) ==
  /\ logins[b].user # None => Entering(b)
  /\ Entering(b) => LET u == logins[b].user IN
       /\ u \in Users /\ users[u] # None
       /\ users[u].by = logins[b].subject /\ users[u].born = logins[b].email
       /\ Anonymous(u) => u \in overtaken
  /\ \A i \in logins[b].listed : invitations[i] # None /\
       (invitations[i] # Gone => invitations[i].email = logins[b].email)
LoginsOK == \A b \in Browsers : logins[b] # None => LoginOK(b)

(* An invitation carries a date of settlement once it is settled, and only  *)
(* one that is settled has let somebody in.                                 *)
InvitationsOK ==
  /\ \A i \in Invitations : Here(i) =>
       /\ invitations[i].created <= now
       /\ invitations[i].settled = None <=> Pending(i)
       /\ invitations[i].settled # None => invitations[i].settled <= now
  /\ \A g \in grants : g.from # None => invitations[g.from] # None /\ ~Pending(g.from)

SessionsHaveUsers == \A x \in Sessions : sessions[x] # None => users[sessions[x].user] # None

OnboardingInv ==
  /\ OnboardingTypeOK
  /\ LoginsOK /\ InvitationsOK /\ SessionsHaveUsers
  /\ EveryAccountCanBeEntered /\ AccountsKeepTheirOwner

-----------------------------------------------------------------------------
(* What the types and the invariant say of the rows.                        *)

LEMMA InvitationFields ==
  ASSUME OnboardingTypeOK, NEW i \in Invitations, Here(i)
  PROVE  /\ invitations[i] \in Invitation /\ invitations[i] # None /\ invitations[i] # Gone
         /\ invitations[i].project \in Projects /\ invitations[i].email \in Emails
         /\ invitations[i].status \in {"pending", "accepted", "revoked", "expired"}
         /\ invitations[i].created \in Nat /\ invitations[i].settled \in Nat \cup {None}
         /\ invitations[i].created \in Times /\ invitations[i].settled \in Times \cup {None}
<1>1. invitations[i] \in Invitation
  BY DEF OnboardingTypeOK, Here
<1> QED BY <1>1, MaxTimeIsNatural DEF Invitation, Terminal, Times, Here

LEMMA NewInvitationFields ==
  ASSUME NEW p \in Projects, NEW e \in Emails, now \in Times
  PROVE  /\ NewInvitation(p, e) \in Invitation /\ NewInvitation(p, e) \notin {None, Gone}
         /\ NewInvitation(p, e).email = e /\ NewInvitation(p, e).status = "pending"
         /\ NewInvitation(p, e).created = now /\ NewInvitation(p, e).settled = None
<1>1. NewInvitation(p, e) \in Invitation
  BY DEF NewInvitation, Invitation, Terminal
<1> QED BY <1>1, NoneIsNoRow DEF NewInvitation

LEMMA SettledFields ==
  ASSUME OnboardingTypeOK, now \in Times, NEW i \in Invitations, Here(i), NEW status \in Terminal
  PROVE  /\ Settled(i, status) \in Invitation /\ Settled(i, status) \notin {None, Gone}
         /\ Settled(i, status).email = invitations[i].email /\ Settled(i, status).status = status
         /\ Settled(i, status).created = invitations[i].created /\ Settled(i, status).settled = now
         /\ status # "pending"
<1>1. invitations[i] \in Invitation
  BY InvitationFields
<1>2. Settled(i, status) \in Invitation
  BY <1>1 DEF Settled, Invitation, Terminal
<1> QED BY <1>1, <1>2, NoneIsNoRow DEF Settled, Invitation, Terminal

LEMMA UserFields ==
  ASSUME OnboardingTypeOK, NEW u \in Users, users[u] # None
  PROVE  /\ users[u] \in User /\ users[u].email \in Emails \cup {None}
         /\ users[u].status \in {"active", "deactivated", "anonymized"}
         /\ users[u].born \in Emails /\ users[u].by \in Subjects
<1>1. users[u] \in User
  BY DEF OnboardingTypeOK
<1> QED BY <1>1 DEF User

LEMMA LoginFields ==
  ASSUME OnboardingTypeOK, NEW b \in Browsers, logins[b] # None
  PROVE  /\ logins[b] \in Login /\ logins[b].subject \in Subjects /\ logins[b].email \in Emails
         /\ logins[b].user \in Users \cup {None} /\ logins[b].listed \subseteq Invitations
         /\ logins[b].pc \in {"unlinked", "creating", "created", "linked", "accepting"}
<1>1. logins[b] \in Login
  BY DEF OnboardingTypeOK
<1> QED BY <1>1 DEF Login

LEMMA NoneIsNothing ==
  /\ None \notin Invitations /\ None \notin Users /\ None \notin Nat /\ None # Gone
  /\ None \notin Invitation /\ Gone \notin Invitation
  /\ None \notin User /\ None \notin Identity /\ None \notin AuthSession /\ None \notin Login
BY NoneIsNoValue, NoneIsNoRow

-----------------------------------------------------------------------------
(* What an action may do to the rows that others rely on.                   *)

UsersGoOn == \A u \in Users : users[u] # None =>
  /\ users'[u] # None /\ users'[u].by = users[u].by /\ users'[u].born = users[u].born
  /\ Anonymous(u)' => Anonymous(u) \/ u \in overtaken' \/ \A b \in Browsers : logins[b] # None => logins[b].user # u
InvitationsGoOn == \A i \in Invitations : invitations[i] # None =>
  /\ invitations'[i] # None
  /\ invitations'[i] = Gone \/ (invitations[i] # Gone /\ invitations'[i].email = invitations[i].email)

LEMMA LoginStays ==
  ASSUME OnboardingTypeOK, NEW b \in Browsers, logins[b] # None, LoginOK(b), logins'[b] = logins[b],
         UsersGoOn, InvitationsGoOn, overtaken \subseteq overtaken'
  PROVE  LoginOK(b)'
<1>1. logins[b].listed \subseteq Invitations
  BY LoginFields
<1>2. \A i \in logins[b].listed : invitations'[i] # None /\
        (invitations'[i] # Gone => invitations'[i].email = logins[b].email)
  BY <1>1 DEF LoginOK, InvitationsGoOn
<1>3. ASSUME Entering(b)
      PROVE  LET u == logins[b].user IN
             /\ u \in Users /\ users'[u] # None
             /\ users'[u].by = logins[b].subject /\ users'[u].born = logins[b].email
             /\ Anonymous(u)' => u \in overtaken'
  <2>1. PICK u \in Users : /\ u = logins[b].user /\ users[u] # None
                           /\ users[u].by = logins[b].subject /\ users[u].born = logins[b].email
                           /\ Anonymous(u) => u \in overtaken
    BY <1>3 DEF LoginOK
  <2> QED BY <2>1 DEF UsersGoOn, Anonymous
<1> QED BY <1>2, <1>3 DEF LoginOK, Entering, Anonymous

LEMMA QuietUsers == ASSUME UNCHANGED users PROVE UsersGoOn
BY DEF UsersGoOn, Anonymous
LEMMA QuietInvitations == ASSUME UNCHANGED invitations PROVE InvitationsGoOn
BY DEF InvitationsGoOn

LEMMA LoginsStay ==
  ASSUME OnboardingTypeOK, LoginsOK, UNCHANGED logins, UsersGoOn, InvitationsGoOn, overtaken \subseteq overtaken'
  PROVE  LoginsOK'
BY LoginStays DEF LoginsOK

LEMMA LoginMoves ==
  ASSUME OnboardingTypeOK, LoginsOK, NEW b \in Browsers, NEW login \in Login \cup {None}, Goes(b, login),
         login # None => LoginOK(b)',
         UsersGoOn, InvitationsGoOn, overtaken \subseteq overtaken'
  PROVE  /\ LoginsOK' /\ logins' \in [Browsers -> Login \cup {None}] /\ logins'[b] = login
         /\ \A c \in Browsers \ {b} : logins'[c] = logins[c]
<1>1. logins \in [Browsers -> Login \cup {None}] /\ logins' = [logins EXCEPT ![b] = login]
  BY DEF OnboardingTypeOK, Goes
<1>2. /\ logins' \in [Browsers -> Login \cup {None}] /\ logins'[b] = login
      /\ \A c \in Browsers \ {b} : logins'[c] = logins[c]
  BY <1>1
<1>3. ASSUME NEW c \in Browsers, c # b, logins'[c] # None PROVE LoginOK(c)'
  BY <1>2, <1>3, LoginStays DEF LoginsOK
<1> QED BY <1>2, <1>3 DEF LoginsOK

(* Invitations come, are settled and go; who was let in stays in.           *)
LEMMA InvitationsChange ==
  ASSUME OnboardingInv, now' = now,
         invitations' \in [Invitations -> Invitation \cup {None, Gone}], InvitationsGoOn,
         \A i \in Invitations : invitations[i] # None /\ ~Pending(i) => invitations'[i] \in {invitations[i], Gone},
         \A i \in Invitations : Here(i)' => \/ invitations'[i] = invitations[i]
                                            \/ /\ invitations'[i].created <= now
                                               /\ invitations'[i].settled = None <=> Pending(i)'
                                               /\ invitations'[i].settled # None => invitations'[i].settled <= now,
         grants' \in SUBSET Grant,
         \A g \in grants' : \/ g \in grants
                            \/ /\ g.from # None => invitations'[g.from] # None /\ ~Pending(g.from)'
                               /\ Anonymous(g.user) => g.user \in overtaken
  PROVE  /\ InvitationsOK'
         /\ UNCHANGED <<users, identities, sessions, overtaken>> => AccountsKeepTheirOwner'
<1>1. InvitationsOK /\ AccountsKeepTheirOwner /\ OnboardingTypeOK
  BY DEF OnboardingInv
<1>2. ASSUME NEW i \in Invitations, Here(i)'
      PROVE  /\ invitations'[i].created <= now
             /\ invitations'[i].settled = None <=> Pending(i)'
             /\ invitations'[i].settled # None => invitations'[i].settled <= now
  <2>1. CASE invitations'[i] = invitations[i]
    BY <1>1, <1>2, <2>1 DEF InvitationsOK, Here, Pending
  <2> QED BY <1>2, <2>1
<1>3. ASSUME NEW g \in grants', g.from # None PROVE invitations'[g.from] # None /\ ~Pending(g.from)'
  <2>1. CASE g \in grants
    <3>1. g.from \in Invitations /\ invitations[g.from] # None /\ ~Pending(g.from)
      BY <1>1, <1>3, <2>1 DEF InvitationsOK, OnboardingTypeOK, Grant
    <3>2. invitations'[g.from] # None /\ invitations'[g.from] \in {invitations[g.from], Gone}
      BY <3>1 DEF InvitationsGoOn
    <3> QED BY <3>1, <3>2 DEF Pending
  <2> QED BY <1>3, <2>1
<1>4. InvitationsOK'
  BY <1>2, <1>3 DEF InvitationsOK
<1>5. ASSUME UNCHANGED <<users, identities, sessions, overtaken>> PROVE AccountsKeepTheirOwner'
  BY <1>1, <1>5 DEF AccountsKeepTheirOwner, Anonymous
<1> QED BY <1>4, <1>5

-----------------------------------------------------------------------------
(* Every action keeps the invariant.                                        *)

LEMMA KeepsCreateProject ==
  ASSUME OnboardingInv, now \in Times, now' = now, NEW u \in Users, NEW p \in Projects, CreateProject(u, p)
  PROVE  OnboardingInv' /\ \A i \in Invitations : invitations[i] # None => invitations'[i] = invitations[i]
<1>0. OnboardingTypeOK
  BY DEF OnboardingInv
<1>1. PICK invited \in SUBSET Emails :
        \E row \in [Guests(invited, u) -> {i \in Invitations : invitations[i] = None}] :
          invitations' = [i \in Invitations |->
            IF \E e \in DOMAIN row : row[e] = i
            THEN NewInvitation(p, CHOOSE e \in DOMAIN row : row[e] = i)
            ELSE invitations[i]]
  BY DEF CreateProject
<1>2. PICK row \in [Guests(invited, u) -> {i \in Invitations : invitations[i] = None}] :
        invitations' = [i \in Invitations |->
            IF \E e \in DOMAIN row : row[e] = i
            THEN NewInvitation(p, CHOOSE e \in DOMAIN row : row[e] = i)
            ELSE invitations[i]]
  BY <1>1
<1>3. ASSUME NEW i \in Invitations
      PROVE  \/ invitations'[i] = invitations[i]
             \/ invitations[i] = None /\ \E e \in Emails : invitations'[i] = NewInvitation(p, e)
  <2>1. CASE \E e \in DOMAIN row : row[e] = i
    <3>1. PICK e \in DOMAIN row : e = CHOOSE f \in DOMAIN row : row[f] = i
      BY <2>1
    <3>2. invitations'[i] = NewInvitation(p, e)
      BY <1>2, <2>1, <3>1
    <3>3. invitations[i] = None /\ e \in Emails
      BY <2>1, <3>1 DEF Guests
    <3> QED BY <3>2, <3>3
  <2>2. CASE ~(\E e \in DOMAIN row : row[e] = i)
    BY <1>2, <2>2
  <2> QED BY <2>1, <2>2
<1>4. \A i \in Invitations : /\ invitations'[i] \in Invitation \cup {None, Gone}
                             /\ invitations[i] # None => invitations'[i] = invitations[i]
  BY <1>0, <1>3, NewInvitationFields DEF OnboardingTypeOK
<1>5. invitations' \in [Invitations -> Invitation \cup {None, Gone}] /\ InvitationsGoOn
  BY <1>2, <1>4 DEF InvitationsGoOn
<1>6. \A i \in Invitations : Here(i)' => \/ invitations'[i] = invitations[i]
                                         \/ /\ invitations'[i].created <= now
                                            /\ invitations'[i].settled = None <=> Pending(i)'
                                            /\ invitations'[i].settled # None => invitations'[i].settled <= now
  BY <1>3, NewInvitationFields DEF Pending, Times
<1>7. /\ creator' \in [Projects -> Users \cup {None}] /\ grants' \in SUBSET Grant
      /\ \A g \in grants' : g \in grants \/ (g.from = None /\ g.user = u)
      /\ UNCHANGED <<staff, users, identities, sessions, logins, started, stranded, overtaken>> /\ IsActive(u)
  BY <1>0 DEF CreateProject, InsertProject, InsertMembership, OnboardingTypeOK, Grant
<1>8. InvitationsOK' /\ AccountsKeepTheirOwner'
  BY <1>4, <1>5, <1>6, <1>7, InvitationsChange DEF IsActive, Anonymous
<1>9. OnboardingTypeOK'
  BY <1>0, <1>5, <1>7 DEF OnboardingTypeOK
<1>10. LoginsOK'
  BY <1>0, <1>5, <1>7, LoginsStay, QuietUsers DEF OnboardingInv
<1>11. SessionsHaveUsers' /\ EveryAccountCanBeEntered'
  BY <1>7 DEF OnboardingInv, SessionsHaveUsers, EveryAccountCanBeEntered, IsActive, Deactivated, At
<1> QED BY <1>4, <1>8, <1>9, <1>10, <1>11 DEF OnboardingInv

(* Actions that change invitations only.                                    *)
LEMMA OnlyInvitations ==
  ASSUME OnboardingInv, now' = now,
         invitations' \in [Invitations -> Invitation \cup {None, Gone}], InvitationsGoOn,
         \A i \in Invitations : invitations[i] # None /\ ~Pending(i) => invitations'[i] \in {invitations[i], Gone},
         \A i \in Invitations : Here(i)' => \/ invitations'[i] = invitations[i]
                                            \/ /\ invitations'[i].created <= now
                                               /\ invitations'[i].settled = None <=> Pending(i)'
                                               /\ invitations'[i].settled # None => invitations'[i].settled <= now,
         UNCHANGED <<creator, grants, staff, users, identities, sessions, logins, started, stranded, overtaken>>
  PROVE  OnboardingInv'
<1>0. OnboardingTypeOK /\ grants' \in SUBSET Grant
  BY DEF OnboardingInv, OnboardingTypeOK
<1>1. InvitationsOK' /\ AccountsKeepTheirOwner'
  BY <1>0, InvitationsChange
<1>2. OnboardingTypeOK'
  BY <1>0 DEF OnboardingTypeOK
<1>3. LoginsOK'
  BY <1>0, LoginsStay, QuietUsers DEF OnboardingInv
<1>4. SessionsHaveUsers' /\ EveryAccountCanBeEntered'
  BY DEF OnboardingInv, SessionsHaveUsers, EveryAccountCanBeEntered, IsActive, Deactivated, At
<1> QED BY <1>1, <1>2, <1>3, <1>4 DEF OnboardingInv

LEMMA KeepsInvite ==
  ASSUME OnboardingInv, now \in Times, now' = now, NEW p \in Projects, NEW e \in Emails, Invite(p, e)
  PROVE  OnboardingInv' /\ \A i \in Invitations : invitations[i] # None => invitations'[i] = invitations[i]
<1>1. OnboardingTypeOK
  BY DEF OnboardingInv
<1>2. PICK i \in Invitations : /\ invitations[i] = None
                               /\ invitations' = [invitations EXCEPT ![i] = NewInvitation(p, e)]
  BY DEF Invite
<1>3. /\ invitations' \in [Invitations -> Invitation \cup {None, Gone}]
      /\ invitations'[i] = NewInvitation(p, e) /\ \A j \in Invitations \ {i} : invitations'[j] = invitations[j]
  BY <1>1, <1>2, NewInvitationFields DEF OnboardingTypeOK
<1>4. InvitationsGoOn /\ \A j \in Invitations : invitations[j] # None => invitations'[j] = invitations[j]
  BY <1>2, <1>3 DEF InvitationsGoOn
<1>5. \A j \in Invitations : Here(j)' => \/ invitations'[j] = invitations[j]
                                         \/ /\ invitations'[j].created <= now
                                            /\ invitations'[j].settled = None <=> Pending(j)'
                                            /\ invitations'[j].settled # None => invitations'[j].settled <= now
  BY <1>3, NewInvitationFields DEF Pending, Times
<1> QED BY <1>3, <1>4, <1>5, OnlyInvitations DEF Invite

(* An invitation that is settled now.                                       *)
LEMMA SettlingGoesOn ==
  ASSUME OnboardingTypeOK, InvitationsOK, now \in Times, NEW i \in Invitations, Pending(i), NEW status \in Terminal,
         invitations' = [invitations EXCEPT ![i] = Settled(i, status)]
  PROVE  /\ invitations' \in [Invitations -> Invitation \cup {None, Gone}] /\ InvitationsGoOn
         /\ invitations'[i] = Settled(i, status) /\ \A j \in Invitations \ {i} : invitations'[j] = invitations[j]
         /\ \A j \in Invitations : invitations[j] # None /\ ~Pending(j) => invitations'[j] \in {invitations[j], Gone}
         /\ \A j \in Invitations : Here(j)' => \/ invitations'[j] = invitations[j]
                                               \/ /\ invitations'[j].created <= now
                                                  /\ invitations'[j].settled = None <=> Pending(j)'
                                                  /\ invitations'[j].settled # None => invitations'[j].settled <= now
         /\ ~Pending(i)'

<1>1. Here(i)
  BY DEF Pending, Here
<1>2. /\ invitations' \in [Invitations -> Invitation \cup {None, Gone}]
      /\ invitations'[i] = Settled(i, status) /\ \A j \in Invitations \ {i} : invitations'[j] = invitations[j]
  BY <1>1, SettledFields DEF OnboardingTypeOK
<1>3. InvitationsGoOn
  BY <1>1, <1>2, SettledFields DEF InvitationsGoOn, Here
<1>4. ~Pending(i)' /\ now # None /\ now <= now
  <2>1. now \in Nat
    BY MaxTimeIsNatural DEF Times
  <2> QED BY <1>1, <1>2, <2>1, SettledFields, NoneIsNothing DEF Pending
<1>5. ASSUME NEW j \in Invitations, Here(j)'
      PROVE  \/ invitations'[j] = invitations[j]
             \/ /\ invitations'[j].created <= now
                /\ invitations'[j].settled = None <=> Pending(j)'
                /\ invitations'[j].settled # None => invitations'[j].settled <= now
  <2>1. CASE j = i
    <3>1. invitations'[i].settled = now
      BY <1>1, <1>2, SettledFields
    <3>2. invitations'[i].created = invitations[i].created /\ invitations[i].created <= now
      BY <1>1, <1>2, SettledFields DEF InvitationsOK
    <3> QED BY <1>4, <2>1, <3>1, <3>2
  <2> QED BY <1>2, <1>5, <2>1
<1> QED BY <1>2, <1>3, <1>4, <1>5

LEMMA KeepsRevokeInvitation ==
  ASSUME OnboardingInv, now \in Times, now' = now, NEW i \in Invitations, RevokeInvitation(i)
  PROVE  /\ OnboardingInv'
         /\ invitations'[i] = Settled(i, "revoked") /\ \A j \in Invitations \ {i} : invitations'[j] = invitations[j]
BY SettlingGoesOn, OnlyInvitations DEF OnboardingInv, RevokeInvitation, Terminal

(* A session belongs to an account that the subject of its identity owns.   *)
Owned(session) ==
  /\ session.user \in Users /\ users[session.user] # None /\ users[session.user].by = session.identity
  /\ Anonymous(session.user) => session.user \in overtaken

(* Actions that change sessions only, and the place of a login.             *)
LEMMA SessionsChange ==
  ASSUME OnboardingInv, now' = now,
         sessions' \in [Sessions -> AuthSession \cup {None}],
         \A x \in Sessions : \/ sessions'[x] = None
                             \/ /\ sessions[x] # None
                                /\ sessions'[x].user = sessions[x].user /\ sessions'[x].identity = sessions[x].identity
                             \/ Owned(sessions'[x]),
         UNCHANGED <<invitations, grants, users, identities, overtaken>>
  PROVE  /\ SessionsHaveUsers' /\ AccountsKeepTheirOwner' /\ InvitationsOK'
<1>1. OnboardingTypeOK /\ SessionsHaveUsers /\ AccountsKeepTheirOwner /\ InvitationsOK
  BY DEF OnboardingInv
<1>2. ASSUME NEW x \in Sessions, sessions'[x] # None
      PROVE  /\ users[sessions'[x].user] # None /\ users[sessions'[x].user].by = sessions'[x].identity
             /\ \A u \in Users \ overtaken : Anonymous(u) => sessions'[x].user # u
  <2>1. CASE sessions[x] # None /\ sessions'[x].user = sessions[x].user /\ sessions'[x].identity = sessions[x].identity
    BY <1>1, <2>1 DEF SessionsHaveUsers, AccountsKeepTheirOwner, Anonymous
  <2>2. CASE Owned(sessions'[x])
    BY <2>2 DEF Owned
  <2> QED BY <1>2, <2>1, <2>2
<1>3. SessionsHaveUsers'
  BY <1>2 DEF SessionsHaveUsers
<1>4. AccountsKeepTheirOwner'
  BY <1>1, <1>2 DEF AccountsKeepTheirOwner, Anonymous
<1>5. InvitationsOK'
  BY <1>1 DEF InvitationsOK, Here, Pending
<1> QED BY <1>3, <1>4, <1>5

LEMMA OnlySessions ==
  ASSUME OnboardingInv, now' = now,
         sessions' \in [Sessions -> AuthSession \cup {None}],
         \A x \in Sessions : \/ sessions'[x] = None
                             \/ /\ sessions[x] # None
                                /\ sessions'[x].user = sessions[x].user /\ sessions'[x].identity = sessions[x].identity
                             \/ Owned(sessions'[x]),
         started' \in Nat,
         UNCHANGED <<creator, invitations, grants, staff, users, identities, logins, stranded, overtaken>>
  PROVE  OnboardingInv'
<1>1. OnboardingTypeOK'
  BY DEF OnboardingInv, OnboardingTypeOK
<1>2. LoginsOK'
  BY LoginsStay, QuietUsers, QuietInvitations DEF OnboardingInv
<1>3. EveryAccountCanBeEntered'
  BY DEF OnboardingInv, EveryAccountCanBeEntered, IsActive, Deactivated, At
<1> QED BY <1>1, <1>2, <1>3, SessionsChange DEF OnboardingInv

LEMMA NewSessionFields ==
  ASSUME now \in Times, NEW u \in Users, NEW s \in Subjects
  PROVE  /\ NewSession(u, s) \in AuthSession /\ NewSession(u, s) # None
         /\ NewSession(u, s).user = u /\ NewSession(u, s).identity = s
         /\ NewSession(u, s).expires = now + SessionTtl /\ NewSession(u, s).revoked = None
<1>1. NewSession(u, s) \in AuthSession
  BY MaxTimeIsNatural, TtlIsPositive DEF NewSession, AuthSession, Times
<1> QED BY <1>1, NoneIsNothing DEF NewSession

LEMMA Opened ==
  ASSUME OnboardingTypeOK, now \in Times, NEW u \in Users, NEW s \in Subjects, OpensSession(u, s)
  PROVE  \E x \in Sessions :
           /\ sessions[x] = None /\ sessions'[x] = NewSession(u, s)
           /\ sessions' \in [Sessions -> AuthSession \cup {None}]
           /\ \A y \in Sessions \ {x} : sessions'[y] = sessions[y]
BY NewSessionFields DEF OpensSession, OnboardingTypeOK

LEMMA KeepsLogIn ==
  ASSUME OnboardingInv, now \in Times, now' = now, NEW s \in Subjects, NEW e \in Emails, LogIn(s, e)
  PROVE  /\ OnboardingInv'
         /\ \E u \in Users, x \in Sessions :
              /\ sessions[x] = None /\ sessions'[x] = NewSession(u, s)
              /\ \A y \in Sessions \ {x} : sessions'[y] = sessions[y]
<1>1. PICK u \in Users : u \in LinkedUsers(s, e) /\ IsActive(u) /\ OpensSession(u, s)
  BY DEF LogIn, LinkedUsers
<1>2. OnboardingTypeOK /\ AccountsKeepTheirOwner
  BY DEF OnboardingInv
<1>3. users[u] # None /\ users[u].by = s /\ ~Anonymous(u)
  BY <1>1, <1>2 DEF LinkedUsers, IsActive, Anonymous, AccountsKeepTheirOwner
<1>4. PICK x \in Sessions : /\ sessions[x] = None /\ sessions'[x] = NewSession(u, s)
                            /\ sessions' \in [Sessions -> AuthSession \cup {None}]
                            /\ \A y \in Sessions \ {x} : sessions'[y] = sessions[y]
  BY <1>1, <1>2, Opened
<1>5. Owned(sessions'[x])
  BY <1>3, <1>4, NewSessionFields DEF Owned
<1>6. started' \in Nat
  BY <1>2 DEF LogIn, OnboardingTypeOK
<1>7. UNCHANGED <<creator, invitations, grants, staff, users, identities, logins, stranded, overtaken>>
  BY DEF LogIn
<1>8. ASSUME NEW y \in Sessions
      PROVE  \/ sessions'[y] = None
             \/ /\ sessions[y] # None
                /\ sessions'[y].user = sessions[y].user /\ sessions'[y].identity = sessions[y].identity
             \/ Owned(sessions'[y])
  BY <1>4, <1>5
<1> QED BY <1>4, <1>6, <1>7, <1>8, OnlySessions

LEMMA KeepsLogout ==
  ASSUME OnboardingInv, now \in Times, now' = now, NEW x \in Sessions, Logout(x)
  PROVE  /\ OnboardingInv'
         /\ sessions[x] # None /\ sessions'[x] # None
         /\ sessions'[x] = [sessions[x] EXCEPT !.revoked = now] /\ sessions[x] \in AuthSession
         /\ \A y \in Sessions \ {x} : sessions'[y] = sessions[y]
<1>1. OnboardingTypeOK /\ sessions[x] # None /\ sessions' = [sessions EXCEPT ![x].revoked = now]
  BY DEF OnboardingInv, Logout, Valid
<1>2. sessions[x] \in AuthSession
  BY <1>1 DEF OnboardingTypeOK
<1>3. [sessions[x] EXCEPT !.revoked = now] \in AuthSession
  BY <1>2 DEF AuthSession
<1>4. /\ sessions' \in [Sessions -> AuthSession \cup {None}] /\ sessions'[x] = [sessions[x] EXCEPT !.revoked = now]
      /\ \A y \in Sessions \ {x} : sessions'[y] = sessions[y]
  BY <1>1, <1>3 DEF OnboardingTypeOK
<1>5. sessions'[x].user = sessions[x].user /\ sessions'[x].identity = sessions[x].identity /\ sessions'[x] # None
  BY <1>2, <1>3, <1>4, NoneIsNothing DEF AuthSession
<1>6. UNCHANGED <<creator, invitations, grants, staff, users, identities, logins, stranded, overtaken>> /\ started' \in Nat
  BY <1>1 DEF Logout, OnboardingTypeOK
<1> QED BY <1>1, <1>2, <1>4, <1>5, <1>6, OnlySessions

(* Actions that change the place of a login only; one that ends at its      *)
(* "created" leaves its user stranded.                                      *)
LEMMA OnlyLogins ==
  ASSUME OnboardingInv, now' = now, NEW b \in Browsers, NEW login \in Login \cup {None}, Goes(b, login),
         login # None => LoginOK(b)',
         stranded' \in SUBSET Users, stranded \subseteq stranded',
         At(b, "created") => logins[b].user \in stranded' \/ (login # None /\ login.pc = "created" /\ login.user = logins[b].user),
         started' \in Nat,
         UNCHANGED <<creator, invitations, grants, staff, users, identities, sessions, overtaken>>
  PROVE  OnboardingInv'
<1>1. OnboardingTypeOK /\ LoginsOK /\ EveryAccountCanBeEntered /\ InvitationsOK
  BY DEF OnboardingInv
<1>2. /\ LoginsOK' /\ logins' \in [Browsers -> Login \cup {None}] /\ logins'[b] = login
      /\ \A c \in Browsers \ {b} : logins'[c] = logins[c]
  BY <1>1, LoginMoves, QuietUsers, QuietInvitations
<1>3. OnboardingTypeOK'
  BY <1>1, <1>2 DEF OnboardingTypeOK
<1>4. EveryAccountCanBeEntered'
  <2> SUFFICES ASSUME NEW u \in Users, IsActive(u) \/ Deactivated(u),
                      ~\E s \in Subjects : identities[s] # None /\ identities[s].user = u,
                      u \notin stranded'
               PROVE  \E c \in Browsers : At(c, "created")' /\ logins'[c].user = u
    BY DEF EveryAccountCanBeEntered, IsActive, Deactivated
  <2>1. PICK c \in Browsers : At(c, "created") /\ logins[c].user = u
    BY <1>1 DEF EveryAccountCanBeEntered
  <2>2. CASE c = b
    BY <1>2, <2>1, <2>2 DEF At
  <2>3. CASE c # b
    BY <1>2, <2>1, <2>3 DEF At
  <2> QED BY <2>2, <2>3
<1>5. AccountsKeepTheirOwner' /\ SessionsHaveUsers' /\ InvitationsOK'
  BY DEF OnboardingInv, AccountsKeepTheirOwner, SessionsHaveUsers, InvitationsOK, Here, Pending
<1> QED BY <1>2, <1>3, <1>4, <1>5 DEF OnboardingInv

LEMMA KeepsFindIdentity ==
  ASSUME OnboardingInv, now' = now, NEW b \in Browsers, NEW s \in Subjects, NEW e \in Emails, FindIdentity(b, s, e)
  PROVE  OnboardingInv'
<1> DEFINE login == [pc |-> "unlinked", subject |-> s, email |-> e, user |-> None, listed |-> {}]
<1>1. login \in Login /\ Goes(b, login) /\ ~At(b, "created")
  BY DEF Login, FindIdentity, At
<1>2. logins' = [logins EXCEPT ![b] = login] /\ logins'[b] = login
  BY <1>1 DEF Goes, OnboardingInv, OnboardingTypeOK
<1>3. LoginOK(b)'
  BY <1>2 DEF LoginOK, Entering
<1>4. started' \in Nat /\ stranded' \in SUBSET Users
  BY DEF FindIdentity, OnboardingInv, OnboardingTypeOK
<1> HIDE DEF login
<1> QED BY <1>1, <1>3, <1>4, OnlyLogins DEF FindIdentity

LEMMA KeepsFindUser ==
  ASSUME OnboardingInv, now' = now, NEW b \in Browsers, FindUser(b)
  PROVE  OnboardingInv'
<1>1. PICK login : login = IF Taken(logins[b].email) THEN None ELSE [logins[b] EXCEPT !.pc = "creating"]
  OBVIOUS
<1>2. Goes(b, login) /\ At(b, "unlinked") /\ OnboardingTypeOK /\ LoginOK(b)
  BY <1>1 DEF FindUser, OnboardingInv, LoginsOK, At
<1>3. logins[b] \in Login
  BY <1>2, LoginFields DEF At
<1>4. login \in Login \cup {None} /\ (login # None => login = [logins[b] EXCEPT !.pc = "creating"])
  BY <1>1, <1>3 DEF Login
<1>5. logins'[b] = login
  BY <1>2, <1>4 DEF Goes, OnboardingTypeOK
<1>6. login # None => LoginOK(b)'
  <2> SUFFICES ASSUME login # None PROVE LoginOK(b)'
    OBVIOUS
  <2>1. login.pc = "creating" /\ login.user = logins[b].user /\ login.listed = logins[b].listed /\ login.email = logins[b].email
    BY <1>3, <1>4 DEF Login
  <2>2. logins[b].user = None
    BY <1>2 DEF LoginOK, Entering, At
  <2>3. invitations' = invitations
    BY DEF FindUser
  <2> QED BY <1>2, <1>5, <2>1, <2>2, <2>3 DEF LoginOK, Entering
<1>7. ~At(b, "created") /\ started' \in Nat /\ stranded' \in SUBSET Users
  BY <1>2 DEF At, FindUser, OnboardingTypeOK
<1> QED BY <1>2, <1>4, <1>6, <1>7, OnlyLogins DEF FindUser

LEMMA KeepsListInvitations ==
  ASSUME OnboardingInv, now' = now, NEW b \in Browsers, ListInvitations(b)
  PROVE  OnboardingInv'
<1>1. PICK login : login = [logins[b] EXCEPT !.pc = "accepting",
         !.listed = {i \in Invitations : Pending(i) /\ invitations[i].email = logins[b].email}]
  OBVIOUS
<1>2. Goes(b, login) /\ At(b, "linked") /\ OnboardingTypeOK /\ LoginOK(b)
      /\ UNCHANGED <<invitations, users, overtaken>>
  BY <1>1 DEF ListInvitations, OnboardingInv, LoginsOK, At
<1>3. logins[b] \in Login
  BY <1>2, LoginFields DEF At
<1>4. /\ login \in Login /\ login.pc = "accepting" /\ login.user = logins[b].user /\ login.email = logins[b].email
      /\ login.subject = logins[b].subject
      /\ login.listed = {i \in Invitations : Pending(i) /\ invitations[i].email = logins[b].email}
  BY <1>1, <1>3 DEF Login
<1>5. logins'[b] = login
  BY <1>2, <1>4 DEF Goes, OnboardingTypeOK
<1>6. LoginOK(b)'
  <2>1. \A i \in login.listed : invitations[i] # None /\
          (invitations[i] # Gone => invitations[i].email = login.email)
    BY <1>4 DEF Pending
  <2>2. /\ Entering(b) /\ logins[b].user \in Users /\ users[logins[b].user] # None
        /\ users[logins[b].user].by = login.subject /\ users[logins[b].user].born = login.email
        /\ Anonymous(logins[b].user) => logins[b].user \in overtaken
    BY <1>2, <1>4 DEF LoginOK, Entering, At
  <2>3. Entering(b)' /\ login.user \in Users /\ (Anonymous(login.user)' <=> Anonymous(login.user))
    BY <1>2, <1>4, <1>5, <2>2, NoneIsNothing DEF Entering, Anonymous
  <2> QED BY <1>2, <1>4, <1>5, <2>1, <2>2, <2>3 DEF LoginOK
<1>7. ~At(b, "created") /\ started' \in Nat /\ stranded' \in SUBSET Users
  BY <1>2 DEF At, ListInvitations, OnboardingTypeOK
<1> QED BY <1>2, <1>4, <1>6, <1>7, OnlyLogins DEF ListInvitations

LEMMA KeepsInterrupt ==
  ASSUME OnboardingInv, now' = now, NEW b \in Browsers, Interrupt(b)
  PROVE  OnboardingInv'
<1>1. OnboardingTypeOK /\ LoginOK(b) /\ logins[b] # None /\ Goes(b, None)
  BY DEF OnboardingInv, LoginsOK, Interrupt
<1>2. At(b, "created") => logins[b].user \in Users
  BY <1>1 DEF LoginOK, Entering, At
<1>3. stranded' \in SUBSET Users /\ stranded \subseteq stranded' /\ (At(b, "created") => logins[b].user \in stranded')
  BY <1>1, <1>2 DEF Interrupt, OnboardingTypeOK
<1>4. started' \in Nat
  BY <1>1 DEF Interrupt, OnboardingTypeOK
<1> QED BY <1>1, <1>3, <1>4, OnlyLogins DEF Interrupt

(* A new user has an email that is nobody's, and the login that made it.    *)
LEMMA KeepsInsertUser ==
  ASSUME OnboardingInv, now' = now, NEW b \in Browsers, InsertUser(b)
  PROVE  OnboardingInv'
<1>1. OnboardingTypeOK /\ LoginsOK /\ LoginOK(b) /\ At(b, "creating") /\ logins[b] # None
      /\ UNCHANGED <<creator, invitations, grants, staff, identities, sessions, started, stranded, overtaken>>
  BY DEF OnboardingInv, InsertUser, LoginsOK, At
<1>2. CASE Duplicate(logins[b].email) /\ Goes(b, None) /\ UNCHANGED users
  <2>1. ~At(b, "created") /\ started' \in Nat /\ stranded' \in SUBSET Users
    BY <1>1 DEF At, OnboardingTypeOK
  <2> QED BY <1>1, <1>2, <2>1, OnlyLogins
<1>3. ASSUME ~Duplicate(logins[b].email),
             NEW u \in Users, users[u] = None,
             users' = [users EXCEPT ![u] = [email |-> logins[b].email, status |-> "active",
                                            born |-> logins[b].email, by |-> logins[b].subject]],
             Goes(b, [logins[b] EXCEPT !.pc = "created", !.user = u])
      PROVE  OnboardingInv'
  <2>1. PICK account : account = [email |-> logins[b].email, status |-> "active",
                                  born |-> logins[b].email, by |-> logins[b].subject]
    OBVIOUS
  <2>2. PICK login : login = [logins[b] EXCEPT !.pc = "created", !.user = u]
    OBVIOUS
  <2>3. logins[b] \in Login /\ logins[b].email \in Emails /\ logins[b].subject \in Subjects
    BY <1>1, LoginFields
  <2>4. /\ account \in User /\ account # None /\ account.email = logins[b].email /\ account.status = "active"
        /\ account.born = logins[b].email /\ account.by = logins[b].subject
    <3>1. account \in User
      BY <2>1, <2>3 DEF User
    <3> QED BY <2>1, <3>1, NoneIsNothing
  <2>5. /\ login \in Login /\ login # None /\ login.pc = "created" /\ login.user = u /\ login.email = logins[b].email
        /\ login.subject = logins[b].subject /\ login.listed = logins[b].listed
    <3>1. login \in Login
      BY <2>2, <2>3 DEF Login
    <3> QED BY <2>2, <2>3, <3>1, NoneIsNothing DEF Login
  <2>6. /\ users' \in [Users -> User \cup {None}] /\ users'[u] = account
        /\ \A v \in Users \ {u} : users'[v] = users[v]
    BY <1>1, <1>3, <2>1, <2>4 DEF OnboardingTypeOK
  <2>7. Goes(b, login)
    BY <1>3, <2>2
  <2>8. UsersGoOn
    BY <1>3, <2>6 DEF UsersGoOn, Anonymous
  <2>9. logins'[b] = login
    BY <1>1, <2>5, <2>7 DEF Goes, OnboardingTypeOK
  <2>10. LoginOK(b)'
    <3>1. \A i \in logins[b].listed : invitations[i] # None /\
            (invitations[i] # Gone => invitations[i].email = logins[b].email)
      BY <1>1 DEF LoginOK
    <3>2. ~Anonymous(u)'
      BY <2>4, <2>6 DEF Anonymous
    <3> QED BY <1>1, <2>4, <2>5, <2>6, <2>9, <3>1, <3>2 DEF LoginOK, Entering
  <2>11. /\ LoginsOK' /\ logins' \in [Browsers -> Login \cup {None}]
         /\ \A c \in Browsers \ {b} : logins'[c] = logins[c]
    BY <1>1, <2>5, <2>7, <2>8, <2>10, LoginMoves, QuietInvitations
  <2>12. OnboardingTypeOK'
    <3>1. \A v, w \in Users : users'[v] # None /\ users'[w] # None /\ v # w =>
             users'[v].email = None \/ users'[v].email # users'[w].email
      <4>1. \A v \in Users \ {u} : users[v] # None => users[v].email # logins[b].email
        BY <1>3 DEF Duplicate, Taken
      <4>2. \A v, w \in Users \ {u} : users[v] # None /\ users[w] # None /\ v # w =>
              users[v].email = None \/ users[v].email # users[w].email
        BY <1>1 DEF OnboardingTypeOK
      <4> QED BY <2>4, <2>6, <4>1, <4>2
    <3>2. \A s \in Subjects : identities[s] # None => users'[identities[s].user] # None
      <4> SUFFICES ASSUME NEW s \in Subjects, identities[s] # None PROVE users'[identities[s].user] # None
        OBVIOUS
      <4>1. identities[s].user \in Users /\ users[identities[s].user] # None
        BY <1>1 DEF OnboardingTypeOK, Identity
      <4> QED BY <2>4, <2>6, <4>1
    <3> QED BY <1>1, <2>6, <2>11, <3>1, <3>2 DEF OnboardingTypeOK
  <2>13. EveryAccountCanBeEntered'
    <3> SUFFICES ASSUME NEW v \in Users, (IsActive(v) \/ Deactivated(v))',
                        ~\E s \in Subjects : identities[s] # None /\ identities[s].user = v,
                        v \notin stranded
                 PROVE  \E c \in Browsers : At(c, "created")' /\ logins'[c].user = v
      BY <1>1 DEF EveryAccountCanBeEntered
    <3>1. CASE v = u
      BY <2>5, <2>9, <3>1 DEF At
    <3>2. CASE v # u
      <4>1. PICK c \in Browsers : At(c, "created") /\ logins[c].user = v
        BY <2>6, <3>2 DEF OnboardingInv, EveryAccountCanBeEntered, IsActive, Deactivated
      <4>2. c # b
        BY <1>1, <4>1 DEF At
      <4> QED BY <2>11, <4>1, <4>2 DEF At
    <3> QED BY <3>1, <3>2
  <2>14. SessionsHaveUsers' /\ AccountsKeepTheirOwner'
    <3>1. \A x \in Sessions : sessions[x] # None =>
            sessions[x].user \in Users /\ users[sessions[x].user] # None /\ sessions[x].user # u
      BY <1>1, <1>3 DEF OnboardingInv, SessionsHaveUsers, OnboardingTypeOK, AuthSession
    <3>2. \A s \in Subjects : identities[s] # None =>
            identities[s].user \in Users /\ users[identities[s].user] # None /\ identities[s].user # u
      BY <1>1, <1>3 DEF OnboardingTypeOK, Identity
    <3>3. \A v \in Users : Anonymous(v)' <=> Anonymous(v)
      BY <1>3, <2>4, <2>6 DEF Anonymous
    <3> QED BY <1>1, <2>6, <3>1, <3>2, <3>3 DEF OnboardingInv, SessionsHaveUsers, AccountsKeepTheirOwner, Anonymous
  <2>15. InvitationsOK'
    BY <1>1 DEF OnboardingInv, InvitationsOK, Here, Pending
  <2> QED BY <2>11, <2>12, <2>13, <2>14, <2>15 DEF OnboardingInv
<1> QED BY <1>2, <1>3 DEF InsertUser

(* A subject is linked once, to the account that its own login created.     *)
LEMMA KeepsCreateIdentity ==
  ASSUME OnboardingInv, now \in Times, now' = now, NEW b \in Browsers, CreateIdentity(b)
  PROVE  /\ OnboardingInv'
         /\ identities' \in [Subjects -> Identity \cup {None}]
         /\ \A s \in Subjects : \/ identities'[s] = identities[s]
                                \/ identities[s] = None /\ identities'[s] # None /\ identities'[s].linked = now
<1>1. /\ OnboardingTypeOK /\ LoginsOK /\ LoginOK(b) /\ At(b, "created") /\ logins[b] # None /\ Entering(b)
      /\ UNCHANGED <<creator, invitations, grants, staff, users, sessions, started, overtaken>>
  BY DEF OnboardingInv, CreateIdentity, LoginsOK, At, Entering
<1>2. /\ logins[b] \in Login /\ logins[b].subject \in Subjects /\ logins[b].user \in Users
      /\ users[logins[b].user] # None /\ users[logins[b].user].by = logins[b].subject
      /\ Anonymous(logins[b].user) => logins[b].user \in overtaken
  BY <1>1, LoginFields DEF LoginOK
<1>3. CASE identities[logins[b].subject] # None /\ Goes(b, None) /\ stranded' = stranded \cup {logins[b].user}
           /\ UNCHANGED identities
  <2>1. stranded' \in SUBSET Users /\ started' \in Nat
    BY <1>1, <1>2, <1>3 DEF OnboardingTypeOK
  <2>2. OnboardingInv'
    BY <1>1, <1>3, <2>1, OnlyLogins
  <2> QED BY <1>1, <1>3, <2>2 DEF OnboardingTypeOK
<1>4. ASSUME identities[logins[b].subject] = None,
             identities' = [identities EXCEPT ![logins[b].subject] =
                              [user |-> logins[b].user, linked |-> now, email |-> TRUE]],
             Goes(b, [logins[b] EXCEPT !.pc = "linked"]), UNCHANGED stranded
      PROVE  /\ OnboardingInv'
             /\ identities' \in [Subjects -> Identity \cup {None}]
             /\ \A s \in Subjects : \/ identities'[s] = identities[s]
                                    \/ identities[s] = None /\ identities'[s] # None /\ identities'[s].linked = now
  <2>1. PICK s \in Subjects : s = logins[b].subject
    BY <1>2
  <2>2. PICK u \in Users : u = logins[b].user
    BY <1>2
  <2>3. PICK identity : identity = [user |-> u, linked |-> now, email |-> TRUE]
    OBVIOUS
  <2>4. PICK login : login = [logins[b] EXCEPT !.pc = "linked"]
    OBVIOUS
  <2>5. identity \in Identity /\ identity # None /\ identity.user = u /\ identity.linked = now
    <3>1. identity \in Identity
      BY <2>3 DEF Identity
    <3> QED BY <2>3, <3>1, NoneIsNothing
  <2>6. /\ login \in Login /\ login # None /\ login.pc = "linked" /\ login.user = u /\ login.email = logins[b].email
        /\ login.subject = s /\ login.listed = logins[b].listed
    <3>1. login \in Login
      BY <1>2, <2>4 DEF Login
    <3> QED BY <1>2, <2>1, <2>2, <2>4, <3>1, NoneIsNothing DEF Login
  <2>7. /\ identities' \in [Subjects -> Identity \cup {None}] /\ identities'[s] = identity
        /\ \A t \in Subjects \ {s} : identities'[t] = identities[t]
    BY <1>1, <1>4, <2>1, <2>2, <2>3, <2>5 DEF OnboardingTypeOK
  <2>8. Goes(b, login) /\ logins'[b] = login
    BY <1>1, <1>4, <2>4, <2>6 DEF Goes, OnboardingTypeOK
  <2>9. LoginOK(b)'
    <3>1. \A i \in logins[b].listed : invitations[i] # None /\
            (invitations[i] # Gone => invitations[i].email = logins[b].email)
      BY <1>1 DEF LoginOK
    <3>2. users[u].born = logins[b].email /\ (Anonymous(u)' <=> Anonymous(u))
      BY <1>1, <2>2 DEF LoginOK, Anonymous
    <3> QED BY <1>1, <1>2, <2>1, <2>2, <2>6, <2>8, <3>1, <3>2 DEF LoginOK, Entering
  <2>10. /\ LoginsOK' /\ logins' \in [Browsers -> Login \cup {None}]
         /\ \A c \in Browsers \ {b} : logins'[c] = logins[c]
    BY <1>1, <2>6, <2>8, <2>9, LoginMoves, QuietInvitations, QuietUsers
  <2>11. OnboardingTypeOK'
    BY <1>1, <1>2, <1>4, <2>2, <2>5, <2>7, <2>10 DEF OnboardingTypeOK
  <2>12. EveryAccountCanBeEntered'
    <3> SUFFICES ASSUME NEW v \in Users, IsActive(v) \/ Deactivated(v),
                        ~\E t \in Subjects : identities'[t] # None /\ identities'[t].user = v,
                        v \notin stranded
                 PROVE  \E c \in Browsers : At(c, "created")' /\ logins'[c].user = v
      BY <1>1, <1>4 DEF EveryAccountCanBeEntered, IsActive, Deactivated
    <3>1. v # u
      BY <2>5, <2>7
    <3>2. ~\E t \in Subjects : identities[t] # None /\ identities[t].user = v
      BY <1>4, <2>1, <2>7
    <3>3. PICK c \in Browsers : At(c, "created") /\ logins[c].user = v
      BY <3>2 DEF OnboardingInv, EveryAccountCanBeEntered
    <3>4. c # b
      BY <2>2, <3>1, <3>3
    <3> QED BY <2>10, <3>3, <3>4 DEF At
  <2>13. AccountsKeepTheirOwner'
    <3>1. \A v \in Users : Anonymous(v)' <=> Anonymous(v)
      BY <1>1 DEF Anonymous
    <3>2. \A v \in Users \ overtaken : Anonymous(v) => v # u
      BY <1>2, <2>2
    <3> QED BY <1>1, <1>2, <2>1, <2>2, <2>5, <2>7, <3>1, <3>2 DEF OnboardingInv, AccountsKeepTheirOwner, Anonymous
  <2>14. SessionsHaveUsers' /\ InvitationsOK'
    BY <1>1 DEF OnboardingInv, SessionsHaveUsers, InvitationsOK, Here, Pending
  <2>15. \A t \in Subjects : \/ identities'[t] = identities[t]
                             \/ identities[t] = None /\ identities'[t] # None /\ identities'[t].linked = now
    BY <1>4, <2>1, <2>5, <2>7
  <2> QED BY <2>7, <2>10, <2>11, <2>12, <2>13, <2>14, <2>15 DEF OnboardingInv
<1> QED BY <1>3, <1>4 DEF CreateIdentity

(* The invitation that is accepted lets in the account it was sent to.      *)
LEMMA KeepsAcceptInvitation ==
  ASSUME OnboardingInv, now \in Times, now' = now, NEW b \in Browsers, AcceptInvitation(b)
  PROVE  /\ OnboardingInv'
         /\ \/ UNCHANGED <<invitations, grants>>
            \/ \E i \in Invitations, u \in Users :
                 /\ Pending(i) /\ invitations'[i] = Settled(i, "accepted")
                 /\ \A j \in Invitations \ {i} : invitations'[j] = invitations[j]
                 /\ grants' = grants \cup {[user |-> u, project |-> invitations[i].project, from |-> i]}
                 /\ u \in staff' /\ users[u].born = invitations[i].email
<1>1. /\ OnboardingTypeOK /\ LoginsOK /\ LoginOK(b) /\ At(b, "accepting") /\ logins[b] # None /\ Entering(b)
      /\ InvitationsOK
      /\ UNCHANGED <<creator, users, identities, sessions, started, stranded, overtaken>>
  BY DEF OnboardingInv, AcceptInvitation, LoginsOK, At, Entering
<1>2. PICK i \in logins[b].listed, succeeds \in BOOLEAN :
       /\ Goes(b, [logins[b] EXCEPT !.listed = @ \ {i}])
       /\ IF succeeds /\ StillPending(i)
          THEN /\ invitations' = [invitations EXCEPT ![i] = Settled(i, "accepted")]
               /\ grants' = grants \cup {[user |-> logins[b].user,
                                          project |-> invitations[i].project, from |-> i]}
               /\ staff' = staff \cup {logins[b].user}
          ELSE UNCHANGED <<invitations, grants, staff>>
  BY DEF AcceptInvitation
<1>3. /\ logins[b] \in Login /\ logins[b].user \in Users /\ i \in Invitations
      /\ users[logins[b].user] # None /\ users[logins[b].user].born = logins[b].email
      /\ Anonymous(logins[b].user) => logins[b].user \in overtaken
  BY <1>1, LoginFields DEF LoginOK
<1>4. PICK login : login = [logins[b] EXCEPT !.listed = @ \ {i}]
  OBVIOUS
<1>5. /\ login \in Login /\ login # None /\ login.pc = logins[b].pc /\ login.user = logins[b].user
      /\ login.email = logins[b].email /\ login.subject = logins[b].subject
      /\ login.listed = logins[b].listed \ {i} /\ Goes(b, login)
  <2>1. login \in Login
    BY <1>3, <1>4 DEF Login
  <2> QED BY <1>2, <1>3, <1>4, <2>1, NoneIsNothing DEF Login
<1>6. logins'[b] = login
  BY <1>1, <1>5 DEF Goes, OnboardingTypeOK
<1>7. ASSUME InvitationsGoOn PROVE LoginOK(b)'
  <2>1. \A j \in login.listed : invitations'[j] # None /\
          (invitations'[j] # Gone => invitations'[j].email = login.email)
    <3>1. logins[b].listed \subseteq Invitations
      BY <1>1, LoginFields
    <3> QED BY <1>1, <1>5, <1>7, <3>1 DEF LoginOK, InvitationsGoOn
  <2>2. /\ logins[b].user \in Users /\ users[logins[b].user] # None
        /\ users[logins[b].user].by = login.subject /\ users[logins[b].user].born = login.email
    BY <1>1, <1>5 DEF LoginOK
  <2>3. Entering(b)' /\ (Anonymous(login.user)' <=> Anonymous(login.user))
    BY <1>1, <1>5, <1>6 DEF Entering, Anonymous
  <2> QED BY <1>1, <1>3, <1>5, <1>6, <2>1, <2>2, <2>3 DEF LoginOK
<1>8. ASSUME InvitationsGoOn, invitations' \in [Invitations -> Invitation \cup {None, Gone}],
             grants' \in SUBSET Grant, staff' \in SUBSET Users
      PROVE  /\ LoginsOK' /\ OnboardingTypeOK'
             /\ EveryAccountCanBeEntered' /\ SessionsHaveUsers'
  <2>1. /\ LoginsOK' /\ logins' \in [Browsers -> Login \cup {None}]
        /\ \A c \in Browsers \ {b} : logins'[c] = logins[c]
    BY <1>1, <1>5, <1>7, <1>8, LoginMoves, QuietUsers
  <2>2. OnboardingTypeOK'
    BY <1>1, <1>8, <2>1 DEF OnboardingTypeOK
  <2>3. \A c \in Browsers : At(c, "created")' <=> At(c, "created")
    BY <1>1, <1>5, <1>6, <2>1 DEF At
  <2>4. \A c \in Browsers : At(c, "created") => logins'[c].user = logins[c].user
    BY <1>5, <1>6, <2>1
  <2>5. EveryAccountCanBeEntered'
    BY <1>1, <2>3, <2>4 DEF OnboardingInv, EveryAccountCanBeEntered, IsActive, Deactivated
  <2>6. SessionsHaveUsers'
    BY <1>1 DEF OnboardingInv, SessionsHaveUsers
  <2> QED BY <2>1, <2>2, <2>5, <2>6
<1>9. CASE UNCHANGED <<invitations, grants, staff>>
  <2>1. /\ InvitationsGoOn /\ invitations' \in [Invitations -> Invitation \cup {None, Gone}]
        /\ grants' \in SUBSET Grant /\ staff' \in SUBSET Users
    BY <1>1, <1>9, QuietInvitations DEF OnboardingTypeOK
  <2>2. InvitationsOK' /\ AccountsKeepTheirOwner'
    BY <1>1, <1>9 DEF OnboardingInv, InvitationsOK, AccountsKeepTheirOwner, Here, Pending
  <2> QED BY <1>8, <1>9, <2>1, <2>2 DEF OnboardingInv
<1>10. ASSUME StillPending(i),
              invitations' = [invitations EXCEPT ![i] = Settled(i, "accepted")],
              grants' = grants \cup {[user |-> logins[b].user, project |-> invitations[i].project, from |-> i]},
              staff' = staff \cup {logins[b].user}
       PROVE  /\ OnboardingInv'
              /\ Pending(i) /\ invitations'[i] = Settled(i, "accepted")
              /\ \A j \in Invitations \ {i} : invitations'[j] = invitations[j]
              /\ users[logins[b].user].born = invitations[i].email
  <2>1. Pending(i) /\ Here(i) /\ "accepted" \in Terminal
    BY <1>10 DEF StillPending, Pending, Here, Terminal
  <2>2. /\ invitations' \in [Invitations -> Invitation \cup {None, Gone}] /\ InvitationsGoOn
        /\ invitations'[i] = Settled(i, "accepted") /\ (\A j \in Invitations \ {i} : invitations'[j] = invitations[j])
        /\ (\A j \in Invitations : invitations[j] # None /\ ~Pending(j) => invitations'[j] \in {invitations[j], Gone})
        /\ (\A j \in Invitations : Here(j)' => \/ invitations'[j] = invitations[j]
                                               \/ /\ invitations'[j].created <= now
                                                  /\ invitations'[j].settled = None <=> Pending(j)'
                                                  /\ invitations'[j].settled # None => invitations'[j].settled <= now)
        /\ ~Pending(i)'
    BY <1>1, <1>3, <1>10, <2>1, SettlingGoesOn
  <2>3. PICK g : g = [user |-> logins[b].user, project |-> invitations[i].project, from |-> i]
    OBVIOUS
  <2>4. g \in Grant /\ g.from = i /\ g.user = logins[b].user
    BY <1>3, <2>1, <2>3, <1>1, InvitationFields DEF Grant
  <2>5. grants' = grants \cup {g} /\ grants' \in SUBSET Grant /\ staff' \in SUBSET Users
    BY <1>1, <1>3, <1>10, <2>3, <2>4 DEF OnboardingTypeOK
  <2>6. invitations'[i] # None
    BY <1>3, <2>1, <2>2 DEF InvitationsGoOn, Here
  <2>7. InvitationsOK' /\ AccountsKeepTheirOwner'
    BY <1>1, <1>3, <2>2, <2>4, <2>5, <2>6, InvitationsChange
  <2>8. users[logins[b].user].born = invitations[i].email
    BY <1>1, <1>3, <2>1 DEF LoginOK, Here
  <2> QED BY <1>8, <2>1, <2>2, <2>5, <2>7, <2>8 DEF OnboardingInv
<1> QED
  <2>1. CASE succeeds /\ StillPending(i)
    <3>1. logins[b].user \in staff'
      BY <1>2, <2>1
    <3> QED BY <1>2, <1>3, <1>10, <2>1, <3>1
  <2>2. CASE ~(succeeds /\ StillPending(i))
    BY <1>2, <1>9, <2>2
  <2> QED BY <2>1, <2>2

LEMMA KeepsEnterStorm ==
  ASSUME OnboardingInv, now \in Times, now' = now, NEW b \in Browsers, EnterStorm(b)
  PROVE  /\ OnboardingInv'
         /\ \E u \in Users, s \in Subjects, x \in Sessions :
              /\ sessions[x] = None /\ sessions'[x] = NewSession(u, s)
              /\ \A y \in Sessions \ {x} : sessions'[y] = sessions[y]
<1>1. /\ OnboardingTypeOK /\ LoginsOK /\ LoginOK(b) /\ At(b, "accepting") /\ logins[b] # None /\ Entering(b)
      /\ Goes(b, None) /\ OpensSession(logins[b].user, logins[b].subject)
      /\ UNCHANGED <<creator, invitations, grants, staff, users, identities, started, stranded, overtaken>>
  BY DEF OnboardingInv, EnterStorm, LoginsOK, At, Entering
<1>2. PICK u \in Users : u = logins[b].user
  BY <1>1 DEF LoginOK
<1>3. PICK s \in Subjects : s = logins[b].subject
  BY <1>1, LoginFields
<1>4. users[u] # None /\ users[u].by = s /\ (Anonymous(u) => u \in overtaken)
  BY <1>1, <1>2, <1>3 DEF LoginOK
<1>5. PICK x \in Sessions : /\ sessions[x] = None /\ sessions'[x] = NewSession(u, s)
                            /\ sessions' \in [Sessions -> AuthSession \cup {None}]
                            /\ \A y \in Sessions \ {x} : sessions'[y] = sessions[y]
  BY <1>1, <1>2, <1>3, Opened
<1>6. Owned(sessions'[x])
  BY <1>4, <1>5, NewSessionFields DEF Owned
<1>7. ASSUME NEW y \in Sessions
      PROVE  \/ sessions'[y] = None
             \/ /\ sessions[y] # None
                /\ sessions'[y].user = sessions[y].user /\ sessions'[y].identity = sessions[y].identity
             \/ Owned(sessions'[y])
  BY <1>5, <1>6
<1>8. SessionsHaveUsers' /\ AccountsKeepTheirOwner' /\ InvitationsOK'
  BY <1>1, <1>5, <1>7, SessionsChange
<1>9. /\ LoginsOK' /\ logins' \in [Browsers -> Login \cup {None}] /\ logins'[b] = None
      /\ \A c \in Browsers \ {b} : logins'[c] = logins[c]
  BY <1>1, LoginMoves, QuietUsers, QuietInvitations
<1>10. OnboardingTypeOK'
  BY <1>1, <1>5, <1>9 DEF OnboardingTypeOK
<1>11. EveryAccountCanBeEntered'
  <2>1. \A c \in Browsers : At(c, "created") => At(c, "created")' /\ logins'[c] = logins[c]
    BY <1>1, <1>9 DEF At
  <2> QED BY <1>1, <2>1 DEF OnboardingInv, EveryAccountCanBeEntered, IsActive, Deactivated
<1> QED BY <1>5, <1>8, <1>9, <1>10, <1>11 DEF OnboardingInv

(* The status of an account changes, as does nothing else of it.            *)
LEMMA StatusChanges ==
  ASSUME OnboardingTypeOK, NEW u \in Users, users[u] # None, NEW status \in {"active", "deactivated"},
         users' = [users EXCEPT ![u].status = status]
  PROVE  /\ users' \in [Users -> User \cup {None}] /\ users'[u] # None
         /\ users'[u].email = users[u].email /\ users'[u].born = users[u].born /\ users'[u].by = users[u].by
         /\ users'[u].status = status /\ \A v \in Users \ {u} : users'[v] = users[v]
<1>1. users[u] \in User
  BY UserFields
<1>2. [users[u] EXCEPT !.status = status] \in User
  BY <1>1 DEF User
<1>3. users'[u] = [users[u] EXCEPT !.status = status] /\ users' \in [Users -> User \cup {None}]
      /\ \A v \in Users \ {u} : users'[v] = users[v]
  BY <1>2 DEF OnboardingTypeOK
<1> QED BY <1>1, <1>2, <1>3, NoneIsNothing DEF User

LEMMA KeepsStatus ==
  ASSUME OnboardingInv, now' = now, NEW u \in Users, IsActive(u) \/ Deactivated(u),
         NEW status \in {"active", "deactivated"}, users' = [users EXCEPT ![u].status = status],
         sessions' \in [Sessions -> AuthSession \cup {None}],
         \A x \in Sessions : \/ sessions'[x] = None
                             \/ /\ sessions[x] # None
                                /\ sessions'[x].user = sessions[x].user /\ sessions'[x].identity = sessions[x].identity,
         UNCHANGED <<creator, invitations, grants, staff, identities, logins, started, stranded, overtaken>>
  PROVE  OnboardingInv'
<1>1. OnboardingTypeOK /\ LoginsOK /\ users[u] # None /\ ~Anonymous(u)
  BY DEF OnboardingInv, IsActive, Deactivated, Anonymous
<1>2. /\ users' \in [Users -> User \cup {None}] /\ users'[u] # None
      /\ users'[u].email = users[u].email /\ users'[u].born = users[u].born /\ users'[u].by = users[u].by
      /\ users'[u].status = status /\ \A v \in Users \ {u} : users'[v] = users[v]
  BY <1>1, StatusChanges
<1>3. \A v \in Users : /\ users'[v] # None <=> users[v] # None
                       /\ users'[v].email = users[v].email /\ users'[v].by = users[v].by /\ users'[v].born = users[v].born
                       /\ Anonymous(v)' <=> Anonymous(v)
                       /\ (IsActive(v) \/ Deactivated(v))' => IsActive(v) \/ Deactivated(v)
  BY <1>1, <1>2 DEF Anonymous, IsActive, Deactivated
<1>4. OnboardingTypeOK'
  <2>1. \A s \in Subjects : identities[s] # None => identities[s].user \in Users
    BY <1>1 DEF OnboardingTypeOK, Identity
  <2> QED BY <1>1, <1>2, <1>3, <2>1 DEF OnboardingTypeOK
<1>5. UsersGoOn
  BY <1>3 DEF UsersGoOn
<1>6. LoginsOK'
  BY <1>1, <1>5, LoginsStay, QuietInvitations
<1>7. EveryAccountCanBeEntered'
  BY <1>3 DEF OnboardingInv, EveryAccountCanBeEntered, At
<1>8. ASSUME NEW x \in Sessions, sessions'[x] # None
      PROVE  /\ sessions[x] # None /\ sessions'[x].user = sessions[x].user /\ sessions'[x].identity = sessions[x].identity
             /\ sessions[x].user \in Users /\ users[sessions[x].user] # None
  BY <1>1, <1>8 DEF OnboardingInv, SessionsHaveUsers, OnboardingTypeOK, AuthSession
<1>9. SessionsHaveUsers'
  BY <1>3, <1>8 DEF SessionsHaveUsers
<1>10. AccountsKeepTheirOwner'
  <2>1. \A s \in Subjects : identities[s] # None => identities[s].user \in Users
    BY <1>1 DEF OnboardingTypeOK, Identity
  <2>2. \A v \in Users \ overtaken : Anonymous(v) =>
          /\ \A s \in Subjects : identities[s] # None => identities[s].user # v
          /\ \A x \in Sessions : sessions[x] # None => sessions[x].user # v
          /\ \A g \in grants : g.user # v
    BY DEF OnboardingInv, AccountsKeepTheirOwner, Anonymous
  <2>3. \A s \in Subjects : identities[s] # None => users'[identities[s].user].by = s
    BY <1>3, <2>1 DEF OnboardingInv, AccountsKeepTheirOwner
  <2>4. \A x \in Sessions : sessions'[x] # None => users'[sessions'[x].user].by = sessions'[x].identity
    BY <1>3, <1>8 DEF OnboardingInv, AccountsKeepTheirOwner
  <2>5. \A v \in Users \ overtaken : Anonymous(v)' =>
          /\ \A s \in Subjects : identities[s] # None => identities[s].user # v
          /\ \A x \in Sessions : sessions'[x] # None => sessions'[x].user # v
          /\ \A g \in grants : g.user # v
    BY <1>3, <1>8, <2>2
  <2> QED BY <2>3, <2>4, <2>5 DEF AccountsKeepTheirOwner, Anonymous
<1>11. InvitationsOK'
  BY DEF OnboardingInv, InvitationsOK, Here, Pending
<1> QED BY <1>4, <1>6, <1>7, <1>9, <1>10, <1>11 DEF OnboardingInv

LEMMA KeepsReactivate ==
  ASSUME OnboardingInv, now' = now, NEW u \in Users, Reactivate(u)
  PROVE  OnboardingInv'
<1>1. sessions' \in [Sessions -> AuthSession \cup {None}]
  BY DEF Reactivate, OnboardingInv, OnboardingTypeOK
<1> QED BY <1>1, KeepsStatus DEF Reactivate

LEMMA KeepsDeactivate ==
  ASSUME OnboardingInv, now \in Times, now' = now, NEW u \in Users, Deactivate(u)
  PROVE  /\ OnboardingInv'
         /\ \A x \in Sessions :
              \/ sessions'[x] = sessions[x]
              \/ /\ sessions[x] # None /\ sessions[x].revoked = None /\ sessions'[x] # None
                 /\ sessions'[x] = [sessions[x] EXCEPT !.revoked = now] /\ sessions[x] \in AuthSession
<1>1. OnboardingTypeOK
  BY DEF OnboardingInv
<1>2. ASSUME NEW x \in Sessions
      PROVE  /\ \/ sessions'[x] = sessions[x]
                \/ /\ sessions[x] # None /\ sessions[x].revoked = None /\ sessions'[x] # None
                   /\ sessions'[x] = [sessions[x] EXCEPT !.revoked = now] /\ sessions[x] \in AuthSession
             /\ sessions'[x] \in AuthSession \cup {None}
             /\ \/ sessions'[x] = None
                \/ /\ sessions[x] # None
                   /\ sessions'[x].user = sessions[x].user /\ sessions'[x].identity = sessions[x].identity
  <2>1. sessions[x] # None => /\ sessions[x] \in AuthSession /\ [sessions[x] EXCEPT !.revoked = now] \in AuthSession
                              /\ [sessions[x] EXCEPT !.revoked = now].user = sessions[x].user
                              /\ [sessions[x] EXCEPT !.revoked = now].identity = sessions[x].identity
    BY <1>1 DEF OnboardingTypeOK, AuthSession
  <2>2. \/ sessions'[x] = sessions[x]
        \/ sessions[x] # None /\ sessions[x].revoked = None /\ sessions'[x] = [sessions[x] EXCEPT !.revoked = now]
    BY DEF Deactivate
  <2>3. sessions[x] \in AuthSession \cup {None}
    BY <1>1 DEF OnboardingTypeOK
  <2> QED BY <2>1, <2>2, <2>3, NoneIsNothing
<1>3. sessions' \in [Sessions -> AuthSession \cup {None}]
  <2>1. sessions' = [x \in Sessions |-> sessions'[x]]
    BY DEF Deactivate
  <2> QED BY <1>2, <2>1
<1>4. OnboardingInv'
  BY <1>2, <1>3, KeepsStatus DEF Deactivate
<1> QED BY <1>2, <1>4

(* All that is left of an anonymized account is the trace of its own login. *)
LEMMA KeepsAnonymize ==
  ASSUME OnboardingInv, now' = now, NEW u \in Users, Anonymize(u)
  PROVE  /\ OnboardingInv'
         /\ Deactivated(u) /\ users'[u].status = "anonymized"
         /\ identities' \in [Subjects -> Identity \cup {None}]
         /\ \A s \in Subjects : identities'[s] \in {None, identities[s]}
         /\ \A x \in Sessions : sessions'[x] \in {None, sessions[x]}
         /\ \A i \in Invitations : invitations'[i] \in {Gone, invitations[i]}
         /\ grants' \subseteq grants
         /\ \A i \in Invitations : invitations[i] = None => invitations'[i] = None
<1>1. /\ OnboardingTypeOK /\ LoginsOK /\ users[u] # None /\ ~Anonymous(u) /\ Deactivated(u)
      /\ UNCHANGED <<creator, staff, logins, started, stranded>>
  BY DEF OnboardingInv, Anonymize, Deactivated, Anonymous
<1>2. users[u] \in User
  BY <1>1, UserFields
<1>3. Anonymized(u) \in User /\ Anonymized(u).email = None /\ Anonymized(u).status = "anonymized"
      /\ Anonymized(u).born = users[u].born /\ Anonymized(u).by = users[u].by /\ Anonymized(u) # None
  <2>1. Anonymized(u) \in User
    BY <1>2 DEF Anonymized, User
  <2> QED BY <1>2, <2>1, NoneIsNothing DEF Anonymized, User
<1>4. /\ users' \in [Users -> User \cup {None}] /\ users'[u] = Anonymized(u)
      /\ \A v \in Users \ {u} : users'[v] = users[v]
  BY <1>1, <1>3 DEF Anonymize, OnboardingTypeOK
<1>5. ASSUME NEW v \in Users
      PROVE  /\ users'[v] # None <=> users[v] # None
             /\ users'[v].by = users[v].by /\ users'[v].born = users[v].born
             /\ Anonymous(v)' <=> Anonymous(v) \/ v = u
             /\ (IsActive(v) \/ Deactivated(v))' => (IsActive(v) \/ Deactivated(v)) /\ v # u
             /\ users'[v].email \in {None, users[v].email}
  BY <1>1, <1>3, <1>4 DEF Anonymous, IsActive, Deactivated
<1>6. ASSUME NEW s \in Subjects
      PROVE  /\ identities'[s] \in {None, identities[s]}
             /\ identities'[s] # None => identities'[s].user # u
             /\ identities[s] # None /\ identities[s].user # u => identities'[s] = identities[s]
             /\ identities[s] # None => identities[s].user \in Users /\ users[identities[s].user] # None
  BY <1>1 DEF Anonymize, OnboardingTypeOK, Identity
<1>7. ASSUME NEW x \in Sessions
      PROVE  /\ sessions'[x] \in {None, sessions[x]}
             /\ sessions'[x] # None => sessions'[x].user # u
             /\ sessions[x] # None => sessions[x].user \in Users /\ users[sessions[x].user] # None
  BY <1>1 DEF Anonymize, OnboardingTypeOK, AuthSession, OnboardingInv, SessionsHaveUsers
<1>8. ASSUME NEW i \in Invitations
      PROVE  /\ invitations'[i] \in {Gone, invitations[i]} /\ (invitations[i] = None => invitations'[i] = None)
             /\ Here(i)' => invitations'[i] = invitations[i]
             /\ invitations[i] # None => invitations'[i] # None
  BY NoneIsNothing DEF Anonymize, Here
<1>9. identities' \in [Subjects -> Identity \cup {None}]
  <2>1. identities' = [s \in Subjects |-> identities'[s]]
    BY DEF Anonymize
  <2> QED BY <1>1, <1>6, <2>1 DEF OnboardingTypeOK
<1>10. sessions' \in [Sessions -> AuthSession \cup {None}]
  <2>1. sessions' = [x \in Sessions |-> sessions'[x]]
    BY DEF Anonymize
  <2> QED BY <1>1, <1>7, <2>1 DEF OnboardingTypeOK
<1>11. invitations' \in [Invitations -> Invitation \cup {None, Gone}]
  <2>1. invitations' = [i \in Invitations |-> invitations'[i]]
    BY DEF Anonymize
  <2> QED BY <1>1, <1>8, <2>1 DEF OnboardingTypeOK
<1>12. /\ grants' = {g \in grants : g.user # u} /\ overtaken \subseteq overtaken' /\ overtaken' \in SUBSET Users
       /\ \A b \in Browsers : logins[b] # None /\ logins[b].user = u => u \in overtaken'
  BY <1>1 DEF Anonymize, OnboardingTypeOK
<1>13. UsersGoOn
  BY <1>5, <1>12 DEF UsersGoOn
<1>14. InvitationsGoOn
  BY <1>8 DEF InvitationsGoOn
<1>15. LoginsOK'
  BY <1>1, <1>12, <1>13, <1>14, LoginsStay
<1>16. OnboardingTypeOK'
  <2>1. \A v, w \in Users : users'[v] # None /\ users'[w] # None /\ v # w =>
             users'[v].email = None \/ users'[v].email # users'[w].email
    <3>1. \A v, w \in Users : users[v] # None /\ users[w] # None /\ v # w =>
             users[v].email = None \/ users[v].email # users[w].email
      BY <1>1 DEF OnboardingTypeOK
    <3> QED BY <1>5, <3>1
  <2>2. \A s \in Subjects : identities'[s] # None => users'[identities'[s].user] # None
    BY <1>5, <1>6
  <2>3. grants' \in SUBSET Grant
    BY <1>1, <1>12 DEF OnboardingTypeOK
  <2> QED BY <1>1, <1>4, <1>9, <1>10, <1>11, <1>12, <2>1, <2>2, <2>3 DEF OnboardingTypeOK
<1>17. EveryAccountCanBeEntered'
  <2> SUFFICES ASSUME NEW v \in Users, (IsActive(v) \/ Deactivated(v))', v \notin stranded,
                      ~\E b \in Browsers : At(b, "created") /\ logins[b].user = v
               PROVE  \E s \in Subjects : identities'[s] # None /\ identities'[s].user = v
    BY <1>1 DEF EveryAccountCanBeEntered, At
  <2>1. (IsActive(v) \/ Deactivated(v)) /\ v # u
    BY <1>5
  <2>2. PICK s \in Subjects : identities[s] # None /\ identities[s].user = v
    BY <2>1 DEF OnboardingInv, EveryAccountCanBeEntered
  <2> QED BY <1>6, <2>1, <2>2
<1>18. SessionsHaveUsers'
  BY <1>5, <1>7 DEF SessionsHaveUsers
<1>19. AccountsKeepTheirOwner'
  <2>1. \A v \in Users \ overtaken : Anonymous(v) =>
          /\ \A s \in Subjects : identities[s] # None => identities[s].user # v
          /\ \A x \in Sessions : sessions[x] # None => sessions[x].user # v
          /\ \A g \in grants : g.user # v
    BY DEF OnboardingInv, AccountsKeepTheirOwner, Anonymous
  <2>2. \A s \in Subjects : identities'[s] # None => users'[identities'[s].user].by = s
    <3>1. \A s \in Subjects : identities[s] # None => users[identities[s].user].by = s
      BY DEF OnboardingInv, AccountsKeepTheirOwner
    <3> QED BY <1>5, <1>6, <3>1
  <2>3. \A x \in Sessions : sessions'[x] # None => users'[sessions'[x].user].by = sessions'[x].identity
    <3>1. \A x \in Sessions : sessions[x] # None => users[sessions[x].user].by = sessions[x].identity
      BY DEF OnboardingInv, AccountsKeepTheirOwner
    <3> QED BY <1>5, <1>7, <3>1
  <2>4. \A v \in Users \ overtaken' : Anonymous(v)' =>
          /\ \A s \in Subjects : identities'[s] # None => identities'[s].user # v
          /\ \A x \in Sessions : sessions'[x] # None => sessions'[x].user # v
          /\ \A g \in grants' : g.user # v
    BY <1>5, <1>6, <1>7, <1>12, <2>1
  <2> QED BY <2>2, <2>3, <2>4 DEF AccountsKeepTheirOwner, Anonymous
<1>20. InvitationsOK'
  <2>1. InvitationsOK
    BY DEF OnboardingInv
  <2>2. ASSUME NEW g \in grants', g.from # None PROVE invitations'[g.from] # None /\ ~Pending(g.from)'
    <3>1. g \in grants /\ g.from \in Invitations
      BY <1>1, <1>12, <2>2 DEF OnboardingTypeOK, Grant
    <3>2. invitations[g.from] # None /\ ~Pending(g.from)
      BY <2>1, <2>2, <3>1 DEF InvitationsOK
    <3> QED BY <1>8, <3>1, <3>2 DEF Pending
  <2>3. ASSUME NEW i \in Invitations, Here(i)'
        PROVE  /\ invitations'[i].created <= now
               /\ invitations'[i].settled = None <=> Pending(i)'
               /\ invitations'[i].settled # None => invitations'[i].settled <= now
    BY <1>8, <2>1, <2>3 DEF InvitationsOK, Here, Pending
  <2> QED BY <2>2, <2>3 DEF InvitationsOK
<1>21. users'[u].status = "anonymized"
  BY <1>3, <1>4
<1>22. grants' \subseteq grants
  BY <1>12
<1> QED BY <1>1, <1>6, <1>7, <1>8, <1>9, <1>15, <1>16, <1>17, <1>18, <1>19, <1>20, <1>21, <1>22 DEF OnboardingInv

-----------------------------------------------------------------------------
(* What the runner and the clock do to it.                                  *)

(* An identity loses its email, and keeps its user.                         *)
LEMMA KeepsIdentities ==
  ASSUME OnboardingInv, now' = now, identities' \in [Subjects -> Identity \cup {None}],
         \A s \in Subjects : /\ identities'[s] # None <=> identities[s] # None
                             /\ identities'[s].user = identities[s].user,
         UNCHANGED <<creator, invitations, grants, staff, users, sessions, logins, started, stranded, overtaken>>
  PROVE  OnboardingInv'
<1>1. OnboardingTypeOK'
  BY DEF OnboardingInv, OnboardingTypeOK
<1>2. LoginsOK'
  BY LoginsStay, QuietUsers, QuietInvitations DEF OnboardingInv
<1>3. EveryAccountCanBeEntered'
  BY DEF OnboardingInv, EveryAccountCanBeEntered, IsActive, Deactivated, At
<1>4. AccountsKeepTheirOwner' /\ SessionsHaveUsers' /\ InvitationsOK'
  BY DEF OnboardingInv, AccountsKeepTheirOwner, SessionsHaveUsers, InvitationsOK, Here, Pending
<1> QED BY <1>1, <1>2, <1>3, <1>4 DEF OnboardingInv

LEMMA KeepsTime ==
  ASSUME OnboardingInv, now \in Times, now' \in Times, now <= now', UNCHANGED onboarding
  PROVE  OnboardingInv'
<1>1. OnboardingTypeOK'
  BY DEF OnboardingInv, OnboardingTypeOK, onboarding
<1>2. LoginsOK'
  BY LoginsStay, QuietUsers, QuietInvitations DEF OnboardingInv, onboarding
<1>3. EveryAccountCanBeEntered' /\ AccountsKeepTheirOwner' /\ SessionsHaveUsers'
  BY DEF OnboardingInv, EveryAccountCanBeEntered, IsActive, Deactivated, At, AccountsKeepTheirOwner, SessionsHaveUsers,
         onboarding
<1>4. InvitationsOK'
  <2>1. InvitationsOK /\ now \in Nat /\ now' \in Nat /\ UNCHANGED <<invitations, grants>>
    BY MaxTimeIsNatural DEF OnboardingInv, Times, onboarding
  <2>2. \A i \in Invitations : Here(i) => /\ invitations[i].created \in Nat
                                          /\ invitations[i].settled \in Nat \cup {None}
    BY InvitationFields DEF OnboardingInv
  <2> QED BY <2>1, <2>2, NoneIsNothing DEF InvitationsOK, Here, Pending
<1> QED BY <1>1, <1>2, <1>3, <1>4 DEF OnboardingInv

LEMMA KeepsInit ==
  ASSUME OnboardingInit PROVE OnboardingInv
<1>1. OnboardingTypeOK
  BY DEF OnboardingInit, OnboardingTypeOK
<1>2. LoginsOK /\ InvitationsOK /\ SessionsHaveUsers
  BY DEF OnboardingInit, LoginsOK, InvitationsOK, SessionsHaveUsers, Here
<1>3. EveryAccountCanBeEntered /\ AccountsKeepTheirOwner
  BY DEF OnboardingInit, EveryAccountCanBeEntered, AccountsKeepTheirOwner, IsActive, Deactivated
<1> QED BY <1>1, <1>2, <1>3 DEF OnboardingInv
=============================================================================
