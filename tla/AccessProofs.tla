----------------------------- MODULE AccessProofs -----------------------------
(***************************************************************************)
(* Access, proved for any number of users, scopes, mappings, sessions and  *)
(* requests: types, sessions against the life of a user, and the           *)
(* last-administrator rule, which a scope only escapes by a race.          *)
(*                                                                         *)
(* The rule is a check followed by a write.  What the check found stays    *)
(* true as long as nobody commits, because checks read and nothing else    *)
(* touches grants or users; a commit marks all checked calls as raced.  So *)
(* a call that commits without being raced commits on a check that stands. *)
(*                                                                         *)
(* The same holds of what a login decides: when nobody overtakes it, the   *)
(* grants of its user become exactly what the provider says.               *)
(***************************************************************************)
EXTENDS Access, TLAPS

(* A commit of one call leaves every other call what it was, but overtaken. *)
LEMMA CommitsKeepsCalls ==
  ASSUME TypeOK, NEW who, NEW next \in Call \cup {None}, Commits(who, next)
  PROVE  /\ calls' \in [Callers -> Call \cup {None}]
         /\ \A d \in Callers : d # who =>
              \/ calls'[d] = calls[d]
              \/ calls[d] # None /\ calls'[d] = [calls[d] EXCEPT !.raced = TRUE]
<1>1. ASSUME NEW d \in Callers, calls[d] # None
      PROVE  [calls[d] EXCEPT !.raced = TRUE] \in Call
  <2>1. calls[d] \in Call
    BY <1>1 DEF TypeOK
  <2>2. CASE calls[d] \in Revocation
    BY <2>2 DEF Call, Revocation
  <2>3. CASE calls[d] \in Disabling
    BY <2>3 DEF Call, Disabling
  <2>4. CASE calls[d] \in Deactivation
    BY <2>4 DEF Call, Deactivation
  <2>5. CASE calls[d] \in Login
    BY <2>5 DEF Call, Login
  <2>6. QED
    BY <2>1, <2>2, <2>3, <2>4, <2>5 DEF Call
<1>2. calls' = [d \in Callers |->
        IF d = who THEN next
        ELSE IF calls[d] # None /\ Checked(calls[d]) THEN [calls[d] EXCEPT !.raced = TRUE]
        ELSE calls[d]]
  BY DEF Commits
<1>3. calls \in [Callers -> Call \cup {None}]
  BY DEF TypeOK
<1>4. QED
  BY <1>1, <1>2, <1>3

(* A call that begins with a well-typed record keeps the calls well typed.  *)
LEMMA BeginsKeepsCalls ==
  ASSUME TypeOK, NEW c \in Callers, NEW call \in Call, Begins(c, call)
  PROVE  /\ calls' \in [Callers -> Call \cup {None}]
         /\ calls' = [calls EXCEPT ![c] = call]
  BY DEF TypeOK, Begins

(* The rows stay well typed when some of them go.                           *)
LEMMA DropKeepsRows ==
  ASSUME TypeOK, NEW gone, rows' = [g \in Grants |-> IF g \in gone THEN None ELSE rows[g]]
  PROVE  /\ rows' \in [Grants -> Row \cup {None}]
         /\ \A g \in Grants : rows'[g] # None /\ rows'[g].mapping # None =>
              /\ rows'[g].scope = Target[rows'[g].mapping]
              /\ rows'[g].admin = Administers[rows'[g].mapping]
  BY DEF TypeOK

LEMMA MappedRowType ==
  ASSUME NEW u \in Users, NEW m \in Mappings
  PROVE  /\ MappedRow(u, m) \in Row
         /\ MappedRow(u, m).mapping = m
         /\ MappedRow(u, m).scope = Target[m]
         /\ MappedRow(u, m).admin = Administers[m]
  BY MappingsAreConfigured DEF MappedRow, Row

LEMMA NewLoginType ==
  ASSUME NEW u \in Users
  PROVE  NewLogin(u) \in Login
  BY DEF NewLogin, Login

LEMMA TypeInit == Init => TypeOK
<1>1. SUFFICES ASSUME Init PROVE TypeOK
  OBVIOUS
<1>2. PICK who \in [Scopes \X (1..Founders) -> Users],
           at \in [Scopes \X (1..Founders) -> Grants] :
        rows = [g \in Grants |->
            IF \E p \in DOMAIN at : at[p] = g
            THEN LET p == CHOOSE p \in DOMAIN at : at[p] = g
                 IN  [user |-> who[p], scope |-> p[1], admin |-> TRUE, mapping |-> None]
            ELSE None]
  BY <1>1 DEF Init
<1>3. ASSUME NEW g \in Grants
      PROVE  \/ rows[g] = None
             \/ rows[g] \in Row /\ rows[g].mapping = None
  <2>1. CASE \E p \in DOMAIN at : at[p] = g
    <3> DEFINE p == CHOOSE p \in DOMAIN at : at[p] = g
    <3>1. p \in Scopes \X (1..Founders)
      BY <2>1
    <3>2. rows[g] = [user |-> who[p], scope |-> p[1], admin |-> TRUE, mapping |-> None]
      BY <1>2, <2>1
    <3> HIDE DEF p
    <3>3. who[p] \in Users /\ p[1] \in Scopes
      BY <3>1
    <3>4. QED
      BY <3>2, <3>3 DEF Row
  <2>2. CASE ~ \E p \in DOMAIN at : at[p] = g
    BY <1>2, <2>2
  <2>3. QED
    BY <2>1, <2>2
<1>4. rows \in [Grants -> Row \cup {None}]
  BY <1>2, <1>3
<1>5. QED
  BY <1>1, <1>3, <1>4 DEF Init, TypeOK, UserStatus

-----------------------------------------------------------------------------
(* Every action keeps the types.                                            *)

RowsTyped ==
  /\ rows \in [Grants -> Row \cup {None}]
  /\ \A g \in Grants : rows[g] # None /\ rows[g].mapping # None =>
       /\ rows[g].scope = Target[rows[g].mapping]
       /\ rows[g].admin = Administers[rows[g].mapping]

LEMMA TypeStep == TypeOK /\ [Next]_vars => TypeOK'
<1> SUFFICES ASSUME TypeOK, [Next]_vars PROVE TypeOK'
  OBVIOUS
<1> USE DEF TypeOK
<1>1. ASSUME NEW c \in Callers, NEW g \in Grants, RevokeCheck(c, g) PROVE TypeOK'
  <2>1. [op |-> "revoke", grant |-> g, raced |-> FALSE] \in Call
    BY DEF Call, Revocation
  <2>2. QED
    BY <1>1, <2>1, BeginsKeepsCalls DEF RevokeCheck
<1>2. ASSUME NEW c \in Callers, RevokeWrite(c) PROVE TypeOK'
  <2>1. rows' = [g \in Grants |-> IF g \in {calls[c].grant} THEN None ELSE rows[g]]
    BY <1>2 DEF RevokeWrite
  <2>2. QED
    BY <1>2, <2>1, DropKeepsRows, CommitsKeepsCalls DEF RevokeWrite
<1>3. ASSUME NEW c \in Callers, NEW m \in Mappings, DisableCheck(c, m) PROVE TypeOK'
  <2>1. [op |-> "disable", mapping |-> m, raced |-> FALSE] \in Call
    BY DEF Call, Disabling
  <2>2. QED
    BY <1>3, <2>1, BeginsKeepsCalls DEF DisableCheck
<1>4. ASSUME NEW c \in Callers, DisableCommit(c) PROVE TypeOK'
  <2>1. calls[c].mapping \in Mappings
    BY <1>4 DEF DisableCommit, Doing, Call, Revocation, Disabling, Deactivation, Login
  <2>2. QED
    BY <1>4, <2>1, DropKeepsRows, CommitsKeepsCalls DEF DisableCommit
<1>5. ASSUME NEW c \in Callers, NEW u \in Users, DeactivateCheck(c, u) PROVE TypeOK'
  <2>1. [op |-> "deactivate", user |-> u, raced |-> FALSE,
         open |-> {s \in Sessions : sessions[s] # None /\ sessions[s].user = u}] \in Call
    BY DEF Call, Deactivation
  <2>2. QED
    BY <1>5, <2>1, BeginsKeepsCalls DEF DeactivateCheck
<1>6. ASSUME NEW c \in Callers, DeactivateCommit(c) PROVE TypeOK'
  <2>1. status' \in [Users -> UserStatus]
    BY <1>6 DEF DeactivateCommit, UserStatus
  <2>2. sessions' \in [Sessions -> Session \cup {None}]
    BY <1>6 DEF DeactivateCommit, Session
  <2>3. QED
    BY <1>6, <2>1, <2>2, CommitsKeepsCalls DEF DeactivateCommit
<1>7. ASSUME NEW u \in Users, Reactivate(u) PROVE TypeOK'
  BY <1>7, CommitsKeepsCalls DEF Reactivate, UserStatus
<1>8. ASSUME NEW u \in Users, Anonymize(u) PROVE TypeOK'
  <2>1. rows' = [g \in Grants |-> IF g \in {h \in Grants : Active(h) /\ rows[h].user = u}
                                 THEN None ELSE rows[g]]
    BY <1>8 DEF Anonymize
  <2>2. RowsTyped'
    BY <2>1, DropKeepsRows DEF RowsTyped
  <2>3. QED
    BY <1>8, <2>2, CommitsKeepsCalls DEF Anonymize, UserStatus, RowsTyped
<1>9. ASSUME NEW c \in Callers, NEW u \in Users, NEW groups \in SUBSET Mappings,
             LoginStart(c, u, groups) PROVE TypeOK'
  <2>1. PICK claim \in {groups, None} :
          Begins(c, [NewLogin(u) EXCEPT !.claim = claim, !.matching = groups \ disabled])
    BY <1>9 DEF LoginStart
  <2>2. [NewLogin(u) EXCEPT !.claim = claim, !.matching = groups \ disabled] \in Call
    BY NewLoginType DEF Call, Login
  <2>3. QED
    BY <1>9, <2>1, <2>2, BeginsKeepsCalls DEF LoginStart
<1>10. ASSUME NEW c \in Callers, NEW u \in Users, LoginWithoutGroups(c, u) PROVE TypeOK'
  <2>1. [NewLogin(u) EXCEPT !.pc = "reconciled"] \in Call
    BY NewLoginType DEF Call, Login
  <2>2. QED
    BY <1>10, <2>1, BeginsKeepsCalls DEF LoginWithoutGroups
<1>11. ASSUME NEW c \in Callers, Doing(c, "login") PROVE calls[c] \in Login
  BY <1>11 DEF Doing, Call, Revocation, Disabling, Deactivation, Login
<1>12. ASSUME NEW c \in Callers, LoginDecide(c) PROVE TypeOK'
  <2>1. calls[c] \in Login
    BY <1>11, <1>12 DEF LoginDecide
  <2>2. ASSUME NEW own PROVE Withdrawn(calls[c].user, calls[c].claim, own) \in SUBSET Grants
    <3>1. \A s \in Scopes : UnclaimedIn(calls[c].user, calls[c].claim, s) \in SUBSET Grants
      BY DEF UnclaimedIn, Unclaimed, MappedTo
    <3>2. QED
      BY <3>1 DEF Withdrawn
  <2>3. Missing(calls[c].user, calls[c].matching) \in SUBSET Mappings
    BY <2>1 DEF Missing, Login
  <2>4. ASSUME NEW add \in SUBSET Mappings, NEW drop \in SUBSET Grants
        PROVE  [calls[c] EXCEPT !.pc = "decided", !.matching = {}, !.add = add, !.drop = drop]
                 \in Login
    BY <2>1 DEF Login
  <2> DEFINE add == Missing(calls[c].user, calls[c].matching)
             own == {MappedRow(calls[c].user, m) : m \in add}
             drop == IF calls[c].claim = None THEN {}
                     ELSE Withdrawn(calls[c].user, calls[c].claim, own)
             next == [calls[c] EXCEPT !.pc = "decided", !.matching = {}, !.add = add,
                                      !.drop = drop]
  <2>5. drop \in SUBSET Grants
    BY <2>2
  <2>6. next \in Login
    BY <2>3, <2>4, <2>5
  <2>7. /\ calls' = [calls EXCEPT ![c] = next]
        /\ UNCHANGED <<status, rows, disabled, sessions>>
    BY <1>12 DEF LoginDecide
  <2> HIDE DEF add, own, drop, next
  <2>8. QED
    BY <2>6, <2>7 DEF Call
<1>13. ASSUME NEW c \in Callers, LoginCommit(c) PROVE TypeOK'
  <2>1. calls[c] \in Login
    BY <1>11, <1>13 DEF LoginCommit
  <2>2. calls[c].user \in Users /\ calls[c].add \in SUBSET Mappings
    BY <2>1 DEF Login
  <2>3. [NewLogin(calls[c].user) EXCEPT !.pc = "reconciled"] \in Call
    BY <2>2, NewLoginType DEF Call, Login
  <2>4. PICK at \in [calls[c].add -> FreeGrants] :
          rows' = [g \in Grants |->
                   IF \E m \in calls[c].add : at[m] = g
                   THEN MappedRow(calls[c].user, CHOOSE m \in calls[c].add : at[m] = g)
                   ELSE IF g \in calls[c].drop THEN None ELSE rows[g]]
    BY <1>13 DEF LoginCommit
  <2>5. ASSUME NEW g \in Grants
        PROVE  \/ rows'[g] \in {None, rows[g]}
               \/ \E m \in Mappings : rows'[g] = MappedRow(calls[c].user, m)
    <3>1. CASE \E m \in calls[c].add : at[m] = g
      <4> DEFINE m == CHOOSE m \in calls[c].add : at[m] = g
      <4>1. m \in calls[c].add
        BY <3>1
      <4>2. rows'[g] = MappedRow(calls[c].user, m)
        BY <2>4, <3>1
      <4>3. QED
        BY <2>2, <4>1, <4>2
    <3>2. CASE ~ \E m \in calls[c].add : at[m] = g
      BY <2>4, <3>2
    <3>3. QED
      BY <3>1, <3>2
  <2>6. RowsTyped'
    BY <2>2, <2>4, <2>5, MappedRowType DEF RowsTyped
  <2>7. QED
    BY <1>13, <2>3, <2>6, CommitsKeepsCalls DEF LoginCommit, RowsTyped
<1>14. ASSUME NEW c \in Callers, NEW s \in Sessions, LoginSession(c, s) PROVE TypeOK'
  <2>1. calls[c].user \in Users
    BY <1>11, <1>14 DEF LoginSession, Login
  <2>2. QED
    BY <1>14, <2>1 DEF LoginSession, Session
<1>15. ASSUME NEW c \in Callers, LoginFails(c) PROVE TypeOK'
  BY <1>15 DEF LoginFails
<1>16. ASSUME NEW s \in Sessions, Logout(s) PROVE TypeOK'
  BY <1>16 DEF Logout
<1>17. CASE UNCHANGED vars
  BY <1>17 DEF vars
<1>18. QED
  BY <1>1, <1>2, <1>3, <1>4, <1>5, <1>6, <1>7, <1>8, <1>9, <1>10, <1>12, <1>13, <1>14,
     <1>15, <1>16, <1>17 DEF Next

(* Every reachable state is well typed, and a mapped grant always carries   *)
(* the target and the bundle of its mapping.                                *)
THEOREM AccessTypeCorrect == Spec => []TypeOK
<1>1. QED
  BY TypeInit, TypeStep, PTL DEF Spec

-----------------------------------------------------------------------------
(* Sessions.  One could only outlive a deactivation if it were inserted     *)
(* between the revocation of the sessions and the commit; the induction     *)
(* therefore carries that a deactivation in progress has found every        *)
(* session of its user, which the row it locks guarantees.                  *)

DeactivationSeesAll ==
  \A c \in Callers, s \in Sessions :
    Doing(c, "deactivate") /\ sessions[s] # None /\ sessions[s].user = calls[c].user
      => s \in calls[c].open

SessionInv ==
  /\ TypeOK
  /\ DeactivationSeesAll
  /\ SessionsAreCurrent
  /\ AnonymizedLeavesNoSession

(* A deactivation that is in progress after a step was so before it, and    *)
(* has found the same sessions.                                             *)
NoNewDeactivation ==
  \A c \in Callers : Doing(c, "deactivate")' =>
    /\ Doing(c, "deactivate")
    /\ calls'[c].user = calls[c].user /\ calls'[c].open = calls[c].open

LEMMA CommitsBeginsNoDeactivation ==
  ASSUME TypeOK, NEW who, NEW next \in Call \cup {None}, Commits(who, next),
         next = None \/ next.op # "deactivate"
  PROVE  NoNewDeactivation
<1> SUFFICES ASSUME NEW c \in Callers, Doing(c, "deactivate")'
             PROVE  /\ Doing(c, "deactivate")
                    /\ calls'[c].user = calls[c].user /\ calls'[c].open = calls[c].open
  BY DEF NoNewDeactivation
<1>1. c # who
  BY DEF Commits, Doing, TypeOK
<1>2. \/ calls'[c] = calls[c]
      \/ calls[c] # None /\ calls'[c] = [calls[c] EXCEPT !.raced = TRUE]
  BY <1>1, CommitsKeepsCalls
<1>3. calls[c] # None
  BY <1>2 DEF Doing
<1>4. CASE calls[c] \in Deactivation
  BY <1>2, <1>3, <1>4 DEF Doing, Deactivation
<1>5. CASE calls[c] \notin Deactivation
  BY <1>2, <1>3, <1>5 DEF Doing, TypeOK, Call, Revocation, Disabling, Login
<1>6. QED
  BY <1>4, <1>5

(* Steps that change neither users nor sessions and begin no deactivation.  *)
LEMMA QuietStep ==
  ASSUME SessionInv, TypeOK', UNCHANGED <<status, sessions>>, NoNewDeactivation
  PROVE  SessionInv'
  BY DEF SessionInv, DeactivationSeesAll, SessionsAreCurrent,
         AnonymizedLeavesNoSession, NoNewDeactivation, TypeOK

LEMMA BeginsNoDeactivation ==
  ASSUME TypeOK, NEW c \in Callers, NEW call \in Call, call.op # "deactivate",
         calls' = [calls EXCEPT ![c] = call] \/ calls' = [calls EXCEPT ![c] = None]
  PROVE  NoNewDeactivation
  BY DEF TypeOK, NoNewDeactivation, Doing

LEMMA SessionInit == Init => SessionInv
  BY TypeInit DEF Init, SessionInv, DeactivationSeesAll, SessionsAreCurrent,
         AnonymizedLeavesNoSession, Doing

LEMMA SessionStep == SessionInv /\ [Next]_vars => SessionInv'
<1> SUFFICES ASSUME SessionInv, [Next]_vars PROVE SessionInv'
  OBVIOUS
<1>t. TypeOK /\ TypeOK'
  BY TypeStep DEF SessionInv
<1>1. ASSUME NEW c \in Callers, NEW g \in Grants, RevokeCheck(c, g) PROVE SessionInv'
  <2>1. [op |-> "revoke", grant |-> g, raced |-> FALSE] \in Call
    BY DEF Call, Revocation
  <2>2. NoNewDeactivation
    BY <1>1, <1>t, <2>1, BeginsNoDeactivation DEF RevokeCheck, Begins
  <2>3. QED
    BY <1>1, <1>t, <2>2, QuietStep DEF RevokeCheck
<1>2. ASSUME NEW c \in Callers, RevokeWrite(c) PROVE SessionInv'
  BY <1>2, <1>t, QuietStep, CommitsBeginsNoDeactivation DEF RevokeWrite
<1>3. ASSUME NEW c \in Callers, NEW m \in Mappings, DisableCheck(c, m) PROVE SessionInv'
  <2>1. [op |-> "disable", mapping |-> m, raced |-> FALSE] \in Call
    BY DEF Call, Disabling
  <2>2. NoNewDeactivation
    BY <1>3, <1>t, <2>1, BeginsNoDeactivation DEF DisableCheck, Begins
  <2>3. QED
    BY <1>3, <1>t, <2>2, QuietStep DEF DisableCheck
<1>4. ASSUME NEW c \in Callers, DisableCommit(c) PROVE SessionInv'
  BY <1>4, <1>t, QuietStep, CommitsBeginsNoDeactivation DEF DisableCommit
<1>5. ASSUME NEW c \in Callers, NEW u \in Users, DeactivateCheck(c, u) PROVE SessionInv'
  <2>1. UNCHANGED <<status, sessions>>
    BY <1>5 DEF DeactivateCheck
  <2>2. calls' = [calls EXCEPT ![c] =
          [op |-> "deactivate", user |-> u, raced |-> FALSE,
           open |-> {s \in Sessions : sessions[s] # None /\ sessions[s].user = u}]]
    BY <1>5 DEF DeactivateCheck, Begins
  <2>3. DeactivationSeesAll'
    BY <1>t, <2>1, <2>2 DEF DeactivationSeesAll, SessionInv, Doing, TypeOK
  <2>4. QED
    BY <1>t, <2>1, <2>3 DEF SessionInv, SessionsAreCurrent, AnonymizedLeavesNoSession
<1>6. ASSUME NEW c \in Callers, DeactivateCommit(c) PROVE SessionInv'
  <2>1. NoNewDeactivation
    BY <1>6, <1>t, CommitsBeginsNoDeactivation DEF DeactivateCommit
  <2> DEFINE u == calls[c].user
  <2>2. ASSUME NEW s \in Sessions
        PROVE  sessions'[s] = IF sessions[s] # None /\ sessions[s].user = u THEN None
                              ELSE IF s \in calls[c].open THEN None ELSE sessions[s]
    BY <1>6, <1>t DEF DeactivateCommit, SessionInv, DeactivationSeesAll
  <2>3. ASSUME NEW s \in Sessions, sessions'[s] # None
        PROVE  sessions'[s] = sessions[s] /\ sessions[s].user # u /\ sessions[s] # None
    BY <2>2, <2>3
  <2>4. DeactivationSeesAll'
    BY <2>1, <2>3 DEF NoNewDeactivation, DeactivationSeesAll, SessionInv
  <2>5. status' = [status EXCEPT ![u] = "deactivated"]
    BY <1>6 DEF DeactivateCommit
  <2>6. SessionsAreCurrent'
    BY <1>t, <2>3, <2>5 DEF SessionsAreCurrent, SessionInv, TypeOK, Session
  <2>7. AnonymizedLeavesNoSession'
    BY <1>t, <2>3, <2>5 DEF AnonymizedLeavesNoSession, SessionInv, TypeOK, Session
  <2>8. QED
    BY <1>t, <2>4, <2>6, <2>7 DEF SessionInv
<1>7. ASSUME NEW u \in Users, Reactivate(u) PROVE SessionInv'
  <2>1. NoNewDeactivation
    BY <1>7, <1>t, CommitsBeginsNoDeactivation DEF Reactivate
  <2>2. QED
    BY <1>7, <1>t, <2>1 DEF Reactivate, SessionInv, NoNewDeactivation, DeactivationSeesAll,
       SessionsAreCurrent, AnonymizedLeavesNoSession, TypeOK, Session
<1>8. ASSUME NEW u \in Users, Anonymize(u) PROVE SessionInv'
  <2>1. NoNewDeactivation
    BY <1>8, <1>t, CommitsBeginsNoDeactivation DEF Anonymize
  <2>2. ASSUME NEW s \in Sessions, sessions'[s] # None
        PROVE  sessions'[s] = sessions[s] /\ sessions[s].user # u /\ sessions[s] # None
    BY <1>8, <2>2 DEF Anonymize
  <2>3. DeactivationSeesAll'
    BY <2>1, <2>2 DEF NoNewDeactivation, DeactivationSeesAll, SessionInv
  <2>4. SessionsAreCurrent' /\ AnonymizedLeavesNoSession'
    BY <1>8, <1>t, <2>2 DEF Anonymize, SessionsAreCurrent, AnonymizedLeavesNoSession,
       SessionInv, TypeOK, Session
  <2>5. QED
    BY <1>t, <2>3, <2>4 DEF SessionInv
<1>9. ASSUME NEW c \in Callers, NEW u \in Users, NEW groups \in SUBSET Mappings,
             LoginStart(c, u, groups) PROVE SessionInv'
  <2>1. PICK claim \in {groups, None} :
          Begins(c, [NewLogin(u) EXCEPT !.claim = claim, !.matching = groups \ disabled])
    BY <1>9 DEF LoginStart
  <2>2. [NewLogin(u) EXCEPT !.claim = claim, !.matching = groups \ disabled] \in Login
    BY <1>t, NewLoginType DEF Login, TypeOK
  <2>3. NoNewDeactivation
    BY <1>t, <2>1, <2>2, BeginsNoDeactivation DEF Begins, Call, Login
  <2>4. QED
    BY <1>9, <1>t, <2>3, QuietStep DEF LoginStart
<1>10. ASSUME NEW c \in Callers, NEW u \in Users, LoginWithoutGroups(c, u) PROVE SessionInv'
  <2>1. [NewLogin(u) EXCEPT !.pc = "reconciled"] \in Login
    BY NewLoginType DEF Login
  <2>2. NoNewDeactivation
    BY <1>10, <1>t, <2>1, BeginsNoDeactivation DEF LoginWithoutGroups, Begins, Call, Login
  <2>3. QED
    BY <1>10, <1>t, <2>2, QuietStep DEF LoginWithoutGroups
<1>11. ASSUME NEW c \in Callers, Doing(c, "login") PROVE calls[c] \in Login
  BY <1>t, <1>11 DEF TypeOK, Doing, Call, Revocation, Disabling, Deactivation, Login
<1>12. ASSUME NEW c \in Callers, LoginDecide(c) PROVE SessionInv'
  <2>1. calls[c] \in Login
    BY <1>11, <1>12 DEF LoginDecide
  <2>2. \A d \in Callers : d # c => calls'[d] = calls[d]
    BY <1>12, <1>t DEF LoginDecide, TypeOK
  <2>3. \E add, drop : calls'[c] =
          [calls[c] EXCEPT !.pc = "decided", !.matching = {}, !.add = add, !.drop = drop]
    BY <1>12, <1>t DEF LoginDecide, TypeOK
  <2>4. calls'[c].op = "login"
    BY <2>1, <2>3 DEF Login
  <2>5. NoNewDeactivation
    BY <2>2, <2>4 DEF NoNewDeactivation, Doing
  <2>6. QED
    BY <1>12, <1>t, <2>5, QuietStep DEF LoginDecide
<1>13. ASSUME NEW c \in Callers, LoginCommit(c) PROVE SessionInv'
  <2>1. calls[c].user \in Users
    BY <1>11, <1>13 DEF LoginCommit, Login
  <2>2. [NewLogin(calls[c].user) EXCEPT !.pc = "reconciled"] \in Login
    BY <2>1, NewLoginType DEF Login
  <2>3. Commits(c, [NewLogin(calls[c].user) EXCEPT !.pc = "reconciled"])
    BY <1>13 DEF LoginCommit
  <2>4. NoNewDeactivation
    BY <1>t, <2>2, <2>3, CommitsBeginsNoDeactivation DEF Call, Login
  <2>5. QED
    BY <1>13, <1>t, <2>4, QuietStep DEF LoginCommit
<1>14. ASSUME NEW c \in Callers, NEW s \in Sessions, LoginSession(c, s) PROVE SessionInv'
  <2> DEFINE u == calls[c].user
  <2>1. /\ sessions' = [sessions EXCEPT ![s] =
                          [user |-> u, late |-> status[u] # "active"]]
        /\ calls' = [calls EXCEPT ![c] = None]
        /\ UNCHANGED status
        /\ status[u] # "anonymized"
        /\ ~UserLocked(u)
    BY <1>14 DEF LoginSession, Linked
  <2>2. DeactivationSeesAll'
    BY <1>t, <2>1 DEF DeactivationSeesAll, SessionInv, Doing, UserLocked, TypeOK
  <2>3. SessionsAreCurrent' /\ AnonymizedLeavesNoSession'
    BY <1>t, <2>1 DEF SessionsAreCurrent, AnonymizedLeavesNoSession, SessionInv, TypeOK
  <2>4. QED
    BY <1>t, <2>2, <2>3 DEF SessionInv
<1>15. ASSUME NEW c \in Callers, LoginFails(c) PROVE SessionInv'
  <2>1. NoNewDeactivation
    BY <1>15, <1>t DEF LoginFails, NoNewDeactivation, Doing, TypeOK
  <2>2. QED
    BY <1>15, <1>t, <2>1, QuietStep DEF LoginFails
<1>16. ASSUME NEW s \in Sessions, Logout(s) PROVE SessionInv'
  BY <1>16, <1>t DEF Logout, SessionInv, DeactivationSeesAll, SessionsAreCurrent,
     AnonymizedLeavesNoSession, Doing, TypeOK
<1>17. CASE UNCHANGED vars
  BY <1>17, <1>t DEF vars, SessionInv, DeactivationSeesAll, SessionsAreCurrent,
     AnonymizedLeavesNoSession, Doing
<1>18. QED
  BY <1>1, <1>2, <1>3, <1>4, <1>5, <1>6, <1>7, <1>8, <1>9, <1>10, <1>12, <1>13, <1>14,
     <1>15, <1>16, <1>17 DEF Next

(* No session outlives a deactivation of its user: one that he has while    *)
(* deactivated was inserted afterwards (deactivateUser, createSession).     *)
THEOREM SessionsTheorem == Spec => []SessionsAreCurrent
<1>1. SessionInv => SessionsAreCurrent
  BY DEF SessionInv
<1>2. QED
  BY <1>1, SessionInit, SessionStep, PTL DEF Spec

(* An anonymized user never has a session (anonymizeUser, createSession).   *)
THEOREM AnonymizedTheorem == Spec => []AnonymizedLeavesNoSession
<1>1. SessionInv => AnonymizedLeavesNoSession
  BY DEF SessionInv
<1>2. QED
  BY <1>1, SessionInit, SessionStep, PTL DEF Spec

-----------------------------------------------------------------------------
(* The last-administrator rule.                                             *)

RevocationSafe(g) ==
  Active(g) /\ (rows[g].admin => AuthorityRemains(rows[g].scope, {g}, {}))

DisablingSafe(m) ==
  (\E g \in FromMapping(m) : rows[g].admin) =>
    AuthorityRemains(Target[m], FromMapping(m), {})

DeactivationSafe(u) ==
  \A s \in Scopes : AdministrativeGrants(u, s) # {} =>
    AuthorityRemains(s, AdministrativeGrants(u, s), {})

LoginSafe(u, add, drop) ==
  \A g \in drop : /\ Active(g)
                  /\ rows[g].admin =>
                       AuthorityRemains(rows[g].scope, drop, {MappedRow(u, m) : m \in add})

CheckStands(call) ==
  /\ call.op = "revoke" => RevocationSafe(call.grant)
  /\ call.op = "disable" => DisablingSafe(call.mapping)
  /\ call.op = "deactivate" => DeactivationSafe(call.user)
  /\ call.op = "login" => LoginSafe(call.user, call.add, call.drop)

(* The check of every call that nobody overtook still holds.                *)
AuthorityInv ==
  /\ TypeOK
  /\ \A c \in Callers, call \in Call :
       calls[c] = call /\ call # None /\ Checked(call) /\ ~call.raced => CheckStands(call)

Unmoved == UNCHANGED <<rows, status>>

LEMMA AuthorityInit == Init => AuthorityInv
  BY TypeInit DEF Init, AuthorityInv

LEMMA StandsUnmoved ==
  ASSUME Unmoved, NEW call, CheckStands(call)
  PROVE  CheckStands(call)'
<1>1. \A g : RevocationSafe(g)' <=> RevocationSafe(g)
  BY DEF Unmoved, RevocationSafe, AuthorityRemains, Active
<1>2. \A m : DisablingSafe(m)' <=> DisablingSafe(m)
  BY DEF Unmoved, DisablingSafe, FromMapping, AuthorityRemains, Active
<1>3. \A u : DeactivationSafe(u)' <=> DeactivationSafe(u)
  BY DEF Unmoved, DeactivationSafe, AdministrativeGrants, AuthorityRemains, Active
<1>4. \A u, add, drop : LoginSafe(u, add, drop)' <=> LoginSafe(u, add, drop)
  BY DEF Unmoved, LoginSafe, AuthorityRemains, Active, MappedRow
<1>5. QED
  BY <1>1, <1>2, <1>3, <1>4 DEF CheckStands

-----------------------------------------------------------------------------
(* The two kinds of steps.                                                  *)

(* A step that leaves grants and users alone, and gives call c a record     *)
(* whose check, if it has made one, holds.                                  *)
LEMMA AuthorityQuiet ==
  ASSUME AuthorityInv, TypeOK', Unmoved, NEW c \in Callers, NEW call,
         calls' = [calls EXCEPT ![c] = call],
         call = None \/ (Checked(call) => CheckStands(call))
  PROVE  AuthorityInv'
<1> SUFFICES ASSUME NEW d \in Callers, NEW k \in Call,
                    calls'[d] = k, k # None, Checked(k), ~k.raced
             PROVE  CheckStands(k)'
  BY DEF AuthorityInv, Checked
<1>1. CASE d = c
  <2>1. k = call
    BY <1>1 DEF AuthorityInv, TypeOK
  <2>2. QED
    BY <2>1, StandsUnmoved
<1>2. CASE d # c
  <2>1. CheckStands(k)
    BY <1>2 DEF AuthorityInv, TypeOK
  <2>2. QED
    BY <2>1, StandsUnmoved
<1>3. QED
  BY <1>1, <1>2

(* A commit: whoever checked before it is raced from now on, and the call   *)
(* itself has nothing checked left.                                         *)
LEMMA AuthorityCommit ==
  ASSUME TypeOK, TypeOK', NEW who, NEW next, Commits(who, next),
         next = None \/ ~Checked(next)
  PROVE  AuthorityInv'
<1> SUFFICES ASSUME NEW d \in Callers, NEW k \in Call,
                    calls'[d] = k, k # None, Checked(k), ~k.raced
             PROVE  FALSE
  BY DEF AuthorityInv, Checked
<1>1. d # who
  BY DEF Commits, TypeOK
<1>2. CASE calls[d] # None /\ Checked(calls[d])
  <2>1. k = [calls[d] EXCEPT !.raced = TRUE]
    BY <1>1, <1>2 DEF Commits
  <2>2. calls[d] \in Call
    BY <1>2 DEF TypeOK
  <2>3. "raced" \in DOMAIN calls[d]
    BY <2>2 DEF Call, Revocation, Disabling, Deactivation, Login
  <2>4. QED
    BY <2>1, <2>3
<1>3. CASE ~(calls[d] # None /\ Checked(calls[d]))
  BY <1>1, <1>3 DEF Commits
<1>4. QED
  BY <1>2, <1>3

-----------------------------------------------------------------------------
(* Every action keeps the invariant.                                        *)

(* What a login withdraws from a scope leaves an administrator there,       *)
(* counting the grants it withdraws elsewhere as withdrawn too.             *)
LEMMA WithdrawnIsSafe ==
  ASSUME TypeOK, NEW u, NEW claim, NEW add
  PROVE  LoginSafe(u, add, Withdrawn(u, claim, {MappedRow(u, m) : m \in add}))
<1> DEFINE own == {MappedRow(u, m) : m \in add}
           drop == Withdrawn(u, claim, own)
<1> SUFFICES ASSUME NEW g \in drop
             PROVE  /\ Active(g)
                    /\ rows[g].admin => AuthorityRemains(rows[g].scope, drop, own)
  BY DEF LoginSafe
<1>1. PICK t \in Scopes :
        /\ g \in UnclaimedIn(u, claim, t)
        /\ (\E h \in UnclaimedIn(u, claim, t) : rows[h].admin) =>
             AuthorityRemains(t, UnclaimedIn(u, claim, t), own)
  BY DEF Withdrawn
<1>2. Active(g) /\ rows[g].scope = t
  BY <1>1 DEF UnclaimedIn, Unclaimed, MappedTo
<1>3. ASSUME NEW h \in drop, rows[h].scope = t PROVE h \in UnclaimedIn(u, claim, t)
  BY <1>3 DEF Withdrawn, UnclaimedIn
<1> HIDE DEF drop, own
<1>4. AuthorityRemains(t, UnclaimedIn(u, claim, t), own) => AuthorityRemains(t, drop, own)
  BY <1>3 DEF AuthorityRemains
<1>5. QED
  BY <1>1, <1>2, <1>4

LEMMA AuthorityStep == AuthorityInv /\ [Next]_vars => AuthorityInv'
<1> SUFFICES ASSUME AuthorityInv, [Next]_vars PROVE AuthorityInv'
  OBVIOUS
<1>t. TypeOK /\ TypeOK'
  BY TypeStep DEF AuthorityInv
<1>1. ASSUME NEW c \in Callers, NEW g \in Grants, RevokeCheck(c, g) PROVE AuthorityInv'
  <2>1. CheckStands([op |-> "revoke", grant |-> g, raced |-> FALSE])
    BY <1>1 DEF RevokeCheck, CheckStands, RevocationSafe
  <2>2. QED
    BY <1>1, <1>t, <2>1, AuthorityQuiet DEF RevokeCheck, Begins, Unmoved
<1>2. ASSUME NEW c \in Callers, RevokeWrite(c) PROVE AuthorityInv'
  BY <1>2, <1>t, AuthorityCommit DEF RevokeWrite
<1>3. ASSUME NEW c \in Callers, NEW m \in Mappings, DisableCheck(c, m) PROVE AuthorityInv'
  <2>1. CheckStands([op |-> "disable", mapping |-> m, raced |-> FALSE])
    BY <1>3 DEF DisableCheck, CheckStands, DisablingSafe
  <2>2. QED
    BY <1>3, <1>t, <2>1, AuthorityQuiet DEF DisableCheck, Begins, Unmoved
<1>4. ASSUME NEW c \in Callers, DisableCommit(c) PROVE AuthorityInv'
  BY <1>4, <1>t, AuthorityCommit DEF DisableCommit
<1>5. ASSUME NEW c \in Callers, NEW u \in Users, DeactivateCheck(c, u) PROVE AuthorityInv'
  <2>1. CheckStands([op |-> "deactivate", user |-> u, raced |-> FALSE,
                     open |-> {s \in Sessions : sessions[s] # None /\ sessions[s].user = u}])
    BY <1>5 DEF DeactivateCheck, CheckStands, DeactivationSafe
  <2>2. QED
    BY <1>5, <1>t, <2>1, AuthorityQuiet DEF DeactivateCheck, Begins, Unmoved
<1>6. ASSUME NEW c \in Callers, DeactivateCommit(c) PROVE AuthorityInv'
  BY <1>6, <1>t, AuthorityCommit DEF DeactivateCommit
<1>7. ASSUME NEW u \in Users, Reactivate(u) PROVE AuthorityInv'
  BY <1>7, <1>t, AuthorityCommit DEF Reactivate
<1>8. ASSUME NEW u \in Users, Anonymize(u) PROVE AuthorityInv'
  BY <1>8, <1>t, AuthorityCommit DEF Anonymize
<1>9. ASSUME NEW c \in Callers, NEW u \in Users, NEW groups \in SUBSET Mappings,
             LoginStart(c, u, groups) PROVE AuthorityInv'
  <2>1. PICK claim \in {groups, None} :
          Begins(c, [NewLogin(u) EXCEPT !.claim = claim, !.matching = groups \ disabled])
    BY <1>9 DEF LoginStart
  <2>2. ~Checked([NewLogin(u) EXCEPT !.claim = claim, !.matching = groups \ disabled])
    BY DEF Checked, NewLogin
  <2>3. QED
    BY <1>9, <1>t, <2>1, <2>2, AuthorityQuiet DEF LoginStart, Begins, Unmoved
<1>10. ASSUME NEW c \in Callers, NEW u \in Users, LoginWithoutGroups(c, u) PROVE AuthorityInv'
  <2>1. ~Checked([NewLogin(u) EXCEPT !.pc = "reconciled"])
    BY DEF Checked, NewLogin
  <2>2. QED
    BY <1>10, <1>t, <2>1, AuthorityQuiet DEF LoginWithoutGroups, Begins, Unmoved
<1>11. ASSUME NEW c \in Callers, Doing(c, "login") PROVE calls[c] \in Login
  BY <1>t, <1>11 DEF TypeOK, Doing, Call, Revocation, Disabling, Deactivation, Login
<1>12. ASSUME NEW c \in Callers, LoginDecide(c) PROVE AuthorityInv'
  <2> DEFINE u == calls[c].user
             claim == calls[c].claim
             add == Missing(u, calls[c].matching)
             own == {MappedRow(u, m) : m \in add}
             drop == IF claim = None THEN {} ELSE Withdrawn(u, claim, own)
             next == [calls[c] EXCEPT !.pc = "decided", !.matching = {}, !.add = add,
                                      !.drop = drop]
  <2>1. calls[c] \in Login
    BY <1>11, <1>12 DEF LoginDecide
  <2>2. /\ calls' = [calls EXCEPT ![c] = next]
        /\ Unmoved
    BY <1>12 DEF LoginDecide, Unmoved
  <2>3. LoginSafe(u, add, drop)
    BY <1>t, WithdrawnIsSafe DEF LoginSafe
  <2>4. next.op = "login" /\ next.user = u /\ next.add = add /\ next.drop = drop
    <3> HIDE DEF add, drop
    <3> QED
      BY <2>1 DEF Login
  <2> HIDE DEF next, u, add, drop
  <2>5. CheckStands(next)
    BY <2>3, <2>4 DEF CheckStands
  <2>6. QED
    BY <1>t, <2>2, <2>5, AuthorityQuiet
<1>13. ASSUME NEW c \in Callers, LoginCommit(c) PROVE AuthorityInv'
  <2>1. ~Checked([NewLogin(calls[c].user) EXCEPT !.pc = "reconciled"])
    BY DEF Checked, NewLogin
  <2>2. QED
    BY <1>13, <1>t, <2>1, AuthorityCommit DEF LoginCommit
<1>14. ASSUME NEW c \in Callers, NEW s \in Sessions, LoginSession(c, s) PROVE AuthorityInv'
  BY <1>14, <1>t, AuthorityQuiet DEF LoginSession, Unmoved
<1>15. ASSUME NEW c \in Callers, LoginFails(c) PROVE AuthorityInv'
  BY <1>15, <1>t, AuthorityQuiet DEF LoginFails, Unmoved
<1>16. ASSUME NEW s \in Sessions, Logout(s) PROVE AuthorityInv'
  BY <1>16, <1>t, StandsUnmoved DEF Logout, Unmoved, AuthorityInv
<1>17. CASE UNCHANGED vars
  BY <1>17, <1>t, StandsUnmoved DEF vars, Unmoved, AuthorityInv
<1>18. QED
  BY <1>1, <1>2, <1>3, <1>4, <1>5, <1>6, <1>7, <1>8, <1>9, <1>10, <1>12, <1>13, <1>14,
     <1>15, <1>16, <1>17 DEF Next

-----------------------------------------------------------------------------
(* What each commit does to the administrators of a scope.                  *)

(* The check of a call that commits without being raced stands.             *)
LEMMA UnracedStands ==
  ASSUME AuthorityInv, NEW c \in Callers, calls[c] # None, Checked(calls[c]), ~calls[c].raced
  PROVE  CheckStands(calls[c])
  BY DEF AuthorityInv, TypeOK

LEMMA RemainingAdministers ==
  ASSUME NEW s, NEW excluding, AuthorityRemains(s, excluding, {})
  PROVE  \E g \in Grants \ excluding :
           rows[g] # None /\ rows[g].scope = s /\ rows[g].admin /\ status[rows[g].user] = "active"
  BY DEF AuthorityRemains, Active

LEMMA RevokeKeepsAdministrator ==
  ASSUME AuthorityInv, NEW c \in Callers, RevokeWrite(c), ~calls[c].raced,
         NEW s \in Scopes, HasAdministrator(s)
  PROVE  HasAdministrator(s)'
<1> DEFINE g == calls[c].grant
<1>1. RevocationSafe(g)
  BY UnracedStands DEF RevokeWrite, Doing, Checked, CheckStands
<1>2. PICK h \in Grants : rows[h] # None /\ rows[h].scope = s /\ rows[h].admin
                           /\ status[rows[h].user] = "active"
  BY DEF HasAdministrator
<1>3. \E k \in Grants \ {g} : rows[k] # None /\ rows[k].scope = s /\ rows[k].admin
                              /\ status[rows[k].user] = "active"
  <2>1. CASE h = g
    BY <1>1, <1>2, <2>1, RemainingAdministers DEF RevocationSafe
  <2>2. CASE h # g
    BY <1>2, <2>2
  <2>3. QED
    BY <2>1, <2>2
<1>4. QED
  BY <1>3 DEF RevokeWrite, HasAdministrator, AuthorityInv, TypeOK

LEMMA DisableKeepsAdministrator ==
  ASSUME AuthorityInv, NEW c \in Callers, DisableCommit(c), ~calls[c].raced,
         NEW s \in Scopes, HasAdministrator(s)
  PROVE  HasAdministrator(s)'
<1> DEFINE m == calls[c].mapping
<1>1. DisablingSafe(m) /\ m \in Mappings
  BY UnracedStands DEF DisableCommit, Doing, Checked, CheckStands, AuthorityInv, TypeOK,
     Call, Revocation, Disabling, Deactivation, Login
<1>2. PICK h \in Grants : rows[h] # None /\ rows[h].scope = s /\ rows[h].admin
                           /\ status[rows[h].user] = "active"
  BY DEF HasAdministrator
<1>3. \E k \in Grants \ FromMapping(m) :
        rows[k] # None /\ rows[k].scope = s /\ rows[k].admin
        /\ status[rows[k].user] = "active"
  <2>1. CASE h \in FromMapping(m)
    <3>1. Target[m] = s
      BY <1>1, <1>2, <2>1, NoneIsNoName DEF FromMapping, AuthorityInv, TypeOK
    <3>2. AuthorityRemains(s, FromMapping(m), {})
      BY <1>1, <1>2, <2>1, <3>1 DEF DisablingSafe
    <3>3. QED
      BY <3>2, RemainingAdministers
  <2>2. CASE h \notin FromMapping(m)
    BY <1>2, <2>2
  <2>3. QED
    BY <2>1, <2>2
<1>4. rows' = [g \in Grants |-> IF g \in FromMapping(m) THEN None ELSE rows[g]]
      /\ UNCHANGED status
  BY DEF DisableCommit
<1>5. QED
  BY <1>3, <1>4 DEF HasAdministrator

LEMMA DeactivateKeepsAdministrator ==
  ASSUME AuthorityInv, NEW c \in Callers, DeactivateCommit(c), ~calls[c].raced,
         NEW s \in Scopes, HasAdministrator(s)
  PROVE  HasAdministrator(s)'
<1> DEFINE u == calls[c].user
<1>1. DeactivationSafe(u)
  BY UnracedStands DEF DeactivateCommit, Doing, Checked, CheckStands
<1>2. PICK h \in Grants : rows[h] # None /\ rows[h].scope = s /\ rows[h].admin
                           /\ status[rows[h].user] = "active"
  BY DEF HasAdministrator
<1>3. \E k \in Grants : /\ rows[k] # None /\ rows[k].scope = s /\ rows[k].admin
                        /\ status[rows[k].user] = "active" /\ rows[k].user # u
  <2>1. CASE rows[h].user = u
    <3>1. h \in AdministrativeGrants(u, s)
      BY <1>2, <2>1 DEF AdministrativeGrants, Active
    <3>2. PICK k \in Grants \ AdministrativeGrants(u, s) :
            rows[k] # None /\ rows[k].scope = s /\ rows[k].admin
            /\ status[rows[k].user] = "active"
      BY <1>1, <3>1, RemainingAdministers DEF DeactivationSafe
    <3>3. rows[k].user # u
      BY <3>2 DEF AdministrativeGrants, Active
    <3>4. QED
      BY <3>2, <3>3
  <2>2. CASE rows[h].user # u
    BY <1>2, <2>2
  <2>3. QED
    BY <2>1, <2>2
<1>4. status' = [status EXCEPT ![u] = "deactivated"] /\ UNCHANGED rows
  BY DEF DeactivateCommit
<1>5. ASSUME NEW v, v # u, status[v] = "active", v \in Users PROVE status'[v] = "active"
  BY <1>4, <1>5 DEF AuthorityInv, TypeOK
<1>6. \A k \in Grants : rows[k] # None => rows[k].user \in Users
  BY DEF AuthorityInv, TypeOK, Row
<1>7. QED
  BY <1>3, <1>4, <1>5, <1>6 DEF HasAdministrator

LEMMA LoginKeepsAdministrator ==
  ASSUME AuthorityInv, NEW c \in Callers, LoginCommit(c), ~calls[c].raced,
         NEW s \in Scopes, HasAdministrator(s)
  PROVE  HasAdministrator(s)'
<1> DEFINE u == calls[c].user
           add == calls[c].add
           drop == calls[c].drop
<1>1. LoginSafe(u, add, drop)
  BY UnracedStands DEF LoginCommit, Doing, Checked, CheckStands
<1>2. PICK h \in Grants : rows[h] # None /\ rows[h].scope = s /\ rows[h].admin
                           /\ status[rows[h].user] = "active"
  BY DEF HasAdministrator
<1>3. AuthorityRemains(s, drop, {MappedRow(u, m) : m \in add})
  <2>1. CASE h \in drop
    BY <1>1, <1>2, <2>1 DEF LoginSafe
  <2>2. CASE h \notin drop
    BY <1>2, <2>2 DEF AuthorityRemains, Active
  <2>3. QED
    BY <2>1, <2>2
<1>4. PICK at \in [add -> FreeGrants] :
        /\ \A m, n \in add : at[m] = at[n] => m = n
        /\ rows' = [g \in Grants |->
             IF \E m \in add : at[m] = g
             THEN MappedRow(u, CHOOSE m \in add : at[m] = g)
             ELSE IF g \in drop THEN None ELSE rows[g]]
  BY DEF LoginCommit
<1>5. UNCHANGED status
  BY DEF LoginCommit
<1>6. CASE \E k \in Grants \ drop :
        Active(k) /\ rows[k].scope = s /\ rows[k].admin /\ status[rows[k].user] = "active"
  <2>1. PICK k \in Grants \ drop :
          Active(k) /\ rows[k].scope = s /\ rows[k].admin /\ status[rows[k].user] = "active"
    BY <1>6
  <2>2. k \notin FreeGrants
    BY <2>1 DEF FreeGrants
  <2>3. rows'[k] = rows[k]
    BY <1>4, <2>1, <2>2
  <2>4. QED
    BY <1>5, <2>1, <2>3 DEF HasAdministrator, Active
<1>7. CASE \E m \in add : /\ MappedRow(u, m).scope = s /\ MappedRow(u, m).admin
                          /\ status[MappedRow(u, m).user] = "active"
  <2>1. PICK m \in add : /\ MappedRow(u, m).scope = s /\ MappedRow(u, m).admin
                         /\ status[MappedRow(u, m).user] = "active"
    BY <1>7
  <2>2. at[m] \in Grants
    BY <1>4 DEF FreeGrants
  <2>3. (CHOOSE n \in add : at[n] = at[m]) = m
    BY <1>4
  <2>4. rows'[at[m]] = MappedRow(u, m)
    BY <1>4, <2>2, <2>3
  <2>5. calls[c] \in Login
    BY DEF LoginCommit, Doing, AuthorityInv, TypeOK, Call, Revocation, Disabling,
       Deactivation, Login
  <2>6. MappedRow(u, m) # None
    BY <2>5, MappedRowType, NoneIsNoRow DEF Login
  <2>7. QED
    BY <1>5, <2>1, <2>2, <2>4, <2>6 DEF HasAdministrator
<1>8. QED
  BY <1>3, <1>6, <1>7 DEF AuthorityRemains

-----------------------------------------------------------------------------
(* A scope loses its last administrator only through a call that another    *)
(* commit overtook: without overlap the rule of lastAdministrator.js holds. *)

LEMMA OrphanStep ==
  ASSUME AuthorityInv, [Next]_vars, NEW s \in Scopes,
         HasAdministrator(s), ~HasAdministrator(s)'
  PROVE  \E c \in Callers : calls[c] # None /\ calls[c].raced /\ calls'[c] # calls[c]
<1>t. TypeOK
  BY DEF AuthorityInv
<1>n. ~UNCHANGED <<rows, status>>
  BY DEF HasAdministrator
<1>d. ASSUME NEW c \in Callers, calls'[c] # calls[c], calls[c] # None,
             ~calls[c].raced => HasAdministrator(s)'
      PROVE  \E d \in Callers : calls[d] # None /\ calls[d].raced /\ calls'[d] # calls[d]
  BY <1>d
<1>1. ASSUME NEW c \in Callers, RevokeWrite(c)
      PROVE  \E d \in Callers : calls[d] # None /\ calls[d].raced /\ calls'[d] # calls[d]
  <2>1. calls[c] # None /\ calls'[c] = None
    BY <1>1, <1>t DEF RevokeWrite, Doing, Commits
  <2>2. QED
    BY <1>1, <1>d, <2>1, RevokeKeepsAdministrator
<1>2. ASSUME NEW c \in Callers, DisableCommit(c)
      PROVE  \E d \in Callers : calls[d] # None /\ calls[d].raced /\ calls'[d] # calls[d]
  <2>1. calls[c] # None /\ calls'[c] = None
    BY <1>2, <1>t DEF DisableCommit, Doing, Commits
  <2>2. QED
    BY <1>2, <1>d, <2>1, DisableKeepsAdministrator
<1>3. ASSUME NEW c \in Callers, DeactivateCommit(c)
      PROVE  \E d \in Callers : calls[d] # None /\ calls[d].raced /\ calls'[d] # calls[d]
  <2>1. calls[c] # None /\ calls'[c] = None
    BY <1>3, <1>t DEF DeactivateCommit, Doing, Commits
  <2>2. QED
    BY <1>3, <1>d, <2>1, DeactivateKeepsAdministrator
<1>4. ASSUME NEW c \in Callers, LoginCommit(c)
      PROVE  \E d \in Callers : calls[d] # None /\ calls[d].raced /\ calls'[d] # calls[d]
  <2>1. calls[c] # None /\ calls[c].pc = "decided"
    BY <1>4 DEF LoginCommit, Doing
  <2>2. calls'[c] = [NewLogin(calls[c].user) EXCEPT !.pc = "reconciled"]
    BY <1>4 DEF LoginCommit, Commits
  <2>3. calls'[c].pc = "reconciled"
    BY <2>2 DEF NewLogin
  <2>4. QED
    BY <1>4, <1>d, <2>1, <2>3, LoginKeepsAdministrator
<1>5. ASSUME NEW u \in Users, Reactivate(u) PROVE FALSE
  BY <1>5, <1>t DEF Reactivate, HasAdministrator, TypeOK, Row
<1>6. ASSUME NEW u \in Users, Anonymize(u) PROVE FALSE
  <2>1. ASSUME NEW g \in Grants, rows[g] # None, status[rows[g].user] = "active"
        PROVE  rows'[g] = rows[g] /\ status'[rows[g].user] = "active"
    BY <1>6, <1>t, <2>1 DEF Anonymize, TypeOK, Row, Active
  <2>2. QED
    BY <2>1 DEF HasAdministrator
<1>7. QED
  BY <1>n, <1>1, <1>2, <1>3, <1>4, <1>5, <1>6 DEF Next, vars, RevokeCheck, DisableCheck,
     DeactivateCheck, LoginStart, LoginWithoutGroups, LoginDecide, LoginSession,
     LoginFails, Logout

(* The last-administrator rule holds but for races.                         *)
THEOREM OnlyRacesOrphanTheorem == Spec => OnlyRacesOrphan
<1>1. AuthorityInv /\ [Next]_vars =>
        [\A s \in Scopes : HasAdministrator(s) /\ ~HasAdministrator(s)' =>
           \E c \in Callers : /\ calls[c] # None /\ calls[c].raced
                              /\ calls'[c] # calls[c]]_vars
  BY OrphanStep
<1>2. QED
  BY <1>1, AuthorityInit, AuthorityStep, PTL DEF Spec, OnlyRacesOrphan

-----------------------------------------------------------------------------
(* A login leaves the grants of its user as the provider says.              *)

(* What a decision settles, as long as nobody commits: every claimed        *)
(* mapping is granted or about to be, and what is not claimed goes but      *)
(* where it holds the last authority.                                       *)
DecisionStands(u, claim, add, drop) ==
  /\ add \subseteq claim
  /\ \A m \in claim \ disabled : m \in add \/ MappedTo(u, m) # {}
  /\ drop \subseteq Unclaimed(u, claim)
  /\ \A g \in Unclaimed(u, claim) \ drop :
       ~AuthorityRemains(rows[g].scope, UnclaimedIn(u, claim, rows[g].scope),
                         {MappedRow(u, m) : m \in add})

(* Before, the mappings it read are those of the claim, but for some that   *)
(* are disabled by now.                                                     *)
LoginKeepsToClaim(l) ==
  l.claim # None =>
    /\ l.pc = "resolved" => l.claim \ disabled \subseteq l.matching /\ l.matching \subseteq l.claim
    /\ l.pc = "decided" /\ ~l.raced => DecisionStands(l.user, l.claim, l.add, l.drop)

DecisionInv ==
  TypeOK /\ \A c \in Callers, l \in Login :
    calls[c] = l /\ l # None => LoginKeepsToClaim(l)

LEMMA DecisionInit == Init => DecisionInv
  BY TypeInit DEF Init, DecisionInv

(* Nobody writes grants, users or mappings.                                 *)
LEMMA KeptUnmoved ==
  ASSUME Unmoved, UNCHANGED disabled, NEW l, LoginKeepsToClaim(l)
  PROVE  LoginKeepsToClaim(l)'
<1>1. \A u, m : MappedTo(u, m)' = MappedTo(u, m)
  BY DEF Unmoved, MappedTo, Active
<1>2. \A u, claim : Unclaimed(u, claim)' = Unclaimed(u, claim)
  BY <1>1 DEF Unclaimed
<1>3. \A u, claim, s : UnclaimedIn(u, claim, s)' = UnclaimedIn(u, claim, s)
  BY <1>2 DEF Unmoved, UnclaimedIn
<1>4. \A s, excluding, own : AuthorityRemains(s, excluding, own)' <=> AuthorityRemains(s, excluding, own)
  BY DEF Unmoved, AuthorityRemains, Active
<1>5. \A u, claim, add, drop :
        DecisionStands(u, claim, add, drop)' <=> DecisionStands(u, claim, add, drop)
  BY <1>1, <1>2, <1>3, <1>4 DEF Unmoved, DecisionStands, MappedRow
<1> QED BY <1>5 DEF LoginKeepsToClaim

LEMMA DecisionQuiet ==
  ASSUME DecisionInv, TypeOK', Unmoved, UNCHANGED disabled, NEW c \in Callers, NEW call,
         calls' = [calls EXCEPT ![c] = call],
         call \in Login => LoginKeepsToClaim(call)
  PROVE  DecisionInv'
<1> SUFFICES ASSUME NEW d \in Callers, NEW k \in Login, calls'[d] = k, k # None
             PROVE  LoginKeepsToClaim(k)'
  BY DEF DecisionInv
<1>1. CASE d = c
  <2>1. k = call
    BY <1>1 DEF DecisionInv, TypeOK
  <2> QED BY <2>1, KeptUnmoved
<1>2. CASE d # c
  <2>1. calls[d] = k
    BY <1>2 DEF DecisionInv, TypeOK
  <2> QED BY <2>1, KeptUnmoved DEF DecisionInv
<1> QED BY <1>1, <1>2

LEMMA DecisionGone ==
  ASSUME DecisionInv, TypeOK', Unmoved, UNCHANGED disabled, NEW c \in Callers,
         calls' = [calls EXCEPT ![c] = None]
  PROVE  DecisionInv'
<1> SUFFICES ASSUME NEW d \in Callers, NEW k \in Login, calls'[d] = k, k # None
             PROVE  LoginKeepsToClaim(k)'
  BY DEF DecisionInv
<1>1. calls[d] = k
  BY DEF DecisionInv, TypeOK
<1> QED BY <1>1, KeptUnmoved DEF DecisionInv

(* A commit ends every unraced decision, and mappings are only disabled.    *)
LEMMA DecisionCommit ==
  ASSUME DecisionInv, TypeOK', disabled \subseteq disabled', NEW who, NEW next, Commits(who, next),
         next \in Login /\ next # None => next.pc = "reconciled"
  PROVE  DecisionInv'
<1> SUFFICES ASSUME NEW d \in Callers, NEW k \in Login, calls'[d] = k, k # None
             PROVE  LoginKeepsToClaim(k)'
  BY DEF DecisionInv
<1>1. calls' = [e \in Callers |->
        IF e = who THEN next
        ELSE IF calls[e] # None /\ Checked(calls[e]) THEN [calls[e] EXCEPT !.raced = TRUE]
        ELSE calls[e]]
  BY DEF Commits
<1>2. CASE d = who
  <2>1. k = next
    BY <1>1, <1>2
  <2> QED BY <2>1 DEF LoginKeepsToClaim
<1>3. CASE d # who /\ calls[d] # None /\ Checked(calls[d])
  <2>1. k = [calls[d] EXCEPT !.raced = TRUE] /\ calls[d] \in Call
    BY <1>1, <1>3 DEF DecisionInv, TypeOK
  <2>2. calls[d] \in Login
    BY <2>1 DEF Call, Revocation, Disabling, Deactivation, Login
  <2>3. k.raced /\ k.pc = "decided"
    BY <1>3, <2>1, <2>2 DEF Checked, Login
  <2> QED BY <2>3 DEF LoginKeepsToClaim
<1>4. CASE d # who /\ ~(calls[d] # None /\ Checked(calls[d]))
  <2>1. calls[d] = k
    BY <1>1, <1>4
  <2>2. k.pc # "decided"
    BY <1>4, <2>1 DEF Checked, Login
  <2>3. LoginKeepsToClaim(k)
    BY <2>1 DEF DecisionInv
  <2> QED BY <2>2, <2>3 DEF LoginKeepsToClaim
<1> QED BY <1>2, <1>3, <1>4

(* A login decides on what is there.                                        *)
LEMMA DecideStands ==
  ASSUME TypeOK, NEW u, NEW claim \in SUBSET Mappings, NEW matching,
         claim \ disabled \subseteq matching, matching \subseteq claim
  PROVE  DecisionStands(u, claim, Missing(u, matching),
           Withdrawn(u, claim, {MappedRow(u, m) : m \in Missing(u, matching)}))
<1> DEFINE add == Missing(u, matching)
           own == {MappedRow(u, m) : m \in add}
           drop == Withdrawn(u, claim, own)
<1>1. add \subseteq claim /\ \A m \in claim \ disabled : m \in add \/ MappedTo(u, m) # {}
  BY DEF Missing
<1>2. \A g \in Unclaimed(u, claim) : rows[g].scope \in Scopes
  BY DEF TypeOK, Row, Unclaimed, MappedTo, Active
<1> HIDE DEF add, own
<1>3. drop \subseteq Unclaimed(u, claim)
  BY DEF Withdrawn, UnclaimedIn
<1>4. ASSUME NEW g \in Unclaimed(u, claim) \ drop
      PROVE  ~AuthorityRemains(rows[g].scope, UnclaimedIn(u, claim, rows[g].scope), own)
  <2>1. rows[g].scope \in Scopes /\ g \in UnclaimedIn(u, claim, rows[g].scope)
    BY <1>2 DEF UnclaimedIn
  <2> QED BY <1>4, <2>1 DEF Withdrawn
<1> QED BY <1>1, <1>3, <1>4 DEF DecisionStands, own, add

LEMMA DecisionStep == DecisionInv /\ [Next]_vars => DecisionInv'
<1> SUFFICES ASSUME DecisionInv, [Next]_vars PROVE DecisionInv'
  OBVIOUS
<1>t. TypeOK /\ TypeOK'
  BY TypeStep DEF DecisionInv
<1>1. ASSUME NEW c \in Callers, NEW g \in Grants, RevokeCheck(c, g) PROVE DecisionInv'
  BY <1>1, <1>t, DecisionQuiet DEF RevokeCheck, Begins, Unmoved, Login
<1>2. ASSUME NEW c \in Callers, RevokeWrite(c) PROVE DecisionInv'
  BY <1>2, <1>t, DecisionCommit DEF RevokeWrite
<1>3. ASSUME NEW c \in Callers, NEW m \in Mappings, DisableCheck(c, m) PROVE DecisionInv'
  BY <1>3, <1>t, DecisionQuiet DEF DisableCheck, Begins, Unmoved, Login
<1>4. ASSUME NEW c \in Callers, DisableCommit(c) PROVE DecisionInv'
  BY <1>4, <1>t, DecisionCommit DEF DisableCommit
<1>5. ASSUME NEW c \in Callers, NEW u \in Users, DeactivateCheck(c, u) PROVE DecisionInv'
  BY <1>5, <1>t, DecisionQuiet DEF DeactivateCheck, Begins, Unmoved, Login
<1>6. ASSUME NEW c \in Callers, DeactivateCommit(c) PROVE DecisionInv'
  BY <1>6, <1>t, DecisionCommit DEF DeactivateCommit
<1>7. ASSUME NEW u \in Users, Reactivate(u) \/ Anonymize(u) PROVE DecisionInv'
  BY <1>7, <1>t, DecisionCommit DEF Reactivate, Anonymize
<1>8. ASSUME NEW c \in Callers, NEW u \in Users, NEW groups \in SUBSET Mappings,
             LoginStart(c, u, groups) PROVE DecisionInv'
  <2>1. PICK claim \in {groups, None} :
          Begins(c, [NewLogin(u) EXCEPT !.claim = claim, !.matching = groups \ disabled])
    BY <1>8 DEF LoginStart
  <2>2. LoginKeepsToClaim([NewLogin(u) EXCEPT !.claim = claim, !.matching = groups \ disabled])
    BY DEF LoginKeepsToClaim, NewLogin
  <2> QED BY <1>8, <1>t, <2>1, <2>2, DecisionQuiet DEF LoginStart, Begins, Unmoved
<1>9. ASSUME NEW c \in Callers, NEW u \in Users, LoginWithoutGroups(c, u) PROVE DecisionInv'
  <2>1. LoginKeepsToClaim([NewLogin(u) EXCEPT !.pc = "reconciled"])
    BY DEF LoginKeepsToClaim, NewLogin
  <2> QED BY <1>9, <1>t, <2>1, DecisionQuiet DEF LoginWithoutGroups, Begins, Unmoved
<1>10. ASSUME NEW c \in Callers, Doing(c, "login")
       PROVE  calls[c] \in Login /\ LoginKeepsToClaim(calls[c])
  <2>1. calls[c] \in Login
    BY <1>t, <1>10 DEF TypeOK, Doing, Call, Revocation, Disabling, Deactivation, Login
  <2> QED BY <1>10, <2>1 DEF DecisionInv, Doing
<1>11. ASSUME NEW c \in Callers, LoginDecide(c) PROVE DecisionInv'
  <2> DEFINE u == calls[c].user
             claim == calls[c].claim
             matching == calls[c].matching
             add == Missing(u, matching)
             drop == IF claim = None THEN {} ELSE Withdrawn(u, claim, {MappedRow(u, m) : m \in add})
             next == [calls[c] EXCEPT !.pc = "decided", !.matching = {}, !.add = add,
                                      !.drop = drop]
  <2>1. calls[c] \in Login /\ LoginKeepsToClaim(calls[c]) /\ calls[c].pc = "resolved"
    BY <1>10, <1>11 DEF LoginDecide
  <2>2. calls' = [calls EXCEPT ![c] = next] /\ Unmoved /\ UNCHANGED disabled
    BY <1>11 DEF LoginDecide, Unmoved
  <2>3. ASSUME claim # None PROVE DecisionStands(u, claim, add, drop)
    <3>1. claim \in SUBSET Mappings
      BY <2>1, <2>3 DEF Login
    <3>2. claim \ disabled \subseteq matching /\ matching \subseteq claim
      BY <2>1, <2>3 DEF LoginKeepsToClaim
    <3>3. drop = Withdrawn(u, claim, {MappedRow(u, m) : m \in Missing(u, matching)})
      BY <2>3
    <3> HIDE DEF drop, u, claim, matching
    <3> QED BY <1>t, <3>1, <3>2, <3>3, DecideStands
  <2>4. /\ next.user = u /\ next.claim = claim /\ next.add = add /\ next.drop = drop
        /\ next.pc = "decided"
    <3> HIDE DEF add, drop
    <3> QED BY <2>1 DEF Login
  <2> HIDE DEF next, u, claim, add, drop, matching
  <2>5. LoginKeepsToClaim(next)
    BY <2>3, <2>4 DEF LoginKeepsToClaim
  <2> QED BY <1>t, <2>2, <2>5, DecisionQuiet
<1>12. ASSUME NEW c \in Callers, LoginCommit(c) PROVE DecisionInv'
  <2>1. [NewLogin(calls[c].user) EXCEPT !.pc = "reconciled"].pc = "reconciled"
    BY DEF NewLogin
  <2> QED BY <1>12, <1>t, <2>1, DecisionCommit DEF LoginCommit
<1>13. ASSUME NEW c \in Callers, NEW s \in Sessions, LoginSession(c, s) PROVE DecisionInv'
  <2>1. calls' = [calls EXCEPT ![c] = None] /\ Unmoved /\ UNCHANGED disabled
    BY <1>13 DEF LoginSession, Unmoved
  <2> QED BY <1>t, <2>1, DecisionGone
<1>14. ASSUME NEW c \in Callers, LoginFails(c) PROVE DecisionInv'
  <2>1. calls' = [calls EXCEPT ![c] = None] /\ Unmoved /\ UNCHANGED disabled
    BY <1>14 DEF LoginFails, Unmoved
  <2> QED BY <1>t, <2>1, DecisionGone
<1>15. CASE UNCHANGED <<status, rows, disabled, calls>>
  BY <1>15, <1>t, KeptUnmoved DEF Unmoved, DecisionInv
<1> QED
  BY <1>1, <1>2, <1>3, <1>4, <1>5, <1>6, <1>7, <1>8, <1>9, <1>11, <1>12, <1>13, <1>14,
     <1>15 DEF Next, vars, Logout

(* A decision that nobody overtook is what the provider says, once written. *)
LEMMA CommitIsExact ==
  ASSUME DecisionInv, NEW c \in Callers, LoginCommit(c), ~calls[c].raced, calls[c].claim # None
  PROVE  \A u \in {calls[c].user}, claim \in {calls[c].claim} : Reconciled(u, claim)'
<1>1. calls[c] \in Login /\ calls[c] # None /\ calls[c].pc = "decided" /\ TypeOK
  BY DEF LoginCommit, Doing, DecisionInv, TypeOK, Call, Revocation, Disabling, Deactivation, Login
<1>2. PICK u \in Users : u = calls[c].user
  BY <1>1 DEF Login
<1>3. PICK claim \in SUBSET Mappings : claim = calls[c].claim
  BY <1>1 DEF Login
<1>4. PICK add \in SUBSET Mappings : add = calls[c].add
  BY <1>1 DEF Login
<1>5. PICK drop \in SUBSET Grants : drop = calls[c].drop
  BY <1>1 DEF Login
<1>6. DecisionStands(u, claim, add, drop)
  BY <1>1, <1>2, <1>3, <1>4, <1>5 DEF DecisionInv, LoginKeepsToClaim
<1>7. PICK at \in [add -> FreeGrants] :
        /\ \A m, n \in add : at[m] = at[n] => m = n
        /\ rows' = [g \in Grants |->
             IF \E m \in add : at[m] = g
             THEN MappedRow(u, CHOOSE m \in add : at[m] = g)
             ELSE IF g \in drop THEN None ELSE rows[g]]
  BY <1>2, <1>4, <1>5 DEF LoginCommit
<1>8. UNCHANGED <<status, disabled>>
  BY DEF LoginCommit
(* What is written of the grants that are there, and of the new ones.       *)
<1>9. ASSUME NEW g \in Grants, Active(g), g \notin drop PROVE rows'[g] = rows[g]
  <2>1. g \notin FreeGrants
    BY <1>9 DEF FreeGrants
  <2> QED BY <1>7, <1>9, <2>1
<1>10. ASSUME NEW m \in add
       PROVE  at[m] \in Grants /\ rows'[at[m]] = MappedRow(u, m)
  <2>1. at[m] \in Grants
    BY <1>7 DEF FreeGrants
  <2>2. (CHOOSE n \in add : at[n] = at[m]) = m
    BY <1>7
  <2> QED BY <1>7, <2>1, <2>2
<1>11. ASSUME NEW g \in Grants, rows'[g] # None
       PROVE  \/ Active(g) /\ g \notin drop /\ rows'[g] = rows[g]
              \/ \E m \in add : rows'[g] = MappedRow(u, m)
  <2>1. CASE \E m \in add : at[m] = g
    BY <1>10, <2>1
  <2>2. CASE ~\E m \in add : at[m] = g
    <3>1. rows'[g] = IF g \in drop THEN None ELSE rows[g]
      BY <1>7, <2>2
    <3> QED BY <1>11, <3>1 DEF Active
  <2> QED BY <2>1, <2>2
<1>12. ASSUME NEW m \in claim, m \notin disabled' PROVE Holds(u, m)'
  <2>1. CASE m \in add
    <3>1. /\ at[m] \in Grants /\ rows'[at[m]] = MappedRow(u, m)
      BY <1>10, <2>1
    <3>2. MappedRow(u, m) # None /\ MappedRow(u, m).user = u /\ MappedRow(u, m).mapping = m
      BY MappedRowType, NoneIsNoRow DEF MappedRow
    <3> QED BY <3>1, <3>2 DEF Holds
  <2>2. CASE m \notin add
    <3>1. PICK g \in MappedTo(u, m) : TRUE
      BY <1>6, <1>8, <1>12, <2>2 DEF DecisionStands
    <3>2. g \in Grants /\ Active(g) /\ rows[g].user = u /\ rows[g].mapping = m
      BY <3>1 DEF MappedTo
    <3>3. g \notin drop
      BY <1>6, <3>2 DEF DecisionStands, Unclaimed, MappedTo
    <3> QED BY <1>9, <3>2, <3>3 DEF Holds, Active
  <2> QED BY <2>1, <2>2
<1>13. ASSUME NEW m \in Mappings \ claim, Holds(u, m)',
              NEW h \in Grants, rows'[h] # None, rows'[h].admin, rows'[h].scope = Target[m],
              status'[rows'[h].user] = "active",
              ~(rows'[h].user = u /\ rows'[h].mapping \in Mappings \ claim)
       PROVE  FALSE
  <2>1. PICK g \in Grants : rows'[g] # None /\ rows'[g].user = u /\ rows'[g].mapping = m
    BY <1>13 DEF Holds
  <2>2. m \notin add
    BY <1>6 DEF DecisionStands
  <2>3. Active(g) /\ g \notin drop /\ rows[g].user = u /\ rows[g].mapping = m
    <3>1. ASSUME NEW n \in add, rows'[g] = MappedRow(u, n) PROVE FALSE
      BY <2>1, <2>2, <3>1 DEF MappedRow
    <3>2. Active(g) /\ g \notin drop /\ rows'[g] = rows[g]
      BY <1>11, <2>1, <3>1
    <3> QED BY <2>1, <3>2
  <2>4. g \in Unclaimed(u, claim)
    BY <2>3 DEF Unclaimed, MappedTo
  <2>5. rows[g].scope = Target[m]
    BY <1>1, <2>3, NoneIsNoName DEF TypeOK, Active
  <2>6. ~AuthorityRemains(Target[m], UnclaimedIn(u, claim, Target[m]),
                          {MappedRow(u, n) : n \in add})
    BY <1>6, <2>3, <2>4, <2>5 DEF DecisionStands
  <2>7. CASE Active(h) /\ h \notin drop /\ rows'[h] = rows[h]
    <3>1. h \notin UnclaimedIn(u, claim, Target[m])
      BY <1>13, <2>7 DEF UnclaimedIn, Unclaimed, MappedTo
    <3> QED BY <1>8, <1>13, <2>6, <2>7, <3>1 DEF AuthorityRemains
  <2>8. CASE \E n \in add : rows'[h] = MappedRow(u, n)
    BY <1>8, <1>13, <2>6, <2>8 DEF AuthorityRemains
  <2> QED BY <1>11, <1>13, <2>7, <2>8
<1>14. Reconciled(u, claim)'
  BY <1>12, <1>13 DEF Reconciled
<1> QED BY <1>2, <1>3, <1>14

LEMMA ReconciliationStep ==
  ASSUME DecisionInv, [Next]_vars, NEW c \in Callers,
         Doing(c, "login"), calls[c].pc = "decided", ~calls[c].raced,
         calls'[c] # None, calls'[c].pc = "reconciled", calls[c].claim # None
  PROVE  \A u \in {calls[c].user}, claim \in {calls[c].claim} : Reconciled(u, claim)'
<1>1. calls[c] \in Login
  BY DEF Doing, DecisionInv, TypeOK, Call, Revocation, Disabling, Deactivation, Login
<1>2. calls'[c] # calls[c]
  OBVIOUS
<1>3. ASSUME NEW who, NEW next, Commits(who, next), who # c PROVE FALSE
  <2>1. calls'[c] = [calls[c] EXCEPT !.raced = TRUE] \/ calls'[c] = calls[c]
    BY <1>3 DEF Commits
  <2> QED BY <1>1, <2>1 DEF Login
<1>4. ASSUME NEW d \in Callers, NEW call, calls' = [calls EXCEPT ![d] = call], d # c PROVE FALSE
  BY <1>2, <1>4 DEF DecisionInv, TypeOK
<1>5. LoginCommit(c)
  <2>1. ASSUME NEW d \in Callers, RevokeWrite(d) \/ DisableCommit(d) \/ DeactivateCommit(d)
        PROVE  FALSE
    <3>1. Commits(d, None) /\ d # c
      BY <2>1 DEF RevokeWrite, DisableCommit, DeactivateCommit, Doing
    <3> QED BY <3>1, <1>3
  <2>2. ASSUME NEW u \in Users, Reactivate(u) \/ Anonymize(u) PROVE FALSE
    <3>1. Commits(None, None)
      BY <2>2 DEF Reactivate, Anonymize
    <3>2. calls'[c] = [calls[c] EXCEPT !.raced = TRUE] \/ calls'[c] = calls[c] \/ calls'[c] = None
      BY <3>1 DEF Commits
    <3> QED BY <1>1, <3>2 DEF Login
  <2>3. ASSUME NEW d \in Callers, LoginCommit(d), d # c PROVE FALSE
    BY <1>3, <2>3 DEF LoginCommit
  <2>4. ASSUME NEW d \in Callers, NEW call, Begins(d, call) PROVE FALSE
    BY <1>4, <2>4 DEF Begins, Doing
  <2>5. ASSUME NEW d \in Callers, LoginDecide(d) PROVE FALSE
    <3>1. d # c
      BY <2>5 DEF LoginDecide
    <3> QED BY <1>4, <2>5, <3>1 DEF LoginDecide
  <2>6. ASSUME NEW d \in Callers, (\E s \in Sessions : LoginSession(d, s)) \/ LoginFails(d)
        PROVE  FALSE
    <3>1. calls' = [calls EXCEPT ![d] = None]
      BY <2>6 DEF LoginSession, LoginFails
    <3> QED BY <1>4, <3>1 DEF DecisionInv, TypeOK
  <2> QED
    BY <1>2, <2>1, <2>2, <2>3, <2>4, <2>5, <2>6 DEF Next, vars, RevokeCheck, DisableCheck,
       DeactivateCheck, LoginStart, LoginWithoutGroups, Logout
<1> QED BY <1>5, CommitIsExact

(* A login that knows all the groups of its user and that nobody overtakes  *)
(* leaves the grants of the user exactly as the provider says.              *)
THEOREM ReconciliationTheorem == Spec => ReconciliationIsExact
<1> DEFINE Exact ==
      \A c \in Callers :
        /\ Doing(c, "login") /\ calls[c].pc = "decided" /\ ~calls[c].raced
        /\ calls'[c] # None /\ calls'[c].pc = "reconciled"
        => \A u \in {calls[c].user}, claim \in {calls[c].claim} \ {None} :
             Reconciled(u, claim)'
<1>1. DecisionInv /\ [Next]_vars => [Exact]_vars
  BY ReconciliationStep
<1> QED BY <1>1, DecisionInit, DecisionStep, PTL DEF Spec, ReconciliationIsExact
=============================================================================
