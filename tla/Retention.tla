------------------------------ MODULE Retention ------------------------------
(***************************************************************************)
(* The retention runner over what Onboarding and Telemetry keep.  A pass   *)
(* takes the time once and runs the policies in order, each in its own     *)
(* transaction; one that fails ends the pass, and what the earlier ones    *)
(* did stays.  Audit events are not in the model: their policy, third in   *)
(* the order, can only fail.                                               *)
(***************************************************************************)
EXTENDS Onboarding, Telemetry

CONSTANTS
  PurgeAfterInvalidation, PendingExpiresAfter, TerminalRetention, EmailRetention,
  MaxPasses   \* bound: passes

ASSUME RetentionsArePositive ==
  {PurgeAfterInvalidation, PendingExpiresAfter, TerminalRetention, EmailRetention} \subseteq Nat \ {0}
ASSUME MaxPassesIsNatural == MaxPasses \in Nat

VARIABLES
  pass,     \* the pass in progress: its time and its next policy
  passes,   \* passes so far
  passed    \* history: the time of the last complete pass

retention == <<pass, passes, passed>>
vars == <<now, onboarding, telemetry, retention>>

Policies == <<"sessions", "invitations", "audit_events", "pilotage", "external_identities">>

TypeOK ==
  /\ now \in Times
  /\ OnboardingTypeOK /\ TelemetryTypeOK
  /\ pass \in [now : 0..now, policy : DOMAIN Policies] \cup {None}
  /\ passes \in 0..MaxPasses
  /\ passed \in (0..now) \cup {None}

Init ==
  /\ now = 0
  /\ OnboardingInit /\ TelemetryInit
  /\ pass = None /\ passes = 0 /\ passed = None

-----------------------------------------------------------------------------
(* What is due at a time t.                                                 *)

AtRevocation(x) == IF sessions[x].revoked # None THEN sessions[x].revoked ELSE sessions[x].expires
(* least(expires_at, coalesce(revoked_at, expires_at))                      *)
Invalidated(x) ==
  IF AtRevocation(x) < sessions[x].expires THEN AtRevocation(x) ELSE sessions[x].expires
DueSessions(t) ==
  {x \in Sessions : sessions[x] # None /\ Invalidated(x) <= t - PurgeAfterInvalidation}

DueToExpire(t) == {i \in Invitations : Pending(i) /\ invitations[i].created <= t - PendingExpiresAfter}

SinceCreation(i) == invitations[i].created   \* mutant of SinceSettled
SinceSettled(i) == invitations[i].settled
AllButRevoked(t) ==   \* mutant of DueInvitations: one status forgotten
  {i \in Invitations : invitations[i] \notin {None, Gone} /\
     invitations[i].status \in {"accepted", "expired"} /\ SinceSettled(i) <= t - TerminalRetention}
DueInvitations(t) ==
  {i \in Invitations : invitations[i] \notin {None, Gone} /\
     invitations[i].status \in Terminal /\ SinceSettled(i) <= t - TerminalRetention}

DueEmails(t) == {s \in Subjects : identities[s] # None /\ identities[s].email
                                  /\ identities[s].linked < t - EmailRetention}

-----------------------------------------------------------------------------
(* A pass.                                                                  *)

StartPass ==
  /\ pass = None /\ passes < MaxPasses
  /\ pass' = [now |-> now, policy |-> 1] /\ passes' = passes + 1
  /\ UNCHANGED <<now, onboarding, telemetry, passed>>

Policy(name) == pass # None /\ Policies[pass.policy] = name
Continue == pass' = [pass EXCEPT !.policy = @ + 1] /\ UNCHANGED <<now, passes, passed>>

PurgeSessions ==
  /\ Policy("sessions") /\ Continue
  /\ sessions' = [x \in Sessions |-> IF x \in DueSessions(pass.now) THEN None ELSE sessions[x]]
  /\ UNCHANGED <<telemetry, creator, invitations, grants, staff, users, identities, logins,
                 started, stranded, overtaken>>

(* expirePendingInvitations, then purgeTerminalInvitations: what expires    *)
(* now was not due for the purge.                                           *)
PurgeInvitations ==
  /\ Policy("invitations") /\ Continue
  /\ invitations' = [i \in Invitations |->
       IF i \in DueToExpire(pass.now)
       THEN [invitations[i] EXCEPT !.status = "expired", !.settled = pass.now]
       ELSE IF i \in DueInvitations(pass.now) THEN Gone ELSE invitations[i]]
  /\ UNCHANGED <<telemetry, creator, grants, staff, users, identities, sessions, logins,
                 started, stranded, overtaken>>

PurgeAudit ==
  /\ Policy("audit_events") /\ Continue
  /\ UNCHANGED <<onboarding, telemetry>>

PurgeEvents ==
  /\ Policy("pilotage") /\ Continue
  /\ events' = events \ Aged(pass.now)
  /\ UNCHANGED <<onboarding, visits, written, usage, overlapped>>

(* The last policy: the email goes, the identity stays.                     *)
NullifyEmails ==
  /\ Policy("external_identities")
  /\ identities' = [s \in Subjects |->
       IF s \in DueEmails(pass.now) THEN [identities[s] EXCEPT !.email = FALSE] ELSE identities[s]]
  /\ pass' = None /\ passed' = pass.now
  /\ UNCHANGED <<now, telemetry, creator, invitations, grants, staff, users, sessions, logins,
                 started, stranded, overtaken, passes>>

(* The transaction of a policy is rolled back, or the process dies.         *)
FailPass ==
  /\ pass # None /\ pass' = None
  /\ UNCHANGED <<now, onboarding, telemetry, passes, passed>>

Retain == StartPass \/ PurgeSessions \/ PurgeInvitations \/ PurgeAudit \/ PurgeEvents
          \/ NullifyEmails \/ FailPass

Next ==
  \/ OnboardingNext /\ UNCHANGED <<now, telemetry, retention>>
  \/ TelemetryNext /\ UNCHANGED <<now, onboarding, retention>>
  \/ Retain
  \/ Tick /\ RequestsAreShort /\ UNCHANGED <<onboarding, telemetry, retention>>

Spec == Init /\ [][Next]_vars

-----------------------------------------------------------------------------
(* After a complete pass nothing is left that was due at its time: no       *)
(* session invalid for a week, no invitation still pending after its ninety *)
(* days or kept a year after it was settled, no visitor's event and no      *)
(* email beyond their windows; whatever was written while the pass ran.     *)
AfterAPassNothingOverdue == passed # None =>
  /\ DueSessions(passed) = {} /\ DueToExpire(passed) = {}
  /\ \A i \in Invitations : invitations[i] \notin {None, Gone} /\ invitations[i].settled # None =>
       invitations[i].settled > passed - TerminalRetention
  /\ Aged(passed) = {} /\ DueEmails(passed) = {}

Anonymizing == \E u \in Users : Deactivated(u) /\ users'[u].status = "anonymized"
(* Except for an anonymization, a row goes only when its time is over by    *)
(* the clock: a session has been unusable for a week, an invitation waited  *)
(* its ninety days before it expires and is kept a year after it was        *)
(* settled, an event is outside every exact report, and a linked email goes *)
(* after its ninety days.                                                   *)
NothingPurgedEarly == [][
  /\ \A x \in Sessions : sessions[x] # None /\ sessions'[x] = None /\ ~Anonymizing =>
       Invalidated(x) + PurgeAfterInvalidation <= now
  /\ \A i \in Invitations : invitations[i] \notin {None, Gone} /\ invitations'[i] # invitations[i] =>
       IF invitations'[i] = Gone
       THEN \/ Anonymizing
            \/ ~Pending(i) /\ invitations[i].settled + TerminalRetention <= now
       ELSE invitations'[i].status = "expired" =>
              Pending(i) /\ invitations[i].created + PendingExpiresAfter <= now
  /\ \A r \in events \ events' : visits[r].at + RawRetention < now
  /\ \A s \in Subjects : identities[s] # None /\ identities'[s] # identities[s] /\ ~Anonymizing =>
       identities[s].linked + EmailRetention < now]_vars
=============================================================================
