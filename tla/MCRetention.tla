----------------------------- MODULE MCRetention -----------------------------
(***************************************************************************)
(* Small instances of Retention for TLC: one start for each of its parts,  *)
(* so that their cases add up instead of multiplying.  What a start does   *)
(* not exercise has reached its bound.                                     *)
(***************************************************************************)
EXTENDS Retention, TLC

CONSTANTS p1, u1, u2, u3, s1, s2, x1, x2, i1, i2, b1, b2, v1, v2

MCFolded == [e \in Emails |-> IF e = "Ann" THEN "ann" ELSE e]

Nothing(S) == [x \in S |-> None]
Account(e, s) == [email |-> e, status |-> "active", born |-> e, by |-> s]
Sent(e, status, created, settled) ==
  [project |-> p1, email |-> e, status |-> status, created |-> created, settled |-> settled]
Link(u, linked) == [user |-> u, linked |-> linked, email |-> TRUE]

Visit(kind, v) == [kind |-> kind, visitor |-> v, at |-> 0, pc |-> "done", first |-> FALSE,
                   last |-> Nobody, session |-> IF v = Nobody THEN Nobody ELSE 1, returning |-> FALSE]

NoTelemetry ==
  /\ visits = [r \in Requests |-> Visit("mood_feedback", Nobody)]
  /\ written = Requests /\ overlapped = {}
  /\ usage = [d \in Days |-> [c \in Counts |-> IF d = 0 /\ c = "moods" THEN MaxRequests ELSE 0]]
NoPass == pass = None /\ passes = MaxPasses /\ passed = None

(* First logins, at one instant: two newcomers whom nobody invited, or one  *)
(* to whom somebody sends invitations.                                      *)
LoginStart ==
  /\ now = MaxTime /\ NoPass /\ NoTelemetry /\ events = {}
  /\ creator = Nothing(Projects) /\ invitations = [i \in Invitations |-> Gone]
  /\ grants = {} /\ staff = {}
  /\ users = Nothing(Users) /\ identities = Nothing(Subjects)
  /\ sessions = Nothing(Sessions) /\ logins = Nothing(Browsers)
  /\ started = 1 /\ stranded = {} /\ overtaken = {}
CompanyStart ==
  /\ now = MaxTime /\ NoPass /\ NoTelemetry /\ events = {}
  /\ creator = [p \in Projects |-> None] /\ invitations = Nothing(Invitations)
  /\ grants = {} /\ staff = {u1}
  /\ users = [Nothing(Users) EXCEPT ![u1] = Account("ann", s1)]
  /\ identities = [Nothing(Subjects) EXCEPT ![s1] = Link(u1, now)]
  /\ sessions = Nothing(Sessions) /\ logins = Nothing(Browsers)
  /\ started = MaxLogins - 1 /\ stranded = {} /\ overtaken = {}

(* Rows of several ages under two passes.                                   *)
RetentionStart ==
  /\ now = 0 /\ pass = None /\ passes = 0 /\ passed = None
  /\ NoTelemetry /\ events = Requests
  /\ creator = [p \in Projects |-> u1]
  /\ grants = {[user |-> u1, project |-> p1, from |-> None]} /\ staff = {u1}
  /\ users = [Nothing(Users) EXCEPT ![u1] = Account("ann", s1)]
  /\ identities = [Nothing(Subjects) EXCEPT ![s1] = Link(u1, 0)]
  /\ sessions = [Nothing(Sessions) EXCEPT ![x1] = [user |-> u1, identity |-> s1, expires |-> SessionTtl,
                                                   revoked |-> None]]
  /\ invitations = [Nothing(Invitations) EXCEPT ![i1] = Sent("bob", "pending", 0, None),
                                                ![i2] = Sent("ann", "revoked", 0, 0)]
  /\ logins = Nothing(Browsers) /\ started = MaxLogins /\ stranded = {} /\ overtaken = {}

(* One pass while a first login takes the invitations that expire.          *)
ExpiryStart ==
  /\ now = 3 /\ pass = None /\ passes = MaxPasses - 1 /\ passed = None
  /\ NoTelemetry /\ events = Requests
  /\ creator = [p \in Projects |-> u1]
  /\ grants = {[user |-> u1, project |-> p1, from |-> None]} /\ staff = {u1}
  /\ users = [Nothing(Users) EXCEPT ![u1] = Account("ann", s1), ![u2] = Account("bob", s2)]
  /\ identities = [Nothing(Subjects) EXCEPT ![s1] = Link(u1, 2), ![s2] = Link(u2, 3)]
  /\ sessions = Nothing(Sessions)
  /\ invitations = [i \in Invitations |-> Sent("bob", "pending", 2, None)]
  /\ logins = [Nothing(Browsers) EXCEPT ![b1] = [pc |-> "linked", subject |-> s2, email |-> "bob",
                                                 user |-> u2, listed |-> {}]]
  /\ started = MaxLogins /\ stranded = {} /\ overtaken = {}

(* Two visits, the first ones but for a mood, or after one by the same or   *)
(* another visitor.                                                         *)
TelemetryStart ==
  /\ now = 0 /\ NoPass
  /\ events = {1} /\ written = {1} /\ overlapped = {}
  /\ \E kind \in Kinds :
       /\ visits = <<Visit(kind, IF kind = "mood_feedback" THEN Nobody ELSE v1)>>
       /\ LET counted == CASE kind = "page_view" -> {"visitors", "sessions", "views"}
                          [] kind = "match_result" -> {"matches"} [] OTHER -> {"moods"}
          IN usage = [d \in Days |-> [c \in Counts |-> IF d = 0 /\ c \in counted THEN 1 ELSE 0]]
  /\ creator = Nothing(Projects) /\ invitations = Nothing(Invitations) /\ grants = {} /\ staff = {}
  /\ users = Nothing(Users) /\ identities = Nothing(Subjects) /\ sessions = Nothing(Sessions)
  /\ logins = Nothing(Browsers) /\ started = MaxLogins /\ stranded = {} /\ overtaken = {}

MCInit == LoginStart \/ CompanyStart \/ RetentionStart \/ ExpiryStart \/ TelemetryStart
MCSpec == MCInit /\ [][Next]_vars

Symmetric == Permutations(Users) \cup Permutations(Browsers) \cup Permutations(Visitors)
=============================================================================
