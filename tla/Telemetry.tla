------------------------------ MODULE Telemetry ------------------------------
(***************************************************************************)
(* What visitors of one published site do, counted without knowing them.   *)
(* A request is a few statements on the pool, without a transaction: was   *)
(* the visitor seen today, what was his last event, when did its session   *)
(* begin, insert the event, add to the row of the day, and sometimes purge *)
(* what is old.  Two requests of one visitor may overlap, and a request    *)
(* that fails half-way leaves what it wrote; the answer is 204 regardless. *)
(*                                                                         *)
(* A request keeps the instant at which it came.  A new session is named   *)
(* after the request that opened it.                                       *)
(***************************************************************************)
EXTENDS Clock, Integers, Sequences, FiniteSets

CONSTANTS
  Visitors,            \* values of the cookie
  MaxRequests,         \* bound: requests
  RequestTime,         \* bound: how long a request may take
  MaxAtOnce,           \* bound: requests in progress
  SessionIdle, SessionMaxDuration, DayLength, RawRetention,
  Periods,             \* the lengths of a report
  Nobody               \* no visitor, no event

ASSUME WindowsAreOrdered ==
  /\ {SessionIdle, SessionMaxDuration, DayLength, RawRetention, RequestTime} \subseteq Nat \ {0}
  /\ SessionIdle <= SessionMaxDuration /\ SessionMaxDuration <= DayLength
  /\ 2 * (DayLength - 1) + RequestTime <= RawRetention
ASSUME PeriodsAreDays == \A p \in Periods : p \in Nat \ {0} /\ p % DayLength = 0
ASSUME MaxRequestsIsNatural == MaxRequests \in Nat
ASSUME NobodyIsNoValue == Nobody \notin Visitors \cup Nat

VARIABLES
  visits,     \* requests, in the order in which they came
  events,     \* telemetry_events: requests whose row is there
  written,    \* history: requests whose row was inserted
  usage,      \* daily_usage_agg, with the counts of the daily_match_agg and daily_mood_agg
  overlapped  \* history: visitors that had two requests in progress

telemetry == <<visits, events, written, usage, overlapped>>

Requests == 1..MaxRequests
DayOf(t) == t \div DayLength
Days == {DayOf(t) : t \in Times}
Kinds == {"page_view", "match_result", "mood_feedback"}
Ended == {"done", "failed"}
Request == [kind : Kinds, visitor : Visitors \cup {Nobody}, at : Times,
            pc : {"today", "last", "start", "insert", "count", "purge"} \cup Ended,
            first : BOOLEAN, last : Requests \cup {Nobody},
            session : Requests \cup {Nobody}, returning : BOOLEAN]
Counts == {"visitors", "sessions", "returning", "views", "matches", "moods"}

(* Mood events carry neither visitor nor session, the others both.          *)
TelemetryTypeOK ==
  /\ visits \in Seq(Request) /\ Len(visits) <= MaxRequests
  /\ events \subseteq written /\ written \subseteq DOMAIN visits
  /\ \A r \in written : LET anonymous == visits[r].kind = "mood_feedback" IN
       (visits[r].visitor = Nobody) = anonymous /\ (visits[r].session = Nobody) = anonymous
  /\ usage \in [Days -> [Counts -> Nat]]
  /\ \A d \in Days : usage[d]["returning"] <= usage[d]["sessions"]
  /\ overlapped \subseteq Visitors

TelemetryInit ==
  /\ visits = <<>> /\ events = {} /\ written = {} /\ overlapped = {}
  /\ usage = [d \in Days |-> [c \in Counts |-> 0]]

-----------------------------------------------------------------------------
(* The steps of a request.                                                  *)

InProgress(r) == visits[r].pc \notin Ended
Becomes(r, visit) == visits' = [visits EXCEPT ![r] = visit]

(* POST telemetry, on an active site.  A mood is never tied to a visitor.   *)
Arrive(kind, v) ==
  /\ Len(visits) < MaxRequests
  /\ Cardinality({r \in DOMAIN visits : InProgress(r)}) < MaxAtOnce
  /\ (v = Nobody) = (kind = "mood_feedback")
  /\ visits' = Append(visits,
       [kind |-> kind, visitor |-> v, at |-> now,
        pc |-> CASE kind = "page_view" -> "today" [] kind = "match_result" -> "last"
                 [] OTHER -> "insert",
        first |-> FALSE, last |-> Nobody, session |-> Nobody, returning |-> FALSE])
  /\ overlapped' = overlapped \cup
       {w \in Visitors : w = v /\ \E r \in DOMAIN visits : visits[r].visitor = v /\ InProgress(r)}
  /\ UNCHANGED <<events, written, usage>>

EventsOf(v) == {r \in events : visits[r].visitor = v}

FirstInSession(visit) ==   \* mutant of FirstToday: a visitor for each session
  visit.session = Nobody /\
  \A r \in EventsOf(visit.visitor) : visits[r].at + SessionIdle <= visit.at
FirstToday(visit) == \A r \in EventsOf(visit.visitor) : DayOf(visits[r].at) # DayOf(visit.at)
LookToday(r) ==
  /\ visits[r].pc = "today"
  /\ Becomes(r, [visits[r] EXCEPT !.first = FirstToday(visits[r]), !.pc = "last"])
  /\ UNCHANGED <<events, written, usage, overlapped>>

(* order by occurred_at desc limit 1                                        *)
LastEvents(v) == {r \in EventsOf(v) : \A q \in EventsOf(v) : visits[q].at <= visits[r].at}
LastEvent(r) ==
  /\ visits[r].pc = "last"
  /\ \/ /\ LastEvents(visits[r].visitor) = {}
        /\ Becomes(r, [visits[r] EXCEPT !.session = r, !.pc = "insert"])
     \/ \E q \in LastEvents(visits[r].visitor) :
          Becomes(r, [visits[r] EXCEPT !.last = q, !.pc = "start"])
  /\ UNCHANGED <<events, written, usage, overlapped>>

NotIdle(visit) == visit.at - visits[visit.last].at < SessionIdle
Lasting(visit) == NotIdle(visit)   \* mutant of StillOpen: a session without end
(* The session may have been purged since; its start is then the epoch.     *)
StillOpen(visit) ==
  LET session == {q \in events : visits[q].session = visits[visit.last].session} IN
  /\ NotIdle(visit)
  /\ session # {} /\ \A q \in session : visit.at - visits[q].at < SessionMaxDuration
SessionStart(r) ==
  LET visit == visits[r]
      settled == [visit EXCEPT !.last = Nobody, !.pc = "insert"]
  IN
  /\ visit.pc = "start"
  /\ Becomes(r, IF StillOpen(visit)
             THEN [settled EXCEPT !.session = visits[visit.last].session]
             ELSE [settled EXCEPT !.session = r, !.returning = TRUE])
  /\ UNCHANGED <<events, written, usage, overlapped>>

InsertEvent(r) ==
  /\ visits[r].pc = "insert"
  /\ events' = events \cup {r} /\ written' = written \cup {r}
  /\ Becomes(r, [visits[r] EXCEPT !.pc = "count"])
  /\ UNCHANGED <<usage, overlapped>>

(* What a request adds to each count of its day: the upsert adds in the     *)
(* database, so that concurrent ones add up.  A match adds to no visitor    *)
(* and no session, even when it opened one.                                 *)
One(b) == IF b THEN 1 ELSE 0
Adds(r) ==
  LET visit == visits[r]
      viewed == visit.kind = "page_view"
  IN [visitors  |-> One(viewed /\ visit.first),
      sessions  |-> One(viewed /\ visit.session = r),
      returning |-> One(viewed /\ visit.session = r /\ visit.returning),
      views     |-> One(viewed),
      matches   |-> One(visit.kind = "match_result"),
      moods     |-> One(visit.kind = "mood_feedback")]
(* Mutant of Count: the day of the upsert, not the one of the request.      *)
CountToday(r) ==
  /\ visits[r].pc = "count"
  /\ usage' = [usage EXCEPT ![DayOf(now)] = [c \in Counts |-> @[c] + Adds(r)[c]]]
  /\ Becomes(r, [visits[r] EXCEPT !.pc = "purge"])
  /\ UNCHANGED <<events, written, overlapped>>
Count(r) ==
  /\ visits[r].pc = "count"
  /\ usage' = [usage EXCEPT ![DayOf(visits[r].at)] = [c \in Counts |-> @[c] + Adds(r)[c]]]
  /\ Becomes(r, [visits[r] EXCEPT !.pc = "purge"])
  /\ UNCHANGED <<events, written, overlapped>>

(* Two times in a hundred; the retention runner removes the same.           *)
Aged(t) == {r \in events : visits[r].at < t - RawRetention}
Answered(r, pc) == [visits[r] EXCEPT !.pc = pc, !.first = FALSE, !.last = Nobody, !.returning = FALSE,
                      !.session = IF r \in written THEN @ ELSE Nobody]
MaybePurge(r) ==
  /\ visits[r].pc = "purge"
  /\ events' \in {events, events \ Aged(now)}
  /\ Becomes(r, Answered(r, "done"))
  /\ UNCHANGED <<written, usage, overlapped>>

(* Errors are swallowed, what was written stays: an event without its       *)
(* counts.  (After the counts, that is a request that did not purge.)       *)
FailRequest(r) ==
  /\ InProgress(r) /\ visits[r].pc # "purge"
  /\ Becomes(r, Answered(r, "failed"))
  /\ UNCHANGED <<events, written, usage, overlapped>>

TelemetryNext ==
  \/ \E kind \in Kinds, v \in Visitors \cup {Nobody} : Arrive(kind, v)
  \/ \E r \in DOMAIN visits :
       \/ LookToday(r) \/ LastEvent(r) \/ SessionStart(r) \/ InsertEvent(r) \/ Count(r)
       \/ MaybePurge(r) \/ FailRequest(r)

(* Time stands still when a request would become older than the bound.      *)
RequestsAreShort ==
  \A r \in DOMAIN visits : InProgress(r) => now < visits[r].at + RequestTime

-----------------------------------------------------------------------------
(* The reports: a period ends now, the one it is compared with ends where   *)
(* the period begins.                                                       *)

Windows == UNION {{<<now - p, now>>, <<now - 2 * p, now - p>>} : p \in Periods}

LastDayLeftOut(t) == DayOf(t)   \* mutant of UpperDay: toDateString of both ends
UpperDay(t) == DayOf(t + DayLength)
DaysOfReport(from, to) == {d \in Days : DayOf(from) <= d /\ d < UpperDay(to)}
(* getUsageTotals: the sum over the days, as the size of a disjoint union.  *)
Total(count, from, to) ==
  Cardinality(UNION {{d} \X (1..usage[d][count]) : d \in DaysOfReport(from, to)})

AlwaysExact(from) == TRUE   \* mutant of Exact: the clamped period passes for the one asked for
Exact(from) == from >= now - RawRetention
VisitorsOf(rows, from, to) ==
  {visits[r].visitor : r \in {q \in rows : from <= visits[q].at /\ visits[q].at < to}} \ {Nobody}
(* countUniqueVisitors.  Below the window the query is clamped: there are   *)
(* rows from before the window only until the next purge.                   *)
UniqueVisitors(from, to) ==
  Cardinality(VisitorsOf(events, IF from >= now - RawRetention THEN from ELSE now - RawRetention, to))

-----------------------------------------------------------------------------
(* Nothing is half-done: no request in progress or failed, and no visitor   *)
(* that ever overlapped himself.                                            *)
Calm == overlapped = {} /\ \A r \in DOMAIN visits : visits[r].pc = "done"

InSession(s) == {r \in written : visits[r].session = s}
(* A session lasts less than its longest duration, knows no pause as long   *)
(* as the idle time, and ends before the visitor's next one begins: unless  *)
(* two requests of the visitor ran at once.                                 *)
SessionsWithinLimits == \A r \in written :
  LET v == visits[r].visitor
      s == visits[r].session
  IN v \notin overlapped \cup {Nobody} =>
       /\ \A q \in InSession(s) : visits[r].at - visits[q].at < SessionMaxDuration
       /\ r = s \/ \E q \in InSession(s) : q < r /\ visits[r].at - visits[q].at < SessionIdle
       /\ \A q \in written : q < r /\ visits[q].visitor = v /\ visits[q].session # s => q < s

Written(d, kind) == {r \in written : DayOf(visits[r].at) = d /\ visits[r].kind = kind}
ComesBack(r, window) ==
  /\ visits[r].session = r
  /\ \E q \in written : q < r /\ visits[q].visitor = visits[r].visitor
                        /\ visits[r].at - visits[q].at <= window
(* The rows of a day say what the events of the day say, even after these   *)
(* are purged: views, matches and moods are all counted; sessions are those *)
(* that a page view opened, returning if its visitor was there before, as   *)
(* far as anybody remembers.  (One that a match opened is in no count.)     *)
UsageMatchesEvents == Calm => \A d \in Days :
  LET views == Written(d, "page_view") IN
  /\ usage[d]["views"] = Cardinality(views)
  /\ usage[d]["matches"] = Cardinality(Written(d, "match_result"))
  /\ usage[d]["moods"] = Cardinality(Written(d, "mood_feedback"))
  /\ usage[d]["sessions"] = Cardinality({r \in views : visits[r].session = r})
  /\ Cardinality({r \in views : ComesBack(r, RawRetention - RequestTime)}) <= usage[d]["returning"]
  /\ Cardinality({r \in views : ComesBack(r, MaxTime)}) >= usage[d]["returning"]

(* The number of visitors of a day counts nobody twice, and leaves nobody   *)
(* out who saw a page and had no match that day.  More cannot be said: a    *)
(* visitor whose first event of the day is a match is in no count, although *)
(* the migration calls the number the pseudonyms active that day.           *)
NoVisitorCountedTwice == Calm => \A d \in Days :
  LET Seen(kind) == {visits[r].visitor : r \in Written(d, kind)} IN
  /\ usage[d]["visitors"] <= Cardinality(Seen("page_view"))
  /\ usage[d]["visitors"] >= Cardinality(Seen("page_view") \ Seen("match_result"))

(* A number of visitors that is said to be exact is that of all who came in *)
(* the period, purges notwithstanding.                                      *)
ExactMeansExact == \A w \in Windows :
  Exact(w[1]) => UniqueVisitors(w[1], w[2]) = Cardinality(VisitorsOf(written, w[1], w[2]))

(* The total of a period leaves out none of its views, today's included,    *)
(* and has none of a day outside the period.                                *)
ReportsCountEveryView == Calm => \A w \in Windows :
  LET views == {r \in written : visits[r].kind = "page_view"} IN
  /\ Total("views", w[1], w[2]) >=
       Cardinality({r \in views : w[1] <= visits[r].at /\ visits[r].at <= w[2]})
  /\ Total("views", w[1], w[2]) <=
       Cardinality({r \in views : DayOf(visits[r].at) \in DayOf(w[1])..DayOf(w[2])})

(* The comment before toExclusiveUpperDateString: nothing is counted twice  *)
(* at the boundary between a period and the one it is compared with, so the *)
(* two never count more views than there were.                              *)
NothingCountedTwice == Calm => \A p \in Periods :
  Total("views", now - p, now) + Total("views", now - 2 * p, now - p) <=
    Cardinality({r \in written : visits[r].kind = "page_view"})
=============================================================================
