---------------------------- MODULE TelemetryProofs ----------------------------
(***************************************************************************)
(* Proofs about Telemetry, for any number of visitors and requests.        *)
(***************************************************************************)
EXTENDS Telemetry, FiniteSetTheorems, SequenceTheorems, WellFoundedInduction, TLAPS

-----------------------------------------------------------------------------
(* The inductive invariant.                                                 *)

(* A request knows what it has read, and keeps what it has written: its     *)
(* place is its program counter, its session is its own or one that is      *)
(* written, of the same visitor.                                            *)
Placed(r) == LET v == visits[r] IN
  /\ v.at <= now /\ (InProgress(r) => now <= v.at + RequestTime)
  /\ (v.visitor = Nobody) = (v.kind = "mood_feedback")
  /\ r \in written => v.pc \in {"count", "purge"} \cup Ended
  /\ v.pc \in {"count", "purge", "done"} => r \in written
  /\ v.pc \in {"today", "last", "start"} => v.kind # "mood_feedback" /\ v.session = Nobody
  /\ v.pc = "today" => v.kind = "page_view"
  /\ v.pc = "insert" \/ r \in written => (v.session = Nobody) = (v.kind = "mood_feedback")
  /\ v.pc = "start" => v.last \in written \ {r} /\ visits[v.last].visitor = v.visitor
  /\ v.session # Nobody =>
       v.session = r \/ (v.session \in written /\ visits[v.session].visitor = v.visitor)
  /\ v.session # Nobody => v.pc = "insert" \/ r \in written

(* Requests are numbered as they come, and rows are purged by their age.    *)
InOrder ==
  /\ \A q, r \in DOMAIN visits : q <= r => visits[q].at <= visits[r].at
  /\ \A r \in written \ events : visits[r].at + RawRetention < now
  /\ \A q \in events, r \in written \ events : visits[r].at < visits[q].at

TelemetryInv ==
  /\ now \in Times /\ TelemetryTypeOK
  /\ \A r \in DOMAIN visits : Placed(r)
  /\ InOrder

(* A visitor who never had two requests at once: all but his last one have  *)
(* ended.                                                                   *)
Lone(r) == visits[r].visitor \notin overlapped \cup {Nobody}
Of(q, r) == visits[q].visitor = visits[r].visitor
OneAtATime == \A q, r \in DOMAIN visits : Lone(r) /\ Of(q, r) /\ q < r => ~InProgress(q)

(* The session of a request is within its limits: what SessionsWithinLimits *)
(* says of rows that are written, of one that is about to be as well.       *)
Fits(r) == LET s == visits[r].session IN
  /\ s <= r
  /\ \A q \in InSession(s) : visits[r].at - visits[q].at < SessionMaxDuration
  /\ r = s \/ \E q \in InSession(s) : q < r /\ visits[r].at - visits[q].at < SessionIdle
  /\ \A q \in written : q < r /\ Of(q, r) /\ visits[q].session # s => q < s
(* Rows of one instant share their session.                                 *)
SameInstant(r) == \A q \in written : Of(q, r) /\ visits[q].at = visits[r].at =>
                    visits[q].session = visits[r].session
SessionInv ==
  /\ OneAtATime
  /\ \A r \in DOMAIN visits : Lone(r) /\ (r \in written \/ visits[r].pc = "insert") =>
       Fits(r) /\ SameInstant(r)
  /\ \A r \in DOMAIN visits : Lone(r) /\ visits[r].pc = "start" =>
       \A q \in written : Of(q, r) => visits[q].at <= visits[visits[r].last].at

(* What is counted, as long as nothing was done by halves.                  *)
Orderly == overlapped = {} /\ \A r \in DOMAIN visits : visits[r].pc # "failed"
Counted(d, kind) == {r \in DOMAIN visits : /\ visits[r].pc \in {"purge", "done"}
                                           /\ DayOf(visits[r].at) = d /\ visits[r].kind = kind}
FirstOfDay(r) == \A q \in written : Of(q, r) /\ DayOf(visits[q].at) = DayOf(visits[r].at) => r <= q
Opening(d) == {r \in Counted(d, "page_view") : visits[r].session = r}
FirstVisitors(d) == {visits[r].visitor : r \in {q \in Counted(d, "page_view") : FirstOfDay(q)}}
Returning(d, window) == {r \in Counted(d, "page_view") : ComesBack(r, window)}
Remembered == RawRetention - RequestTime
CountInv ==
  /\ \A d \in Days :
       /\ usage[d]["views"] = Cardinality(Counted(d, "page_view"))
       /\ usage[d]["matches"] = Cardinality(Counted(d, "match_result"))
       /\ usage[d]["moods"] = Cardinality(Counted(d, "mood_feedback"))
       /\ usage[d]["sessions"] = Cardinality(Opening(d))
  /\ Orderly => \A d \in Days :
       /\ usage[d]["visitors"] = Cardinality(FirstVisitors(d))
       /\ Cardinality(Returning(d, Remembered)) <= usage[d]["returning"]
       /\ usage[d]["returning"] <= Cardinality(Returning(d, MaxTime))
(* What a request in progress has found out is still so.                    *)
OthersOfDay(r) == {q \in written \ {r} : Of(q, r) /\ DayOf(visits[q].at) = DayOf(visits[r].at)}
Found(r) == visits[r].kind = "page_view" =>
  /\ visits[r].pc \in {"today", "last", "start"} => ~visits[r].returning
  /\ visits[r].pc \in {"last", "start", "insert", "count"} => (visits[r].first <=> OthersOfDay(r) = {})
  /\ visits[r].pc \in {"insert", "count"} /\ visits[r].session = r =>
       /\ ComesBack(r, Remembered) => visits[r].returning
       /\ visits[r].returning => ComesBack(r, MaxTime)
FoundOut == Orderly => \A r \in DOMAIN visits : Found(r)

-----------------------------------------------------------------------------
(* How a step changes the requests.                                         *)

LEMMA RequestFields ==
  ASSUME NEW v \in Request
  PROVE  /\ v.kind \in Kinds /\ v.visitor \in Visitors \cup {Nobody} /\ v.at \in Times /\ v.at \in Nat
         /\ v.pc \in {"today", "last", "start", "insert", "count", "purge", "done", "failed"}
         /\ v.first \in BOOLEAN /\ v.last \in Requests \cup {Nobody}
         /\ v.session \in Requests \cup {Nobody} /\ v.returning \in BOOLEAN
BY MaxTimeIsNatural DEF Request, Ended, Times

LEMMA Windows2 ==
  /\ SessionIdle \in Nat \ {0} /\ SessionMaxDuration \in Nat \ {0} /\ DayLength \in Nat \ {0}
  /\ RawRetention \in Nat \ {0} /\ RequestTime \in Nat \ {0}
  /\ SessionIdle <= SessionMaxDuration /\ SessionMaxDuration <= DayLength
  /\ 2 * (DayLength - 1) + RequestTime <= RawRetention
  /\ RequestTime <= RawRetention /\ DayLength <= RawRetention
<1>1. /\ SessionIdle \in Nat \ {0} /\ SessionMaxDuration \in Nat \ {0} /\ DayLength \in Nat \ {0}
      /\ RawRetention \in Nat \ {0} /\ RequestTime \in Nat \ {0}
  BY WindowsAreOrdered
<1> QED BY <1>1, WindowsAreOrdered

LEMMA Visits ==
  ASSUME TelemetryTypeOK
  PROVE  /\ DOMAIN visits = 1..Len(visits) /\ Len(visits) \in Nat /\ Len(visits) <= MaxRequests
         /\ DOMAIN visits \subseteq Requests /\ Nobody \notin Requests /\ Nobody \notin Visitors
         /\ \A r \in DOMAIN visits : visits[r] \in Request
<1>1. visits \in Seq(Request) /\ Len(visits) <= MaxRequests
  BY DEF TelemetryTypeOK
<1>2. DOMAIN visits = 1..Len(visits) /\ Len(visits) \in Nat
      /\ \A r \in DOMAIN visits : visits[r] \in Request
  BY <1>1
<1>3. DOMAIN visits \subseteq Requests
  BY <1>1, <1>2, MaxRequestsIsNatural DEF Requests
<1> QED BY <1>1, <1>2, <1>3, NobodyIsNoValue, MaxRequestsIsNatural DEF Requests

LEMMA BecomesFacts ==
  ASSUME TelemetryTypeOK, NEW r \in DOMAIN visits, NEW v \in Request, Becomes(r, v)
  PROVE  /\ visits' \in Seq(Request) /\ Len(visits') = Len(visits) /\ DOMAIN visits' = DOMAIN visits
         /\ visits'[r] = v /\ \A q \in DOMAIN visits : q # r => visits'[q] = visits[q]
<1>1. visits \in Seq(Request)
  BY DEF TelemetryTypeOK
<1>2. visits' = [visits EXCEPT ![r] = v]
  BY DEF Becomes
<1> QED BY <1>1, <1>2, ExceptSeq

LEMMA AppendFacts ==
  ASSUME TelemetryTypeOK, NEW v \in Request, visits' = Append(visits, v), Len(visits) < MaxRequests
  PROVE  /\ visits' \in Seq(Request) /\ Len(visits') = Len(visits) + 1 /\ Len(visits') <= MaxRequests
         /\ DOMAIN visits' = DOMAIN visits \cup {Len(visits) + 1}
         /\ Len(visits) + 1 \notin DOMAIN visits
         /\ visits'[Len(visits) + 1] = v /\ \A q \in DOMAIN visits : visits'[q] = visits[q]
<1>1. visits \in Seq(Request)
  BY DEF TelemetryTypeOK
<1>2. visits' \in Seq(Request) /\ Len(visits') = Len(visits) + 1
      /\ visits'[Len(visits) + 1] = v /\ \A q \in 1..Len(visits) : visits'[q] = visits[q]
  BY <1>1, AppendProperties
<1>3. DOMAIN visits = 1..Len(visits) /\ DOMAIN visits' = 1..Len(visits') /\ Len(visits) \in Nat
  BY <1>1, <1>2
<1>4. DOMAIN visits' = DOMAIN visits \cup {Len(visits) + 1} /\ Len(visits) + 1 \notin DOMAIN visits
  BY <1>2, <1>3
<1> QED BY <1>2, <1>3, <1>4, MaxRequestsIsNatural

(* A request goes on: it keeps its kind, its visitor and its instant.       *)
Keeps(q) == visits'[q].kind = visits[q].kind /\ visits'[q].visitor = visits[q].visitor
            /\ visits'[q].at = visits[q].at
GoesOn(r, v) ==
  /\ Becomes(r, v) /\ v \in Request
  /\ v.kind = visits[r].kind /\ v.visitor = visits[r].visitor /\ v.at = visits[r].at

LEMMA GoesOnFacts ==
  ASSUME TelemetryTypeOK, NEW r \in DOMAIN visits, NEW v, GoesOn(r, v)
  PROVE  /\ visits' \in Seq(Request) /\ Len(visits') = Len(visits) /\ DOMAIN visits' = DOMAIN visits
         /\ visits'[r] = v /\ (\A q \in DOMAIN visits : q # r => visits'[q] = visits[q])
         /\ \A q \in DOMAIN visits : Keeps(q)
BY BecomesFacts DEF GoesOn, Keeps

(* The other requests keep their place.                                     *)
LEMMA OthersPlaced ==
  ASSUME TelemetryInv, NEW r \in DOMAIN visits, NEW v, GoesOn(r, v), now' = now,
         written' \in {written, written \cup {r}},
         NEW q \in DOMAIN visits, q # r
  PROVE  Placed(q)'
<1>1. Placed(q) /\ TelemetryTypeOK /\ written \subseteq DOMAIN visits
  BY DEF TelemetryInv, TelemetryTypeOK
<1>2. visits'[q] = visits[q] /\ \A p \in DOMAIN visits : visits'[p].visitor = visits[p].visitor
  BY <1>1, GoesOnFacts DEF Keeps
<1>3. q \in written' <=> q \in written
  OBVIOUS
<1>4. \A p \in written : p \in written' /\ visits'[p].visitor = visits[p].visitor
  BY <1>1, <1>2
<1> QED
  BY <1>1, <1>2, <1>3, <1>4 DEF Placed, InProgress

LEMMA AllPlaced ==
  ASSUME TelemetryInv, NEW r \in DOMAIN visits, NEW v, GoesOn(r, v), now' = now,
         written' \in {written, written \cup {r}}, Placed(r)'
  PROVE  \A q \in DOMAIN visits' : Placed(q)'
BY OthersPlaced, GoesOnFacts DEF TelemetryInv

(* A step of a request that leaves the rows and the counts alone.           *)
LEMMA QuietStep ==
  ASSUME TelemetryInv, NEW r \in DOMAIN visits, NEW v, GoesOn(r, v),
         UNCHANGED <<now, events, written, usage, overlapped>>, Placed(r)'
  PROVE  TelemetryInv'
<1>1. /\ now \in Times /\ TelemetryTypeOK /\ InOrder
  BY DEF TelemetryInv
<1>2. \A q \in DOMAIN visits' : Placed(q)'
  BY AllPlaced
<1>3. /\ visits' \in Seq(Request) /\ Len(visits') = Len(visits) /\ DOMAIN visits' = DOMAIN visits
      /\ \A q \in DOMAIN visits : Keeps(q)
  BY <1>1, GoesOnFacts
<1>4. TelemetryTypeOK'
  <2>1. \A q \in written' :
          LET anonymous == visits'[q].kind = "mood_feedback" IN
          (visits'[q].visitor = Nobody) = anonymous /\ (visits'[q].session = Nobody) = anonymous
    BY <1>1, <1>2, <1>3 DEF Placed, TelemetryTypeOK
  <2> QED BY <1>1, <1>3, <2>1 DEF TelemetryTypeOK
<1>5. InOrder'
  <2>1. written \subseteq DOMAIN visits /\ events \subseteq written
    BY <1>1 DEF TelemetryTypeOK
  <2> QED BY <1>1, <1>3, <2>1 DEF InOrder, Keeps
<1> QED BY <1>1, <1>2, <1>4, <1>5 DEF TelemetryInv

LEMMA InvLookToday ==
  ASSUME TelemetryInv, NEW r \in DOMAIN visits, LookToday(r), now' = now
  PROVE  /\ GoesOn(r, [visits[r] EXCEPT !.first = FirstToday(visits[r]), !.pc = "last"])
         /\ TelemetryInv'
<1> DEFINE v == [visits[r] EXCEPT !.first = FirstToday(visits[r]), !.pc = "last"]
<1>1. TelemetryTypeOK /\ Placed(r) /\ visits[r] \in Request /\ visits[r].pc = "today"
  BY Visits DEF TelemetryInv, LookToday
<1>2. v \in Request
  BY <1>1 DEF Request, FirstToday
<1>3. GoesOn(r, v)
  BY <1>1, <1>2 DEF GoesOn, LookToday, Request
<1>4. visits'[r] = v /\ UNCHANGED <<now, events, written, usage, overlapped>>
  BY <1>1, <1>3, GoesOnFacts DEF LookToday
<1>5. v.pc = "last" /\ v.session = visits[r].session
  BY <1>1 DEF Request
<1>6. Placed(r)'
  BY <1>1, <1>3, <1>4, <1>5 DEF Placed, InProgress, Ended, GoesOn
<1> QED BY <1>3, <1>4, <1>6, QuietStep

LEMMA EventsOfFacts ==
  ASSUME TelemetryInv, NEW w, NEW q \in EventsOf(w)
  PROVE  q \in DOMAIN visits /\ q \in written /\ visits[q].visitor = w
BY DEF EventsOf, TelemetryInv, TelemetryTypeOK

LEMMA InvLastEvent ==
  ASSUME TelemetryInv, NEW r \in DOMAIN visits, LastEvent(r), now' = now
  PROVE  /\ \E v \in Request : /\ GoesOn(r, v) /\ v.first = visits[r].first /\ v.returning = visits[r].returning
                               /\ \/ /\ LastEvents(visits[r].visitor) = {}
                                     /\ v.session = r /\ v.pc = "insert"
                                  \/ /\ v.last \in LastEvents(visits[r].visitor)
                                     /\ v.pc = "start" /\ v.session = Nobody
         /\ TelemetryInv'
<1>1. TelemetryTypeOK /\ Placed(r) /\ visits[r] \in Request /\ visits[r].pc = "last" /\ r \in Requests
      /\ r # Nobody
  BY Visits DEF TelemetryInv, LastEvent
<1>2. visits[r].kind # "mood_feedback" /\ visits[r].visitor # Nobody /\ visits[r].session = Nobody
      /\ r \notin written
  BY <1>1 DEF Placed, Ended
<1>3. CASE LastEvents(visits[r].visitor) = {} /\ Becomes(r, [visits[r] EXCEPT !.session = r, !.pc = "insert"])
  <2> DEFINE v == [visits[r] EXCEPT !.session = r, !.pc = "insert"]
  <2>1. v \in Request /\ v.session = r /\ v.pc = "insert" /\ v.first = visits[r].first /\ v.returning = visits[r].returning
    BY <1>1 DEF Request
  <2>2. GoesOn(r, v)
    BY <1>1, <1>3, <2>1 DEF GoesOn, Request
  <2>3. visits'[r] = v /\ UNCHANGED <<now, events, written, usage, overlapped>>
    BY <1>1, <2>2, GoesOnFacts DEF LastEvent
  <2>4. Placed(r)'
    BY <1>1, <1>2, <2>1, <2>2, <2>3 DEF Placed, InProgress, Ended, GoesOn
  <2> HIDE DEF v
  <2> QED BY <1>3, <2>1, <2>2, <2>3, <2>4, QuietStep
<1>4. ASSUME NEW q \in LastEvents(visits[r].visitor), Becomes(r, [visits[r] EXCEPT !.last = q, !.pc = "start"])
      PROVE  /\ \E v \in Request : /\ GoesOn(r, v) /\ v.first = visits[r].first /\ v.returning = visits[r].returning
                               /\ \/ /\ LastEvents(visits[r].visitor) = {}
                                     /\ v.session = r /\ v.pc = "insert"
                                  \/ /\ v.last \in LastEvents(visits[r].visitor)
                                     /\ v.pc = "start" /\ v.session = Nobody
             /\ TelemetryInv'
  <2> DEFINE v == [visits[r] EXCEPT !.last = q, !.pc = "start"]
  <2>0. q \in DOMAIN visits /\ q \in written /\ visits[q].visitor = visits[r].visitor /\ q \in Requests
    BY <1>1, EventsOfFacts, Visits DEF LastEvents
  <2>1. v \in Request /\ v.session = Nobody /\ v.pc = "start" /\ v.last = q /\ v.first = visits[r].first
        /\ v.returning = visits[r].returning
    BY <1>1, <1>2, <2>0 DEF Request
  <2>2. GoesOn(r, v)
    BY <1>1, <1>4, <2>1 DEF GoesOn, Request
  <2>3. visits'[r] = v /\ UNCHANGED <<now, events, written, usage, overlapped>> /\ visits'[q] = visits[q]
    BY <1>1, <1>2, <2>0, <2>2, GoesOnFacts DEF LastEvent
  <2>4. Placed(r)'
    BY <1>1, <1>2, <2>0, <2>1, <2>2, <2>3 DEF Placed, InProgress, Ended, GoesOn
  <2> HIDE DEF v
  <2> QED BY <1>4, <2>1, <2>2, <2>3, <2>4, QuietStep
<1> QED BY <1>3, <1>4 DEF LastEvent

LEMMA InvSessionStart ==
  ASSUME TelemetryInv, NEW r \in DOMAIN visits, SessionStart(r), now' = now
  PROVE  /\ \E v \in Request : /\ GoesOn(r, v) /\ v.pc = "insert" /\ v.first = visits[r].first
                               /\ \/ /\ StillOpen(visits[r]) /\ v.session = visits[visits[r].last].session
                                     /\ v.returning = visits[r].returning
                                  \/ ~StillOpen(visits[r]) /\ v.session = r /\ v.returning = TRUE
         /\ TelemetryInv'
<1>1. TelemetryTypeOK /\ Placed(r) /\ visits[r] \in Request /\ visits[r].pc = "start" /\ r \in Requests
      /\ r # Nobody
  BY Visits DEF TelemetryInv, SessionStart
<1> DEFINE l == visits[r].last
           settled == [visits[r] EXCEPT !.last = Nobody, !.pc = "insert"]
<1>2. visits[r].kind # "mood_feedback" /\ visits[r].visitor # Nobody /\ visits[r].session = Nobody
      /\ r \notin written /\ l \in written \ {r} /\ visits[l].visitor = visits[r].visitor
  BY <1>1 DEF Placed, Ended
<1>3. l \in DOMAIN visits /\ Placed(l) /\ visits[l] \in Request
  BY <1>1, <1>2, Visits DEF TelemetryInv, TelemetryTypeOK
<1>4. visits[l].session # Nobody /\ visits[l].session \in Requests
      /\ visits[l].session \in written /\ visits[visits[l].session].visitor = visits[r].visitor
  BY <1>2, <1>3 DEF Placed, Request
<1>5. settled \in Request
  BY <1>1 DEF Request
<1>6. CASE StillOpen(visits[r])
  <2> DEFINE v == [settled EXCEPT !.session = visits[l].session]
  <2>1. v \in Request /\ v.session = visits[l].session /\ v.pc = "insert" /\ v.first = visits[r].first
        /\ v.returning = visits[r].returning /\ v.kind = visits[r].kind /\ v.visitor = visits[r].visitor /\ v.at = visits[r].at
    BY <1>1, <1>4 DEF Request
  <2>2. GoesOn(r, v)
    BY <1>6, <2>1 DEF GoesOn, SessionStart
  <2>3. visits'[r] = v /\ UNCHANGED <<now, events, written, usage, overlapped>>
        /\ visits'[visits[l].session].visitor = visits[r].visitor
    <3>1. visits[l].session \in DOMAIN visits
      BY <1>1, <1>4 DEF TelemetryTypeOK
    <3> QED BY <1>1, <1>4, <2>2, <3>1, GoesOnFacts DEF SessionStart, Keeps
  <2>4. Placed(r)'
    BY <1>1, <1>2, <1>4, <2>1, <2>2, <2>3 DEF Placed, InProgress, Ended, GoesOn
  <2> HIDE DEF v
  <2> QED BY <1>6, <2>1, <2>2, <2>3, <2>4, QuietStep
<1>7. CASE ~StillOpen(visits[r])
  <2> DEFINE v == [settled EXCEPT !.session = r, !.returning = TRUE]
  <2>1. v \in Request /\ v.session = r /\ v.pc = "insert" /\ v.first = visits[r].first
        /\ v.returning = TRUE /\ v.kind = visits[r].kind /\ v.visitor = visits[r].visitor /\ v.at = visits[r].at
    BY <1>1 DEF Request
  <2>2. GoesOn(r, v)
    BY <1>7, <2>1 DEF GoesOn, SessionStart
  <2>3. visits'[r] = v /\ UNCHANGED <<now, events, written, usage, overlapped>>
    BY <1>1, <2>2, GoesOnFacts DEF SessionStart
  <2>4. Placed(r)'
    BY <1>1, <1>2, <2>1, <2>2, <2>3 DEF Placed, InProgress, Ended, GoesOn
  <2> HIDE DEF v
  <2> QED BY <1>7, <2>1, <2>2, <2>3, <2>4, QuietStep
<1> QED BY <1>6, <1>7

(* A row is written while its request is young, hence after all that is     *)
(* purged.                                                                  *)
LEMMA InvInsertEvent ==
  ASSUME TelemetryInv, NEW r \in DOMAIN visits, InsertEvent(r), now' = now
  PROVE  /\ r \notin written
         /\ \E v \in Request : /\ GoesOn(r, v) /\ v.pc = "count" /\ v.first = visits[r].first
                               /\ v.session = visits[r].session /\ v.returning = visits[r].returning
         /\ TelemetryInv'
<1> DEFINE v == [visits[r] EXCEPT !.pc = "count"]
<1>1. TelemetryTypeOK /\ Placed(r) /\ visits[r] \in Request /\ visits[r].pc = "insert" /\ InOrder
      /\ now \in Times
  BY Visits DEF TelemetryInv, InsertEvent
<1>2. r \notin written /\ (visits[r].session = Nobody) = (visits[r].kind = "mood_feedback")
  BY <1>1 DEF Placed, Ended
<1>3. v \in Request /\ v.pc = "count" /\ v.session = visits[r].session /\ v.first = visits[r].first
      /\ v.returning = visits[r].returning
  BY <1>1 DEF Request
<1>4. GoesOn(r, v)
  BY <1>1, <1>3 DEF GoesOn, InsertEvent, Request
<1> HIDE DEF v
<1>5. /\ visits' \in Seq(Request) /\ Len(visits') = Len(visits) /\ DOMAIN visits' = DOMAIN visits
      /\ visits'[r] = v /\ (\A q \in DOMAIN visits : Keeps(q))
      /\ events' = events \cup {r} /\ written' = written \cup {r} /\ UNCHANGED <<now, usage, overlapped>>
  BY <1>1, <1>4, GoesOnFacts DEF InsertEvent
<1>6. Placed(r)'
  <2>1. \A s \in written : s \in written' /\ visits'[s].visitor = visits[s].visitor
    BY <1>1, <1>5 DEF TelemetryTypeOK, Keeps
  <2> QED BY <1>1, <1>2, <1>3, <1>4, <1>5, <2>1 DEF Placed, InProgress, Ended, GoesOn
<1>7. \A q \in DOMAIN visits' : Placed(q)'
  BY <1>4, <1>5, <1>6, AllPlaced
<1>8. TelemetryTypeOK'
  <2>1. events' \subseteq written' /\ written' \subseteq DOMAIN visits'
    BY <1>1, <1>5 DEF TelemetryTypeOK
  <2>2. \A q \in written' :
          LET anonymous == visits'[q].kind = "mood_feedback" IN
          (visits'[q].visitor = Nobody) = anonymous /\ (visits'[q].session = Nobody) = anonymous
    BY <1>7, <2>1 DEF Placed
  <2> QED BY <1>1, <1>5, <2>1, <2>2 DEF TelemetryTypeOK
<1>9. InOrder'
  <2>1. written \subseteq DOMAIN visits /\ events \subseteq written
    BY <1>1 DEF TelemetryTypeOK
  <2>2. \A q \in DOMAIN visits : visits[q].at \in Nat /\ visits'[q].at = visits[q].at
    BY <1>1, <1>5, Visits, RequestFields DEF Keeps
  <2>3. now <= visits[r].at + RequestTime
    BY <1>1 DEF Placed, InProgress, Ended
  <2>4. \A q, s \in DOMAIN visits' : q <= s => visits'[q].at <= visits'[s].at
    BY <1>1, <1>5, <2>2 DEF InOrder
  <2>5. \A s \in written' \ events' : s \in written \ events /\ visits'[s].at + RawRetention < now'
    BY <1>1, <1>5, <2>1, <2>2 DEF InOrder
  <2>6. \A s \in written \ events : visits[s].at < visits[r].at
    BY <1>1, <2>1, <2>2, <2>3, Windows2 DEF InOrder, Times
  <2>7. \A q \in events', s \in written' \ events' : visits'[s].at < visits'[q].at
    BY <1>1, <1>5, <2>1, <2>2, <2>5, <2>6 DEF InOrder
  <2> QED BY <2>4, <2>5, <2>7 DEF InOrder
<1> QED BY <1>1, <1>2, <1>3, <1>4, <1>5, <1>7, <1>8, <1>9 DEF TelemetryInv

(* The rows are removed by their age, as of now or of a moment before.      *)
LEMMA PurgeStep ==
  ASSUME TelemetryInv, NEW t \in 0..now, events' = events \ Aged(t) \/ events' = events,
         UNCHANGED <<now, written, usage, overlapped>>,
         visits' \in Seq(Request), Len(visits') = Len(visits), \A r \in DOMAIN visits : Keeps(r),
         \A r \in DOMAIN visits' : Placed(r)'
  PROVE  TelemetryInv'
<1>1. TelemetryTypeOK /\ InOrder /\ now \in Nat /\ DOMAIN visits' = DOMAIN visits /\ written \subseteq DOMAIN visits
  BY DEF TelemetryInv, Times, TelemetryTypeOK
<1>2. \A r \in DOMAIN visits : visits[r].at \in Nat /\ visits'[r].at = visits[r].at
  BY <1>1, Visits, RequestFields DEF Keeps
<1>3. \A r \in events \ events' : visits[r].at + RawRetention < t
  BY <1>1, <1>2, Windows2 DEF Aged, TelemetryTypeOK
<1>4. \A r \in events' : events' = events \/ visits[r].at + RawRetention >= t
  BY <1>1, <1>2, Windows2 DEF Aged, TelemetryTypeOK
<1>5. InOrder'
  <2>1. \A r \in written' \ events' : visits'[r].at + RawRetention < now'
    BY <1>1, <1>2, <1>3, Windows2 DEF InOrder
  <2>2. \A q \in events', r \in written' \ events' : visits'[r].at < visits'[q].at
    <3> SUFFICES ASSUME NEW q \in events', NEW r \in written \ events' PROVE visits[r].at < visits[q].at
      BY <1>1, <1>2 DEF TelemetryTypeOK
    <3>1. q \in events /\ q \in written
      BY <1>1 DEF TelemetryTypeOK
    <3>2. CASE r \in events
      BY <1>1, <1>2, <1>3, <1>4, <3>1, <3>2, Windows2
    <3> QED BY <1>1, <3>1, <3>2 DEF InOrder
  <2>3. \A q, r \in DOMAIN visits' : q <= r => visits'[q].at <= visits'[r].at
    BY <1>1, <1>2 DEF InOrder
  <2> QED BY <2>1, <2>2, <2>3 DEF InOrder
<1>6. TelemetryTypeOK'
  <2>1. \A q \in written' :
          LET anonymous == visits'[q].kind = "mood_feedback" IN
          (visits'[q].visitor = Nobody) = anonymous /\ (visits'[q].session = Nobody) = anonymous
    BY <1>1 DEF Placed
  <2> QED BY <1>1, <2>1 DEF TelemetryTypeOK
<1> QED BY <1>1, <1>5, <1>6 DEF TelemetryInv

LEMMA InvPurge ==
  ASSUME TelemetryInv, NEW t \in 0..now, events' = events \ Aged(t) \/ events' = events,
         UNCHANGED <<now, visits, written, usage, overlapped>>
  PROVE  TelemetryInv'
<1>1. \A r \in DOMAIN visits : Placed(r)'
  BY DEF TelemetryInv, Placed, InProgress
<1>2. visits' \in Seq(Request) /\ \A r \in DOMAIN visits : Keeps(r)
  BY DEF TelemetryInv, TelemetryTypeOK, Keeps
<1> QED BY <1>1, <1>2, PurgeStep

LEMMA InvMaybePurge ==
  ASSUME TelemetryInv, NEW r \in DOMAIN visits, MaybePurge(r), now' = now
  PROVE  /\ \E v \in Request : GoesOn(r, v) /\ v.pc = "done" /\ v.session = visits[r].session
         /\ TelemetryInv'
<1> DEFINE v == Answered(r, "done")
<1>1. TelemetryTypeOK /\ Placed(r) /\ visits[r] \in Request /\ visits[r].pc = "purge" /\ now \in 0..now
  BY Visits, MaxTimeIsNatural DEF TelemetryInv, MaybePurge, Times
<1>2. r \in written
  BY <1>1 DEF Placed
<1>3. v \in Request /\ v.pc = "done" /\ v.session = visits[r].session
  BY <1>1, <1>2 DEF Request, Answered, Ended
<1>4. GoesOn(r, v)
  BY <1>1, <1>3 DEF GoesOn, MaybePurge, Request, Answered
<1>5. visits'[r] = v /\ UNCHANGED <<now, written, usage, overlapped>> /\ \A q \in DOMAIN visits : Keeps(q)
  BY <1>1, <1>4, GoesOnFacts DEF MaybePurge
<1>6. events' = events \ Aged(now) \/ events' = events
  BY DEF MaybePurge
<1> HIDE DEF v
<1>7. Placed(r)'
  <2>1. v.session # Nobody => (v.session \in written' /\ visits'[v.session].visitor = v.visitor) \/ v.session = r
    BY <1>1, <1>3, <1>4, <1>5 DEF Placed, TelemetryTypeOK, Keeps, GoesOn
  <2>2. v.pc \in Ended
    BY <1>3 DEF Ended
  <2> QED BY <1>1, <1>2, <1>3, <1>4, <1>5, <2>1, <2>2 DEF Placed, InProgress, GoesOn
<1>8. \A q \in DOMAIN visits' : Placed(q)'
  BY <1>4, <1>5, <1>7, AllPlaced
<1> QED BY <1>1, <1>3, <1>4, <1>5, <1>6, <1>8, GoesOnFacts, PurgeStep

LEMMA InvFailRequest ==
  ASSUME TelemetryInv, NEW r \in DOMAIN visits, FailRequest(r), now' = now
  PROVE  /\ \E v \in Request : GoesOn(r, v) /\ v.pc = "failed" /\ (r \in written => v.session = visits[r].session)
         /\ TelemetryInv'
<1> DEFINE v == Answered(r, "failed")
<1>1. TelemetryTypeOK /\ Placed(r) /\ visits[r] \in Request /\ InProgress(r)
  BY Visits DEF TelemetryInv, FailRequest
<1>2. v \in Request /\ v.pc = "failed" /\ v.session = IF r \in written THEN visits[r].session ELSE Nobody
  BY <1>1 DEF Request, Answered, Ended
<1>3. GoesOn(r, v)
  BY <1>1, <1>2 DEF GoesOn, FailRequest, Request, Answered
<1>4. visits'[r] = v /\ UNCHANGED <<now, events, written, usage, overlapped>>
  BY <1>1, <1>3, GoesOnFacts DEF FailRequest
<1> HIDE DEF v
<1>5. Placed(r)'
  <2>1. v.session # Nobody => (v.session \in written' /\ visits'[v.session].visitor = v.visitor) \/ v.session = r
    BY <1>1, <1>2, <1>3, <1>4, GoesOnFacts DEF Placed, TelemetryTypeOK, Keeps, GoesOn
  <2>2. v.pc \in Ended
    BY <1>2 DEF Ended
  <2>3. visits[r].pc # "done"
    BY <1>1 DEF InProgress, Ended
  <2>4. r \in written => (v.session = Nobody) = (v.kind = "mood_feedback")
    BY <1>1, <1>2, <1>3 DEF Placed, GoesOn
  <2> QED BY <1>1, <1>2, <1>3, <1>4, <2>1, <2>2, <2>3, <2>4 DEF Placed, InProgress, GoesOn
<1> QED BY <1>2, <1>3, <1>4, <1>5, QuietStep

LEMMA AddsTypes ==
  ASSUME NEW r
  PROVE  /\ \A c \in Counts : Adds(r)[c] \in 0..1
         /\ Adds(r)["returning"] <= Adds(r)["sessions"]
BY DEF Adds, One, Counts

LEMMA UsageFacts ==
  ASSUME TelemetryTypeOK, NEW r \in DOMAIN visits,
         usage' = [usage EXCEPT ![DayOf(visits[r].at)] = [c \in Counts |-> @[c] + Adds(r)[c]]]
  PROVE  /\ DayOf(visits[r].at) \in Days
         /\ usage' \in [Days -> [Counts -> Nat]]
         /\ \A c \in Counts : usage'[DayOf(visits[r].at)][c] = usage[DayOf(visits[r].at)][c] + Adds(r)[c]
         /\ \A d \in Days \ {DayOf(visits[r].at)} : usage'[d] = usage[d]
<1>1. DayOf(visits[r].at) \in Days
  BY Visits, RequestFields DEF Days
<1>2. usage \in [Days -> [Counts -> Nat]]
  BY DEF TelemetryTypeOK
<1>3. [c \in Counts |-> usage[DayOf(visits[r].at)][c] + Adds(r)[c]] \in [Counts -> Nat]
  BY <1>1, <1>2, AddsTypes
<1> QED BY <1>1, <1>2, <1>3

LEMMA InvCount ==
  ASSUME TelemetryInv, NEW r \in DOMAIN visits, Count(r), now' = now
  PROVE  /\ \E v \in Request : GoesOn(r, v) /\ v.pc = "purge" /\ v.session = visits[r].session
         /\ r \in written
         /\ TelemetryInv'
<1> DEFINE v == [visits[r] EXCEPT !.pc = "purge"]
<1>1. TelemetryTypeOK /\ Placed(r) /\ visits[r] \in Request /\ visits[r].pc = "count" /\ InOrder /\ now \in Times
  BY Visits DEF TelemetryInv, Count
<1>2. r \in written
  BY <1>1 DEF Placed
<1>3. v \in Request /\ v.pc = "purge" /\ v.session = visits[r].session
  BY <1>1 DEF Request
<1>4. GoesOn(r, v)
  BY <1>1, <1>3 DEF GoesOn, Count, Request
<1> HIDE DEF v
<1>5. /\ visits' \in Seq(Request) /\ Len(visits') = Len(visits) /\ DOMAIN visits' = DOMAIN visits
      /\ visits'[r] = v /\ (\A q \in DOMAIN visits : Keeps(q))
      /\ UNCHANGED <<now, events, written, overlapped>>
  BY <1>1, <1>4, GoesOnFacts DEF Count
<1>6. Placed(r)'
  <2>1. v.session # Nobody => (v.session \in written' /\ visits'[v.session].visitor = v.visitor) \/ v.session = r
    BY <1>1, <1>3, <1>4, <1>5 DEF Placed, TelemetryTypeOK, Keeps, GoesOn
  <2> QED BY <1>1, <1>2, <1>3, <1>4, <1>5, <2>1 DEF Placed, InProgress, GoesOn, Ended
<1>7. \A q \in DOMAIN visits' : Placed(q)'
  BY <1>4, <1>5, <1>6, AllPlaced
<1>8. InOrder'
  BY <1>1, <1>5 DEF InOrder, Keeps, TelemetryTypeOK
<1>9. TelemetryTypeOK'
  <2>1. \A q \in written' :
          LET anonymous == visits'[q].kind = "mood_feedback" IN
          (visits'[q].visitor = Nobody) = anonymous /\ (visits'[q].session = Nobody) = anonymous
    BY <1>1, <1>5, <1>7 DEF Placed, TelemetryTypeOK
  <2>2. usage' \in [Days -> [Counts -> Nat]] /\ \A d \in Days : usage'[d]["returning"] <= usage'[d]["sessions"]
    <3>0. usage' = [usage EXCEPT ![DayOf(visits[r].at)] = [c \in Counts |-> @[c] + Adds(r)[c]]]
      BY DEF Count
    <3>1. "returning" \in Counts /\ "sessions" \in Counts
      BY DEF Counts
    <3>2. usage \in [Days -> [Counts -> Nat]] /\ \A d \in Days : usage[d]["returning"] <= usage[d]["sessions"]
      BY <1>1 DEF TelemetryTypeOK
    <3> DEFINE d0 == DayOf(visits[r].at)
    <3>3. usage'[d0]["returning"] <= usage'[d0]["sessions"] /\ d0 \in Days /\ usage' \in [Days -> [Counts -> Nat]]
          /\ \A d \in Days \ {d0} : usage'[d] = usage[d]
      BY <1>1, <3>0, <3>1, <3>2, UsageFacts, AddsTypes
    <3> HIDE DEF d0
    <3> QED BY <3>2, <3>3
  <2> QED BY <1>1, <1>5, <2>1, <2>2 DEF TelemetryTypeOK
<1> QED BY <1>1, <1>2, <1>3, <1>4, <1>5, <1>7, <1>8, <1>9 DEF TelemetryInv

LEMMA InvArrive ==
  ASSUME TelemetryInv, NEW kind \in Kinds, NEW w \in Visitors \cup {Nobody}, Arrive(kind, w), now' = now
  PROVE  /\ LET n == Len(visits) + 1 IN
            /\ visits'[n].visitor = w /\ visits'[n].at = now /\ visits'[n].session = Nobody /\ visits'[n].kind = kind
            /\ visits'[n].pc \in {"today", "last", "insert"} /\ ~visits'[n].returning
            /\ kind = "page_view" => visits'[n].pc = "today"
            /\ visits'[n].pc = "insert" => w = Nobody
            /\ n \notin DOMAIN visits /\ DOMAIN visits' = DOMAIN visits \cup {n}
            /\ \A q \in DOMAIN visits : q < n
         /\ \A q \in DOMAIN visits : visits'[q] = visits[q]
         /\ TelemetryInv'
<1>0. PICK n : n = Len(visits) + 1
  OBVIOUS
<1> DEFINE v == [kind |-> kind, visitor |-> w, at |-> now,
                 pc |-> CASE kind = "page_view" -> "today" [] kind = "match_result" -> "last"
                          [] OTHER -> "insert",
                 first |-> FALSE, last |-> Nobody, session |-> Nobody, returning |-> FALSE]
<1>1. TelemetryTypeOK /\ InOrder /\ now \in Times /\ now \in Nat /\ DOMAIN visits = 1..Len(visits) /\ Len(visits) \in Nat
  BY Visits DEF TelemetryInv, Times
<1>2. v \in Request /\ (w = Nobody) = (kind = "mood_feedback")
      /\ visits' = Append(visits, v) /\ Len(visits) < MaxRequests
      /\ UNCHANGED <<now, events, written, usage>>
  BY <1>1 DEF Request, Ended, Arrive
<1>3. /\ v.pc \in {"today", "last", "insert"} /\ v.visitor = w /\ v.at = now /\ v.session = Nobody /\ v.kind = kind /\ ~v.returning
      /\ (kind = "page_view" => v.pc = "today") /\ (v.pc = "insert" => kind = "mood_feedback")
      /\ (v.pc = "today" => kind = "page_view") /\ (v.pc = "last" => kind # "mood_feedback")
  BY DEF Kinds
<1> HIDE DEF v
<1>4. /\ visits' \in Seq(Request) /\ Len(visits') = n /\ Len(visits') <= MaxRequests
      /\ DOMAIN visits' = DOMAIN visits \cup {n} /\ n \notin DOMAIN visits
      /\ visits'[n] = v /\ \A q \in DOMAIN visits : visits'[q] = visits[q]
  BY <1>0, <1>1, <1>2, AppendFacts
<1>5. \A q \in DOMAIN visits : Placed(q)'
  <2>1. written \subseteq DOMAIN visits
    BY <1>1 DEF TelemetryTypeOK
  <2> QED BY <1>1, <1>2, <1>4, <2>1 DEF TelemetryInv, Placed, InProgress
<1>6. Placed(n)'
  <2>1. n \notin written /\ n \notin written' /\ visits'[n] = v /\ now' = now
    BY <1>1, <1>2, <1>4 DEF TelemetryTypeOK
  <2>2. v.at <= now /\ now <= v.at + RequestTime /\ (v.visitor = Nobody) = (v.kind = "mood_feedback")
    BY <1>1, <1>2, <1>3, Windows2
  <2> QED BY <1>2, <1>3, <2>1, <2>2 DEF Placed, InProgress, Ended
<1>7. TelemetryTypeOK'
  <2>1. written \subseteq DOMAIN visits /\ overlapped' \subseteq Visitors
    BY <1>1 DEF TelemetryTypeOK, Arrive
  <2>2. \A q \in written' :
          LET anonymous == visits'[q].kind = "mood_feedback" IN
          (visits'[q].visitor = Nobody) = anonymous /\ (visits'[q].session = Nobody) = anonymous
    BY <1>1, <1>2, <1>4, <2>1 DEF TelemetryTypeOK
  <2> QED BY <1>1, <1>2, <1>4, <2>1, <2>2 DEF TelemetryTypeOK
<1>8. InOrder'
  <2>1. written \subseteq DOMAIN visits /\ events \subseteq written
    BY <1>1 DEF TelemetryTypeOK
  <2>2. \A q \in DOMAIN visits : visits[q].at \in Nat /\ visits[q].at <= now /\ q < n
    BY <1>0, <1>1, Visits, RequestFields DEF TelemetryInv, Placed
  <2>3. \A q, s \in DOMAIN visits' : q <= s => visits'[q].at <= visits'[s].at
    BY <1>1, <1>3, <1>4, <2>2 DEF InOrder
  <2> QED BY <1>1, <1>2, <1>4, <2>1, <2>3 DEF InOrder
<1>9. \A q \in DOMAIN visits : q < n
  BY <1>0, <1>1
<1>10. TelemetryInv'
  BY <1>1, <1>2, <1>4, <1>5, <1>6, <1>7, <1>8 DEF TelemetryInv
<1>11. v.pc = "insert" => w = Nobody
  BY <1>2, <1>3
<1> QED BY <1>0, <1>2, <1>3, <1>4, <1>9, <1>10, <1>11

LEMMA InvTick ==
  ASSUME TelemetryInv, Tick, RequestsAreShort, UNCHANGED telemetry
  PROVE  TelemetryInv'
<1>1. /\ TelemetryTypeOK /\ InOrder /\ now \in Nat /\ now' \in Times /\ now' = now + 1
      /\ UNCHANGED <<visits, events, written, usage, overlapped>>
  BY MaxTimeIsNatural DEF TelemetryInv, Tick, Times, telemetry
<1>2. \A r \in DOMAIN visits : visits[r].at \in Nat
  BY <1>1, Visits, RequestFields
<1>3. \A r \in DOMAIN visits' : Placed(r)'
  BY <1>1, <1>2, Windows2 DEF TelemetryInv, Placed, InProgress, RequestsAreShort
<1>4. InOrder'
  BY <1>1, <1>2, Windows2 DEF InOrder, TelemetryTypeOK
<1> QED BY <1>1, <1>3, <1>4 DEF TelemetryInv, TelemetryTypeOK

LEMMA InvInit ==
  ASSUME TelemetryInit, now = 0
  PROVE  TelemetryInv
<1>1. visits \in Seq(Request) /\ Len(visits) = 0 /\ DOMAIN visits = {}
  BY DEF TelemetryInit
<1>2. usage \in [Days -> [Counts -> Nat]] /\ \A d \in Days : usage[d]["returning"] = 0 /\ usage[d]["sessions"] = 0
  BY DEF TelemetryInit, Counts
<1> QED BY <1>1, <1>2, MaxTimeIsNatural, MaxRequestsIsNatural
     DEF TelemetryInit, TelemetryInv, TelemetryTypeOK, InOrder, Times

-----------------------------------------------------------------------------
(* Exact reports.                                                           *)

(* What is purged lies before every period that is reported exactly.        *)
LEMMA ExactFromInv == TelemetryInv => ExactMeansExact
<1> SUFFICES ASSUME TelemetryInv, NEW w \in Windows, Exact(w[1])
             PROVE  UniqueVisitors(w[1], w[2]) = Cardinality(VisitorsOf(written, w[1], w[2]))
  BY DEF ExactMeansExact
<1>1. now \in Nat /\ events \subseteq written /\ InOrder /\ \A r \in written : visits[r].at \in Nat
  BY Visits, RequestFields, MaxTimeIsNatural DEF TelemetryInv, TelemetryTypeOK, Times
<1>2. w[1] \in Int
  <2>1. PICK p \in Periods : w \in {<<now - p, now>>, <<now - 2 * p, now - p>>}
    BY DEF Windows
  <2>2. p \in Nat
    BY PeriodsAreDays
  <2> QED BY <1>1, <2>1, <2>2
<1>3. w[1] >= now - RawRetention
  BY DEF Exact
<1>4. {q \in events : w[1] <= visits[q].at /\ visits[q].at < w[2]}
        = {q \in written : w[1] <= visits[q].at /\ visits[q].at < w[2]}
  BY <1>1, <1>2, <1>3, Windows2 DEF InOrder
<1>5. VisitorsOf(events, w[1], w[2]) = VisitorsOf(written, w[1], w[2])
  BY <1>4 DEF VisitorsOf
<1> QED BY <1>3, <1>5 DEF UniqueVisitors

-----------------------------------------------------------------------------
(* Sessions.                                                                *)

LEMMA ConjunctsOfInv ==
  ASSUME TelemetryInv
  PROVE  /\ TelemetryTypeOK /\ InOrder /\ now \in Nat /\ events \subseteq written /\ written \subseteq DOMAIN visits
         /\ DOMAIN visits \subseteq Nat /\ Nobody \notin Nat
         /\ \A r \in DOMAIN visits : Placed(r) /\ visits[r] \in Request /\ visits[r].at \in Nat
                                      /\ visits[r].at <= now
                                      /\ (visits[r].session # Nobody => visits[r].session \in DOMAIN visits)
<1>1. TelemetryTypeOK /\ InOrder /\ now \in Nat /\ \A r \in DOMAIN visits : Placed(r)
  BY MaxTimeIsNatural DEF TelemetryInv, Times
<1>2. events \subseteq written /\ written \subseteq DOMAIN visits
  BY <1>1 DEF TelemetryTypeOK
<1>3. DOMAIN visits \subseteq Nat /\ \A r \in DOMAIN visits : visits[r] \in Request /\ visits[r].at \in Nat
  BY <1>1, Visits, RequestFields
<1> QED BY <1>1, <1>2, <1>3, NobodyIsNoValue DEF Placed

(* The one request of a lone visitor that is in progress is his last one.   *)
LEMMA LastOfItsVisitor ==
  ASSUME TelemetryInv, OneAtATime, NEW r \in DOMAIN visits, InProgress(r), Lone(r),
         NEW q \in DOMAIN visits, Of(q, r), q # r
  PROVE  q < r /\ ~InProgress(q) /\ visits[q].at <= visits[r].at
<1>1. Lone(q) /\ Of(r, q)
  BY DEF Lone, Of
<1>2. q < r
  BY <1>1, ConjunctsOfInv DEF OneAtATime
<1> QED BY <1>2, ConjunctsOfInv DEF OneAtATime, InOrder

LEMMA OneAtATimeKept ==
  ASSUME TelemetryInv, OneAtATime, NEW r \in DOMAIN visits, NEW v, GoesOn(r, v), InProgress(r),
         overlapped' = overlapped
  PROVE  OneAtATime'
<1>1. DOMAIN visits' = DOMAIN visits /\ \A q \in DOMAIN visits : Keeps(q) /\ (InProgress(q)' => InProgress(q))
  BY GoesOnFacts, ConjunctsOfInv DEF InProgress
<1> QED BY <1>1 DEF OneAtATime, Lone, Of, Keeps

(* Requests that leave the sessions of the rows alone.                      *)
LEMMA FitsKept ==
  ASSUME TelemetryInv, DOMAIN visits' = DOMAIN visits, \A x \in DOMAIN visits : Keeps(x), written' = written,
         \A x \in written : visits'[x].session = visits[x].session,
         NEW q \in DOMAIN visits, visits'[q].session = visits[q].session
  PROVE  (Fits(q) => Fits(q)') /\ (SameInstant(q) => SameInstant(q)')
<1>0. written \subseteq DOMAIN visits
  BY ConjunctsOfInv
<1>1. PICK s : s = visits[q].session /\ s = visits'[q].session
  OBVIOUS
<1>2. InSession(s)' = InSession(s) /\ InSession(s) \subseteq DOMAIN visits
  BY <1>0 DEF InSession
<1>3. \A x \in DOMAIN visits : visits'[x].at = visits[x].at /\ (Of(x, q) <=> Of(x, q)')
  BY DEF Keeps, Of
<1>4. Fits(q) => Fits(q)'
  <2> SUFFICES ASSUME Fits(q) PROVE Fits(q)'
    OBVIOUS
  <2>1. s <= q /\ \A x \in InSession(s)' : visits'[q].at - visits'[x].at < SessionMaxDuration
    BY <1>1, <1>2, <1>3 DEF Fits
  <2>2. q = s \/ \E x \in InSession(s)' : x < q /\ visits'[q].at - visits'[x].at < SessionIdle
    BY <1>1, <1>2, <1>3 DEF Fits
  <2>3. \A x \in written' : x < q /\ Of(x, q)' /\ visits'[x].session # s => x < s
    BY <1>0, <1>1, <1>3 DEF Fits
  <2> QED BY <1>1, <2>1, <2>2, <2>3 DEF Fits
<1>5. SameInstant(q) => SameInstant(q)'
  BY <1>0, <1>1, <1>3 DEF SameInstant
<1> QED BY <1>4, <1>5

(* A step that writes no row: only the request itself has something to show. *)
LEMMA SessionQuiet ==
  ASSUME TelemetryInv, SessionInv, NEW r \in DOMAIN visits, NEW v, GoesOn(r, v), InProgress(r),
         written' = written, overlapped' = overlapped,
         r \in written => v.session = visits[r].session,
         Lone(r) /\ v.pc = "insert" => Fits(r)' /\ SameInstant(r)',
         Lone(r) /\ v.pc = "start" =>
           v.last \in DOMAIN visits /\ \A q \in written : Of(q, r) => visits[q].at <= visits[v.last].at
  PROVE  SessionInv'
<1>1. /\ DOMAIN visits' = DOMAIN visits /\ visits'[r] = v
      /\ (\A q \in DOMAIN visits : q # r => visits'[q] = visits[q])
      /\ \A q \in DOMAIN visits : Keeps(q)
  BY ConjunctsOfInv, GoesOnFacts
<1>2. OneAtATime'
  BY OneAtATimeKept DEF SessionInv
<1>3. \A q \in DOMAIN visits : Lone(q)' <=> Lone(q)
  BY <1>1 DEF Lone, Keeps
<1>4. \A x \in written : visits'[x].session = visits[x].session
  BY <1>1, ConjunctsOfInv
<1>5. ASSUME NEW q \in DOMAIN visits, Lone(q), q \in written \/ visits'[q].pc = "insert"
      PROVE  Fits(q)' /\ SameInstant(q)'
  <2>1. CASE q # r
    <3>1. Fits(q) /\ SameInstant(q)
      BY <1>1, <1>5, <2>1 DEF SessionInv
    <3> QED BY <1>1, <1>4, <2>1, <3>1, FitsKept
  <2>2. CASE q = r /\ r \in written
    <3>1. Fits(r) /\ SameInstant(r)
      BY <1>5, <2>2 DEF SessionInv
    <3> QED BY <1>1, <1>4, <2>2, <3>1, FitsKept
  <2>3. CASE q = r /\ r \notin written
    BY <1>1, <1>5, <2>3
  <2> QED BY <2>1, <2>2, <2>3
<1>6. ASSUME NEW q \in DOMAIN visits, Lone(q), visits'[q].pc = "start"
      PROVE  \A x \in written' : Of(x, q)' => visits'[x].at <= visits'[visits'[q].last].at
  <2>0. written \subseteq DOMAIN visits /\ \A x \in DOMAIN visits : visits'[x].at = visits[x].at /\ (Of(x, q)' <=> Of(x, q))
    BY <1>1, ConjunctsOfInv DEF Keeps, Of
  <2>1. CASE q # r
    <3>1. visits[q].last \in DOMAIN visits /\ visits'[q] = visits[q]
      BY <1>1, <1>6, <2>1, ConjunctsOfInv DEF Placed
    <3>2. \A x \in written : Of(x, q) => visits[x].at <= visits[visits[q].last].at
      BY <1>1, <1>6, <2>1 DEF SessionInv
    <3> QED BY <2>0, <3>1, <3>2
  <2>2. CASE q = r
    BY <1>1, <1>6, <2>0, <2>2
  <2> QED BY <2>1, <2>2
<1> QED BY <1>1, <1>2, <1>3, <1>5, <1>6 DEF SessionInv

LEMMA SessionLookToday ==
  ASSUME TelemetryInv, SessionInv, NEW r \in DOMAIN visits, LookToday(r), now' = now
  PROVE  SessionInv'
<1> DEFINE v == [visits[r] EXCEPT !.first = FirstToday(visits[r]), !.pc = "last"]
<1>1. GoesOn(r, v)
  BY InvLookToday
<1>2. visits[r] \in Request /\ visits[r].pc = "today" /\ r \notin written
  BY ConjunctsOfInv DEF LookToday, Placed, Ended
<1>3. v.pc = "last" /\ InProgress(r) /\ UNCHANGED <<written, overlapped>>
  BY <1>2 DEF InProgress, Ended, LookToday, Request
<1> HIDE DEF v
<1> QED BY <1>1, <1>2, <1>3, SessionQuiet

LEMMA SessionCount ==
  ASSUME TelemetryInv, SessionInv, NEW r \in DOMAIN visits, Count(r) \/ MaybePurge(r) \/ FailRequest(r), now' = now
  PROVE  SessionInv'
<1>1. \E v \in Request : GoesOn(r, v) /\ v.pc \in {"purge", "done", "failed"}
                         /\ (r \in written => v.session = visits[r].session)
  BY InvCount, InvMaybePurge, InvFailRequest
<1>2. InProgress(r) /\ UNCHANGED <<written, overlapped>>
  BY DEF Count, MaybePurge, FailRequest, InProgress, Ended
<1> QED BY <1>1, <1>2, SessionQuiet

(* A first request, or the first one that anybody remembers: no row of the  *)
(* visitor is of the same instant, it would be there.                       *)
LEMMA OpensFirst ==
  ASSUME TelemetryInv, SessionInv, NEW r \in DOMAIN visits, visits[r].pc = "last", Lone(r),
         LastEvents(visits[r].visitor) = {},
         NEW q \in written, Of(q, r)
  PROVE  visits[q].at # visits[r].at
<1> SUFFICES ASSUME visits[q].at = visits[r].at PROVE FALSE
  OBVIOUS
<1>1. r \notin written /\ InProgress(r) /\ Placed(r) /\ q \in DOMAIN visits
  BY ConjunctsOfInv DEF Placed, InProgress, Ended
<1>2. q \in events
  BY <1>1, ConjunctsOfInv, Windows2 DEF InOrder, Placed
<1>3. q \in EventsOf(visits[r].visitor)
  BY <1>2 DEF EventsOf, Of
<1>4. \A x \in EventsOf(visits[r].visitor) : visits[x].at <= visits[q].at
  <2> SUFFICES ASSUME NEW x \in EventsOf(visits[r].visitor) PROVE visits[x].at <= visits[q].at
    OBVIOUS
  <2>1. x \in DOMAIN visits /\ x # r /\ Of(x, r)
    BY <1>1, EventsOfFacts DEF Of
  <2> QED BY <1>1, <2>1, LastOfItsVisitor DEF SessionInv
<1> QED BY <1>3, <1>4 DEF LastEvents

(* No row carries the name of a session that is only being opened.          *)
LEMMA FreshSession ==
  ASSUME TelemetryInv, NEW r \in DOMAIN visits, r \notin written
  PROVE  InSession(r) = {}
BY ConjunctsOfInv DEF InSession, Placed

(* A session that is being opened fits.                                     *)
LEMMA OpenedFits ==
  ASSUME TelemetryInv, NEW r \in DOMAIN visits, r \notin written, written' = written,
         NEW v, GoesOn(r, v), v.session = r,
         \A q \in written : Of(q, r) => visits[q].at # visits[r].at
  PROVE  Fits(r)' /\ SameInstant(r)'
<1>1. /\ visits'[r] = v /\ \A q \in DOMAIN visits : Keeps(q)
      /\ \A q \in written : visits'[q] = visits[q]
  BY ConjunctsOfInv, GoesOnFacts
<1>2. r \in Nat /\ r \in DOMAIN visits /\ written \subseteq DOMAIN visits
  BY ConjunctsOfInv
<1>3. InSession(r)' = {}
  <2>1. InSession(r)' = InSession(r)
    BY <1>1 DEF InSession
  <2> QED BY <2>1, FreshSession
<1>4. Fits(r)'
  BY <1>1, <1>2, <1>3 DEF Fits
<1>5. SameInstant(r)'
  BY <1>1, <1>2 DEF SameInstant, Of, Keeps
<1> QED BY <1>4, <1>5

LEMMA SessionLastEvent ==
  ASSUME TelemetryInv, SessionInv, NEW r \in DOMAIN visits, LastEvent(r), now' = now
  PROVE  SessionInv'
<1>1. PICK v \in Request : /\ GoesOn(r, v)
                           /\ \/ /\ LastEvents(visits[r].visitor) = {}
                                 /\ v.session = r /\ v.pc = "insert"
                              \/ /\ v.last \in LastEvents(visits[r].visitor)
                                 /\ v.pc = "start" /\ v.session = Nobody
  BY InvLastEvent
<1>2. visits[r].pc = "last" /\ r \notin written /\ InProgress(r) /\ UNCHANGED <<written, overlapped>>
  BY ConjunctsOfInv DEF LastEvent, Placed, Ended, InProgress
<1>3. CASE LastEvents(visits[r].visitor) = {} /\ v.session = r /\ v.pc = "insert"
  <2>1. Lone(r) => \A q \in written : Of(q, r) => visits[q].at # visits[r].at
    BY <1>2, <1>3, OpensFirst
  <2>2. Lone(r) => Fits(r)' /\ SameInstant(r)'
    BY <1>1, <1>2, <1>3, <2>1, OpenedFits
  <2> QED BY <1>1, <1>2, <1>3, <2>2, SessionQuiet
<1>4. CASE v.last \in LastEvents(visits[r].visitor) /\ v.pc = "start" /\ v.session = Nobody
  <2>1. v.last \in EventsOf(visits[r].visitor) /\ v.last \in events /\ v.last \in DOMAIN visits
    BY <1>4, EventsOfFacts DEF LastEvents, EventsOf
  <2>2. ASSUME NEW q \in written, Of(q, r) PROVE visits[q].at <= visits[v.last].at
    <3>1. CASE q \in events
      <4>1. q \in EventsOf(visits[r].visitor)
        BY <2>2, <3>1 DEF EventsOf, Of
      <4> QED BY <1>4, <4>1 DEF LastEvents
    <3>2. CASE q \notin events
      <4>1. visits[q].at < visits[v.last].at
        BY <2>1, <3>2, ConjunctsOfInv DEF InOrder
      <4> QED BY <2>1, <4>1, ConjunctsOfInv
    <3> QED BY <3>1, <3>2
  <2> QED BY <1>1, <1>2, <1>4, <2>1, <2>2, SessionQuiet
<1> QED BY <1>1, <1>3, <1>4

(* A session that is still open takes the request in: what was purged of it *)
(* is too old to have been within reach.                                    *)
LEMMA JoinedFits ==
  ASSUME TelemetryInv, SessionInv, NEW r \in DOMAIN visits, visits[r].pc = "start", Lone(r),
         StillOpen(visits[r]), written' = written, NEW v, GoesOn(r, v),
         v.session = visits[visits[r].last].session
  PROVE  Fits(r)' /\ SameInstant(r)'
<1>1. PICK l : l = visits[r].last
  OBVIOUS
<1>2. PICK s : s = visits[l].session
  OBVIOUS
<1>3. r \notin written /\ InProgress(r) /\ l \in written /\ l # r /\ Of(l, r) /\ l \in DOMAIN visits
      /\ visits[r].visitor # Nobody /\ visits[l].visitor = visits[r].visitor
  BY <1>1, ConjunctsOfInv DEF Placed, InProgress, Ended, Of, Lone
<1>4. Lone(l) /\ Fits(l) /\ SameInstant(l)
  BY <1>3 DEF Lone, SessionInv
<1>5. s \in DOMAIN visits /\ s # Nobody /\ s <= l
  BY <1>2, <1>3, <1>4, ConjunctsOfInv DEF Placed, Fits
<1>6. l < r /\ visits[l].at <= visits[r].at
  BY <1>3, LastOfItsVisitor DEF SessionInv
<1>7. visits[r].at - visits[l].at < SessionIdle
  BY <1>1 DEF StillOpen, NotIdle
<1>8. InSession(s)' = InSession(s) /\ visits'[r] = v /\ v.session = s /\ InSession(s) \subseteq written
      /\ written \subseteq DOMAIN visits
  BY <1>1, <1>2, <1>3, ConjunctsOfInv, GoesOnFacts DEF InSession
<1>9. \A x \in DOMAIN visits : visits'[x].at = visits[x].at /\ visits[x].at \in Nat /\ (Of(x, r)' <=> Of(x, r))
  BY <1>3, ConjunctsOfInv, GoesOnFacts DEF Keeps, Of
<1>10. \A q \in InSession(s) : visits[r].at - visits[q].at < SessionMaxDuration
  <2> SUFFICES ASSUME NEW q \in InSession(s) PROVE visits[r].at - visits[q].at < SessionMaxDuration
    OBVIOUS
  <2>1. CASE q \in events
    BY <1>1, <1>2, <2>1 DEF StillOpen, InSession
  <2>2. CASE q \notin events
    <3>1. visits[q].at + RawRetention < now /\ now <= visits[r].at + RequestTime
      BY <1>3, <1>8, <2>2, ConjunctsOfInv DEF InOrder, Placed
    <3>2. visits[l].at - visits[q].at < SessionMaxDuration
      BY <1>2, <1>4 DEF Fits
    <3>3. visits[q].at \in Nat /\ visits[r].at \in Nat /\ visits[l].at \in Nat /\ now \in Nat
      BY <1>3, <1>8, ConjunctsOfInv
    <3> QED BY <1>7, <3>1, <3>2, <3>3, Windows2
  <2> QED BY <2>1, <2>2
<1>11. \A q \in written : Of(q, r) => visits[q].at <= visits[l].at /\ q # r
  BY <1>1, <1>3 DEF SessionInv
<1>12. \A q \in written : Of(q, r) /\ visits[q].at = visits[l].at => visits[q].session = s
  BY <1>2, <1>3, <1>4 DEF SameInstant, Of
<1>13. \A q \in written : q < r /\ Of(q, r) /\ visits[q].session # s => q < s
  <2> SUFFICES ASSUME NEW q \in written, q < r, Of(q, r), visits[q].session # s PROVE q < s
    OBVIOUS
  <2>1. q # l /\ visits[q].at # visits[l].at /\ visits[q].at <= visits[l].at /\ q \in DOMAIN visits
    BY <1>2, <1>8, <1>11, <1>12
  <2>2. q < l
    BY <1>3, <2>1, ConjunctsOfInv DEF InOrder
  <2> QED BY <1>2, <1>3, <1>4, <2>2 DEF Fits, Of
<1>14. Fits(r)'
  <2>1. s <= r
    BY <1>3, <1>5, <1>6, ConjunctsOfInv
  <2>2. l \in InSession(s)
    BY <1>2, <1>3 DEF InSession
  <2>3. \A q \in InSession(s)' : visits'[r].at - visits'[q].at < SessionMaxDuration
    BY <1>8, <1>9, <1>10
  <2>4. \E q \in InSession(s)' : q < r /\ visits'[r].at - visits'[q].at < SessionIdle
    BY <1>3, <1>6, <1>7, <1>8, <1>9, <2>2
  <2>5. \A q \in written' : q < r /\ Of(q, r)' /\ visits'[q].session # s => q < s
    BY <1>3, <1>8, <1>9, <1>13, ConjunctsOfInv, GoesOnFacts
  <2> QED BY <1>8, <2>1, <2>3, <2>4, <2>5 DEF Fits
<1>15. SameInstant(r)'
  <2> SUFFICES ASSUME NEW q \in written, Of(q, r), visits[q].at = visits[r].at PROVE visits[q].session = s
    BY <1>3, <1>8, <1>9, ConjunctsOfInv, GoesOnFacts DEF SameInstant
  <2>1. visits[q].at = visits[l].at
    BY <1>3, <1>6, <1>8, <1>9, <1>11
  <2> QED BY <1>12, <2>1
<1> QED BY <1>14, <1>15

(* Whoever opens another session has no row of the same instant: the last   *)
(* one would be too young to be purged, and its session still open.         *)
LEMMA ReopensAlone ==
  ASSUME TelemetryInv, SessionInv, NEW r \in DOMAIN visits, visits[r].pc = "start", Lone(r),
         ~StillOpen(visits[r]), NEW q \in written, Of(q, r)
  PROVE  visits[q].at # visits[r].at
<1> SUFFICES ASSUME visits[q].at = visits[r].at PROVE FALSE
  OBVIOUS
<1>1. PICK l : l = visits[r].last
  OBVIOUS
<1>2. InProgress(r) /\ l \in written /\ l # r /\ Of(l, r) /\ l \in DOMAIN visits
  BY <1>1, ConjunctsOfInv DEF Placed, InProgress, Ended, Of
<1>3. visits[l].at = visits[r].at
  <2>1. visits[q].at <= visits[l].at /\ visits[l].at <= visits[r].at
    BY <1>1, <1>2, LastOfItsVisitor DEF SessionInv
  <2> QED BY <1>2, <2>1, ConjunctsOfInv
<1>4. visits[r].at \in Nat /\ now \in Nat /\ now <= visits[r].at + RequestTime
  BY <1>2, ConjunctsOfInv DEF Placed
<1>5. l \in events
  BY <1>2, <1>3, <1>4, ConjunctsOfInv, Windows2 DEF InOrder
<1>6. NotIdle(visits[r])
  BY <1>1, <1>3, <1>4, Windows2 DEF NotIdle
<1>7. Fits(l) /\ Lone(l)
  BY <1>2 DEF SessionInv, Lone, Of
<1>8. \A x \in InSession(visits[l].session) : visits[r].at - visits[x].at < SessionMaxDuration
  BY <1>3, <1>7 DEF Fits
<1>9. \A x \in events : visits[x].session = visits[l].session => x \in InSession(visits[l].session)
  BY ConjunctsOfInv DEF InSession
<1> QED BY <1>1, <1>5, <1>6, <1>8, <1>9 DEF StillOpen

LEMMA SessionSessionStart ==
  ASSUME TelemetryInv, SessionInv, NEW r \in DOMAIN visits, SessionStart(r), now' = now
  PROVE  SessionInv'
<1>1. PICK v \in Request : /\ GoesOn(r, v) /\ v.pc = "insert"
                           /\ \/ StillOpen(visits[r]) /\ v.session = visits[visits[r].last].session
                              \/ ~StillOpen(visits[r]) /\ v.session = r
  BY InvSessionStart
<1>2. visits[r].pc = "start" /\ r \notin written /\ InProgress(r) /\ UNCHANGED <<written, overlapped>>
  BY ConjunctsOfInv DEF SessionStart, Placed, Ended, InProgress
<1>3. Lone(r) => Fits(r)' /\ SameInstant(r)'
  BY <1>1, <1>2, JoinedFits, OpenedFits, ReopensAlone
<1> QED BY <1>1, <1>2, <1>3, SessionQuiet

(* A row that is written is the last one of its visitor.                    *)
LEMMA SessionInsertEvent ==
  ASSUME TelemetryInv, SessionInv, NEW r \in DOMAIN visits, InsertEvent(r), now' = now
  PROVE  SessionInv'
<1>1. PICK v \in Request : GoesOn(r, v) /\ v.pc = "count" /\ v.session = visits[r].session
  BY InvInsertEvent
<1>2. r \notin written /\ InProgress(r) /\ visits[r].pc = "insert" /\ written' = written \cup {r}
      /\ overlapped' = overlapped /\ r \in Nat
  BY InvInsertEvent, ConjunctsOfInv DEF InsertEvent, InProgress, Ended
<1>3. /\ DOMAIN visits' = DOMAIN visits /\ visits'[r] = v
      /\ (\A q \in DOMAIN visits : q # r => visits'[q] = visits[q])
      /\ \A q \in DOMAIN visits : Keeps(q) /\ visits'[q].session = visits[q].session
  BY <1>1, ConjunctsOfInv, GoesOnFacts
<1>4. OneAtATime'
  BY <1>1, <1>2, OneAtATimeKept DEF SessionInv
<1>5. \A q \in DOMAIN visits : /\ Lone(q)' <=> Lone(q)
                               /\ visits'[q].at = visits[q].at /\ visits[q].at \in Nat
                               /\ \A x \in DOMAIN visits : Of(x, q)' <=> Of(x, q)
  BY <1>2, <1>3, ConjunctsOfInv DEF Lone, Keeps, Of
<1>6. ASSUME NEW q \in DOMAIN visits, Lone(q), Of(q, r), q # r
      PROVE  q < r /\ ~InProgress(q) /\ visits[q].at <= visits[r].at
  <2>1. Lone(r)
    BY <1>6 DEF Lone, Of
  <2> QED BY <1>2, <1>6, <2>1, LastOfItsVisitor DEF SessionInv
<1>7. ASSUME NEW q \in DOMAIN visits, Lone(q), q \in written' \/ visits'[q].pc = "insert"
      PROVE  Fits(q)' /\ SameInstant(q)'
  <2>1. q \in written \/ visits[q].pc = "insert"
    BY <1>1, <1>2, <1>3, <1>7
  <2>2. Fits(q) /\ SameInstant(q) /\ Placed(q) /\ visits[q].visitor # Nobody
    BY <1>7, <2>1, ConjunctsOfInv DEF SessionInv, Lone
  <2>3. PICK s : s = visits[q].session
    OBVIOUS
  <2>4. s # Nobody /\ s <= q
    BY <2>1, <2>2, <2>3 DEF Fits, Placed
  <2>5. InSession(s)' = InSession(s) \cup {x \in {r} : visits[r].session = s}
    BY <1>2, <1>3, ConjunctsOfInv DEF InSession
  <2>6. ASSUME visits[r].session = s PROVE Of(q, r)
    <3>1. q = s \/ visits[s].visitor = visits[q].visitor
      BY <2>2, <2>3, <2>4 DEF Placed
    <3>2. r = s \/ visits[s].visitor = visits[r].visitor
      BY <2>4, <2>6, ConjunctsOfInv DEF Placed
    <3> QED BY <3>1, <3>2 DEF Of
  <2>7. Of(r, q) <=> Of(q, r)
    BY DEF Of
  <2>8. \A x \in InSession(s)' : visits'[q].at - visits'[x].at < SessionMaxDuration
    <3> SUFFICES ASSUME NEW x \in InSession(s)' PROVE visits[q].at - visits[x].at < SessionMaxDuration
      BY <1>3, <1>5, <2>5, ConjunctsOfInv DEF InSession
    <3>1. CASE x \in InSession(s)
      BY <2>2, <2>3, <3>1 DEF Fits
    <3>2. CASE x = r /\ visits[r].session = s
      <4>1. q = r \/ visits[q].at <= visits[r].at
        BY <1>6, <1>7, <2>6, <3>2
      <4> QED BY <1>5, <3>2, <4>1, Windows2
    <3> QED BY <2>5, <3>1, <3>2
  <2>9. q = s \/ \E x \in InSession(s)' : x < q /\ visits'[q].at - visits'[x].at < SessionIdle
    <3>1. q = s \/ \E x \in InSession(s) : x < q /\ visits[q].at - visits[x].at < SessionIdle
      BY <2>2, <2>3 DEF Fits
    <3>2. \A x \in InSession(s) : x \in InSession(s)' /\ visits'[x].at = visits[x].at
      BY <1>5, <2>5, ConjunctsOfInv DEF InSession
    <3> QED BY <1>5, <3>1, <3>2
  <2>10. \A x \in written' : x < q /\ Of(x, q)' /\ visits'[x].session # s => x < s
    <3> SUFFICES ASSUME NEW x \in written', x < q, Of(x, q), visits[x].session # s PROVE x < s
      BY <1>2, <1>3, <1>5, ConjunctsOfInv
    <3>1. x # r
      BY <1>2, <1>6, <1>7, <2>7, ConjunctsOfInv
    <3> QED BY <1>2, <2>2, <2>3, <3>1 DEF Fits
  <2>11. Fits(q)'
    BY <1>3, <2>3, <2>4, <2>8, <2>9, <2>10 DEF Fits
  <2>12. SameInstant(q)'
    <3> SUFFICES ASSUME NEW x \in written', Of(x, q), visits[x].at = visits[q].at
                 PROVE  visits[x].session = visits[q].session
      BY <1>2, <1>3, <1>5, ConjunctsOfInv DEF SameInstant
    <3>1. CASE x \in written
      BY <2>2, <3>1 DEF SameInstant
    <3>2. CASE x = r /\ q # r
      <4>1. Lone(r) /\ Fits(r) /\ SameInstant(r) /\ Of(q, r) /\ q \in written
        <5>1. Of(q, r) /\ Lone(r)
          BY <1>7, <3>2 DEF Of, Lone
        <5>2. q \in written
          BY <1>6, <1>7, <2>1, <3>2, <5>1 DEF InProgress, Ended
        <5> QED BY <1>2, <5>1, <5>2 DEF SessionInv
      <4> QED BY <3>2, <4>1 DEF SameInstant
    <3> QED BY <1>2, <3>1, <3>2
  <2> QED BY <2>11, <2>12
<1>8. ASSUME NEW q \in DOMAIN visits, Lone(q), visits'[q].pc = "start"
      PROVE  \A x \in written' : Of(x, q)' => visits'[x].at <= visits'[visits'[q].last].at
  <2>1. q # r /\ visits'[q] = visits[q] /\ InProgress(q)
    BY <1>1, <1>3, <1>8 DEF InProgress, Ended
  <2>2. ~Of(r, q)
    BY <1>6, <1>8, <2>1 DEF Of
  <2>3. visits[q].last \in DOMAIN visits
    BY <1>8, <2>1, ConjunctsOfInv DEF Placed
  <2>4. \A x \in written : Of(x, q) => visits[x].at <= visits[visits[q].last].at
    BY <1>8, <2>1 DEF SessionInv
  <2> QED BY <1>2, <1>5, <2>1, <2>2, <2>3, <2>4, ConjunctsOfInv
<1> QED BY <1>3, <1>4, <1>5, <1>7, <1>8 DEF SessionInv

LEMMA SessionArrive ==
  ASSUME TelemetryInv, SessionInv, NEW kind \in Kinds, NEW w \in Visitors \cup {Nobody}, Arrive(kind, w), now' = now
  PROVE  SessionInv'
<1>1. PICK n : n = Len(visits) + 1
  OBVIOUS
<1>2. /\ visits'[n].visitor = w /\ visits'[n].pc \in {"today", "last", "insert"}
      /\ (visits'[n].pc = "insert" => w = Nobody)
      /\ n \notin DOMAIN visits /\ DOMAIN visits' = DOMAIN visits \cup {n}
      /\ (\A q \in DOMAIN visits : q < n)
      /\ \A q \in DOMAIN visits : visits'[q] = visits[q]
  BY <1>1, InvArrive
<1>3. /\ written' = written /\ overlapped \subseteq overlapped' /\ n \notin written
      /\ \A q \in DOMAIN visits : visits[q].visitor = w /\ InProgress(q) /\ w # Nobody => w \in overlapped'
  BY <1>2, ConjunctsOfInv DEF Arrive
<1>4. OneAtATime'
  <2> SUFFICES ASSUME NEW q \in DOMAIN visits', NEW r \in DOMAIN visits', Lone(r)', Of(q, r)', q < r
               PROVE  ~InProgress(q)'
    BY DEF OneAtATime
  <2>1. CASE r \in DOMAIN visits
    <3>1. q \in DOMAIN visits
      <4>1. n \in Nat /\ r \in Nat /\ q \in Nat /\ r < n
        BY <1>1, <1>2, <2>1, ConjunctsOfInv, Visits
      <4> QED BY <1>2, <4>1
    <3> QED BY <1>2, <1>3, <2>1, <3>1 DEF SessionInv, OneAtATime, Lone, Of, InProgress
  <2>2. CASE r = n
    <3>1. q \in DOMAIN visits
      BY <1>1, <1>2, <2>2, Visits, ConjunctsOfInv
    <3> QED BY <1>2, <1>3, <2>2, <3>1 DEF Lone, Of, InProgress
  <2> QED BY <1>2, <2>1, <2>2
<1>5. ASSUME NEW q \in DOMAIN visits PROVE (Fits(q) => Fits(q)') /\ (SameInstant(q) => SameInstant(q)')
  <2>0. written \subseteq DOMAIN visits /\ visits'[q] = visits[q] /\ \A x \in written : visits'[x] = visits[x]
    BY <1>2, ConjunctsOfInv
  <2>1. PICK s : s = visits[q].session
    OBVIOUS
  <2>2. InSession(s)' = InSession(s)
    BY <1>3, <2>0 DEF InSession
  <2>3. \A x \in InSession(s) : visits'[x] = visits[x]
    BY <2>0 DEF InSession
  <2>4. Fits(q) => Fits(q)'
    BY <1>3, <2>0, <2>1, <2>2, <2>3 DEF Fits, Of
  <2> QED BY <1>3, <2>0, <2>4 DEF SameInstant, Of
<1>6. \A q \in DOMAIN visits' : Lone(q)' /\ (q \in written' \/ visits'[q].pc = "insert") => Fits(q)' /\ SameInstant(q)'
  <2> SUFFICES ASSUME NEW q \in DOMAIN visits', Lone(q)', q \in written' \/ visits'[q].pc = "insert"
               PROVE  Fits(q)' /\ SameInstant(q)'
    OBVIOUS
  <2>1. q # n
    BY <1>2, <1>3 DEF Lone
  <2>2. q \in DOMAIN visits /\ Lone(q) /\ visits'[q] = visits[q]
    BY <1>2, <1>3, <2>1 DEF Lone
  <2> QED BY <1>3, <1>5, <2>2 DEF SessionInv
<1>7. \A q \in DOMAIN visits' : Lone(q)' /\ visits'[q].pc = "start" =>
        \A x \in written' : Of(x, q)' => visits'[x].at <= visits'[visits'[q].last].at
  <2> SUFFICES ASSUME NEW q \in DOMAIN visits', Lone(q)', visits'[q].pc = "start", NEW x \in written', Of(x, q)'
               PROVE  visits'[x].at <= visits'[visits'[q].last].at
    OBVIOUS
  <2>1. q \in DOMAIN visits /\ visits'[q] = visits[q] /\ Lone(q) /\ x \in written /\ visits'[x] = visits[x] /\ Of(x, q)
    BY <1>2, <1>3, ConjunctsOfInv DEF Lone, Of
  <2>2. visits[q].last \in DOMAIN visits
    BY <2>1, ConjunctsOfInv DEF Placed
  <2> QED BY <1>2, <2>1, <2>2 DEF SessionInv
<1> QED BY <1>4, <1>6, <1>7 DEF SessionInv

LEMMA SessionOther ==
  ASSUME SessionInv, UNCHANGED <<visits, written, overlapped>>
  PROVE  SessionInv'
BY DEF SessionInv, OneAtATime, Lone, Of, InProgress, Fits, SameInstant, InSession

LEMMA SessionInit ==
  ASSUME TelemetryInit PROVE SessionInv
<1>1. DOMAIN visits = {} /\ written = {}
  BY DEF TelemetryInit
<1> QED BY <1>1 DEF SessionInv, OneAtATime

(* The invariant says it of every row, and more.                            *)
LEMMA SessionsFromInv == (TelemetryInv /\ SessionInv) => SessionsWithinLimits
BY ConjunctsOfInv DEF SessionInv, SessionsWithinLimits, Fits, Lone, Of

-----------------------------------------------------------------------------
(* Counts.                                                                  *)

LEMMA Greatest ==
  ASSUME NEW n \in Nat, NEW S, S \subseteq 0..n, S # {}
  PROVE  \E m \in S : \A k \in S : k <= m
<1> DEFINE R == StrictSubsetOrdering(Nat)
           F == FiniteSubsetsOf(Nat)
           T == {k..n : k \in S}
<1>1. IsWellFoundedOn(R, F)
  BY FS_StrictSubsetOrderingWellFounded
<1>2. \A k \in S : IsFiniteSet(k..n) /\ k..n \in SUBSET Nat
  BY FS_Interval
<1>3. T \subseteq F /\ T # {}
  BY <1>2 DEF FiniteSubsetsOf
<1>4. \E x \in T : \A y \in T : ~ (<<y, x>> \in R)
  <2> HIDE DEF R, F, T
  <2> QED BY <1>1, <1>3, WFMin
<1>5. PICK m \in S : \A y \in T : ~ (<<y, m..n>> \in R)
  BY <1>4
<1>6. \A k \in S : k <= m
  <2> SUFFICES ASSUME NEW k \in S, k > m PROVE FALSE
    OBVIOUS
  <2>1. k..n \subseteq m..n /\ m \in m..n /\ m \notin k..n
    OBVIOUS
  <2>2. <<k..n, m..n>> \in R
    BY <1>2, <2>1 DEF StrictSubsetOrdering
  <2> QED BY <1>5, <2>2
<1> QED BY <1>6

(* Two instants of one day are less than a day apart.                       *)
LEMMA SameDay ==
  ASSUME NEW a \in Nat, NEW b \in Nat, DayOf(a) = DayOf(b)
  PROVE  a - b <= DayLength - 1
<1>1. PICK D \in Nat \ {0} : D = DayLength
  BY Windows2
<1>2. \A t \in Nat : t = D * (t \div D) + (t % D) /\ t % D \in 0..(D - 1)
  OBVIOUS
<1> QED BY <1>1, <1>2 DEF DayOf

(* Who was not seen has no event.                                           *)
LEMMA NoLastEvents ==
  ASSUME TelemetryInv, NEW w, LastEvents(w) = {}
  PROVE  EventsOf(w) = {}
<1> SUFFICES ASSUME EventsOf(w) # {} PROVE FALSE
  OBVIOUS
<1>1. Len(visits) \in Nat /\ DOMAIN visits = 1..Len(visits)
  BY ConjunctsOfInv, Visits
<1>2. EventsOf(w) \subseteq DOMAIN visits
  BY EventsOfFacts
<1>3. PICK m \in EventsOf(w) : \A k \in EventsOf(w) : k <= m
  BY <1>1, <1>2, Greatest
<1>4. m \in LastEvents(w)
  BY <1>2, <1>3, ConjunctsOfInv DEF LastEvents, InOrder
<1> QED BY <1>4

(* What is purged was not seen on the day of a request in progress, nor in  *)
(* the time that anybody remembers.                                         *)
LEMMA PurgedIsForgotten ==
  ASSUME TelemetryInv, NEW r \in DOMAIN visits, InProgress(r), NEW q \in written \ events
  PROVE  visits[r].at - visits[q].at > Remembered /\ DayOf(visits[q].at) # DayOf(visits[r].at)
<1>1. /\ visits[q].at \in Nat /\ visits[r].at \in Nat /\ now \in Nat
      /\ visits[q].at + RawRetention < now /\ now <= visits[r].at + RequestTime
  BY ConjunctsOfInv DEF InOrder, Placed
<1>2. visits[r].at - visits[q].at > Remembered
  BY <1>1, Windows2 DEF Remembered
<1>3. ASSUME DayOf(visits[q].at) = DayOf(visits[r].at) PROVE FALSE
  <2>1. visits[r].at - visits[q].at <= DayLength - 1
    BY <1>1, <1>3, SameDay
  <2> QED BY <1>1, <1>2, <2>1, Windows2 DEF Remembered
<1> QED BY <1>2, <1>3

-----------------------------------------------------------------------------
(* How a step changes what is counted.                                      *)

LEMMA OrderlyFacts ==
  ASSUME TelemetryInv, SessionInv, Orderly, NEW r \in DOMAIN visits, InProgress(r), visits[r].visitor # Nobody,
         NEW q \in DOMAIN visits, Of(q, r), q # r
  PROVE  q < r /\ ~InProgress(q) /\ visits[q].at <= visits[r].at
<1>1. Lone(r)
  BY DEF Lone, Orderly
<1> QED BY <1>1, LastOfItsVisitor DEF SessionInv

LEMMA CountedFacts ==
  ASSUME TelemetryInv, NEW d, NEW kind, NEW q \in Counted(d, kind)
  PROVE  q \in DOMAIN visits /\ q \in written /\ visits[q].kind = kind /\ DayOf(visits[q].at) = d
         /\ visits[q].pc \in {"purge", "done"} /\ (kind # "mood_feedback" => visits[q].visitor # Nobody)
<1>1. q \in DOMAIN visits /\ visits[q].pc \in {"purge", "done"} /\ visits[q].kind = kind /\ DayOf(visits[q].at) = d
  BY DEF Counted
<1>2. Placed(q)
  BY <1>1, ConjunctsOfInv
<1> QED BY <1>1, <1>2 DEF Placed

(* The rows of the other requests, seen from one that is counted or whose   *)
(* visitor is another one's.                                                *)
LEMMA SeenAlike ==
  ASSUME TelemetryInv, NEW r \in DOMAIN visits, NEW v, GoesOn(r, v), written' \in {written, written \cup {r}},
         NEW q \in DOMAIN visits, visits'[q].session = visits[q].session,
         written' = written \/ ~Of(r, q) \/ q < r
  PROVE  /\ \A window : ComesBack(q, window)' <=> ComesBack(q, window)
         /\ FirstOfDay(q)' <=> FirstOfDay(q)
<1>1. /\ DOMAIN visits' = DOMAIN visits /\ \A x \in DOMAIN visits : Keeps(x)
  BY ConjunctsOfInv, GoesOnFacts
<1>2. /\ written \subseteq DOMAIN visits /\ written' \subseteq DOMAIN visits /\ DOMAIN visits \subseteq Nat
  BY ConjunctsOfInv
<1>3. \A x \in DOMAIN visits : Of(x, q)' <=> Of(x, q)
  BY <1>1 DEF Of, Keeps
<1>4. ASSUME NEW x \in written', Of(x, q), x < q PROVE x \in written
  BY <1>2, <1>4
<1>5. ASSUME NEW window PROVE ComesBack(q, window)' <=> ComesBack(q, window)
  BY <1>1, <1>2, <1>4, <1>5 DEF ComesBack, Keeps, Of
<1>6. FirstOfDay(q)' <=> FirstOfDay(q)
  BY <1>1, <1>2, <1>3, <1>4 DEF FirstOfDay, Keeps
<1> QED BY <1>5, <1>6

(* A step that counts nothing.                                              *)
LEMMA QuietCounts ==
  ASSUME TelemetryInv, SessionInv, CountInv, FoundOut, NEW r \in DOMAIN visits, NEW v, GoesOn(r, v),
         written' \in {written, written \cup {r}}, UNCHANGED <<usage, overlapped>>,
         InProgress(r),
         v.pc \in {"purge", "done"} <=> visits[r].pc \in {"purge", "done"},
         visits[r].pc \in {"purge", "done"} => v.session = visits[r].session,
         written' = written \/ visits[r].pc \notin {"purge", "done"},
         visits[r].pc # "failed"
  PROVE  /\ CountInv'
         /\ Orderly' => Orderly
         /\ Orderly' => \A q \in DOMAIN visits \ {r} : Found(q)'
<1>1. /\ DOMAIN visits' = DOMAIN visits /\ visits'[r] = v
      /\ \A q \in DOMAIN visits : q # r => visits'[q] = visits[q]
      /\ \A q \in DOMAIN visits : Keeps(q)
  BY ConjunctsOfInv, GoesOnFacts
<1>2. Orderly' => Orderly
  BY <1>1 DEF Orderly
<1>3. ASSUME NEW d, NEW kind PROVE Counted(d, kind)' = Counted(d, kind)
  BY <1>1 DEF Counted, Keeps
<1>4. ASSUME NEW d, NEW kind, NEW q \in Counted(d, kind) PROVE q \in DOMAIN visits /\ visits'[q].session = visits[q].session
  BY <1>1, CountedFacts
<1>5. ASSUME NEW d PROVE Opening(d)' = Opening(d)
  BY <1>3, <1>4 DEF Opening
<1>6. ASSUME Orderly, NEW d, NEW q \in Counted(d, "page_view")
      PROVE  (FirstOfDay(q)' <=> FirstOfDay(q)) /\ \A window : ComesBack(q, window)' <=> ComesBack(q, window)
  <2>1. q \in DOMAIN visits /\ visits[q].visitor # Nobody /\ visits[q].pc \in {"purge", "done"}
    BY CountedFacts
  <2>2. written' = written \/ ~Of(r, q) \/ q < r
    <3> SUFFICES ASSUME written' # written, Of(r, q) PROVE q < r
      OBVIOUS
    <3>1. q # r /\ Of(q, r) /\ visits[r].visitor # Nobody
      BY <2>1 DEF Of
    <3> QED BY <1>6, <2>1, <3>1, OrderlyFacts
  <2> QED BY <1>4, <2>1, <2>2, SeenAlike
<1>7. ASSUME Orderly, NEW d
      PROVE  FirstVisitors(d)' = FirstVisitors(d) /\ \A window : Returning(d, window)' = Returning(d, window)
  <2>1. {q \in Counted(d, "page_view")' : FirstOfDay(q)'} = {q \in Counted(d, "page_view") : FirstOfDay(q)}
    BY <1>3, <1>6, <1>7
  <2>2. \A q \in Counted(d, "page_view") : visits'[q].visitor = visits[q].visitor
    BY <1>1, CountedFacts DEF Keeps
  <2>3. FirstVisitors(d)' = FirstVisitors(d)
    BY <2>1, <2>2 DEF FirstVisitors
  <2>4. ASSUME NEW window PROVE Returning(d, window)' = Returning(d, window)
    BY <1>3, <1>6, <1>7 DEF Returning
  <2> QED BY <2>3, <2>4
<1>8. CountInv'
  <2>1. Remembered' = Remembered
    BY DEF Remembered
  <2> QED BY <1>2, <1>3, <1>5, <1>7, <2>1 DEF CountInv
<1>9. ASSUME Orderly', NEW q \in DOMAIN visits, q # r PROVE Found(q)'
  <2>1. Orderly /\ Found(q) /\ visits'[q] = visits[q]
    BY <1>1, <1>2, <1>9 DEF FoundOut
  <2>2. CASE visits[q].kind = "page_view" /\ InProgress(q)
    <3>1. visits[q].visitor # Nobody /\ Placed(q)
      BY <2>2, ConjunctsOfInv DEF Placed
    <3>2. ~Of(r, q)
      BY <1>9, <2>1, <2>2, <3>1, OrderlyFacts DEF Of
    <3>3. OthersOfDay(q)' = OthersOfDay(q)
      BY <1>1, <3>2, ConjunctsOfInv DEF OthersOfDay, Of, Keeps
    <3>4. \A window : ComesBack(q, window)' <=> ComesBack(q, window)
      BY <2>1, <3>2, SeenAlike
    <3>5. Remembered' = Remembered
      BY DEF Remembered
    <3> QED BY <2>1, <3>3, <3>4, <3>5 DEF Found
  <2>3. CASE ~InProgress(q)
    BY <2>1, <2>3 DEF Found, InProgress, Ended
  <2>4. CASE visits[q].kind # "page_view"
    BY <2>1, <2>4 DEF Found
  <2> QED BY <2>2, <2>3, <2>4
<1> QED BY <1>2, <1>8, <1>9

(* What the acting request sees: its visitor's rows, but for its own.       *)
LEMMA SeenByItself ==
  ASSUME TelemetryInv, NEW r \in DOMAIN visits, NEW v, GoesOn(r, v), written' \in {written, written \cup {r}}
  PROVE  /\ OthersOfDay(r)' = OthersOfDay(r)
         /\ v.session = visits[r].session => \A window : ComesBack(r, window)' <=> ComesBack(r, window)
         /\ visits'[r] = v /\ v.kind = visits[r].kind /\ Remembered' = Remembered
<1>1. /\ DOMAIN visits' = DOMAIN visits /\ visits'[r] = v /\ \A q \in DOMAIN visits : Keeps(q)
  BY ConjunctsOfInv, GoesOnFacts
<1>2. written \subseteq DOMAIN visits /\ r \in Nat
  BY ConjunctsOfInv
<1>3. OthersOfDay(r)' = OthersOfDay(r)
  BY <1>1, <1>2 DEF OthersOfDay, Of, Keeps
<1>4. v.session = visits[r].session => \A window : ComesBack(r, window)' <=> ComesBack(r, window)
  BY <1>1, <1>2 DEF ComesBack, Keeps
<1> QED BY <1>1, <1>3, <1>4 DEF GoesOn, Remembered

LEMMA AllFound ==
  ASSUME NEW r \in DOMAIN visits, DOMAIN visits' = DOMAIN visits,
         Orderly' => \A q \in DOMAIN visits \ {r} : Found(q)', Orderly' => Found(r)'
  PROVE  FoundOut'
BY DEF FoundOut

LEMMA CountLookToday ==
  ASSUME TelemetryInv, SessionInv, CountInv, FoundOut, NEW r \in DOMAIN visits, LookToday(r), now' = now
  PROVE  CountInv' /\ FoundOut'
<1>1. PICK v : v = [visits[r] EXCEPT !.first = FirstToday(visits[r]), !.pc = "last"]
  OBVIOUS
<1>2. /\ GoesOn(r, v) /\ v.pc = "last" /\ v.first = FirstToday(visits[r]) /\ v.returning = visits[r].returning
      /\ visits[r].pc = "today" /\ UNCHANGED <<written, usage, overlapped>>
  <2>1. GoesOn(r, v)
    BY <1>1, InvLookToday
  <2>2. visits[r] \in Request
    BY ConjunctsOfInv
  <2>3. v.pc = "last" /\ v.first = FirstToday(visits[r]) /\ v.returning = visits[r].returning
    BY <1>1, <2>2 DEF Request
  <2> QED BY <2>1, <2>3 DEF LookToday
<1>3. InProgress(r) /\ r \notin written /\ DOMAIN visits' = DOMAIN visits
  BY <1>2, ConjunctsOfInv, GoesOnFacts DEF InProgress, Ended, Placed
<1>4. CountInv' /\ (Orderly' => Orderly) /\ (Orderly' => \A q \in DOMAIN visits \ {r} : Found(q)')
  BY <1>2, <1>3, QuietCounts
<1>5. FirstToday(visits[r]) <=> OthersOfDay(r) = {}
  <2>1. ASSUME NEW q \in OthersOfDay(r) PROVE q \in EventsOf(visits[r].visitor)
    BY <1>3, PurgedIsForgotten DEF OthersOfDay, EventsOf, Of
  <2>2. ASSUME NEW q \in EventsOf(visits[r].visitor), DayOf(visits[q].at) = DayOf(visits[r].at)
        PROVE  q \in OthersOfDay(r)
    BY <1>3, <2>2, EventsOfFacts DEF OthersOfDay, Of
  <2>3. FirstToday(visits[r]) => OthersOfDay(r) = {}
    BY <2>1 DEF FirstToday, OthersOfDay
  <2> QED BY <2>2, <2>3 DEF FirstToday
<1>6. ASSUME Orderly' PROVE Found(r)'
  <2>1. Found(r)
    BY <1>4, <1>6 DEF FoundOut
  <2> QED BY <1>2, <1>5, <2>1, SeenByItself DEF Found
<1> QED BY <1>3, <1>4, <1>6, AllFound

LEMMA CountLastEvent ==
  ASSUME TelemetryInv, SessionInv, CountInv, FoundOut, NEW r \in DOMAIN visits, LastEvent(r), now' = now
  PROVE  CountInv' /\ FoundOut'
<1>1. PICK v \in Request : /\ GoesOn(r, v) /\ v.first = visits[r].first /\ v.returning = visits[r].returning
                           /\ \/ /\ LastEvents(visits[r].visitor) = {}
                                 /\ v.session = r /\ v.pc = "insert"
                              \/ v.pc = "start"
  BY InvLastEvent
<1>2. visits[r].pc = "last" /\ UNCHANGED <<written, usage, overlapped>>
  BY DEF LastEvent
<1>3. InProgress(r) /\ r \notin written /\ DOMAIN visits' = DOMAIN visits /\ visits'[r] = v
  BY <1>1, <1>2, ConjunctsOfInv, GoesOnFacts DEF InProgress, Ended, Placed
<1>4. CountInv' /\ (Orderly' => Orderly) /\ (Orderly' => \A q \in DOMAIN visits \ {r} : Found(q)')
  BY <1>1, <1>2, <1>3, QuietCounts
<1>5. ASSUME LastEvents(visits[r].visitor) = {} PROVE ~ComesBack(r, Remembered)'
  <2>1. EventsOf(visits[r].visitor) = {}
    BY <1>5, NoLastEvents
  <2>2. ASSUME NEW q \in written, Of(q, r) PROVE visits[r].at - visits[q].at > Remembered
    <3>1. q \notin events
      BY <2>1, <2>2 DEF EventsOf, Of
    <3> QED BY <1>3, <3>1, PurgedIsForgotten
  <2>3. \A q \in DOMAIN visits : Keeps(q)
    BY <1>1, ConjunctsOfInv, GoesOnFacts
  <2>4. written \subseteq DOMAIN visits /\ \A q \in DOMAIN visits : visits[q].at \in Nat
    BY ConjunctsOfInv
  <2>5. Remembered \in Int /\ Remembered' = Remembered
    BY Windows2 DEF Remembered
  <2> QED BY <1>2, <2>2, <2>3, <2>4, <2>5 DEF ComesBack, Keeps, Of
<1>6. ASSUME Orderly' PROVE Found(r)'
  <2>1. Found(r)
    BY <1>4, <1>6 DEF FoundOut
  <2>2. OthersOfDay(r)' = OthersOfDay(r) /\ v.kind = visits[r].kind /\ visits'[r] = v /\ Remembered' = Remembered
    BY <1>1, <1>2, SeenByItself
  <2>3. visits[r].kind = "page_view" => ~v.returning /\ (v.first <=> OthersOfDay(r)' = {})
    BY <1>1, <1>2, <2>1, <2>2 DEF Found
  <2> QED BY <1>1, <1>5, <2>2, <2>3 DEF Found
<1> QED BY <1>3, <1>4, <1>6, AllFound

LEMMA CountSessionStart ==
  ASSUME TelemetryInv, SessionInv, CountInv, FoundOut, NEW r \in DOMAIN visits, SessionStart(r), now' = now
  PROVE  CountInv' /\ FoundOut'
<1>1. PICK v \in Request : /\ GoesOn(r, v) /\ v.pc = "insert" /\ v.first = visits[r].first
                           /\ \/ /\ StillOpen(visits[r]) /\ v.session = visits[visits[r].last].session
                                 /\ v.returning = visits[r].returning
                              \/ ~StillOpen(visits[r]) /\ v.session = r /\ v.returning = TRUE
  BY InvSessionStart
<1>2. visits[r].pc = "start" /\ UNCHANGED <<written, usage, overlapped>>
  BY DEF SessionStart
<1>3. InProgress(r) /\ r \notin written /\ DOMAIN visits' = DOMAIN visits /\ visits'[r] = v
      /\ visits[r].last \in written \ {r} /\ Of(visits[r].last, r) /\ visits[r].kind # "mood_feedback"
  BY <1>1, <1>2, ConjunctsOfInv, GoesOnFacts DEF InProgress, Ended, Placed, Of
<1>4. CountInv' /\ (Orderly' => Orderly) /\ (Orderly' => \A q \in DOMAIN visits \ {r} : Found(q)')
  BY <1>1, <1>2, <1>3, QuietCounts
<1>5. PICK l \in DOMAIN visits : l = visits[r].last /\ l \in written /\ l # r /\ Of(l, r)
  BY <1>3, ConjunctsOfInv
<1>6. visits[l].session # r
  <2>1. Placed(l) /\ Placed(r)
    BY ConjunctsOfInv
  <2> QED BY <1>3, <1>5, <2>1, ConjunctsOfInv DEF Placed, Of
<1>7. ASSUME Orderly, v.session = r PROVE ComesBack(r, MaxTime)'
  <2>1. visits[r].visitor # Nobody
    BY <1>3, ConjunctsOfInv DEF Placed
  <2>2. l < r /\ visits[l].at <= visits[r].at
    BY <1>3, <1>5, <1>7, <2>1, OrderlyFacts
  <2>3. visits[r].at - visits[l].at <= MaxTime
    BY <2>2, ConjunctsOfInv, RequestFields, MaxTimeIsNatural DEF Times
  <2>4. Keeps(l) /\ Keeps(r)
    BY <1>1, ConjunctsOfInv, GoesOnFacts
  <2> QED BY <1>2, <1>3, <1>5, <1>7, <2>2, <2>3, <2>4 DEF ComesBack, Keeps, Of
<1>8. ASSUME Orderly' PROVE Found(r)'
  <2>1. Found(r)
    BY <1>4, <1>8 DEF FoundOut
  <2>2. OthersOfDay(r)' = OthersOfDay(r) /\ v.kind = visits[r].kind
    BY <1>1, <1>2, SeenByItself
  <2>3. visits[r].kind = "page_view" => (v.first <=> OthersOfDay(r)' = {})
    BY <1>1, <1>2, <2>1, <2>2 DEF Found
  <2> QED BY <1>1, <1>3, <1>4, <1>5, <1>6, <1>7, <1>8, <2>2, <2>3 DEF Found
<1> QED BY <1>3, <1>4, <1>8, AllFound

LEMMA CountInsertEvent ==
  ASSUME TelemetryInv, SessionInv, CountInv, FoundOut, NEW r \in DOMAIN visits, InsertEvent(r), now' = now
  PROVE  CountInv' /\ FoundOut'
<1>1. PICK v \in Request : /\ GoesOn(r, v) /\ v.pc = "count" /\ v.first = visits[r].first
                           /\ v.session = visits[r].session /\ v.returning = visits[r].returning
  BY InvInsertEvent
<1>2. visits[r].pc = "insert" /\ UNCHANGED <<usage, overlapped>> /\ written' = written \cup {r}
  BY DEF InsertEvent
<1>3. InProgress(r) /\ DOMAIN visits' = DOMAIN visits /\ visits'[r] = v
  BY <1>1, <1>2, ConjunctsOfInv, GoesOnFacts DEF InProgress, Ended
<1>4. CountInv' /\ (Orderly' => Orderly) /\ (Orderly' => \A q \in DOMAIN visits \ {r} : Found(q)')
  BY <1>1, <1>2, <1>3, QuietCounts
<1>5. ASSUME Orderly' PROVE Found(r)'
  <2>1. Found(r)
    BY <1>4, <1>5 DEF FoundOut
  <2> QED BY <1>1, <1>2, <2>1, SeenByItself DEF Found
<1> QED BY <1>3, <1>4, <1>5, AllFound

LEMMA CountMaybePurge ==
  ASSUME TelemetryInv, SessionInv, CountInv, FoundOut, NEW r \in DOMAIN visits, MaybePurge(r), now' = now
  PROVE  CountInv' /\ FoundOut'
<1>1. PICK v \in Request : GoesOn(r, v) /\ v.pc = "done" /\ v.session = visits[r].session
  BY InvMaybePurge
<1>2. visits[r].pc = "purge" /\ UNCHANGED <<written, usage, overlapped>>
  BY DEF MaybePurge
<1>3. InProgress(r) /\ DOMAIN visits' = DOMAIN visits /\ visits'[r] = v
  BY <1>1, <1>2, ConjunctsOfInv, GoesOnFacts DEF InProgress, Ended
<1>4. CountInv' /\ (Orderly' => Orderly) /\ (Orderly' => \A q \in DOMAIN visits \ {r} : Found(q)')
  BY <1>1, <1>2, <1>3, QuietCounts
<1>5. Found(r)'
  BY <1>1, <1>3 DEF Found
<1> QED BY <1>3, <1>4, <1>5, AllFound

LEMMA CountFailRequest ==
  ASSUME TelemetryInv, SessionInv, CountInv, FoundOut, NEW r \in DOMAIN visits, FailRequest(r), now' = now
  PROVE  CountInv' /\ FoundOut'
<1>1. PICK v \in Request : GoesOn(r, v) /\ v.pc = "failed"
  BY InvFailRequest
<1>2. InProgress(r) /\ visits[r].pc # "purge" /\ UNCHANGED <<written, usage, overlapped>>
  BY DEF FailRequest
<1>3. DOMAIN visits' = DOMAIN visits /\ visits'[r] = v /\ visits[r].pc \notin {"purge", "done", "failed"}
  BY <1>1, <1>2, ConjunctsOfInv, GoesOnFacts DEF InProgress, Ended
<1>4. CountInv'
  BY <1>1, <1>2, <1>3, QuietCounts
<1>5. ~Orderly'
  BY <1>1, <1>3 DEF Orderly
<1> QED BY <1>4, <1>5 DEF FoundOut

(* A request is counted once, on its day, under its kind.                   *)
LEMMA OneMore ==
  ASSUME TelemetryInv, NEW r \in DOMAIN visits, Count(r), now' = now, NEW d, NEW kind
  PROVE  /\ r \notin Counted(d, kind)
         /\ Counted(d, kind)' = Counted(d, kind) \cup
              {q \in {r} : DayOf(visits[r].at) = d /\ visits[r].kind = kind}
<1>1. PICK v \in Request : GoesOn(r, v) /\ v.pc = "purge"
  BY InvCount
<1>2. visits[r].pc = "count"
  BY DEF Count
<1>3. /\ DOMAIN visits' = DOMAIN visits /\ visits'[r] = v
      /\ \A q \in DOMAIN visits : q # r => visits'[q] = visits[q]
      /\ \A q \in DOMAIN visits : Keeps(q)
  BY <1>1, ConjunctsOfInv, GoesOnFacts
<1>4. r \notin Counted(d, kind)
  BY <1>2 DEF Counted
<1>5. ASSUME NEW q PROVE q \in Counted(d, kind)' <=>
               q \in Counted(d, kind) \/ (q = r /\ DayOf(visits[r].at) = d /\ visits[r].kind = kind)
  BY <1>1, <1>2, <1>3 DEF Counted, Keeps
<1> QED BY <1>4, <1>5

LEMMA FiniteCounted ==
  ASSUME TelemetryInv, NEW d, NEW kind
  PROVE  IsFiniteSet(Counted(d, kind))
<1>1. IsFiniteSet(DOMAIN visits)
  BY ConjunctsOfInv, Visits, FS_Interval
<1> QED BY <1>1, FS_Subset DEF Counted

(* A subset of what is counted grows with it.                               *)
LEMMA GrowsByOne ==
  ASSUME NEW S, IsFiniteSet(S), NEW T, NEW r, r \notin S, NEW b \in BOOLEAN, T = S \cup {q \in {r} : b}
  PROVE  /\ Cardinality(T) = Cardinality(S) + One(b)
         /\ Cardinality(S) \in Nat
<1>1. CASE b
  BY <1>1, FS_AddElement, FS_CardinalityType DEF One
<1>2. CASE ~b
  <2>1. Cardinality(T) = Cardinality(S) /\ Cardinality(S) \in Nat
    <3>1. T = S
      BY <1>2
    <3> QED BY <3>1, FS_CardinalityType
  <2>2. One(b) = 0
    BY <1>2 DEF One
  <2> QED BY <2>1, <2>2
<1> QED BY <1>1, <1>2

LEMMA CountCount ==
  ASSUME TelemetryInv, SessionInv, CountInv, FoundOut, NEW r \in DOMAIN visits, Count(r), now' = now
  PROVE  CountInv' /\ FoundOut'
<1>1. PICK v \in Request : GoesOn(r, v) /\ v.pc = "purge" /\ v.session = visits[r].session
  BY InvCount
<1>2. visits[r].pc = "count" /\ UNCHANGED <<written, overlapped>> /\ r \in written
  BY InvCount DEF Count
<1>3. /\ DOMAIN visits' = DOMAIN visits /\ visits'[r] = v /\ InProgress(r)
      /\ \A q \in DOMAIN visits : q # r => visits'[q] = visits[q]
      /\ \A q \in DOMAIN visits : Keeps(q) /\ visits'[q].session = visits[q].session
  BY <1>1, <1>2, ConjunctsOfInv, GoesOnFacts DEF InProgress, Ended
<1>4. PICK d0 : d0 = DayOf(visits[r].at)
  OBVIOUS
<1>5. /\ d0 \in Days
      /\ \A c \in Counts : usage'[d0][c] = usage[d0][c] + Adds(r)[c]
      /\ \A d \in Days \ {d0} : usage'[d] = usage[d]
  <2>1. usage' = [usage EXCEPT ![DayOf(visits[r].at)] = [c \in Counts |-> @[c] + Adds(r)[c]]]
    BY DEF Count
  <2> QED BY <1>4, <2>1, UsageFacts, ConjunctsOfInv
<1>6. Orderly' => Orderly
  BY <1>2, <1>3 DEF Orderly
<1>7. ASSUME NEW q \in DOMAIN visits
      PROVE  (FirstOfDay(q)' <=> FirstOfDay(q)) /\ \A window : ComesBack(q, window)' <=> ComesBack(q, window)
  BY <1>1, <1>2, <1>3, SeenAlike
<1>8. ASSUME NEW d, NEW kind
      PROVE  /\ IsFiniteSet(Counted(d, kind)) /\ r \notin Counted(d, kind)
             /\ Counted(d, kind) \subseteq DOMAIN visits /\ Counted(d, kind)' \subseteq DOMAIN visits
             /\ Counted(d, kind)' = Counted(d, kind) \cup {q \in {r} : d = d0 /\ visits[r].kind = kind}
             /\ Cardinality(Counted(d, kind)') = Cardinality(Counted(d, kind)) + One(d = d0 /\ visits[r].kind = kind)
  <2>1. /\ IsFiniteSet(Counted(d, kind)) /\ r \notin Counted(d, kind)
        /\ Counted(d, kind)' = Counted(d, kind) \cup {q \in {r} : d = d0 /\ visits[r].kind = kind}
    BY <1>4, FiniteCounted, OneMore
  <2>2. Counted(d, kind) \subseteq DOMAIN visits
    BY DEF Counted
  <2> QED BY <2>1, <2>2, GrowsByOne
<1>9. ASSUME NEW d
      PROVE  /\ IsFiniteSet(Opening(d)) /\ r \notin Opening(d)
             /\ Opening(d)' = Opening(d) \cup {q \in {r} : d = d0 /\ visits[r].kind = "page_view" /\ visits[r].session = r}
             /\ Cardinality(Opening(d)') = Cardinality(Opening(d)) +
                   One(d = d0 /\ visits[r].kind = "page_view" /\ visits[r].session = r)
  <2>1. IsFiniteSet(Opening(d)) /\ r \notin Opening(d)
    BY <1>8, FS_Subset DEF Opening
  <2>2. Opening(d)' = Opening(d) \cup {q \in {r} : d = d0 /\ visits[r].kind = "page_view" /\ visits[r].session = r}
    BY <1>3, <1>8 DEF Opening
  <2> QED BY <2>1, <2>2, GrowsByOne
<1>10. ASSUME NEW d \in Days
       PROVE /\ usage'[d]["views"] = Cardinality(Counted(d, "page_view"))'
             /\ usage'[d]["matches"] = Cardinality(Counted(d, "match_result"))'
             /\ usage'[d]["moods"] = Cardinality(Counted(d, "mood_feedback"))'
             /\ usage'[d]["sessions"] = Cardinality(Opening(d))'
  <2>1. /\ usage[d]["views"] = Cardinality(Counted(d, "page_view"))
        /\ usage[d]["matches"] = Cardinality(Counted(d, "match_result"))
        /\ usage[d]["moods"] = Cardinality(Counted(d, "mood_feedback"))
        /\ usage[d]["sessions"] = Cardinality(Opening(d))
    BY DEF CountInv
  <2>2. CASE d = d0
    <3>1. /\ usage'[d]["views"] = usage[d]["views"] + Adds(r)["views"]
          /\ usage'[d]["matches"] = usage[d]["matches"] + Adds(r)["matches"]
          /\ usage'[d]["moods"] = usage[d]["moods"] + Adds(r)["moods"]
          /\ usage'[d]["sessions"] = usage[d]["sessions"] + Adds(r)["sessions"]
      BY <1>5, <2>2 DEF Counts
    <3>2. /\ Adds(r)["views"] = One(d = d0 /\ visits[r].kind = "page_view")
          /\ Adds(r)["matches"] = One(d = d0 /\ visits[r].kind = "match_result")
          /\ Adds(r)["moods"] = One(d = d0 /\ visits[r].kind = "mood_feedback")
          /\ Adds(r)["sessions"] = One(d = d0 /\ visits[r].kind = "page_view" /\ visits[r].session = r)
      BY <2>2 DEF Adds, One
    <3> QED BY <1>8, <1>9, <2>1, <3>1, <3>2
  <2>3. CASE d # d0
    <3>1. ~(d = d0) /\ usage'[d] = usage[d]
      BY <1>5, <2>3
    <3>2. Opening(d)' = Opening(d)
      BY <1>9, <3>1
    <3>3. ASSUME NEW kind PROVE Counted(d, kind)' = Counted(d, kind)
      BY <1>8, <3>1
    <3> QED BY <2>1, <3>1, <3>2, <3>3
  <2> QED BY <2>2, <2>3

<1>11. ASSUME Orderly PROVE Found(r) /\ (visits[r].kind = "page_view" => visits[r].visitor # Nobody)
  <2>1. Placed(r) /\ Found(r)
    BY <1>11, ConjunctsOfInv DEF FoundOut
  <2> QED BY <2>1 DEF Placed
<1>12. ASSUME Orderly, NEW d
       PROVE  /\ IsFiniteSet(FirstVisitors(d))
              /\ Cardinality(FirstVisitors(d)') = Cardinality(FirstVisitors(d)) +
                    One(d = d0 /\ visits[r].kind = "page_view" /\ visits[r].first)
  <2>1. IsFiniteSet(FirstVisitors(d))
    <3>1. IsFiniteSet({q \in Counted(d, "page_view") : FirstOfDay(q)})
      BY <1>8, FS_Subset
    <3> DEFINE Firsts == {q \in Counted(d, "page_view") : FirstOfDay(q)}
               f == [q \in Firsts |-> visits[q].visitor]
    <3>2. f \in Surjection(Firsts, FirstVisitors(d))
      BY DEF Surjection, FirstVisitors
    <3> QED BY <3>1, <3>2, FS_Surjection
  <2>2. {q \in Counted(d, "page_view")' : FirstOfDay(q)'} = {q \in Counted(d, "page_view") : FirstOfDay(q)} \cup
           {q \in {r} : d = d0 /\ visits[r].kind = "page_view" /\ FirstOfDay(r)}
    BY <1>7, <1>8
  <2>3. FirstVisitors(d)' = FirstVisitors(d) \cup
           {w \in {visits[r].visitor} : d = d0 /\ visits[r].kind = "page_view" /\ FirstOfDay(r)}
    <3>1. \A q \in Counted(d, "page_view")' : visits'[q].visitor = visits[q].visitor
      BY <1>3, <1>8 DEF Keeps
    <3>2. FirstVisitors(d)' = {visits[q].visitor : q \in {q \in Counted(d, "page_view")' : FirstOfDay(q)'}}
      BY <3>1 DEF FirstVisitors
    <3> QED BY <2>2, <3>2 DEF FirstVisitors
  <2>4. CASE d = d0 /\ visits[r].kind = "page_view" /\ visits[r].first
    <3>1. OthersOfDay(r) = {}
      BY <1>2, <1>11, <1>12, <2>4 DEF Found
    <3>2. FirstOfDay(r)
      BY <3>1, ConjunctsOfInv DEF FirstOfDay, OthersOfDay
    <3>3. visits[r].visitor \notin FirstVisitors(d)
      <4> SUFFICES ASSUME NEW q \in Counted(d, "page_view"), visits[q].visitor = visits[r].visitor PROVE FALSE
        BY DEF FirstVisitors
      <4>1. q \in written /\ q # r /\ DayOf(visits[q].at) = d
        BY <1>8, CountedFacts
      <4> QED BY <1>4, <2>4, <3>1, <4>1 DEF OthersOfDay, Of
    <3>4. FirstVisitors(d)' = FirstVisitors(d) \cup {visits[r].visitor}
      BY <2>3, <2>4, <3>2
    <3> QED BY <2>1, <2>4, <3>3, <3>4, FS_AddElement DEF One
  <2>5. CASE ~(d = d0 /\ visits[r].kind = "page_view" /\ visits[r].first)
    <3>1. ~(d = d0 /\ visits[r].kind = "page_view" /\ FirstOfDay(r))
      <4> SUFFICES ASSUME d = d0, visits[r].kind = "page_view", FirstOfDay(r), ~visits[r].first PROVE FALSE
        BY <2>5
      <4>1. PICK q \in OthersOfDay(r) : TRUE
        BY <1>2, <1>11, <1>12 DEF Found
      <4>2. q \in written /\ q \in DOMAIN visits /\ q # r /\ Of(q, r) /\ DayOf(visits[q].at) = DayOf(visits[r].at)
        BY ConjunctsOfInv DEF OthersOfDay
      <4>3. q < r
        BY <1>3, <1>11, <1>12, <4>2, OrderlyFacts
      <4> QED BY <4>2, <4>3, ConjunctsOfInv DEF FirstOfDay
    <3>2. FirstVisitors(d)' = FirstVisitors(d)
      BY <2>3, <3>1
    <3> QED BY <2>1, <2>5, <3>2, FS_CardinalityType DEF One
  <2> QED BY <2>1, <2>4, <2>5
<1>13. ASSUME NEW d, NEW window
       PROVE  /\ Cardinality(Returning(d, window)) \in Nat
              /\ Cardinality(Returning(d, window)') = Cardinality(Returning(d, window)) +
                    One(d = d0 /\ visits[r].kind = "page_view" /\ ComesBack(r, window))
  <2>1. IsFiniteSet(Returning(d, window)) /\ r \notin Returning(d, window)
    BY <1>8, FS_Subset DEF Returning
  <2>2. Returning(d, window)' = Returning(d, window) \cup
           {q \in {r} : d = d0 /\ visits[r].kind = "page_view" /\ ComesBack(r, window)}
    BY <1>7, <1>8 DEF Returning
  <2> QED BY <2>1, <2>2, GrowsByOne DEF ComesBack
<1>14. ASSUME Orderly', NEW d \in Days
       PROVE  /\ usage'[d]["visitors"] = Cardinality(FirstVisitors(d))'
              /\ Cardinality(Returning(d, Remembered))' <= usage'[d]["returning"]
              /\ usage'[d]["returning"] <= Cardinality(Returning(d, MaxTime))'
  <2>0. Orderly /\ Remembered' = Remembered
    BY <1>6, <1>14 DEF Remembered
  <2>1. /\ usage[d]["visitors"] = Cardinality(FirstVisitors(d))
        /\ Cardinality(Returning(d, Remembered)) <= usage[d]["returning"]
        /\ usage[d]["returning"] <= Cardinality(Returning(d, MaxTime))
    BY <2>0 DEF CountInv
  <2>2. usage[d]["returning"] \in Nat
    BY ConjunctsOfInv DEF TelemetryTypeOK, Counts
  <2>3. CASE d = d0
    <3>1. /\ usage'[d]["visitors"] = usage[d]["visitors"] + Adds(r)["visitors"]
          /\ usage'[d]["returning"] = usage[d]["returning"] + Adds(r)["returning"]
      BY <1>5, <2>3 DEF Counts
    <3>2. /\ Adds(r)["visitors"] = One(visits[r].kind = "page_view" /\ visits[r].first)
          /\ Adds(r)["returning"] = One(visits[r].kind = "page_view" /\ visits[r].session = r /\ visits[r].returning)
      BY DEF Adds
    <3>3. One(visits[r].kind = "page_view" /\ ComesBack(r, Remembered)) <= Adds(r)["returning"]
      <4>1. visits[r].kind = "page_view" /\ ComesBack(r, Remembered) => visits[r].session = r /\ visits[r].returning
        BY <1>2, <1>11, <2>0 DEF Found, ComesBack
      <4> QED BY <3>2, <4>1 DEF One
    <3>4. Adds(r)["returning"] <= One(visits[r].kind = "page_view" /\ ComesBack(r, MaxTime))
      <4>1. visits[r].kind = "page_view" /\ visits[r].session = r /\ visits[r].returning => ComesBack(r, MaxTime)
        BY <1>2, <1>11, <2>0 DEF Found
      <4> QED BY <3>2, <4>1 DEF One
    <3>5. Adds(r)["returning"] \in Nat /\ One(visits[r].kind = "page_view" /\ ComesBack(r, Remembered)) \in Nat
          /\ One(visits[r].kind = "page_view" /\ ComesBack(r, MaxTime)) \in Nat
      BY DEF Adds, One
    <3>6. /\ Cardinality(Returning(d, Remembered)') = Cardinality(Returning(d, Remembered)) +
                One(visits[r].kind = "page_view" /\ ComesBack(r, Remembered))
          /\ Cardinality(Returning(d, MaxTime)') = Cardinality(Returning(d, MaxTime)) +
                One(visits[r].kind = "page_view" /\ ComesBack(r, MaxTime))
          /\ Cardinality(Returning(d, Remembered)) \in Nat /\ Cardinality(Returning(d, MaxTime)) \in Nat
      <4>1. \A b \in BOOLEAN : One(d = d0 /\ b) = One(b)
        BY <2>3 DEF One
      <4> QED BY <1>13, <2>3, <4>1 DEF One
    <3>7. Cardinality(FirstVisitors(d)') = Cardinality(FirstVisitors(d)) + Adds(r)["visitors"]
      BY <1>12, <2>0, <2>3, <3>2 DEF One
    <3>8. Cardinality(Returning(d, Remembered)') <= usage'[d]["returning"]
      BY <2>1, <2>2, <3>1, <3>3, <3>5, <3>6
    <3>9. usage'[d]["returning"] <= Cardinality(Returning(d, MaxTime)')
      BY <2>1, <2>2, <3>1, <3>4, <3>5, <3>6
    <3> QED BY <2>0, <2>1, <3>1, <3>7, <3>8, <3>9
  <2>4. CASE d # d0
    <3>1. usage'[d] = usage[d]
      BY <1>5, <2>4
    <3>2. Cardinality(FirstVisitors(d)') = Cardinality(FirstVisitors(d))
      BY <1>12, <2>0, <2>4, FS_CardinalityType DEF One
    <3>3. ASSUME NEW window PROVE Cardinality(Returning(d, window)') = Cardinality(Returning(d, window))
      BY <1>13, <2>4 DEF One
    <3> QED BY <2>0, <2>1, <3>1, <3>2, <3>3
  <2> QED BY <2>3, <2>4
<1>15. CountInv'
  BY <1>10, <1>14 DEF CountInv
<1>16. ASSUME Orderly', NEW q \in DOMAIN visits PROVE Found(q)'
  <2>1. Found(q)
    BY <1>6, <1>16 DEF FoundOut
  <2>2. CASE q = r
    BY <1>1, <1>3, <2>2 DEF Found
  <2>3. CASE q # r
    <3>1. visits'[q] = visits[q] /\ OthersOfDay(q)' = OthersOfDay(q) /\ Remembered' = Remembered
      BY <1>2, <1>3, <2>3, ConjunctsOfInv DEF OthersOfDay, Of, Keeps, Remembered
    <3> QED BY <1>7, <2>1, <3>1 DEF Found
  <2> QED BY <2>2, <2>3
<1> QED BY <1>3, <1>15, <1>16 DEF FoundOut

LEMMA CountArrive ==
  ASSUME TelemetryInv, CountInv, FoundOut, NEW kind \in Kinds, NEW w \in Visitors \cup {Nobody},
         Arrive(kind, w), now' = now
  PROVE  CountInv' /\ FoundOut'
<1>1. PICK n : n = Len(visits) + 1
  OBVIOUS
<1>2. /\ visits'[n].pc \in {"today", "last", "insert"} /\ ~visits'[n].returning /\ visits'[n].kind = kind
      /\ (kind = "page_view" => visits'[n].pc = "today")
      /\ n \notin DOMAIN visits /\ DOMAIN visits' = DOMAIN visits \cup {n}
      /\ \A q \in DOMAIN visits : visits'[q] = visits[q]
  BY <1>1, InvArrive
<1>3. UNCHANGED <<written, usage>> /\ overlapped \subseteq overlapped' /\ written \subseteq DOMAIN visits
      /\ Remembered' = Remembered
  BY ConjunctsOfInv DEF Arrive, Remembered
<1>4. Orderly' => Orderly
  BY <1>2, <1>3 DEF Orderly
<1>5. ASSUME NEW d, NEW k PROVE Counted(d, k)' = Counted(d, k)
  BY <1>2 DEF Counted
<1>6. ASSUME NEW q \in DOMAIN visits
      PROVE  /\ FirstOfDay(q)' <=> FirstOfDay(q)
             /\ \A window : ComesBack(q, window)' <=> ComesBack(q, window)
             /\ OthersOfDay(q)' = OthersOfDay(q)
  <2>1. \A x \in written : visits'[x] = visits[x]
    BY <1>2, <1>3
  <2> QED BY <1>2, <1>3, <2>1 DEF FirstOfDay, ComesBack, OthersOfDay, Of
<1>7. ASSUME NEW d
      PROVE  /\ Opening(d)' = Opening(d) /\ FirstVisitors(d)' = FirstVisitors(d)
             /\ \A window : Returning(d, window)' = Returning(d, window)
  <2>1. \A q \in Counted(d, "page_view") : q \in DOMAIN visits /\ visits'[q] = visits[q]
    BY <1>2 DEF Counted
  <2>2. Opening(d)' = Opening(d)
    BY <1>5, <2>1 DEF Opening
  <2>3. {q \in Counted(d, "page_view")' : FirstOfDay(q)'} = {q \in Counted(d, "page_view") : FirstOfDay(q)}
    BY <1>5, <1>6, <2>1
  <2>4. FirstVisitors(d)' = FirstVisitors(d)
    BY <2>1, <2>3 DEF FirstVisitors
  <2>5. ASSUME NEW window PROVE Returning(d, window)' = Returning(d, window)
    BY <1>5, <1>6, <2>1 DEF Returning
  <2> QED BY <2>2, <2>4, <2>5
<1>8. CountInv'
  BY <1>3, <1>4, <1>5, <1>7 DEF CountInv
<1>9. ASSUME Orderly', NEW q \in DOMAIN visits' PROVE Found(q)'
  <2>1. CASE q = n
    BY <1>2, <2>1 DEF Found
  <2>2. CASE q \in DOMAIN visits
    BY <1>2, <1>3, <1>4, <1>6, <1>9, <2>2 DEF Found, FoundOut
  <2> QED BY <1>2, <2>1, <2>2
<1> QED BY <1>8, <1>9 DEF FoundOut

(* Rows are purged, and time passes, without a change to the counts.        *)
LEMMA CountOther ==
  ASSUME CountInv, FoundOut, UNCHANGED <<visits, written, usage, overlapped>>
  PROVE  CountInv' /\ FoundOut'
<1>1. Orderly' = Orderly /\ \A q : Found(q)' = Found(q)
  BY DEF Orderly, Found, OthersOfDay, Of, ComesBack, Remembered
<1>2. \A d : /\ Opening(d)' = Opening(d) /\ FirstVisitors(d)' = FirstVisitors(d)
             /\ \A k : Counted(d, k)' = Counted(d, k)
             /\ \A window : Returning(d, window)' = Returning(d, window)
  BY DEF Opening, FirstVisitors, Counted, Returning, FirstOfDay, Of, ComesBack
<1>3. Remembered' = Remembered
  BY DEF Remembered
<1> QED BY <1>1, <1>2, <1>3 DEF CountInv, FoundOut

LEMMA CountInit ==
  ASSUME TelemetryInit PROVE CountInv /\ FoundOut
<1>1. DOMAIN visits = {}
  BY DEF TelemetryInit
<1>2. ASSUME NEW d
      PROVE  /\ Opening(d) = {} /\ FirstVisitors(d) = {}
             /\ \A k : Counted(d, k) = {}
             /\ \A window : Returning(d, window) = {}
  BY <1>1 DEF Opening, FirstVisitors, Counted, Returning
<1>3. Cardinality({}) = 0
  BY FS_EmptySet
<1>4. ASSUME NEW d \in Days
      PROVE  /\ usage[d]["views"] = 0 /\ usage[d]["matches"] = 0 /\ usage[d]["moods"] = 0
             /\ usage[d]["sessions"] = 0 /\ usage[d]["visitors"] = 0 /\ usage[d]["returning"] = 0
  BY DEF TelemetryInit, Counts
<1>5. CountInv
  <2>1. ASSUME NEW d
        PROVE /\ Cardinality(Counted(d, "page_view")) = 0 /\ Cardinality(Counted(d, "match_result")) = 0
              /\ Cardinality(Counted(d, "mood_feedback")) = 0 /\ Cardinality(Opening(d)) = 0
              /\ Cardinality(FirstVisitors(d)) = 0 /\ Cardinality(Returning(d, Remembered)) = 0
              /\ Cardinality(Returning(d, MaxTime)) = 0
    BY <1>2, <1>3
  <2> QED BY <1>4, <2>1 DEF CountInv
<1> QED BY <1>1, <1>5 DEF FoundOut

(* When all requests have ended well, what is counted is what was written.  *)
LEMMA CalmCounts ==
  ASSUME TelemetryInv, Calm
  PROVE  /\ Orderly /\ written = DOMAIN visits
         /\ \A d, k : Counted(d, k) = Written(d, k) /\ IsFiniteSet(Written(d, k))
<1>1. Orderly /\ \A r \in DOMAIN visits : visits[r].pc = "done" /\ Placed(r)
  BY ConjunctsOfInv DEF Orderly, Calm
<1>2. written = DOMAIN visits
  BY <1>1, ConjunctsOfInv DEF Placed
<1>3. \A d, k : Counted(d, k) = Written(d, k)
  BY <1>1, <1>2 DEF Counted, Written
<1> QED BY <1>1, <1>2, <1>3, FiniteCounted

LEMMA UsageFromInv ==
  ASSUME TelemetryInv, CountInv
  PROVE  UsageMatchesEvents
<1> SUFFICES ASSUME Calm, NEW d \in Days
             PROVE  LET views == Written(d, "page_view") IN
                    /\ usage[d]["views"] = Cardinality(views)
                    /\ usage[d]["matches"] = Cardinality(Written(d, "match_result"))
                    /\ usage[d]["moods"] = Cardinality(Written(d, "mood_feedback"))
                    /\ usage[d]["sessions"] = Cardinality({r \in views : visits[r].session = r})
                    /\ Cardinality({r \in views : ComesBack(r, RawRetention - RequestTime)}) <= usage[d]["returning"]
                    /\ Cardinality({r \in views : ComesBack(r, MaxTime)}) >= usage[d]["returning"]
  BY DEF UsageMatchesEvents
<1> DEFINE views == Written(d, "page_view")
<1>1. Orderly /\ \A k : Counted(d, k) = Written(d, k) /\ IsFiniteSet(Written(d, k))
  BY CalmCounts
<1>2. Opening(d) = {r \in views : visits[r].session = r}
      /\ \A window : Returning(d, window) = {r \in views : ComesBack(r, window)}
  BY <1>1 DEF Opening, Returning
<1>3. Cardinality({r \in views : ComesBack(r, MaxTime)}) \in Nat
  BY <1>1, FS_Subset, FS_CardinalityType
<1>4. usage[d]["returning"] \in Nat
  BY ConjunctsOfInv DEF TelemetryTypeOK, Counts
<1>5. /\ usage[d]["views"] = Cardinality(views)
      /\ usage[d]["matches"] = Cardinality(Written(d, "match_result"))
      /\ usage[d]["moods"] = Cardinality(Written(d, "mood_feedback"))
      /\ usage[d]["sessions"] = Cardinality({r \in views : visits[r].session = r})
  BY <1>1, <1>2 DEF CountInv
<1>6. /\ Cardinality({r \in views : ComesBack(r, RawRetention - RequestTime)}) <= usage[d]["returning"]
      /\ usage[d]["returning"] <= Cardinality({r \in views : ComesBack(r, MaxTime)})
  BY <1>1, <1>2 DEF CountInv, Remembered
<1> HIDE DEF views
<1>7. Cardinality({r \in views : ComesBack(r, MaxTime)}) >= usage[d]["returning"]
  BY <1>3, <1>4, <1>6
<1> QED BY <1>5, <1>6, <1>7 DEF views

(* Some event of a visitor's day is the first.                              *)
LEMMA FirstExists ==
  ASSUME TelemetryInv, NEW r \in written
  PROVE  \E q \in written : /\ Of(q, r) /\ DayOf(visits[q].at) = DayOf(visits[r].at)
                            /\ FirstOfDay(q)
<1> DEFINE Came == {q \in written : Of(q, r) /\ DayOf(visits[q].at) = DayOf(visits[r].at)}
<1>1. written \subseteq 1..Len(visits) /\ Len(visits) \in Nat
  BY Visits DEF TelemetryInv, TelemetryTypeOK
<1>2. r \in Came
  BY DEF Of
<1>3. \E q \in Came : \A k \in Came : q <= k
  <2> DEFINE n == Len(visits)
             Back == {n - q : q \in Came}
  <2>1. n \in Nat /\ \A q \in Came : q \in 1..n
    BY <1>1
  <2> HIDE DEF n, Came
  <2>2. Back \subseteq 0..n /\ Back # {}
    BY <1>2, <2>1
  <2> HIDE DEF Back
  <2>3. PICK m \in Back : \A k \in Back : k <= m
    BY <2>1, <2>2, Greatest
  <2>4. PICK q \in Came : m = n - q
    BY DEF Back
  <2>5. \A k \in Came : n - k <= n - q
    BY <2>3, <2>4 DEF Back
  <2> QED BY <2>1, <2>5
<1>4. PICK q \in Came : \A k \in Came : q <= k
  BY <1>3
<1>5. \A k \in written : Of(k, q) /\ DayOf(visits[k].at) = DayOf(visits[q].at) => k \in Came
  BY <1>4 DEF Of
<1> QED BY <1>4, <1>5 DEF FirstOfDay

(* The first events of a day name each visitor once; who has no match that  *)
(* day has a page view for his first event.                                 *)
LEMMA VisitorsFromInv ==
  ASSUME TelemetryInv, CountInv
  PROVE  NoVisitorCountedTwice
<1> SUFFICES ASSUME Calm, NEW d \in Days
             PROVE  LET Seen(kind) == {visits[r].visitor : r \in Written(d, kind)} IN
                    /\ usage[d]["visitors"] <= Cardinality(Seen("page_view"))
                    /\ usage[d]["visitors"] >= Cardinality(Seen("page_view") \ Seen("match_result"))
  BY DEF NoVisitorCountedTwice
<1> DEFINE Seen(kind) == {visits[r].visitor : r \in Written(d, kind)}
           viewers == Seen("page_view")
           matched == Seen("match_result")
           first == FirstVisitors(d)
<1>1. Orderly /\ \A k : Counted(d, k) = Written(d, k) /\ IsFiniteSet(Written(d, k))
  BY CalmCounts
<1>2. usage[d]["visitors"] = Cardinality(first)
  BY <1>1 DEF CountInv
<1>3. first \subseteq viewers
  BY <1>1 DEF FirstVisitors
<1>4. viewers \ matched \subseteq first
  <2> SUFFICES ASSUME NEW r \in Written(d, "page_view"), visits[r].visitor \notin matched
               PROVE  visits[r].visitor \in first
    OBVIOUS
  <2>1. r \in written /\ visits[r].kind = "page_view" /\ DayOf(visits[r].at) = d
    BY DEF Written
  <2>2. PICK q \in written : /\ Of(q, r) /\ DayOf(visits[q].at) = d /\ FirstOfDay(q)
    BY <2>1, FirstExists
  <2>3. \A x \in written : /\ visits[x].kind \in {"page_view", "match_result", "mood_feedback"}
                           /\ visits[x].visitor # Nobody <=> visits[x].kind # "mood_feedback"
    BY CalmCounts, ConjunctsOfInv, RequestFields DEF Kinds, TelemetryTypeOK
  <2>4. visits[q].visitor = visits[r].visitor
    BY <2>2 DEF Of
  <2>5. visits[q].kind = "page_view"
    BY <2>1, <2>2, <2>3, <2>4 DEF Written
  <2> QED BY <1>1, <2>2, <2>4, <2>5 DEF FirstVisitors, Written
<1>5. IsFiniteSet(viewers)
  <2> DEFINE views == Written(d, "page_view")
             who == [r \in views |-> visits[r].visitor]
  <2>1. who \in Surjection(views, viewers)
    BY DEF Surjection
  <2> QED BY <1>1, <2>1, FS_Surjection
<1> HIDE DEF viewers, matched, first
<1>6. /\ IsFiniteSet(first) /\ Cardinality(first) <= Cardinality(viewers)
      /\ Cardinality(viewers \ matched) <= Cardinality(first)
  BY <1>3, <1>4, <1>5, FS_Subset
<1>7. Cardinality(first) \in Nat /\ Cardinality(viewers \ matched) \in Nat
  BY <1>5, <1>6, FS_Subset, FS_CardinalityType
<1>8. usage[d]["visitors"] <= Cardinality(viewers) /\ usage[d]["visitors"] >= Cardinality(viewers \ matched)
  BY <1>2, <1>6, <1>7
<1> QED BY <1>8 DEF viewers, matched

-----------------------------------------------------------------------------
(* The totals of a report.                                                  *)

LEMMA DaysFollow ==
  /\ \A t \in Int : DayOf(t) \in Int /\ UpperDay(t) = DayOf(t) + 1
  /\ \A s, t \in Int : s <= t => DayOf(s) <= DayOf(t)
<1>1. PICK D \in Nat \ {0} : D = DayLength
  BY Windows2
<1>2. \A t \in Int : t \div D \in Int /\ t % D \in 0..(D - 1) /\ t = D * (t \div D) + (t % D)
  OBVIOUS
<1>3. ASSUME NEW a \in Int, NEW b \in Int, NEW s \in 0..(D - 1), NEW t \in 0..(D - 1),
             D * a + s <= D * b + t
      PROVE  a <= b
  <2> SUFFICES ASSUME a >= b + 1 PROVE FALSE
    OBVIOUS
  <2>1. D * a >= D * (b + 1)
    OBVIOUS
  <2> QED BY <1>3, <2>1
<1>4. ASSUME NEW t \in Int PROVE (t + D) \div D = t \div D + 1
  <2>1. PICK a \in Int, r \in 0..(D - 1) : a = t \div D /\ t = D * a + r
    BY <1>2
  <2>2. PICK b \in Int, q \in 0..(D - 1) : b = (t + D) \div D /\ t + D = D * b + q
    BY <1>2
  <2>3. D * (a + 1) + r = D * b + q
    BY <2>1, <2>2
  <2>4. a + 1 <= b /\ b <= a + 1
    BY <1>3, <2>3
  <2> QED BY <2>1, <2>2, <2>4
<1>5. ASSUME NEW s \in Int, NEW t \in Int, s <= t PROVE s \div D <= t \div D
  <2>1. PICK a \in Int, r \in 0..(D - 1) : a = s \div D /\ s = D * a + r
    BY <1>2
  <2>2. PICK b \in Int, q \in 0..(D - 1) : b = t \div D /\ t = D * b + q
    BY <1>2
  <2> QED BY <1>3, <1>5, <2>1, <2>2
<1> QED BY <1>1, <1>2, <1>4, <1>5 DEF DayOf, UpperDay

ViewsOf(days) == {r \in written : visits[r].kind = "page_view" /\ DayOf(visits[r].at) \in days}

(* What the days of a report add up to are the views of these days.         *)
LEMMA TotalOfViews ==
  ASSUME TelemetryInv, Calm, UsageMatchesEvents, NEW from, NEW to
  PROVE  /\ IsFiniteSet(ViewsOf(DaysOfReport(from, to)))
         /\ Total("views", from, to) = Cardinality(ViewsOf(DaysOfReport(from, to)))
<1> DEFINE days == DaysOfReport(from, to)
           rows == ViewsOf(days)
           n(x) == usage[x]["views"]
           views(x) == Written(x, "page_view")
           pairs == UNION {{d} \X (1..n(d)) : d \in days}
<1>1. IsFiniteSet(written)
  BY Visits, FS_Interval, FS_Subset DEF TelemetryInv, TelemetryTypeOK
<1>2. IsFiniteSet(rows)
  BY <1>1, FS_Subset DEF ViewsOf
<1>3. \A d \in days : IsFiniteSet(views(d)) /\ n(d) = Cardinality(views(d))
  BY <1>1, FS_Subset DEF Written, DaysOfReport, UsageMatchesEvents
<1>4. \A d \in days : ExistsBijection(views(d), 1..n(d))
  <2> SUFFICES ASSUME NEW d \in days PROVE ExistsBijection(views(d), 1..n(d))
    OBVIOUS
  <2>1. IsFiniteSet(views(d)) /\ n(d) \in Nat /\ n(d) = Cardinality(views(d))
    BY <1>3, FS_CardinalityType
  <2>2. IsFiniteSet(1..n(d)) /\ Cardinality(1..n(d)) = n(d)
    BY <2>1, FS_Interval
  <2> HIDE DEF n, views
  <2> QED BY <2>1, <2>2, FS_SameCardinalityBij
<1> DEFINE Rank(x) == CHOOSE f : f \in Bijection(views(x), 1..n(x))
           Day(r) == DayOf(visits[r].at)
           place == [r \in rows |-> <<Day(r), Rank(Day(r))[r]>>]
<1>5. \A d \in days : Rank(d) \in Bijection(views(d), 1..n(d))
  BY <1>4 DEF ExistsBijection
<1>6. \A r \in rows : Day(r) \in days /\ r \in views(Day(r))
  BY DEF ViewsOf, Written
<1>7. \A d \in days : \A r \in views(d) : r \in rows /\ Day(r) = d
  BY DEF ViewsOf, Written
<1>8. \A d \in days :
        /\ \A r \in views(d) : Rank(d)[r] \in 1..n(d)
        /\ \A q, r \in views(d) : Rank(d)[q] = Rank(d)[r] => q = r
        /\ \A k \in 1..n(d) : \E r \in views(d) : Rank(d)[r] = k
  BY <1>5 DEF Bijection, Injection, Surjection, IsInjective
<1> HIDE DEF rows, views, n, days, Rank, Day
<1>9. place \in Injection(rows, pairs)
  <2>1. \A r \in rows : place[r] \in pairs
    BY <1>6, <1>8
  <2>2. \A q, r \in rows : place[q] = place[r] => q = r
    BY <1>6, <1>8
  <2> QED BY <2>1, <2>2 DEF Injection, IsInjective
<1>10. place \in Surjection(rows, pairs)
  <2>1. ASSUME NEW x \in pairs PROVE \E r \in rows : place[r] = x
    <3>1. PICK d \in days : \E j \in 1..n(d) : x = <<d, j>>
      OBVIOUS
    <3>2. PICK k \in 1..n(d) : x = <<d, k>>
      BY <3>1
    <3>3. PICK r \in views(d) : Rank(d)[r] = k
      BY <1>8
    <3> QED BY <1>7, <3>2, <3>3
  <2> QED BY <1>9, <2>1 DEF Injection, Surjection
<1>11. ExistsBijection(rows, pairs)
  BY <1>9, <1>10 DEF ExistsBijection, Bijection
<1> QED BY <1>2, <1>11, FS_Bijection DEF Total, rows, n, days

(* The days of a report hold its views, and no others are counted.          *)
LEMMA ReportsFromInv ==
  ASSUME TelemetryInv, UsageMatchesEvents
  PROVE  ReportsCountEveryView
<1> SUFFICES ASSUME Calm, NEW from \in Int, NEW to \in Int, to <= now
             PROVE  LET views == {r \in written : visits[r].kind = "page_view"} IN
                    /\ Total("views", from, to) >=
                         Cardinality({r \in views : from <= visits[r].at /\ visits[r].at <= to})
                    /\ Total("views", from, to) <=
                         Cardinality({r \in views : DayOf(visits[r].at) \in DayOf(from)..DayOf(to)})
  <2>1. now \in Nat /\ \A p \in Periods : p \in Nat
    BY PeriodsAreDays DEF TelemetryInv, Times
  <2>2. \A w \in Windows : \E p \in Periods : w = <<now - p, now>> \/ w = <<now - 2 * p, now - p>>
    BY DEF Windows
  <2>3. \A w \in Windows : w[1] \in Int /\ w[2] \in Int /\ w[2] <= now
    BY <2>1, <2>2
  <2> QED BY <2>3 DEF ReportsCountEveryView
<1> DEFINE views == {r \in written : visits[r].kind = "page_view"}
           during == {r \in views : from <= visits[r].at /\ visits[r].at <= to}
           ofDays == {r \in views : DayOf(visits[r].at) \in DayOf(from)..DayOf(to)}
           counted == ViewsOf(DaysOfReport(from, to))
<1>1. DayOf(from) \in Int /\ DayOf(to) \in Int /\ UpperDay(to) = DayOf(to) + 1
  BY DaysFollow
<1>2. ASSUME NEW r \in written
      PROVE  visits[r].at \in Int /\ DayOf(visits[r].at) \in Days /\ DayOf(visits[r].at) \in Int
  <2>1. r \in DOMAIN visits /\ Placed(r)
    BY DEF TelemetryInv, TelemetryTypeOK
  <2>2. visits[r].at \in Times /\ visits[r].at \in Int
    BY <2>1, Visits, RequestFields DEF TelemetryInv, Times
  <2> QED BY <2>2, DaysFollow DEF Days
<1>3. during \subseteq counted
  <2> SUFFICES ASSUME NEW r \in during PROVE r \in counted
    OBVIOUS
  <2>1. DayOf(from) <= DayOf(visits[r].at) /\ DayOf(visits[r].at) <= DayOf(to)
    BY <1>2, DaysFollow
  <2> QED BY <1>1, <1>2, <2>1 DEF ViewsOf, DaysOfReport
<1>4. counted \subseteq ofDays
  BY <1>1, <1>2 DEF ViewsOf, DaysOfReport
<1>5. IsFiniteSet(counted) /\ Total("views", from, to) = Cardinality(counted)
  BY TotalOfViews
<1>6. IsFiniteSet(ofDays)
  BY Visits, FS_Interval, FS_Subset DEF TelemetryInv, TelemetryTypeOK
<1> HIDE DEF counted, during, ofDays
<1>7. /\ Cardinality(during) <= Cardinality(counted) /\ Cardinality(counted) <= Cardinality(ofDays)
      /\ Cardinality(during) \in Nat /\ Cardinality(counted) \in Nat
  BY <1>3, <1>4, <1>5, <1>6, FS_Subset, FS_CardinalityType
<1>8. Total("views", from, to) >= Cardinality(during) /\ Total("views", from, to) <= Cardinality(ofDays)
  BY <1>5, <1>7
<1> QED BY <1>8 DEF during, ofDays

-----------------------------------------------------------------------------
(* Every step of the telemetry, and every step of the others that it sees.  *)

TelemetryIInv == TelemetryInv /\ SessionInv /\ CountInv /\ FoundOut

LEMMA TelemetryIInit ==
  ASSUME TelemetryInit, now = 0 PROVE TelemetryIInv
BY InvInit, SessionInit, CountInit DEF TelemetryIInv

LEMMA TelemetryISteps ==
  ASSUME TelemetryIInv, TelemetryNext, now' = now
  PROVE  TelemetryIInv'
<1>1. TelemetryInv /\ SessionInv /\ CountInv /\ FoundOut
  BY DEF TelemetryIInv
<1>2. ASSUME NEW kind \in Kinds, NEW v \in Visitors \cup {Nobody}, Arrive(kind, v) PROVE TelemetryIInv'
  BY <1>1, <1>2, InvArrive, SessionArrive, CountArrive DEF TelemetryIInv
<1>3. ASSUME NEW r \in DOMAIN visits, LookToday(r) PROVE TelemetryIInv'
  BY <1>1, <1>3, InvLookToday, SessionLookToday, CountLookToday DEF TelemetryIInv
<1>4. ASSUME NEW r \in DOMAIN visits, LastEvent(r) PROVE TelemetryIInv'
  BY <1>1, <1>4, InvLastEvent, SessionLastEvent, CountLastEvent DEF TelemetryIInv
<1>5. ASSUME NEW r \in DOMAIN visits, SessionStart(r) PROVE TelemetryIInv'
  BY <1>1, <1>5, InvSessionStart, SessionSessionStart, CountSessionStart DEF TelemetryIInv
<1>6. ASSUME NEW r \in DOMAIN visits, InsertEvent(r) PROVE TelemetryIInv'
  BY <1>1, <1>6, InvInsertEvent, SessionInsertEvent, CountInsertEvent DEF TelemetryIInv
<1>7. ASSUME NEW r \in DOMAIN visits, Count(r) PROVE TelemetryIInv'
  BY <1>1, <1>7, InvCount, SessionCount, CountCount DEF TelemetryIInv
<1>8. ASSUME NEW r \in DOMAIN visits, MaybePurge(r) PROVE TelemetryIInv'
  BY <1>1, <1>8, InvMaybePurge, SessionCount, CountMaybePurge DEF TelemetryIInv
<1>9. ASSUME NEW r \in DOMAIN visits, FailRequest(r) PROVE TelemetryIInv'
  BY <1>1, <1>9, InvFailRequest, SessionCount, CountFailRequest DEF TelemetryIInv
<1> QED BY <1>2, <1>3, <1>4, <1>5, <1>6, <1>7, <1>8, <1>9 DEF TelemetryNext

LEMMA TelemetryITick ==
  ASSUME TelemetryIInv, Tick, RequestsAreShort, UNCHANGED telemetry
  PROVE  TelemetryIInv'
BY InvTick, SessionOther, CountOther DEF TelemetryIInv, telemetry

LEMMA TelemetryIPurge ==
  ASSUME TelemetryIInv, NEW t \in 0..now, events' = events \ Aged(t) \/ events' = events,
         UNCHANGED <<now, visits, written, usage, overlapped>>
  PROVE  TelemetryIInv'
BY InvPurge, SessionOther, CountOther DEF TelemetryIInv

LEMMA TelemetryIStutter ==
  ASSUME TelemetryIInv, UNCHANGED <<now, telemetry>>
  PROVE  TelemetryIInv'
<1>1. now \in 0..now
  BY ConjunctsOfInv DEF TelemetryIInv
<1> QED BY <1>1, TelemetryIPurge DEF telemetry

(* What the invariant says of the reports.                                  *)
LEMMA TelemetryIFacts ==
  ASSUME TelemetryIInv
  PROVE  /\ TelemetryTypeOK /\ now \in Times
         /\ ExactMeansExact /\ SessionsWithinLimits
         /\ UsageMatchesEvents /\ NoVisitorCountedTwice /\ ReportsCountEveryView
BY ExactFromInv, SessionsFromInv, UsageFromInv, VisitorsFromInv, ReportsFromInv DEF TelemetryIInv, TelemetryInv
=============================================================================
