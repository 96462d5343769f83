------------------------------ MODULE Publishing ------------------------------
(***************************************************************************)
(* The drafts of Studio, published: a publication reserves a revision,     *)
(* takes a snapshot of the drafts while they are being edited, compiles it *)
(* (Compiler) and becomes the site; visitors then ask questions.           *)
(*                                                                         *)
(* The snapshot is one step: it is a REPEATABLE READ transaction.  The     *)
(* lists it reads are ordered by position only, so that items of equal     *)
(* position come in any order.  Locks and addresses are in PublicAddress.  *)
(***************************************************************************)
EXTENDS Studio, Sequences, Functions

CONSTANTS Resolvable, MaxRevision   \* bound: publications

C == INSTANCE Compiler WITH Nothing <- None

(* The articles of a page, and their blocks.                                *)
PageBlocks == [id : BlockIds, type : {"text", "image"}, asset : Assets \cup {None}]
PageArticles == [id : Items, date : Nat, blocks : Seq(PageBlocks), asset : Assets \cup {None}]

ASSUME NoneIsNoArticle == None \notin PageArticles
ASSUME MaxRevisionIsNatural == MaxRevision \in Nat
ASSUME IdsAreFinite == IsFiniteSet(Items) /\ IsFiniteSet(BlockIds)
ASSUME IdsAreOrdered == Items \subseteq Nat   \* uuids, compared to sort the knowledge

VARIABLES
  last,      \* the last revision reserved
  running,   \* revisions that are being published
  pages,     \* manifests, by revision
  site,      \* the active revision, 0 before the first
  visitor,   \* what a visitor was shown: a revision and its questions
  answer     \* the question of the knowledge his query matched, or None

publishing == <<last, running, pages, site, visitor, answer>>
vars == <<studio, publishing>>
Revisions == 1..MaxRevision

-----------------------------------------------------------------------------
(* The snapshot, as a candidate.                                            *)

Kind(i) == rows[i].body.kind
Present == {i \in Items : Exists(i)}
Used == UNION {Ids(children[i]) : i \in Items}
Parent(b) == CHOOSE i \in Items : children[i][b] # None

(* Some order of the rows, each once; then "order by position", for the     *)
(* items of a domain and for the children of an item.                       *)
Listings(S) == Bijection(1..Cardinality(S), S)
Orders == {s \in Listings(Present) : \A j, k \in DOMAIN s :
             j < k /\ Kind(s[j]) = Kind(s[k]) => rows[s[j]].position <= rows[s[k]].position}
MediaOrders == {s \in Listings(Used) : \A j, k \in DOMAIN s :
                  j < k /\ Parent(s[j]) = Parent(s[k]) =>
                    children[Parent(s[j])][s[j]].position <= children[Parent(s[k])][s[k]].position}

Medium(i, b) == [id |-> b, asset |-> children[i][b].asset, position |-> children[i][b].position]
Entry(i, mediaOrder) ==
  LET Owns(b) == children[i][b] # None
      Mapped(b) == Medium(i, b)
  IN  [id |-> i, body |-> rows[i].body, position |-> rows[i].position,
       media |-> C!Each(C!Filter(mediaOrder, Owns), Mapped)]
Entries(order, mediaOrder) == LET Mapped(i) == Entry(i, mediaOrder) IN C!Each(order, Mapped)
Domain(kind, entries) == LET Is(entry) == entry.body.kind = kind IN C!Filter(entries, Is)

(* buildSnapshot and buildCandidate                                         *)
Candidate(order, mediaOrder) ==
  LET entries == Entries(order, mediaOrder)
  IN  [articles |-> Domain("article", entries), questions |-> Domain("question", entries),
       milestones |-> Domain("milestone", entries), team |-> Domain("member", entries),
       sections |-> Domain("section", entries), ambassadors |-> Domain("ambassador", entries),
       spaces |-> Domain("space", entries), home |-> ReadHome.fields]
Candidates == {Candidate(o, m) : o \in Orders, m \in MediaOrders}

-----------------------------------------------------------------------------
(* What the site knows.                                                     *)

AsPublished(questions) == questions   \* mutant of Sorted: entries keep the order of the page
Sorted(questions) == LET ById(a, b) == a.id < b.id IN C!StableSort(questions, ById)

(* The corpus of a page, and the entries that can be asked about: those     *)
(* with a question and an answer.                                           *)
Corpus(page) == Sorted(page.questions)
Knowledge(page) ==
  LET Complete(q) == q.question # "" /\ q.answer # "" IN C!Filter(Corpus(page), Complete)

-----------------------------------------------------------------------------
(* Transaction 1: the next revision.                                        *)
Reserve ==
  /\ last < MaxRevision
  /\ last' = last + 1
  /\ running' = running \cup {last + 1}
  /\ UNCHANGED <<studio, pages, site, visitor, answer>>

(* Transaction 2 and the compilation.                                       *)
Snapshot(r) == \E c \in Candidates :
  /\ r \in running /\ pages[r] = None
  /\ pages' = [pages EXCEPT ![r] = C!Compile(c)]
  /\ UNCHANGED <<studio, last, running, site, visitor, answer>>

AnyRunning(r) == r \in running   \* mutant of Compiled: the activation does not wait for the page
Compiled(r) == r \in running /\ pages[r] # None

(* Transaction 3: the page becomes the site, whichever revision that was.   *)
Activate(r) ==
  /\ Compiled(r)
  /\ running' = running \ {r}
  /\ site' = r
  /\ UNCHANGED <<studio, last, pages, visitor, answer>>

(* The publication fails, or the process stops, before it is active.        *)
Abandon(r) ==
  /\ r \in running
  /\ running' = running \ {r}
  /\ UNCHANGED <<studio, last, pages, site, visitor, answer>>

(* GET knowledge                                                            *)
ShowKnowledge ==
  /\ site # 0
  /\ visitor' = [revision |-> site, shown |-> C!Elements(Knowledge(pages[site]))]
  /\ answer' = None
  /\ UNCHANGED <<studio, last, running, pages, site>>

AnyRevision(v) == TRUE   \* mutant of SameRevision: the revision of the request is not read
SameRevision(v) == v.revision = site

(* POST match: the matcher covers the query with one entry or none; a       *)
(* request made from another revision is not answered.                      *)
Ask ==
  /\ visitor # None
  /\ \E q \in C!Elements(Knowledge(pages[site])) \cup {None} :
       answer' = IF SameRevision(visitor) THEN q ELSE None
  /\ UNCHANGED <<studio, last, running, pages, site, visitor>>

PublishingInit ==
  /\ last = 0
  /\ running = {}
  /\ pages = [r \in Revisions |-> None]
  /\ site = 0
  /\ visitor = None
  /\ answer = None

Init == StudioInit /\ PublishingInit
Next ==
  \/ StudioNext /\ UNCHANGED publishing
  \/ Reserve \/ ShowKnowledge \/ Ask
  \/ \E r \in Revisions : Snapshot(r) \/ Activate(r) \/ Abandon(r)
Spec == Init /\ [][Next]_vars

-----------------------------------------------------------------------------
(* Every variable has its type: the active revision is one that has a page, *)
(* whatever the order in which publications end.                            *)
TypeOK ==
  /\ StudioTypeOK
  /\ last \in 0..MaxRevision
  /\ running \in SUBSET (1..last)
  /\ site \in 0..last /\ (site # 0 => pages[site] # None)
  /\ visitor # None => visitor.revision \in 1..last
  /\ answer # None => visitor # None

(* Every page a publication could produce now.                              *)
Previews == {C!Compile(c) : c \in Candidates}
Manifests == {pages[r] : r \in Revisions} \ {None}

(* The warning "the featured article no longer exists" tells the truth: the *)
(* article it names was deleted.  It was an article of the project when it  *)
(* was chosen, however the choice and the deletion interleaved.             *)
WarningMeansDeleted == \A page \in Previews \cup Manifests :
  page.home.missing # None => rows[page.home.missing] = Gone

(* A home page leads with a published article whenever there is one, never  *)
(* shows it twice, and the second article is the newest of the others.      *)
HomeLeadsWithNews == \A page \in Previews :
  LET news == C!Elements(page.news)
      top == page.home
  IN  /\ top.featured = None <=> news = {}
      /\ top.featured # None => top.featured \in news
      /\ top.latest = None <=> Cardinality(news) <= 1
      /\ top.latest # None =>
           /\ top.latest \in news \ {top.featured}
           /\ \A a \in news \ {top.featured} : a.date <= top.latest.date

(* The progress shown agrees with the milestones shown: the step exists, it *)
(* is the milestone the home page calls "now" when there is one, and the    *)
(* percentage is 100 when all are done and 0 before anything starts.        *)
ProgressMatchesMilestones == \A page \in Previews :
  LET milestones == page.timeline.milestones
      progress == page.timeline.progress
      All(status) == \A m \in C!Elements(milestones) : m.status = status
  IN  /\ progress.percent \in 0..100
      /\ milestones # <<>> =>
           /\ progress.step \in 1..Len(milestones)
           /\ page.home.now # None => milestones[progress.step] = page.home.now
           /\ All("done") => progress.percent = 100
           /\ All("future") => progress.percent = 0 /\ page.home.next = milestones[progress.step]

(* The knowledge depends on the questions only, never on the order in which *)
(* the page happens to list them: publications with the same questions have *)
(* the same corpus, hence the same fingerprint.                             *)
KnowledgeFollowsQuestions == \A p, q \in Previews \cup Manifests :
  C!Elements(p.questions) = C!Elements(q.questions) => Corpus(p) = Corpus(q)

(* A visitor is only ever answered from the questions he was shown, though  *)
(* the site may be published again between the two.                         *)
AnswersComeFromWhatWasShown == answer # None => answer \in visitor.shown
=============================================================================
