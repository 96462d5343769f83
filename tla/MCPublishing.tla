----------------------------- MODULE MCPublishing -----------------------------
(***************************************************************************)
(* Small instances of Publishing for TLC.  A run starts from several small *)
(* projects, each of which exercises some domains; what a start does not   *)
(* exercise is deleted, at its last version, or out of revisions.          *)
(***************************************************************************)
EXTENDS Publishing, TLC

CONSTANTS a1, a2

Article(date) == [kind |-> "article", date |-> date]
Question(q, a) == [kind |-> "question", question |-> q, answer |-> a]
Milestone(status) == [kind |-> "milestone", status |-> status]
Section(type, enabled) == [kind |-> "section", type |-> type, enabled |-> enabled]
Ambassador(contactable, channel, photo) ==
  [kind |-> "ambassador", contactable |-> contactable, contact |-> "address",
   channel |-> channel, photo |-> photo]

MCBodies ==
  {Article(0), Article(1), Article(2), Question("a", "x"), Question("b", "x"), Question("b", ""),
   Milestone("done"), Milestone("current"), Milestone("future"),
   Section("timeline", TRUE), Section("timeline", FALSE), Section("team", FALSE),
   Section("gallery", TRUE), Ambassador(TRUE, "email", a2), Ambassador(FALSE, None, None),
   [kind |-> "member", photo |-> a1], [kind |-> "space", status |-> None]}
MCChildren == {[position |-> 1, asset |-> a1], [position |-> 1, asset |-> a2]}

At(body, position, version) == [body |-> body, position |-> position, version |-> version]
SettledHome == [fields |-> Unwritten.fields, version |-> MaxVersion]

Start(items, homePage, reserved) ==
  /\ rows = items
  /\ home = homePage
  /\ last = reserved

(* One article with a block, edited by two.                                 *)
ArticleStart ==
  /\ Start(<<At(Article(1), 1, 1), Gone, Gone>>, SettledHome, MaxRevision)
  /\ children \in {[i \in Items |-> IF i = 1 THEN [Empty EXCEPT ![b] = c] ELSE Empty] :
                     b \in BlockIds, c \in MCChildren}

(* The home page chooses an article that may be deleted meanwhile.          *)
HomeStart ==
  /\ Start(<<At(Article(1), 1, MaxVersion), At(Milestone("done"), 1, MaxVersion), Gone>>,
           None, MaxRevision)
  /\ children = [i \in Items |-> Empty]

(* Publications that overtake each other, and a question deleted between.   *)
QuestionStart ==
  /\ Start(<<At(Question("a", "x"), 1, MaxVersion), Gone, Gone>>, SettledHome, 0)
  /\ children = [i \in Items |-> Empty]

(* A question that changes between publications, under a visitor's eyes.    *)
VisitStart ==
  /\ Start(<<At(Question("a", "x"), 1, 1), Gone, Gone>>, SettledHome, 1)
  /\ children = [i \in Items |-> Empty]

(* What the pages derive from several items, some of them deleted.          *)
NewsStart ==
  /\ \E d \in {<<0, 1, 2>>, <<2, 1, 2>>, <<0, 0, 1>>} :
       Start([i \in Items |-> At(Article(d[i]), IF i = 3 THEN 2 ELSE 1, MaxVersion)],
             SettledHome, MaxRevision)
  /\ children = [i \in Items |-> Empty]
MilestoneStart ==
  /\ \E s \in {<<"done", "current", "future">>, <<"current", "current", "future">>,
               <<"future", "done", "current">>, <<"done", "done", "done">>,
               <<"future", "future", "future">>} :
       Start([i \in Items |-> At(Milestone(s[i]), IF i = 3 THEN 2 ELSE 1, MaxVersion)],
             SettledHome, MaxRevision)
  /\ children = [i \in Items |-> Empty]
MixedStart ==
  /\ \E bodies \in {<<Section("timeline", FALSE), Section("timeline", TRUE), Section("team", FALSE)>>,
                    <<Question("a", "x"), Question("b", ""), Question("b", "x")>>} :
       Start([i \in Items |-> At(bodies[i], IF i = 3 THEN 2 ELSE 1, MaxVersion)],
             SettledHome, MaxRevision)
  /\ children = [i \in Items |-> Empty]

(* A first item, of any kind.                                               *)
CreationStart ==
  /\ Start(<<None, Gone, Gone>>, SettledHome, MaxRevision)
  /\ children = [i \in Items |-> Empty]

MCInit ==
  /\ \/ ArticleStart \/ HomeStart \/ QuestionStart \/ VisitStart
     \/ CreationStart \/ NewsStart \/ MilestoneStart \/ MixedStart
  /\ drafts = [e \in Editors |-> None]
  /\ running = {}
  /\ site = IF last = 1 THEN 1 ELSE 0
  /\ \E c \in Candidates :
       pages = [r \in Revisions |-> IF r = site THEN C!Compile(c) ELSE None]
  /\ visitor = None /\ answer = None
MCSpec == MCInit /\ [][Next]_vars

Symmetric == Permutations(Editors) \cup Permutations(BlockIds)
=============================================================================
