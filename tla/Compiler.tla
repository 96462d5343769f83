------------------------------- MODULE Compiler -------------------------------
(***************************************************************************)
(* From the content of a project to the page that is published.            *)
(*                                                                         *)
(* A candidate gives, for every domain, the sequence of its items in the   *)
(* order the database listed them: [id, body, position, media], media a    *)
(* sequence of [id, asset, position]; and the intent of the home page.     *)
(* Titles, texts, labels and colours go through the compiler unchanged and *)
(* are left out; so are the checks of edition and profile, which make a    *)
(* publication fail whatever its content.                                  *)
(***************************************************************************)
EXTENDS Naturals, Sequences, FiniteSets

CONSTANTS
  Resolvable,   \* assets whose content type has a file extension
  Nothing       \* null

Each(s, F(_)) == [k \in DOMAIN s |-> F(s[k])]
First(s) == IF s = <<>> THEN Nothing ELSE s[1]
Elements(s) == {s[k] : k \in DOMAIN s}

(* The entries of s at the indices that upTo orders: upTo[k] holds those    *)
(* that come no later than k, so the entry at rank r has r of them.         *)
InOrder(s, upTo) ==
  LET Nth(r) == CHOOSE k \in DOMAIN upTo : Cardinality(upTo[k]) = r
  IN  [r \in 1..Cardinality(DOMAIN upTo) |-> s[Nth(r)]]

(* Array.prototype.filter, and sort, which is stable: equal entries keep    *)
(* the order they had.  Filter is SelectSeq without its recursion.          *)
Earlier(kept) == [k \in kept |-> {j \in kept : j <= k}]
Filter(s, Test(_)) == InOrder(s, Earlier({k \in DOMAIN s : Test(s[k])}))
StableSort(s, Precedes(_, _)) ==
  LET UpTo(k) == {j \in DOMAIN s : \/ Precedes(s[j], s[k])
                                   \/ ~Precedes(s[k], s[j]) /\ j <= k}
  IN  InOrder(s, [k \in DOMAIN s |-> UpTo(k)])
ByPosition(a, b) == a.position < b.position

-----------------------------------------------------------------------------
(* Assets, blocks, media.                                                   *)

(* publicAssetUrl and wrapAsset: no URL without an extension.               *)
AssetUrl(asset) == IF asset \in Resolvable THEN asset ELSE Nothing

CompileBlock(b) == [id |-> b.id, type |-> IF b.asset = Nothing THEN "text" ELSE "image",
                    asset |-> AssetUrl(b.asset)]

(* Media of spaces and sections: those without a URL are dropped.           *)
CompileMedia(media) ==
  LET HasUrl(m) == AssetUrl(m.asset) # Nothing
      Compiled(m) == [id |-> m.id, asset |-> AssetUrl(m.asset)]
  IN  Each(Filter(media, HasUrl), Compiled)

-----------------------------------------------------------------------------
(* News.                                                                    *)

(* The cover is the first image that has a URL.                             *)
CompileArticle(a) ==
  LET blocks == Each(a.media, CompileBlock)
      Illustrates(b) == b.type = "image" /\ b.asset # Nothing
      images == Filter(blocks, Illustrates)
  IN  [id |-> a.id, date |-> a.body.date, blocks |-> blocks,
       asset |-> IF images = <<>> THEN Nothing ELSE images[1].asset]

(* Most recent first, the undated last, then by position.                   *)
Newer(a, b) ==
  \/ a.body.date > b.body.date
  \/ a.body.date = b.body.date /\ a.position < b.position
CompileNews(articles) == Each(StableSort(articles, Newer), CompileArticle)

-----------------------------------------------------------------------------
(* Questions, spaces, ambassadors, team.                                    *)

CompileQuestion(q) == [id |-> q.id, question |-> q.body.question, answer |-> q.body.answer]

CompileSpace(s) ==
  LET media == CompileMedia(s.media)
  IN  [id |-> s.id, media |-> media, asset |-> First(media),
       status |-> IF s.body.status = Nothing THEN "designing" ELSE s.body.status]

(* A link is given only when the value fits its channel, which is e-mail    *)
(* unless a known one is chosen.                                            *)
ContactHref(person) ==
  LET channel == IF person.channel = Nothing THEN "email" ELSE person.channel
      fits == \/ channel = "email" /\ person.contact = "address"
              \/ channel = "phone" /\ person.contact = "number"
              \/ channel = "teams" /\ person.contact \in {"web", "teams"}
              \/ channel = "link" /\ person.contact = "web"
  IN  IF fits THEN person.contact ELSE Nothing

Contactable(person) == person.contactable
CompileAmbassador(p) ==
  [id |-> p.id, contactable |-> Contactable(p.body), photo |-> AssetUrl(p.body.photo),
   href |-> IF Contactable(p.body) THEN ContactHref(p.body) ELSE Nothing]

CompileMember(m) == [id |-> m.id, photo |-> AssetUrl(m.body.photo)]

-----------------------------------------------------------------------------
(* The project: narrative sections, timeline.                               *)

CompileSection(s) ==
  LET media == CompileMedia(StableSort(s.media, ByPosition)) IN
  IF s.body.type \in {"image", "gallery"}
  THEN [id |-> s.id, type |-> s.body.type, items |-> media]
  ELSE [id |-> s.id, type |-> s.body.type]

(* Without a marker a block is placed automatically; a marker that is       *)
(* disabled hides it, unless another one is enabled.                        *)
Visible(sections, type) ==
  LET markers == {s \in Elements(sections) : s.body.type = type}
  IN  markers = {} \/ \E s \in markers : s.body.enabled

CompileProject(sections) ==
  LET Enabled(s) == s.body.enabled
  IN  [showTimeline |-> Visible(sections, "timeline"), showTeam |-> Visible(sections, "team"),
       sections |-> Each(Filter(sections, Enabled), CompileSection)]

LastCurrent(milestones) ==   \* mutant of CurrentIndex: the last milestone in progress counts
  LET here == {k \in DOMAIN milestones : milestones[k].body.status = "current"}
  IN  IF here = {} THEN 0 ELSE CHOOSE k \in here : \A j \in here : j <= k
(* findIndex: the first milestone in progress, 0 when there is none.        *)
CurrentIndex(milestones) ==
  LET here == {k \in DOMAIN milestones : milestones[k].body.status = "current"}
  IN  IF here = {} THEN 0 ELSE CHOOSE k \in here : \A j \in here : k <= j

(* computeProgressFromMilestones: half a milestone for the one in progress, *)
(* rounded half up as Math.round does.                                      *)
Progress(milestones) ==
  LET total == Len(milestones)
      done == Cardinality({k \in DOMAIN milestones : milestones[k].body.status = "done"})
      current == CurrentIndex(milestones)
      halves == 2 * done + IF current > 0 THEN 1 ELSE 0
  IN  IF total = 0 THEN [step |-> 0, total |-> 0, percent |-> 0]
      ELSE [step |-> IF current > 0 THEN current ELSE IF done < total THEN done + 1 ELSE total,
            total |-> total,
            percent |-> (100 * halves + total) \div (2 * total)]

CompileTimeline(milestones) ==
  LET Compiled(m) == [id |-> m.id, status |-> m.body.status]
  IN  [progress |-> Progress(milestones), milestones |-> Each(milestones, Compiled)]

-----------------------------------------------------------------------------
(* The home page, and the whole.                                            *)

WithStatus(status, milestones) ==
  LET Has(m) == m.status = status IN First(Filter(milestones, Has))

FirstOfAll(featured, news) == First(news)   \* mutant of Latest: the featured article is not skipped
(* latest: the first article other than the featured one.                   *)
Latest(featured, news) ==
  LET Other(a) == featured = Nothing \/ a.id # featured.id IN First(Filter(news, Other))

(* A manual choice that no longer exists falls back on the latest article,  *)
(* with a warning that names it; one never made falls back without.         *)
CompileHome(intent, news, milestones) ==
  LET chosen == {a \in Elements(news) : a.id = intent.featured}
      manual == intent.mode = "manual" /\ intent.featured # Nothing
      featured == IF manual /\ chosen # {} THEN CHOOSE a \in chosen : TRUE ELSE First(news)
  IN  [featured |-> featured, latest |-> Latest(featured, news),
       now |-> WithStatus("current", milestones), next |-> WithStatus("future", milestones),
       missing |-> IF manual /\ chosen = {} THEN intent.featured ELSE Nothing]

Compile(c) ==
  LET news == CompileNews(c.articles)
      timeline == CompileTimeline(c.milestones)
  IN  [news |-> news, questions |-> Each(c.questions, CompileQuestion),
       spaces |-> Each(c.spaces, CompileSpace), roster |-> Each(c.ambassadors, CompileAmbassador),
       project |-> CompileProject(c.sections), timeline |-> timeline,
       team |-> Each(c.team, CompileMember),
       home |-> CompileHome(c.home, news, timeline.milestones)]
=============================================================================
