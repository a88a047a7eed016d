--------------------------------- MODULE Site ---------------------------------
(***************************************************************************)
(* The pages of the site.  A visitor opens an address; the server renders  *)
(* the layout and the page, each from requests to the public API that are  *)
(* answered one by one, from rows that editors go on changing and by a     *)
(* backend that may be away; then the page stands there with its links.    *)
(* The backend's caches are left out: it answers from the rows it has      *)
(* (VideoStore and PublicCache say when it does not).  So are the caps of  *)
(* its lists, their order and the pages of lists (Catalog).                *)
(***************************************************************************)
EXTENDS SiteData

CONSTANTS
  Rows,
  KindOf,
  SlugOf,       \* by row; a video and an episode may share one
  ParentOf,     \* its show, category or subcategory; a block's card; or NoRow
  ShowOf,       \* the show of a video, or NoRow
  Credits,      \* a person's videos and articles
  OnAir,        \* the episode that is live, or NoRow
  Queries,      \* what visitors search for,
  Matches,      \* and the rows that match
  NoRow,
  NoSlug,
  MaxEdits      \* bound: how often editors change a row

ASSUME RowsAssumption == NoRow \notin Rows
ASSUME ConstantsAssumption ==
  /\ SlugOf \in [Rows -> {SlugOf[r] : r \in Rows} \ {NoSlug}]
  /\ ParentOf \in [Rows -> Rows \cup {NoRow}] /\ ShowOf \in [Rows -> Rows \cup {NoRow}]
  /\ Credits \in [Rows -> SUBSET Rows]
  /\ Matches \in [Queries -> SUBSET Rows]

(* The tables with a unique slug, and the one foreign key a page follows   *)
(* unasked (V1__init.sql, V5__people_and_securities.sql).                  *)
Slugged == {"show", "episode", "video", "category", "subcategory", "article", "person"}

ASSUME SlugAssumption ==
  \A r, s \in Rows : KindOf[r] \in Slugged /\ KindOf[s] = KindOf[r] /\ SlugOf[s] = SlugOf[r] => s = r
ASSUME SubcategoryAssumption ==
  \A r \in Rows : KindOf[r] = "subcategory" => ParentOf[r] \in Rows /\ KindOf[ParentOf[r]] = "category"

VARIABLES
  row,          \* what is stored: published, a draft or gone; texts that are blank; a null paragraph
  up,           \* the backend answers
  edits,
  visit         \* the visitor's page

siteVars == <<row, up, edits, visit>>

Of(kind) == {r \in Rows : KindOf[r] = kind}
Stored(kind) == {r \in Of(kind) : row[r].at # "gone"}
Published(kind) == {r \in Of(kind) : row[r].at = "published"}
Children(kind, p) == {r \in Stored(kind) : ParentOf[r] = p}

-----------------------------------------------------------------------------
(***************************************************************************)
(* The public API                                                          *)
(***************************************************************************)

Dto(r) == [row |-> r, slug |-> SlugOf[r], kind |-> KindOf[r], blank |-> row[r].blank, nulls |-> row[r].nulls]

Found(body) == [status |-> 200, body |-> body, parses |-> TRUE]
Status(status) == [status |-> status, body |-> <<>>, parses |-> TRUE]

(* The row with this slug, and what is made of it; or 404.                 *)
BySlug(rows, slug) ==
  LET hits == {r \in rows : SlugOf[r] = slug} IN IF hits = {} THEN NoRow ELSE CHOOSE r \in hits : TRUE
OneOf(r, body) == IF r = NoRow THEN Status(404) ELSE Found(body)

SlotDto(s) == [row |-> s, blank |-> row[s].blank, shows |-> {ParentOf[s]} \cap Stored("show")]

(* HomeService: a block of a kind it cannot show, or whose row is gone, is *)
(* left out; one that refers to nothing is looked up all the same.         *)
CardBlocks == {b \in Stored("block") : ParentOf[b] # NoRow /\ KindOf[ParentOf[b]] \in {"episode", "video"}}
Cards == {Dto(r) : r \in {ParentOf[b] : b \in CardBlocks} \cap (Stored("episode") \cup Stored("video"))}

Home ==
  IF \E b \in CardBlocks : "refId" \in row[b].blank THEN Status(500)
  ELSE Found([liveNow |-> {Dto(e) : e \in Published("episode") \cap {OnAir}},
              featured |-> Cards, upNext |-> {},
              mostWatched |-> {Dto(v) : v \in Published("video")},
              ticker |-> {[Dto(q) EXCEPT !.kind = "up"] : q \in Stored("quote")},
              schedule |-> {SlotDto(s) : s \in Stored("slot")},
              latestArticles |-> {Dto(a) : a \in Published("article")}])

ShowBody(s) ==
  [row |-> s, blank |-> row[s].blank, hosts |-> {Dto(h) : h \in Children("host", s)},
   episodes |-> {Dto(e) : e \in Children("episode", s) \cap Published("episode")}]

CategoryBody(c) ==
  [row |-> c, slug |-> SlugOf[c], blank |-> row[c].blank,
   subcategories |-> {Dto(s) : s \in Children("subcategory", c)}]

SubcategoryBody(s) ==
  [row |-> s, parent |-> ParentOf[s],
   blank |-> row[s].blank \cup (IF "name" \in row[ParentOf[s]].blank THEN {"categoryName"} ELSE {}),
   videos |-> {Dto(v) : v \in Children("video", s) \cap Published("video")}]

ArticlesOf(slug) ==
  {a \in Published("article") : slug = NoSlug \/ (ParentOf[a] # NoRow /\ SlugOf[ParentOf[a]] = slug)}

PlayerBody(r) ==
  [row |-> r, kind |-> KindOf[r], blank |-> row[r].blank, nulls |-> row[r].nulls,
   shows |-> {IF KindOf[r] = "video" THEN ShowOf[r] ELSE ParentOf[r]} \cap Stored("show")]

(* Slip: drafts are not served, though they are linked to. *)
WatchPublished(slug) ==
  LET v == BySlug(Published("video"), slug)
      r == IF v # NoRow THEN v ELSE BySlug(Published("episode"), slug)
  IN OneOf(r, PlayerBody(r))

(* WatchService: any video of this slug, then any episode. *)
Watch(slug) ==
  LET v == BySlug(Stored("video"), slug)
      r == IF v # NoRow THEN v ELSE BySlug(Stored("episode"), slug)
  IN OneOf(r, PlayerBody(r))

(* SearchService: drafts, too.  A show's name and the others' title are    *)
(* the hit's title.                                                        *)
Hit(r) == [Dto(r) EXCEPT !.blank = IF row[r].blank = {} THEN {} ELSE {"title"}]
Hits(q) ==
  {Hit(r) : r \in Matches[q] \cap UNION {Stored(k) : k \in {"show", "episode", "video", "article"}}}

PersonBody(p) ==
  [row |-> p, blank |-> row[p].blank,
   videos |-> {Dto(v) : v \in Credits[p] \cap Published("video")},
   articles |-> {Dto(a) : a \in Credits[p] \cap Published("article")}]

Listed ==
  Stored("subcategory") \cup UNION {Published(k) : k \in {"show", "episode", "category", "video", "article"}}

(* What a backend that is up answers to a request. *)
Response(q) ==
  CASE q.op = "home" -> Home
    [] q.op = "shows" -> Found({Dto(s) : s \in Published("show")})
    [] q.op = "show" -> LET r == BySlug(Stored("show"), q.slug) IN OneOf(r, ShowBody(r))
    [] q.op = "categories" -> Found({Dto(c) : c \in Published("category")})
    [] q.op = "category" -> LET r == BySlug(Stored("category"), q.slug) IN OneOf(r, CategoryBody(r))
    [] q.op = "subcategory" -> LET r == BySlug(Stored("subcategory"), q.slug) IN OneOf(r, SubcategoryBody(r))
    [] q.op = "articles" -> Found([items |-> {Dto(a) : a \in ArticlesOf(q.slug)}])
    [] q.op = "article" -> LET r == BySlug(Stored("article"), q.slug) IN OneOf(r, Dto(r))
    [] q.op = "watch" -> Watch(q.slug)
    [] q.op = "search" -> Found(Hits(q.slug))
    [] q.op = "person" -> LET r == BySlug(Stored("person"), q.slug) IN OneOf(r, PersonBody(r))
    [] q.op = "people" -> Found({Dto(p) : p \in Stored("person")})
    [] q.op = "ticker" -> Found({[Dto(t) EXCEPT !.kind = "up"] : t \in Stored("quote")})
    [] q.op = "sitemap" -> Found({Dto(r) : r \in Listed})

(* Away: no answer, a proxy's, or one that breaks off. *)
Away == {Status(0), Status(502), [Found(<<>>) EXCEPT !.parses = FALSE]}

Answers(q) == IF up THEN {Response(q)} ELSE Away

-----------------------------------------------------------------------------
(***************************************************************************)
(* Pages: what they ask for, and what they are once it is answered         *)
(***************************************************************************)

Address(page, slug) == [page |-> page, slug |-> slug]

PageOf == [show |-> "show", episode |-> "watch", video |-> "watch", category |-> "category",
           subcategory |-> "subcategory", article |-> "article", person |-> "person"]

(* The page of a row.  A subcategory's path names its category, too, which *)
(* its page does not look at.                                              *)
PathTo(r) == Address(PageOf[KindOf[r]], SlugOf[r])
LinkTo(r) == [to |-> PathTo(r), row |-> r]
Links(dtos) == {LinkTo(d.row) : d \in dtos}
PlainLink(page, slug) == [to |-> Address(page, slug), row |-> NoRow]

Ask(op, slug) == [op |-> op, slug |-> slug]

(* The requests of layout and header, and those of a page.                 *)
LayoutAsks == {Ask("ticker", NoSlug), Ask("people", NoSlug)}

FirstAsks(to) ==
  CASE to.page = "home" -> {Ask("home", NoSlug), Ask("shows", NoSlug)}
    [] to.page = "articles" -> {Ask("categories", NoSlug), Ask("articles", to.slug)}
    [] to.page = "on-demand" -> {Ask("categories", NoSlug)}
    [] to.page = "search" -> IF to.slug = NoSlug THEN {} ELSE {Ask("search", to.slug)}
    [] OTHER -> {Ask(to.page, to.slug)}

Controller(q, answer) ==
  LET e == request(answer) IN
  CASE q.op = "home" -> getHome(e)
    [] q.op = "shows" -> getShows(e)
    [] q.op = "show" -> getShowBySlug(e)
    [] q.op = "categories" -> getCategories(e)
    [] q.op = "category" -> getCategoryBySlug(e)
    [] q.op = "subcategory" -> getSubcategoryBySlug(e)
    [] q.op = "articles" -> getArticles(e)
    [] q.op = "article" -> getArticleBySlug(e)
    [] q.op = "watch" -> getPlayerBySlug(e)
    [] q.op = "search" -> search(e)
    [] q.op = "person" -> getPersonBySlug(e)
    [] q.op = "people" -> getPeople(e)
    [] q.op = "ticker" -> getTicker(e)
    [] q.op = "sitemap" -> getSitemapEntries(e)

(* A page that is there, with its links; its title is that of generate-    *)
(* Metadata, which gets the same answers and never throws.                 *)
Rendered(links) == [result |-> "right", links |-> links]
ErrorPage == [result |-> "throws", links |-> {}]
NotFoundPage == [result |-> "notFound", links |-> {PlainLink("home", NoSlug)}]

(* All that a page asked for resolves, or the page does not.               *)
Resolved(asked, got, links) ==
  LET results == {resolveControllerResult(got[q]) : q \in asked} IN
  IF results \subseteq {"right"} THEN Rendered(links)
  ELSE IF "throws" \in results THEN ErrorPage ELSE NotFoundPage

(* The features: what they link to. *)
HomeMain(home) == Links(home.liveNow \cup home.featured) \cup {PlainLink("shows", NoSlug)}
HomeSide(home) ==
  Links(home.mostWatched) \cup {LinkTo(s) : s \in UNION {d.shows : d \in home.schedule}}
HomeShows(shows) == Links(shows) \cup {PlainLink("shows", NoSlug)}
HomeNewsroom(home) == Links(home.latestArticles) \cup {PlainLink("articles", NoSlug)}
HomeFeature(home, shows) == HomeMain(home) \cup HomeSide(home) \cup HomeShows(shows) \cup HomeNewsroom(home)
ShowsListFeature(shows) == Links(shows)
ShowDetailsFeature(show) == Links(show.episodes)
ArticlesListFeature(list, items) ==
  Links(items) \cup {PlainLink("articles", c.slug) : c \in list} \cup {PlainLink("articles", NoSlug)}
ArticleDetailsFeature(related) == Links(related) \cup {PlainLink("articles", NoSlug)}
CatalogFeature(list) == Links(list)
CategoryFeature(c) == Links(c.subcategories) \cup {PlainLink("on-demand", NoSlug)}
SubcategoryFeature(s) == Links(s.videos) \cup {LinkTo(s.parent), PlainLink("on-demand", NoSlug)}
PlayerFeature(player) == {LinkTo(s) : s \in player.shows}
SearchFeature(results) == Links(results)
PersonFeature(person) == Links(person.videos) \cup Links(person.articles)

HomePage(got) ==
  LET home == Ask("home", NoSlug)  shows == Ask("shows", NoSlug)
  IN Resolved({home, shows}, got, HomeFeature(got[home].right, got[shows].right))

ShowsPage(got) ==
  LET shows == Ask("shows", NoSlug) IN Resolved({shows}, got, ShowsListFeature(got[shows].right))

ShowDetailsPage(slug, got) ==
  LET show == Ask("show", slug) IN Resolved({show}, got, ShowDetailsFeature(got[show].right))

ArticlesPage(slug, got) ==
  LET list == Ask("categories", NoSlug)  items == Ask("articles", slug)
  IN Resolved({list, items}, got, ArticlesListFeature(got[list].right, got[items].right.items))

(* Related articles do not affect the page of the article. *)
Related(article, list) ==
  IF IsRight(list) THEN {a \in list.right.items : a.slug # article.slug} ELSE {}

ArticleDetailsPage(slug, got) ==
  LET article == Ask("article", slug) IN
  Resolved({article}, got,
           ArticleDetailsFeature(Related(got[article].right, got[Ask("articles", NoSlug)])))

OnDemandPage(got) ==
  LET list == Ask("categories", NoSlug) IN Resolved({list}, got, CatalogFeature(got[list].right))

CategoryPage(slug, got) ==
  LET c == Ask("category", slug) IN Resolved({c}, got, CategoryFeature(got[c].right))

SubcategoryPage(slug, got) ==
  LET s == Ask("subcategory", slug) IN Resolved({s}, got, SubcategoryFeature(got[s].right))

PlayerPage(slug, got) ==
  LET player == Ask("watch", slug) IN Resolved({player}, got, PlayerFeature(got[player].right))

PersonPage(slug, got) ==
  LET person == Ask("person", slug) IN Resolved({person}, got, PersonFeature(got[person].right))

(* What fails looks as if nothing matched. *)
SearchPage(slug, got) ==
  LET results == IF slug = NoSlug THEN Left("none asked") ELSE got[Ask("search", slug)]
  IN Rendered(IF IsRight(results) THEN SearchFeature(results.right) ELSE {})

(* The sitemap of the site, for crawlers: its home page if all else fails. *)
sitemap(got) ==
  LET entries == got[Ask("sitemap", NoSlug)]
  IN Rendered(IF IsRight(entries) THEN Links(entries.right) ELSE {PlainLink("home", NoSlug)})

PageAt(to, got) ==
  CASE to.page = "home" -> HomePage(got)
    [] to.page = "shows" -> ShowsPage(got)
    [] to.page = "show" -> ShowDetailsPage(to.slug, got)
    [] to.page = "articles" -> ArticlesPage(to.slug, got)
    [] to.page = "article" -> ArticleDetailsPage(to.slug, got)
    [] to.page = "on-demand" -> OnDemandPage(got)
    [] to.page = "category" -> CategoryPage(to.slug, got)
    [] to.page = "subcategory" -> SubcategoryPage(to.slug, got)
    [] to.page = "watch" -> PlayerPage(to.slug, got)
    [] to.page = "person" -> PersonPage(to.slug, got)
    [] to.page = "search" -> SearchPage(to.slug, got)
    [] to.page = "sitemap" -> sitemap(got)

Header(hosts) ==
  {PlainLink(p, NoSlug) : p \in {"home", "shows", "articles", "on-demand", "search"}} \cup Links(hosts)

(* Some of its categories are written out in the code; they may not exist. *)
Footer == {PlainLink(p, NoSlug) : p \in {"home", "shows", "articles", "on-demand"}}

(* The layout is there without ticker and hosts, too, and around an error  *)
(* or a page that was not found.                                           *)
RootLayout(page, got) ==
  LET hosts == got[Ask("people", NoSlug)]
  IN [page EXCEPT !.links = @ \cup Header(IF IsRight(hosts) THEN hosts.right ELSE {}) \cup Footer]

-----------------------------------------------------------------------------
(***************************************************************************)
(* A visit                                                                 *)
(***************************************************************************)

NoPage == [result |-> "none", links |-> {}]
NoVisit == [at |-> "away", to |-> Address("home", NoSlug), got |-> <<>>, page |-> NoPage, fresh |-> TRUE]

(* The list of related articles is asked for once the article is there.    *)
Needed(v) ==
  LET layout == IF v.to.page = "sitemap" THEN {} ELSE LayoutAsks
      article == Ask("article", v.to.slug)
      there == v.to.page = "article" /\ article \in DOMAIN v.got /\ IsRight(v.got[article])
  IN layout \cup FirstAsks(v.to) \cup (IF there THEN {Ask("articles", NoSlug)} ELSE {})

SiteInit ==
  /\ row = [r \in Rows |-> [at |-> "published", blank |-> {}, nulls |-> FALSE]]
  /\ up = TRUE
  /\ edits = 0
  /\ visit = NoVisit

(* By a link, or by an address that was kept. *)
Open(to) ==
  /\ visit.at = "away"
  /\ visit' = [NoVisit EXCEPT !.at = "reading", !.to = to]
  /\ UNCHANGED <<row, up, edits>>

Answered(q) ==
  /\ visit.at = "reading"
  /\ q \in Needed(visit) \ DOMAIN visit.got
  /\ \E answer \in Answers(q) :
       visit' = [visit EXCEPT !.got = [p \in (DOMAIN @) \cup {q} |-> IF p = q THEN Controller(q, answer) ELSE @[p]]]
  /\ UNCHANGED <<row, up, edits>>

Show ==
  /\ visit.at = "reading"
  /\ Needed(visit) \subseteq DOMAIN visit.got
  /\ LET page == PageAt(visit.to, visit.got) IN
     visit' = [visit EXCEPT !.at = "shown", !.got = <<>>,
       !.page = IF visit.to.page = "sitemap" THEN page ELSE RootLayout(page, visit.got)]
  /\ UNCHANGED <<row, up, edits>>

Leave ==
  /\ visit.at = "shown"
  /\ visit' = NoVisit
  /\ UNCHANGED <<row, up, edits>>

(* A page that stands there stays as it is: what happens meanwhile can as  *)
(* well happen once the visitor has left it.                               *)
Changed ==
  /\ visit.at # "shown"
  /\ visit' = IF visit.at = "away" THEN visit ELSE [visit EXCEPT !.fresh = FALSE]

GoesAway == up /\ up' = FALSE /\ Changed /\ UNCHANGED <<row, edits>>
ComesBack == ~up /\ up' = TRUE /\ Changed /\ UNCHANGED <<row, edits>>

-----------------------------------------------------------------------------
(***************************************************************************)
(* Editors, through the forms of the CMS                                   *)
(***************************************************************************)

(* A text that is required may be spaces; a number or a choice that is not *)
(* may be missing; a paragraph may have been added and left empty.         *)
MayBeBlank ==
  [show |-> {"name"}, host |-> {"name"}, category |-> {"name"}, subcategory |-> {"name"}, person |-> {"name"},
   episode |-> {"title"}, video |-> {"title"}, article |-> {"title"}, slot |-> {"timeEt"},
   quote |-> {"symbol"}, block |-> {"refId"}]

Edit(r, stored) ==
  /\ up /\ edits < MaxEdits
  /\ row[r].at # "gone"
  /\ row' = [row EXCEPT ![r] = stored]
  /\ edits' = edits + 1
  /\ Changed
  /\ UNCHANGED up

(* The kinds of rows that have a switch for it. *)
Publication == {"show", "episode", "category", "video", "article"}

TogglePublished(r) ==
  /\ KindOf[r] \in Publication
  /\ Edit(r, [row[r] EXCEPT !.at = IF @ = "draft" THEN "published" ELSE "draft"])

SaveBlank(r) == \E f \in MayBeBlank[KindOf[r]] : Edit(r, [row[r] EXCEPT !.blank = {f}])

SaveEmptyParagraph(r) == KindOf[r] = "article" /\ Edit(r, [row[r] EXCEPT !.nulls = TRUE])

Mend(r) == Edit(r, [row[r] EXCEPT !.blank = {}, !.nulls = FALSE])

(* With nothing that goes with it (cascades: StoreAudit). *)
Delete(r) ==
  /\ \A c \in Rows : ParentOf[c] = r /\ KindOf[c] \in {"host", "episode", "subcategory", "video"} => row[c].at = "gone"
  /\ Edit(r, [at |-> "gone", blank |-> {}, nulls |-> FALSE])

Addresses ==
  {PathTo(r) : r \in {r \in Rows : KindOf[r] \in DOMAIN PageOf}}
    \cup {Address(p, NoSlug) : p \in {"home", "shows", "articles", "on-demand", "search", "sitemap"}}
    \cup {Address("articles", SlugOf[c]) : c \in Of("category")}
    \cup {Address("search", q) : q \in Queries}

SiteNext ==
  \/ \E to \in Addresses : Open(to)
  \/ \E q \in Needed(visit) : Answered(q)
  \/ Show \/ Leave \/ GoesAway \/ ComesBack
  \/ \E r \in Rows : TogglePublished(r) \/ SaveBlank(r) \/ SaveEmptyParagraph(r) \/ Mend(r) \/ Delete(r)

SiteSpec == SiteInit /\ [][SiteNext]_siteVars

-----------------------------------------------------------------------------
(***************************************************************************)
(* Properties                                                              *)
(***************************************************************************)

Shown(result) == visit.at = "shown" /\ visit.page.result = result

(* Nothing changed since the visitor opened the page. *)
Calm == visit.fresh

Flawed(r) == row[r].blank # {} \/ row[r].nulls

(* The rows a page is about, or lists; those it only adds are not there.   *)
AboutRows(to) ==
  LET one == {r \in Rows : KindOf[r] \in DOMAIN PageOf /\ PathTo(r) = to /\ row[r].at # "gone"}
      under(kind) == {r \in Stored(kind) : ParentOf[r] \in one}
      cards == {b \in Stored("block") : TRUE} \cup {ParentOf[b] : b \in Stored("block")}
  IN CASE to.page = "home" -> cards \cup {OnAir} \cup Stored("quote") \cup Stored("slot")
                                \cup UNION {Published(k) : k \in {"show", "video", "article"}}
       [] to.page = "shows" -> Published("show")
       [] to.page = "show" -> one \cup under("host") \cup (under("episode") \cap Published("episode"))
       [] to.page = "articles" -> Published("category") \cup ArticlesOf(to.slug)
       [] to.page = "on-demand" -> Published("category")
       [] to.page = "category" -> one \cup under("subcategory")
       [] to.page = "subcategory" -> one \cup {ParentOf[s] : s \in one} \cup (under("video") \cap Published("video"))
       [] OTHER -> one

(* "Something went wrong" has a cause that the page is about: the backend  *)
(* is away, or a row it shows is flawed.  Ticker, hosts, related articles, *)
(* a person's items, hits of a search and the sitemap break no page.       *)
(* "Page not found" is said of a page whose row is gone, and of no other:  *)
(* neither an outage nor a flawed row reads like a page that has moved.    *)
FailuresHaveACause ==
  Calm =>
    /\ Shown("throws") => ~up \/ \E r \in AboutRows(visit.to) \ {NoRow} : Flawed(r)
    /\ Shown("notFound") =>
         \A r \in Rows : KindOf[r] \in DOMAIN PageOf /\ PathTo(r) = visit.to => row[r].at = "gone"

(* The row whose page an address opens now, if any. *)
Opens(to) ==
  LET answer == Response(CHOOSE q \in FirstAsks(to) : TRUE)
  IN IF answer.status = 200 THEN answer.body.row ELSE NoRow

(* A link leads to the page of the row it names, drafts included: unless   *)
(* it is an episode's and a video has the same slug (WatchService looks    *)
(* for videos first; slugs are unique per table only).                     *)
LinksOpenTheirRow ==
  Shown("right") /\ Calm /\ up =>
    \A l \in {l \in visit.page.links : l.row # NoRow} :
      \/ Opens(l.to) = l.row
      \/ KindOf[l.row] = "episode" /\ \E v \in Stored("video") : SlugOf[v] = SlugOf[l.row]

=============================================================================
