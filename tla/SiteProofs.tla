------------------------------ MODULE SiteProofs ------------------------------
(***************************************************************************)
(* Theorems about the pages of the site, for every set of rows, whatever   *)
(* editors do to them and however often the backend goes away.             *)
(***************************************************************************)
EXTENDS Site, TLAPS

Ops == {"home", "shows", "show", "categories", "category", "subcategory", "articles", "article", "watch",
        "search", "person", "people", "ticker", "sitemap"}

-----------------------------------------------------------------------------
(***************************************************************************)
(* What the controllers make of an answer                                  *)
(***************************************************************************)

(* What codec and mapper of an operation take. *)
Accepted(op, body) ==
  CASE op = "home" -> HomeResponseDtoV1IO(body) /\ mapHomeDto(body)
    [] op = "shows" -> (\A s \in body : ShowSummaryDtoV1IO(s)) /\ (\A s \in body : mapShowSummaryDto(s))
    [] op = "show" -> ShowDetailDtoV1IO(body) /\ mapShowDetailDto(body)
    [] op = "categories" -> (\A c \in body : CategorySummaryDtoV1IO(c)) /\ (\A c \in body : mapCategorySummaryDto(c))
    [] op = "category" -> CategoryDetailDtoV1IO(body) /\ mapCategoryDetailDto(body)
    [] op = "subcategory" -> SubcategoryDetailDtoV1IO(body) /\ mapSubcategoryDetailDto(body)
    [] op = "articles" -> PagedResponseArticleDtoV1IO(body) /\ mapArticlePageDto(body)
    [] op = "article" -> ArticleDtoV1IO(body) /\ mapArticleDto(body)
    [] op = "watch" -> PlayerDtoV1IO(body) /\ mapPlayerDto(body)
    [] op = "search" -> (\A h \in body : SearchHitIO(h)) /\ (\A h \in body : mapSearchHitDto(h))
    [] op = "person" -> mapPerson(body)
    [] op = "people" -> TRUE
    [] op = "ticker" -> (\A t \in body : TickerDtoV1IO(t)) /\ (\A t \in body : mapTickerDto(t))
    [] op = "sitemap" -> (\A s \in body : SitemapEntryIO(s)) /\ (\A s \in body : mapSitemapEntryDto(s))

(* What they hand on of it. *)
Taken(op, body) ==
  CASE op = "person" -> Kept(body)
    [] op = "people" -> {p \in body : mapPersonSummary(p)}
    [] OTHER -> body

LEMMA Eithers ==
  /\ \A v : IsRight(Right(v)) /\ Right(v).right = v /\ Right(v).left = "none"
  /\ \A e : Left(e).left = e /\ (e # "none" => ~IsRight(Left(e)))
  BY DEF IsRight, Right, Left

(* An error passes codec and mapper. *)
LEMMA ErrorsPass ==
  ASSUME NEW q, q.op \in Ops, NEW answer, ~IsRight(request(answer))
  PROVE  Controller(q, answer) = Left(normalizeControllerError(request(answer).left))
<1> DEFINE e == request(answer)
<1>1. ~IsRight(e)
  OBVIOUS
<1>2. Controller(q, answer) \in {getHome(e), getShows(e), getShowBySlug(e), getCategories(e), getCategoryBySlug(e),
        getSubcategoryBySlug(e), getArticles(e), getArticleBySlug(e), getPlayerBySlug(e), search(e),
        getPersonBySlug(e), getPeople(e), getTicker(e), getSitemapEntries(e)}
  BY DEF Controller, Ops
<1> HIDE DEF e
<1>3. \A p, x : p \in BOOLEAN => Then(e, p, x) = e
  BY <1>1 DEF Then
<1>4. \A p \in BOOLEAN : mapGeneratedResult(e, p) = Left(normalizeControllerError(e.left))
  BY <1>1 DEF mapGeneratedResult
<1>5. /\ homeClient(e) = e /\ showList(e) = e /\ showBySlug(e) = e /\ categories(e) = e /\ category(e) = e
      /\ subcategory(e) = e /\ articleList(e) = e /\ articleBySlug(e) = e /\ watchClient(e) = e
      /\ searchClient(e) = e /\ tickerList(e) = e /\ sitemapClient(e) = e
  BY <1>1 DEF Then, Decode, homeClient, showList, showBySlug, categories, category, subcategory, articleList,
     articleBySlug, watchClient, searchClient, tickerList, sitemapClient
<1>6. /\ getHome(e) = Left(normalizeControllerError(e.left))
      /\ getShows(e) = Left(normalizeControllerError(e.left))
      /\ getShowBySlug(e) = Left(normalizeControllerError(e.left))
      /\ getCategories(e) = Left(normalizeControllerError(e.left))
      /\ getCategoryBySlug(e) = Left(normalizeControllerError(e.left))
      /\ getSubcategoryBySlug(e) = Left(normalizeControllerError(e.left))
  BY <1>1, <1>5 DEF mapGeneratedResult, getHome, getShows, getShowBySlug, getCategories, getCategoryBySlug,
     getSubcategoryBySlug
<1>7. /\ getArticles(e) = Left(normalizeControllerError(e.left))
      /\ getArticleBySlug(e) = Left(normalizeControllerError(e.left))
      /\ getPlayerBySlug(e) = Left(normalizeControllerError(e.left))
      /\ search(e) = Left(normalizeControllerError(e.left))
      /\ getPersonBySlug(e) = Left(normalizeControllerError(e.left))
      /\ getPeople(e) = Left(normalizeControllerError(e.left))
      /\ getTicker(e) = Left(normalizeControllerError(e.left))
      /\ getSitemapEntries(e) = Left(normalizeControllerError(e.left))
  BY <1>1, <1>5 DEF mapGeneratedResult, getArticles, getArticleBySlug, getPlayerBySlug, search, getPersonBySlug,
     getPeople, getTicker, getSitemapEntries
<1>8. QED
  BY <1>2, <1>6, <1>7 DEF e

(* An outage is told apart from a row that is not there. *)
LEMMA ErrorsKept ==
  ASSUME NEW q, q.op \in Ops
  PROVE  /\ \A answer \in Away : Controller(q, answer) = Left("backend-unavailable")
         /\ Controller(q, Status(500)) = Left("backend-unavailable")
         /\ Controller(q, Status(404)) = Left("not-found")
<1>1. ASSUME NEW answer \in Away
      PROVE  request(answer).left \in {"network", "status", "response-parsing"} /\ ~IsRight(request(answer))
  <2>1. CASE answer = Status(0)
    BY <2>1 DEF Status, request, createHttpNetworkError, Left, IsRight
  <2>2. CASE answer = Status(502)
    BY <2>2 DEF Status, request, createHttpStatusError, Left, IsRight
  <2>3. CASE answer = [Found(<<>>) EXCEPT !.parses = FALSE]
    BY <2>3 DEF Found, request, getResponseBody, createHttpResponseParsingError, Left, IsRight
  <2>4. QED
    BY <1>1, <2>1, <2>2, <2>3 DEF Away
<1>2. request(Status(500)).left = "status" /\ ~IsRight(request(Status(500)))
  BY DEF Status, request, createHttpStatusError, Left, IsRight
<1>3. request(Status(404)).left = "404" /\ ~IsRight(request(Status(404)))
  BY DEF Status, request, createHttpStatusError, Left, IsRight
<1>4. /\ \A x \in {"network", "status", "response-parsing"} : normalizeControllerError(x) = "backend-unavailable"
      /\ normalizeControllerError("404") = "not-found"
  BY DEF normalizeControllerError, isHttpError, HttpErrors
<1>5. QED
  BY <1>1, <1>2, <1>3, <1>4, ErrorsPass

(* What is there is taken, or is an answer the site cannot use. *)
LEMMA FoundTaken ==
  ASSUME NEW q, q.op \in Ops, NEW body
  PROVE  Controller(q, Found(body)) =
           IF Accepted(q.op, body) THEN Right(Taken(q.op, body)) ELSE Left("invalid-api-response")
<1> DEFINE e == Right(body)
<1>1. request(Found(body)) = e
  BY DEF request, Found, getResponseBody
<1>2. IsRight(e) /\ e.right = body
  BY Eithers
<1>3. \A x : ~IsRight(Left("ResponseValidationError")) /\ Left("ResponseValidationError").left = "ResponseValidationError"
  BY Eithers
<1>4. normalizeControllerError("ResponseValidationError") = "invalid-api-response"
  BY DEF normalizeControllerError, isHttpError, HttpErrors
<1> HIDE DEF e
<1>5. CASE q.op = "home"
  <2>1. Controller(q, Found(body)) = getHome(e) /\ Taken(q.op, body) = body
        /\ (Accepted(q.op, body) <=> HomeResponseDtoV1IO(body) /\ mapHomeDto(body))
    BY <1>1, <1>5 DEF Controller, Taken, Accepted
  <2>2. QED
    BY <1>2, <1>3, <1>4, <2>1 DEF getHome, homeClient, Decode, Then, mapGeneratedResult, mapDtoMappingError, e
<1>6. CASE q.op = "shows"
  BY <1>1, <1>2, <1>3, <1>4, <1>6 DEF Controller, Taken, Accepted, getShows, showList, Decode, Then,
     mapGeneratedResult, mapDtoMappingError, e
<1>7. CASE q.op = "show"
  BY <1>1, <1>2, <1>3, <1>4, <1>7 DEF Controller, Taken, Accepted, getShowBySlug, showBySlug, Decode, Then,
     mapGeneratedResult, mapDtoMappingError, e
<1>8. CASE q.op = "categories"
  BY <1>1, <1>2, <1>3, <1>4, <1>8 DEF Controller, Taken, Accepted, getCategories, categories, Decode, Then,
     mapGeneratedResult, mapDtoMappingError, e
<1>9. CASE q.op = "category"
  BY <1>1, <1>2, <1>3, <1>4, <1>9 DEF Controller, Taken, Accepted, getCategoryBySlug, category, Decode, Then,
     mapGeneratedResult, mapDtoMappingError, e
<1>10. CASE q.op = "subcategory"
  BY <1>1, <1>2, <1>3, <1>4, <1>10 DEF Controller, Taken, Accepted, getSubcategoryBySlug, subcategory, Decode, Then,
     mapGeneratedResult, mapDtoMappingError, e
<1>11. CASE q.op = "articles"
  BY <1>1, <1>2, <1>3, <1>4, <1>11 DEF Controller, Taken, Accepted, getArticles, articleList, Decode, Then,
     mapGeneratedResult, mapDtoMappingError, e
<1>12. CASE q.op = "article"
  BY <1>1, <1>2, <1>3, <1>4, <1>12 DEF Controller, Taken, Accepted, getArticleBySlug, articleBySlug, Decode, Then,
     mapGeneratedResult, mapDtoMappingError, e
<1>13. CASE q.op = "watch"
  BY <1>1, <1>2, <1>3, <1>4, <1>13 DEF Controller, Taken, Accepted, getPlayerBySlug, watchClient, Decode, Then,
     mapGeneratedResult, mapDtoMappingError, e
<1>14. CASE q.op = "search"
  BY <1>1, <1>2, <1>3, <1>4, <1>14 DEF Controller, Taken, Accepted, search, searchClient, Decode, Then,
     mapGeneratedResult, mapDtoMappingError, e
<1>15. CASE q.op = "ticker"
  BY <1>1, <1>2, <1>3, <1>4, <1>15 DEF Controller, Taken, Accepted, getTicker, tickerList, Decode, Then,
     mapGeneratedResult, mapDtoMappingError, e
<1>16. CASE q.op = "sitemap"
  BY <1>1, <1>2, <1>3, <1>4, <1>16 DEF Controller, Taken, Accepted, getSitemapEntries, sitemapClient, Decode, Then,
     mapGeneratedResult, mapDtoMappingError, e
<1>17. CASE q.op = "person"
  BY <1>1, <1>2, <1>17 DEF Controller, Taken, Accepted, getPersonBySlug, e
<1>18. CASE q.op = "people"
  BY <1>1, <1>2, <1>18 DEF Controller, Taken, Accepted, getPeople, e
<1>19. QED
  BY <1>5, <1>6, <1>7, <1>8, <1>9, <1>10, <1>11, <1>12, <1>13, <1>14, <1>15, <1>16, <1>17, <1>18 DEF Ops

-----------------------------------------------------------------------------
(***************************************************************************)
(* What the backend answers, and which row is to blame                     *)
(***************************************************************************)

LEMMA Dtos ==
  \A r : /\ Dto(r).row = r /\ Dto(r).slug = SlugOf[r] /\ Dto(r).kind = KindOf[r]
         /\ Dto(r).blank = row[r].blank /\ Dto(r).nulls = row[r].nulls
  BY DEF Dto

LEMMA Statuses ==
  /\ \A body : Found(body).status = 200 /\ Found(body).body = body
  /\ \A n : Status(n).status = n
  BY DEF Found, Status

LEMMA StoredRows ==
  ASSUME NEW k
  PROVE  /\ \A r \in Stored(k) : r \in Rows /\ r # NoRow /\ KindOf[r] = k /\ row[r].at # "gone"
         /\ Published(k) \subseteq Stored(k)
         /\ \A p : Children(k, p) \subseteq Stored(k)
  BY RowsAssumption DEF Stored, Published, Children, Of

(* A slug finds the row that has it, if it is stored. *)
LEMMA SlugFinds ==
  ASSUME NEW k, NEW slug
  PROVE  LET r == BySlug(Stored(k), slug) IN
         IF \E s \in Stored(k) : SlugOf[s] = slug
         THEN r \in Stored(k) /\ SlugOf[r] = slug /\ r # NoRow
         ELSE r = NoRow
<1> DEFINE hits == {r \in Stored(k) : SlugOf[r] = slug}
<1>1. BySlug(Stored(k), slug) = IF hits = {} THEN NoRow ELSE CHOOSE r \in hits : TRUE
  BY DEF BySlug
<1>2. hits # {} => (CHOOSE r \in hits : TRUE) \in hits
  OBVIOUS
<1>3. \A r \in hits : r # NoRow
  BY StoredRows
<1>4. QED
  BY <1>1, <1>2, <1>3

LEMMA SlugIsOne ==
  ASSUME NEW k \in Slugged, NEW r \in Stored(k)
  PROVE  BySlug(Stored(k), SlugOf[r]) = r
<1>1. BySlug(Stored(k), SlugOf[r]) \in Stored(k) /\ SlugOf[BySlug(Stored(k), SlugOf[r])] = SlugOf[r]
  BY SlugFinds
<1>2. QED
  BY <1>1, StoredRows, SlugAssumption

(* What a controller refuses has a flaw. *)
LEMMA FlawsFail ==
  ASSUME NEW r, ~Flawed(r)
  PROVE  ~Dto(r).nulls /\ \A f : f \notin Dto(r).blank /\ f \notin row[r].blank
  BY Dtos DEF Flawed

(* What comes of a request, by what the backend says. *)
LEMMA Outcomes ==
  ASSUME NEW q, q.op \in Ops
  PROVE  /\ \A body : LET e == Controller(q, Found(body)) IN
              IF Accepted(q.op, body)
              THEN IsRight(e) /\ e.right = Taken(q.op, body) /\ resolveControllerResult(e) = "right"
              ELSE ~IsRight(e) /\ resolveControllerResult(e) = "throws"
         /\ LET e == Controller(q, Status(404)) IN ~IsRight(e) /\ resolveControllerResult(e) = "notFound"
         /\ LET e == Controller(q, Status(500)) IN ~IsRight(e) /\ resolveControllerResult(e) = "throws"
         /\ \A answer \in Away :
              LET e == Controller(q, answer) IN ~IsRight(e) /\ resolveControllerResult(e) = "throws"
<1>1. \A v : resolveControllerResult(Right(v)) = "right"
  BY Eithers DEF resolveControllerResult
<1>2. /\ resolveControllerResult(Left("not-found")) = "notFound"
      /\ resolveControllerResult(Left("backend-unavailable")) = "throws"
      /\ resolveControllerResult(Left("invalid-api-response")) = "throws"
  BY Eithers DEF resolveControllerResult
<1>3. /\ ~IsRight(Left("not-found")) /\ ~IsRight(Left("backend-unavailable"))
      /\ ~IsRight(Left("invalid-api-response"))
  BY Eithers
<1>4. ASSUME NEW body
      PROVE  LET e == Controller(q, Found(body)) IN
              IF Accepted(q.op, body)
              THEN IsRight(e) /\ e.right = Taken(q.op, body) /\ resolveControllerResult(e) = "right"
              ELSE ~IsRight(e) /\ resolveControllerResult(e) = "throws"
  BY <1>1, <1>2, <1>3, FoundTaken, Eithers
<1>5. QED
  BY <1>2, <1>3, <1>4, ErrorsKept

NoFlaw(S) == \A r \in S : r # NoRow => ~Flawed(r)

(* The rows of the home page: its cards are what its blocks refer to. *)
HomeRows ==
  Published("video") \cup Published("article") \cup {OnAir} \cup Stored("quote") \cup Stored("slot")
    \cup Stored("block") \cup {ParentOf[b] : b \in Stored("block")}

HomeBody == Home.body

LEMMA HomeAccepted ==
  ASSUME NoFlaw(HomeRows)
  PROVE  Home = Found(HomeBody) /\ Accepted("home", HomeBody)
<1>1. CardBlocks \subseteq Stored("block")
  BY DEF CardBlocks
<1>2. ~ \E b \in CardBlocks : "refId" \in row[b].blank
  <2> SUFFICES ASSUME NEW b \in CardBlocks PROVE row[b].blank = {}
    OBVIOUS
  <2>1. b \in HomeRows
    BY <1>1 DEF HomeRows
  <2>2. b # NoRow
    BY <1>1, StoredRows
  <2>3. QED
    BY <2>1, <2>2 DEF NoFlaw, Flawed
<1>3. Home = Found(HomeBody)
  BY <1>2, Statuses DEF Home, HomeBody
<1>4. /\ HomeBody.liveNow = {Dto(e) : e \in Published("episode") \cap {OnAir}}
      /\ HomeBody.featured = Cards /\ HomeBody.upNext = {}
      /\ HomeBody.mostWatched = {Dto(v) : v \in Published("video")}
      /\ HomeBody.ticker = {[Dto(q) EXCEPT !.kind = "up"] : q \in Stored("quote")}
      /\ HomeBody.schedule = {SlotDto(s) : s \in Stored("slot")}
      /\ HomeBody.latestArticles = {Dto(a) : a \in Published("article")}
  BY <1>2, Statuses DEF Home, HomeBody
<1>5. \A r \in HomeRows : r # NoRow => ~Dto(r).nulls /\ \A f : f \notin Dto(r).blank /\ f \notin row[r].blank
  BY FlawsFail DEF NoFlaw
<1>6. \A c \in HomeBody.liveNow : mapHomeCardDto(c)
  <2>1. ASSUME NEW e \in Published("episode") \cap {OnAir} PROVE mapHomeCardDto(Dto(e))
    <3>1. e \in HomeRows /\ e # NoRow /\ KindOf[e] = "episode"
      BY StoredRows DEF HomeRows
    <3>2. QED
      BY <1>5, <3>1, Dtos DEF mapHomeCardDto, homeCardKinds, requireOneOf, requireString
  <2>2. QED
    BY <1>4, <2>1
<1>7. \A c \in HomeBody.featured : mapHomeCardDto(c)
  <2>1. ASSUME NEW r \in {ParentOf[b] : b \in CardBlocks} \cap (Stored("episode") \cup Stored("video"))
        PROVE  mapHomeCardDto(Dto(r))
    <3>1. r \in HomeRows /\ r # NoRow /\ KindOf[r] \in {"episode", "video"}
      BY <1>1, StoredRows DEF HomeRows
    <3>2. QED
      BY <1>5, <3>1, Dtos DEF mapHomeCardDto, homeCardKinds, requireOneOf, requireString
  <2>2. QED
    BY <1>4, <2>1 DEF Cards
<1>8. \A c \in HomeBody.mostWatched : mapHomeCardDto(c)
  <2>1. ASSUME NEW v \in Published("video") PROVE mapHomeCardDto(Dto(v))
    <3>1. v \in HomeRows /\ v # NoRow /\ KindOf[v] = "video"
      BY StoredRows DEF HomeRows
    <3>2. QED
      BY <1>5, <3>1, Dtos DEF mapHomeCardDto, homeCardKinds, requireOneOf, requireString
  <2>2. QED
    BY <1>4, <2>1
<1>9. \A t \in HomeBody.ticker : mapTickerDto(t)
  <2>1. ASSUME NEW t \in Stored("quote") PROVE mapTickerDto([Dto(t) EXCEPT !.kind = "up"])
    <3>1. t \in HomeRows /\ t # NoRow
      BY StoredRows DEF HomeRows
    <3>2. [Dto(t) EXCEPT !.kind = "up"].blank = row[t].blank /\ [Dto(t) EXCEPT !.kind = "up"].kind = "up"
      BY DEF Dto
    <3>3. QED
      BY <1>5, <3>1, <3>2 DEF mapTickerDto, tickerDirections, requireOneOf, requireString
  <2>2. QED
    BY <1>4, <2>1
<1>10. \A s \in HomeBody.schedule : mapScheduleItemDto(s)
  <2>1. ASSUME NEW s \in Stored("slot") PROVE mapScheduleItemDto(SlotDto(s))
    <3>1. s \in HomeRows /\ s # NoRow
      BY StoredRows DEF HomeRows
    <3>2. QED
      BY <1>5, <3>1 DEF SlotDto, mapScheduleItemDto, requireString
  <2>2. QED
    BY <1>4, <2>1
<1>11. \A a \in HomeBody.latestArticles : ArticleDtoV1IO(a) /\ mapArticleSummaryDto(a)
  <2>1. ASSUME NEW a \in Published("article") PROVE ArticleDtoV1IO(Dto(a)) /\ mapArticleSummaryDto(Dto(a))
    <3>1. a \in HomeRows /\ a # NoRow
      BY StoredRows DEF HomeRows
    <3>2. QED
      BY <1>5, <3>1 DEF ArticleDtoV1IO, AllStrings, mapArticleSummaryDto, requireString
  <2>2. QED
    BY <1>4, <2>1
<1>12. HomeResponseDtoV1IO(HomeBody)
  BY <1>11 DEF HomeResponseDtoV1IO, HomeCardDtoV1IO, TickerDtoV1IO, ScheduleItemDtoV1IO
<1>13. mapHomeDto(HomeBody)
  BY <1>4, <1>6, <1>7, <1>8, <1>9, <1>10, <1>11 DEF mapHomeDto, mapOptionalHomeCardDto
<1>14. QED
  BY <1>3, <1>12, <1>13 DEF Accepted

(* Whatever is blank, the home page is there or fails. *)
LEMMA HomeAnswers == Home \in {Status(500), Found(HomeBody)}
  BY Statuses DEF Home, HomeBody

LEMMA NoFlawShows ==
  ASSUME NEW S, NoFlaw(S), NEW r \in S, r # NoRow
  PROVE  ~Dto(r).nulls /\ \A f : f \notin Dto(r).blank /\ f \notin row[r].blank
  BY FlawsFail DEF NoFlaw

LEMMA ListsAccepted ==
  /\ NoFlaw(Published("show")) => Accepted("shows", {Dto(s) : s \in Published("show")})
  /\ NoFlaw(Published("category")) => Accepted("categories", {Dto(c) : c \in Published("category")})
  /\ \A slug : NoFlaw(ArticlesOf(slug)) => Accepted("articles", [items |-> {Dto(a) : a \in ArticlesOf(slug)}])
<1>1. ASSUME NoFlaw(Published("show")) PROVE Accepted("shows", {Dto(s) : s \in Published("show")})
  <2>1. ASSUME NEW s \in Published("show") PROVE ShowSummaryDtoV1IO(Dto(s)) /\ mapShowSummaryDto(Dto(s))
    <3>1. s # NoRow
      BY StoredRows
    <3>2. QED
      BY <1>1, <3>1, NoFlawShows DEF ShowSummaryDtoV1IO, mapShowSummaryDto, requireString
  <2>2. QED
    BY <2>1 DEF Accepted
<1>2. ASSUME NoFlaw(Published("category"))
      PROVE  Accepted("categories", {Dto(c) : c \in Published("category")})
  <2>1. ASSUME NEW c \in Published("category")
        PROVE  CategorySummaryDtoV1IO(Dto(c)) /\ mapCategorySummaryDto(Dto(c))
    <3>1. c # NoRow
      BY StoredRows
    <3>2. QED
      BY <1>2, <3>1, NoFlawShows DEF CategorySummaryDtoV1IO, AllStrings, mapCategorySummaryDto, requireString
  <2>2. QED
    BY <2>1 DEF Accepted
<1>3. ASSUME NEW slug, NoFlaw(ArticlesOf(slug))
      PROVE  Accepted("articles", [items |-> {Dto(a) : a \in ArticlesOf(slug)}])
  <2>1. ASSUME NEW a \in ArticlesOf(slug) PROVE ArticleDtoV1IO(Dto(a)) /\ mapArticleSummaryDto(Dto(a))
    <3>1. a # NoRow
      BY StoredRows DEF ArticlesOf
    <3>2. QED
      BY <1>3, <3>1, NoFlawShows DEF ArticleDtoV1IO, AllStrings, mapArticleSummaryDto, requireString
  <2>2. QED
    BY <2>1 DEF Accepted, PagedResponseArticleDtoV1IO, mapArticlePageDto
<1>4. QED
  BY <1>1, <1>2, <1>3

LEMMA ShowAccepted ==
  ASSUME NEW s \in Stored("show"), NoFlaw({s}), NoFlaw(Children("host", s)),
         NoFlaw(Children("episode", s) \cap Published("episode"))
  PROVE  Accepted("show", ShowBody(s))
<1> DEFINE d == ShowBody(s)
<1>1. /\ d.blank = row[s].blank /\ d.hosts = {Dto(h) : h \in Children("host", s)}
      /\ d.episodes = {Dto(e) : e \in Children("episode", s) \cap Published("episode")}
  BY DEF ShowBody
<1> HIDE DEF d
<1>2. requireString(d, "slug") /\ requireString(d, "name")
  BY <1>1, StoredRows, NoFlawShows DEF requireString
<1>3. \A h \in d.hosts : mapHostDto(h)
  <2>1. ASSUME NEW h \in Children("host", s) PROVE mapHostDto(Dto(h))
    BY StoredRows, NoFlawShows DEF mapHostDto, requireString
  <2>2. QED
    BY <1>1, <2>1
<1>4. \A e \in d.episodes : EpisodeDtoV1IO(e) /\ mapEpisodeDto(e)
  <2>1. ASSUME NEW e \in Children("episode", s) \cap Published("episode")
        PROVE  EpisodeDtoV1IO(Dto(e)) /\ mapEpisodeDto(Dto(e))
    BY StoredRows, NoFlawShows DEF EpisodeDtoV1IO, AllStrings, mapEpisodeDto, requireString
  <2>2. QED
    BY <1>1, <2>1
<1>5. ShowDetailDtoV1IO(d) /\ mapShowDetailDto(d)
  BY <1>2, <1>3, <1>4 DEF ShowDetailDtoV1IO, HostDtoV1IO, mapShowDetailDto
<1>6. QED
  BY <1>5 DEF Accepted, d

LEMMA CategoryAccepted ==
  ASSUME NEW c \in Stored("category"), NoFlaw({c}), NoFlaw(Children("subcategory", c))
  PROVE  Accepted("category", CategoryBody(c))
<1> DEFINE d == CategoryBody(c)
<1>1. d.blank = row[c].blank /\ d.subcategories = {Dto(s) : s \in Children("subcategory", c)}
  BY DEF CategoryBody
<1> HIDE DEF d
<1>2. requireString(d, "slug") /\ requireString(d, "name")
  BY <1>1, StoredRows, NoFlawShows DEF requireString
<1>3. \A s \in d.subcategories : mapSubcategorySummaryDto(s)
  <2>1. ASSUME NEW s \in Children("subcategory", c) PROVE mapSubcategorySummaryDto(Dto(s))
    BY StoredRows, NoFlawShows DEF mapSubcategorySummaryDto, requireString
  <2>2. QED
    BY <1>1, <2>1
<1>4. CategoryDetailDtoV1IO(d) /\ mapCategoryDetailDto(d)
  BY <1>2, <1>3 DEF CategoryDetailDtoV1IO, SubcategorySummaryDtoV1IO, mapCategoryDetailDto
<1>5. QED
  BY <1>4 DEF Accepted, d

LEMMA SubcategoryAccepted ==
  ASSUME NEW s \in Stored("subcategory"), NoFlaw({s}), NoFlaw({ParentOf[s]}),
         NoFlaw(Children("video", s) \cap Published("video"))
  PROVE  Accepted("subcategory", SubcategoryBody(s))
<1> DEFINE d == SubcategoryBody(s)
<1>1. ParentOf[s] # NoRow
  BY SubcategoryAssumption, RowsAssumption, StoredRows
<1>2. \A f : f \notin row[s].blank /\ f \notin row[ParentOf[s]].blank
  BY <1>1, StoredRows, NoFlawShows
<1>3. d.blank = row[s].blank /\ d.videos = {Dto(v) : v \in Children("video", s) \cap Published("video")}
  BY <1>2 DEF SubcategoryBody
<1> HIDE DEF d
<1>4. \A f : requireString(d, f)
  BY <1>2, <1>3 DEF requireString
<1>5. \A v \in d.videos : VideoDtoV1IO(v) /\ mapVideoDto(v)
  <2>1. ASSUME NEW v \in Children("video", s) \cap Published("video")
        PROVE  VideoDtoV1IO(Dto(v)) /\ mapVideoDto(Dto(v))
    BY StoredRows, NoFlawShows DEF VideoDtoV1IO, AllStrings, mapVideoDto, requireString
  <2>2. QED
    BY <1>3, <2>1
<1>6. SubcategoryDetailDtoV1IO(d) /\ mapSubcategoryDetailDto(d)
  BY <1>4, <1>5 DEF SubcategoryDetailDtoV1IO, mapSubcategoryDetailDto
<1>7. QED
  BY <1>6 DEF Accepted, d

LEMMA RowsAccepted ==
  ASSUME NEW r, NoFlaw({r}), r # NoRow
  PROVE  /\ Accepted("article", Dto(r)) /\ Accepted("person", PersonBody(r))
         /\ KindOf[r] \in {"video", "episode"} => Accepted("watch", PlayerBody(r))
<1>1. ~Dto(r).nulls /\ \A f : f \notin Dto(r).blank /\ f \notin row[r].blank
  BY NoFlawShows
<1>2. ArticleDtoV1IO(Dto(r)) /\ mapArticleDto(Dto(r))
  BY <1>1 DEF ArticleDtoV1IO, AllStrings, mapArticleDto, mapArticleSummaryDto, requireString
<1>3. PersonBody(r).blank = row[r].blank
  BY DEF PersonBody
<1>4. mapPerson(PersonBody(r))
  BY <1>1, <1>3 DEF mapPerson, asString
<1>5. PlayerBody(r).blank = row[r].blank /\ PlayerBody(r).kind = KindOf[r] /\ PlayerBody(r).nulls = row[r].nulls
  BY DEF PlayerBody
<1>6. ASSUME KindOf[r] \in {"video", "episode"}
      PROVE  PlayerDtoV1IO(PlayerBody(r)) /\ mapPlayerDto(PlayerBody(r))
  <2>1. ~row[r].nulls
    BY <1>1, Dtos
  <2>2. QED
    BY <1>1, <1>5, <1>6, <2>1
       DEF PlayerDtoV1IO, AllStrings, mapPlayerDto, playerKinds, requireOneOf, requireString
<1>7. QED
  BY <1>2, <1>4, <1>6 DEF Accepted

-----------------------------------------------------------------------------
(***************************************************************************)
(* Where the features link to                                              *)
(***************************************************************************)

Live == {r \in Rows : KindOf[r] \in Slugged /\ row[r].at # "gone"}

(* Links of a page: plain ones, and those to rows that are stored. *)
Lead(links) == \A l \in links : l.row # NoRow => l.row \in Live /\ l.to = PathTo(l.row)

LEMMA StoredLive ==
  /\ \A k \in Slugged : Stored(k) \subseteq Live /\ Published(k) \subseteq Live
  /\ \A k \in Slugged : \A p : Children(k, p) \subseteq Live
  BY StoredRows DEF Live

LEMMA LinksLead ==
  /\ \A dtos : (\A d \in dtos : d.row \in Live) => Lead(Links(dtos))
  /\ \A r \in Live : Lead({LinkTo(r)})
  /\ \A page, slug : Lead({PlainLink(page, slug)})
  /\ \A A, B : Lead(A) /\ Lead(B) => Lead(A \cup B)
  /\ Lead({})
<1>1. ASSUME NEW r \in Live PROVE LinkTo(r).row \in Live /\ LinkTo(r).to = PathTo(LinkTo(r).row)
  BY <1>1 DEF LinkTo
<1>2. \A page, slug : PlainLink(page, slug).row = NoRow
  BY DEF PlainLink
<1>3. ASSUME NEW dtos, \A d \in dtos : d.row \in Live PROVE Lead(Links(dtos))
  BY <1>1, <1>3 DEF Lead, Links
<1>4. QED
  BY <1>1, <1>2, <1>3 DEF Lead

LEMMA DtosLead == ASSUME NEW S, S \subseteq Live PROVE Lead(Links({Dto(r) : r \in S}))
<1>1. \A d \in {Dto(r) : r \in S} : d.row \in Live
  BY Dtos
<1>2. QED
  BY <1>1, LinksLead

LEMMA HomeLeads ==
  ASSUME Home = Found(HomeBody), NEW shows, shows = {Dto(s) : s \in Published("show")}
  PROVE  Lead(HomeFeature(HomeBody, shows))
<1>1. ~ \E b \in CardBlocks : "refId" \in row[b].blank
  BY Statuses DEF Home
<1>2. /\ HomeBody.liveNow = {Dto(e) : e \in Published("episode") \cap {OnAir}}
      /\ HomeBody.featured = Cards
      /\ HomeBody.mostWatched = {Dto(v) : v \in Published("video")}
      /\ HomeBody.schedule = {SlotDto(s) : s \in Stored("slot")}
      /\ HomeBody.latestArticles = {Dto(a) : a \in Published("article")}
  BY <1>1, Statuses DEF Home, HomeBody
<1>3. Lead(HomeMain(HomeBody))
  <2>1. \A d \in HomeBody.liveNow : d.row \in Live
    BY <1>2, Dtos, StoredLive DEF Slugged
  <2>2. \A d \in HomeBody.featured : d.row \in Live
    BY <1>2, Dtos, StoredLive DEF Cards, Slugged
  <2>3. Lead(Links(HomeBody.liveNow \cup HomeBody.featured))
    BY <2>1, <2>2, LinksLead
  <2>4. QED
    BY <2>3, LinksLead DEF HomeMain
<1>4. Lead(HomeSide(HomeBody))
  <2>1. Lead(Links(HomeBody.mostWatched))
    BY <1>2, DtosLead, StoredLive DEF Slugged
  <2>2. ASSUME NEW s \in UNION {d.shows : d \in HomeBody.schedule} PROVE s \in Live
    <3>1. PICK d \in HomeBody.schedule : s \in d.shows
      OBVIOUS
    <3>2. PICK t \in Stored("slot") : d = SlotDto(t)
      BY <1>2
    <3>3. s \in Stored("show")
      BY <3>1, <3>2 DEF SlotDto
    <3>4. QED
      BY <3>3, StoredLive DEF Slugged
  <2>3. Lead({LinkTo(s) : s \in UNION {d.shows : d \in HomeBody.schedule}})
    BY <2>2 DEF Lead, LinkTo
  <2>4. QED
    BY <2>1, <2>3, LinksLead DEF HomeSide
<1>5. Lead(HomeShows(shows))
  <2>1. Lead(Links(shows))
    BY DtosLead, StoredLive DEF Slugged
  <2>2. QED
    BY <2>1, LinksLead DEF HomeShows
<1>6. Lead(HomeNewsroom(HomeBody))
  <2>1. Lead(Links(HomeBody.latestArticles))
    BY <1>2, DtosLead, StoredLive DEF Slugged
  <2>2. QED
    BY <2>1, LinksLead DEF HomeNewsroom
<1>7. QED
  BY <1>3, <1>4, <1>5, <1>6, LinksLead DEF HomeFeature

LEMMA FeaturesLead ==
  /\ Lead(ShowsListFeature({Dto(s) : s \in Published("show")}))
  /\ \A s : Lead(ShowDetailsFeature(ShowBody(s)))
  /\ \A list, slug : Lead(ArticlesListFeature(list, {Dto(a) : a \in ArticlesOf(slug)}))
  /\ \A S \in SUBSET Published("article") : Lead(ArticleDetailsFeature({Dto(a) : a \in S}))
  /\ Lead(CatalogFeature({Dto(c) : c \in Published("category")}))
  /\ \A c : Lead(CategoryFeature(CategoryBody(c)))
  /\ \A r : Lead(PlayerFeature(PlayerBody(r)))
  /\ \A q : Lead(SearchFeature(Hits(q)))
  /\ \A p : Lead(PersonFeature(Kept(PersonBody(p))))
  /\ Lead(Links({Dto(r) : r \in Listed}))
<1>1. Lead(ShowsListFeature({Dto(s) : s \in Published("show")}))
  BY DtosLead, StoredLive DEF ShowsListFeature, Slugged
<1>2. ASSUME NEW s PROVE Lead(ShowDetailsFeature(ShowBody(s)))
  <2>1. Children("episode", s) \cap Published("episode") \subseteq Live
    BY StoredLive DEF Slugged
  <2>2. ShowBody(s).episodes = {Dto(e) : e \in Children("episode", s) \cap Published("episode")}
    BY DEF ShowBody
  <2>3. QED
    BY <2>1, <2>2, DtosLead DEF ShowDetailsFeature
<1>3. ASSUME NEW list, NEW slug PROVE Lead(ArticlesListFeature(list, {Dto(a) : a \in ArticlesOf(slug)}))
  <2>1. ArticlesOf(slug) \subseteq Live
    BY StoredLive DEF ArticlesOf, Slugged
  <2>2. Lead({PlainLink("articles", c.slug) : c \in list})
    BY DEF Lead, PlainLink
  <2>3. Lead(Links({Dto(a) : a \in ArticlesOf(slug)}))
    BY <2>1, DtosLead
  <2>4. QED
    BY <2>2, <2>3, LinksLead DEF ArticlesListFeature
<1>4. ASSUME NEW S \in SUBSET Published("article") PROVE Lead(ArticleDetailsFeature({Dto(a) : a \in S}))
  <2>1. S \subseteq Live
    BY StoredLive DEF Slugged
  <2>2. Lead(Links({Dto(a) : a \in S}))
    BY <2>1, DtosLead
  <2>3. QED
    BY <2>2, LinksLead DEF ArticleDetailsFeature
<1>5. Lead(CatalogFeature({Dto(c) : c \in Published("category")}))
  BY DtosLead, StoredLive DEF CatalogFeature, Slugged
<1>6. ASSUME NEW c PROVE Lead(CategoryFeature(CategoryBody(c)))
  <2>1. Children("subcategory", c) \subseteq Live
    BY StoredLive DEF Slugged
  <2>2. CategoryBody(c).subcategories = {Dto(s) : s \in Children("subcategory", c)}
    BY DEF CategoryBody
  <2>3. Lead(Links(CategoryBody(c).subcategories))
    BY <2>1, <2>2, DtosLead
  <2>4. QED
    BY <2>3, LinksLead DEF CategoryFeature
<1>7. ASSUME NEW r PROVE Lead(PlayerFeature(PlayerBody(r)))
  <2>1. PlayerBody(r).shows \subseteq Stored("show")
    BY DEF PlayerBody
  <2>2. PlayerBody(r).shows \subseteq Live
    BY <2>1, StoredLive DEF Slugged
  <2>3. QED
    BY <2>2 DEF PlayerFeature, Lead, LinkTo
<1>8. ASSUME NEW q PROVE Lead(SearchFeature(Hits(q)))
  <2>1. \A r : Hit(r).row = r
    BY DEF Hit, Dto
  <2>2. \A d \in Hits(q) : d.row \in Live
    BY <2>1, StoredLive DEF Hits, Slugged
  <2>3. QED
    BY <2>2, LinksLead DEF SearchFeature
<1>9. ASSUME NEW p PROVE Lead(PersonFeature(Kept(PersonBody(p))))
  <2>1. /\ PersonBody(p).videos = {Dto(v) : v \in Credits[p] \cap Published("video")}
        /\ PersonBody(p).articles = {Dto(a) : a \in Credits[p] \cap Published("article")}
    BY DEF PersonBody
  <2>2. /\ Kept(PersonBody(p)).videos = {v \in PersonBody(p).videos : mapVideo(v)}
        /\ Kept(PersonBody(p)).articles = {a \in PersonBody(p).articles : mapArticle(a)}
    BY DEF Kept, PersonBody
  <2>3. \A d \in PersonBody(p).videos \cup PersonBody(p).articles : d.row \in Live
    BY <2>1, Dtos, StoredLive DEF Slugged
  <2>4. /\ \A d \in Kept(PersonBody(p)).videos : d.row \in Live
        /\ \A d \in Kept(PersonBody(p)).articles : d.row \in Live
    BY <2>2, <2>3
  <2>5. QED
    BY <2>4, LinksLead DEF PersonFeature
<1>10. Lead(Links({Dto(r) : r \in Listed}))
  <2>1. \A k \in {"show", "episode", "category", "video", "article"} : Published(k) \subseteq Live
    BY StoredLive DEF Slugged
  <2>2. Stored("subcategory") \subseteq Live
    BY StoredLive DEF Slugged
  <2>3. Listed \subseteq Live
    BY <2>1, <2>2 DEF Listed
  <2>4. QED
    BY <2>3, DtosLead
<1>11. QED
  BY <1>1, <1>2, <1>3, <1>4, <1>5, <1>6, <1>7, <1>8, <1>9, <1>10

LEMMA SubcategoryLeads ==
  ASSUME NEW s \in Stored("subcategory"), row[ParentOf[s]].at # "gone"
  PROVE  Lead(SubcategoryFeature(SubcategoryBody(s)))
<1>1. /\ SubcategoryBody(s).videos = {Dto(v) : v \in Children("video", s) \cap Published("video")}
      /\ SubcategoryBody(s).parent = ParentOf[s]
  BY DEF SubcategoryBody
<1>2. Children("video", s) \cap Published("video") \subseteq Live
  BY StoredLive DEF Slugged
<1>3. Lead(Links(SubcategoryBody(s).videos))
  BY <1>1, <1>2, DtosLead
<1>4. ParentOf[s] \in Live
  BY SubcategoryAssumption, StoredRows DEF Live, Slugged
<1>5. Lead({LinkTo(ParentOf[s])})
  BY <1>4, LinksLead
<1>6. Lead({LinkTo(ParentOf[s]), PlainLink("on-demand", NoSlug)})
  BY <1>5, LinksLead DEF Lead
<1>7. QED
  BY <1>1, <1>3, <1>6, LinksLead DEF SubcategoryFeature

LEMMA LayoutLeads ==
  /\ \A hosts : (\A d \in hosts : d.row \in Live) => Lead(Header(hosts))
  /\ Lead(Footer)
<1>1. Lead({PlainLink(p, NoSlug) : p \in {"home", "shows", "articles", "on-demand", "search"}})
  BY DEF Lead, PlainLink
<1>2. Lead(Footer)
  BY DEF Lead, PlainLink, Footer
<1>3. QED
  BY <1>1, <1>2, LinksLead DEF Header

-----------------------------------------------------------------------------
(***************************************************************************)
(* The pages, while the backend answers                                    *)
(***************************************************************************)

AllGone(to) == \A r \in Rows : KindOf[r] \in DOMAIN PageOf /\ PathTo(r) = to => row[r].at = "gone"

PageRight(to, page) ==
  /\ page = [result |-> page.result, links |-> page.links]
  /\ page.result = "throws" => ~NoFlaw(AboutRows(to))
  /\ page.result = "notFound" => AllGone(to)
  /\ Lead(page.links)

LEMMA Paths ==
  /\ DOMAIN PageOf = Slugged
  /\ PageOf["show"] = "show" /\ PageOf["episode"] = "watch" /\ PageOf["video"] = "watch"
  /\ PageOf["category"] = "category" /\ PageOf["subcategory"] = "subcategory"
  /\ PageOf["article"] = "article" /\ PageOf["person"] = "person"
  /\ \A page, slug : Address(page, slug).page = page /\ Address(page, slug).slug = slug
  /\ \A r : PathTo(r) = Address(PageOf[KindOf[r]], SlugOf[r])
  BY DEF PageOf, Slugged, Address, PathTo

RowPages == {"show", "watch", "category", "subcategory", "article", "person"}

LEMMA OneIsAbout ==
  ASSUME NEW k \in Slugged, NEW r \in Stored(k)
  PROVE  r \in AboutRows(PathTo(r))
<1>1. r \in Rows /\ KindOf[r] \in DOMAIN PageOf /\ row[r].at # "gone" /\ KindOf[r] = k
  BY StoredRows, Paths
<1>2. PathTo(r).page \in RowPages
  BY <1>1, Paths DEF Slugged, RowPages
<1>3. QED
  BY <1>1, <1>2 DEF AboutRows, RowPages

LEMMA AboutLists ==
  \A slug :
    /\ HomeRows \subseteq AboutRows(Address("home", slug))
    /\ Published("show") \subseteq AboutRows(Address("home", slug))
    /\ Published("show") \subseteq AboutRows(Address("shows", slug))
    /\ Published("category") \subseteq AboutRows(Address("on-demand", slug))
    /\ Published("category") \subseteq AboutRows(Address("articles", slug))
    /\ ArticlesOf(slug) \subseteq AboutRows(Address("articles", slug))
<1> TAKE slug
<1>1. \A page : Address(page, slug).page = page /\ Address(page, slug).slug = slug
  BY Paths
<1>2. /\ AboutRows(Address("shows", slug)) = Published("show")
      /\ AboutRows(Address("on-demand", slug)) = Published("category")
      /\ AboutRows(Address("articles", slug)) = Published("category") \cup ArticlesOf(slug)
  BY <1>1 DEF AboutRows
<1>3. AboutRows(Address("home", slug)) =
        ({b \in Stored("block") : TRUE} \cup {ParentOf[b] : b \in Stored("block")})
          \cup {OnAir} \cup Stored("quote") \cup Stored("slot")
          \cup UNION {Published(k) : k \in {"show", "video", "article"}}
  BY <1>1 DEF AboutRows
<1>4. \A k \in {"show", "video", "article"} : Published(k) \subseteq AboutRows(Address("home", slug))
  BY <1>3
<1>5. HomeRows \subseteq AboutRows(Address("home", slug))
  BY <1>3, <1>4 DEF HomeRows
<1>6. QED
  BY <1>2, <1>4, <1>5

LEMMA AboutOnes ==
  /\ \A s \in Stored("show") :
       /\ s \in AboutRows(PathTo(s)) /\ Children("host", s) \subseteq AboutRows(PathTo(s))
       /\ Children("episode", s) \cap Published("episode") \subseteq AboutRows(PathTo(s))
  /\ \A c \in Stored("category") :
       c \in AboutRows(PathTo(c)) /\ Children("subcategory", c) \subseteq AboutRows(PathTo(c))
  /\ \A s \in Stored("subcategory") :
       /\ s \in AboutRows(PathTo(s)) /\ ParentOf[s] \in AboutRows(PathTo(s))
       /\ Children("video", s) \cap Published("video") \subseteq AboutRows(PathTo(s))
<1> DEFINE One(to) == {r \in Rows : KindOf[r] \in DOMAIN PageOf /\ PathTo(r) = to /\ row[r].at # "gone"}
           Under(to, kind) == {r \in Stored(kind) : ParentOf[r] \in One(to)}
<1>1. \A k \in Slugged : \A r \in Stored(k) : r \in One(PathTo(r))
  BY StoredRows, Paths
<1>2. ASSUME NEW to
      PROVE  /\ to.page = "show" => AboutRows(to) = One(to) \cup Under(to, "host")
                                                     \cup (Under(to, "episode") \cap Published("episode"))
             /\ to.page = "category" => AboutRows(to) = One(to) \cup Under(to, "subcategory")
             /\ to.page = "subcategory" => AboutRows(to) = One(to) \cup {ParentOf[s] : s \in One(to)}
                                                            \cup (Under(to, "video") \cap Published("video"))
  BY DEF AboutRows
<1>3. \A k, kind : \A r \in Stored(k) : k \in Slugged => Children(kind, r) \subseteq Under(PathTo(r), kind)
  BY <1>1 DEF Children
<1>4. /\ \A r \in Stored("show") : PathTo(r).page = "show"
      /\ \A r \in Stored("category") : PathTo(r).page = "category"
      /\ \A r \in Stored("subcategory") : PathTo(r).page = "subcategory"
  BY StoredRows, Paths
<1> HIDE DEF One, Under
<1>5. ASSUME NEW s \in Stored("show")
      PROVE  /\ s \in AboutRows(PathTo(s)) /\ Children("host", s) \subseteq AboutRows(PathTo(s))
             /\ Children("episode", s) \cap Published("episode") \subseteq AboutRows(PathTo(s))
  BY <1>1, <1>2, <1>3, <1>4 DEF Slugged
<1>6. ASSUME NEW c \in Stored("category")
      PROVE  c \in AboutRows(PathTo(c)) /\ Children("subcategory", c) \subseteq AboutRows(PathTo(c))
  BY <1>1, <1>2, <1>3, <1>4 DEF Slugged
<1>7. ASSUME NEW s \in Stored("subcategory")
      PROVE  /\ s \in AboutRows(PathTo(s)) /\ ParentOf[s] \in AboutRows(PathTo(s))
             /\ Children("video", s) \cap Published("video") \subseteq AboutRows(PathTo(s))
  BY <1>1, <1>2, <1>3, <1>4 DEF Slugged
<1>8. QED
  BY <1>5, <1>6, <1>7

(* A slug that no stored row has belongs to nobody's page. *)
LEMMA NobodyThere ==
  ASSUME NEW slug
  PROVE  /\ \A k \in {"show", "category", "subcategory", "article", "person"} :
              (\A s \in Stored(k) : SlugOf[s] # slug) => AllGone(Address(k, slug))
         /\ (\A s \in Stored("video") \cup Stored("episode") : SlugOf[s] # slug) => AllGone(Address("watch", slug))
<1>1. ASSUME NEW page, NEW r \in Rows, KindOf[r] \in DOMAIN PageOf, PathTo(r) = Address(page, slug)
      PROVE  PageOf[KindOf[r]] = page /\ SlugOf[r] = slug
  BY <1>1, Paths
<1>2. ASSUME NEW k \in {"show", "category", "subcategory", "article", "person"},
             NEW r \in Rows, KindOf[r] \in DOMAIN PageOf, PathTo(r) = Address(k, slug)
      PROVE  KindOf[r] = k
  BY <1>1, <1>2, Paths DEF Slugged
<1>3. ASSUME NEW r \in Rows, KindOf[r] \in DOMAIN PageOf, PathTo(r) = Address("watch", slug)
      PROVE  KindOf[r] \in {"video", "episode"}
  BY <1>1, <1>3, Paths DEF Slugged
<1>4. \A r \in Rows : row[r].at = "gone" \/ r \in Stored(KindOf[r])
  BY DEF Stored, Of
<1>5. QED
  BY <1>1, <1>2, <1>3, <1>4 DEF AllGone

LEMMA FewerFlaws == \A S, T : NoFlaw(S) /\ T \subseteq S => NoFlaw(T)
  BY DEF NoFlaw

(* A page is there if all it asked for is, and then is as good as its links. *)
LEMMA ResolvedRight ==
  ASSUME NEW to, NEW asked, NEW got, NEW links,
         \A q \in asked : resolveControllerResult(got[q]) = "throws" => ~NoFlaw(AboutRows(to)),
         \A q \in asked : resolveControllerResult(got[q]) = "notFound" => AllGone(to),
         (\A q \in asked : resolveControllerResult(got[q]) = "right") => Lead(links)
  PROVE  PageRight(to, Resolved(asked, got, links))
<1>1. \A q \in asked : resolveControllerResult(got[q]) \in {"right", "notFound", "throws"}
  BY DEF resolveControllerResult
<1>2. CASE \A q \in asked : resolveControllerResult(got[q]) = "right"
  <2>1. Resolved(asked, got, links) = Rendered(links)
    BY <1>2 DEF Resolved
  <2>2. QED
    BY <1>2, <2>1 DEF PageRight, Rendered
<1>3. CASE \E q \in asked : resolveControllerResult(got[q]) = "throws"
  <2>1. Resolved(asked, got, links) = ErrorPage
    BY <1>3 DEF Resolved
  <2>2. QED
    BY <1>3, <2>1, LinksLead DEF PageRight, ErrorPage
<1>4. CASE /\ \A q \in asked : resolveControllerResult(got[q]) # "throws"
           /\ \E q \in asked : resolveControllerResult(got[q]) # "right"
  <2>1. Resolved(asked, got, links) = NotFoundPage
    BY <1>4 DEF Resolved
  <2>2. AllGone(to)
    BY <1>1, <1>4
  <2>3. QED
    BY <2>1, <2>2, LinksLead DEF PageRight, NotFoundPage
<1>5. QED
  BY <1>2, <1>3, <1>4

(* The page of one row. *)
LEMMA OneAsked ==
  ASSUME NEW q, q.op \in Ops, NEW got, NEW to, NEW links, NEW body, NEW r,
         got[q] = Controller(q, OneOf(r, body)),
         r = NoRow => AllGone(to),
         r # NoRow /\ NoFlaw(AboutRows(to)) => Accepted(q.op, body),
         r # NoRow /\ got[q].right = Taken(q.op, body) => Lead(links)
  PROVE  PageRight(to, Resolved({q}, got, links))
<1>1. CASE r = NoRow
  <2>1. resolveControllerResult(got[q]) = "notFound"
    BY <1>1, Outcomes DEF OneOf
  <2>2. QED
    BY <1>1, <2>1, ResolvedRight
<1>2. CASE r # NoRow
  <2>1. got[q] = Controller(q, Found(body))
    BY <1>2 DEF OneOf
  <2>2. IF Accepted(q.op, body) THEN got[q].right = Taken(q.op, body) /\ resolveControllerResult(got[q]) = "right"
                                ELSE resolveControllerResult(got[q]) = "throws"
    BY <2>1, Outcomes
  <2>3. QED
    BY <1>2, <2>2, ResolvedRight
<1>3. QED
  BY <1>1, <1>2

LEMMA Asks ==
  \A op, slug : Ask(op, slug).op = op /\ Ask(op, slug).slug = slug
  BY DEF Ask

LEMMA ShowRight ==
  ASSUME NEW slug, NEW got, got[Ask("show", slug)] = Controller(Ask("show", slug), Response(Ask("show", slug)))
  PROVE  PageRight(Address("show", slug), ShowDetailsPage(slug, got))
<1> DEFINE q == Ask("show", slug)
           r == BySlug(Stored("show"), slug)
           to == Address("show", slug)
<1>1. Response(q) = OneOf(r, ShowBody(r)) /\ q.op = "show" /\ q.op \in Ops
  BY Asks DEF Response, Ops
<1>2. r = NoRow => AllGone(to)
  BY SlugFinds, NobodyThere
<1>3. r # NoRow => r \in Stored("show") /\ PathTo(r) = to
  BY SlugFinds, StoredRows, Paths
<1>4. r # NoRow /\ NoFlaw(AboutRows(to)) => Accepted(q.op, ShowBody(r))
  BY <1>1, <1>3, AboutOnes, FewerFlaws, ShowAccepted
<1>5. Taken(q.op, ShowBody(r)) = ShowBody(r)
  BY <1>1 DEF Taken
<1>6. got[q].right = Taken(q.op, ShowBody(r)) => Lead(ShowDetailsFeature(got[q].right))
  BY <1>5, FeaturesLead
<1>7. ShowDetailsPage(slug, got) = Resolved({q}, got, ShowDetailsFeature(got[q].right))
  BY DEF ShowDetailsPage
<1> HIDE DEF q, r, to
<1>8. QED
  BY <1>1, <1>2, <1>4, <1>6, <1>7, OneAsked DEF q, to

LEMMA CategoryRight ==
  ASSUME NEW slug, NEW got,
         got[Ask("category", slug)] = Controller(Ask("category", slug), Response(Ask("category", slug)))
  PROVE  PageRight(Address("category", slug), CategoryPage(slug, got))
<1> DEFINE q == Ask("category", slug)
           r == BySlug(Stored("category"), slug)
           to == Address("category", slug)
<1>1. Response(q) = OneOf(r, CategoryBody(r)) /\ q.op = "category" /\ q.op \in Ops
  BY Asks DEF Response, Ops
<1>2. r = NoRow => AllGone(to)
  BY SlugFinds, NobodyThere
<1>3. r # NoRow => r \in Stored("category") /\ PathTo(r) = to
  BY SlugFinds, StoredRows, Paths
<1>4. r # NoRow /\ NoFlaw(AboutRows(to)) => Accepted(q.op, CategoryBody(r))
  BY <1>1, <1>3, AboutOnes, FewerFlaws, CategoryAccepted
<1>5. Taken(q.op, CategoryBody(r)) = CategoryBody(r)
  BY <1>1 DEF Taken
<1>6. got[q].right = Taken(q.op, CategoryBody(r)) => Lead(CategoryFeature(got[q].right))
  BY <1>5, FeaturesLead
<1>7. CategoryPage(slug, got) = Resolved({q}, got, CategoryFeature(got[q].right))
  BY DEF CategoryPage
<1> HIDE DEF q, r, to
<1>8. QED
  BY <1>1, <1>2, <1>4, <1>6, <1>7, OneAsked DEF q, to

(* Stored subcategories have their category (Delete). *)
ParentsStored == \A s \in Stored("subcategory") : row[ParentOf[s]].at # "gone"

LEMMA SubcategoryRight ==
  ASSUME ParentsStored, NEW slug, NEW got,
         got[Ask("subcategory", slug)] = Controller(Ask("subcategory", slug), Response(Ask("subcategory", slug)))
  PROVE  PageRight(Address("subcategory", slug), SubcategoryPage(slug, got))
<1> DEFINE q == Ask("subcategory", slug)
           r == BySlug(Stored("subcategory"), slug)
           to == Address("subcategory", slug)
<1>1. Response(q) = OneOf(r, SubcategoryBody(r)) /\ q.op = "subcategory" /\ q.op \in Ops
  BY Asks DEF Response, Ops
<1>2. r = NoRow => AllGone(to)
  BY SlugFinds, NobodyThere
<1>3. r # NoRow => r \in Stored("subcategory") /\ PathTo(r) = to
  BY SlugFinds, StoredRows, Paths
<1>4. r # NoRow /\ NoFlaw(AboutRows(to)) => Accepted(q.op, SubcategoryBody(r))
  <2> SUFFICES ASSUME r # NoRow, NoFlaw(AboutRows(to)) PROVE Accepted(q.op, SubcategoryBody(r))
    OBVIOUS
  <2>1. r \in Stored("subcategory") /\ PathTo(r) = to
    BY <1>3
  <2>2. /\ {r} \subseteq AboutRows(to) /\ {ParentOf[r]} \subseteq AboutRows(to)
        /\ Children("video", r) \cap Published("video") \subseteq AboutRows(to)
    BY <2>1, AboutOnes
  <2> HIDE DEF q, r, to
  <2>3. /\ NoFlaw({r}) /\ NoFlaw({ParentOf[r]})
        /\ NoFlaw(Children("video", r) \cap Published("video"))
    BY <2>2, FewerFlaws
  <2>4. QED
    BY <1>1, <2>1, <2>3, SubcategoryAccepted
<1>5. Taken(q.op, SubcategoryBody(r)) = SubcategoryBody(r)
  BY <1>1 DEF Taken
<1>6. r # NoRow /\ got[q].right = Taken(q.op, SubcategoryBody(r)) => Lead(SubcategoryFeature(got[q].right))
  BY <1>3, <1>5, SubcategoryLeads DEF ParentsStored
<1>7. SubcategoryPage(slug, got) = Resolved({q}, got, SubcategoryFeature(got[q].right))
  BY DEF SubcategoryPage
<1> HIDE DEF q, r, to
<1>8. QED
  BY <1>1, <1>2, <1>4, <1>6, <1>7, OneAsked DEF q, to

LEMMA PlayerRight ==
  ASSUME NEW slug, NEW got,
         got[Ask("watch", slug)] = Controller(Ask("watch", slug), Response(Ask("watch", slug)))
  PROVE  PageRight(Address("watch", slug), PlayerPage(slug, got))
<1> DEFINE q == Ask("watch", slug)
           v == BySlug(Stored("video"), slug)
           r == IF v # NoRow THEN v ELSE BySlug(Stored("episode"), slug)
           to == Address("watch", slug)
<1>1. Response(q) = OneOf(r, PlayerBody(r)) /\ q.op = "watch" /\ q.op \in Ops
  BY Asks DEF Response, Ops, Watch
<1>2. r = NoRow => AllGone(to)
  BY SlugFinds, NobodyThere
<1>3. r # NoRow => /\ r \in Stored("video") \cup Stored("episode") /\ PathTo(r) = to
                   /\ KindOf[r] \in {"video", "episode"} /\ r \in AboutRows(PathTo(r))
  BY SlugFinds, StoredRows, Paths, OneIsAbout DEF Slugged
<1>4. r # NoRow /\ NoFlaw(AboutRows(to)) => Accepted(q.op, PlayerBody(r))
  BY <1>1, <1>3, FewerFlaws, RowsAccepted
<1>5. Taken(q.op, PlayerBody(r)) = PlayerBody(r)
  BY <1>1 DEF Taken
<1>6. got[q].right = Taken(q.op, PlayerBody(r)) => Lead(PlayerFeature(got[q].right))
  BY <1>5, FeaturesLead
<1>7. PlayerPage(slug, got) = Resolved({q}, got, PlayerFeature(got[q].right))
  BY DEF PlayerPage
<1> HIDE DEF q, v, r, to
<1>8. QED
  BY <1>1, <1>2, <1>4, <1>6, <1>7, OneAsked DEF q, to

LEMMA PersonRight ==
  ASSUME NEW slug, NEW got,
         got[Ask("person", slug)] = Controller(Ask("person", slug), Response(Ask("person", slug)))
  PROVE  PageRight(Address("person", slug), PersonPage(slug, got))
<1> DEFINE q == Ask("person", slug)
           r == BySlug(Stored("person"), slug)
           to == Address("person", slug)
<1>1. Response(q) = OneOf(r, PersonBody(r)) /\ q.op = "person" /\ q.op \in Ops
  BY Asks DEF Response, Ops
<1>2. r = NoRow => AllGone(to)
  BY SlugFinds, NobodyThere
<1>3. r # NoRow => r \in AboutRows(to)
  BY SlugFinds, StoredRows, Paths, OneIsAbout DEF Slugged
<1>4. r # NoRow /\ NoFlaw(AboutRows(to)) => Accepted(q.op, PersonBody(r))
  BY <1>1, <1>3, FewerFlaws, RowsAccepted
<1>5. Taken(q.op, PersonBody(r)) = Kept(PersonBody(r))
  BY <1>1 DEF Taken
<1>6. got[q].right = Taken(q.op, PersonBody(r)) => Lead(PersonFeature(got[q].right))
  BY <1>5, FeaturesLead
<1>7. PersonPage(slug, got) = Resolved({q}, got, PersonFeature(got[q].right))
  BY DEF PersonPage
<1> HIDE DEF q, r, to
<1>8. QED
  BY <1>1, <1>2, <1>4, <1>6, <1>7, OneAsked DEF q, to

(* What a list's controller makes of it. *)
LEMMA ListAsked ==
  ASSUME NEW q, q.op \in Ops, NEW e, NEW body, e = Controller(q, Found(body)), NEW S, NoFlaw(S) => Accepted(q.op, body)
  PROVE  /\ resolveControllerResult(e) # "notFound"
         /\ resolveControllerResult(e) = "throws" => ~NoFlaw(S)
         /\ resolveControllerResult(e) = "right" <=> IsRight(e)
         /\ IsRight(e) => e.right = Taken(q.op, body)
  BY Outcomes

LEMMA HomeRight ==
  ASSUME NEW got, got[Ask("home", NoSlug)] = Controller(Ask("home", NoSlug), Response(Ask("home", NoSlug))),
         got[Ask("shows", NoSlug)] = Controller(Ask("shows", NoSlug), Response(Ask("shows", NoSlug)))
  PROVE  PageRight(Address("home", NoSlug), HomePage(got))
<1> DEFINE home == Ask("home", NoSlug)
           shows == Ask("shows", NoSlug)
           to == Address("home", NoSlug)
           list == {Dto(s) : s \in Published("show")}
<1>1. /\ Response(home) = Home /\ home.op = "home" /\ home.op \in Ops
      /\ Response(shows) = Found(list) /\ shows.op = "shows" /\ shows.op \in Ops
  BY Asks DEF Response, Ops
<1>2. NoFlaw(AboutRows(to)) => Home = Found(HomeBody) /\ Accepted("home", HomeBody)
  BY AboutLists, FewerFlaws, HomeAccepted
<1>3. NoFlaw(AboutRows(to)) => Accepted("shows", list)
  BY AboutLists, FewerFlaws, ListsAccepted
<1>4. HomePage(got) = Resolved({home, shows}, got, HomeFeature(got[home].right, got[shows].right))
  BY DEF HomePage
<1>5. Taken("home", HomeBody) = HomeBody /\ Taken("shows", list) = list
  BY DEF Taken
<1>6. Home = Found(HomeBody) => Lead(HomeFeature(HomeBody, list))
  BY HomeLeads
<1> HIDE DEF home, shows, to, list
<1>7. /\ resolveControllerResult(got[shows]) # "notFound"
      /\ resolveControllerResult(got[shows]) = "throws" => ~NoFlaw(AboutRows(to))
      /\ resolveControllerResult(got[shows]) = "right" => got[shows].right = list
  BY <1>1, <1>3, <1>5, ListAsked DEF shows
<1>8. /\ resolveControllerResult(got[home]) # "notFound"
      /\ resolveControllerResult(got[home]) = "throws" => ~NoFlaw(AboutRows(to))
      /\ resolveControllerResult(got[home]) = "right" => Home = Found(HomeBody) /\ got[home].right = HomeBody
  <2>1. got[home] = Controller(home, Home)
    BY <1>1 DEF home
  <2>2. CASE Home = Status(500)
    <3>1. resolveControllerResult(got[home]) = "throws"
      BY <1>1, <2>1, <2>2, Outcomes
    <3>2. Home # Found(HomeBody)
      BY <2>2, Statuses
    <3>3. QED
      BY <1>2, <3>1, <3>2
  <2>3. CASE Home = Found(HomeBody)
    BY <1>1, <1>2, <1>5, <2>1, <2>3, ListAsked
  <2>4. QED
    BY <2>2, <2>3, HomeAnswers
<1>9. QED
  BY <1>4, <1>6, <1>7, <1>8, ResolvedRight DEF to

LEMMA ShowsRight ==
  ASSUME NEW slug, NEW got,
         got[Ask("shows", NoSlug)] = Controller(Ask("shows", NoSlug), Response(Ask("shows", NoSlug)))
  PROVE  PageRight(Address("shows", slug), ShowsPage(got))
<1> DEFINE q == Ask("shows", NoSlug)
           list == {Dto(s) : s \in Published("show")}
           to == Address("shows", slug)
<1>1. Response(q) = Found(list) /\ q.op = "shows" /\ q.op \in Ops /\ Taken("shows", list) = list
  BY Asks DEF Response, Ops, Taken
<1>2. NoFlaw(AboutRows(to)) => Accepted("shows", list)
  BY AboutLists, FewerFlaws, ListsAccepted
<1>3. ShowsPage(got) = Resolved({q}, got, ShowsListFeature(got[q].right))
  BY DEF ShowsPage
<1>4. Lead(ShowsListFeature(list))
  BY FeaturesLead
<1> HIDE DEF q, list, to
<1>5. /\ resolveControllerResult(got[q]) # "notFound"
      /\ resolveControllerResult(got[q]) = "throws" => ~NoFlaw(AboutRows(to))
      /\ resolveControllerResult(got[q]) = "right" => got[q].right = list
  BY <1>1, <1>2, ListAsked DEF q
<1>6. QED
  BY <1>3, <1>4, <1>5, ResolvedRight DEF to

LEMMA OnDemandRight ==
  ASSUME NEW slug, NEW got,
         got[Ask("categories", NoSlug)] = Controller(Ask("categories", NoSlug), Response(Ask("categories", NoSlug)))
  PROVE  PageRight(Address("on-demand", slug), OnDemandPage(got))
<1> DEFINE q == Ask("categories", NoSlug)
           list == {Dto(c) : c \in Published("category")}
           to == Address("on-demand", slug)
<1>1. Response(q) = Found(list) /\ q.op = "categories" /\ q.op \in Ops /\ Taken("categories", list) = list
  BY Asks DEF Response, Ops, Taken
<1>2. NoFlaw(AboutRows(to)) => Accepted("categories", list)
  BY AboutLists, FewerFlaws, ListsAccepted
<1>3. OnDemandPage(got) = Resolved({q}, got, CatalogFeature(got[q].right))
  BY DEF OnDemandPage
<1>4. Lead(CatalogFeature(list))
  BY FeaturesLead
<1> HIDE DEF q, list, to
<1>5. /\ resolveControllerResult(got[q]) # "notFound"
      /\ resolveControllerResult(got[q]) = "throws" => ~NoFlaw(AboutRows(to))
      /\ resolveControllerResult(got[q]) = "right" => got[q].right = list
  BY <1>1, <1>2, ListAsked DEF q
<1>6. QED
  BY <1>3, <1>4, <1>5, ResolvedRight DEF to

LEMMA ArticlesRight ==
  ASSUME NEW slug, NEW got,
         got[Ask("categories", NoSlug)] = Controller(Ask("categories", NoSlug), Response(Ask("categories", NoSlug))),
         got[Ask("articles", slug)] = Controller(Ask("articles", slug), Response(Ask("articles", slug)))
  PROVE  PageRight(Address("articles", slug), ArticlesPage(slug, got))
<1> DEFINE q == Ask("categories", NoSlug)
           p == Ask("articles", slug)
           list == {Dto(c) : c \in Published("category")}
           body == [items |-> {Dto(a) : a \in ArticlesOf(slug)}]
           to == Address("articles", slug)
<1>1. /\ Response(q) = Found(list) /\ q.op = "categories" /\ q.op \in Ops /\ Taken("categories", list) = list
      /\ Response(p) = Found(body) /\ p.op = "articles" /\ p.op \in Ops /\ Taken("articles", body) = body
  <2>1. q.op = "categories" /\ p.op = "articles" /\ p.slug = slug
    BY Asks
  <2>2. Response(q) = Found(list)
    BY <2>1 DEF Response
  <2>3. Response(p) = Found(body)
    BY <2>1 DEF Response
  <2>4. Taken("categories", list) = list /\ Taken("articles", body) = body
    BY DEF Taken
  <2>5. QED
    BY <2>1, <2>2, <2>3, <2>4 DEF Ops
<1>2. NoFlaw(AboutRows(to)) => Accepted("categories", list)
  BY AboutLists, FewerFlaws, ListsAccepted
<1>3. NoFlaw(AboutRows(to)) => Accepted("articles", body)
  BY AboutLists, FewerFlaws, ListsAccepted
<1>4. ArticlesPage(slug, got) = Resolved({q, p}, got, ArticlesListFeature(got[q].right, got[p].right.items))
  BY DEF ArticlesPage
<1>5. \A l : Lead(ArticlesListFeature(l, body.items))
  BY FeaturesLead
<1> HIDE DEF q, p, list, body, to
<1>6. /\ resolveControllerResult(got[q]) # "notFound"
      /\ resolveControllerResult(got[q]) = "throws" => ~NoFlaw(AboutRows(to))
  BY <1>1, <1>2, ListAsked DEF q
<1>7. /\ resolveControllerResult(got[p]) # "notFound"
      /\ resolveControllerResult(got[p]) = "throws" => ~NoFlaw(AboutRows(to))
      /\ resolveControllerResult(got[p]) = "right" => got[p].right = body
  BY <1>1, <1>3, ListAsked DEF p
<1>8. QED
  BY <1>4, <1>5, <1>6, <1>7, ResolvedRight DEF to

LEMMA ArticleRight ==
  ASSUME NEW slug, NEW got,
         got[Ask("article", slug)] = Controller(Ask("article", slug), Response(Ask("article", slug))),
         IsRight(got[Ask("article", slug)]) =>
           got[Ask("articles", NoSlug)] = Controller(Ask("articles", NoSlug), Response(Ask("articles", NoSlug)))
  PROVE  PageRight(Address("article", slug), ArticleDetailsPage(slug, got))
<1> DEFINE q == Ask("article", slug)
           p == Ask("articles", NoSlug)
           r == BySlug(Stored("article"), slug)
           body == [items |-> {Dto(a) : a \in ArticlesOf(NoSlug)}]
           to == Address("article", slug)
           related == Related(got[q].right, got[p])
<1>1. Response(q) = OneOf(r, Dto(r)) /\ q.op = "article" /\ q.op \in Ops
  BY Asks DEF Response, Ops
<1>2. p.op = "articles" /\ p.slug = NoSlug /\ p.op \in Ops
  BY Asks DEF Ops
<1>3. Response(p) = Found(body) /\ Taken("articles", body) = body
  BY <1>2 DEF Response, Taken
<1>4. r = NoRow => AllGone(to)
  BY SlugFinds, NobodyThere
<1>5. r # NoRow => r \in AboutRows(to)
  BY SlugFinds, StoredRows, Paths, OneIsAbout DEF Slugged
<1>6. r # NoRow /\ NoFlaw(AboutRows(to)) => Accepted(q.op, Dto(r))
  BY <1>1, <1>5, FewerFlaws, RowsAccepted
<1>7. ASSUME IsRight(got[q]) PROVE Lead(ArticleDetailsFeature(related))
  <2>1. IsRight(got[p]) => got[p].right = body
    BY <1>2, <1>3, <1>7, Outcomes
  <2>2. PICK S \in SUBSET Published("article") : related = {Dto(a) : a \in S}
    <3>1. CASE IsRight(got[p])
      <4>1. related = {d \in {Dto(a) : a \in ArticlesOf(NoSlug)} : d.slug # got[q].right.slug}
        BY <2>1, <3>1 DEF Related
      <4>2. related = {Dto(a) : a \in {b \in ArticlesOf(NoSlug) : Dto(b).slug # got[q].right.slug}}
        BY <4>1
      <4>3. {b \in ArticlesOf(NoSlug) : Dto(b).slug # got[q].right.slug} \in SUBSET Published("article")
        BY DEF ArticlesOf
      <4>4. QED
        BY <4>2, <4>3
    <3>2. CASE ~IsRight(got[p])
      <4>1. related = {Dto(a) : a \in {}}
        BY <3>2 DEF Related
      <4>2. QED
        BY <4>1
    <3>3. QED
      BY <3>1, <3>2
  <2>3. QED
    BY <2>2, FeaturesLead
<1>8. ArticleDetailsPage(slug, got) = Resolved({q}, got, ArticleDetailsFeature(related))
  BY DEF ArticleDetailsPage
<1> HIDE DEF q, p, r, body, to, related
<1>9. got[q] = Controller(q, OneOf(r, Dto(r)))
  BY <1>1 DEF q
<1>10. /\ resolveControllerResult(got[q]) = "throws" => ~NoFlaw(AboutRows(to))
       /\ resolveControllerResult(got[q]) = "notFound" => AllGone(to)
       /\ resolveControllerResult(got[q]) = "right" => IsRight(got[q])
  <2>1. CASE r = NoRow
    BY <1>1, <1>4, <1>9, <2>1, Outcomes DEF OneOf
  <2>2. CASE r # NoRow
    <3>1. got[q] = Controller(q, Found(Dto(r)))
      BY <1>9, <2>2 DEF OneOf
    <3>2. QED
      BY <1>1, <1>6, <2>2, <3>1, ListAsked
  <2>3. QED
    BY <2>1, <2>2
<1>11. QED
  BY <1>7, <1>8, <1>10, ResolvedRight DEF to

(* What finds nothing, or nobody, shows no error. *)
LEMMA SearchRight ==
  ASSUME NEW slug, NEW got,
         slug # NoSlug => got[Ask("search", slug)] = Controller(Ask("search", slug), Response(Ask("search", slug)))
  PROVE  PageRight(Address("search", slug), SearchPage(slug, got))
<1> DEFINE q == Ask("search", slug)
           results == IF slug = NoSlug THEN Left("none asked") ELSE got[q]
           links == IF IsRight(results) THEN SearchFeature(results.right) ELSE {}
<1>1. q.op = "search" /\ q.slug = slug /\ q.op \in Ops
  BY Asks DEF Ops
<1>2. Response(q) = Found(Hits(slug)) /\ Taken("search", Hits(slug)) = Hits(slug)
  BY <1>1 DEF Response, Taken
<1>3. SearchPage(slug, got) = Rendered(links)
  BY DEF SearchPage
<1>4. ASSUME IsRight(results) PROVE Lead(SearchFeature(results.right))
  <2>1. slug # NoSlug
    BY <1>4, Eithers
  <2>2. results.right = Hits(slug)
    BY <1>1, <1>2, <1>4, <2>1, Outcomes
  <2>3. QED
    BY <2>2, FeaturesLead
<1> HIDE DEF q, results
<1>5. Lead(links)
  BY <1>4, LinksLead
<1>6. QED
  BY <1>3, <1>5 DEF PageRight, Rendered

LEMMA SitemapRight ==
  ASSUME NEW slug, NEW got,
         got[Ask("sitemap", NoSlug)] = Controller(Ask("sitemap", NoSlug), Response(Ask("sitemap", NoSlug)))
  PROVE  PageRight(Address("sitemap", slug), sitemap(got))
<1> DEFINE q == Ask("sitemap", NoSlug)
           list == {Dto(r) : r \in Listed}
           links == IF IsRight(got[q]) THEN Links(got[q].right) ELSE {PlainLink("home", NoSlug)}
<1>1. q.op = "sitemap" /\ q.op \in Ops
  BY Asks DEF Ops
<1>2. Response(q) = Found(list) /\ Taken("sitemap", list) = list
  BY <1>1 DEF Response, Taken
<1>3. sitemap(got) = Rendered(links)
  BY DEF sitemap
<1>4. ASSUME IsRight(got[q]) PROVE Lead(Links(got[q].right))
  <2>1. got[q].right = list
    BY <1>1, <1>2, <1>4, Outcomes
  <2>2. QED
    BY <2>1, FeaturesLead
<1> HIDE DEF q
<1>5. Lead(links)
  BY <1>4, LinksLead
<1>6. QED
  BY <1>3, <1>5 DEF PageRight, Rendered

(* The layout adds links to persons, if it could get them. *)
LEMMA LayoutRight ==
  ASSUME NEW to, NEW page, PageRight(to, page), NEW got,
         got[Ask("people", NoSlug)] = Controller(Ask("people", NoSlug), Response(Ask("people", NoSlug)))
  PROVE  PageRight(to, RootLayout(page, got))
<1> DEFINE q == Ask("people", NoSlug)
           list == {Dto(p) : p \in Stored("person")}
           hosts == IF IsRight(got[q]) THEN got[q].right ELSE {}
           links == page.links \cup Header(hosts) \cup Footer
<1>1. q.op = "people" /\ q.op \in Ops
  BY Asks DEF Ops
<1>2. Response(q) = Found(list) /\ Taken("people", list) = {p \in list : mapPersonSummary(p)}
  BY <1>1 DEF Response, Taken
<1>3. \A d \in list : d.row \in Live
  BY Dtos, StoredLive DEF Slugged
<1>4. IsRight(got[q]) => got[q].right = {p \in list : mapPersonSummary(p)}
  BY <1>1, <1>2, Outcomes
<1>5. \A d \in hosts : d.row \in Live
  BY <1>3, <1>4
<1>6. RootLayout(page, got) = [page EXCEPT !.links = links]
  BY DEF RootLayout, PageRight
<1> HIDE DEF q, list, hosts
<1>7. Lead(links)
  BY <1>5, LayoutLeads, LinksLead DEF PageRight
<1> HIDE DEF links
<1>8. page = [result |-> page.result, links |-> page.links]
  BY DEF PageRight
<1>9. RootLayout(page, got) = [result |-> page.result, links |-> links]
  BY <1>6, <1>8
<1>10. QED
  BY <1>7, <1>9 DEF PageRight

-----------------------------------------------------------------------------
(***************************************************************************)
(* Any page                                                                *)
(***************************************************************************)

(* What an answer that came while nothing changed is. *)
GotNow(q, e) == \E answer \in Answers(q) : e = Controller(q, answer)

LEMMA AddressKinds ==
  ASSUME NEW to \in Addresses
  PROVE  /\ to = Address(to.page, to.slug)
         /\ to.page \in RowPages \cup {"home", "shows", "articles", "on-demand", "search", "sitemap"}
         /\ to.page \in {"home", "shows", "on-demand", "sitemap"} => to.slug = NoSlug
<1>1. CASE to \in {PathTo(r) : r \in {r \in Rows : KindOf[r] \in DOMAIN PageOf}}
  <2>1. PICK r \in Rows : KindOf[r] \in DOMAIN PageOf /\ to = PathTo(r)
    BY <1>1
  <2>2. to = Address(PageOf[KindOf[r]], SlugOf[r]) /\ KindOf[r] \in Slugged
    BY <2>1, Paths
  <2>3. PageOf[KindOf[r]] \in RowPages
    BY <2>2, Paths DEF Slugged, RowPages
  <2>4. QED
    BY <2>2, <2>3, Paths DEF RowPages
<1>2. CASE to \in {Address(p, NoSlug) : p \in {"home", "shows", "articles", "on-demand", "search", "sitemap"}}
  BY <1>2, Paths
<1>3. CASE to \in {Address("articles", SlugOf[c]) : c \in Of("category")}
  BY <1>3, Paths
<1>4. CASE to \in {Address("search", q) : q \in Queries}
  BY <1>4, Paths
<1>5. QED
  BY <1>1, <1>2, <1>3, <1>4 DEF Addresses

(* All a page and its layout need has come. *)
AllCome(to, got) ==
  /\ \A q \in FirstAsks(to) : GotNow(q, got[q])
  /\ to.page # "sitemap" => \A q \in LayoutAsks : GotNow(q, got[q])
  /\ to.page = "article" /\ IsRight(got[Ask("article", to.slug)]) =>
       GotNow(Ask("articles", NoSlug), got[Ask("articles", NoSlug)])

Page(to, got) == IF to.page = "sitemap" THEN PageAt(to, got) ELSE RootLayout(PageAt(to, got), got)

LEMMA PageIsRight ==
  ASSUME ParentsStored, up, NEW to \in Addresses, NEW got, AllCome(to, got)
  PROVE  PageRight(to, Page(to, got))
<1> DEFINE page == to.page
           slug == to.slug
<1>1. \A q, e : GotNow(q, e) => e = Controller(q, Response(q))
  BY DEF GotNow, Answers
<1>2. to = Address(page, slug)
  BY AddressKinds
<1>3. \A q \in FirstAsks(to) : got[q] = Controller(q, Response(q))
  BY <1>1 DEF AllCome
<1>4. PageRight(to, PageAt(to, got))
  <2>1. CASE page = "home"
    <3>1. FirstAsks(to) = {Ask("home", NoSlug), Ask("shows", NoSlug)} /\ PageAt(to, got) = HomePage(got)
      BY <2>1 DEF FirstAsks, PageAt
    <3>2. slug = NoSlug
      BY <2>1, AddressKinds
    <3>3. QED
      BY <1>2, <1>3, <2>1, <3>1, <3>2, HomeRight
  <2>2. CASE page = "shows"
    <3>1. slug = NoSlug
      BY <2>2, AddressKinds
    <3>2. FirstAsks(to) = {Ask("shows", NoSlug)} /\ PageAt(to, got) = ShowsPage(got)
      BY <2>2, <3>1 DEF FirstAsks, PageAt
    <3>3. QED
      BY <1>2, <1>3, <2>2, <3>2, ShowsRight
  <2>3. CASE page = "show"
    <3>1. FirstAsks(to) = {Ask("show", slug)} /\ PageAt(to, got) = ShowDetailsPage(slug, got)
      BY <2>3 DEF FirstAsks, PageAt
    <3>2. QED
      BY <1>2, <1>3, <2>3, <3>1, ShowRight
  <2>4. CASE page = "articles"
    <3>1. /\ FirstAsks(to) = {Ask("categories", NoSlug), Ask("articles", slug)}
          /\ PageAt(to, got) = ArticlesPage(slug, got)
      BY <2>4 DEF FirstAsks, PageAt
    <3>2. QED
      BY <1>2, <1>3, <2>4, <3>1, ArticlesRight
  <2>5. CASE page = "article"
    <3>1. FirstAsks(to) = {Ask("article", slug)} /\ PageAt(to, got) = ArticleDetailsPage(slug, got)
      BY <2>5 DEF FirstAsks, PageAt
    <3>2. IsRight(got[Ask("article", slug)]) =>
            got[Ask("articles", NoSlug)] = Controller(Ask("articles", NoSlug), Response(Ask("articles", NoSlug)))
      BY <1>1, <2>5 DEF AllCome
    <3>3. QED
      BY <1>2, <1>3, <2>5, <3>1, <3>2, ArticleRight
  <2>6. CASE page = "on-demand"
    <3>1. FirstAsks(to) = {Ask("categories", NoSlug)} /\ PageAt(to, got) = OnDemandPage(got)
      BY <2>6 DEF FirstAsks, PageAt
    <3>2. QED
      BY <1>2, <1>3, <2>6, <3>1, OnDemandRight
  <2>7. CASE page = "category"
    <3>1. FirstAsks(to) = {Ask("category", slug)} /\ PageAt(to, got) = CategoryPage(slug, got)
      BY <2>7 DEF FirstAsks, PageAt
    <3>2. QED
      BY <1>2, <1>3, <2>7, <3>1, CategoryRight
  <2>8. CASE page = "subcategory"
    <3>1. FirstAsks(to) = {Ask("subcategory", slug)} /\ PageAt(to, got) = SubcategoryPage(slug, got)
      BY <2>8 DEF FirstAsks, PageAt
    <3>2. QED
      BY <1>2, <1>3, <2>8, <3>1, SubcategoryRight
  <2>9. CASE page = "watch"
    <3>1. FirstAsks(to) = {Ask("watch", slug)} /\ PageAt(to, got) = PlayerPage(slug, got)
      BY <2>9 DEF FirstAsks, PageAt
    <3>2. QED
      BY <1>2, <1>3, <2>9, <3>1, PlayerRight
  <2>10. CASE page = "person"
    <3>1. FirstAsks(to) = {Ask("person", slug)} /\ PageAt(to, got) = PersonPage(slug, got)
      BY <2>10 DEF FirstAsks, PageAt
    <3>2. QED
      BY <1>2, <1>3, <2>10, <3>1, PersonRight
  <2>11. CASE page = "search"
    <3>1. PageAt(to, got) = SearchPage(slug, got) /\ (slug # NoSlug => FirstAsks(to) = {Ask("search", slug)})
      BY <2>11 DEF FirstAsks, PageAt
    <3>2. QED
      BY <1>2, <1>3, <2>11, <3>1, SearchRight
  <2>12. CASE page = "sitemap"
    <3>1. slug = NoSlug
      BY <2>12, AddressKinds
    <3>2. FirstAsks(to) = {Ask("sitemap", NoSlug)} /\ PageAt(to, got) = sitemap(got)
      BY <2>12, <3>1 DEF FirstAsks, PageAt
    <3>3. QED
      BY <1>2, <1>3, <2>12, <3>2, SitemapRight
  <2>13. QED
    BY <2>1, <2>2, <2>3, <2>4, <2>5, <2>6, <2>7, <2>8, <2>9, <2>10, <2>11, <2>12, AddressKinds DEF RowPages
<1>5. CASE page = "sitemap"
  BY <1>4, <1>5 DEF Page
<1>6. CASE page # "sitemap"
  <2>1. GotNow(Ask("people", NoSlug), got[Ask("people", NoSlug)])
    BY <1>6 DEF AllCome, LayoutAsks
  <2>2. PageRight(to, RootLayout(PageAt(to, got), got))
    BY <1>1, <1>4, <2>1, LayoutRight
  <2>3. QED
    BY <1>6, <2>2 DEF Page
<1>7. QED
  BY <1>5, <1>6

-----------------------------------------------------------------------------
(***************************************************************************)
(* A page while the backend is away is not one that was not found          *)
(***************************************************************************)

LEMMA AwayThrows ==
  ASSUME ~up, NEW q, q.op \in Ops, NEW e, GotNow(q, e)
  PROVE  resolveControllerResult(e) = "throws"
<1>1. PICK answer \in Away : e = Controller(q, answer)
  BY DEF GotNow, Answers
<1>2. QED
  BY <1>1, Outcomes

Stands(page) ==
  page = [result |-> page.result, links |-> page.links] /\ page.result # "notFound"

LEMMA FirstOps ==
  ASSUME NEW to \in Addresses
  PROVE  /\ \A q \in FirstAsks(to) : q.op \in Ops
         /\ to.page # "search" => FirstAsks(to) # {}
<1>1. \A page \in RowPages \cup {"shows", "sitemap"} : page \in Ops
  BY DEF RowPages, Ops
<1>2. CASE to.page \in RowPages \cup {"shows", "sitemap"}
  <2>1. FirstAsks(to) = {Ask(to.page, to.slug)}
    BY <1>2 DEF FirstAsks, RowPages
  <2>2. QED
    BY <1>1, <1>2, <2>1, Asks
<1>3. CASE to.page \in {"home", "articles", "on-demand", "search"}
  BY <1>3, Asks DEF FirstAsks, Ops
<1>4. QED
  BY <1>2, <1>3, AddressKinds

LEMMA AwayStands ==
  ASSUME ~up, NEW to \in Addresses, NEW got, AllCome(to, got)
  PROVE  Stands(PageAt(to, got))
<1> DEFINE page == to.page
           slug == to.slug
           asked == FirstAsks(to)
<1>1. \A links : Stands(Rendered(links))
  BY DEF Stands, Rendered
<1>2. ASSUME NEW links, page # "search" PROVE Stands(Resolved(asked, got, links))
  <2>1. \A q \in asked : resolveControllerResult(got[q]) = "throws"
    BY FirstOps, AwayThrows DEF AllCome
  <2>2. asked # {}
    BY <1>2, FirstOps
  <2>3. Resolved(asked, got, links) = ErrorPage
    BY <2>1, <2>2 DEF Resolved
  <2>4. QED
    BY <2>3 DEF Stands, ErrorPage
<1>3. CASE page = "search"
  BY <1>1, <1>3 DEF PageAt, SearchPage
<1>4. CASE page = "sitemap"
  BY <1>1, <1>4 DEF PageAt, sitemap
<1>5. CASE page = "home"
  <2>1. \E links : PageAt(to, got) = Resolved(asked, got, links)
    BY <1>5 DEF PageAt, FirstAsks, HomePage
  <2>2. QED
    BY <1>2, <1>5, <2>1
<1>6. CASE page = "shows"
  <2>1. \E links : PageAt(to, got) = Resolved(asked, got, links)
    BY <1>6, AddressKinds DEF PageAt, FirstAsks, ShowsPage
  <2>2. QED
    BY <1>2, <1>6, <2>1
<1>7. CASE page = "show"
  <2>1. \E links : PageAt(to, got) = Resolved(asked, got, links)
    BY <1>7 DEF PageAt, FirstAsks, ShowDetailsPage
  <2>2. QED
    BY <1>2, <1>7, <2>1
<1>8. CASE page = "articles"
  <2>1. \E links : PageAt(to, got) = Resolved(asked, got, links)
    BY <1>8 DEF PageAt, FirstAsks, ArticlesPage
  <2>2. QED
    BY <1>2, <1>8, <2>1
<1>9. CASE page = "article"
  <2>1. \E links : PageAt(to, got) = Resolved(asked, got, links)
    BY <1>9 DEF PageAt, FirstAsks, ArticleDetailsPage
  <2>2. QED
    BY <1>2, <1>9, <2>1
<1>10. CASE page = "on-demand"
  <2>1. \E links : PageAt(to, got) = Resolved(asked, got, links)
    BY <1>10 DEF PageAt, FirstAsks, OnDemandPage
  <2>2. QED
    BY <1>2, <1>10, <2>1
<1>11. CASE page = "category"
  <2>1. \E links : PageAt(to, got) = Resolved(asked, got, links)
    BY <1>11 DEF PageAt, FirstAsks, CategoryPage
  <2>2. QED
    BY <1>2, <1>11, <2>1
<1>12. CASE page = "subcategory"
  <2>1. \E links : PageAt(to, got) = Resolved(asked, got, links)
    BY <1>12 DEF PageAt, FirstAsks, SubcategoryPage
  <2>2. QED
    BY <1>2, <1>12, <2>1
<1>13. CASE page = "watch"
  <2>1. \E links : PageAt(to, got) = Resolved(asked, got, links)
    BY <1>13 DEF PageAt, FirstAsks, PlayerPage
  <2>2. QED
    BY <1>2, <1>13, <2>1
<1>14. CASE page = "person"
  <2>1. \E links : PageAt(to, got) = Resolved(asked, got, links)
    BY <1>14 DEF PageAt, FirstAsks, PersonPage
  <2>2. QED
    BY <1>2, <1>14, <2>1
<1>15. QED
  BY <1>3, <1>4, <1>5, <1>6, <1>7, <1>8, <1>9, <1>10, <1>11, <1>12, <1>13, <1>14, AddressKinds DEF RowPages

LEMMA AwayPage ==
  ASSUME ~up, NEW to \in Addresses, NEW got, AllCome(to, got)
  PROVE  Stands(Page(to, got))
<1>1. ASSUME NEW p, Stands(p) PROVE Stands(RootLayout(p, got))
  <2>1. p = [result |-> p.result, links |-> p.links]
    BY <1>1 DEF Stands
  <2>2. \E links : RootLayout(p, got) = [result |-> p.result, links |-> links]
    BY <2>1 DEF RootLayout
  <2>3. QED
    BY <1>1, <2>2 DEF Stands
<1>2. QED
  BY <1>1, AwayStands DEF Page

-----------------------------------------------------------------------------
(***************************************************************************)
(* Editors and visitors                                                    *)
(***************************************************************************)

RowInv ==
  /\ row = [r \in Rows |-> row[r]]
  /\ \A r \in Rows : row[r] = [at |-> row[r].at, blank |-> row[r].blank, nulls |-> row[r].nulls]
  /\ ParentsStored
  /\ up \in BOOLEAN

(* What a page that stands there says is so, while nothing has changed. *)
ShownRight ==
  /\ up => Lead(visit.page.links)
  /\ visit.page.result = "throws" => ~up \/ ~NoFlaw(AboutRows(visit.to))
  /\ visit.page.result = "notFound" => AllGone(visit.to)

VisitInv ==
  /\ visit = [at |-> visit.at, to |-> visit.to, got |-> visit.got, page |-> visit.page, fresh |-> visit.fresh]
  /\ visit.fresh \in BOOLEAN
  /\ visit.at \in {"away", "reading", "shown"}
  /\ visit.at = "reading" => visit.to \in Addresses
  /\ visit.at = "reading" /\ visit.fresh => \A q \in DOMAIN visit.got : GotNow(q, visit.got[q])
  /\ visit.at = "shown" /\ visit.fresh => ShownRight

SiteInv == RowInv /\ VisitInv

LEMMA InitSite == SiteInit => SiteInv
<1> SUFFICES ASSUME SiteInit PROVE SiteInv
  OBVIOUS
<1>1. \A r \in Rows : row[r] = [at |-> "published", blank |-> {}, nulls |-> FALSE]
  BY DEF SiteInit
<1>2. ParentsStored
  BY <1>1, SubcategoryAssumption, StoredRows DEF ParentsStored
<1>3. RowInv
  BY <1>1, <1>2 DEF RowInv, SiteInit
<1>4. VisitInv
  BY DEF VisitInv, SiteInit, NoVisit
<1>5. QED
  BY <1>3, <1>4 DEF SiteInv

(* A page is as right as the rows and the backend it was made from. *)
LEMMA SameAnswers ==
  ASSUME UNCHANGED <<row, up>>
  PROVE  \A q : Answers(q)' = Answers(q)
<1>1. row' = row /\ up' = up
  OBVIOUS
<1>2. ASSUME NEW q PROVE Response(q)' = Response(q)
  BY <1>1, SMT DEF Response, Home, ShowBody, Stored, Published, Children, Of, Dto, SlotDto, CardBlocks, Cards,
     CategoryBody, SubcategoryBody, ArticlesOf, PlayerBody, Watch, Hit, Hits, PersonBody, Listed, BySlug, OneOf
<1>3. QED
  BY <1>1, <1>2 DEF Answers, Away

LEMMA SameRows ==
  ASSUME UNCHANGED <<row, up, visit>>
  PROVE  RowInv' = RowInv /\ VisitInv' = VisitInv
<1>1. row' = row /\ up' = up /\ visit' = visit
  OBVIOUS
<1>2. \A q : Answers(q)' = Answers(q)
  BY SameAnswers
<1>3. ParentsStored' = ParentsStored
  BY <1>1 DEF ParentsStored, Stored, Of
<1>4. ShownRight' = ShownRight
  BY <1>1, SMT DEF ShownRight, Lead, Live, NoFlaw, Flawed, AllGone, PathTo, AboutRows, Stored, Published, Of, ArticlesOf
<1>5. QED
  <2>1. RowInv' = RowInv
    BY <1>1, <1>3 DEF RowInv
  <2>2. Addresses' = Addresses
    BY DEF Addresses, PathTo, Of
  <2>3. VisitInv' = VisitInv
    BY <1>1, <1>2, <1>4, <2>2 DEF VisitInv, GotNow
  <2>4. QED
    BY <2>1, <2>3

(* The visitor's steps. *)
LEMMA VisitorHolds ==
  ASSUME SiteInv,
         (\E to \in Addresses : Open(to)) \/ (\E q \in Needed(visit) : Answered(q)) \/ Show \/ Leave
  PROVE  SiteInv'
<1>1. UNCHANGED <<row, up>>
  BY DEF Open, Answered, Show, Leave
<1>2. RowInv'
  BY <1>1 DEF SiteInv, RowInv, ParentsStored, Stored, Of
<1>3. ASSUME NEW to \in Addresses, Open(to) PROVE VisitInv'
  <2>1. visit' = [at |-> "reading", to |-> to, got |-> <<>>, page |-> NoPage, fresh |-> TRUE]
    BY <1>3 DEF Open, NoVisit
  <2>2. DOMAIN visit'.got = {}
    BY <2>1
  <2>3. Addresses' = Addresses
    BY DEF Addresses, PathTo, Of
  <2>4. QED
    BY <2>1, <2>2, <2>3 DEF VisitInv
<1>4. ASSUME NEW q \in Needed(visit), Answered(q) PROVE VisitInv'
  <2>1. PICK answer \in Answers(q) :
          visit' = [visit EXCEPT !.got = [p \in (DOMAIN visit.got) \cup {q} |->
                                            IF p = q THEN Controller(q, answer) ELSE visit.got[p]]]
    BY <1>4 DEF Answered
  <2> DEFINE got == [p \in (DOMAIN visit.got) \cup {q} |-> IF p = q THEN Controller(q, answer) ELSE visit.got[p]]
  <2>2. /\ \A p \in DOMAIN got : p = q \/ p \in DOMAIN visit.got
        /\ got[q] = Controller(q, answer)
        /\ \A p \in DOMAIN visit.got : p # q => got[p] = visit.got[p]
    OBVIOUS
  <2> HIDE DEF got
  <2>3. visit' = [at |-> visit.at, to |-> visit.to, got |-> got, page |-> visit.page, fresh |-> visit.fresh]
    BY <2>1 DEF got, SiteInv, VisitInv
  <2>4. visit.at = "reading"
    BY <1>4 DEF Answered
  <2>5. GotNow(q, got[q])
    BY <2>2 DEF GotNow
  <2>6. visit.fresh => \A p \in DOMAIN got : GotNow(p, got[p])
    BY <2>2, <2>4, <2>5 DEF SiteInv, VisitInv
  <2>7. visit'.fresh => \A p \in DOMAIN got : \E a \in Answers(p)' : got[p] = Controller(p, a)
    BY <1>1, <2>3, <2>6, SameAnswers DEF GotNow
  <2>8. Addresses' = Addresses
    BY DEF Addresses, PathTo, Of
  <2>9. QED
    BY <2>3, <2>4, <2>7, <2>8 DEF SiteInv, VisitInv, GotNow
<1>5. ASSUME Show PROVE VisitInv'
  <2> DEFINE page == Page(visit.to, visit.got)
  <2>1. /\ visit.at = "reading" /\ visit.to \in Addresses /\ Needed(visit) \subseteq DOMAIN visit.got
        /\ visit' = [visit EXCEPT !.at = "shown", !.got = <<>>, !.page = page]
    BY <1>5 DEF Show, Page, SiteInv, VisitInv
  <2> HIDE DEF page
  <2>2. visit' = [at |-> "shown", to |-> visit.to, got |-> <<>>, page |-> page, fresh |-> visit.fresh]
    BY <2>1 DEF SiteInv, VisitInv
  <2>3. ASSUME visit.fresh PROVE ShownRight'
    <3>1. AllCome(visit.to, visit.got)
      <4> DEFINE got == visit.got
                 article == Ask("article", visit.to.slug)
      <4>1. \A q \in Needed(visit) : GotNow(q, got[q]) /\ q \in DOMAIN got
        BY <2>1, <2>3 DEF SiteInv, VisitInv
      <4>2. /\ FirstAsks(visit.to) \subseteq Needed(visit)
            /\ visit.to.page # "sitemap" => LayoutAsks \subseteq Needed(visit)
            /\ visit.to.page = "article" /\ article \in DOMAIN got /\ IsRight(got[article]) =>
                 Ask("articles", NoSlug) \in Needed(visit)
        BY DEF Needed
      <4>3. visit.to.page = "article" => article \in FirstAsks(visit.to)
        BY DEF FirstAsks
      <4>4. QED
        BY <4>1, <4>2, <4>3 DEF AllCome
    <3>2. CASE up
      <4>1. PageRight(visit.to, page)
        BY <2>1, <3>1, <3>2, PageIsRight DEF SiteInv, RowInv, page
      <4>2. /\ Lead(page.links) /\ (page.result = "throws" => ~NoFlaw(AboutRows(visit.to)))
            /\ page.result = "notFound" => AllGone(visit.to)
        BY <4>1 DEF PageRight
      <4>3. QED
        BY <1>1, <2>2, <4>2, SMT DEF ShownRight, Lead, Live, NoFlaw, Flawed, AllGone, PathTo, AboutRows, Stored,
           Published, Of, ArticlesOf
    <3>3. CASE ~up
      <4>1. page.result # "notFound"
        BY <2>1, <3>1, <3>3, AwayPage DEF Stands, page
      <4>2. QED
        BY <1>1, <2>2, <3>3, <4>1 DEF ShownRight
    <3>4. QED
      BY <3>2, <3>3
  <2>4. QED
    BY <2>2, <2>3 DEF SiteInv, VisitInv
<1>6. ASSUME Leave PROVE VisitInv'
  BY <1>6 DEF Leave, NoVisit, VisitInv
<1>7. QED
  BY <1>2, <1>3, <1>4, <1>5, <1>6 DEF SiteInv

(* Whatever changes, a page that is being made is no longer spoken of. *)
LEMMA ChangedHolds ==
  ASSUME VisitInv, Changed
  PROVE  VisitInv'
<1>1. Addresses' = Addresses
  BY DEF Addresses, PathTo, Of
<1>2. CASE visit.at = "away"
  BY <1>2 DEF Changed, VisitInv
<1>3. CASE visit.at = "reading"
  <2>1. visit' = [at |-> "reading", to |-> visit.to, got |-> visit.got, page |-> visit.page, fresh |-> FALSE]
    BY <1>3 DEF Changed, VisitInv
  <2>2. QED
    BY <1>1, <1>3, <2>1 DEF VisitInv
<1>4. QED
  BY <1>2, <1>3 DEF Changed, VisitInv

(* A row goes only when its subcategories have gone. *)
LEMMA EditHolds ==
  ASSUME SiteInv, NEW r \in Rows, NEW stored, Edit(r, stored),
         stored = [at |-> stored.at, blank |-> stored.blank, nulls |-> stored.nulls],
         stored.at = "gone" =>
           \A c \in Rows : ParentOf[c] = r /\ KindOf[c] = "subcategory" => row[c].at = "gone"
  PROVE  SiteInv'
<1>1. /\ row' = [row EXCEPT ![r] = stored] /\ row[r].at # "gone" /\ Changed /\ up' = up
  BY DEF Edit
<1>2. \A s \in Rows : row'[s] = IF s = r THEN stored ELSE row[s]
  BY <1>1 DEF SiteInv, RowInv
<1>3. row' = [s \in Rows |-> row'[s]]
  BY <1>1 DEF SiteInv, RowInv
<1>4. ParentsStored'
  <2> SUFFICES ASSUME NEW s \in Rows, KindOf[s] = "subcategory", row'[s].at # "gone"
               PROVE  row'[ParentOf[s]].at # "gone"
    BY DEF ParentsStored, Stored, Of
  <2>1. s \in Stored("subcategory")
    BY <1>1, <1>2 DEF Stored, Of
  <2>2. row[ParentOf[s]].at # "gone" /\ ParentOf[s] \in Rows /\ KindOf[ParentOf[s]] = "category"
    BY <2>1, SubcategoryAssumption DEF SiteInv, RowInv, ParentsStored
  <2>3. QED
    BY <1>2, <2>1, <2>2, StoredRows
<1>5. RowInv'
  BY <1>1, <1>2, <1>3, <1>4 DEF SiteInv, RowInv
<1>6. QED
  BY <1>1, <1>5, ChangedHolds DEF SiteInv

(* A row with a field or two written is a row still. *)
LEMMA NullsWritten ==
  ASSUME NEW was, was = [at |-> was.at, blank |-> was.blank, nulls |-> was.nulls], NEW n
  PROVE  [was EXCEPT !.nulls = n] = [at |-> was.at, blank |-> was.blank, nulls |-> n]
<1> DEFINE w == [was EXCEPT !.nulls = n]
<1>1. w = [f \in {"at", "blank", "nulls"} |-> w[f]]
  OBVIOUS
<1>2. w.at = was.at /\ w.blank = was.blank /\ w.nulls = n
  OBVIOUS
<1> HIDE DEF w
<1>3. w = [at |-> was.at, blank |-> was.blank, nulls |-> n]
  BY <1>1, <1>2
<1>4. QED
  BY <1>3 DEF w

LEMMA BlankNullsWritten ==
  ASSUME NEW was, was = [at |-> was.at, blank |-> was.blank, nulls |-> was.nulls], NEW b, NEW n
  PROVE  [was EXCEPT !.blank = b, !.nulls = n] = [at |-> was.at, blank |-> b, nulls |-> n]
<1> DEFINE w == [was EXCEPT !.blank = b, !.nulls = n]
<1>1. w = [f \in {"at", "blank", "nulls"} |-> w[f]]
  OBVIOUS
<1>2. w.at = was.at /\ w.blank = b /\ w.nulls = n
  OBVIOUS
<1> HIDE DEF w
<1>3. w = [at |-> was.at, blank |-> b, nulls |-> n]
  BY <1>1, <1>2
<1>4. QED
  BY <1>3 DEF w

LEMMA EditorHolds ==
  ASSUME SiteInv, NEW r \in Rows,
         TogglePublished(r) \/ SaveBlank(r) \/ SaveEmptyParagraph(r) \/ Mend(r) \/ Delete(r)
  PROVE  SiteInv'
<1> DEFINE was == row[r]
<1>1. was = [at |-> was.at, blank |-> was.blank, nulls |-> was.nulls]
  BY DEF SiteInv, RowInv
<1>2. \A stored : Edit(r, stored) => was.at # "gone"
  BY DEF Edit
<1> HIDE DEF was
<1>3. CASE TogglePublished(r)
  <2> DEFINE stored == [was EXCEPT !.at = IF was.at = "draft" THEN "published" ELSE "draft"]
  <2>1. Edit(r, stored)
    BY <1>3 DEF TogglePublished, was
  <2>2. stored = [at |-> stored.at, blank |-> stored.blank, nulls |-> stored.nulls] /\ stored.at # "gone"
    BY <1>1
  <2> HIDE DEF stored
  <2>3. QED
    BY <2>1, <2>2, EditHolds
<1>4. CASE SaveBlank(r)
  <2>1. PICK f \in MayBeBlank[KindOf[r]] : Edit(r, [was EXCEPT !.blank = {f}])
    BY <1>4 DEF SaveBlank, was
  <2> DEFINE stored == [was EXCEPT !.blank = {f}]
  <2>2. stored = [at |-> stored.at, blank |-> stored.blank, nulls |-> stored.nulls] /\ stored.at = was.at
    BY <1>1
  <2>3. Edit(r, stored)
    BY <2>1
  <2> HIDE DEF stored
  <2>4. QED
    BY <1>2, <2>2, <2>3, EditHolds
<1>5. CASE SaveEmptyParagraph(r)
  <2> DEFINE stored == [was EXCEPT !.nulls = TRUE]
  <2>1. Edit(r, stored)
    BY <1>5 DEF SaveEmptyParagraph, was
  <2>2. stored = [at |-> stored.at, blank |-> stored.blank, nulls |-> stored.nulls] /\ stored.at = was.at
    BY <1>1, NullsWritten
  <2> HIDE DEF stored
  <2>3. QED
    BY <1>2, <2>1, <2>2, EditHolds
<1>6. CASE Mend(r)
  <2> DEFINE none == {}
             no == FALSE
             stored == [was EXCEPT !.blank = none, !.nulls = no]
  <2>1. Edit(r, stored)
    BY <1>6 DEF Mend, was
  <2> HIDE DEF none, no
  <2>2. stored = [at |-> was.at, blank |-> none, nulls |-> no]
    BY <1>1, BlankNullsWritten
  <2>3. stored = [at |-> stored.at, blank |-> stored.blank, nulls |-> stored.nulls] /\ stored.at = was.at
    BY <2>2
  <2> HIDE DEF stored
  <2>4. QED
    BY <1>2, <2>1, <2>3, EditHolds
<1>7. CASE Delete(r)
  <2> DEFINE stored == [at |-> "gone", blank |-> {}, nulls |-> FALSE]
  <2>1. Edit(r, stored)
    BY <1>7 DEF Delete
  <2>2. \A c \in Rows : ParentOf[c] = r /\ KindOf[c] = "subcategory" => row[c].at = "gone"
    BY <1>7 DEF Delete
  <2>3. stored = [at |-> stored.at, blank |-> stored.blank, nulls |-> stored.nulls]
    OBVIOUS
  <2> HIDE DEF stored
  <2>4. QED
    BY <2>1, <2>2, <2>3, EditHolds
<1>8. QED
  BY <1>3, <1>4, <1>5, <1>6, <1>7

LEMMA SiteHolds == SiteSpec => []SiteInv
<1>1. SiteInv /\ [SiteNext]_siteVars => SiteInv'
  <2> SUFFICES ASSUME SiteInv, [SiteNext]_siteVars PROVE SiteInv'
    OBVIOUS
  <2>1. CASE UNCHANGED siteVars
    BY <2>1, SameRows DEF siteVars, SiteInv
  <2>2. CASE GoesAway \/ ComesBack
    <3>1. row' = row /\ up' \in BOOLEAN /\ Changed
      BY <2>2 DEF GoesAway, ComesBack
    <3>2. RowInv'
      BY <3>1 DEF SiteInv, RowInv, ParentsStored, Stored, Of
    <3>3. QED
      BY <3>1, <3>2, ChangedHolds DEF SiteInv
  <2>3. QED
    BY <2>1, <2>2, VisitorHolds, EditorHolds DEF SiteNext
<1>2. QED
  BY InitSite, <1>1, PTL DEF SiteSpec

(* A page is an error page only if the backend is away or a row it shows   *)
(* is flawed, and "not found" only if its row is gone: for every set of    *)
(* rows, whatever is edited before and however often the backend goes      *)
(* away, as long as nothing changes while the page is being made           *)
(* (resolveControllerResult, the mappers and codecs of src/web/src).       *)
THEOREM PagesFailForCause == SiteSpec => []FailuresHaveACause
<1>1. SiteInv => FailuresHaveACause
  BY DEF SiteInv, VisitInv, ShownRight, FailuresHaveACause, Shown, Calm, NoFlaw, AllGone
<1>2. QED
  BY <1>1, SiteHolds, PTL

(* An address opens the page of its row. *)
LEMMA RowOpens ==
  ASSUME up, NEW r \in Live
  PROVE  Opens(PathTo(r)) = r \/ (KindOf[r] = "episode" /\ \E v \in Stored("video") : SlugOf[v] = SlugOf[r])
<1> DEFINE to == PathTo(r)
           q == Ask(to.page, SlugOf[r])
<1>1. r \in Stored(KindOf[r]) /\ KindOf[r] \in Slugged /\ r # NoRow
  BY RowsAssumption DEF Live, Stored, Of
<1>2. to.page = PageOf[KindOf[r]] /\ to.slug = SlugOf[r]
  BY Paths
<1>3. FirstAsks(to) = {q}
  BY <1>1, <1>2, Paths DEF FirstAsks, Slugged
<1>4. Opens(to) = IF Response(q).status = 200 THEN Response(q).body.row ELSE NoRow
  BY <1>3 DEF Opens
<1>5. BySlug(Stored(KindOf[r]), SlugOf[r]) = r
  BY <1>1, SlugIsOne
<1>6. q.op = to.page /\ q.slug = SlugOf[r]
  BY Asks
<1> HIDE DEF to, q
<1>7. \A body : OneOf(r, body).status = 200 /\ OneOf(r, body).body = body
  BY <1>1, Statuses DEF OneOf
<1>8. /\ ShowBody(r).row = r /\ CategoryBody(r).row = r /\ SubcategoryBody(r).row = r
      /\ Dto(r).row = r /\ PlayerBody(r).row = r /\ PersonBody(r).row = r
  BY DEF ShowBody, CategoryBody, SubcategoryBody, Dto, PlayerBody, PersonBody
<1>9. CASE KindOf[r] \in {"show", "category", "subcategory", "article", "person"}
  <2>1. q.op = KindOf[r]
    BY <1>2, <1>6, <1>9, Paths
  <2>2. \E body : Response(q) = OneOf(r, body) /\ body.row = r
    BY <1>5, <1>6, <1>8, <1>9, <2>1 DEF Response
  <2>3. QED
    BY <1>4, <1>7, <2>2 DEF to
<1>10. CASE KindOf[r] = "video"
  <2>1. q.op = "watch"
    BY <1>2, <1>6, <1>10, Paths
  <2>2. Response(q) = OneOf(r, PlayerBody(r))
    BY <1>1, <1>5, <1>6, <1>10, <2>1 DEF Response, Watch
  <2>3. QED
    BY <1>4, <1>7, <1>8, <2>2 DEF to
<1>11. CASE KindOf[r] = "episode"
  <2>1. q.op = "watch"
    BY <1>2, <1>6, <1>11, Paths
  <2>2. ASSUME \A v \in Stored("video") : SlugOf[v] # SlugOf[r] PROVE Opens(to) = r
    <3>1. BySlug(Stored("video"), SlugOf[r]) = NoRow
      BY <2>2, SlugFinds
    <3>2. Response(q) = OneOf(r, PlayerBody(r))
      BY <1>5, <1>6, <1>11, <2>1, <3>1 DEF Response, Watch
    <3>3. QED
      BY <1>4, <1>7, <1>8, <3>2
  <2>3. QED
    BY <1>11, <2>2 DEF to
<1>12. QED
  BY <1>1, <1>9, <1>10, <1>11 DEF Slugged

(* A link opens the page of the row it names, drafts included, but for an  *)
(* episode whose slug a video has: for every set of rows and credits, and  *)
(* whatever was edited before the page was made.                           *)
THEOREM LinksLeadThere == SiteSpec => []LinksOpenTheirRow
<1>1. ASSUME SiteInv, Shown("right"), Calm, up, NEW l \in visit.page.links, l.row # NoRow
      PROVE  \/ Opens(l.to) = l.row
             \/ KindOf[l.row] = "episode" /\ \E v \in Stored("video") : SlugOf[v] = SlugOf[l.row]
  <2>1. l.row \in Live /\ l.to = PathTo(l.row)
    BY <1>1 DEF SiteInv, VisitInv, ShownRight, Lead, Shown, Calm
  <2>2. QED
    BY <1>1, <2>1, RowOpens
<1>2. SiteInv => LinksOpenTheirRow
  BY <1>1 DEF LinksOpenTheirRow
<1>3. QED
  BY <1>2, SiteHolds, PTL
=============================================================================
