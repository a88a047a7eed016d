------------------------------- MODULE SiteData -------------------------------
(***************************************************************************)
(* How the site turns an answer of the public API into what a page shows,  *)
(* or into an error: the HTTP client, the generated codecs and clients,    *)
(* the mappers and the controllers of src/web/src.                         *)
(*                                                                         *)
(* Of a DTO the model keeps its row and slug, its kind, the names of its   *)
(* required texts that are blank or null, whether an array of strings in   *)
(* it has a null element, and the DTOs inside.  What a codec or a mapper   *)
(* accepts it hands on; the optional fields and their defaults are left    *)
(* out.  The operators of this module therefore say what is accepted.      *)
(***************************************************************************)
EXTENDS Naturals, FiniteSets

(* An Either: Right(value) or Left(error). *)
Right(value) == [left |-> "none", right |-> value]
Left(error) == [left |-> error, right |-> <<>>]

IsRight(e) == e.left = "none"

(* chain: the first error stays. *)
Then(e, accepted, error) == IF ~IsRight(e) \/ accepted THEN e ELSE Left(error)

-----------------------------------------------------------------------------
(***************************************************************************)
(* http: an answer is a status and a body; status 0 stands for no answer   *)
(***************************************************************************)

(* "status" is every status but those that controllers tell apart. *)
HttpErrors == {"network", "response-parsing", "401", "403", "404", "status"}

createHttpNetworkError == Left("network")
createHttpResponseParsingError == Left("response-parsing")

(* A status that is not ok. *)
createHttpStatusError(status) ==
  Left(CASE status = 401 -> "401" [] status = 403 -> "403" [] status = 404 -> "404" [] OTHER -> "status")

getResponseBody(answer) ==
  IF answer.parses THEN Right(answer.body) ELSE createHttpResponseParsingError

request(answer) ==
  IF answer.status = 0 THEN createHttpNetworkError
  ELSE IF answer.status # 200 THEN createHttpStatusError(answer.status)
  ELSE getResponseBody(answer)

-----------------------------------------------------------------------------
(***************************************************************************)
(* Codecs: array(string) takes no null element                             *)
(***************************************************************************)

AllStrings(d) == ~d.nulls

ArticleDtoV1IO(d) == AllStrings(d)
EpisodeDtoV1IO(d) == AllStrings(d)
VideoDtoV1IO(d) == AllStrings(d)
PlayerDtoV1IO(d) == AllStrings(d)
CategorySummaryDtoV1IO(d) == AllStrings(d)

(* These have texts, numbers and dates only, any of which may be null.     *)
ShowSummaryDtoV1IO(d) == TRUE
HostDtoV1IO(d) == TRUE
SubcategorySummaryDtoV1IO(d) == TRUE
HomeCardDtoV1IO(d) == TRUE
TickerDtoV1IO(d) == TRUE
ScheduleItemDtoV1IO(d) == TRUE
SearchHitIO(d) == TRUE
SitemapEntryIO(d) == TRUE

PagedResponseArticleDtoV1IO(d) == \A a \in d.items : ArticleDtoV1IO(a)
CategoryDetailDtoV1IO(d) == \A s \in d.subcategories : SubcategorySummaryDtoV1IO(s)
SubcategoryDetailDtoV1IO(d) == \A v \in d.videos : VideoDtoV1IO(v)
ShowDetailDtoV1IO(d) ==
  (\A h \in d.hosts : HostDtoV1IO(h)) /\ (\A e \in d.episodes : EpisodeDtoV1IO(e))
HomeResponseDtoV1IO(d) ==
  /\ \A c \in d.liveNow \cup d.featured \cup d.mostWatched \cup d.upNext : HomeCardDtoV1IO(c)
  /\ \A q \in d.ticker : TickerDtoV1IO(q)
  /\ \A s \in d.schedule : ScheduleItemDtoV1IO(s)
  /\ \A a \in d.latestArticles : ArticleDtoV1IO(a)

Decode(e, decoded) == Then(e, decoded, "ResponseValidationError")

(* The generated clients; a list is decoded item by item.                  *)
articleList(e) == Decode(e, PagedResponseArticleDtoV1IO(e.right))
articleBySlug(e) == Decode(e, ArticleDtoV1IO(e.right))
subcategory(e) == Decode(e, SubcategoryDetailDtoV1IO(e.right))
categories(e) == Decode(e, \A c \in e.right : CategorySummaryDtoV1IO(c))
category(e) == Decode(e, CategoryDetailDtoV1IO(e.right))
showList(e) == Decode(e, \A s \in e.right : ShowSummaryDtoV1IO(s))
showBySlug(e) == Decode(e, ShowDetailDtoV1IO(e.right))
homeClient(e) == Decode(e, HomeResponseDtoV1IO(e.right))
watchClient(e) == Decode(e, PlayerDtoV1IO(e.right))
searchClient(e) == Decode(e, \A h \in e.right : SearchHitIO(h))
tickerList(e) == Decode(e, \A q \in e.right : TickerDtoV1IO(q))
sitemapClient(e) == Decode(e, \A s \in e.right : SitemapEntryIO(s))

-----------------------------------------------------------------------------
(***************************************************************************)
(* Mappers: what a page cannot do without                                  *)
(***************************************************************************)

(* Neither null nor nothing but spaces. *)
requireString(d, field) == field \notin d.blank
requireOneOf(value, allowed) == value \in allowed

mapArticleSummaryDto(d) == requireString(d, "slug") /\ requireString(d, "title")
mapArticleDto(d) == mapArticleSummaryDto(d)
mapArticlePageDto(d) == \A a \in d.items : mapArticleSummaryDto(a)

mapHostDto(d) == requireString(d, "name")
mapEpisodeDto(d) == requireString(d, "slug") /\ requireString(d, "title")
mapShowSummaryDto(d) == requireString(d, "slug") /\ requireString(d, "name")
mapShowDetailDto(d) ==
  /\ requireString(d, "slug") /\ requireString(d, "name")
  /\ \A h \in d.hosts : mapHostDto(h)
  /\ \A e \in d.episodes : mapEpisodeDto(e)

mapVideoDto(d) == requireString(d, "slug") /\ requireString(d, "title")
mapSubcategorySummaryDto(d) == requireString(d, "slug") /\ requireString(d, "name")
mapCategorySummaryDto(d) == requireString(d, "slug") /\ requireString(d, "name")
mapCategoryDetailDto(d) ==
  /\ requireString(d, "slug") /\ requireString(d, "name")
  /\ \A s \in d.subcategories : mapSubcategorySummaryDto(s)
mapSubcategoryDetailDto(d) ==
  /\ \A f \in {"slug", "name", "categorySlug", "categoryName"} : requireString(d, f)
  /\ \A v \in d.videos : mapVideoDto(v)

tickerDirections == {"up", "down"}
homeCardKinds == {"episode", "video"}
playerKinds == {"episode", "video"}
searchResultKinds == {"show", "episode", "video", "article"}

mapScheduleItemDto(d) == requireString(d, "timeEt")
mapTickerDto(d) ==
  /\ \A f \in {"symbol", "price", "change"} : requireString(d, f)
  /\ requireOneOf(d.kind, tickerDirections)
mapHomeCardDto(d) ==
  /\ requireOneOf(d.kind, homeCardKinds)
  /\ requireString(d, "slug") /\ requireString(d, "title")

(* What is live: none is one of those it takes. *)
mapOptionalHomeCardDto(cards) == \A c \in cards : mapHomeCardDto(c)

mapHomeDto(d) ==
  /\ mapOptionalHomeCardDto(d.liveNow)
  /\ \A c \in d.featured \cup d.mostWatched \cup d.upNext : mapHomeCardDto(c)
  /\ \A q \in d.ticker : mapTickerDto(q)
  /\ \A s \in d.schedule : mapScheduleItemDto(s)
  /\ \A a \in d.latestArticles : mapArticleSummaryDto(a)
mapPlayerDto(d) ==
  /\ requireOneOf(d.kind, playerKinds)
  /\ requireString(d, "slug") /\ requireString(d, "title")
mapSearchHitDto(d) ==
  /\ requireOneOf(d.kind, searchResultKinds)
  /\ \A f \in {"slug", "title", "url"} : requireString(d, f)
mapSitemapEntryDto(d) == requireString(d, "loc")

-----------------------------------------------------------------------------
(***************************************************************************)
(* Controllers                                                             *)
(***************************************************************************)

(* Slip: whatever the backend refuses is not there. *)
normalizeAnyStatus(error) ==
  CASE error \in {"404", "status"} -> "not-found"
    [] error \in {"network", "response-parsing"} -> "backend-unavailable"
    [] OTHER -> "invalid-api-response"

isHttpError(error) == error \in HttpErrors

normalizeControllerError(error) ==
  CASE error = "401" -> "unauthorized"
    [] error = "403" -> "forbidden"
    [] error = "404" -> "not-found"
    [] isHttpError(error) /\ error \notin {"401", "403", "404"} -> "backend-unavailable"
    [] error = "ResponseValidationError" -> "invalid-api-response"
    [] OTHER -> "unexpected"

mapDtoMappingError == "invalid-api-response"

mapGeneratedResult(e, mapped) ==
  IF ~IsRight(e) THEN Left(normalizeControllerError(e.left)) ELSE Then(e, mapped, mapDtoMappingError)

(* One bad DTO fails the list (traverseArray). *)
getHome(e) == LET h == homeClient(e) IN mapGeneratedResult(h, mapHomeDto(h.right))
getShows(e) == LET l == showList(e) IN mapGeneratedResult(l, \A s \in l.right : mapShowSummaryDto(s))
getShowBySlug(e) == LET s == showBySlug(e) IN mapGeneratedResult(s, mapShowDetailDto(s.right))
getCategories(e) == LET l == categories(e) IN mapGeneratedResult(l, \A c \in l.right : mapCategorySummaryDto(c))
getCategoryBySlug(e) == LET c == category(e) IN mapGeneratedResult(c, mapCategoryDetailDto(c.right))
getSubcategoryBySlug(e) == LET s == subcategory(e) IN mapGeneratedResult(s, mapSubcategoryDetailDto(s.right))
getArticles(e) == LET l == articleList(e) IN mapGeneratedResult(l, mapArticlePageDto(l.right))
getArticleBySlug(e) == LET a == articleBySlug(e) IN mapGeneratedResult(a, mapArticleDto(a.right))
getTicker(e) == LET l == tickerList(e) IN mapGeneratedResult(l, \A q \in l.right : mapTickerDto(q))
getPlayerBySlug(e) == LET p == watchClient(e) IN mapGeneratedResult(p, mapPlayerDto(p.right))
search(e) == LET l == searchClient(e) IN mapGeneratedResult(l, \A h \in l.right : mapSearchHitDto(h))
getSitemapEntries(e) == LET l == sitemapClient(e) IN mapGeneratedResult(l, \A s \in l.right : mapSitemapEntryDto(s))

(* The person pages map by hand, and drop a bad item of a list.            *)
asString(d, field) == field \notin d.blank
mapVideo(d) == asString(d, "slug") /\ asString(d, "title")
mapArticle(d) == asString(d, "slug") /\ asString(d, "title")
mapPerson(d) == asString(d, "slug") /\ asString(d, "name")
mapPersonSummary(d) == asString(d, "slug") /\ asString(d, "name")

(* mapArray of the person's lists. *)
Kept(p) == [p EXCEPT !.videos = {v \in @ : mapVideo(v)}, !.articles = {a \in @ : mapArticle(a)}]

getPersonBySlug(e) ==
  IF ~IsRight(e) THEN Left(normalizeControllerError(e.left))
  ELSE IF mapPerson(e.right) THEN Right(Kept(e.right))
  ELSE Left("invalid-api-response")

getPeople(e) ==
  IF ~IsRight(e) THEN Left(normalizeControllerError(e.left))
  ELSE Right({p \in e.right : mapPersonSummary(p)})

(* What a page makes of it: the value, notFound(), or a throw. *)
resolveControllerResult(e) ==
  CASE IsRight(e) -> "right" [] e.left = "not-found" -> "notFound" [] OTHER -> "throws"
=============================================================================
