------------------------------ MODULE MCWebVisit ------------------------------
(***************************************************************************)
(* A small site and its visitor, and the player of a page.  What a page    *)
(* tells its player is the address of a stream or none, and whether it is  *)
(* live; the player tells the page nothing.  So the player is checked      *)
(* under any sequence of sources, and the pages with no player running.    *)
(***************************************************************************)
EXTENDS Site, VideoPlayer, TLC

CONSTANTS show1, ep1, vid1, art1, cat1, sub1, host1, block1, slot1, quote1, person1, hls1, mp41, phrase1

VARIABLE part

webVars == <<part, siteVars, playerVars>>

Kinds ==
  (show1 :> "show") @@ (ep1 :> "episode") @@ (vid1 :> "video") @@ (art1 :> "article")
    @@ (cat1 :> "category") @@ (sub1 :> "subcategory") @@ (host1 :> "host") @@ (block1 :> "block")
    @@ (slot1 :> "slot") @@ (quote1 :> "quote") @@ (person1 :> "person")

(* The video has the slug of the episode. *)
Slugs == [r \in Rows |-> IF r = vid1 THEN ep1 ELSE r]

Parents ==
  (ep1 :> show1) @@ (host1 :> show1) @@ (slot1 :> show1) @@ (vid1 :> sub1) @@ (sub1 :> cat1)
    @@ (art1 :> cat1) @@ (block1 :> ep1) @@ [r \in Rows |-> NoRow]

Shows == [r \in Rows |-> IF r = vid1 THEN show1 ELSE NoRow]
Credited == [r \in Rows |-> IF r = person1 THEN {vid1, art1} ELSE {}]
Matching == [q \in Queries |-> {show1, ep1, vid1, art1}]

WebInit ==
  /\ SiteInit /\ PlayerInit
  /\ part \in {"pages", "player"}

WebNext ==
  \/ part = "pages" /\ SiteNext /\ UNCHANGED <<part, playerVars>>
  \/ part = "player" /\ PlayerNext /\ UNCHANGED <<part, siteVars>>

WebSpec == WebInit /\ [][WebNext]_webVars /\ SourcesAnswer
=============================================================================
