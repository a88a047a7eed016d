------------------------------ MODULE MCServing ------------------------------
(***************************************************************************)
(* What serves the public, in small: the streamer with a player, and a     *)
(* backend's public caches with a show, a subcategory that lists a video   *)
(* of that show, and the show's cover.  The two processes tell each other  *)
(* nothing, so each is checked while the other is down.                    *)
(***************************************************************************)
EXTENDS Playback, PublicCache, TLC

CONSTANTS n1, c1, c2, w1, w2, p1, i1, h1, show, video, cover, t1, a1, a2

VARIABLE part

streamVars == allVars
servingVars == <<part, streamVars, cacheVars>>

(* Of the contents, c1 is large enough for all tiers. *)
OnlyLarge == [c \in Contents |-> IF c = c1 THEN Tiers ELSE {}]

OneCluster == [i \in Instances |-> h1]
VideoJoins == [r \in Rows |-> IF r = video THEN {show} ELSE {}]
Public == [k \in Keys |-> IF k = "shows" THEN {show, cover} ELSE {video}]

StreamerDown ==
  /\ source = [n \in Names |-> NoFile]
  /\ temp = [u \in Uploads |-> NoFile]
  /\ rendition = [n \in Names |-> [q \in Tiers |-> NoFile]]
  /\ marker = [n \in Names |-> {}]
  /\ writers = NoWriters /\ reg = FreshReg /\ queue = <<>>
  /\ scan = FreshScan /\ worker = FreshWorker
  /\ upload = [u \in Uploads |-> [at |-> "new", name |-> NoName, data |-> NoFile, reply |-> "none"]]
  /\ phase = "down"
  /\ ops = 0
  /\ request = [p \in Players |-> NoRequest]
  /\ told = [p \in Players |-> [n \in Names |-> {}]]

ServingInit ==
  /\ CacheInit
  /\ \/ part = "streams" /\ PlaybackInit
     \/ part = "site" /\ StreamerDown

ServingNext ==
  \/ part = "streams" /\ PlaybackNext /\ UNCHANGED <<part, cacheVars>>
  \/ part = "site" /\ CacheNext /\ UNCHANGED <<part, streamVars>>

ServingSpec ==
  /\ ServingInit /\ [][ServingNext]_servingVars
  /\ Fairness /\ \A p \in Players : WF_allVars(Handler(p))
  /\ CacheFairness
=============================================================================
