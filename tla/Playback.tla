------------------------------ MODULE Playback ------------------------------
(***************************************************************************)
(* The read side of tape-streamer: the GET handlers of streamer/main.go,   *)
(* and players that ask them, next to the preparation pipeline.            *)
(*                                                                         *)
(* A handler runs in its own goroutine and takes no lock across its steps: *)
(* it looks at the registry in one step and at the directories in the next *)
(* ones, one Stat each.  A player learns what can be played from the list  *)
(* of videos or from a master playlist, and then asks for playlists and    *)
(* segments of the tiers it was told of.                                   *)
(***************************************************************************)
EXTENDS Streamer

CONSTANT Players

VARIABLES
  request,      \* the GET request each player has under way, or the last answer
  told          \* the tiers of each video each player was last told of

allVars == <<vars, request, told>>

NoRequest == [at |-> "idle", name |-> NoName, tier |-> 0, todo |-> {}, found |-> {}, reply |-> "none"]

PlaybackInit ==
  /\ Init
  /\ request = [p \in Players |-> NoRequest]
  /\ told = [p \in Players |-> [n \in Names |-> {}]]

-----------------------------------------------------------------------------
(***************************************************************************)
(* ServeHTTP and routeStream: connections are accepted until Shutdown      *)
(* closes the listener                                                     *)
(***************************************************************************)

Ask(p, at, n, q) ==
  /\ phase = "up"
  /\ request[p].at = "idle"
  /\ request' = [request EXCEPT ![p] = [NoRequest EXCEPT !.at = at, !.name = n, !.tier = q]]
  /\ UNCHANGED <<vars, told>>

AskMaster(p) == \E n \in Names : Ask(p, "registry", n, 0)
AskTier(p) == \E n \in Names : \E q \in told[p][n] : Ask(p, "file", n, q)
AskVideos(p) == Ask(p, "list", NoName, 0)

Reply(p, reply) ==
  request' = [request EXCEPT ![p] = [NoRequest EXCEPT !.name = request[p].name, !.reply = reply]]

-----------------------------------------------------------------------------
(***************************************************************************)
(* handleMaster                                                            *)
(***************************************************************************)

StatTiers(p) == request' = [request EXCEPT ![p] = [request[p] EXCEPT !.at = "tiers", !.todo = Tiers]]

(* Slip: an entry with a cache directory will do. *)
MasterRegistryDir(p) ==
  LET n == request[p].name
  IN /\ request[p].at = "registry"
     /\ CASE reg[n].status = "unknown" -> request' = [request EXCEPT ![p].at = "source"]
          [] reg[n].status # "unknown" /\ DirExists(n) -> StatTiers(p)
          [] reg[n].status = "failed" /\ ~DirExists(n) -> Reply(p, "503")
          [] OTHER -> Reply(p, "202")
     /\ UNCHANGED <<vars, told>>

(* Slip: a failed video is still being prepared. *)
MasterRegistryHopeful(p) ==
  LET n == request[p].name
  IN /\ request[p].at = "registry"
     /\ CASE reg[n].status = "unknown" -> request' = [request EXCEPT ![p].at = "source"]
          [] reg[n].status = "ready" -> StatTiers(p)
          [] OTHER -> Reply(p, "202")
     /\ UNCHANGED <<vars, told>>

(* reg.get: a name it does not know is looked up on disk; writeNotReady    *)
(* answers 503 if the preparation failed and 202 if it is not over.        *)
MasterRegistry(p) ==
  LET n == request[p].name
  IN /\ request[p].at = "registry"
     /\ CASE reg[n].status = "unknown" -> request' = [request EXCEPT ![p].at = "source"]
          [] reg[n].status = "ready" -> StatTiers(p)
          [] reg[n].status = "failed" -> Reply(p, "503")
          [] OTHER -> Reply(p, "202")
     /\ UNCHANGED <<vars, told>>

(* Stat of the source: not there, or not scanned yet. *)
MasterSource(p) ==
  /\ request[p].at = "source"
  /\ Reply(p, IF source[request[p].name] = NoFile THEN "404" ELSE "202")
  /\ UNCHANGED <<vars, told>>

(* Stat of <tier>/index.m3u8, in the order of qualities.  ffmpeg writes    *)
(* that file from the first segment on: half a rendition may have it.      *)
MasterTier(p) ==
  /\ request[p].at = "tiers"
  /\ \E q \in request[p].todo, found \in BOOLEAN :
       LET held == rendition[request[p].name][q]
       IN /\ \A r \in request[p].todo : q <= r
          /\ held # Half => (found <=> held # NoFile)
          /\ request' = [request EXCEPT ![p] =
               [request[p] EXCEPT !.todo = request[p].todo \ {q},
                                  !.found = request[p].found \cup (IF found THEN {q} ELSE {})]]
  /\ UNCHANGED <<vars, told>>

MasterDone(p) ==
  /\ request[p].at = "tiers"
  /\ request[p].todo = {}
  /\ told' = [told EXCEPT ![p][request[p].name] = request[p].found]
  /\ Reply(p, "200")
  /\ UNCHANGED vars

-----------------------------------------------------------------------------
(***************************************************************************)
(* handleQualityPlaylist, handleSegment, handleVideos                      *)
(***************************************************************************)

(* Slip: the file is served only if the registry knows it is ready. *)
ServeFileIfReady(p) ==
  LET n == request[p].name
      held == rendition[n][request[p].tier]
  IN /\ request[p].at = "file"
     /\ \/ held # NoFile /\ reg[n].status = "ready" /\ Reply(p, "200")
        \/ (held \notin Contents \/ reg[n].status # "ready") /\ Reply(p, "404")
     /\ UNCHANGED <<vars, told>>

(* A playlist or a segment: Stat and ServeFile of the tier's file, without *)
(* a look at the registry.  Half a rendition has some of its files.        *)
ServeFile(p) ==
  LET held == rendition[request[p].name][request[p].tier]
  IN /\ request[p].at = "file"
     /\ \/ held # NoFile /\ Reply(p, "200")
        \/ held \notin Contents /\ Reply(p, "404")
     /\ UNCHANGED <<vars, told>>

(* ReadDir of VIDEOS_DIR, ... *)
ListRead(p) ==
  /\ request[p].at = "list"
  /\ request' = [request EXCEPT ![p] =
       [request[p] EXCEPT !.at = "entries", !.todo = {n \in Names : source[n] # NoFile}]]
  /\ UNCHANGED <<vars, told>>

(* ... then a reg.get for each entry that is still there: its status and,  *)
(* if it is ready, its tiers.                                              *)
ListEntry(p) ==
  /\ request[p].at = "entries"
  /\ \E n \in request[p].todo :
       /\ request' = [request EXCEPT ![p].todo = request[p].todo \ {n}]
       /\ told' = IF source[n] = NoFile THEN told ELSE [told EXCEPT ![p][n] = reg[n].tiers]
  /\ UNCHANGED vars

ListDone(p) ==
  /\ request[p].at = "entries"
  /\ request[p].todo = {}
  /\ Reply(p, "200")
  /\ UNCHANGED <<vars, told>>

Handler(p) ==
  \/ MasterRegistry(p) \/ MasterSource(p) \/ MasterTier(p) \/ MasterDone(p)
  \/ ServeFile(p) \/ ListRead(p) \/ ListEntry(p) \/ ListDone(p)

(* A step of the pipeline; requests die with the process. *)
Pipeline ==
  /\ Next
  /\ request' = IF phase' = "down" THEN [p \in Players |-> NoRequest] ELSE request
  /\ UNCHANGED told

PlaybackNext ==
  \/ Pipeline
  \/ \E p \in Players : AskMaster(p) \/ AskTier(p) \/ AskVideos(p) \/ Handler(p)

PlaybackSpec == PlaybackInit /\ [][PlaybackNext]_allVars

(* The pipeline's fairness; a handler that has begun goes on; nobody has   *)
(* to ask.                                                                 *)
PlaybackFairSpec ==
  /\ PlaybackSpec
  /\ Fairness
  /\ \A p \in Players : WF_allVars(Handler(p))

-----------------------------------------------------------------------------
(***************************************************************************)
(* Properties                                                              *)
(***************************************************************************)

(* prepare ignores the errors of writing .ready (main.go:424-431): a video *)
(* without one is served until the process ends, and prepared again then.  *)
Kept(n) == marker[n] # {} \/ reg[n].status = "ready"

(* In the calm service, what a player was once told of stays playable: the *)
(* tiers are those prepare owes the source, and complete, at every later   *)
(* moment, through crashes, restarts and shutdowns, as long as the video   *)
(* is kept.                                                                *)
ToldIsPlayable ==
  \A p \in Players, n \in Names :
    told[p][n] # {} /\ Kept(n) => told[p][n] = Applicable(source[n]) /\ Whole(n, told[p][n])

(* In the calm service the handlers do not contradict one another: nobody  *)
(* who was told of a kept video's tiers is answered 404 or 503 about them, *)
(* and no 200 is a master playlist without a tier (main.go:659 skips       *)
(* missing ones).                                                          *)
AnswersAgree ==
  [][\A p \in Players :
       LET n == request[p].name
       IN n # NoName /\ request'[p].reply # request[p].reply =>
            /\ request'[p].reply \in {"404", "503"} => told[p][n] = {} \/ ~Kept(n)
            /\ request'[p].reply = "200" => told'[p][n] # {}]_allVars

(* "retry shortly" (writeNotReady): of a video that stays in VIDEOS_DIR of *)
(* a service that stays up, a player is told 202 finitely often.           *)
PollingEnds ==
  \A n \in Names :
    <>[](source[n] \in Contents /\ phase = "up") =>
      \A p \in Players :
        <>[][~ (request[p].at \in {"registry", "source"} /\ request[p].name = n
                /\ request'[p].reply = "202")]_allVars
=============================================================================
