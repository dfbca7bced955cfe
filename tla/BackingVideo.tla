---------------------------- MODULE BackingVideo ----------------------------
(***************************************************************************)
(* The muted video behind the lyrics, which follows the playback engine:   *)
(* frontend/src/video/.  Two <video> elements take turns: one shows the    *)
(* song's video, the other loads the next song's.  A video that can't be   *)
(* had so is shown by YouTube's embedded player.  What the presenter hears *)
(* of at once (mobx reactions) is part of the step that causes it; the     *)
(* view's change of player (Commit) is React's, and comes later.           *)
(***************************************************************************)
EXTENDS Naturals

CONSTANTS Videos, Speeds

NoVideo == "no video"
Slots == {0, 1}
NoLoad == [id |-> NoVideo, slot |-> 0, is |-> "none"]

VARIABLES videoId, nextVideoId,       \* the song's video, and the next song's
          playing, speed,             \* the engine's
          failedIds,                  \* nativeFailedIds
          view,                       \* what is mounted: "none", "native", "embed"
          current, standby, active,   \* the loads, and the showing slot
          stale,                      \* aborted loads whose request isn't answered yet
          frameId,                    \* firstFrameVideoId
          el,                         \* the two elements: [src, runs, rate]
          embed, cued, staleEmbed     \* YouTube's player: its state, its video, one made for a view that is gone

bvVars == <<videoId, nextVideoId, playing, speed, failedIds, view, current, standby, active, stale, frameId,
            el, embed, cued, staleEmbed>>
native   == <<current, standby, active, stale, frameId>>
embedded == <<embed, cued, staleEmbed>>
engine   == <<playing, speed>>

Empty    == [src |-> NoVideo, runs |-> FALSE, rate |-> 1]
NoEmbed  == [is |-> "none", runs |-> FALSE, rate |-> 1, wants |-> 1, landing |-> FALSE]
WithNone == Videos \union {NoVideo}
ReadyLoad(load) == load.is \in {"ready", "frame"}

BvInit ==
  /\ videoId = NoVideo /\ nextVideoId = NoVideo /\ playing = FALSE /\ speed = 1
  /\ failedIds = {} /\ view = "none"
  /\ current = NoLoad /\ standby = NoLoad /\ active = 0 /\ stale = {} /\ frameId = NoVideo
  /\ el = [s \in Slots |-> Empty]
  /\ embed = NoEmbed /\ cued = NoVideo /\ staleEmbed = FALSE

(***************************************************************************)
(* The native player.                                                      *)
(***************************************************************************)
Load(id, slot) == IF id = NoVideo THEN NoLoad ELSE [id |-> id, slot |-> slot, is |-> "asking"]
Other == 1 - active

\* Loads that are let go: their requests are aborted, their elements emptied.
Aborted(loads) == stale \union {[id |-> l.id, slot |-> l.slot] : l \in {m \in loads : m.is = "asking"}}
Emptied(els, loads) ==
  [s \in Slots |-> IF \E l \in loads : l.is \notin {"none", "asking"} /\ l.slot = s THEN Empty ELSE els[s]]

\* Mutant: a standby is kept though another song is next.
StandbyKept(id, cur, by, slot) ==
  IF by.is # "none" THEN by ELSE IF cur.id = id \/ id \in failedIds THEN NoLoad ELSE Load(id, slot)

\* syncStandby(): the next song's video, unless it's the one that shows or is known to fail.
StandbyFor(id, cur, by, slot) ==
  IF by.is # "none" /\ by.id = id THEN by
  ELSE IF cur.id = id \/ id \in failedIds THEN NoLoad ELSE Load(id, slot)

\* applyTransport() on the element that shows `load`.
Aligned(els, load, p, r) ==
  IF ReadyLoad(load) THEN [els EXCEPT ![load.slot].runs = p, ![load.slot].rate = r] ELSE els

\* loadNative(), showCurrent(): the song's video is the standby's, which shows at once, or a new load.
LoadNative(id) ==
  LET swap == standby.is # "none" /\ standby.id = id
      slot == IF swap THEN Other ELSE active
      cur  == IF swap THEN standby ELSE Load(id, slot)
      by   == IF swap THEN NoLoad ELSE standby
      next == IF id = NoVideo THEN by ELSE StandbyFor(nextVideoId, cur, by, 1 - slot)
      gone == {current} \union (IF next = by THEN {} ELSE {by})
  IN  /\ current' = cur /\ standby' = next /\ active' = slot
      /\ stale' = Aborted(gone)
      /\ frameId' = (IF cur.is = "frame" THEN id ELSE NoVideo)
      /\ el' = Aligned(Emptied(el, gone), cur, playing, speed)

\* preload().
Preload(id) ==
  /\ nextVideoId' = id
  /\ LET next == IF view = "native" THEN StandbyFor(id, current, standby, Other) ELSE NoLoad
         gone == IF next = standby THEN {} ELSE {standby}
     IN  standby' = next /\ stale' = Aborted(gone) /\ el' = Emptied(el, gone)
  /\ UNCHANGED <<videoId, engine, failedIds, view, current, active, frameId, embedded>>

\* The request of a load is answered, resolveNativeLoad(): the element gets its source, or the video fails.
Is(load, is) ==
  IF load = current THEN current' = [load EXCEPT !.is = is] /\ UNCHANGED standby
  ELSE standby' = [load EXCEPT !.is = is] /\ UNCHANGED current

Answered(load, ok) ==
  /\ load.is = "asking"
  /\ IF ok THEN Is(load, "loading") /\ el' = [el EXCEPT ![load.slot] = [Empty EXCEPT !.src = load.id]]
           ELSE UNCHANGED el /\ Is(load, "unanswered")
  /\ failedIds' = (IF ok THEN failedIds ELSE failedIds \union {load.id})
  /\ UNCHANGED <<videoId, nextVideoId, engine, view, active, stale, frameId, embedded>>

\* Mutant: it is shown.
Installed(load) == el' = [el EXCEPT ![load.slot] = [Empty EXCEPT !.src = load.id]]

\* A request that was aborted is answered: its element may be another load's by now.
Ignored(load) == el' = el

AnsweredLate(load) ==
  /\ stale' = stale \ {load}
  /\ Ignored(load)
  /\ UNCHANGED <<videoId, nextVideoId, engine, failedIds, view, current, standby, active, frameId, embedded>>

\* The element's events: metadata (onReady), the first frame, an error.
OnReady(load) ==
  /\ load.is = "loading"
  /\ Is(load, "ready")
  /\ el' = (IF load = current THEN Aligned(el, [load EXCEPT !.is = "ready"], playing, speed) ELSE el)
  /\ UNCHANGED <<videoId, nextVideoId, engine, failedIds, view, active, stale, frameId, embedded>>

OnFirstFrame(load) ==
  /\ load.is = "ready"
  /\ Is(load, "frame")
  /\ frameId' = (IF load = current THEN load.id ELSE frameId)
  /\ UNCHANGED <<videoId, nextVideoId, engine, failedIds, view, active, stale, el, embedded>>

OnError(load) ==
  /\ load.is \in {"loading", "ready", "frame"}
  /\ Is(load, "bad")
  /\ failedIds' = failedIds \union {load.id}
  /\ UNCHANGED <<videoId, nextVideoId, engine, view, active, stale, frameId, el, embedded>>

(***************************************************************************)
(* YouTube's player, for a video that failed.                              *)
(***************************************************************************)
\* syncEmbed(): cue the song's video, then applyTransport().  Cueing resets the rate when it lands.
SyncEmbed(player, id, p, r) ==
  IF player.is # "ready" THEN embed' = player /\ UNCHANGED cued
  ELSE IF id = NoVideo THEN embed' = [player EXCEPT !.runs = FALSE] /\ UNCHANGED cued
  ELSE /\ embed' = [player EXCEPT !.runs = p, !.rate = r, !.wants = r,
                                  !.landing = @ \/ id # cued]
       /\ cued' = id

\* createYouTubePlayer() is done; onReady, later, syncs.
EmbedMade ==
  /\ embed.is = "making"
  /\ embed' = [embed EXCEPT !.is = "made"]
  /\ UNCHANGED <<videoId, nextVideoId, engine, failedIds, view, native, el, cued, staleEmbed>>

EmbedReady ==
  /\ embed.is = "made"
  /\ SyncEmbed([embed EXCEPT !.is = "ready"], videoId, playing, speed)
  /\ UNCHANGED <<videoId, nextVideoId, engine, failedIds, view, native, el, staleEmbed>>

\* The player of a view that is gone is destroyed when it comes.
EmbedMadeLate ==
  /\ staleEmbed
  /\ staleEmbed' = FALSE
  /\ UNCHANGED <<videoId, nextVideoId, engine, failedIds, view, native, el, embed, cued>>

\* Mutant: the rate isn't set again.
OnStateChangeDeaf(player) == [player EXCEPT !.landing = FALSE, !.rate = 1]

\* onStateChange: the cue is in, at rate 1; the rate is set again.
OnStateChange(player) == [player EXCEPT !.landing = FALSE, !.rate = player.wants]

CueLands ==
  /\ embed.landing
  /\ embed' = OnStateChange(embed)
  /\ UNCHANGED <<videoId, nextVideoId, engine, failedIds, view, native, el, cued, staleEmbed>>

(***************************************************************************)
(* The engine and the song.                                                *)
(***************************************************************************)
\* Play, pause or another speed: the mounted player follows.
Transport(p, r) ==
  /\ <<p, r>> # engine /\ playing' = p /\ speed' = r
  /\ IF view = "embed" THEN SyncEmbed(embed, videoId, p, r) ELSE UNCHANGED <<embed, cued>>
  /\ el' = (IF view = "native" THEN Aligned(el, current, p, r) ELSE el)
  /\ UNCHANGED <<videoId, nextVideoId, failedIds, view, native, staleEmbed>>

\* Another song is loaded: the mounted player loads its video.
SetVideo(id) ==
  /\ id # videoId /\ videoId' = id /\ UNCHANGED engine
  /\ IF view = "native" THEN LoadNative(id) ELSE UNCHANGED <<native, el>>
  /\ IF view = "embed" THEN SyncEmbed(embed, id, playing, speed) ELSE UNCHANGED <<embed, cued>>
  /\ UNCHANGED <<nextVideoId, failedIds, view, staleEmbed>>

\* videoId and useEmbed, as the view renders them: detach() what was mounted, attach what is to be.
Wanted == IF videoId = NoVideo THEN "none" ELSE IF videoId \in failedIds THEN "embed" ELSE "native"

Commit ==
  /\ view # Wanted /\ view' = Wanted /\ UNCHANGED engine
  /\ LET gone == {current, standby}
         cur  == Load(videoId, active)
     IN  /\ current' = (IF Wanted = "native" THEN cur ELSE NoLoad)
         /\ standby' = (IF Wanted = "native" THEN StandbyFor(nextVideoId, cur, NoLoad, Other) ELSE NoLoad)
         /\ stale' = Aborted(gone) /\ el' = Emptied(el, gone)
  /\ frameId' = NoVideo /\ cued' = NoVideo /\ UNCHANGED active
  /\ embed' = (IF Wanted = "embed" THEN [NoEmbed EXCEPT !.is = "making"] ELSE NoEmbed)
  /\ staleEmbed' = (staleEmbed \/ embed.is = "making")
  /\ UNCHANGED <<videoId, nextVideoId, failedIds>>

BvNext ==
  \/ \E id \in WithNone : Preload(id) \/ SetVideo(id)
  \/ \E load \in {current, standby} :
       (\E ok \in BOOLEAN : Answered(load, ok)) \/ OnReady(load) \/ OnFirstFrame(load) \/ OnError(load)
  \/ \E load \in stale : AnsweredLate(load)
  \/ EmbedMade \/ EmbedReady \/ EmbedMadeLate \/ CueLands
  \/ \E p \in BOOLEAN, r \in Speeds : Transport(p, r)
  \/ Commit

BvSpec == BvInit /\ [][BvNext]_bvVars

(***************************************************************************)
(* Properties.                                                             *)
(***************************************************************************)
LoadIs == {"none", "asking", "unanswered", "loading", "ready", "frame", "bad"}
BvTypes ==
  /\ {videoId, nextVideoId, frameId, cued} \subseteq WithNone
  /\ {playing, staleEmbed} \subseteq BOOLEAN /\ speed \in Speeds /\ failedIds \subseteq Videos
  /\ view \in {"none", "native", "embed"} /\ active \in Slots
  /\ {current, standby} \subseteq [id : WithNone, slot : Slots, is : LoadIs]
  /\ stale \subseteq [id : Videos, slot : Slots]
  /\ el \in [Slots -> [src : WithNone, runs : BOOLEAN, rate : Speeds]]
  /\ embed.is \in {"none", "making", "made", "ready"}

\* Each element holds the video of the one load it was given to, and what it
\* was given for is right: the song's video shows, the next song's waits.
Holds(load, s) == load.is \in {"loading", "ready", "frame", "bad"} /\ load.slot = s /\ load.id = el[s].src
SlotsRight ==
  /\ \A s \in Slots : el[s].src # NoVideo => Holds(current, s) \/ Holds(standby, s)
  /\ current.is # "none" => current.slot = active /\ current.id = videoId
  /\ standby.is # "none" => standby.slot # active /\ standby.id = nextVideoId

\* The song starts on a frame of its own video.
FrameIsSongs == frameId # NoVideo => frameId = videoId /\ current.is \in {"frame", "bad"}

\* What shows plays when the song does, at its speed; what waits in the other element doesn't play.
Follows ==
  /\ ReadyLoad(current) => el[active].runs = playing /\ el[active].rate = speed
  /\ standby.is # "none" => ~el[standby.slot].runs
  /\ (embed.is = "ready" /\ videoId # NoVideo) => cued = videoId /\ embed.runs = playing
  /\ (embed.is = "ready" /\ videoId # NoVideo /\ ~embed.landing) => embed.rate = speed

\* The next song's video is being loaded, or needn't be.
NextWaits ==
  (view = "native" /\ videoId # NoVideo /\ nextVideoId \notin {NoVideo, videoId} \union failedIds)
     => standby.id = nextVideoId

VideoRight == SlotsRight /\ FrameIsSongs /\ Follows /\ NextWaits
=============================================================================
