---------------------------- MODULE FollowClock ----------------------------
(***************************************************************************)
(* Two that follow the song's clock.  VideoClockFollower                   *)
(* (video/video_clock_follower.ts) keeps a video in step whose seeks take  *)
(* Latency ticks to land, by leading the next seek by what the last took;  *)
(* the segments of the video (skip_segments/) are looked up when the song  *)
(* changes, and those at its edges without music passed over by themselves.*)
(* A tick is longer than DRIFT_TOLERANCE_SEC, and a seek takes one or      *)
(* more: a quicker one leaves no drift to correct.                         *)
(***************************************************************************)
EXTENDS Integers

CONSTANTS Latencies, MaxLead, MaxWait,   \* MAX_SEEK_LEAD_SEC, MAX_SEEK_WAIT_SEC
          SongLen,                       \* the song's length in ticks
          MaxJumps,                      \* a bound: jumps of the audio
          Clips                          \* the videos songs may have

VARIABLES audio, video,    \* the engine's time and the video's, in ticks
          landing,         \* ticks till the video's seek lands; 0: it isn't buffering
          correction,      \* the correction under way: the audio's time at its start, and ticks since
          lead, latency,   \* seekLeadSec; what a seek takes
          seeks, jumps,    \* seeks while it plays; jumps of the audio
          clip, segments, asking, lateLookup,   \* the song's video, whose segments are held, asked for, asked for in vain
          playhead, plays                 \* where the song is; it plays

clockVars == <<audio, video, landing, correction, lead, latency, seeks, jumps>>
skipVars  == <<clip, segments, asking, lateLookup, playhead, plays>>

Lesser(a, b) == IF a < b THEN a ELSE b
NoClip == "no clip"
Done == [on |-> FALSE, audio |-> 0, ticks |-> 0]

(***************************************************************************)
(* The video.                                                              *)
(***************************************************************************)
ClockInit ==
  /\ audio = 0 /\ video = 0 /\ landing = 0 /\ correction = Done /\ lead = 0
  /\ latency \in Latencies /\ seeks = 0 /\ jumps = 0

\* Mutant: a seek under way isn't waited for.
WaitsNot(c, t, l) == FALSE

\* Mid-seek the video reports where it's going: it's waited for, unless the audio jumped or it takes too long.
Waits(c, t, l) == l > 0 /\ t = c.audio + c.ticks /\ c.ticks <= MaxWait

\* follow() at speed 1: the audio is at t, the video at v with l ticks to land, the correction c.
Follow(t, v, l, c) ==
  IF c.on /\ Waits(c, t, l)
  THEN video' = v /\ landing' = l /\ correction' = c /\ UNCHANGED <<lead, seeks>>
  ELSE LET ahead == IF c.on /\ t = c.audio + c.ticks THEN Lesser(c.ticks, MaxLead) ELSE lead
       IN  /\ lead' = ahead
           /\ IF v = t THEN video' = v /\ landing' = l /\ correction' = Done /\ UNCHANGED seeks
              ELSE /\ video' = t + ahead /\ landing' = latency
                   /\ correction' = [on |-> TRUE, audio |-> t, ticks |-> 0]
                   /\ seeks' = seeks + 1

Since(c) == IF c.on THEN [c EXCEPT !.ticks = @ + 1] ELSE c

\* A tick: the video stands while it buffers.
ClockTick ==
  /\ audio < SongLen
  /\ audio' = audio + 1
  /\ IF landing > 0 THEN Follow(audio + 1, video, landing - 1, Since(correction))
     ELSE Follow(audio + 1, video + 1, 0, Since(correction))
  /\ UNCHANGED <<latency, jumps>>

\* The singer seeks while it plays.
ClockJump(to) ==
  /\ jumps < MaxJumps /\ to # audio
  /\ jumps' = jumps + 1 /\ audio' = to
  /\ Follow(to, video, landing, correction)
  /\ UNCHANGED latency

\* The singer pauses, moves, and plays on: paused, the video is put exactly there.
ClockScrub(to) ==
  /\ jumps < MaxJumps
  /\ jumps' = jumps + 1 /\ audio' = to
  /\ correction' = Done /\ video' = to
  /\ landing' = (IF video = to THEN landing ELSE latency)
  /\ UNCHANGED <<lead, seeks, latency>>

ClockNext == ClockTick \/ \E to \in {2, SongLen \div 2} : ClockJump(to) \/ ClockScrub(to)

\* However slow the video's seeks are, two bring it in step after a jump, as
\* long as they aren't slower than the lead it may take: it doesn't seek for
\* ever, nor break off a seek to begin it anew.
TwoSeeksDo == (latency <= MaxLead) => seeks <= 2 * jumps

(***************************************************************************)
(* The segments.  Two at the edges of the clip's are without music; one    *)
(* between them isn't passed over.                                         *)
(***************************************************************************)
Edges(c) == IF c = NoClip THEN {} ELSE {[from |-> 0, to |-> 2], [from |-> SongLen - 1, to |-> SongLen]}
Others(c) == IF c = NoClip THEN {} ELSE {[from |-> 1, to |-> 3], [from |-> 4, to |-> 5]}
Under(t, spans) == {x \in spans : x.from <= t /\ t < x.to}

\* edgeNonMusicEndSec's reaction: a song that plays goes where the section under it ends.
PassOver(t, on, of) ==
  IF on /\ Under(t, Edges(of)) # {} THEN (CHOOSE x \in Under(t, Edges(of)) : TRUE).to ELSE t

SkipInit ==
  /\ clip = NoClip /\ segments = NoClip /\ asking = NoClip /\ lateLookup = FALSE
  /\ playhead = 0 /\ plays = FALSE

\* Mutant: the last song's segments stay till the new ones come.
Remembered == segments

\* load(): another song; its segments are known, or asked for.  What was asked for is aborted.
Forgotten == NoClip

LoadSegments(c, known) ==
  /\ c # clip /\ clip' = c
  /\ segments' = (IF known THEN c ELSE Forgotten) /\ asking' = (IF known THEN NoClip ELSE c)
  /\ lateLookup' = (lateLookup \/ asking # NoClip)
  /\ playhead' = 0 /\ plays' = FALSE

\* The lookup ends, with segments or without; one that was aborted says nothing.
SegmentsCome(ok) ==
  /\ asking # NoClip
  /\ asking' = NoClip /\ segments' = (IF ok THEN asking ELSE segments)
  /\ playhead' = PassOver(playhead, plays, segments')
  /\ UNCHANGED <<clip, lateLookup, plays>>

SegmentsComeLate == lateLookup /\ lateLookup' = FALSE /\ UNCHANGED <<clip, segments, asking, playhead, plays>>

PlayOrPause ==
  /\ plays' = ~plays /\ playhead' = PassOver(playhead, plays', segments)
  /\ UNCHANGED <<clip, segments, asking, lateLookup>>

Move(to) ==
  /\ playhead' = PassOver(to, plays, segments)
  /\ UNCHANGED <<clip, segments, asking, lateLookup, plays>>

\* skipActive(): to the end of the segment under the playhead that reaches furthest.
SkipActive ==
  LET under == Under(playhead, Edges(segments) \union Others(segments))
  IN  /\ under # {}
      /\ Move((CHOOSE x \in under : \A y \in under : y.to <= x.to).to)

SkipNext ==
  \/ \E c \in Clips \union {NoClip}, known \in BOOLEAN : (known => c # NoClip) /\ LoadSegments(c, known)
  \/ (\E ok \in BOOLEAN : SegmentsCome(ok)) \/ SegmentsComeLate \/ PlayOrPause \/ SkipActive
  \/ \E to \in 0..SongLen : Move(to)

\* The segments held are the song's, however late a lookup ends, and no edge without music is played.
SkipsRight ==
  /\ segments \in {clip, NoClip} /\ asking \in {clip, NoClip}
  /\ plays => Under(playhead, Edges(segments)) = {}

FollowTypes ==
  /\ {audio, lead, landing, seeks, jumps} \subseteq Nat /\ video \in Nat /\ correction.on \in BOOLEAN
  /\ {clip, segments, asking} \subseteq Clips \union {NoClip} /\ playhead \in 0..SongLen

FollowInit == ClockInit /\ SkipInit
followVars == <<clockVars, skipVars>>
FollowNext == (ClockNext /\ UNCHANGED skipVars) \/ (SkipNext /\ UNCHANGED clockVars)
FollowSpec == FollowInit /\ [][FollowNext]_followVars
=============================================================================
