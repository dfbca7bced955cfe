-------------------------------- MODULE Page --------------------------------
(***************************************************************************)
(* The page's parts around a song, and the desktop app's own, which share  *)
(* nothing the models have, one to a behaviour: RemotePart has the remote, *)
(* and MCPage adds the others.                                             *)
(***************************************************************************)
EXTENDS Integers, Sequences, PagePlaces

CONSTANTS
  Videos, VideoSpeeds,  \* BackingVideo's
  Latencies, MaxLead, MaxWait, SongLen, MaxJumps, Clips,  \* FollowClock's
  SongNotes, Tolerance, LastTick, Sung, MaxSungFrames, MaxSeeks, MaxSessions,  \* Scoring's
  Inputs, MaxMicCalls,  \* AudioDevices's
  ProcessIds, MaxBackendCalls  \* LocalBackend's

ASSUME PageAssumption ==
  /\ {MaxMicCalls, MaxBackendCalls} \subseteq Nat
  /\ "no video" \notin Videos /\ 1 \in VideoSpeeds    \* NoVideo; the speed at first
  /\ Latencies \subseteq Nat \ {0} /\ {MaxLead, MaxWait, SongLen} \subseteq Nat
  /\ MaxLead <= MaxWait       \* MAX_SEEK_LEAD_SEC, MAX_SEEK_WAIT_SEC
  /\ SongLen >= 5             \* the segments in the song, its edges apart
  /\ 0 \notin ProcessIds    \* a process id is none of these (NoPid)
  /\ SongNotes \in Seq([start : Int, end : Int, midi : Int]) /\ Sung \subseteq Int
  /\ {Tolerance, LastTick} \subseteq Nat

Prepare == INSTANCE PrepareSong WITH source <- v1, task <- v2, cut <- v3, dl <- v4, job <- v5,
             orphan <- v6, phase <- v7, stage <- v8, loading <- v9, match <- v10, told <- v11, local
             <- v12

Video == INSTANCE BackingVideo WITH videoId <- v1, nextVideoId <- v2, playing <- v3, speed <- v4,
             failedIds <- v5, view <- v6, current <- v7, standby <- v8, active <- v9, stale <- v10,
             frameId <- v11, el <- v12, embed <- v13, cued <- v14, staleEmbed <- v15, Speeds <-
             VideoSpeeds

Clock == INSTANCE FollowClock WITH audio <- v1, video <- v2, landing <- v3, correction <- v4, lead
             <- v5, latency <- v6, seeks <- v7, jumps <- v8, clip <- v9, segments <- v10, asking <-
             v11, lateLookup <- v12, playhead <- v13, plays <- v14

Score == INSTANCE Scoring WITH at <- v1, songOn <- v2, singing <- v3, starting <- v4, staleStarts <-
             v5, mic <- v6, frames <- v7, firstIdx <- v8, nextIdx <- v9, votes <- v10, noteResults
             <- v11, judgedBy <- v12, brokenOff <- v13, seekCount <- v14, sessionCount <- v15,
             Targets <- SongNotes, MaxFrames <- MaxSungFrames

Devs == INSTANCE AudioDevices WITH input <- v1, muted <- v2, saved <- v3, permission <- v4, started
             <- v5, calls <- v6, live <- v7, lost <- v8, raced <- v9, MaxCalls <- MaxMicCalls

Backend == INSTANCE LocalBackend WITH procs <- v1, pids <- v2, closing <- v3, ports <- v4, running
             <- v5, mine <- v6, task <- v7, step <- v8, boots <- v9, works <- v10, look <- v11,
             child <- v12, bases <- v13, installs <- v14, Ids <- ProcessIds, MaxCalls <-
             MaxBackendCalls

\* A part of n variables leaves the ones from n + 1 on.
Unused(n) ==
  /\ IF n < 1 THEN v1 = 0 ELSE TRUE
  /\ IF n < 2 THEN v2 = 0 ELSE TRUE
  /\ IF n < 3 THEN v3 = 0 ELSE TRUE
  /\ IF n < 4 THEN v4 = 0 ELSE TRUE
  /\ IF n < 5 THEN v5 = 0 ELSE TRUE
  /\ IF n < 6 THEN v6 = 0 ELSE TRUE
  /\ IF n < 7 THEN v7 = 0 ELSE TRUE
  /\ IF n < 8 THEN v8 = 0 ELSE TRUE
  /\ IF n < 9 THEN v9 = 0 ELSE TRUE
  /\ IF n < 10 THEN v10 = 0 ELSE TRUE
  /\ IF n < 11 THEN v11 = 0 ELSE TRUE
  /\ IF n < 12 THEN v12 = 0 ELSE TRUE
  /\ IF n < 13 THEN v13 = 0 ELSE TRUE
  /\ IF n < 14 THEN v14 = 0 ELSE TRUE
  /\ IF n < 15 THEN v15 = 0 ELSE TRUE
  /\ IF n < 16 THEN v16 = 0 ELSE TRUE
  /\ IF n < 17 THEN v17 = 0 ELSE TRUE
  /\ IF n < 18 THEN v18 = 0 ELSE TRUE
  /\ IF n < 19 THEN v19 = 0 ELSE TRUE
  /\ IF n < 20 THEN v20 = 0 ELSE TRUE

Untouched(n) ==
  /\ IF n < 1 THEN UNCHANGED v1 ELSE TRUE
  /\ IF n < 2 THEN UNCHANGED v2 ELSE TRUE
  /\ IF n < 3 THEN UNCHANGED v3 ELSE TRUE
  /\ IF n < 4 THEN UNCHANGED v4 ELSE TRUE
  /\ IF n < 5 THEN UNCHANGED v5 ELSE TRUE
  /\ IF n < 6 THEN UNCHANGED v6 ELSE TRUE
  /\ IF n < 7 THEN UNCHANGED v7 ELSE TRUE
  /\ IF n < 8 THEN UNCHANGED v8 ELSE TRUE
  /\ IF n < 9 THEN UNCHANGED v9 ELSE TRUE
  /\ IF n < 10 THEN UNCHANGED v10 ELSE TRUE
  /\ IF n < 11 THEN UNCHANGED v11 ELSE TRUE
  /\ IF n < 12 THEN UNCHANGED v12 ELSE TRUE
  /\ IF n < 13 THEN UNCHANGED v13 ELSE TRUE
  /\ IF n < 14 THEN UNCHANGED v14 ELSE TRUE
  /\ IF n < 15 THEN UNCHANGED v15 ELSE TRUE
  /\ IF n < 16 THEN UNCHANGED v16 ELSE TRUE
  /\ IF n < 17 THEN UNCHANGED v17 ELSE TRUE
  /\ IF n < 18 THEN UNCHANGED v18 ELSE TRUE
  /\ IF n < 19 THEN UNCHANGED v19 ELSE TRUE
  /\ IF n < 20 THEN UNCHANGED v20 ELSE TRUE

PageInit ==
  \/ part = "prepare" /\ Prepare!RInit /\ Unused(12)
  \/ part = "video" /\ Video!BvInit /\ Unused(15)
  \/ part = "clock" /\ Clock!FollowInit /\ Unused(14)
  \/ part = "score" /\ Score!ScoreInit /\ Unused(15)
  \/ part = "devices" /\ Devs!DevInit /\ Unused(9)
  \/ part = "backend" /\ Backend!BackendInit /\ Unused(14)

PageNext ==
  /\ UNCHANGED part
  /\ \/ part = "prepare" /\ Prepare!RNext /\ Untouched(12)
     \/ part = "video" /\ Video!BvNext /\ Untouched(15)
     \/ part = "clock" /\ Clock!FollowNext /\ Untouched(14)
     \/ part = "score" /\ Score!ScoreNext /\ Untouched(15)
     \/ part = "devices" /\ Devs!DevNext /\ Untouched(9)
     \/ part = "backend" /\ Backend!BackendNext /\ Untouched(14)

PageSpec == PageInit /\ [][PageNext]_<<part, places>>

(***************************************************************************)
(* Properties: each part's, with its types.                                *)
(***************************************************************************)

\* PrepareSong: only the audio can fail a song, every other failure is told,
\* lyrics are searched for to the end, and a dropped song leaves no download.
PrepareSafe == part = "prepare" => Prepare!RTypes /\ Prepare!PreparedRight

\* BackingVideo and FollowClock: the video that shows is the song's and plays
\* as it does, the next one waits, two seeks a jump are enough, and the segments
\* passed over are its own.
VideoSafe ==
  /\ part = "video" => Video!BvTypes /\ Video!VideoRight
  /\ part = "clock" => Clock!FollowTypes /\ Clock!TwoSeeksDo /\ Clock!SkipsRight

\* Scoring: the microphone is open only in a session, each note is judged
\* once, and a singer who keeps to an octave isn't marked down for it.
ScoringSafe == part = "score" => Score!ScoreTypes /\ Score!ScoringRight

\* AudioDevices and LocalBackend: one microphone at most, the one chosen,
\* unless choices overtook each other; one backend at most, none while it is
\* changed under it, and none after the app, nor any child of it but one.
MachineSafe ==
  /\ part = "devices" => Devs!DevTypes /\ Devs!MicAsChosen
  /\ part = "backend" => Backend!BackendTypes /\ Backend!BackendRight
=============================================================================
