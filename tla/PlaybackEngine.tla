--------------------------- MODULE PlaybackEngine ---------------------------
(***************************************************************************)
(* frontend/src/editing/playback/playback_engine.ts over the desktop's     *)
(* output, native_audio_output.ts: the transport the whole page shares.    *)
(*                                                                         *)
(* The page's calls run to completion.  What they send to Rust goes        *)
(* through a CommandQueue: one command is carried out at a time, in call   *)
(* order, and its sender's `await` goes on once its reply is back.  Until  *)
(* then the page may act again on a state the output no longer has.        *)
(*                                                                         *)
(* Positions are coarse: whole steps of a song of length Dur.  The audio   *)
(* offset is kept only as whether it delays the audio; speed not at all.   *)
(* playToken is compared only with the tokens that starts wait with, so a  *)
(* start is modelled as `current` until the token moves on.                *)
(***************************************************************************)
EXTENDS Integers, Sequences, SequencesExt

CONSTANTS Dur,       \* durationSec while a song is installed
          MaxCmds,   \* bound on the commands waiting
          Hasty      \* whether the page acts before a pause or resume is answered

ASSUME PlaybackAssumption ==
  Dur \in Nat \ {0} /\ MaxCmds \in Nat /\ Hasty \in BOOLEAN

VARIABLES state,       \* PlayerState
          currentTime, \* where the page shows the song to be
          cued, ended,
          timer,       \* endTimerId is set
          feedStart,   \* feedStartSec
          loaded,      \* the song has audio: durationSec > 0
          delayed,     \* outputDelaySec > 0
          anchor,      \* where the output reckons it is
          cmds,        \* the CommandQueue; its head is with Rust
          done,        \* Rust has carried out the head, and answers
          dev          \* the Rust engine

engineVars == <<state, currentTime, cued, ended, timer, feedStart, loaded, delayed>>
vars == <<engineVars, anchor, cmds, done, dev>>

Times  == 0 .. Dur
States == {"idle", "loading", "playing", "paused"}
Waits  == {"none", "start", "play", "pause", "resume"}

\* A command, what of the engine waits for its reply, and, if that's a
\* start, from where and whether its token is still the current one.
Cmd(op, sec, wait, current) == [op |-> op, sec |-> sec, wait |-> wait, current |-> current]
Send(op, sec) == Cmd(op, sec, "none", FALSE)

PInit ==
  /\ state = "idle" /\ currentTime = 0
  /\ cued = FALSE /\ ended = FALSE /\ timer = FALSE
  /\ feedStart = 0 /\ loaded = FALSE /\ delayed = FALSE
  /\ anchor = 0 /\ cmds = <<>> /\ done = FALSE
  /\ dev = [playing |-> FALSE, sec |-> 0]

(***************************************************************************)
(* Calls from the page.                                                    *)
(***************************************************************************)

Answering(wait) == \E i \in DOMAIN cmds : cmds[i].wait = wait

\* Without haste the page leaves a pause or a resume its time.
MayAct == Len(cmds) + 2 <= MaxCmds /\ (Hasty \/ ~ (Answering("pause") \/ Answering("resume")))

\* The token has moved on: every start under way is an old one.
Outdated(q) == [i \in DOMAIN q |-> [q[i] EXCEPT !.current = FALSE]]

\* stop(), the commands before its own being q; a finish() sets ended after.
Stopped(q, end) ==
  /\ state' = "idle" /\ currentTime' = 0 /\ anchor' = 0
  /\ timer' = FALSE /\ cued' = FALSE /\ ended' = end
  /\ cmds' = Append(Outdated(q), Send("stop", 0))

Stop == MayAct /\ Stopped(cmds, FALSE) /\ UNCHANGED <<feedStart, loaded, delayed, done, dev>>

\* play() up to its await: stops, then start(fromSec), which seeks first; the
\* starts before are as q has them.
Loading(q) ==
  /\ MayAct /\ loaded
  /\ LET from == IF cued THEN currentTime ELSE 0 IN
       /\ state' = "loading" /\ currentTime' = 0
       /\ timer' = FALSE /\ cued' = FALSE /\ ended' = FALSE
       /\ feedStart' = from /\ anchor' = from
       /\ cmds' = q \o << Send("stop", 0), Cmd("seek", from, "start", TRUE) >>
  /\ UNCHANGED <<loaded, delayed, done, dev>>

Play == Loading(Outdated(cmds))

\* Mutant: the end timer isn't cleared.
PauseTimed ==
  /\ MayAct /\ state = "playing"
  /\ cmds' = Append(cmds, Cmd("pause", 0, "pause", FALSE))
  /\ UNCHANGED <<engineVars, anchor, done, dev>>

Pause ==
  /\ MayAct /\ state = "playing"
  /\ timer' = FALSE
  /\ cmds' = Append(cmds, Cmd("pause", 0, "pause", FALSE))
  /\ UNCHANGED <<state, currentTime, cued, ended, feedStart, loaded, delayed, anchor, done, dev>>

Resume ==
  /\ MayAct /\ state = "paused"
  /\ cmds' = Append(cmds, Cmd("play", 0, "resume", FALSE))
  /\ UNCHANGED <<engineVars, anchor, done, dev>>

Clamped(sec) == IF sec < 0 THEN 0 ELSE IF sec > Dur THEN Dur ELSE sec

SeekOutput(sec) ==
  /\ feedStart' = sec /\ anchor' = sec
  /\ cmds' = Append(cmds, Send("seek", sec))

SeekTo(sec) ==
  /\ MayAct /\ loaded
  /\ currentTime' = sec /\ ended' = FALSE
  /\ IF state = "idle"
       THEN cued' = TRUE /\ UNCHANGED <<feedStart, anchor, cmds, timer>>
       ELSE /\ SeekOutput(sec)
            /\ timer' = (state = "playing" \/ timer)
            /\ UNCHANGED cued
  /\ UNCHANGED <<state, loaded, delayed, done, dev>>

\* Mutant: a position past the song's ends is taken as it is.
SeekUnclamped(sec) == SeekTo(sec)

Seek(sec) == SeekTo(Clamped(sec))

\* setSpeed() and setAudioOffset() to another value: the end moves, and a
\* paused output is put back under the playhead.
Retime ==
  /\ IF state = "paused" THEN SeekOutput(currentTime) ELSE UNCHANGED <<feedStart, anchor, cmds>>
  /\ timer' = (state = "playing" \/ timer)
  /\ UNCHANGED <<state, currentTime, cued, ended, loaded, done, dev>>

SetSpeed       == MayAct /\ Retime /\ UNCHANGED delayed
SetAudioOffset == MayAct /\ Retime /\ delayed' = ~ delayed

\* KaraokePresenter.resetSong(): the song's audio goes.
ResetSong == MayAct /\ Stopped(cmds, FALSE) /\ loaded' = FALSE /\ UNCHANGED <<feedStart, delayed, done, dev>>

\* installTracks() of the next song.
InstallTracks ==
  /\ MayAct /\ ~ loaded
  /\ loaded' = TRUE
  /\ UNCHANGED <<state, currentTime, cued, ended, timer, feedStart, delayed, anchor, cmds, done, dev>>

(***************************************************************************)
(* The Rust engine, and its replies.                                       *)
(***************************************************************************)

Execute ==
  /\ cmds # <<>> /\ ~ done
  /\ done' = TRUE
  /\ dev' = CASE Head(cmds).op = "play"  -> [dev EXCEPT !.playing = TRUE]
              [] Head(cmds).op = "pause" -> [dev EXCEPT !.playing = FALSE]
              [] Head(cmds).op = "stop"  -> [playing |-> FALSE, sec |-> 0]
              [] Head(cmds).op = "seek"  -> [dev EXCEPT !.sec = Head(cmds).sec]
  /\ UNCHANGED <<engineVars, anchor, cmds>>

\* The reply to the head, awaited by `wait`.
Reply(wait) == cmds # <<>> /\ done /\ Head(cmds).wait = wait /\ done' = FALSE /\ UNCHANGED dev

\* Nothing waits for it.
Answer == Reply("none") /\ cmds' = Tail(cmds) /\ UNCHANGED <<engineVars, anchor>>

\* start() after its seek: only now does it send the play.
StartSought ==
  /\ Reply("start")
  /\ cmds' = Append(Tail(cmds), Cmd("play", Head(cmds).sec, "play", Head(cmds).current))
  /\ UNCHANGED <<engineVars, anchor>>

\* Mutant: the token isn't compared.
StartedAnyway ==
  /\ Reply("play")
  /\ cmds' = Tail(cmds)
  /\ state' = "playing" /\ currentTime' = Head(cmds).sec /\ timer' = TRUE
  /\ UNCHANGED <<cued, ended, feedStart, loaded, delayed, anchor>>

\* play() after start(), its token current.
Started ==
  /\ Reply("play") /\ Head(cmds).current
  /\ cmds' = Tail(cmds)
  /\ state' = "playing" /\ currentTime' = Head(cmds).sec /\ timer' = TRUE
  /\ UNCHANGED <<cued, ended, feedStart, loaded, delayed, anchor>>

\* Mutant: the output isn't stopped again.
StartedStaleKept ==
  /\ Reply("play") /\ ~ Head(cmds).current
  /\ cmds' = Tail(cmds) /\ UNCHANGED anchor
  /\ UNCHANGED engineVars

\* Mutant: the output is stopped though a newer play() is starting it.
StartedStaleStopped ==
  /\ Reply("play") /\ ~ Head(cmds).current
  /\ cmds' = Append(Tail(cmds), Send("stop", 0)) /\ anchor' = 0
  /\ UNCHANGED engineVars

\* play() after start(), stopped or played again since.
StartedStale ==
  /\ Reply("play") /\ ~ Head(cmds).current
  /\ IF state # "idle"   \* isPlayPending()
       THEN cmds' = Tail(cmds) /\ UNCHANGED anchor
       ELSE cmds' = Append(Tail(cmds), Send("stop", 0)) /\ anchor' = 0
  /\ UNCHANGED engineVars

\* start() threw: nothing plays, and only its own play() is given up.
StartFailed ==
  /\ cmds # <<>> /\ ~ done /\ Head(cmds).wait \in {"start", "play"}
  /\ IF Head(cmds).current
       THEN Stopped(Tail(cmds), FALSE)
       ELSE cmds' = Tail(cmds) /\ UNCHANGED <<state, currentTime, cued, ended, timer, anchor>>
  /\ UNCHANGED <<feedStart, loaded, delayed, done, dev>>

\* pause() after the output's: what its delay held was dropped, so the
\* output goes back to the last of it heard.
Paused ==
  /\ Reply("pause")
  /\ state' = "paused"
  /\ IF delayed
       THEN \E sec \in feedStart .. (IF anchor > feedStart THEN anchor ELSE feedStart) :
              /\ feedStart' = sec /\ anchor' = sec /\ currentTime' = sec
              /\ cmds' = Append(Tail(cmds), Send("seek", sec))
       ELSE cmds' = Tail(cmds) /\ currentTime' = anchor /\ UNCHANGED <<feedStart, anchor>>
  /\ UNCHANGED <<cued, ended, timer, loaded, delayed>>

\* Mutant: the end isn't scheduled again.
ResumedUntimed ==
  /\ Reply("resume")
  /\ cmds' = Tail(cmds)
  /\ state' = "playing"
  /\ UNCHANGED <<currentTime, cued, ended, timer, feedStart, loaded, delayed, anchor>>

Resumed ==
  /\ Reply("resume")
  /\ cmds' = Tail(cmds)
  /\ state' = "playing" /\ timer' = TRUE
  /\ UNCHANGED <<currentTime, cued, ended, feedStart, loaded, delayed, anchor>>

(***************************************************************************)
(* Time.  The audio moves on between commands, and the output's reckoning  *)
(* with it; how far it gets while a command is answered is left out.       *)
(***************************************************************************)

Advance ==
  /\ cmds = <<>> /\ dev.playing /\ dev.sec < Dur
  /\ dev' = [dev EXCEPT !.sec = @ + 1]
  /\ anchor' = Clamped(anchor + 1)
  /\ UNCHANGED <<engineVars, cmds, done>>

\* The rAF loop, which a pause stops.
Frame ==
  /\ state = "playing" /\ ~ Answering("pause")
  /\ currentTime' = anchor
  /\ UNCHANGED <<state, cued, ended, timer, feedStart, loaded, delayed, anchor, cmds, done, dev>>

\* The end timer fires.
Finish ==
  /\ timer /\ Len(cmds) < MaxCmds
  /\ Stopped(cmds, TRUE)
  /\ UNCHANGED <<feedStart, loaded, delayed, done, dev>>

PNext ==
  \/ Stop \/ Play \/ Pause \/ Resume \/ SetSpeed \/ SetAudioOffset \/ ResetSong \/ InstallTracks
  \/ \E sec \in -1 .. Dur + 1 : Seek(sec)
  \/ Execute \/ Answer \/ StartSought \/ Started \/ StartedStale \/ StartFailed \/ Paused \/ Resumed
  \/ Advance \/ Frame \/ Finish

PSpec == PInit /\ [][PNext]_vars

(***************************************************************************)
(* Properties.                                                             *)
(***************************************************************************)

\* Every field has its type; positions never leave the song.
PTypeOK ==
  /\ state \in States
  /\ {currentTime, feedStart, anchor, dev.sec} \subseteq Times
  /\ {cued, ended, timer, loaded, delayed, done, dev.playing} \subseteq BOOLEAN
  /\ \A i \in DOMAIN cmds :
       cmds[i] \in [op : {"play", "pause", "stop", "seek"}, sec : Times, wait : Waits, current : BOOLEAN]
  /\ done => cmds # <<>>

\* Once every command is answered, audio is heard exactly when the page says
\* so, whatever was stopped, played again or failed on the way: no start
\* outlives its stop (playback_engine.ts:225-229).
AgreesOnceQuiet ==
  cmds = <<>> => /\ dev.playing <=> state = "playing"
                 /\ state # "loading"

\* Once every command is answered, what is heard is where the output reckons
\* it is, no earlier than where it was last told to be (the cue of a play, the
\* last of several seeks, a seek while loading), and where a paused page shows.
HeardWhereShown ==
  cmds = <<>> => /\ state \in {"playing", "paused"} => dev.sec = anchor /\ dev.sec >= feedStart
                 /\ state = "paused" => dev.sec = currentTime

\* A song plays with its end scheduled, and nothing else does: the queue
\* moves on when it ends, and not before (playback_engine.ts:356).
EndScheduled == timer <=> (state = "playing" /\ ~ Answering("pause"))

\* Playback ends only by running out while it's heard: not while paused,
\* not after a stop (onEnded, playback_engine.ts:108).
EndsPlayedOut == [][(ended' /\ ~ ended) => (state = "playing" /\ dev.playing)]_vars

\* A stop wins over whatever was under way: only a play() leaves idle.
StopWins == [][state = "idle" => state' \in {"idle", "loading"}]_vars
=============================================================================
