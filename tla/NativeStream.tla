---------------------------- MODULE NativeStream ----------------------------
(***************************************************************************)
(* One track's audio on the desktop: the feeder thread of stream.rs reads  *)
(* it in chunks around the playhead, for the output callback, which never  *)
(* waits.  device.rs opens the stream while another song may be playing,   *)
(* adds it to the mix and removes it, in the page's order; the playhead    *)
(* jumps and the output changes its rate whenever they do.                 *)
(*                                                                         *)
(* The audio is at a URL that is asked for at a rate (HttpPcm of           *)
(* audio.rs).  Frames are counted in chunks.  The threads' relaxed stores  *)
(* are taken to be seen in the order they are made in.                     *)
(***************************************************************************)
EXTENDS Naturals, FiniteSets, Sequences

CONSTANTS Ahead, Behind,  \* CHUNKS_AHEAD, CHUNKS_BEHIND
          Seconds,        \* the song's length
          Targets,        \* the frames the page seeks to
          MaxFrame,       \* bound on the playhead
          MaxSwaps,       \* bound on the changes of the output's rate
          MaxFails        \* bound on the requests that fail

Rates == {1, 2}
NoOutputRate == 1   \* NO_OUTPUT_RATE

VARIABLES frame, playing, rate,  \* the transport's and the output's; a rate of 0 before there is one
          swap, swaps,           \* retune(): the frame and the rate it read, and how many there were
          cmd,                   \* where the command under way is
          others, track,         \* whether the mix has other tracks; where this one is
          inMix, stopped, token, \* PcmStream; whether unpark() has left its token
          window,                \* the chunks published, [at, rate]
          pc, want, seen, first, \* the feeder: the rate, the playhead's chunk and the chunk it goes by
          opened, source,        \* the rate of `opened`, and the one rate_url names; 0 for none
          fails,
          jumped,                \* the playhead has jumped and the feeder not looked since
          opening,               \* the song's opening is what is to be heard next, at the rate it was read for
          reverted               \* the feeder went on with what it had opened before an open failed

streamVars == <<frame, playing, rate, swap, swaps, cmd, others, track, inMix, stopped, token, window, pc, want, seen,
                first, opened, source, fails, jumped, opening, reverted>>

Idle == "idle"
NoSwap == [at |-> Idle, frame |-> 0, from |-> 0, to |-> 0]

StreamInit ==
  /\ others \in BOOLEAN /\ playing \in {FALSE, others} /\ frame \in (IF others THEN {0, Ahead + 2} ELSE {0})
  /\ rate \in {0, 1} /\ (others => rate # 0)
  /\ swap = NoSwap /\ swaps = 0 /\ cmd = Idle /\ track = "none"
  /\ inMix = FALSE /\ stopped = FALSE /\ token = FALSE /\ window = {}
  /\ pc = "none" /\ want = 0 /\ seen = 0 /\ first = 0 /\ opened = 0 /\ source = 0 /\ fails = 0
  /\ jumped = FALSE /\ opening = FALSE /\ reverted = FALSE

threadVars == <<pc, want, seen, first, opened, source, fails, reverted>>
headVars == <<frame, playing, rate, swap, swaps>>

Total(r) == Seconds * r  \* output_frames()
Held == {c.at : c \in window}

(***************************************************************************)
(* The feeder.                                                             *)
(***************************************************************************)
Wanted(c) == <<c>> \o (IF c >= Behind THEN <<c - Behind>> ELSE <<>>) \o [n \in 1..Ahead |-> c + n]

\* Mutant: without the chunk before the playhead's.
MissingAhead(c, r) == SelectSeq(<<c>> \o [n \in 1..Ahead |-> c + n], LAMBDA k : k < Total(r) /\ k \notin Held)

\* next_missing() is the first of them.
Missing(c, r) == SelectSeq(Wanted(c), LAMBDA k : k < Total(r) /\ k \notin Held)

\* Mutant: what was read stays.
KeptAll(c) == window

\* What step() keeps as it publishes.
Kept(c) == {k \in window : k.at + Behind >= c /\ k.at <= c + Ahead}

RateRead == IF rate = 0 THEN NoOutputRate ELSE rate

\* preload_track() is answered once, by the first step that succeeds ...
Answer == track = "preloading"
Ready == IF Answer THEN track' = "preloaded" /\ opening' = (opened = RateRead) ELSE UNCHANGED <<track, opening>>

\* ... or fails, which ends the feeder; later it waits and tries again.
Fail ==
  /\ fails < MaxFails /\ fails' = fails + 1
  /\ IF Answer THEN track' = "failed" /\ pc' = "done" ELSE pc' = "failed" /\ UNCHANGED track
  /\ UNCHANGED opening

Look ==
  /\ pc = "look"
  /\ CASE stopped -> pc' = "done" /\ UNCHANGED <<want, window, reverted>>
       [] ~stopped /\ opened = RateRead ->
            /\ pc' = "head" /\ reverted' = (reverted \/ source # opened)
            /\ UNCHANGED <<want, window>>
       [] OTHER -> pc' = "open" /\ want' = RateRead /\ window' = {} /\ UNCHANGED reverted
  /\ jumped' = FALSE
  /\ UNCHANGED <<headVars, cmd, others, track, inMix, stopped, token, seen, first, opened, source, fails, opening>>

\* The URL is the new rate's from here on, whatever is answered.
Opened ==
  /\ pc = "open" /\ source' = want /\ want' = 0
  /\ \/ pc' = "head" /\ opened' = want /\ reverted' = FALSE /\ UNCHANGED <<track, fails, opening>>
     \/ Fail /\ UNCHANGED <<opened, reverted>>
  /\ UNCHANGED <<headVars, cmd, others, inMix, stopped, token, window, seen, first, jumped>>

\* Where it's wanted: the opening, until it is in the mix.
ReadHead ==
  /\ pc = "head"
  /\ LET c == IF inMix THEN frame ELSE 0 IN
       /\ seen' = c
       /\ IF Missing(c, opened) = <<>> THEN pc' = Idle /\ Ready /\ UNCHANGED first
          ELSE pc' = "read" /\ first' = Head(Missing(c, opened)) /\ UNCHANGED <<track, opening>>
  /\ UNCHANGED <<headVars, cmd, others, inMix, stopped, token, window, want, opened, source, fails, jumped, reverted>>

ReadChunk ==
  /\ pc = "read" /\ first' = 0 /\ seen' = 0
  /\ \/ pc' = "look" /\ window' = Kept(seen) \union {[at |-> first, rate |-> source]} /\ Ready /\ UNCHANGED fails
     \/ Fail /\ UNCHANGED window
  /\ UNCHANGED <<headVars, cmd, others, inMix, stopped, token, want, opened, source, jumped, reverted>>

\* park_timeout() returns: the token is there, or it has waited.
Unpark ==
  /\ pc \in {Idle, "failed"} /\ pc' = "look" /\ token' = FALSE /\ seen' = 0
  /\ UNCHANGED <<headVars, cmd, others, track, inMix, stopped, window, want, first, opened, source, fails, jumped, opening, reverted>>

(***************************************************************************)
(* The commands, one at a time but for the preload.                        *)
(***************************************************************************)
InSources == track = "mixed"

Preload ==
  /\ track = "none" /\ track' = "preloading" /\ pc' = "look"
  /\ UNCHANGED <<headVars, cmd, others, inMix, stopped, token, window, want, seen, first, opened, source, fails, jumped, opening, reverted>>

\* The last song's tracks go, once it is stopped.
RemoveOthers ==
  /\ cmd = Idle /\ others /\ ~playing /\ others' = FALSE
  /\ UNCHANGED <<headVars, cmd, track, inMix, stopped, token, window, threadVars, jumped, opening>>

\* Mutant: it follows the playhead before that is rewound.
AddJoined ==
  /\ cmd = Idle /\ track = "preloaded" /\ track' = "mixed" /\ inMix' = TRUE
  /\ cmd' = IF others THEN "join" ELSE "rewind"
  /\ UNCHANGED <<headVars, others, stopped, token, window, threadVars, jumped, opening>>

\* add_preloaded_track(): of a fresh song, the playhead goes to its start.
Add ==
  /\ cmd = Idle /\ track = "preloaded" /\ track' = "mixed"
  /\ cmd' = IF others THEN "join" ELSE "rewind"
  /\ UNCHANGED <<headVars, others, inMix, stopped, token, window, threadVars, jumped, opening>>

Rewind ==
  /\ cmd = "rewind" /\ cmd' = "join"
  /\ frame' = 0 /\ playing' = FALSE
  /\ UNCHANGED <<rate, swap, swaps, others, track, inMix, stopped, token, window, threadVars, jumped, opening>>

Join ==
  /\ cmd = "join" /\ cmd' = Idle /\ inMix' = TRUE
  /\ opening' = (opening /\ frame = 0)
  /\ UNCHANGED <<headVars, others, track, stopped, token, window, threadVars, jumped>>

\* Mutant: the feeder is left to find out.
StopOnly == stopped' = TRUE /\ UNCHANGED token

\* PcmStream::stop().
StopFeeder == stopped' = TRUE /\ token' = TRUE

Remove ==
  /\ cmd = Idle /\ track \in {"preloaded", "mixed"} /\ track' = "gone"
  /\ StopFeeder /\ opening' = FALSE
  /\ UNCHANGED <<headVars, cmd, others, inMix, window, threadVars, jumped>>

PlayOrPause ==
  /\ cmd = Idle /\ (others \/ InSources) /\ playing' = ~playing
  /\ UNCHANGED <<frame, rate, swap, swaps, cmd, others, track, inMix, stopped, token, window, threadVars, jumped, opening>>

\* stop() and seek_secs(): the playhead, then the streams of the mix are woken.
Jump(f, on) ==
  /\ cmd = Idle /\ (others \/ InSources) /\ (f # frame \/ on # playing)
  /\ frame' = f /\ playing' = on /\ cmd' = "wake"
  /\ jumped' = InSources /\ opening' = (opening /\ ~InSources)
  /\ UNCHANGED <<rate, swap, swaps, others, track, inMix, stopped, token, window, threadVars>>

Wake ==
  /\ cmd = "wake" /\ cmd' = Idle /\ token' = (token \/ InSources)
  /\ UNCHANGED <<headVars, others, track, inMix, stopped, window, threadVars, jumped, opening>>

(***************************************************************************)
(* The other threads.                                                      *)
(***************************************************************************)

\* The output callback, while there is an output.
Advance ==
  /\ playing /\ rate # 0 /\ swap = NoSwap /\ frame < MaxFrame /\ frame' = frame + 1
  /\ opening' = (opening /\ ~InSources)
  /\ UNCHANGED <<playing, rate, swap, swaps, cmd, others, track, inMix, stopped, token, window, threadVars, jumped>>

\* retune(), on the audio thread.
SwapRead(r) ==
  /\ swap = NoSwap /\ swaps < MaxSwaps /\ r # rate
  /\ swaps' = swaps + 1 /\ swap' = [at |-> "rate", frame |-> frame, from |-> rate, to |-> r]
  /\ UNCHANGED <<frame, playing, rate, cmd, others, track, inMix, stopped, token, window, threadVars, jumped, opening>>

SwapRate ==
  /\ swap.at = "rate" /\ rate' = swap.to
  /\ swap' = IF swap.from = 0 THEN NoSwap ELSE [swap EXCEPT !.at = "seek"]
  /\ opening' = FALSE
  /\ UNCHANGED <<frame, playing, swaps, cmd, others, track, inMix, stopped, token, window, threadVars, jumped>>

\* The same second, rounded to a frame.
SwapSeek ==
  /\ swap.at = "seek" /\ swap' = NoSwap
  /\ frame' = (2 * swap.frame * swap.to + swap.from) \div (2 * swap.from)
  /\ opening' = (opening /\ (~InSources \/ frame' = frame))
  /\ UNCHANGED <<playing, rate, swaps, cmd, others, track, inMix, stopped, token, window, threadVars, jumped>>

StreamNext ==
  \/ Look \/ Opened \/ ReadHead \/ ReadChunk \/ Unpark
  \/ Preload \/ RemoveOthers \/ Add \/ Rewind \/ Join \/ Remove \/ PlayOrPause \/ Wake
  \/ \E f \in Targets : Jump(f, playing)
  \/ Jump(0, FALSE)
  \/ Advance \/ SwapRate \/ SwapSeek \/ \E r \in Rates : SwapRead(r)

StreamSpec == StreamInit /\ [][StreamNext]_streamVars

(***************************************************************************)
(* Properties                                                              *)
(***************************************************************************)
StreamTypes ==
  /\ frame \in Nat /\ rate \in Rates \union {0} /\ opened \in Rates \union {0} /\ source \in Rates \union {0}
  /\ window \subseteq [at : Nat, rate : Rates]
  /\ pc \in {"none", "look", "open", "head", "read", Idle, "failed", "done"}
  /\ track \in {"none", "preloading", "preloaded", "mixed", "gone", "failed"}

\* ready_around(), which a stretcher needs to seek: with the chunks on both sides, or the end of the song.
ReadyAround(c) == window # {} /\ \A k \in {c, c + 1} \union {b \in {c - 1} : c > 0} : k >= Total(opened) \/ k \in Held

\* "holding the opening of its audio ready" (device.rs): from the answer of
\* the preload until the song is under way, whatever the playhead of the
\* last song did, unless the output changed its rate.
OpeningHeld == opening => 0 \in Held

\* A feeder with nothing left to read has what a stretcher needs around every
\* chunk from the playhead's to the last but one it reads ahead.
CaughtUp ==
  pc = Idle /\ opened = RateRead /\ seen <= Total(opened) => \A c \in seen..(seen + Ahead - 1) : ReadyAround(c)

\* "no more than its window" (stream.rs), each chunk once.
Bounded == Cardinality(window) <= Behind + 1 + Ahead /\ Cardinality(Held) = Cardinality(window)

\* "have the feeder look now, not at its next poll" (stream.rs): a feeder
\* doesn't sleep through a jump of the playhead, or its end.
Heeded == (jumped \/ stopped) /\ cmd = Idle /\ pc \in {Idle, "failed"} => token

\* What is read is at the rate it was opened for; unless an open failed, and
\* the rate was then the former one again, which the URL is no longer.
OfOneRate == ~reverted => \A c \in window : c.rate = opened

\* A preload fails only with its feeder ended.
StreamHeld == OpeningHeld /\ CaughtUp /\ Bounded /\ Heeded /\ OfOneRate /\ (track = "failed" => pc = "done")
=============================================================================
