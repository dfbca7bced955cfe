--------------------------- MODULE AudioTransport ---------------------------
(***************************************************************************)
(* The desktop's audio engine: the Transport of transport.rs, shared       *)
(* without locks by four threads of device.rs and audio.rs.  One runs the  *)
(* page's commands, in the order NativeAudioOutput sends them; the output  *)
(* callback mixes blocks and moves the playhead; the audio thread changes  *)
(* the output device, and with it the rate the playhead counts in; and the *)
(* telemetry tells the page where the playhead is.                         *)
(*                                                                         *)
(* Each action is one access to what the threads share.  Relaxed loads and *)
(* stores of one thread keep their order where the code says Acquire and   *)
(* Release; the others concern one variable each.                          *)
(***************************************************************************)
EXTENDS Naturals, Sequences

CONSTANTS Rates,      \* the output rates of the devices, in frames a second
          Secs,       \* the seconds the page seeks to
          MaxCalls,   \* bound on what the page asks for
          MaxSwaps,   \* bound on the changes of device
          MaxFrame    \* bound on the playhead

ASSUME TransportAssumption ==
  /\ Rates \subseteq Nat \ {0} /\ Secs \subseteq Nat
  /\ MaxCalls \in Nat /\ MaxSwaps \in Nat /\ MaxFrame \in Nat

VARIABLES playing, frame, discontinuity, seekId,  \* Transport
          slow,       \* its speed isn't 1
          rate,       \* output_rate
          stretch,    \* the rate the track's stretcher is built for; 0 without one
          locked,     \* sources is locked
          calls, made,  \* the page's CommandQueue; how many commands it has held
          at, got,    \* where the command under way is; the rate it has read
          swap,       \* where the audio thread is in SetDevices, and what it has read
          swaps,      \* how many times it has changed the device
          block,      \* where the output callback is, and what it has read
          fed,        \* the stretcher's epoch, and the frame it is to be fed next; <<>>: none
          tick,       \* where the telemetry is, and what it has read
          wanted,     \* NativeAudioOutput.playing
          asked,      \* NativeAudioOutput.seekId
          shown,      \* its anchor: a frame, at a rate
          target,     \* where the last seek went, in seconds
          open,       \* the page has started a song, and not stopped it since
          crossed,    \* the last seek ran while the device was being changed
          tracked,    \* the mix has a track
          subscribed  \* the page gets telemetry

transportVars == <<playing, frame, discontinuity, seekId, slow>>
commandVars   == <<calls, made, at, got>>
swapVars      == <<rate, swap, swaps>>
pageVars      == <<wanted, asked, shown, target, open>>
aVars == <<transportVars, stretch, locked, commandVars, swapVars, block, fed, tick, pageVars, crossed, tracked, subscribed>>

NoSwap  == [at |-> "idle", frame |-> 0, rate |-> 0]
NoBlock == [at |-> "idle", epoch |-> 0, playing |-> FALSE, start |-> 0]
NoTick  == [at |-> "idle", id |-> 0, rate |-> 0, frame |-> 0, playing |-> FALSE, torn |-> FALSE]

AInit ==
  /\ playing = FALSE /\ frame = 0 /\ discontinuity = 0 /\ seekId = 0 /\ slow \in BOOLEAN
  /\ tracked \in BOOLEAN /\ subscribed \in BOOLEAN
  /\ rate \in Rates /\ stretch = (IF slow /\ tracked THEN rate ELSE 0) /\ locked = FALSE
  /\ calls = <<>> /\ made = 0 /\ at = "start" /\ got = 0
  /\ swap = NoSwap /\ swaps = 0 /\ block = NoBlock /\ fed = <<>> /\ tick = NoTick
  /\ wanted = FALSE /\ asked = 0 /\ shown = [frame |-> 0, rate |-> 1, torn |-> FALSE] /\ target = 0
  /\ open = FALSE /\ crossed = FALSE

(***************************************************************************)
(* The commands.                                                           *)
(***************************************************************************)

Running(op, l) == calls # <<>> /\ Head(calls).op = op /\ at = l
To(l)     == at' = l /\ UNCHANGED calls
Answered  == at' = "start" /\ calls' = Tail(calls)
Others    == UNCHANGED <<made, swapVars, block, tick, pageVars, tracked, subscribed>>

TPlay ==
  /\ Running("play", "start") /\ playing' = TRUE /\ To("mark")
  /\ UNCHANGED <<frame, discontinuity, seekId, slow, stretch, locked, got, fed, crossed>> /\ Others

TPause ==
  /\ Running("pause", "start") /\ playing' = FALSE /\ Answered
  /\ UNCHANGED <<frame, discontinuity, seekId, slow, stretch, locked, got, fed, crossed>> /\ Others

TStop ==
  /\ Running("stop", "start") /\ playing' = FALSE /\ To("rewind")
  /\ UNCHANGED <<frame, discontinuity, seekId, slow, stretch, locked, got, fed, crossed>> /\ Others

TRewind ==
  /\ Running("stop", "rewind") /\ frame' = 0 /\ To("mark")
  /\ UNCHANGED <<playing, discontinuity, seekId, slow, stretch, locked, got, fed, crossed>> /\ Others

\* Mutant: the id is set before the position.
TSeekIdFirst ==
  /\ Running("seek", "start") /\ got' = rate /\ To("move")
  /\ crossed' = (swap.at \in {"rate", "rebuild", "seek"})
  /\ seekId' = Head(calls).id
  /\ UNCHANGED <<playing, frame, discontinuity, slow, stretch, locked, fed>> /\ Others

\* seek_secs(): the rate first.
TSeek ==
  /\ Running("seek", "start") /\ got' = rate /\ To("move")
  /\ crossed' = (swap.at \in {"rate", "rebuild", "seek"})
  /\ UNCHANGED <<transportVars, stretch, locked, fed>> /\ Others

TMove ==
  /\ Running("seek", "move") /\ frame' = Head(calls).sec * got /\ got' = 0 /\ To("mark")
  /\ UNCHANGED <<playing, discontinuity, seekId, slow, stretch, locked, fed, crossed>> /\ Others

\* ... and the id last, the streams woken with sources locked; start() sends its play once it is answered.
TSeekId ==
  /\ Running("seek", "id") /\ ~locked /\ seekId' = Head(calls).id
  /\ at' = "start"
  /\ calls' = IF Head(calls).plays THEN Append(Tail(calls), [op |-> "play"]) ELSE Tail(calls)
  /\ UNCHANGED <<playing, frame, discontinuity, slow, stretch, locked, got, fed, crossed>> /\ Others

\* Mutant: a seek marks none.
TMarkButSeeks ==
  /\ calls # <<>> /\ at = "mark"
  /\ CASE Head(calls).op = "seek"   -> To("id") /\ UNCHANGED discontinuity
       [] Head(calls).op = "normal" -> To("publish") /\ discontinuity' = discontinuity + 1
       [] OTHER -> Answered /\ discontinuity' = discontinuity + 1
  /\ locked' = (locked /\ Head(calls).op # "slow")
  /\ UNCHANGED <<playing, frame, seekId, slow, stretch, got, fed, crossed>> /\ Others

\* mark_discontinuity(), after what jumped.
TMark ==
  /\ calls # <<>> /\ at = "mark" /\ discontinuity' = discontinuity + 1
  /\ CASE Head(calls).op = "seek"   -> To("id")
       [] Head(calls).op = "normal" -> To("publish")
       [] OTHER -> Answered
  /\ locked' = (locked /\ Head(calls).op # "slow")
  /\ UNCHANGED <<playing, frame, seekId, slow, stretch, got, fed, crossed>> /\ Others

\* Mutant: the rate is read before sources is locked.
TSpeedUnlocked ==
  /\ calls # <<>> /\ Head(calls).op \in {"slow", "normal"} /\ at = "start"
  /\ got' = rate /\ UNCHANGED locked
  /\ To(IF Head(calls).op = "slow" THEN "publish" ELSE "speed")
  /\ UNCHANGED <<transportVars, stretch, fed, crossed>> /\ Others

\* set_speed(): sources locked, and under the lock the rate.
TSpeedLock ==
  /\ calls # <<>> /\ Head(calls).op \in {"slow", "normal"} /\ at = "start"
  /\ ~locked /\ locked' = TRUE /\ got' = rate
  /\ To(IF Head(calls).op = "slow" THEN "publish" ELSE "speed")
  /\ UNCHANGED <<transportVars, stretch, fed, crossed>> /\ Others

\* A stretcher there is stays, in mid-song; at speed 1 there is none.
TPublish ==
  /\ calls # <<>> /\ at = "publish"
  /\ \/ /\ Head(calls).op = "slow" /\ To("speed") /\ UNCHANGED locked
        /\ stretch' = IF stretch = 0 /\ tracked THEN got ELSE stretch
        /\ fed' = IF stretch = 0 THEN <<>> ELSE fed
     \/ /\ Head(calls).op = "normal" /\ Answered /\ locked' = FALSE
        /\ stretch' = 0 /\ fed' = <<>>
  /\ got' = 0 /\ UNCHANGED <<transportVars, crossed>> /\ Others

TSpeed ==
  /\ calls # <<>> /\ at = "speed" /\ slow' = (Head(calls).op = "slow") /\ To("mark")
  /\ UNCHANGED <<playing, frame, discontinuity, seekId, stretch, locked, got, fed, crossed>> /\ Others

Commands ==
  TPlay \/ TPause \/ TStop \/ TRewind \/ TSeek \/ TMove \/ TSeekId \/ TMark \/ TSpeedLock \/ TPublish \/ TSpeed

(***************************************************************************)
(* The audio thread: SetDevices with a device of another rate.  The old    *)
(* output is dropped, so no block is mixed, until the new one is built.    *)
(***************************************************************************)

UnchangedBySwap == UNCHANGED <<playing, seekId, slow, commandVars, block, tick, pageVars, tracked, subscribed>>

SwapPosition ==
  /\ swap.at = "idle" /\ block.at = "idle" /\ swaps < MaxSwaps
  /\ swap' = [at |-> "rate", frame |-> frame, rate |-> rate] /\ swaps' = swaps + 1
  /\ crossed' = (crossed \/ Running("seek", "move"))
  /\ UNCHANGED <<frame, discontinuity, rate, stretch, locked, fed>> /\ UnchangedBySwap

SwapRate ==
  /\ swap.at = "rate" /\ rate' \in Rates \ {rate}
  /\ swap' = [swap EXCEPT !.at = "rebuild"]
  /\ UNCHANGED <<frame, discontinuity, swaps, stretch, locked, fed, crossed>> /\ UnchangedBySwap

\* rebuild_for_rate(), sources locked.
SwapRebuild ==
  /\ swap.at = "rebuild" /\ ~locked
  /\ stretch' = (IF slow /\ tracked THEN rate ELSE 0) /\ fed' = <<>>
  /\ swap' = [swap EXCEPT !.at = "seek"]
  /\ UNCHANGED <<frame, discontinuity, rate, swaps, locked, crossed>> /\ UnchangedBySwap

\* The same time, to the nearest frame.
SwapSeek ==
  /\ swap.at = "seek"
  /\ frame' = (2 * swap.frame * rate + swap.rate) \div (2 * swap.rate)
  /\ swap' = [swap EXCEPT !.at = "mark"]
  /\ UNCHANGED <<discontinuity, rate, swaps, stretch, locked, fed, crossed>> /\ UnchangedBySwap

SwapMark ==
  /\ swap.at = "mark" /\ discontinuity' = discontinuity + 1 /\ swap' = NoSwap
  /\ UNCHANGED <<frame, rate, swaps, stretch, locked, fed, crossed>> /\ UnchangedBySwap

Swaps == SwapPosition \/ SwapRate \/ SwapRebuild \/ SwapSeek \/ SwapMark

(***************************************************************************)
(* The output callback: a block of one frame.                              *)
(***************************************************************************)

UnchangedByBlock ==
  UNCHANGED <<playing, discontinuity, seekId, slow, stretch, locked, commandVars, swapVars, tick, pageVars, crossed,
              tracked, subscribed>>

\* The discontinuity before the position and the speed.
BEpoch ==
  /\ block.at = "idle" /\ swap.at = "idle"
  /\ block' = [NoBlock EXCEPT !.at = "look", !.epoch = discontinuity]
  /\ UNCHANGED <<frame, fed>> /\ UnchangedByBlock

BLook ==
  /\ block.at = "look" /\ block' = [block EXCEPT !.at = "move", !.playing = playing]
  /\ UNCHANGED <<frame, fed>> /\ UnchangedByBlock

\* advance_playing() adds to wherever the playhead is, though it may have been
\* stopped since.
BMove ==
  /\ block.at = "move"
  /\ block.playing => frame < MaxFrame
  /\ frame' = IF block.playing THEN frame + 1 ELSE frame
  /\ block' = [block EXCEPT !.at = "mix", !.start = frame]
  /\ UNCHANGED fed /\ UnchangedByBlock

\* A stretcher renders the block from its start, skips it when there is
\* nothing to hear, or its audio isn't in yet.
BMix ==
  /\ block.at = "mix" /\ block' = NoBlock
  /\ fed' \in (IF stretch # 0 /\ block.playing THEN {<<>>, <<block.epoch, block.start + 1>>} ELSE {<<>>})
  /\ UNCHANGED frame /\ UnchangedByBlock

Blocks == BEpoch \/ BLook \/ BMove \/ BMix

(***************************************************************************)
(* The telemetry, 33 times a second, and what the page makes of it.        *)
(***************************************************************************)

UnchangedByTick == UNCHANGED <<transportVars, stretch, locked, commandVars, swapVars, block, fed, crossed,
                              tracked, subscribed>>

TickId ==
  /\ subscribed /\ tick.at = "idle" /\ tick' = [NoTick EXCEPT !.at = "frame", !.id = seekId]
  /\ UNCHANGED pageVars /\ UnchangedByTick

\* position_secs(): torn, while the rate and the playhead are of different
\* devices.
TickFrame ==
  /\ tick.at = "frame"
  /\ tick' = [tick EXCEPT !.at = "playing", !.rate = rate, !.frame = frame, !.torn = swap.at \in {"rebuild", "seek"}]
  /\ UNCHANGED pageVars /\ UnchangedByTick

TickPlaying ==
  /\ tick.at = "playing" /\ tick' = [tick EXCEPT !.at = "sent", !.playing = playing]
  /\ UNCHANGED pageVars /\ UnchangedByTick

\* onTelemetry(): nothing sampled before the last play, pause or seek landed.
OnTelemetry ==
  /\ tick.at = "sent" /\ tick' = NoTick
  /\ shown' = IF tick.playing = wanted /\ tick.id = asked
              THEN [frame |-> tick.frame, rate |-> tick.rate, torn |-> tick.torn] ELSE shown
  /\ UNCHANGED <<wanted, asked, target, open>> /\ UnchangedByTick

Ticks == TickId \/ TickFrame \/ TickPlaying \/ OnTelemetry

(***************************************************************************)
(* The page.                                                               *)
(***************************************************************************)

Ask(call) ==
  /\ made < MaxCalls /\ made' = made + 1 /\ calls' = Append(calls, call)
  /\ UNCHANGED <<transportVars, stretch, locked, at, got, swapVars, block, fed, tick, crossed, tracked, subscribed>>

AskSeek(sec, plays) ==
  /\ Ask([op |-> "seek", sec |-> sec, id |-> asked + 1, plays |-> plays])
  /\ asked' = asked + 1 /\ target' = sec /\ shown' = [frame |-> sec, rate |-> 1, torn |-> FALSE]

\* start()
AskStart(sec) == AskSeek(sec, TRUE) /\ wanted' = TRUE /\ open' = TRUE

\* seek()
AskSeekOnly(sec) == open /\ AskSeek(sec, FALSE) /\ UNCHANGED <<wanted, open>>

\* pause(), resume()
AskPause  == open /\ wanted /\ Ask([op |-> "pause"]) /\ wanted' = FALSE /\ UNCHANGED <<asked, shown, target, open>>
AskResume == open /\ ~wanted /\ Ask([op |-> "play"]) /\ wanted' = TRUE /\ UNCHANGED <<asked, shown, target, open>>

\* stop()
AskStop ==
  /\ Ask([op |-> "stop"]) /\ wanted' = FALSE /\ open' = FALSE
  /\ shown' = [frame |-> 0, rate |-> 1, torn |-> FALSE] /\ UNCHANGED <<asked, target>>

\* setSpeed()
AskSpeed == \E op \in {"slow", "normal"} : Ask([op |-> op]) /\ UNCHANGED pageVars

Asks == (\E sec \in Secs : AskStart(sec) \/ AskSeekOnly(sec)) \/ AskPause \/ AskResume \/ AskStop \/ AskSpeed

ANext == Commands \/ Swaps \/ Blocks \/ Ticks \/ Asks

ASpec == AInit /\ [][ANext]_aVars

(***************************************************************************)
(* Properties.                                                             *)
(***************************************************************************)

ATypeOK ==
  /\ {playing, slow, locked, wanted, open, crossed} \subseteq BOOLEAN
  /\ frame \in Nat /\ rate \in Rates /\ stretch \in Rates \union {0}
  /\ discontinuity \in Nat /\ {seekId, asked} \subseteq 0 .. MaxCalls /\ seekId <= asked
  /\ swaps \in 0 .. MaxSwaps /\ locked => calls # <<>>

\* "Acquire: seeing an id guarantees seeing the position its seek set": while
\* the song is open, the page shows no position before its last seek, whatever
\* telemetry is late; unless the seek or the telemetry itself met a change of
\* device (transport.rs:108, native_audio_output.ts:258).
ShownAfterSeek ==
  open /\ ~crossed /\ ~shown.torn => shown.frame >= target * shown.rate

\* Between blocks a stretcher that thinks it follows on from the last block
\* does: no jump of the playhead escapes it (device.rs:598).  A track has one
\* whenever the speed isn't 1, so that a block is mixed without only as the
\* speed goes back to 1, and it is built for the rate of the output
\* (device.rs:320).
StretchFollows ==
  /\ (/\ playing /\ block.at = "idle" /\ at # "mark" /\ swap.at = "idle"
      /\ fed # <<>> /\ fed[1] = discontinuity) => fed[2] = frame
  /\ slow /\ tracked => stretch # 0
  /\ (calls = <<>> /\ swap.at = "idle") => stretch = (IF slow /\ tracked THEN rate ELSE 0)
=============================================================================
