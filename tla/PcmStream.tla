------------------------------ MODULE PcmStream ------------------------------
(***************************************************************************)
(* A stem's audio on its way from the song's worker to the one that plays  *)
(* it: frontend/src/editing/playback/song_pcm_worker.ts (PcmStream) and    *)
(* its consumers, the stem player's worklet (stem_player_worklet.ts) and   *)
(* the stretcher (time_stretch.ts).  The consumer grants room for Window   *)
(* chunks and hands room back as it is done with them; a seek starts a new *)
(* generation.  Positions are counted in chunks.                           *)
(***************************************************************************)
EXTENDS Integers, FiniteSets, Sequences, SequencesExt

CONSTANTS Frames, Window, MaxGen,     \* the stem's chunks, PCM_WINDOW_CHUNKS, a bound on seeks
          Preroll, KeepBehind, MinLead,
          Hasty                       \* whether a jump back may overtake a trim's answer

VARIABLES consumer,                   \* "player" or "stretcher"
          gen, playing, pos,          \* the consumer's generation, and the clock's place in the stem
          chunks,                     \* the player's: the chunks it holds
          win,                        \* the stretcher's window: [origin, fed, held, acked, start]
          dropped, trims,             \* where the node's audio starts, and the answers to trims: [gen, start]
          up, down,                   \* requests and chunks under way
          room, next, wgen, reading, closed    \* the worker's PcmStream

pcmVars == <<consumer, gen, playing, pos, chunks, win, dropped, trims, up, down, room, next, wgen, reading, closed>>
worker  == <<room, next, wgen, reading, closed>>

Idle == [is |-> "idle", gen |-> 0, frame |-> 0]
NoWindow == [origin |-> 0, fed |-> 0, held |-> 0, acked |-> 0, start |-> FALSE]

PcmInit ==
  /\ consumer \in {"player", "stretcher"}
  /\ gen = 0 /\ playing = FALSE /\ pos = 0 /\ chunks = <<>>
  /\ win = NoWindow /\ dropped = 0 /\ trims = <<>>
  /\ up = <<>> /\ down = <<>>
  /\ room = 0 /\ next = 0 /\ wgen = 0 /\ reading = Idle /\ closed = FALSE

(***************************************************************************)
(* The worker.                                                             *)
(***************************************************************************)
\* Mutant: room is added to what the generation before left.
RoomAfterAdded(msg) == IF msg.kind = "seek" THEN room + Window ELSE IF msg.gen = wgen THEN room + 1 ELSE room

RoomAfter(msg) == IF msg.kind = "seek" THEN Window ELSE IF msg.gen = wgen THEN room + 1 ELSE room

\* pump(): the read that comes next, if any.
Pump(r, n, g) == IF ~closed /\ r > 0 /\ n < Frames THEN [is |-> "reading", gen |-> g, frame |-> n] ELSE Idle

OnRequest ==
  /\ up # <<>> /\ ~closed
  /\ LET msg == Head(up) IN
     /\ up' = Tail(up)
     /\ room' = RoomAfter(msg)
     /\ next' = IF msg.kind = "seek" THEN msg.frame ELSE next
     /\ wgen' = IF msg.kind = "seek" THEN msg.gen ELSE wgen
  /\ reading' = IF reading = Idle THEN Pump(room', next', wgen') ELSE reading
  /\ UNCHANGED <<consumer, gen, playing, pos, chunks, win, dropped, trims, down, closed>>

\* Mutant: a chunk read for the generation before is counted in this one.
CurrentAlways == TRUE

Current == reading.gen = wgen

ReadDone ==
  /\ reading.is = "reading"
  /\ IF Current
     THEN /\ down' = Append(down, [gen |-> reading.gen, frame |-> reading.frame])
          /\ room' = room - 1 /\ next' = next + 1
     ELSE UNCHANGED <<down, room, next>>
  /\ reading' = Pump(room', next', wgen)
  /\ UNCHANGED <<consumer, gen, playing, pos, chunks, win, dropped, trims, up, wgen, closed>>

\* Mutant: a failed read ends the pump.
AfterFailureEnds == Idle

\* A failed read is tried again after a while, or at once for a new generation.
AfterFailure == IF Current THEN [reading EXCEPT !.is = "waiting"] ELSE Pump(room, next, wgen)

ReadFails ==
  /\ reading.is = "reading" /\ reading.frame # 0
  /\ reading' = AfterFailure
  /\ UNCHANGED <<consumer, gen, playing, pos, chunks, win, dropped, trims, up, down, room, next, wgen, closed>>

Retry ==
  /\ reading.is = "waiting"
  /\ reading' = Pump(room, next, wgen)
  /\ UNCHANGED <<consumer, gen, playing, pos, chunks, win, dropped, trims, up, down, room, next, wgen, closed>>

(***************************************************************************)
(* The stem player's worklet.                                              *)
(***************************************************************************)
Holds(cs, f) == \E i \in DOMAIN cs : cs[i] = f
SeekTo(f) == [kind |-> "seek", gen |-> gen + 1, frame |-> f]
Ack == [kind |-> "ack", gen |-> gen, frame |-> 0]
Acks(n) == [i \in 1..n |-> Ack]

Play(f) ==
  /\ consumer = "player" /\ ~closed
  /\ playing' = TRUE /\ pos' = f
  /\ IF Holds(chunks, f) THEN UNCHANGED <<gen, chunks, up>>
     ELSE /\ gen < MaxGen /\ gen' = gen + 1
          /\ chunks' = <<>> /\ up' = Append(up, SeekTo(f))
  /\ UNCHANGED <<consumer, win, dropped, trims, down, worker>>

\* process(): chunks that the clock has passed go, and their room back.
Finished(cs, at) == Cardinality({i \in DOMAIN cs : cs[i] < at})
Process(by) ==
  /\ consumer = "player" /\ playing /\ pos + by <= Frames /\ ~closed
  /\ pos' = pos + by
  /\ LET n == Finished(chunks, pos + by) IN
     /\ by + n > 0
     /\ chunks' = SubSeq(chunks, n + 1, Len(chunks))
     /\ up' = up \o Acks(n)
  /\ UNCHANGED <<consumer, gen, playing, win, dropped, trims, down, worker>>

OnChunk ==
  /\ consumer = "player" /\ down # <<>> /\ ~closed
  /\ down' = Tail(down)
  /\ chunks' = IF Head(down).gen = gen THEN Append(chunks, Head(down).frame) ELSE chunks
  /\ UNCHANGED <<consumer, gen, playing, pos, win, dropped, trims, up, worker>>

(***************************************************************************)
(* The stretcher.  win.origin is where the window starts in the stem, and  *)
(* the rest of it is counted from there.                                   *)
(***************************************************************************)
Within(input) == win.fed > 0 /\ input >= win.held /\ input + MinLead < win.fed
Larger(a, b) == IF a > b THEN a ELSE b

Schedule(f) ==
  /\ consumer = "stretcher" /\ ~closed
  /\ Hasty \/ \A i \in DOMAIN trims : trims[i].gen = gen => f - win.origin >= trims[i].start
  /\ pos' = f
  /\ IF Within(f - win.origin) THEN playing' = TRUE /\ UNCHANGED <<gen, win, dropped, up>>
     ELSE /\ gen < MaxGen /\ gen' = gen + 1
          /\ playing' = FALSE
          /\ win' = [NoWindow EXCEPT !.origin = Larger(0, f - Preroll), !.start = TRUE]
          /\ dropped' = 0
          /\ up' = Append(up, SeekTo(Larger(0, f - Preroll)))
  /\ UNCHANGED <<consumer, chunks, trims, down, worker>>

\* Started by the window's first chunk, late by as much as it took.
Feed ==
  /\ consumer = "stretcher" /\ down # <<>> /\ ~closed
  /\ down' = Tail(down)
  /\ IF Head(down).gen = gen
     THEN win' = [win EXCEPT !.fed = @ + 1, !.start = FALSE] /\ playing' = (playing \/ win.start)
     ELSE UNCHANGED <<win, playing>>
  /\ UNCHANGED <<consumer, gen, pos, chunks, dropped, trims, up, worker>>

\* The clock goes on while the first chunk is awaited, too.
StretchOn ==
  /\ consumer = "stretcher" /\ (playing \/ win.start) /\ pos < Frames /\ ~closed
  /\ pos' = pos + 1
  /\ UNCHANGED <<consumer, gen, playing, chunks, win, dropped, trims, up, down, worker>>

\* trim(): the node drops what has been heard, and answers where its audio starts.
Trim ==
  /\ consumer = "stretcher" /\ ~win.start /\ trims = <<>> /\ ~closed
  /\ LET played == (pos - win.origin) - KeepBehind IN
     /\ playing /\ played > dropped
     /\ dropped' = (IF played < win.fed THEN played ELSE win.fed)
     /\ trims' = Append(trims, [gen |-> gen, start |-> dropped'])
  /\ UNCHANGED <<consumer, gen, playing, pos, chunks, win, up, down, worker>>

\* Mutant: an answer for the window before counts in this one.
OfAny(trim) == TRUE

OfThis(trim) == trim.gen = gen

Trimmed ==
  /\ trims # <<>> /\ ~closed
  /\ trims' = Tail(trims)
  /\ IF OfThis(Head(trims))
     THEN /\ win' = [win EXCEPT !.held = Head(trims).start, !.acked = Larger(@, Head(trims).start)]
          /\ up' = up \o Acks(Larger(0, Head(trims).start - win.acked))
     ELSE UNCHANGED <<win, up>>
  /\ UNCHANGED <<consumer, gen, playing, pos, chunks, dropped, down, worker>>

\* stop(), or the stretcher's pause().
Stop ==
  /\ ~closed /\ playing' = FALSE
  /\ win' = [win EXCEPT !.start = FALSE]
  /\ UNCHANGED <<consumer, gen, pos, chunks, dropped, trims, up, down, worker>>

\* dispose or stopFeeding: the port closes, and what is under way is lost.
Close ==
  /\ ~closed /\ closed' = TRUE
  /\ playing' = FALSE /\ chunks' = <<>> /\ win' = NoWindow /\ up' = <<>> /\ down' = <<>>
  /\ UNCHANGED <<consumer, gen, pos, dropped, trims, room, next, wgen, reading>>

PcmNext ==
  \/ OnRequest \/ ReadDone \/ ReadFails \/ Retry
  \/ \E f \in 0..(Frames - 1) : Play(f) \/ Schedule(f)
  \/ \E by \in {0, 1} : Process(by)
  \/ OnChunk \/ Feed \/ StretchOn \/ Trim \/ Trimmed \/ Stop \/ Close

PcmSpec == PcmInit /\ [][PcmNext]_pcmVars

(***************************************************************************)
(* Properties                                                              *)
(***************************************************************************)
PcmTypes ==
  /\ gen \in 0..MaxGen /\ pos \in 0..Frames /\ next \in 0..Frames /\ wgen <= gen
  /\ reading.is \in {"idle", "reading", "waiting"}

Seeks == \E i \in DOMAIN up : up[i].kind = "seek"
OfGen(s) == SelectSeq(s, LAMBDA m : m.gen = gen)
Coming == OfGen(down)

\* Room is neither lost nor made: what the worker has, what is under way, and
\* what the consumer holds come to one window.
Kept == IF consumer = "player" THEN Len(chunks) ELSE win.fed - win.acked
RoomRight ==
  ~closed /\ ~Seeks /\ gen > 0 =>
    room >= 0 /\ Kept >= 0 /\ room + Len(Coming) + Kept + Len(OfGen(up)) = Window

\* What is held and what is coming is the stem without a gap, up to what the
\* worker reads next.
InARow ==
  ~closed /\ ~Seeks /\ gen > 0 =>
    LET held == IF consumer = "player" THEN chunks
                ELSE [i \in 1..(win.fed - win.acked) |-> win.origin + win.acked + i - 1]
        all  == held \o [i \in DOMAIN Coming |-> Coming[i].frame]
    IN \A i \in DOMAIN all : all[i] = next - Len(all) + i - 1

\* A song that plays never waits for audio that nothing is to bring; and a
\* stretcher is never sent where it has dropped the audio.
NeverStarves ==
  /\ playing /\ pos < Frames /\ up = <<>> /\ down = <<>> /\ trims = <<>> /\ reading = Idle =>
       IF consumer = "player" THEN Holds(chunks, pos) \/ Finished(chunks, pos) > 0
       ELSE pos - win.origin < win.fed \/ pos - win.origin - KeepBehind > dropped
  /\ consumer = "stretcher" /\ playing => pos - win.origin >= dropped

StreamRight == RoomRight /\ InARow /\ NeverStarves
=============================================================================
