------------------------------ MODULE WebOutput ------------------------------
(***************************************************************************)
(* The browser's audio output:                                             *)
(* frontend/src/editing/playback/web_audio_output.ts, under the engine     *)
(* that gives it its orders (playback_engine.ts).  A stem is played by its *)
(* stem player or, off 1x, by a stretcher that keeps its pitch; those load *)
(* slowly, may fail, and are kept in a pool.                               *)
(*                                                                         *)
(* Time goes in ticks of the context's clock.  What a source plays is put  *)
(* relative to the output's position: its lag is how far behind it plays.  *)
(***************************************************************************)
EXTENDS Integers, FiniteSets, Sequences, SequencesExt

CONSTANTS Stems,          \* a sequence: the order of the map of tracks
          Speeds, Targets, Duration, MaxMade, MaxStarts,
          Pad, Lead       \* SCHEDULE_PAD_SEC, SCHEDULE_LEAD_SECONDS

VARIABLES engine,         \* the engine's state
          starts,         \* start()s that wait for the context: [from, current]
          suspended,      \* the context, until a user's gesture counts
          speed, audible, \* and the stems with any gain
          playing, pos,   \* WebAudioOutput.playing, positionSec()
          slots,          \* the controller's slot of each stem, if it has them
          pool, made,     \* TrackStretchers.free, and how many were ever made
          failed,
          orphans,        \* stretchers that load for slots that are gone
          deaf            \* stems unmuted when that no longer started them

webVars == <<engine, starts, suspended, speed, audible, playing, pos, slots, pool, made, failed, orphans, deaf>>

Ids == 1..MaxMade
NoLoad == 0               \* a load is of a stretcher of the pool, or
New == MaxMade + 1        \* of a new one
Off  == [on |-> FALSE, lag |-> 0, speed |-> 1]
Lost == 99                \* out of step
At(lag, sp) == [on |-> TRUE, lag |-> lag, speed |-> sp]
NoWait == [on |-> FALSE, lag |-> 0, ahead |-> 0, speed |-> 1]
NoSlot == [exists |-> FALSE, player |-> Off, stretcher |-> 0, stretched |-> Off, load |-> NoLoad, awaiting |-> NoWait]

StemSet == Range(Stems)
Larger(a, b) == IF a > b THEN a ELSE b
Controller == \A t \in StemSet : slots[t].exists

WebInit ==
  /\ engine = "idle" /\ starts = <<>> /\ suspended \in BOOLEAN
  /\ speed = 1 /\ audible = StemSet
  /\ playing = FALSE /\ pos = 0
  /\ slots = [t \in StemSet |-> NoSlot]
  /\ pool = <<>> /\ made = 0 /\ failed = FALSE /\ orphans = <<>> /\ deaf = {}

(***************************************************************************)
(* The controller.  mix is [slots, pool].                                  *)
(***************************************************************************)
ReleaseStretcher(mix, t) ==
  LET slot == mix.slots[t] IN
  [slots |-> [mix.slots EXCEPT ![t].awaiting = NoWait, ![t].stretcher = 0, ![t].stretched = Off],
   pool  |-> IF slot.stretcher = 0 THEN mix.pool ELSE Append(mix.pool, slot.stretcher)]

StopSource(mix, t)    == [mix EXCEPT !.slots[t].player = Off]
StopStretcher(mix, t) == [mix EXCEPT !.slots[t].awaiting = NoWait, !.slots[t].stretched = Off]

StartSource(mix, t, lag, sp) == [mix EXCEPT !.slots[t].player = At(lag, sp)]

\* Mutant: the plain source isn't stopped as the stretcher starts.
ScheduleBoth(mix, t, lag, ahead, sp) ==
  IF mix.slots[t].stretcher # 0 THEN [mix EXCEPT !.slots[t].stretched = At(lag, sp)]
  ELSE [mix EXCEPT !.slots[t].awaiting = [on |-> TRUE, lag |-> lag, ahead |-> ahead, speed |-> sp]]

\* A plain source plays on until the stretcher is there.
ScheduleStretched(mix, t, lag, ahead, sp) ==
  IF mix.slots[t].stretcher # 0 THEN [StopSource(mix, t) EXCEPT !.slots[t].stretched = At(lag, sp)]
  ELSE
    LET waits == [mix EXCEPT !.slots[t].awaiting = [on |-> TRUE, lag |-> lag, ahead |-> ahead, speed |-> sp]] IN
    IF mix.slots[t].load # NoLoad THEN waits
    ELSE IF mix.pool = <<>> THEN [waits EXCEPT !.slots[t].load = New]
    ELSE [waits EXCEPT !.slots[t].load = Last(mix.pool), !.pool = Front(mix.pool)]

\* From media second sec, `ahead` ticks from now, when the clock will be at then.
ScheduleOne(mix, t, sec, ahead, then, sp, heard) ==
  LET offset == Larger(0, sec)
      lag    == then - offset
      there  == [mix EXCEPT !.slots[t].exists = TRUE]
  IN IF offset >= Duration THEN StopStretcher(StopSource(there, t), t)
     ELSE IF sp = 1 \/ failed THEN StartSource(ReleaseStretcher(there, t), t, lag, sp)
     ELSE IF t \in heard THEN ScheduleStretched(there, t, lag, ahead, sp)
     ELSE ReleaseStretcher(StopSource(there, t), t)

\* startTimeFrom: never in the past.  The clock is at `now` now.
StartsIn(ahead) == Larger(ahead, Pad)
ScheduleAll(mix, sec, ahead, now, sp) ==
  LET when == StartsIn(ahead)
      F(m, t) == ScheduleOne(m, t, sec, when, now + when * sp, sp, audible)
  IN FoldLeft(F, mix, Stems)

Mix == [slots |-> slots, pool |-> pool]
Uses(mix) == slots' = mix.slots /\ pool' = mix.pool

\* Bounds the stretchers there are or will be.
NewLoads == Cardinality({t \in StemSet : slots[t].load = New}) + Cardinality({i \in DOMAIN orphans : orphans[i] = New})
MadeBound == made + NewLoads <= MaxMade

\* What plays on while the position jumps is out of step with it.
Adrift(s) == [t \in StemSet |-> [s[t] EXCEPT !.player.lag = IF s[t].player.on THEN Lost ELSE 0,
                                            !.stretched.lag = IF s[t].stretched.on THEN Lost ELSE 0]]

\* reschedule(now + ahead, sec); without a controller there is nothing to schedule.
Reschedule(from, sec, ahead, sp) ==
  /\ pos' = sec - ahead * sp
  /\ deaf' = {}
  /\ Uses(IF Controller THEN ScheduleAll([from EXCEPT !.slots = Adrift(@)], sec, ahead, sec - ahead * sp, sp) ELSE from)

\* Mutant: a slot that goes keeps its stretcher.
DisposeKeeping ==
  [slots |-> [t \in StemSet |-> NoSlot], pool |-> pool]

\* dispose(): the slots go, their stretchers to the pool; what loads for them is orphaned.
Dispose ==
  LET F(m, t) == ReleaseStretcher(StopSource(m, t), t)
  IN [FoldLeft(F, Mix, Stems) EXCEPT !.slots = [t \in StemSet |-> NoSlot]]

Orphaned ==
  LET F(os, t) == IF slots[t].load = NoLoad THEN os ELSE Append(os, slots[t].load)
  IN FoldLeft(F, orphans, Stems)

(***************************************************************************)
(* The output, as the engine calls it.                                     *)
(***************************************************************************)
StopOutput ==
  /\ Uses(Dispose) /\ orphans' = Orphaned
  /\ playing' = FALSE /\ pos' = 0 /\ deaf' = {}

\* play(): stop(), then start() waits for the context.
Play(from) ==
  /\ Len(starts) < MaxStarts
  /\ StopOutput
  /\ engine' = "loading"
  /\ starts' = Append([i \in DOMAIN starts |-> [starts[i] EXCEPT !.current = FALSE]], [from |-> from, current |-> TRUE])
  /\ UNCHANGED <<suspended, speed, audible, made, failed>>

Gesture == suspended /\ suspended' = FALSE /\ UNCHANGED <<engine, starts, speed, audible, playing, pos, slots, pool, made, failed, orphans, deaf>>

\* Mutant: a superseded start leaves the output playing.
Overtaken == TRUE

\* Whether a start that play() has moved on from leaves the output to a newer one.
LeftToNewer == engine # "idle"

\* start() goes on: what plays is disposed of, all stems are scheduled; and then play().
Started ==
  /\ starts # <<>> /\ ~suspended
  /\ LET start == Head(starts) IN
     /\ starts' = Tail(starts)
     /\ IF ~start.current /\ ~LeftToNewer
        THEN StopOutput /\ UNCHANGED engine
        ELSE /\ playing' = TRUE /\ orphans' = Orphaned /\ deaf' = {}
             /\ pos' = start.from - Lead * speed
             /\ Uses(ScheduleAll(Dispose, start.from, Lead, pos', speed))
             /\ engine' = IF start.current THEN "playing" ELSE engine
  /\ UNCHANGED <<suspended, speed, audible, made, failed>>
  /\ MadeBound'

StartFails ==
  /\ starts # <<>> /\ suspended
  /\ starts' = Tail(starts)
  /\ IF Head(starts).current THEN StopOutput /\ engine' = "idle"
     ELSE UNCHANGED <<engine, slots, pool, orphans, playing, pos, deaf>>
  /\ UNCHANGED <<suspended, speed, audible, made, failed>>

Stop ==
  /\ StopOutput /\ engine' = "idle"
  /\ starts' = [i \in DOMAIN starts |-> [starts[i] EXCEPT !.current = FALSE]]
  /\ UNCHANGED <<suspended, speed, audible, made, failed>>

\* Mutant: a stretcher that loads goes on as if the song played.
PauseSourcesOnly(s) == [s EXCEPT !.player = Off, !.stretched = Off]

\* cancelSources: stopSource and stopStretcher of a slot.
CancelSources(s) == [s EXCEPT !.player = Off, !.stretched = Off, !.awaiting = NoWait]

Pause ==
  /\ engine = "playing" /\ engine' = "paused"
  /\ playing' = FALSE
  /\ slots' = [t \in StemSet |-> CancelSources(slots[t])]
  /\ deaf' = {}
  /\ UNCHANGED <<starts, suspended, speed, audible, pos, pool, made, failed, orphans>>

Resume ==
  /\ engine = "paused" /\ engine' = "playing"
  /\ playing' = TRUE
  /\ Reschedule(Mix, pos, 0, speed)
  /\ UNCHANGED <<starts, suspended, speed, audible, made, failed, orphans>>
  /\ MadeBound'

Seek(sec) ==
  /\ engine # "idle"
  /\ IF playing THEN Reschedule(Mix, sec, 0, speed) ELSE pos' = sec /\ UNCHANGED <<slots, pool, deaf>>
  /\ UNCHANGED <<engine, starts, suspended, speed, audible, playing, made, failed, orphans>>
  /\ MadeBound'

SetSpeed(sp) ==
  /\ sp # speed /\ speed' = sp
  /\ IF playing THEN Reschedule(Mix, pos, 0, sp) ELSE UNCHANGED <<pos, slots, pool, deaf>>
  /\ UNCHANGED <<engine, starts, suspended, audible, playing, made, failed, orphans>>
  /\ MadeBound'

Running(slot) == slot.player.on \/ slot.stretcher # 0 \/ slot.awaiting.on

\* Mutant: a stem that falls silent keeps what it has.
SyncStarted(t, heard) ==
  IF t \in heard /\ ~Running(slots[t]) THEN ScheduleOne(Mix, t, pos, Pad, pos + Pad * speed, speed, heard) ELSE Mix

\* syncStretchToGain, where it does anything.
SyncStretchToGain(t, heard) ==
  IF Running(slots[t]) # (t \in heard) THEN ScheduleOne(Mix, t, pos, Pad, pos + Pad * speed, speed, heard) ELSE Mix

\* setTrackGain, as a stem is muted or unmuted.
SetGain(t) ==
  LET heard == IF t \in audible THEN audible \ {t} ELSE audible \union {t}
      syncs == playing /\ speed # 1 /\ slots[t].exists
  IN /\ audible' = heard
     /\ IF syncs /\ ~failed THEN Uses(SyncStretchToGain(t, heard)) ELSE UNCHANGED <<slots, pool>>
     /\ deaf' = IF syncs /\ failed /\ t \in heard /\ ~Running(slots[t]) THEN deaf \union {t} ELSE deaf \ {t}
     /\ UNCHANGED <<engine, starts, suspended, speed, playing, pos, made, failed, orphans>>
     /\ MadeBound'

\* A stretcher is there, or a new one fails: what waits for it starts where the song has got to.
Loaded(t) ==
  /\ slots[t].load # NoLoad
  /\ \E ok \in IF slots[t].load = New THEN BOOLEAN ELSE {TRUE} :
       LET id    == IF slots[t].load = New THEN made + 1 ELSE slots[t].load
           wait  == slots[t].awaiting
           early == Larger(0, wait.ahead - Pad)
           lag   == wait.lag - early * wait.speed
           had   == [Mix EXCEPT !.slots[t].load = NoLoad, !.slots[t].awaiting = NoWait,
                                !.slots[t].stretcher = IF ok THEN id ELSE 0]
       IN /\ made' = IF ok /\ slots[t].load = New THEN made + 1 ELSE made
          /\ failed' = (failed \/ ~ok)
          /\ Uses(IF ~wait.on THEN ReleaseStretcher(had, t)
                  ELSE IF pos + Pad * wait.speed - lag >= Duration THEN StopSource(had, t)
                  ELSE IF ok THEN ScheduleStretched(had, t, lag, Pad, wait.speed)
                  ELSE StartSource(had, t, lag, wait.speed))
  /\ UNCHANGED <<engine, starts, suspended, speed, audible, playing, pos, orphans, deaf>>

\* One for a slot that is gone goes to the pool.
LoadedLate ==
  /\ orphans # <<>>
  /\ orphans' = Tail(orphans)
  /\ \/ /\ pool' = Append(pool, IF Head(orphans) = New THEN made + 1 ELSE Head(orphans))
        /\ made' = (IF Head(orphans) = New THEN made + 1 ELSE made)
        /\ UNCHANGED failed
     \/ Head(orphans) = New /\ failed' = TRUE /\ UNCHANGED <<pool, made>>
  /\ UNCHANGED <<engine, starts, suspended, speed, audible, playing, pos, slots, deaf>>

\* The context's clock, while the song lasts.
Passed(src, sp) == IF src.on /\ src.speed # sp THEN [src EXCEPT !.lag = Lost] ELSE src
Tick ==
  /\ playing /\ pos < Duration
  /\ pos' = pos + speed
  /\ slots' = [t \in StemSet |->
       [slots[t] EXCEPT !.player = Passed(@, speed), !.stretched = Passed(@, speed), !.awaiting.ahead = Larger(0, @ - 1)]]
  /\ UNCHANGED <<engine, starts, suspended, speed, audible, playing, pool, made, failed, orphans, deaf>>

WebNext ==
  \/ \E from \in Targets : Play(from) \/ Seek(from)
  \/ \E sp \in Speeds : SetSpeed(sp)
  \/ \E t \in StemSet : SetGain(t) \/ Loaded(t)
  \/ Gesture \/ Started \/ StartFails \/ Stop \/ Pause \/ Resume \/ LoadedLate \/ Tick

WebSpec == WebInit /\ [][WebNext]_webVars

(***************************************************************************)
(* Properties                                                              *)
(***************************************************************************)
WebTypes ==
  /\ engine \in {"idle", "loading", "playing", "paused"} /\ Len(starts) <= MaxStarts
  /\ speed \in Speeds /\ audible \subseteq StemSet /\ made \in 0..MaxMade
  /\ \A t \in StemSet : slots[t].load \in 0..New /\ slots[t].stretcher \in 0..MaxMade

\* The output plays when the engine has it play, and is silent when it doesn't.
PlaysAsTold ==
  /\ engine = "playing" => playing
  /\ playing => engine \in {"playing", "loading"}
  /\ ~playing => \A t \in StemSet : ~slots[t].player.on /\ ~slots[t].stretched.on /\ ~slots[t].awaiting.on

\* A stem is heard once, and where the clock is, but for the little it starts
\* late, or early as the lead of a start is cut short (the clock then is before
\* the song's first sound); unless it plays on while its stretcher loads.
Fastest == CHOOSE sp \in Speeds : \A other \in Speeds : other <= sp
InStep ==
  \A t \in StemSet : LET slot == slots[t] IN
    /\ ~(slot.player.on /\ slot.stretched.on)
    /\ slot.stretched.on => slot.stretcher # 0
    /\ playing /\ ~slot.awaiting.on =>
         \A src \in {slot.player, slot.stretched} :
           src.on => src.speed = speed /\ src.lag \in -(Lead * Fastest)..(Pad * speed)

\* Every stem that is to be heard is, or will be once its stretcher has loaded,
\* but for those unmuted when the stretchers had failed (syncStretchToGain).
Sounds ==
  \A t \in audible \ deaf :
    playing /\ pos + Pad * speed < Duration - Pad * speed =>
      slots[t].player.on \/ slots[t].stretched.on \/ (slots[t].awaiting.on /\ slots[t].load # NoLoad)

\* Each stretcher is one stem's, or in the pool, or on its way; and a silent
\* stem has none while the song plays (unless the stretchers failed).
Held == [t \in StemSet |-> {slots[t].stretcher, slots[t].load} \ {0, New}]
StretchersRight ==
  LET places == FoldSeq(LAMBDA t, n : n + Cardinality(Held[t]), 0, Stems)
                + Len(pool) + Len(SelectSeq(orphans, LAMBDA l : l # New))
      all    == UNION Range(Held) \union Range(pool) \union (Range(orphans) \ {New})
  IN /\ places = made /\ all = 1..made
     /\ playing /\ pos < Duration /\ speed # 1 /\ ~failed => \A t \in StemSet \ audible : slots[t].stretcher = 0

WebRight == PlaysAsTold /\ InStep /\ Sounds /\ StretchersRight
=============================================================================
