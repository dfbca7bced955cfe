------------------------------- MODULE Scoring -------------------------------
(***************************************************************************)
(* Singing for a score: frontend/src/scoring/.  A session takes the        *)
(* microphone (swiftf0_live_pitch_source.ts), stamps what it hears with    *)
(* the song's time, judges each note once its window is past, and all of   *)
(* them anew at the end, by the octave the singer settled in.              *)
(*                                                                         *)
(* Times are ticks, pitches MIDI notes, scores percent.  The difficulty is *)
(* "normal" without its vibrato.                                           *)
(***************************************************************************)
EXTENDS Integers, Sequences, FiniteSets, FiniteSetsExt

CONSTANTS Targets,       \* the notes, [start, end, midi], by their start
          Tolerance,     \* timingToleranceSec
          LastTick, Sung,    \* where the song ends; what the microphone may hear, Silence among it
          MaxFrames, MaxSeeks, MaxSessions

Silence == 0
Notes == DOMAIN Targets

VARIABLES at, songOn,             \* the playhead; whether the transport isn't idle
          singing, starting, staleStarts,  \* a session; the step its start awaits, and those of starts stopped since
          mic,                    \* microphone streams open: "session" or "orphan"
          frames, firstIdx, nextIdx, votes, noteResults, \* as in the presenter; votes are the register's
          judgedBy,               \* registerOffset of the store
          brokenOff,              \* an old start's failure ended the session
          seekCount, sessionCount

scoreVars == <<at, songOn, singing, starting, staleStarts, mic, frames, firstIdx, nextIdx, votes, noteResults,
               judgedBy, brokenOff, seekCount, sessionCount>>
judged == <<frames, firstIdx, nextIdx, votes, noteResults, judgedBy, brokenOff>>

ScoreInit ==
  /\ at = 0 /\ songOn = TRUE /\ singing = FALSE /\ starting = "no" /\ staleStarts = {} /\ mic = {}
  /\ frames = <<>> /\ firstIdx = 1 /\ nextIdx = 1 /\ votes = <<>> /\ noteResults = <<>> /\ judgedBy = 0
  /\ brokenOff = FALSE /\ seekCount = 0 /\ sessionCount = 0

(***************************************************************************)
(* scoring.ts.                                                             *)
(***************************************************************************)
Semis(midi, target)  == midi - target
Octave(midi, target) == (Semis(midi, target) + 6) \div 12          \* Math.round
FoldedCents(midi, target) == 100 * (Semis(midi, target) - 12 * Octave(midi, target))

\* Full within 60 cents, none beyond 200.
PitchClassScore(cents) ==
  LET e == IF cents < 0 THEN -cents ELSE cents
  IN  CASE e <= 60 -> 100 [] e >= 200 -> 0 [] OTHER -> 100 - (100 * (e - 60)) \div 140

\* The sum of numbers.
Total(list) ==
  LET upTo[j \in 0..Len(list)] == IF j = 0 THEN 0 ELSE upTo[j - 1] + list[j]
  IN  upTo[Len(list)]

Distance(k) == IF k < 0 THEN -k ELSE k

\* dominantKey(), RegisterEstimator.offset: of the votes, <<key, weight>>, that count, the key of most weight,
\* of two the nearer one to 0, or the first.
Dominant(list, count) ==
  LET keys      == {list[i][1] : i \in count}
      weight(k) == Total([i \in DOMAIN list |-> IF i \in count /\ list[i][1] = k THEN list[i][2] ELSE 0])
      first(k)  == CHOOSE i \in count : list[i][1] = k /\ \A j \in count : list[j][1] = k => i <= j
      over(k, l) == \/ weight(k) > weight(l)
                    \/ weight(k) = weight(l) /\ (\/ Distance(k) < Distance(l)
                                                 \/ (Distance(k) = Distance(l) /\ first(k) < first(l)))
  IN  IF keys = {} THEN 0 ELSE CHOOSE k \in keys : \A l \in keys \ {k} : over(k, l)

\* windowFor(): the grace doesn't reach into the notes before and after.
Window(i) ==
  LET lo == Targets[i].start - Tolerance
      hi == Targets[i].end + Tolerance
  IN  [lo |-> IF i > 1 /\ Targets[i - 1].end > lo THEN Targets[i - 1].end ELSE lo,
       hi |-> IF i < Len(Targets) /\ Targets[i + 1].start < hi THEN Targets[i + 1].start ELSE hi]

Missed == [scored |-> FALSE, score |-> 0, octave |-> 0, factor |-> 0]

(***************************************************************************)
(* scoreNote().                                                            *)
(***************************************************************************)
\* The frames of the note's window, and the voiced ones.
Inside(i, heard)   == {j \in DOMAIN heard : Window(i).lo <= heard[j].t /\ heard[j].t < Window(i).hi}
Voiced(heard)      == {j \in DOMAIN heard : heard[j].midi # Silence}
VoicedIn(i, heard) == Inside(i, heard) \intersect Voiced(heard)

\* 40% of them must be voiced.
Scores(i, heard) ==
  VoicedIn(i, heard) # {} /\ 100 * Cardinality(VoicedIn(i, heard)) >= 40 * Cardinality(Inside(i, heard))

\* The mean over the voiced ones, and the octave most of them are in.
NotePitch(i, heard) ==
  LET right(midi) == PitchClassScore(FoldedCents(midi, Targets[i].midi))
  IN  Total([j \in DOMAIN heard |-> IF j \in VoicedIn(i, heard) THEN right(heard[j].midi) ELSE 0])
      \div Cardinality(VoicedIn(i, heard))

NoteOctave(i, heard) ==
  Dominant([j \in DOMAIN heard |-> <<Octave(heard[j].midi, Targets[i].midi), 1>>], VoicedIn(i, heard))

ScoreNote(i, heard, register) ==
  LET octave == NoteOctave(i, heard)
      factor == IF octave \in {0, register} THEN 100 ELSE 60
  IN  IF ~Scores(i, heard) THEN Missed
      ELSE [scored |-> TRUE, score |-> (NotePitch(i, heard) * factor) \div 100, octave |-> octave, factor |-> factor]

\* RegisterEstimator: the octave the notes so far are mostly sung in.
Register(list) == Dominant(list, DOMAIN list)

(***************************************************************************)
(* The session.                                                            *)
(***************************************************************************)
\* advance(): every note whose window is past at t is judged, by the octave voted for so far.
FirstAhead(from, t) ==
  LET ahead == {i \in Notes : i >= from /\ t <= Targets[i].end + Tolerance}
  IN  IF ahead = {} THEN Len(Targets) + 1 ELSE Min(ahead)

JudgeNext(now, heard) ==
  LET i == now.next
      r == ScoreNote(i, heard, Register(now.votes))
  IN  [next    |-> i + 1,
       results |-> Append(now.results, r),
       votes   |-> IF r.scored THEN Append(now.votes, <<r.octave, Targets[i].end - Targets[i].start>>) ELSE now.votes]

Judge(now, heard, t) ==
  LET to == FirstAhead(now.next, t)
      upTo[i \in now.next..to] == IF i = now.next THEN now ELSE JudgeNext(upTo[i - 1], heard)
  IN  upTo[to]

Judged(now) ==
  /\ nextIdx' = now.next /\ votes' = now.votes /\ noteResults' = now.results
  /\ judgedBy' = (IF now.next = nextIdx THEN judgedBy ELSE Register(now.votes))

\* The clock moved: the reaction on its time.
Clock(t) ==
  IF ~singing THEN UNCHANGED <<nextIdx, votes, noteResults, judgedBy>>
  ELSE Judged(Judge([next |-> nextIdx, results |-> noteResults, votes |-> votes], frames, t))

\* startSession(), by the button there is while none runs: the notes that are past aren't judged.
StartSession ==
  /\ ~singing /\ sessionCount < MaxSessions
  /\ sessionCount' = sessionCount + 1
  /\ singing' = TRUE /\ starting' = (IF sessionCount = 0 \/ "model" \in staleStarts THEN "model" ELSE "mic")
  /\ firstIdx' = FirstAhead(1, at) /\ nextIdx' = firstIdx'
  /\ frames' = <<>> /\ votes' = <<>> /\ noteResults' = <<>> /\ judgedBy' = 0
  /\ brokenOff' = FALSE
  /\ UNCHANGED <<at, songOn, staleStarts, mic, seekCount>>

\* SwiftF0LivePitchSource.start(): the model, then the microphone.
Started ==
  /\ starting # "no"
  /\ IF starting = "model" THEN starting' = "mic" /\ UNCHANGED mic
     ELSE starting' = "no" /\ mic' = mic \union {"session"}
  /\ UNCHANGED <<at, songOn, singing, staleStarts, judged, seekCount, sessionCount>>

\* Mutant: the microphone it got is kept.
BackOutOpen(step) == mic' = (IF step = "mic" THEN mic \union {"orphan"} ELSE mic)

\* One was stopped meanwhile, so its generation is past: it backs out, and gives back the microphone it was given.
BackOut(step) == mic' = mic

StartedLate(step) ==
  /\ staleStarts' = staleStarts \ {step}
  /\ BackOut(step)
  /\ UNCHANGED <<at, songOn, singing, starting, judged, seekCount, sessionCount>>

\* teardown(): source.stop().  What is on its way is stale from now on.
Teardown ==
  /\ mic' = mic \ {"session"} /\ starting' = "no"
  /\ staleStarts' = (IF starting = "no" THEN staleStarts ELSE staleStarts \union {starting})

\* A start fails: no model, no microphone, or it isn't allowed.
StartFails ==
  /\ starting # "no"
  /\ mic' = mic /\ starting' = "no" /\ singing' = FALSE
  /\ UNCHANGED <<at, songOn, staleStarts, judged, seekCount, sessionCount>>

\* One that was stopped fails: its catch ends whichever session runs.
StartFailsLate(step) ==
  /\ mic' = mic \ {"session"} /\ starting' = "no" /\ singing' = FALSE /\ brokenOff' = (brokenOff \/ singing)
  /\ staleStarts' = (staleStarts \ {step}) \union ({starting} \ {"no"})
  /\ UNCHANGED <<at, songOn, frames, firstIdx, nextIdx, votes, noteResults, judgedBy, seekCount, sessionCount>>

\* Mutant: the notes keep what they got while the octave wasn't known.
FinalizeNot == noteResults' = noteResults /\ judgedBy' = Register(votes)

\* finalize(): all of them anew, by the octave of the whole.
Finalize ==
  /\ noteResults' = [j \in 1..(nextIdx - firstIdx) |-> ScoreNote(firstIdx + j - 1, frames, Register(votes))]
  /\ judgedBy' = Register(votes)

Stop ==
  /\ Teardown /\ Finalize /\ singing' = FALSE
  /\ UNCHANGED <<frames, firstIdx, nextIdx, votes, brokenOff>>

\* stopSession(), by the button.
StopSession == singing /\ Stop /\ UNCHANGED <<at, songOn, seekCount, sessionCount>>

\* ingest(): a frame, of the time the song is at, paused or not.
Ingest(midi) ==
  /\ "session" \in mic /\ singing /\ Len(frames) < MaxFrames
  /\ frames' = Append(frames, [t |-> at, midi |-> midi])
  /\ UNCHANGED <<at, songOn, singing, starting, staleStarts, mic, firstIdx, nextIdx, votes, noteResults, judgedBy,
                 brokenOff, seekCount, sessionCount>>

Plays ==
  /\ songOn /\ at < LastTick
  /\ at' = at + 1 /\ Clock(at + 1)
  /\ UNCHANGED <<songOn, singing, starting, staleStarts, mic, frames, firstIdx, brokenOff, seekCount, sessionCount>>

SeekTo(t) ==
  /\ seekCount < MaxSeeks /\ t # at
  /\ seekCount' = seekCount + 1 /\ at' = t /\ Clock(t)
  /\ UNCHANGED <<songOn, singing, starting, staleStarts, mic, frames, firstIdx, brokenOff, sessionCount>>

\* The song ends, or is stopped: the HUD stops the session.
SongEnds ==
  /\ songOn /\ songOn' = FALSE
  /\ IF singing THEN Stop ELSE UNCHANGED <<singing, starting, staleStarts, mic, judged>>
  /\ UNCHANGED <<at, seekCount, sessionCount>>

ScoreNext ==
  \/ StartSession \/ Started \/ StartFails \/ StopSession \/ Plays \/ SongEnds
  \/ \E step \in staleStarts : StartedLate(step) \/ StartFailsLate(step)
  \/ \E midi \in Sung : Ingest(midi)
  \/ SeekTo(0)

ScoreSpec == ScoreInit /\ [][ScoreNext]_scoreVars

(***************************************************************************)
(* Properties.                                                             *)
(***************************************************************************)
ScoreTypes ==
  /\ at \in 0..LastTick /\ {songOn, singing, brokenOff} \subseteq BOOLEAN /\ starting \in {"no", "model", "mic"}
  /\ staleStarts \subseteq {"model", "mic"} /\ mic \subseteq {"session", "orphan"}
  /\ \A j \in DOMAIN noteResults : noteResults[j].score \in 0..100
  /\ firstIdx \in 1..(Len(Targets) + 1) /\ nextIdx \in firstIdx..(Len(Targets) + 1)

\* The microphone is open only in a session, and one that is under way has it or is about to.
MicReleased == (mic # {} => singing /\ mic = {"session"}) /\ (singing => mic # {} \/ starting # "no")

\* Each note is judged once, in order, when its window is past and those of the
\* notes before it, however the singer moves in the song.
Past(i) == Targets[i].end + Tolerance < at
JudgedOnce ==
  /\ Len(noteResults) = nextIdx - firstIdx
  /\ singing => \A i \in Notes : (i >= firstIdx /\ \A j \in firstIdx..i : Past(j)) => i < nextIdx

\* At the end nobody is marked down for an octave they kept to: sung
\* throughout in one octave, every note counts as in its own.  (Not so after a
\* seek back: a note sung at the second go is judged at the end, but its octave
\* has no vote.)
KeptTo(o) == \A j \in Voiced(frames), i \in Notes : Octave(frames[j].midi, Targets[i].midi) = o
OctaveKept ==
  (~singing /\ ~brokenOff /\ seekCount = 0 /\ \E o \in {-1, 0, 1} : KeptTo(o))
     => \A j \in DOMAIN noteResults : noteResults[j].scored => noteResults[j].factor = 100

ScoringRight == MicReleased /\ JudgedOnce /\ OctaveKept
=============================================================================
