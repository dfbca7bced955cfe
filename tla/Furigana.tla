------------------------------ MODULE Furigana ------------------------------
(***************************************************************************)
(* The readings of Japanese lines, asked of the backend a batch at a time, *)
(* and what a word shows of them: frontend/src/lyrics/furigana.ts.         *)
(***************************************************************************)
EXTENDS Naturals, Sequences, FiniteSets, SequencesExt

CONSTANTS Lines,                \* lines to read, by their key
          Limit, MaxFails       \* MAX_LINES_PER_REQUEST; failures of the backend

VARIABLES cached, queued, inFlight,   \* the annotator's; queued in the order asked
          flushTimer,                 \* "none", "soon" or "retry"
          requests,                   \* batches the backend has
          asked, fails                \* lines drawn so far; failures so far

furiganaVars == <<cached, queued, inFlight, flushTimer, requests, asked, fails>>

\* Mutant: a line that is with the backend is asked for again.
Known(key) == key \in cached \union ToSet(queued)

Requested(key) == key \in cached \union ToSet(queued) \union inFlight

\* A line is drawn: annotation(), request().
Draw(key) ==
  /\ asked' = asked \union {key}
  /\ IF Requested(key) THEN UNCHANGED <<queued, flushTimer>>
     ELSE /\ queued' = Append(queued, key)
          /\ flushTimer' = IF flushTimer = "none" THEN "soon" ELSE flushTimer
  /\ UNCHANGED <<cached, inFlight, requests, fails>>

Batch == SubSeq(queued, 1, IF Len(queued) < Limit THEN Len(queued) ELSE Limit)

\* Mutant: what the batch had no room for waits for the next line.
NoneLeft(rest) == "none"

TimerFor(rest) == IF rest = <<>> THEN "none" ELSE "soon"

Flush ==
  /\ flushTimer # "none"
  /\ LET rest == SubSeq(queued, Len(Batch) + 1, Len(queued)) IN queued' = rest /\ flushTimer' = TimerFor(rest)
  /\ inFlight' = inFlight \union ToSet(Batch) /\ requests' = requests \union {Batch}
  /\ UNCHANGED <<cached, asked, fails>>

Answered(batch) ==
  /\ requests' = requests \ {batch} /\ cached' = cached \union ToSet(batch)
  /\ inFlight' = inFlight \ ToSet(batch)
  /\ UNCHANGED <<queued, flushTimer, asked, fails>>

\* Mutant: a line that couldn't be read waits to be drawn again.
Dropped(batch) == queued

Requeued(batch) == queued \o batch

\* It couldn't be reached, or answered something else.  The one timer is the
\* retry's then, for what was queued meanwhile too.
Failed(batch) ==
  /\ fails < MaxFails /\ fails' = fails + 1
  /\ requests' = requests \ {batch} /\ inFlight' = inFlight \ ToSet(batch)
  /\ queued' = Requeued(batch) /\ flushTimer' = "retry"
  /\ UNCHANGED <<cached, asked>>

FuriganaInit ==
  /\ cached = {} /\ queued = <<>> /\ inFlight = {} /\ flushTimer = "none"
  /\ requests = {} /\ asked = {} /\ fails = 0

FuriganaNext ==
  \/ \E key \in Lines : Draw(key)
  \/ Flush
  \/ \E batch \in requests : Answered(batch) \/ Failed(batch)

FuriganaSpec == FuriganaInit /\ [][FuriganaNext]_furiganaVars

(***************************************************************************)
(* What a word shows: its written text, its reading over it or instead of  *)
(* it, its romaji beneath or instead.  A segment's reading and a word's    *)
(* romaji are "" where there is none.                                      *)
(***************************************************************************)
Written(segments) == [i \in DOMAIN segments |-> segments[i].base]
Read(segments) == [i \in DOMAIN segments |-> IF segments[i].reading # "" THEN segments[i].reading ELSE segments[i].base]
Bare(texts) == [i \in DOMAIN texts |-> [base |-> texts[i], reading |-> ""]]

\* Mutant: with neither furigana nor romaji, a word without kanji is blank.
ScriptOnly(script) == script.kanji

ShowsWritten(script) == script.kanji \/ ~(script.furigana \/ script.romaji)

\* displayWord: the texts of its segments are joined when it has no readings to place.
DisplayWord(segments, romaji, script) ==
  LET under == IF script.romaji THEN romaji ELSE "" IN
  IF ShowsWritten(script)
    THEN [main |-> IF script.furigana THEN segments ELSE Bare(Written(segments)), romaji |-> under]
  ELSE IF script.furigana THEN [main |-> Bare(Read(segments)), romaji |-> under]
  ELSE [main |-> Bare(IF romaji # "" THEN <<romaji>> ELSE Written(segments)), romaji |-> ""]

(***************************************************************************)
(* Properties                                                              *)
(***************************************************************************)
FuriganaTypes ==
  /\ cached \subseteq Lines /\ ToSet(queued) \subseteq Lines /\ inFlight \subseteq Lines
  /\ flushTimer \in {"none", "soon", "retry"}

\* A line that was drawn is read, with the backend, or queued with a timer to
\* send it: nothing draws it again.  And it is in one request only.
ReadingsRight ==
  /\ asked = cached \union ToSet(queued) \union inFlight
  /\ (queued # <<>> <=> flushTimer # "none")
  /\ Len(queued) = Cardinality(ToSet(queued)) /\ ToSet(queued) \intersect (cached \union inFlight) = {}
  /\ inFlight = UNION {ToSet(batch) : batch \in requests}
  /\ \A one, other \in requests : one # other => ToSet(one) \intersect ToSet(other) = {}
  /\ inFlight \intersect cached = {}

\* A word shows what the user chose as far as it has it, once, and is never blank:
\* its kanji if chosen or nothing else is, otherwise its reading or its romaji.
WordShown(segments, romaji, script) ==
  LET shown == DisplayWord(segments, romaji, script)
      texts == {shown.main[i].base : i \in DOMAIN shown.main} \union {shown.main[i].reading : i \in DOMAIN shown.main}
      kanji == {segments[i].base : i \in {j \in DOMAIN segments : segments[j].reading # ""}}
      readings == {segments[i].reading : i \in DOMAIN segments} \ {""}
      nothing == ~script.kanji /\ ~script.furigana /\ ~script.romaji IN
  /\ texts \ {""} # {}
  /\ script.kanji \/ nothing => kanji \subseteq texts
  /\ script.furigana => readings \subseteq texts /\ (~script.kanji => kanji \intersect texts = {})
  /\ romaji # "" => (script.romaji <=> romaji = shown.romaji \/ romaji \in texts)

Segments == {[base |-> "kanji", reading |-> "kana"], [base |-> "okurigana", reading |-> ""]}
Scripts == [kanji : BOOLEAN, furigana : BOOLEAN, romaji : BOOLEAN]

WordsRight ==
  \A segments \in SeqOf(Segments, 2) \ {<<>>}, romaji \in {"", "romaji"}, script \in Scripts :
    WordShown(segments, romaji, script)
=============================================================================
