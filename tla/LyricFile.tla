----------------------------- MODULE LyricFile -----------------------------
(***************************************************************************)
(* Lyrics as a file: word-timed lines written as enhanced LRC, with a tag  *)
(* before and after each word, and read back, also from tools that write   *)
(* only the tag before (lyrics/enhanced_lrc.ts), and the plain LRC lines   *)
(* of lyrics/lrc.ts.                                                       *)
(*                                                                         *)
(* A text is a sequence of characters, of which those with a meaning in    *)
(* the format are themselves and a stamp's digits are one, "t0" and up;    *)
(* the fullwidth bar and double angle brackets of a reading are |, { and   *)
(* } here, and "#" is any noise.  Times are whole milliseconds.  A file's  *)
(* line is [stamps, body].                                                 *)
(***************************************************************************)
EXTENDS Integers, Sequences, FiniteSets, SequencesExt

CONSTANTS
  StampChars,  \* the stamps, in order from 0
  EpsilonMs    \* EPSILON_SEC

None == "none"  \* no reading

StampOf(ms) == StampChars[(IF ms < 0 THEN 0 ELSE ms) + 1]
MsOf(c)     == (CHOOSE i \in DOMAIN StampChars : StampChars[i] = c) - 1
IsStamp(c)  == c \in ToSet(StampChars)

\* The text without blanks at its ends, and with runs of them as one.
Trim(t) ==
  LET solid == {i \in DOMAIN t : t[i] # " "}
  IN IF solid = {} THEN <<>> ELSE SubSeq(t, CHOOSE i \in solid : \A j \in solid : i <= j, CHOOSE i \in solid : \A j \in solid : j <= i)

OneBlank(t) ==
  LET kept == SelectSeq([i \in DOMAIN t |-> i], LAMBDA i : i = 1 \/ t[i] # " " \/ t[i - 1] # " ")
  IN Trim([k \in DOMAIN kept |-> t[kept[k]]])

StripNoise(t) == OneBlank([i \in DOMAIN t |-> IF t[i] = "#" THEN " " ELSE t[i]])

------------------------------- (* writing *) -------------------------------
Special == {"\\", "<", ">", "|", "{", "}"}

EscapeWordText(t) == FlattenSeq([i \in DOMAIN t |-> IF t[i] \in Special THEN <<"\\", t[i]>> ELSE <<t[i]>>])

EncodeWord(w) ==
  IF w.reading = None THEN EscapeWordText(w.text)
  ELSE <<"|">> \o EscapeWordText(w.text) \o <<"{", w.reading, "}">>

FirstAt(text, word, cursor) ==
  LET S == {at \in (cursor + 1)..(Len(text) - Len(word) + 1) : SubSeq(text, at, at + Len(word) - 1) = word}
  IN IF S = {} THEN 0 ELSE CHOOSE at \in S : \A b \in S : at <= b

\* Whether there is a space before each word in the line's own text; yes, for
\* a word that isn't in it.
Spaced(text, words) ==
  LET cursor[k \in 0..Len(words)] ==
        IF k = 0 THEN 0
        ELSE LET at == FirstAt(text, words[k].text, cursor[k - 1])
             IN IF at = 0 THEN cursor[k - 1] ELSE at + Len(words[k].text) - 1
  IN [k \in DOMAIN words |->
       LET at == FirstAt(text, words[k].text, cursor[k - 1])
       IN at = 0 \/ \E i \in (cursor[k - 1] + 1)..(at - 1) : text[i] = " "]

Tag(ms) == <<"<", StampOf(ms), ">">>

SerializeLine(line) ==
  LET spaced == Spaced(line.text, line.words) IN
  [stamps |-> <<StampOf(line.start)>>,
   body   |-> IF line.words = <<>> THEN line.text
              ELSE FlattenSeq([k \in DOMAIN line.words |->
                     (IF k > 1 /\ spaced[k] THEN <<" ">> ELSE <<>>)
                     \o Tag(line.words[k].start) \o EncodeWord(line.words[k]) \o Tag(line.words[k].end)])]

Serialize(lines, offset) == [offset |-> offset, lines |-> [i \in DOMAIN lines |-> SerializeLine(lines[i])]]

------------------------------- (* reading *) -------------------------------
IsTagAt(b, i) == i + 2 <= Len(b) /\ b[i] = "<" /\ IsStamp(b[i + 1]) /\ b[i + 2] = ">"

EscapesAt(b, i) == b[i] = "\\" /\ i < Len(b)

\* The characters from i up to the next of `ends` that isn't escaped: what they
\* say, and where they end.
RunFrom(b, start, ends) ==
  LET run[i \in start..(Len(b) + 1)] ==
        IF i > Len(b) THEN [to |-> i, value |-> <<>>]
        ELSE IF EscapesAt(b, i) THEN LET r == run[i + 2] IN [r EXCEPT !.value = <<b[i + 1]>> \o @]
        ELSE IF b[i] \in ends THEN [to |-> i, value |-> <<>>]
        ELSE LET r == run[i + 1] IN [r EXCEPT !.value = <<b[i]>> \o @]
  IN run[start]

\* A reading, one character of it, after the text it is the reading of.
RubyAt(b, i) ==
  LET base == RunFrom(b, i + 1, {"<", "{", "}"}) IN
  /\ b[i] = "|" /\ base.value # <<>> /\ base.to + 2 <= Len(b)
  /\ b[base.to] = "{" /\ b[base.to + 1] \notin Special /\ b[base.to + 2] = "}"

Text(value, reading) == [kind |-> "text", ms |-> 0, value |-> value, reading |-> reading]

Tokens(b) ==
  LET from[i \in 1..(Len(b) + 1)] ==
        IF i > Len(b) THEN <<>>
        ELSE IF IsTagAt(b, i) THEN <<[kind |-> "tag", ms |-> MsOf(b[i + 1]), value |-> <<>>, reading |-> None]>> \o from[i + 3]
        ELSE IF RubyAt(b, i)
          THEN LET base == RunFrom(b, i + 1, {"<", "{", "}"})
                   rest == RunFrom(b, base.to + 3, {"<"})
               IN <<Text(base.value \o rest.value, b[base.to + 1])>> \o from[rest.to]
        ELSE IF b[i] = "<" THEN <<Text(<<"<">>, None)>> \o from[i + 1]
        ELSE LET run == RunFrom(b, i, {"<"}) IN <<Text(run.value, None)>> \o from[run.to]
  IN from[1]

Is(tokens, j, kind) == j \in DOMAIN tokens /\ tokens[j].kind = kind

\* Mutant: the tag after a word is always taken for its end.
TakesEndAlways(tokens, j) == TRUE

\* A tag right before text is the next word's start.
TakesEnd(tokens, j) == ~(Is(tokens, j + 1, "text") /\ Trim(tokens[j + 1].value) # <<>>)

NoEnd == -1

Partials(tokens) ==
  LET from[j \in 1..(Len(tokens) + 3)] ==
        IF j > Len(tokens) THEN <<>>
        ELSE IF tokens[j].kind # "tag" THEN from[j + 1]
        ELSE LET said == Is(tokens, j + 1, "text")
                 k    == IF said THEN j + 2 ELSE j + 1
                 word == [start   |-> tokens[j].ms,
                          end     |-> IF Is(tokens, k, "tag") THEN tokens[k].ms ELSE NoEnd,
                          text    |-> IF said THEN Trim(tokens[j + 1].value) ELSE <<>>,
                          reading |-> IF said THEN tokens[j + 1].reading ELSE None]
                 rest == from[IF Is(tokens, k, "tag") /\ TakesEnd(tokens, k) THEN k + 1 ELSE k]
             IN (IF word.text = <<>> THEN <<>> ELSE <<word>>) \o rest
  IN from[1]

Healed(partials, k) ==
  LET w    == partials[k]
      next == IF k < Len(partials) THEN partials[k + 1].start ELSE NoEnd
  IN IF w.end > w.start THEN w.end ELSE IF next > w.start THEN next ELSE w.start + EpsilonMs

ParseWords(tokens) ==
  LET partials == Partials(tokens) IN [k \in DOMAIN partials |-> [partials[k] EXCEPT !.end = Healed(partials, k)]]

HasTag(b) == \E i \in DOMAIN b : IsTagAt(b, i)

\* Words, if it has any; else one plain line per stamp, unless it is all noise.
ParseLine(raw) ==
  LET tokens == Tokens(raw.body)
      words  == ParseWords(tokens)
      said   == FlattenSeq([j \in DOMAIN tokens |-> tokens[j].value])
      text   == StripNoise(raw.body)
  IN IF raw.stamps = <<>> THEN <<>>
     ELSE IF HasTag(raw.body) /\ words # <<>> THEN <<[start |-> MsOf(raw.stamps[1]), text |-> OneBlank(said), words |-> words]>>
     ELSE IF text = <<>> /\ Trim(raw.body) # <<>> THEN <<>>
     ELSE [s \in DOMAIN raw.stamps |-> [start |-> MsOf(raw.stamps[s]), text |-> text, words |-> <<>>]]

\* Array.sort is stable: lines of one time keep the file's order.
ByStart(lines) ==
  LET order == SortSeq([i \in DOMAIN lines |-> i],
                 LAMBDA i, j : lines[i].start < lines[j].start \/ (lines[i].start = lines[j].start /\ i < j))
  IN [i \in DOMAIN lines |-> lines[order[i]]]

Parse(file) == [offset |-> file.offset, lines |-> ByStart(FlattenSeq([i \in DOMAIN file.lines |-> ParseLine(file.lines[i])]))]

------------------------------- (* shifting *) -------------------------------
Shift(lines, by) ==
  [i \in DOMAIN lines |->
    [lines[i] EXCEPT !.start = @ + by,
                     !.words = [k \in DOMAIN @ |-> [@[k] EXCEPT !.start = @ + by, !.end = @ + by]]]]

\* Mutant: a line's words aren't looked at.
EarliestOfLines(lines, offset) ==
  LET at == {offset} \union {lines[i].start : i \in DOMAIN lines} IN CHOOSE t \in at : \A u \in at : t <= u

Earliest(lines, offset) ==
  LET at == {offset} \union UNION {{lines[i].start} \union {w.start : w \in ToSet(lines[i].words)} : i \in DOMAIN lines}
  IN CHOOSE t \in at : \A u \in at : t <= u

Rebase(lines, offset) == [lines |-> Shift(lines, -Earliest(lines, offset)), offset |-> Earliest(lines, offset)]

(***************************************************************************)
(* Properties, of what a file's lines are read back as (back).             *)
(***************************************************************************)

\* A word-timed line comes back as it was written, whatever is in its words:
\* their texts, readings and times, and the spaces between them.
RoundTrip(line, back) ==
  /\ Len(back) = 1
  /\ back[1].words = line.words
  /\ back[1].start = line.start
  /\ back[1].text = line.text

\* A line with only a tag before each word: a word lasts until the next one
\* begins, if that is later, else a moment; none is lost, none is empty.
StartsOnly(starts, back) ==
  /\ Len(back) = Len(starts)
  /\ \A k \in DOMAIN back :
       /\ back[k].start = starts[k]
       /\ back[k].end = IF k < Len(starts) /\ starts[k + 1] > starts[k] THEN starts[k + 1] ELSE starts[k] + EpsilonMs

\* However a file's line is made up, what is read of it is in order of time and
\* no word ends before it starts.
AnyLine(back) ==
  /\ \A i \in DOMAIN back : i > 1 => back[i - 1].start <= back[i].start
  /\ \A i \in DOMAIN back : \A w \in ToSet(back[i].words) : w.end > w.start /\ w.text # <<>>

\* Lines of a song whose file has another start come back at the same times of
\* the audio, though the file can't have times before its own.
Rebased(lines, back) == Shift(back.lines, back.offset) = lines
=============================================================================
