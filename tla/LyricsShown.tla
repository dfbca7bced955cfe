---------------------------- MODULE LyricsShown ----------------------------
(***************************************************************************)
(* Which lyric line the karaoke overlay shows when, in which of its two    *)
(* slots, which word it lights, the dots that count a line in, and how a   *)
(* line too wide for the screen is split (lyrics/lrc.ts, karaoke/          *)
(* karaoke_lyrics.ts and the getters of karaoke_lyrics_overlay.tsx).       *)
(*                                                                         *)
(* A line is [start, text, words]; a word is [start, end, text]; a text is *)
(* a sequence of pieces.  Times are whole units, offsets are folded into   *)
(* the time asked for, and widths are whole half ems.                      *)
(***************************************************************************)
EXTENDS Integers, Sequences, FiniteSets, FiniteSetsExt, SequencesExt

CONSTANTS
  LineLeadIn, LineHold, LyricGap,  \* LINE_LEAD_IN_SEC, LINE_HOLD_SEC, LYRIC_GAP_SEC
  LastLine                         \* the 4 s that a last line without words takes

None == 0  \* undefined, of an index

IsBlank(line) == line.text = <<>> /\ line.words = <<>>

Upto(S, i) == {j \in S : j <= i}
Vocal(lines) == {i \in DOMAIN lines : ~IsBlank(lines[i])}
Greatest(S) == IF S = {} THEN None ELSE Max(S)
Least(S)    == IF S = {} THEN None ELSE Min(S)

\* Mutant: a blank stamp inside the line before it is picked too.
ActivePicksBlanks(lines, t) == Greatest({i \in DOMAIN lines : \A j \in 1..i : lines[j].start <= t})

\* The scan stops at the first line that is yet to start.
ActiveLine(lines, t) == Greatest({i \in Vocal(lines) : \A j \in 1..i : lines[j].start <= t})

ActiveWord(line, t) == Greatest({k \in DOMAIN line.words : \A j \in 1..k : line.words[j].start <= t})

Span(lines, i) ==
  LET ws == lines[i].words IN
  IF ws # <<>> THEN [start |-> Min({w.start : w \in ToSet(ws)}), end |-> Max({w.end : w \in ToSet(ws)})]
  ELSE [start |-> lines[i].start, end |-> IF i < Len(lines) THEN lines[i + 1].start ELSE lines[i].start + LastLine]

NextVocal(lines, i) == Least({j \in Vocal(lines) : j > i})

GapBetween(lines, i, j) == Span(lines, j).start - Span(lines, i).end

Following(lines, i) ==
  LET next == NextVocal(lines, i) IN
  IF next # None /\ GapBetween(lines, i, next) <= LyricGap THEN next ELSE None

\* Mutant: blank lines before it count as a gap.
FollowsGapBlank(lines, i) == i = 1 \/ Following(lines, i - 1) # i

FollowsGap(lines, i) ==
  LET last == Greatest({j \in Vocal(lines) : j < i}) IN last = None \/ Following(lines, last) # i

OrdinalSinceGap(lines, i) ==
  Cardinality({j \in Vocal(lines) : j < i /\ \A k \in Vocal(lines) : (j < k /\ k <= i) => ~FollowsGap(lines, k)})

HeldUntil(lines, i) == Span(lines, i).end + LineHold

\* lead[i]: how long before its first word line i is up, if nothing holds the place.
ShownLine(lines, t, lead) ==
  LET active == ActiveLine(lines, t)
      next   == NextVocal(lines, active)
      due    == next # None /\ Span(lines, next).start - t <= lead[next]
  IN IF active # None /\ t < HeldUntil(lines, active) THEN active
     ELSE IF due THEN next
     ELSE IF active # None /\ Following(lines, active) # None THEN active ELSE None

\* The two-line mode: [top, bottom], the line after the shown one in the other slot.
Slots(lines, shown) ==
  LET next == IF shown = None THEN None ELSE Following(lines, shown)
  IN IF shown # None /\ OrdinalSinceGap(lines, shown) % 2 = 0 THEN [top |-> shown, bottom |-> next]
     ELSE [top |-> next, bottom |-> shown]

\* Mutant: a word stays lit when it has ended.
WordStateNeverEnds(k, active, ended) ==
  IF active = None \/ k > active THEN "upcoming" ELSE IF k < active THEN "sung" ELSE "current"

WordState(k, active, ended) ==
  IF active = None \/ k > active THEN "upcoming"
  ELSE IF k < active \/ ended THEN "sung" ELSE "current"

\* What the overlay lights in line i at t: words of a line that isn't active are upcoming.
WordsAt(lines, i, t) ==
  LET line   == lines[i]
      isOn   == ActiveLine(lines, t) = i
      active == IF isOn THEN ActiveWord(line, t) ELSE None
      ended  == active # None /\ t >= line.words[active].end
  IN [k \in DOMAIN line.words |-> WordState(k, active, ended)]

------------------------------ (* count-in *) ------------------------------
Abs(n) == IF n < 0 THEN -n ELSE n

NearestBeat(beats, at) ==
  CHOOSE i \in DOMAIN beats : \A j \in DOMAIN beats :
    /\ Abs(beats[i] - at) <= Abs(beats[j] - at)
    /\ j < i => Abs(beats[i] - at) < Abs(beats[j] - at)

\* Mutant: the interval at the line's beat alone, a dropped beat's included.
LocalBeatHere(beats, i, perBar) == IF i < Len(beats) THEN beats[i + 1] - beats[i] ELSE beats[i] - beats[i - 1]

\* The upper median of the intervals within a bar either side.
LocalBeat(beats, i, perBar) ==
  LET from == Max({1, i - perBar})
      to   == Min({Len(beats), i + perBar})
      gaps == SortSeq([k \in 1..(to - from) |-> beats[from + k] - beats[from + k - 1]], <)
  IN gaps[(Len(gaps) \div 2) + 1]

CountInBeat(beats, start, perBar) ==
  LET i    == NearestBeat(beats, start)
      step == LocalBeat(beats, i, perBar)
  IN [step |-> step, on |-> IF 2 * Abs(beats[i] - start) <= step THEN beats[i] ELSE start]

CountInTimes(beats, start, perBar) ==
  LET b == CountInBeat(beats, start, perBar) IN [i \in 1..(perBar - 1) |-> b.on - (perBar - 1 - i) * b.step]

CountInLeadIn(beats, start, perBar) ==
  LET b == CountInBeat(beats, start, perBar) IN start - b.on + (perBar - 1) * b.step

\* Only lines after a gap are counted in; the others have the default lead-in.
LeadIns(lines, beats, perBar) ==
  [i \in DOMAIN lines |-> IF beats # <<>> /\ FollowsGap(lines, i) /\ perBar > 1
                          THEN CountInLeadIn(beats, Span(lines, i).start, perBar) ELSE LineLeadIn]

----------------------------- (* line segments *) -----------------------------
FoundAt(text, word, cursor) ==
  Least({at \in (cursor + 1)..(Len(text) - Len(word) + 1) : SubSeq(text, at, at + Len(word) - 1) = word})

Run(text, k) == IF text = <<>> THEN <<>> ELSE <<[text |-> text, word |-> k]>>

\* What comes before word k in the text is the word's before it; before the first, its own.
OwnerOfGap(k) == Max({1, k - 1})

\* The runs of the words found, one after the other, until one isn't.
Scan(text, words) == FoldLeft(
  LAMBDA s, w : LET at == FoundAt(text, w.text, s.cursor) IN
    IF s.lost \/ at = None THEN [s EXCEPT !.lost = TRUE]
    ELSE [lost |-> FALSE, k |-> s.k + 1, cursor |-> at + Len(w.text) - 1,
          out  |-> s.out \o Run(SubSeq(text, s.cursor + 1, at - 1), OwnerOfGap(s.k)) \o Run(w.text, s.k)],
  [lost |-> FALSE, k |-> 1, cursor |-> 0, out |-> <<>>], words)

Joined(words) ==
  FlattenSeq([k \in DOMAIN words |-> (IF k > 1 THEN Run(<<" ">>, k - 1) ELSE <<>>) \o Run(words[k].text, k)])

Segments(line) ==
  LET s == Scan(line.text, line.words) IN
  IF line.words = <<>> THEN <<[text |-> line.text, word |-> 1]>>
  ELSE IF s.lost THEN Joined(line.words)
  ELSE s.out \o Run(SubSeq(line.text, s.cursor + 1, Len(line.text)), Len(line.words))

------------------------------ (* long lines *) ------------------------------
(* A line to split: upto[k + 1] is the width of its first k words without  *)
(* the spaces; for each inner boundary whether the line may break there    *)
(* and the bonus for it, in tenths; max and above, LineSplitLimits.  The   *)
(* space at a break is trimmed from the parts.                             *)
Width(l, from, to) == l.upto[to + 1] - l.upto[from + 1] + (to - from - 1) * l.space

Words(l) == Len(l.upto) - 1
Total(l) == Width(l, 0, Words(l))
Breaks(l) == <<0>> \o SelectSeq([k \in 1..(Words(l) - 1) |-> k], LAMBDA k : l.may[k]) \o <<Words(l)>>
Bonus(l, at) == IF at \in {0, Words(l)} THEN 0 ELSE l.bonus[at]
Over(l, from, to) == Max({0, Width(l, from, to) - l.max})

\* OVERFLOW_COST_PER_EM, the squared distance from the ideal width and the bonus of
\* the break it starts at, all times 10 * total^2, so that it is whole.
PartCost(l, parts, from, to) ==
  LET em == Width(l, from, to) * parts - Total(l) IN
  500 * Over(l, from, to) * Total(l) * Total(l) + 10 * em * em - Bonus(l, from) * Total(l) * Total(l)

INFTY == 100000000

\* One row per number of parts: the cheapest way to end the last at break j, and
\* the break that part starts at.
NextRow(l, parts, row) ==
  LET b == Breaks(l)
      Ways(j)    == {i \in 1..(j - 1) : row[i].cost # INFTY}
      From(i, j) == row[i].cost + PartCost(l, parts, b[i], b[j])
  IN [j \in DOMAIN b |->
       IF Ways(j) = {} THEN [cost |-> INFTY, prev |-> 1]
       ELSE LET least == Min({From(i, j) : i \in Ways(j)})
            IN [cost |-> least, prev |-> Min({i \in Ways(j) : From(i, j) = least})]]

\* The word boundaries that make `parts` parts the cheapest, first to last.
CheapestPlan(l, parts) ==
  LET b    == Breaks(l)
      row0 == [j \in DOMAIN b |-> [cost |-> IF j = 1 THEN 0 ELSE INFTY, prev |-> 1]]
      rowsTo[p \in 0..parts] ==
        IF p = 0 THEN <<row0>> ELSE LET rs == rowsTo[p - 1] IN Append(rs, NextRow(l, parts, Last(rs)))
      rows == rowsTo[parts]
      from[p \in 0..parts] ==
        IF p = parts THEN <<Len(b)>> ELSE LET js == from[p + 1] IN <<rows[p + 2][js[1]].prev>> \o js
      back == from[0]
  IN [p \in DOMAIN back |-> b[back[p]]]

Overflow(l, plan) ==
  LET sum[p \in 1..Len(plan)] == IF p = 1 THEN 0 ELSE sum[p - 1] + Over(l, plan[p - 1], plan[p]) IN sum[Len(plan)]

CeilDiv(a, b) == (a + b - 1) \div b
FewestParts(l) == Min({Max({2, CeilDiv(Total(l), l.max)}), Len(Breaks(l)) - 1})

\* More parts as long as each one less overflows more.
PartsTaken(l, most) ==
  LET left(n)  == Overflow(l, CheapestPlan(l, n))
      Stops(n) == left(n) = 0 \/ n = most \/ left(n + 1) >= left(n)
  IN Min({n \in FewestParts(l)..most : Stops(n)})

\* The word boundaries a line is split at, its ends included.
SplitAt(l) ==
  LET most == Len(Breaks(l)) - 1 IN
  IF Words(l) < 2 \/ Total(l) <= l.above \/ most < 2 THEN <<0, Words(l)>>
  ELSE CheapestPlan(l, PartsTaken(l, most))

(***************************************************************************)
(* Properties.                                                             *)
(***************************************************************************)
Rank(state) == CASE state = "upcoming" -> 0 [] state = "current" -> 1 [] state = "sung" -> 2

\* The overlay over a stretch of time: the line shown at each t of it.
ShownOver(lines, lead, times) == [t \in times |-> ShownLine(lines, t, lead)]

Later(times, t) == {s \in times : s > t}

\* As the song plays the overlay never goes back to a line, no line goes away
\* and comes back, and in two-line mode each keeps its slot from "next" to "sung".
LinesInOrder(lines, shown) ==
  LET times == DOMAIN shown
      slots == [t \in times |-> Slots(lines, shown[t])]
  IN \A t \in times : t + 1 \in times =>
       /\ shown[t] # None /\ shown[t + 1] # shown[t] => \A s \in Later(times, t) : shown[s] = None \/ shown[s] > shown[t]
       /\ slots[t].top # None => slots[t].top # slots[t + 1].bottom
       /\ slots[t].bottom # None => slots[t].bottom # slots[t + 1].top

\* The word being sung is up and lit, be it that a blank stamp fell within its
\* line; none is lit twice, or lit or sung before its time.
WordsInOrder(lines, shown) ==
  \A i \in {j \in Vocal(lines) : lines[j].words # <<>>} :
    LET lit == [t \in DOMAIN shown |-> WordsAt(lines, i, t)]
        ws  == lines[i].words
        Begun(k, t) == k \in DOMAIN ws /\ ws[k].start <= t
    IN \A t \in DOMAIN shown, k \in DOMAIN ws :
         /\ lit[t][k] # "upcoming" => Begun(k, t)
         /\ lit[t][k] = "sung" => ws[k].end <= t \/ Begun(k + 1, t)
         /\ lit[t][k] = "current" => t < ws[k].end
         /\ lines[i].start <= t /\ (\A j \in Vocal(lines) : j > i => lines[j].start > t)
            /\ Begun(k, t) /\ t < ws[k].end /\ ~Begun(k + 1, t) => shown[t] = i /\ lit[t][k] = "current"
         /\ t + 1 \in DOMAIN shown /\ shown[t] = i /\ shown[t + 1] = i => Rank(lit[t][k]) <= Rank(lit[t + 1][k])

\* Through a gap nothing is up: not before a lead-in, not after the hold.
BlankInGaps(lines, lead, shown) ==
  \A t \in DOMAIN shown : shown[t] # None =>
    /\ Span(lines, shown[t]).start - t <= lead[shown[t]] \/ lines[shown[t]].start <= t
    /\ t >= Span(lines, shown[t]).end + LineHold => Following(lines, shown[t]) # None

\* A line after a gap of vocals is counted in: it is up before its first dot goes out, whenever the line
\* before it, held to its end, leaves room; from then on it stays up, the dots
\* go out one a step, the last within half a step of the first word.
CountedIn(lines, beats, perBar, shown) ==
  \A i \in Vocal(lines) :
    LET at    == Span(lines, i).start
        dots  == CountInTimes(beats, at, perBar)
        ups   == {t \in DOMAIN shown : shown[t] = i}
        last  == Greatest({j \in Vocal(lines) : j < i})
        free  == IF last = None THEN Min(DOMAIN shown) ELSE Span(lines, last).end + LineHold
    IN (last = None \/ GapBetween(lines, last, i) > LyricGap) /\ beats # <<>> /\ perBar > 1 =>
       /\ \A d \in DOMAIN dots : d > 1 => dots[d] > dots[d - 1]
       /\ 2 * Abs(Last(dots) - at) <= CountInBeat(beats, at, perBar).step
       /\ free < dots[1] /\ lines[i].start <= at =>
            /\ \E t \in ups : t < dots[1]
            /\ \A t \in DOMAIN shown : Min(ups) <= t /\ t < at => t \in ups

\* A beat the tracker dropped or made up doesn't change the pace, with at least
\* half a bar of others around it, and the dots go out on the beats there are.
PaceHolds(beats, step, at, perBar) ==
  LET i == NearestBeat(beats, at) IN
  Min({Len(beats), i + perBar}) - Max({1, i - perBar}) >= 4 =>
    /\ CountInBeat(beats, at, perBar).step = step
    /\ \A d \in ToSet(CountInTimes(beats, at, perBar)) :
         CountInBeat(beats, at, perBar).on # at => (d - beats[i]) % step = 0

\* The runs are the line, each word's its own, if the words are in it in order;
\* else they are the words, with a space between each two.
SegmentsRight(line) ==
  LET runs == Segments(line)
      said == FlattenSeq([k \in DOMAIN runs |-> runs[k].text])
      ws   == line.words
      In   == \E at \in [DOMAIN ws -> DOMAIN line.text] : \A k \in DOMAIN ws :
                /\ at[k] + Len(ws[k].text) - 1 <= Len(line.text)
                /\ SubSeq(line.text, at[k], at[k] + Len(ws[k].text) - 1) = ws[k].text
                /\ k > 1 => at[k - 1] + Len(ws[k - 1].text) <= at[k]
  IN /\ In => said = line.text
     /\ ~In => said = FlattenSeq([k \in DOMAIN ws |-> (IF k > 1 THEN <<" ">> ELSE <<>>) \o ws[k].text])
     /\ \A r \in 1..(Len(runs) - 1) : runs[r].word <= runs[r + 1].word
     /\ \A k \in DOMAIN ws : \E r \in DOMAIN runs : runs[r] = [text |-> ws[k].text, word |-> k]

\* A line is split only where it may break, into the fewest parts that fit (of
\* those the whole width asks for), and as cheaply as that many parts can be;
\* if none fit, more parts wouldn't overflow less.  at: SplitAt(l).
SplitRight(l, at) ==
  LET parts   == Len(at) - 1
      inner   == ToSet(Breaks(l)) \ {0, Words(l)}
      Plans(n) == {SelectSeq(Breaks(l), LAMBDA k : k \in S \/ k \in {0, Words(l)}) :
                     S \in {T \in SUBSET inner : Cardinality(T) = n - 1}}
      Cost(p) == LET sum[k \in 1..Len(p)] == IF k = 1 THEN 0 ELSE sum[k - 1] + PartCost(l, Len(p) - 1, p[k - 1], p[k])
                 IN sum[Len(p)]
      Fits(n) == \E p \in Plans(n) : Overflow(l, p) = 0
  IN parts > 1 =>
       /\ at \in Plans(parts)
       /\ \A p \in Plans(parts) : Overflow(l, at) <= Overflow(l, p) /\ Cost(at) <= Cost(p)
       /\ \A n \in 2..(Cardinality(inner) + 1) : Fits(n) =>
            Overflow(l, at) = 0 /\ (n >= FewestParts(l) => parts <= n)
       /\ parts <= Max({2, CeilDiv(Total(l), l.max)}) \/ ~Fits(parts - 1)
=============================================================================
