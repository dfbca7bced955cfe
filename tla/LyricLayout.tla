---------------------------- MODULE LyricLayout ----------------------------
(***************************************************************************)
(* What a lyrics row shows of its words: their pitch, from the vocal       *)
(* stem's contour cut to the word and split into the notes held in it      *)
(* (lyrics/pitch_contour.ts); each line's and word's place in time and on  *)
(* the pitch band (editing/lyrics/lyric_layout.ts, audioSecToBeat of       *)
(* lyrics/store.ts); and where their text then fits without running into   *)
(* what follows (editing/lyrics/lyrics_measure.ts).                        *)
(*                                                                         *)
(* A contour has a pitch, or None, per frame, numbered from 0 and FrameMs  *)
(* long; its pitches are whole hundredths of a semitone.  A line is        *)
(* [start, text, words]; a word is [start, end, width, midi, notes] and a  *)
(* note [start, end, midi].  A beat is a second, as in karaoke; times are  *)
(* whole units of MIN_BEAT_WIDTH or longer.                                *)
(***************************************************************************)
EXTENDS Integers, Sequences, FiniteSets, FiniteSetsExt, SequencesExt

CONSTANTS
  Duration,               \* of the song: the timeline's one bar
  MinBeatWidth,           \* MIN_BEAT_WIDTH, also of a line
  Pad, MinSpan,           \* PITCH_PAD_SEMITONES, PITCH_MIN_SPAN_SEMITONES
  Px,                     \* pxPerBeat
  MinGap, Space, Ellipsis, MinSustain, \* MIN_GAP_PX, a space, "...", MIN_SUSTAIN_PX
  FrameMs,
  Smooth, MinNote, MinVoiced,  \* SMOOTH_MS and MIN_NOTE_SEC in frames; MIN_VOICED
  MinVib, VibPercent           \* VIB_MIN_SEC in frames; VIB_MIN_FRAC

None == -100000  \* undefined, null, and what an unvoiced frame counts as

----------------------------- (* their pitch *) -----------------------------
Clamp(x, lo, hi) == IF x < lo THEN lo ELSE IF x > hi THEN hi ELSE x
CeilDiv(a, b) == (a + b - 1) \div b

Sorted(s) == SortSeq(s, <)

\* Of an even number, the mean of the middle two.
Median(s) ==
  LET m == Len(s) \div 2 IN
  IF Len(s) % 2 = 1 THEN Sorted(s)[m + 1] ELSE (Sorted(s)[m] + Sorted(s)[m + 1]) \div 2

\* The k frames around each, the ones past the edges as the edge.
MedianFilter(pitches, k) ==
  [i \in DOMAIN pitches |->
    Sorted([j \in 1..k |-> pitches[Clamp(i - k \div 2 + j - 1, 1, Len(pitches))]])[(k \div 2) + 1]]

Rounded(p) == (p + 50) \div 100

\* Mutant: a note goes on through frames that aren't voiced.
JoinsAny(midi, quant, i) == quant[i] = quant[i - 1]

\* Whether frame i goes on with the note that frame i - 1 is in.
Joins(midi, quant, i) == midi[i] # None /\ midi[i - 1] # None /\ quant[i] = quant[i - 1]

\* The notes held long enough: the first and the last frame of each, its pitch.
SegmentNotes(midi) ==
  LET quant == [i \in DOMAIN midi |-> Rounded(MedianFilter(midi, Smooth)[i])]
      starts == SelectSeq([i \in DOMAIN midi |-> i], LAMBDA i : midi[i] # None /\ (i = 1 \/ ~Joins(midi, quant, i)))
      EndOf(i) == Max({j \in i..Len(midi) : \A k \in (i + 1)..j : Joins(midi, quant, k)})
      held  == SelectSeq(starts, LAMBDA i : EndOf(i) - i + 1 >= MinNote)
  IN [n \in DOMAIN held |-> [from |-> held[n], to |-> EndOf(held[n]), midi |-> Median(SubSeq(midi, held[n], EndOf(held[n])))]]

\* A note has vibrato if enough of its frames have, in time and in share.
HasVibrato(vib, from, to) ==
  LET n == Cardinality({k \in from..to : vib[k] # None})
  IN n >= MinVib /\ 100 * n >= VibPercent * (to - from + 1)

WordStart(contour, startMs) == Clamp(CeilDiv(startMs, FrameMs), 0, Len(contour.midi))
WordEnd(contour, endMs)     == Clamp((endMs \div FrameMs) + 1, 0, Len(contour.midi))

\* A word's pitch, None with too few voiced frames, and its notes in ms.
PitchOf(contour, startMs, endMs) ==
  LET lo     == WordStart(contour, startMs)
      hi     == WordEnd(contour, endMs)
      midi   == SubSeq(contour.midi, lo + 1, hi)
      voiced == SelectSeq(midi, LAMBDA v : v # None)
      notes  == SegmentNotes(midi)
  IN IF hi <= lo \/ Len(voiced) < MinVoiced THEN [midi |-> None, notes |-> <<>>]
     ELSE [midi  |-> Median(voiced),
           notes |-> [n \in DOMAIN notes |->
              [start |-> (lo + notes[n].from - 1) * FrameMs, end |-> (lo + notes[n].to - 1) * FrameMs, midi |-> notes[n].midi,
               vibrato |-> HasVibrato(contour.vib, lo + notes[n].from, lo + notes[n].to)]]]

AttachPitch(contour, words) == [k \in DOMAIN words |-> PitchOf(contour, words[k].start, words[k].end)]

------------------------------- (* in time *) -------------------------------
Upper(a, b) == IF a < b THEN b ELSE a
Lower(a, b) == IF a < b THEN a ELSE b

AudioToBeat(t) == IF t < 0 \/ t >= Duration THEN None ELSE t

\* A cell's end; one that is off the row, or no later, leaves it the least width.
CellEnd(start, end) == IF end # None /\ end > start THEN end ELSE start + MinBeatWidth

Pitches(lines) == UNION {{w.midi : w \in ToSet(lines[i].words)} : i \in DOMAIN lines} \ {None}

\* The band: the pitches there are with some room, and never less than an octave.
\* Both ends twice over, since the middle of an odd range is a half.
PitchRange(lines) ==
  LET lo == Min(Pitches(lines)) - Pad
      hi == Max(Pitches(lines)) + Pad
  IN IF hi - lo < MinSpan THEN [lo |-> lo + hi - MinSpan, hi |-> lo + hi + MinSpan] ELSE [lo |-> 2 * lo, hi |-> 2 * hi]

\* In hundredths of the band.
PitchFrac(midi, range) == Upper(0, Lower(100, (100 * (2 * midi - range.lo)) \div (range.hi - range.lo)))

Notes(word, at, range, offset) ==
  LET shown == SelectSeq(word.notes, LAMBDA n : AudioToBeat(n.start + offset) # None) IN
  [j \in DOMAIN shown |->
    LET sb == AudioToBeat(shown[j].start + offset)
        eb == CellEnd(sb, AudioToBeat(shown[j].end + offset))
    IN [from |-> sb - at, to |-> eb - at, frac |-> PitchFrac(shown[j].midi, range)]]

\* The words of a line that start on the row, each with its index in the line.
InRange(line, offset) ==
  SelectSeq([k \in DOMAIN line.words |-> k], LAMBDA k : AudioToBeat(line.words[k].start + offset) # None)

WordCells(lines, i, offset) ==
  LET line == lines[i] IN
  [j \in DOMAIN InRange(line, offset) |->
    LET k  == InRange(line, offset)[j]
        w  == line.words[k]
        ws == AudioToBeat(w.start + offset)
    IN [sourceIdx |-> k, start |-> ws, end |-> CellEnd(ws, AudioToBeat(w.end + offset)), width |-> w.width,
        frac  |-> IF w.midi = None THEN None ELSE PitchFrac(w.midi, PitchRange(lines)),
        notes |-> IF Pitches(lines) = {} THEN <<>> ELSE Notes(w, ws, PitchRange(lines), offset)]]

\* The end of a line without words: the next line's start that is on the row.
PlainEnd(lines, i, offset) ==
  LET later == {j \in (i + 1)..Len(lines) : AudioToBeat(lines[j].start + offset) # None}
  IN IF later = {} THEN Duration ELSE AudioToBeat(lines[Min(later)].start + offset)

Positioned(lines, i, offset, cells) ==
  LET plain == lines[i].words = <<>>
      start == IF plain THEN AudioToBeat(lines[i].start + offset) ELSE IF cells = <<>> THEN None ELSE cells[1].start
      end   == IF plain THEN PlainEnd(lines, i, offset) ELSE IF cells = <<>> THEN None ELSE Last(cells).end
  IN [i |-> i, start |-> start, end |-> IF end - start < MinBeatWidth THEN start + MinBeatWidth ELSE end, cells |-> cells]

PositionLine(lines, i, offset) == Positioned(lines, i, offset, WordCells(lines, i, offset))

\* Blank lines, and those off the row, have no place.
PositionLyricLines(lines, offset) ==
  LET all == [i \in DOMAIN lines |-> PositionLine(lines, i, offset)]
  IN SelectSeq(all, LAMBDA p : p.start # None /\ ~(lines[p.i].text = <<>> /\ lines[p.i].words = <<>>))

------------------------------ (* on the row *) ------------------------------
\* Mutant: a word gives way to the one before it only if it starts before it.
PackLoose(naturals, widths, gaps) ==
  LET at[i \in DOMAIN naturals] == IF i = 1 THEN naturals[1] ELSE Upper(naturals[i], at[i - 1]) IN at

Packed(naturals, widths, gaps) ==
  LET at[i \in DOMAIN naturals] ==
        IF i = 1 THEN naturals[1] ELSE Upper(naturals[i], at[i - 1] + widths[i - 1] + gaps[i - 1])
  IN at

\* How many of a line's words fit before the limit; never fewer than one.
ShownCount(at, widths, limit) ==
  LET n == Len(widths) IN
  IF n = 0 \/ at[n] + widths[n] <= limit THEN n
  ELSE Max({1} \union {i \in 2..n : at[i] + widths[i] + Ellipsis <= limit})

\* Mutant: the line goes on for its cell, whatever follows.
SustainOfCell(textPx, cellPx, roomPx) ==
  IF cellPx - textPx - MinGap >= MinSustain THEN [from |-> textPx + MinGap, to |-> cellPx] ELSE [from |-> None, to |-> None]

SustainSpan(textPx, cellPx, roomPx) ==
  LET from == textPx + MinGap
      to   == Lower(cellPx, roomPx)
  IN IF to - from >= MinSustain THEN [from |-> from, to |-> to] ELSE [from |-> None, to |-> None]

NoLimit == 1000000

\* joins: between which words of the row there is no space.
PlaceLine(p, limit, joins) ==
  LET cells    == SortSeq(p.cells, LAMBDA c, d : c.start < d.start)
      n        == Len(cells)
      natural  == [k \in 1..n |-> cells[k].start * Px]
      widths   == [k \in 1..n |-> cells[k].width]
      gaps     == [k \in 1..(n - 1) |-> IF joins THEN MinGap ELSE Upper(MinGap, Space)]
      at       == Packed(natural, widths, gaps)
      shown    == ShownCount(at, widths, limit)
  IN [k \in 1..shown |->
       LET textPx == widths[k] + IF k = shown /\ shown < n THEN Ellipsis ELSE 0
           room   == (IF k < shown THEN at[k + 1] - MinGap ELSE limit) - at[k]
       IN [line |-> p.i, word |-> cells[k].sourceIdx, at |-> at[k], natural |-> natural[k], right |-> at[k] + textPx,
           sustain |-> SustainSpan(textPx, (cells[k].end - cells[k].start) * Px, room), last |-> k = shown, all |-> shown = n]]

ByStart(positioned) ==
  LET order == SortSeq([k \in DOMAIN positioned |-> k],
                 LAMBDA a, b : positioned[a].start < positioned[b].start \/ (positioned[a].start = positioned[b].start /\ a < b))
  IN [k \in DOMAIN positioned |-> positioned[order[k]]]

LayoutLyricWords(positioned, joins) ==
  LET rows == ByStart(positioned) IN
  FlattenSeq([k \in DOMAIN rows |->
    PlaceLine(rows[k], IF k < Len(rows) THEN rows[k + 1].start * Px - MinGap ELSE NoLimit, joins)])

------------------------------ (* pitch lines *) ------------------------------
Transition == 6  \* transitionX

RunStart(x0, x1) == Lower(x0 + Transition, (x0 + x1) \div 2)
RunEnd(x0, x1)   == Upper(x1 - Transition, (x0 + x1) \div 2)

\* The held runs of a word's line, in hundredths of its cell; curves join them.
PitchRuns(cell) ==
  LET X(beat) == Upper(0, Lower(100, (100 * beat) \div Upper(1, cell.end - cell.start))) IN
  [j \in DOMAIN cell.notes |->
    LET x0 == X(cell.notes[j].from)
        x1 == X(cell.notes[j].to)
    IN [from |-> RunStart(x0, x1), to |-> RunEnd(x0, x1), y |-> 100 - cell.notes[j].frac]]

(***************************************************************************)
(* Properties, of a word's pitch as PitchOf gives it (p), of where         *)
(* PositionLyricLines puts the lines (row) and LayoutLyricWords their      *)
(* words (out).                                                            *)
(***************************************************************************)

\* A word's notes are within it, in order and apart; each is voiced throughout,
\* and its pitch one that was sung in it.
NotesWithin(contour, startMs, endMs, p) ==
  LET Frames(n) == {(n.start \div FrameMs) + 1 + k : k \in 0..((n.end - n.start) \div FrameMs)}
  IN \A n \in DOMAIN p.notes :
       LET sung == {contour.midi[f] : f \in Frames(p.notes[n])} IN
       /\ startMs <= p.notes[n].start /\ p.notes[n].end <= endMs
       /\ n > 1 => p.notes[n - 1].end < p.notes[n].start
       /\ None \notin sung /\ Min(sung) <= p.notes[n].midi /\ p.notes[n].midi <= Max(sung)
       /\ p.notes[n].vibrato => Cardinality({f \in Frames(p.notes[n]) : contour.vib[f] # None}) >= MinVib

\* A note held all through a word is the word's only one, at its edges as well
\* as in the middle, and a slip of one frame doesn't break it.
HeldIsOneNote(contour, startMs, endMs, pitch, p) ==
  LET frames == {f \in DOMAIN contour.midi : startMs <= (f - 1) * FrameMs /\ (f - 1) * FrameMs <= endMs}
      slips  == {f \in frames : contour.midi[f] # pitch}
  IN Cardinality(frames) >= MinVoiced /\ Cardinality(frames) >= MinNote /\ (\A f \in frames : contour.midi[f] # None)
     /\ (slips = {} \/ (Cardinality(slips) = 1 /\ \A f \in slips : f - 1 \in frames /\ f + 1 \in frames)) =>
       Len(p.notes) = 1 /\ p.notes[1].midi = pitch
       /\ p.notes[1].end - p.notes[1].start = (Cardinality(frames) - 1) * FrameMs

\* Every word that starts on the row has a cell there, of some width, with its
\* own index; a higher pitch is never drawn lower, and none on the band's edge.
CellsRight(lines, offset, row) ==
  LET All == UNION {ToSet(row[r].cells) : r \in DOMAIN row}
  IN /\ \A i \in DOMAIN lines : \A k \in DOMAIN lines[i].words :
          0 <= lines[i].words[k].start + offset /\ lines[i].words[k].start + offset < Duration =>
            \E r \in DOMAIN row : row[r].i = i /\ \E c \in ToSet(row[r].cells) :
              c.sourceIdx = k /\ c.start = lines[i].words[k].start + offset
     /\ \A r \in DOMAIN row : row[r].end - row[r].start >= MinBeatWidth /\ row[r].start >= 0 /\ row[r].start < Duration
     /\ \A c \in All : c.end - c.start >= MinBeatWidth /\ (c.frac # None => 0 < c.frac /\ c.frac < 100)
     /\ \A r, s \in DOMAIN row : \A c \in ToSet(row[r].cells), d \in ToSet(row[s].cells) :
          LET m == lines[row[r].i].words[c.sourceIdx].midi
              n == lines[row[s].i].words[d.sourceIdx].midi
          IN m # None /\ n # None /\ m < n => c.frac < d.frac
     /\ \A c \in All : \A n \in ToSet(c.notes) : n.frac \in 0..100 /\ n.to > n.from

\* No word's text, ellipsis or held line runs into the next word, or into the
\* next line, unless a line has room for not even its first word; none moves
\* ahead of its time; and words are cut only if the line doesn't fit.
NothingOverlaps(row, out) ==
  /\ \A w \in DOMAIN out : out[w].natural <= out[w].at
  /\ \A w \in 1..(Len(out) - 1) :
       /\ out[w].line = out[w + 1].line => out[w].right + MinGap <= out[w + 1].at
       /\ out[w].line # out[w + 1].line /\ (w > 1 /\ out[w - 1].line = out[w].line) => out[w].right + MinGap <= out[w + 1].natural
       /\ out[w].sustain.to # None => /\ out[w].right < out[w].at + out[w].sustain.from
                                      /\ out[w].at + out[w].sustain.to < out[w + 1].at
  /\ \A r \in DOMAIN row : row[r].cells # <<>> => \E w \in DOMAIN out : out[w].line = row[r].i /\ out[w].word = row[r].cells[1].sourceIdx

\* A word's pitch line goes from left to right, as its being cropped takes for
\* granted, if its notes follow each other.
LineGoesRight(row) ==
  \A p \in ToSet(row) : \A c \in ToSet(p.cells) :
    LET runs == PitchRuns(c) IN
    /\ \A j \in DOMAIN runs : runs[j].from <= runs[j].to /\ runs[j].y \in 0..100
    /\ \A j \in DOMAIN runs : j > 1 /\ c.notes[j - 1].to <= c.notes[j].from => runs[j - 1].to <= runs[j].from
=============================================================================
