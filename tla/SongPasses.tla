----------------------------- MODULE SongPasses -----------------------------
(***************************************************************************)
(* The passes over a song's PCM, which is read and measured a stretch at a *)
(* time: the waveform's pyramid of peaks and its drawing (waveform_compute *)
(* .ts), and the song's loudness (loudness.ts), each of which is to be     *)
(* what the whole song at once would give.                                 *)
(*                                                                         *)
(* A channel is a sequence of whole samples.  Of two channels, a fold to   *)
(* mono is kept as their sum, twice the mean.                              *)
(***************************************************************************)
EXTENDS Integers, Sequences, FiniteSets, FiniteSetsExt, SequencesExt

CONSTANTS
  Base, MaxBlocks,         \* PYRAMID_BASE, MAX_LEVEL0_BLOCKS
  AmpSamples, Floor,       \* AMP_SAMPLES, SILENCE_FLOOR
  Target,                  \* UNIFORM_WAVEFORM_TARGET, as Floor and the samples are
  HopFrames, HopsPerBlock, \* a hop's frames; HOPS_PER_BLOCK
  AbsoluteGate,            \* the energy of a frame at ABSOLUTE_GATE_LUFS
  Weigh(_, _), Keep(_, _)  \* the K-weighting filters: their output and next state

Upper(a, b) == IF a < b THEN b ELSE a
Lower(a, b) == IF a < b THEN a ELSE b
Abs(n)      == IF n < 0 THEN -n ELSE n
CeilDiv(a, b) == (a + b - 1) \div b
MedianOf(s) == SortSeq(s, <)[(Len(s) \div 2) + 1]

Fold(channels) == [s \in DOMAIN channels[1] |-> FoldLeft(LAMBDA a, c : a + c[s], 0, channels)]

------------------------------- (* peaks *) -------------------------------
\* The blocks widen with the song's length.
BlockFrames(length) ==
  LET widen[k \in 0..length] == IF k = 0 THEN Base ELSE 2 * widen[k - 1]
  IN widen[Min({k \in 0..length : length <= MaxBlocks * widen[k]})]

AmpStride(length) == Upper(1, length \div AmpSamples)

MinMax(samples, from, to) ==
  LET S == {samples[s] : s \in from..to} IN IF S = {} THEN [min |-> 0, max |-> 0] ELSE [min |-> Min(S), max |-> Max(S)]

FillBlocks(samples, width) ==
  [b \in 1..CeilDiv(Len(samples), width) |-> MinMax(samples, (b - 1) * width + 1, Lower(Len(samples), b * width))]

\* Mutant: each stretch's first sample is taken.
FirstAmpAnew(seen, stride) == 0

\* The stride goes on over the stretches.
FirstAmp(seen, stride) == (stride - (seen % stride)) % stride

Amps(samples, seen, stride) ==
  LET first == FirstAmp(seen, stride)
      taken == SelectSeq([s \in DOMAIN samples |-> s], LAMBDA s : s > first /\ (s - 1 - first) % stride = 0)
  IN SelectSeq([k \in DOMAIN taken |-> Abs(samples[taken[k]])], LAMBDA v : v > Floor)

Builder == [blocks |-> <<>>, mags |-> <<>>, seen |-> 0]

AddPeaks(b, length, channels) ==
  LET mono == Fold(channels) IN
  [blocks |-> b.blocks \o FillBlocks(mono, BlockFrames(length)),
   mags   |-> b.mags \o Amps(mono, b.seen, AmpStride(length)),
   seen   |-> b.seen + Len(mono)]

\* Two blocks make one of the level above; an odd last one is its own.
Halved(blocks) ==
  [i \in 1..CeilDiv(Len(blocks), 2) |->
    LET two == SubSeq(blocks, 2 * i - 1, Lower(2 * i, Len(blocks)))
    IN [min |-> Min({t.min : t \in ToSet(two)}), max |-> Max({t.max : t \in ToSet(two)})]]

BuildLevels(blocks, width) ==
  LET upto[k \in 0..Len(blocks)] ==
        IF k = 0 THEN <<[blocks |-> blocks, size |-> width]>>
        ELSE LET below == upto[k - 1] IN
             IF Len(Last(below).blocks) = 1 THEN below
             ELSE Append(below, [blocks |-> Halved(Last(below).blocks), size |-> 2 * Last(below).size])
  IN upto[Len(blocks)]

\* A quarter to 25 times, in hundredths.
AmpScale(mags) ==
  IF mags = <<>> THEN 100 ELSE Upper(25, Lower(2500, (100 * Target) \div MedianOf(mags)))

Finish(b, length) ==
  [levels |-> BuildLevels(b.blocks, BlockFrames(length)), length |-> length, scale |-> AmpScale(b.mags)]

\* Mutant: the first level that is wider than a pixel.
ChooseWider(levels, samples, px) ==
  LET wider == {k \in DOMAIN levels : levels[k].size * px > samples} IN IF wider = {} THEN Len(levels) ELSE Min(wider)

\* The widest blocks no wider than a pixel, of `samples` samples over `px` pixels.
ChooseLevel(levels, samples, px) == Max({1} \union {k \in DOMAIN levels : levels[k].size * px <= samples})

\* Over the samples s0 to s1, from 0 and without s1: whole blocks.
QueryLevel(level, s0, s1) ==
  IF s1 <= s0 THEN [min |-> 0, max |-> 0]
  ELSE LET read == {level.blocks[b] : b \in ((s0 \div level.size) + 1)..Lower(Len(level.blocks), ((s1 - 1) \div level.size) + 1)}
       IN IF read = {} THEN [min |-> 0, max |-> 0]
          ELSE [min |-> Min({r.min : r \in read}), max |-> Max({r.max : r \in read})]

\* A bar: its first pixel and how many, its first sample and how many (with its
\* drift); the lead-in is taken off already.  Pixel p's samples, rounded outwards.
PixelFrom(bar, p) == Upper(0, bar.start + (((p - bar.x) * bar.samples) \div bar.width))
PixelTo(bar, p, length) == Lower(length, bar.start + CeilDiv((p + 1 - bar.x) * bar.samples, bar.width))

BarAt(bars, p) == {k \in DOMAIN bars : bars[k].x <= p /\ p < bars[k].x + bars[k].width}

ComputeWaveformPeaks(data, bars, px) ==
  [p \in 0..(px - 1) |->
    IF BarAt(bars, p) = {} THEN [min |-> 0, max |-> 0]
    ELSE LET bar == bars[Max(BarAt(bars, p))]
             lvl == data.levels[ChooseLevel(data.levels, Upper(bar.width, bar.samples), bar.width)]
         IN QueryLevel(lvl, PixelFrom(bar, p), PixelTo(bar, p, data.length))]

------------------------------ (* loudness *) ------------------------------
Channel == [state |-> 0, hop |-> 1, fill |-> 0, energy |-> 0]
Meter   == [left |-> Channel, right |-> Channel, energies |-> <<>>, peak |-> 0]

Added(energies, hop, energy) ==
  IF hop <= Len(energies) THEN [energies EXCEPT ![hop] = @ + energy] ELSE Append(energies, energy)

\* Mutant: a stretch starts with a hop of its own.
HopAnew(c) == [c EXCEPT !.fill = 0, !.energy = 0]

\* A hop goes on from one stretch to the next.
HopKept(c) == c

\* One channel's stretch: its energy, hop by hop, into the list both share.
ChannelAdd(c, energies, samples) ==
  FoldLeft(LAMBDA a, x :
      LET y    == Weigh(a.c.state, x)
          full == a.c.fill + 1 = HopFrames
          sum  == a.c.energy + y * y
      IN [c |-> [state |-> Keep(a.c.state, x), hop |-> IF full THEN a.c.hop + 1 ELSE a.c.hop,
                 fill |-> IF full THEN 0 ELSE a.c.fill + 1, energy |-> IF full THEN 0 ELSE sum],
          energies |-> IF full THEN Added(a.energies, a.c.hop, sum) ELSE a.energies],
    [c |-> HopKept(c), energies |-> energies], samples)

\* The tracks' sums; a mono track plays out of both speakers, and one without
\* channels out of neither.
Side(tracks, side) ==
  LET on == SelectSeq(tracks, LAMBDA t : t # <<>>)
      n  == Max({0} \union {Len(t[1]) : t \in ToSet(on)})
      Of(t) == IF side \in DOMAIN t THEN t[side] ELSE t[1]
  IN [i \in 1..n |-> FoldLeft(LAMBDA a, t : a + (IF i \in DOMAIN Of(t) THEN Of(t)[i] ELSE 0), 0, on)]

PeakOf(samples) == Max({0} \union {Abs(x) : x \in ToSet(samples)})

AddLoudness(m, tracks) ==
  LET l == ChannelAdd(m.left, m.energies, Side(tracks, 1))
      r == ChannelAdd(m.right, l.energies, Side(tracks, 2))
  IN [left |-> l.c, right |-> r.c, energies |-> r.energies,
      peak |-> Max({m.peak, PeakOf(Side(tracks, 1)), PeakOf(Side(tracks, 2))})]

SumOf(s) == FoldLeft(LAMBDA a, b : a + b, 0, s)

\* Blocks under the absolute gate, and then those 10 LU under the others' mean,
\* a tenth of its energy, don't count.
Gated(blocks) ==
  LET audible == SelectSeq(blocks, LAMBDA e : e > AbsoluteGate * HopsPerBlock * HopFrames)
  IN SelectSeq(audible, LAMBDA e : 10 * e * Len(audible) > SumOf(audible))

\* The energy of HopsPerBlock hops on end, from each hop on.
Blocks(energies) ==
  [i \in 1..Upper(0, Len(energies) - HopsPerBlock + 1) |-> SumOf(SubSeq(energies, i, i + HopsPerBlock - 1))]

\* What of the song counts; none of silence.
Loud(m) == Gated(Blocks(m.energies))

(***************************************************************************)
(* Properties.                                                             *)
(***************************************************************************)

\* A song's peaks and loudness are the same however it is cut into stretches
\* (of whole blocks, but for the last).
PeaksOfStretches(left, right, cut) ==
  LET n     == Len(left)
      at    == Lower(n, cut * BlockFrames(n))
      whole == AddPeaks(Builder, n, <<left, right>>)
      two   == AddPeaks(AddPeaks(Builder, n, <<SubSeq(left, 1, at), SubSeq(right, 1, at)>>), n,
                        <<SubSeq(left, at + 1, n), SubSeq(right, at + 1, n)>>)
  IN /\ two = whole
     /\ Len(whole.blocks) <= MaxBlocks

LoudnessOfStretches(left, right, cut) ==
  LET n     == Len(left)
      at    == Lower(n, cut)
      whole == AddLoudness(Meter, <<<<left, right>>>>)
      two   == AddLoudness(AddLoudness(Meter, <<<<SubSeq(left, 1, at), SubSeq(right, 1, at)>>>>),
                           <<<<SubSeq(left, at + 1, n), SubSeq(right, at + 1, n)>>>>)
  IN two = whole

\* What is drawn at a pixel takes in all of its samples, and no more than a
\* block either side; so every sample of a bar is drawn somewhere in it.
PeaksDrawn(samples, bars, px) ==
  LET n     == Len(samples)
      data  == Finish(AddPeaks(Builder, n, <<samples>>), n)
      drawn == ComputeWaveformPeaks(data, bars, px)
  IN /\ \A p \in 0..(px - 1) : BarAt(bars, p) # {} =>
          LET bar   == bars[Max(BarAt(bars, p))]
              block == Upper(BlockFrames(n), bar.samples \div bar.width)
              s0    == PixelFrom(bar, p)
              s1    == PixelTo(bar, p, n)
              near  == MinMax(samples, Upper(1, s0 + 2 - block), Lower(n, s1 + block - 1))
          IN s0 < s1 => /\ drawn[p].min <= MinMax(samples, s0 + 1, s1).min /\ MinMax(samples, s0 + 1, s1).max <= drawn[p].max
                        /\ near.min <= drawn[p].min /\ drawn[p].max <= near.max
     /\ \A k \in DOMAIN bars : \A s \in (bars[k].start + 1)..Lower(n, bars[k].start + bars[k].samples) :
          \E p \in bars[k].x..(bars[k].x + bars[k].width - 1) : p < px /\ drawn[p].min <= samples[s] /\ samples[s] <= drawn[p].max

\* Silence before or after a song doesn't change how loud it is, as long as the
\* hops stay as they were.
SilenceDoesntCount(samples, hops) ==
  LET pause == [i \in 1..(hops * HopFrames) |-> 0]
      song  == Loud(AddLoudness(Meter, <<<<samples>>>>))
      later == Loud(AddLoudness(Meter, <<<<pause \o samples>>>>))
  IN song # <<>> /\ hops >= HopsPerBlock => Max(ToSet(later)) = Max(ToSet(song)) /\ 0 \notin ToSet(later)
=============================================================================
