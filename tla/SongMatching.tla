---------------------------- MODULE SongMatching ----------------------------
(***************************************************************************)
(* Which song is it: frontend/src/lyrics/auto_lyrics.ts (is this result    *)
(* the song?), song_identity/identify_song.ts (what song does a video's    *)
(* title name?) and the arithmetic of skip_segments/sponsorblock.ts (which *)
(* part of the video is music?).                                           *)
(*                                                                         *)
(* Words are what normalizeTokens() leaves; Sim(v, w) is the bigrams' Dice *)
(* in percent, and Holds(v, w) that v is inside w.  Times are seconds.     *)
(***************************************************************************)
EXTENDS Integers, Sequences, FiniteSets, SequencesExt

CONSTANTS Sim(_, _), Holds(_, _),
          Gluable,     \* the words of a script that is written without spaces
          Short        \* the phrases that are too short to be looked for as one word

(***************************************************************************)
(* wordLevelSimilarity(), phrasesContained().  `used` are indices of pool. *)
(***************************************************************************)
NoIndex == 0
Free(pool, used) == DOMAIN pool \ used

\* The most similar unused word, the last of them; NoIndex below the threshold of 70%.
takeBestMatch(word, pool, used) ==
  LET alike == {j \in Free(pool, used) : Sim(word, pool[j]) >= 70}
      best  == {j \in alike : \A k \in alike : Sim(word, pool[k]) <= Sim(word, pool[j])}
  IN  IF best = {} THEN NoIndex ELSE CHOOSE j \in best : \A k \in best : k <= j

takeContaining(part, pool, used) ==
  LET within == {j \in Free(pool, used) : Holds(part, pool[j])}
  IN  IF within = {} THEN NoIndex ELSE CHOOSE j \in within : \A k \in within : j <= k

\* Each word of a takes one of b.
Matched(a, b) ==
  FoldLeft(LAMBDA used, w : LET j == takeBestMatch(w, b, used) IN IF j = NoIndex THEN used ELSE used \union {j},
           {}, a)

\* Percent: 2 * matched / (|a| + |b|).
wordLevelSimilarity(a, b) ==
  IF a = <<>> \/ b = <<>> THEN 0 ELSE (200 * Cardinality(Matched(a, b))) \div (Len(a) + Len(b))

\* One phrase: [ok, used], with `glued` the phrase written as one word.
takePhrase(words, glued, pool, used) ==
  LET step(acc, w) ==
        LET best == takeBestMatch(w, pool, acc.used)
            j    == IF best # NoIndex \/ w \notin Gluable THEN best ELSE takeContaining(w, pool, acc.used)
        IN  IF ~acc.ok \/ j = NoIndex THEN [acc EXCEPT !.ok = FALSE] ELSE [acc EXCEPT !.used = @ \union {j}]
      byWord == FoldLeft(step, [ok |-> words # <<>>, used |-> used], words)
      whole  == takeContaining(glued, pool, used)
  IN  CASE byWord.ok                        -> byWord
        [] ~byWord.ok /\ words # <<>> /\ glued \notin Short /\ whole # NoIndex ->
             [ok |-> TRUE, used |-> used \union {whole}]
        [] OTHER                            -> [ok |-> FALSE, used |-> used]

\* phrases: pairs of words and their glued form.
phrasesContained(phrases, pool) ==
  FoldLeft(LAMBDA acc, p : IF acc.ok THEN takePhrase(p[1], p[2], pool, acc.used) ELSE acc,
           [ok |-> TRUE, used |-> {}], phrases).ok

(***************************************************************************)
(* pickConfidentMatch(): the first of the best of what qualifies.          *)
(***************************************************************************)
Distance(x, y) == IF x > y THEN x - y ELSE y - x

Qualifies(m, length, slack) ==
  m.synced /\ m.length # 0 /\ Distance(m.length, length) <= 2 + slack /\ m.sim >= 60

\* Mutant: the sung language counts only between equals.
isBetterMatchByLength(a, b, length) ==
  LET da == Distance(a.length, length)  db == Distance(b.length, length) IN
    IF da # db THEN da < db ELSE IF a.native # b.native THEN a.native ELSE a.sim > b.sim

isBetterMatch(a, b, length) ==
  LET da == Distance(a.length, length)  db == Distance(b.length, length) IN
    IF a.native # b.native THEN a.native ELSE IF da # db THEN da < db ELSE a.sim > b.sim

\* <<>> or <<the match>>; a song of unknown length (0) has none.
pickConfidentMatch(matches, length, slack) ==
  IF length <= 0 THEN <<>>
  ELSE FoldLeft(LAMBDA best, m : IF Qualifies(m, length, slack) /\ (best = <<>> \/ isBetterMatch(m, best[1], length))
                                   THEN <<m>> ELSE best,
                <<>>, matches)

(***************************************************************************)
(* identifySong(): queries, at most max of them, most specific first;      *)
(* Japanese text asks the Japanese shop, then the other.                   *)
(***************************************************************************)
attempts(queries, japanese, max) ==
  LET first(n) == SubSeq(queries, 1, IF n < Len(queries) THEN n ELSE Len(queries))
      asked(qs, shop) == [i \in DOMAIN qs |-> <<qs[i], shop>>]
  IN  CASE queries = <<>>              -> <<>>
        [] queries # <<>> /\ ~japanese -> asked(first(max), "us")
        [] OTHER ->
             LET all == asked(first(IF max = 1 THEN 1 ELSE max - 1), "jp") \o << <<queries[1], "us">> >>
             IN  SubSeq(all, 1, IF max < Len(all) THEN max ELSE Len(all))

\* cleanStreamingTitle(): trailing parts that only describe the video go, but
\* not a last one that may be the title ("Madonna - Music").
cleanedSegments(segs, junk, titleLike) ==
  LET drops(n) == n > 1 /\ segs[n] \in junk /\ ~(n = 2 /\ segs[n] \in titleLike)
      last == CHOOSE n \in DOMAIN segs : ~drops(n) /\ \A k \in (n + 1)..Len(segs) : drops(k)
  IN  SubSeq(segs, 1, last)

(***************************************************************************)
(* The non-music spans, merged, in time order; segments are [from, to,     *)
(* music (whether of another category), video (0: length unknown)].        *)
(***************************************************************************)
applicableSegments(segs, length) ==
  IF length <= 0 THEN <<>> ELSE SelectSeq(segs, LAMBDA s : s.video = 0 \/ Distance(s.video, length) <= 2)

nonMusicSpans(segs, length) ==
  LET add(spans, s) ==
        LET end == IF s.to < length THEN s.to ELSE length
            n   == Len(spans)
        IN  CASE s.music                              -> spans
              [] ~s.music /\ n > 0 /\ s.from <= spans[n].to ->
                   [spans EXCEPT ![n].to = IF @ < end THEN end ELSE @]
              [] ~s.music /\ ~(n > 0 /\ s.from <= spans[n].to) ->
                   IF end > s.from THEN Append(spans, [from |-> s.from, to |-> end]) ELSE spans
  IN  FoldLeft(add, <<>>, SortSeq(applicableSegments(segs, length), LAMBDA a, b : a.from < b.from))

musicDurationSec(segs, length) ==
  length - FoldLeft(LAMBDA sum, s : sum + s.to - s.from, 0, nonMusicSpans(segs, length))

\* Each edge inside the video may be 4 seconds out.
musicDurationSlackSec(segs, length) ==
  LET edges == FoldLeft(LAMBDA es, s : es \o <<s.from, s.to>>, <<>>, nonMusicSpans(segs, length)) IN
    4 * Len(SelectSeq(edges, LAMBDA t : t > 0 /\ t < length))

musicStartSec(segs, length) ==
  LET spans == nonMusicSpans(segs, length) IN IF spans # <<>> /\ spans[1].from = 0 THEN spans[1].to ELSE 0

alignmentStartSec(segs, length) ==
  LET start == musicStartSec(segs, length) IN IF start > 4 THEN start - 4 ELSE 0

(***************************************************************************)
(* Properties.                                                             *)
(***************************************************************************)

\* Whether each of a can have a word of b of its own, related by R.
Injects(a, b, R(_, _)) ==
  \E f \in [DOMAIN a -> DOMAIN b] :
    /\ \A i, j \in DOMAIN a : i # j => f[i] # f[j]
    /\ \A i \in DOMAIN a : R(a[i], b[f[i]])

\* Word order, and words that only look alike, don't keep a text from being
\* like itself; nothing scores over 100%; and what is found phrase by phrase
\* could be pointed at, no word of the haystack twice (auto_lyrics.ts:178).
SimilarityRight(a, b) ==
  /\ wordLevelSimilarity(a, b) \in 0..100
  /\ (a # <<>> /\ Len(a) = Len(b) /\ Injects(a, b, LAMBDA v, w : v = w)) => wordLevelSimilarity(a, b) = 100

PhrasesRight(p, q, glued, pool) ==
  phrasesContained(<< <<p, glued>>, <<q, glued>> >>, pool) =>
    LET Found(v, w) == Sim(v, w) >= 70 \/ Holds(v, w) IN
      \E x \in {p, <<glued>>}, y \in {q, <<glued>>} :
        /\ \A z \in {x, y} : Len(z) > 0
        /\ Injects(x \o y, pool, Found)

\* The match kept qualifies, is in the sung language if any is, and no other
\* of its kind is nearer in length (auto_lyrics.ts:44, :49).
PickRight(matches, length, slack) ==
  LET kept == pickConfidentMatch(matches, length, slack)
      good == {m \in ToSet(matches) : Qualifies(m, length, slack)}
  IN  IF length <= 0 \/ good = {} THEN kept = <<>>
      ELSE /\ kept # <<>> /\ kept[1] \in good
           /\ (\E m \in good : m.native) => kept[1].native
           /\ \A m \in good : m.native = kept[1].native
                => Distance(kept[1].length, length) <= Distance(m.length, length)

\* Never more queries than allowed; the most specific one is asked first, and
\* of Japanese text in both shops when two are allowed (identify_song.ts:73).
AttemptsRight(queries, japanese, max) ==
  LET asked == attempts(queries, japanese, max) IN
    /\ Len(asked) <= max /\ (queries # <<>> => asked # <<>> /\ asked[1][1] = queries[1])
    /\ (queries # <<>> /\ japanese /\ max > 1) => {<<queries[1], "jp">>, <<queries[1], "us">>} \subseteq ToSet(asked)

\* Something is left of a title, and what was kept ends with what may be one.
TitleRight(segs, junk, titleLike) ==
  LET kept == cleanedSegments(segs, junk, titleLike) IN
    /\ kept # <<>> /\ IsPrefix(kept, segs)
    /\ Len(kept) > 2 => Last(kept) \notin junk

\* The music's length is the number of seconds no segment covers; it begins
\* after every second of an intro, and words may not start after it does.
SpansRight(segs, length) ==
  LET cut == {t \in 0..(length - 1) :
                \E i \in DOMAIN segs : /\ ~segs[i].music /\ segs[i].from <= t /\ t < segs[i].to
                                       /\ segs[i].video = 0 \/ Distance(segs[i].video, length) <= 2}
      start == musicStartSec(segs, length)
  IN  length > 0 =>
        /\ musicDurationSec(segs, length) = length - Cardinality(cut)
        /\ 0..(start - 1) \subseteq cut /\ start \notin cut
        /\ alignmentStartSec(segs, length) <= start
        /\ musicDurationSlackSec(segs, length) \in {4 * k : k \in 0..(2 * Len(segs))}
=============================================================================
