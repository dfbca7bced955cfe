------------------------------- MODULE MCPage -------------------------------
(***************************************************************************)
(* The page with its bounds, its other parts, some of the parts a side at  *)
(* a time, and the algorithms' inputs with what is to hold of each.        *)
(***************************************************************************)
EXTENDS Page, RemotePart, SequencesExt

VARIABLE input  \* what an algorithm is given, or which side of a part is looked at

\* Two notes of the same pitch, the second one's grace within the song.
MCNotes == <<[start |-> 1, end |-> 3, midi |-> 60], [start |-> 4, end |-> 6, midi |-> 60]>>

MCStems    == <<"a", "b">>
MCServices == <<"s1", "s2">>
MCTyped    == {-1, 2, 5}

\* c is in a, which is in the load menu, as b is.
MCParentOf == [s \in {"a", "b", "c"} |-> IF s = "c" THEN "a" ELSE "load"]

\* 1.2.0.1 and 1.3.0 and its beta are newer, and 1.10; 2.0 isn't out; 1.1.9 is older.
Release(v, out) == [version |-> v, published |-> out]
MCFeed ==
  {Release(<<1, 2>>, TRUE), Release(<<1, 2, 0, 1>>, TRUE), Release(<<1, 3, 0>>, TRUE), Release(<<1, 3, 0, -1>>, TRUE),
   Release(<<1, 10>>, TRUE), Release(<<2, 0>>, FALSE), Release(<<1, 1, 9>>, TRUE)}
MCVersion == <<1, 2>>

(***************************************************************************)
(* The other parts.                                                        *)
(***************************************************************************)
VARIABLES v21, v22  \* more places

Web == INSTANCE WebOutput WITH engine <- v1, starts <- v2, suspended <- v3, speed <- v4, audible <-
             v5, playing <- v6, pos <- v7, slots <- v8, pool <- v9, made <- v10, failed <- v11,
             orphans <- v12, deaf <- v13, Stems <- MCStems, Speeds <- {1, 2}, Targets <- {0, 4},
             Duration <- 7, MaxMade <- 2, MaxStarts <- 1, Pad <- 1, Lead <- 2

Pcm == INSTANCE PcmStream WITH consumer <- v1, gen <- v2, playing <- v3, pos <- v4, chunks <- v5,
             win <- v6, dropped <- v7, trims <- v8, up <- v9, down <- v10, room <- v11, next <- v12,
             wgen <- v13, reading <- v14, closed <- v15, Frames <- 6, Window <- 4, MaxGen <- 2,
             Preroll <- 1, KeepBehind <- 1, MinLead <- 2, Hasty <- FALSE

Fx == INSTANCE TrackEffects WITH effects <- v1, slot <- v2, slots <- v3, load <- v4, waiters <- v5,
             missed <- v6, nodes <- v7, ending <- v8, Tracks <- {"a", "b"}, Masks <- {0, 1},
             MaxSlots <- 3, MaxNodes <- 3

Waves == INSTANCE Waveforms WITH loaded <- v1, mounted <- v2, releasing <- v3, asked <- v4, timer <-
             v5, mounts <- v6, alive <- v7, owned <- v8, wire <- v9, attached <- v10, waiting <-
             v11, shown <- v12, peaks <- v13, build <- v14, Tiles <- {1, 2}, MaxDraws <- 2, MaxWire
             <- 2, MaxMounts <- 3

Prov == INSTANCE Provisioning WITH state <- v1, watches <- v2, watch <- v3, debounce <- v4, toast <-
             v5, toastState <- v6, errorToast <- v7, downloading <- v8, toasts <- v9, nextId <- v10,
             backend <- v11, restarts <- v12, local <- v13, closed <- v14, presses <- v15, successes
             <- v16, MaxWatches <- 3, MaxToasts <- 3, MaxRestarts <- 1

Music == INSTANCE MusicPanel WITH searchQuery <- v1, phase <- v2, results <- v3, selectedId <- v4,
             searches <- v5, searchRequestId <- v6, queued <- v7, services <- v8, config <- v9,
             loaded <- v10, calls <- v11, writes <- v12, overlapped <- v13, lost <- v14, session <-
             v15, busy <- v16, signed <- v17, order <- v18, meant <- v19, Queries <- {"a", "b"},
             MaxSearches <- 3, Services <- MCServices, Account <- "s1", MaxCalls <- 2, MaxWrites <-
             3

Shell == INSTANCE AppShell WITH store <- v1, saved <- v2, works <- v3, writer <- v4, typed <- v5,
             setup <- v6, error <- v7, version <- v8, newer <- v9, checking <- v10, install <- v11,
             problem <- v12, checks <- v13, begun <- v14, fetching <- v15, installing <- v16,
             Windows <- {1, 2}, MinSize <- 1, MaxSize <- 3, DefaultSize <- 2, Modes <- {"page",
             "line"}, DefaultMode <- "page", Feed <- MCFeed, Current <- MCVersion, MaxChecks <- 5

Words == INSTANCE LyricsPanel WITH open <- v1, song <- v2, fields <- v3, phase <- v4, matches <- v5,
             selected <- v6, wordLevel <- v7, requestId <- v8, searches <- v9, cache <- v10, since
             <- v11, picked <- v12, audio <- v13, rows <- v14, aligns <- v15, controllers <- v16,
             statuses <- v17, lines <- v18, offset <- v19, Songs <- {"a", "b"}, MaxSearches <- 2,
             MaxIds <- 2, Rows <- {1, 2}, MaxAligns <- 2, Offsets <- {0, 1}

Controls == INSTANCE Controls WITH shown <- v1, pending <- v2, callbacks <- v3, closers <- v4,
             timers <- v5, latest <- v6, stack <- v7, focus <- v8, before <- v9, strayed <- v10,
             opened <- v11, value <- v12, text <- v13, editing <- v14, eachKey <- v15, meddled <-
             v16, Dropdowns <- {"load", "view"}, Submenus <- {"a", "b", "c"}, ParentOf <-
             MCParentOf, Modals <- {"m1", "m2"}, AutoFocused <- {"m2"}, MaxOpened <- 5, Low <- 0,
             High <- 3, Typed <- MCTyped

Ruby == INSTANCE Furigana WITH cached <- v1, queued <- v2, inFlight <- v3, flushTimer <- v4,
             requests <- v5, asked <- v6, fails <- v7, Lines <- {"a", "b", "c", "d"}, Limit <- 2,
             MaxFails <- 2

Stream == INSTANCE NativeStream WITH frame <- v1, playing <- v2, rate <- v3, swap <- v4, swaps <-
             v5, cmd <- v6, others <- v7, track <- v8, inMix <- v9, stopped <- v10, token <- v11,
             window <- v12, pc <- v13, want <- v14, seen <- v15, first <- v16, opened <- v17, source
             <- v18, fails <- v19, jumped <- v20, opening <- v21, reverted <- v22, Ahead <- 1,
             Behind <- 1, Seconds <- 2, Targets <- {0, 3}, MaxFrame <- 4, MaxSwaps <- 2, MaxFails <-
             1

MoreUnused(n) ==
  /\ IF n < 21 THEN v21 = 0 ELSE TRUE
  /\ IF n < 22 THEN v22 = 0 ELSE TRUE

MoreUntouched(n) ==
  /\ IF n < 21 THEN UNCHANGED v21 ELSE TRUE
  /\ IF n < 22 THEN UNCHANGED v22 ELSE TRUE

OthersInit ==
  \/ part = "algorithms" /\ Unused(0) /\ MoreUnused(0)
  \/ part = "remote" /\ Remote!RemoteInit /\ Unused(20) /\ MoreUnused(20)
  \/ part = "web" /\ Web!WebInit /\ Unused(13) /\ MoreUnused(13)
  \/ part = "pcm" /\ Pcm!PcmInit /\ Unused(15) /\ MoreUnused(15)
  \/ part = "effects" /\ Fx!FxInit /\ Unused(8) /\ MoreUnused(8)
  \/ part = "waveform" /\ Waves!WaveInit /\ Unused(14) /\ MoreUnused(14)
  \/ part = "provisioning" /\ Prov!ProvInit /\ Unused(16) /\ MoreUnused(16)
  \/ part = "music" /\ Music!PanelInit /\ Unused(19) /\ MoreUnused(19)
  \/ part = "shell" /\ Shell!ShellInit /\ Unused(16) /\ MoreUnused(16)
  \/ part = "lyrics" /\ Words!LyricsInit /\ Unused(19) /\ MoreUnused(19)
  \/ part = "controls" /\ Controls!ControlInit /\ Unused(16) /\ MoreUnused(16)
  \/ part = "furigana" /\ Ruby!FuriganaInit /\ Unused(7) /\ MoreUnused(7)
  \/ part = "stream" /\ Stream!StreamInit /\ Unused(22) /\ MoreUnused(22)

OthersNext ==
  /\ UNCHANGED part
  /\ \/ part = "remote" /\ Remote!RemoteNext /\ Untouched(20) /\ MoreUntouched(20)
     \/ part = "web" /\ Web!WebNext /\ Untouched(13) /\ MoreUntouched(13)
     \/ part = "pcm" /\ Pcm!PcmNext /\ Untouched(15) /\ MoreUntouched(15)
     \/ part = "effects" /\ Fx!FxNext /\ Untouched(8) /\ MoreUntouched(8)
     \/ part = "waveform" /\ Waves!WaveNext /\ Untouched(14) /\ MoreUntouched(14)
     \/ part = "provisioning" /\ Prov!ProvNext /\ Untouched(16) /\ MoreUntouched(16)
     \/ part = "music" /\ Music!PanelNext /\ Untouched(19) /\ MoreUntouched(19)
     \/ part = "shell" /\ Shell!ShellNext /\ Untouched(16) /\ MoreUntouched(16)
     \/ part = "lyrics" /\ Words!LyricsNext /\ Untouched(19) /\ MoreUntouched(19)
     \/ part = "controls" /\ Controls!ControlNext /\ Untouched(16) /\ MoreUntouched(16)
     \/ part = "furigana" /\ Ruby!FuriganaNext /\ Untouched(7) /\ MoreUntouched(7)
     \/ part = "stream" /\ Stream!StreamNext /\ Untouched(22) /\ MoreUntouched(22)

(***************************************************************************)
(* Properties: each part's, with its types.                                *)
(***************************************************************************)

\* WebOutput, PcmStream, TrackEffects, Waveforms and NativeStream: what is
\* heard is in step with the clock, on time and with its effects, and the
\* waveform is the last one asked for; stretchers, chunks, nodes and workers
\* are all accounted for.
SoundSafe ==
  /\ part = "web" => Web!WebTypes /\ Web!WebRight
  /\ part = "pcm" => Pcm!PcmTypes /\ Pcm!StreamRight
  /\ part = "effects" => Fx!FxTypes /\ Fx!FxRight
  /\ part = "waveform" => Waves!WaveTypes /\ Waves!WaveRight
  /\ part = "stream" => Stream!StreamTypes /\ Stream!StreamHeld

\* Provisioning, MusicPanel, AppShell, LyricsPanel, Controls and Furigana: the
\* panels and dialogs show what was asked last, keep what the user chose, and
\* tell what happened once.
UiSafe ==
  /\ part = "provisioning" => Prov!ProvTypes /\ Prov!ProvRight
  /\ part = "music" => Music!PanelTypes /\ Music!PanelRight
  /\ part = "shell" => Shell!ShellTypes /\ Shell!ShellRight
  /\ part = "lyrics" => Words!LyricsTypes /\ Words!PanelsRight
  /\ part = "controls" => Controls!ControlTypes /\ Controls!ControlRight
  /\ part = "furigana" => Ruby!FuriganaTypes /\ Ruby!ReadingsRight /\ Ruby!WordsRight

(***************************************************************************)
(* SongMatching: words 1 to 4, of which 1 and 2 are spelled alike, 4 has 1 *)
(* and 3 in it, and 1 and 3 make a phrase that may be written as one word. *)
(***************************************************************************)
MCSim(v, w)   == IF v = w THEN 100 ELSE IF {v, w} = {1, 2} THEN 80 ELSE 0
MCHolds(v, w) == v = w \/ (w = 4 /\ v \in {1, 3})

Match == INSTANCE SongMatching WITH Sim <- MCSim, Holds <- MCHolds, Gluable <- {3}, Short <- {2}

SeqsUpTo(S, n) == UNION {[1..k -> S] : k \in 0..n}

Results == [length : {0, 10, 11, 14}, sim : {50, 70, 90}, native : BOOLEAN, synced : {TRUE}]
Cuts    == {[from |-> f, to |-> t, music |-> m, video |-> v] :
              <<f, t, m, v>> \in {c \in (0..3) \X (1..7) \X BOOLEAN \X {0, 6, 9} : c[1] < c[2] /\ (c[3] => c[4] = 0)}}

MatchingInputs ==
  [check : {"similar"}, a : SeqsUpTo(1..4, 3), b : SeqsUpTo(1..4, 3)]
  \union [check : {"phrases"}, a : SeqsUpTo(1..3, 2), b : SeqsUpTo({1, 3}, 2), glued : {2, 4}, pool : SeqsUpTo(1..4, 3)]
  \union [check : {"pick"}, a : SeqsUpTo(Results, 2), slack : {0, 3}, length : {0, 10}]
  \union [check : {"attempts"}, a : SeqsUpTo({"whole", "part", "title"}, 3), japanese : BOOLEAN, max : 1..4]
  \union [check : {"title"}, a : SeqsUpTo({"song", "music", "official"}, 3) \ {<<>>}]
  \union [check : {"spans"}, a : SeqsUpTo(Cuts, 2), length : {6}]

MatchingKinds == {"similar", "phrases", "pick", "attempts", "title", "spans"}

MatchingRight(in) ==
  CASE in.check = "similar"  -> Match!SimilarityRight(in.a, in.b)
    [] in.check = "phrases"  -> Match!PhrasesRight(in.a, in.b, in.glued, in.pool)
    [] in.check = "pick"     -> Match!PickRight(in.a, in.length, in.slack)
    [] in.check = "attempts" -> Match!AttemptsRight(in.a, in.japanese, in.max)
    [] in.check = "title"    -> Match!TitleRight(in.a, {"music", "official"}, {"music"})
    [] in.check = "spans"    -> Match!SpansRight(in.a, in.length)

(***************************************************************************)
(* LyricsShown, LyricFile and LyricLayout.  Lines are made from how each   *)
(* follows the one before it: how long after its end, of what kind and how *)
(* long.                                                                   *)
(***************************************************************************)
File   == INSTANCE LyricFile WITH StampChars <- <<"t0", "t1", "t2", "t3", "t4", "t5", "t6", "t7", "t8", "t9">>, EpsilonMs <- 2
Lyrics == INSTANCE LyricsShown WITH LineLeadIn <- 3, LineHold <- 1, LyricGap <- 6, LastLine <- 4
Layout == INSTANCE LyricLayout WITH Duration <- 12, MinBeatWidth <- 1, Pad <- 2, MinSpan <- 12, Px <- 3,
            MinGap <- 1, Space <- 2, Ellipsis <- 3, MinSustain <- 2,
            FrameMs <- 10, Smooth <- 3, MinNote <- 2, MinVoiced <- 3, MinVib <- 2, VibPercent <- 60

La(from, to) == [start |-> from, end |-> to, text |-> <<"la">>]

\* A line whose stamp is at `at`; the words of a "late" one start after it.
LineAt(kind, at) ==
  CASE kind = "words" -> [start |-> at, text |-> <<"la">>, words |-> <<La(at, at + 1), La(at + 2, at + 3)>>]
    [] kind = "late"  -> [start |-> at, text |-> <<"la">>, words |-> <<La(at + 1, at + 3)>>]
    [] kind = "plain" -> [start |-> at, text |-> <<"la">>, words |-> <<>>]
    [] kind = "blank" -> [start |-> at, text |-> <<>>, words |-> <<>>]

Follows(lines, spec) ==
  LET last == IF lines = <<>> THEN 3 ELSE Lyrics!Span(lines, Len(lines)).end
      from == IF lines = <<>> \/ Last(lines).words # <<>> THEN last ELSE Last(lines).start
      at   == from + spec.gap
  IN Append(lines, LineAt(spec.kind, IF lines = <<>> THEN at ELSE Max({at, Last(lines).start})))

Song(specs) == FoldLeft(Follows, <<>>, specs)

Specs == [kind : {"words"}, gap : {-1, 2, 9}] \union [kind : {"late", "plain"}, gap : {2}] \union [kind : {"blank"}, gap : {-2, 2}]

\* Evenly tracked beats from 0 on, without the drop-th.
Beats(n, step, drop) ==
  LET all == [i \in 1..n |-> (i - 1) * step] IN IF drop = 0 THEN all ELSE RemoveAt(all, drop)

UpTo(widths) == LET upto[k \in 0..Len(widths)] == IF k = 0 THEN 0 ELSE upto[k - 1] + widths[k] IN [k \in 1..(Len(widths) + 1) |-> upto[k - 1]]

\* One word of any characters, or two or three of a few.
OneWord   == {<<t>> : t \in SeqsUpTo({"a", "<", "t1", ">", "\\", "|", "{", "}"}, 3) \ {<<>>}}
SomeWords == SeqsUpTo({<<"a">>, <<"<", "t1", ">">>, <<"|", "a", "{">>}, 3) \ {<<>>}

WordLine(texts, reading, spaced) ==
  [start |-> 1, text |-> FlattenSeq([k \in DOMAIN texts |-> (IF k > 1 /\ spaced THEN <<" ">> ELSE <<>>) \o texts[k]]),
   words |-> [k \in DOMAIN texts |-> [start |-> k, end |-> k + 2, text |-> texts[k], reading |-> reading]]]

\* Lines of at most one word, in order, some of which begin before their stamp.
Timed == {l \in SeqsUpTo([at : 0..2, early : {0, 1, 3}], 2) : \A i \in DOMAIN l : i > 1 => l[i - 1].at <= l[i].at}
TimedLines(l) ==
  [i \in DOMAIN l |-> [start |-> l[i].at - 1, text |-> <<"a">>,
     words |-> IF l[i].early = 3 THEN <<>>
               ELSE <<[start |-> l[i].at - 1 - l[i].early, end |-> l[i].at, text |-> <<"a">>, reading |-> "none"]>>]]

\* A row: its lines' words, each [gap since the last one's end, length, width, pitch].
RowWords == [gap : {0, 2}, len : {0, 3}, width : {2, 9}, midi : {60, 67}]
RowLine(at, ws, plain) ==
  LET start[k \in 1..(Len(ws) + 1)] == IF k = 1 THEN at ELSE start[k - 1] + ws[k - 1].len + ws[k - 1].gap IN
  [start |-> at, text |-> <<"la">>,
   words |-> IF plain THEN <<>>
             ELSE [k \in DOMAIN ws |-> [start |-> start[k], end |-> start[k] + ws[k].len, width |-> ws[k].width,
                     midi  |-> IF ws[k].len = 0 THEN Layout!None ELSE ws[k].midi,
                     notes |-> IF ws[k].len = 0 THEN <<>>
                               ELSE <<[start |-> start[k], end |-> start[k] + 1, midi |-> ws[k].midi],
                                      [start |-> start[k] + 1, end |-> start[k] + ws[k].len, midi |-> 80]>>]]]

\* Two words, and in the next line one or none.
Row(in) == <<RowLine(0, in.first, FALSE), RowLine(in.next, in.second, in.second = <<>>)>>

LyricInputs ==
  [check : {"shown"}, specs : SeqsUpTo(Specs, 3) \ {<<>>}, step : {0, 2}, bar : {3}]
  \union [check : {"pace"}, step : {4}, n : {5, 9}, drop : 0..9, at : 0..24, bar : 2..3]
  \union [check : {"segments"}, text : SeqsUpTo({"a", "b", " "}, 3),
          words : SeqsUpTo({<<"a">>, <<"b">>, <<"a", "b">>}, 3)]
  \union UNION {[check : {"split"}, widths : [1..n -> {2, 3}], may : [1..(n - 1) -> BOOLEAN], bonus : {[k \in 1..(n - 1) |-> 3 * (k % 2)]},
                 space : {1}, max : {4}] : n \in 2..4}
  \union [check : {"round"}, texts : OneWord \union SomeWords, reading : {"none", "r"}, spaced : BOOLEAN]
  \union [check : {"starts"}, starts : SeqsUpTo(0..3, 3) \ {<<>>}, spaced : BOOLEAN]
  \union [check : {"any"}, stamps : {<<>>, <<"t1">>, <<"t2", "t0">>}, body : SeqsUpTo({"<", "t1", ">", "a", "#"}, 3) \union
            {FlattenSeq(x) : x \in SeqsUpTo({<<"<", "t1", ">">>, <<"<", "t2", ">">>, <<"a">>, <<" ">>}, 4)}]
  \union [check : {"rebased"}, lines : Timed, offset : -2..1]
  \union [check : {"layout"}, first : [1..2 -> {w \in RowWords : w.midi = 60}],
          second : SeqsUpTo({w \in RowWords : w.gap = 0}, 1), next : {2, 9}, offset : {-2, 4}, joins : BOOLEAN]

\* What is read of lines of a file.
ReadOf(raw) == File!Parse([offset |-> 0, lines |-> raw]).lines

\* A file of a line with a tag before each word only.
StartsFile(starts, spaced) ==
  <<[stamps |-> <<"t0">>, body |-> FlattenSeq([k \in DOMAIN starts |-> File!Tag(starts[k]) \o (IF spaced THEN <<"a", " ">> ELSE <<"a">>)])]>>

BackOf(r) == File!Parse(File!Serialize(r.lines, r.offset))

LayoutRight(lines, offset, joins, row) ==
  /\ Layout!CellsRight(lines, offset, row)
  /\ Layout!NothingOverlaps(row, Layout!LayoutLyricWords(row, joins))
  /\ Layout!LineGoesRight(row)

SplitIsRight(l) == Lyrics!SplitRight(l, Lyrics!SplitAt(l))

LineRight(line) == File!RoundTrip(line, ReadOf(File!Serialize(<<line>>, 0).lines))

TimedRight(lines, offset) == File!Rebased(lines, BackOf(File!Rebase(lines, offset)))

LyricsRight(in) ==
  CASE in.check = "shown"    ->
         LET song  == Song(in.specs)
             beats == IF in.step = 0 THEN <<>> ELSE Beats(20, in.step, 0)
             lead  == Lyrics!LeadIns(song, beats, in.bar)
             shown == Lyrics!ShownOver(song, lead, 0..(Last(song).start + 6))
         IN /\ Lyrics!LinesInOrder(song, shown)
            /\ Lyrics!WordsInOrder(song, shown)
            /\ Lyrics!BlankInGaps(song, lead, shown)
            /\ Lyrics!CountedIn(song, beats, in.bar, shown)
    [] in.check = "pace"     -> in.drop < in.n => Lyrics!PaceHolds(Beats(in.n, in.step, in.drop), in.step, in.at, in.bar)
    [] in.check = "round"    -> LineRight(WordLine(in.texts, in.reading, in.spaced))
    [] in.check = "starts"   -> File!StartsOnly(in.starts, ReadOf(StartsFile(in.starts, in.spaced))[1].words)
    [] in.check = "any"      -> File!AnyLine(ReadOf(<<[stamps |-> in.stamps, body |-> in.body], [stamps |-> <<"t1">>, body |-> <<"a">>]>>))
    [] in.check = "rebased"  -> TimedRight(TimedLines(in.lines), in.offset)
    [] in.check = "layout"   -> LayoutRight(Row(in), in.offset, in.joins, Layout!PositionLyricLines(Row(in), in.offset))
    [] in.check = "segments" -> Lyrics!SegmentsRight([start |-> 0, text |-> in.text, words |-> [k \in DOMAIN in.words |-> [start |-> k, end |-> k, text |-> in.words[k]]]])
    [] in.check = "split"    -> SplitIsRight([upto |-> UpTo(in.widths), may |-> in.may, bonus |-> in.bonus, space |-> in.space, max |-> in.max, above |-> in.max + 1])

(***************************************************************************)
(* SongPasses, its filter a difference, and the pitch of words, with notes *)
(* of three pitches, two of which round to the same.                       *)
(***************************************************************************)
MCWeigh(state, x) == x - state
MCKeep(state, x)  == x

Passes == INSTANCE SongPasses WITH Base <- 2, MaxBlocks <- 3, AmpSamples <- 2, Floor <- 0, Target <- 3,
            HopFrames <- 2, HopsPerBlock <- 2, AbsoluteGate <- 0, Weigh <- MCWeigh, Keep <- MCKeep

\* Two bars on end, the second one's samples stretched or squeezed.
Bars(in) == <<[x |-> 0, width |-> in.width, start |-> in.from, samples |-> in.len],
              [x |-> in.width, width |-> 1, start |-> in.from + in.len, samples |-> 2]>>

SoundInputs ==
  [check : {"peaks"}, left : (SeqsUpTo({-3, 0, 2}, 4) \ {<<>>}) \union [1..6 -> {-3, 2}], cut : 0..2]
  \union [check : {"loud"}, left : SeqsUpTo({-1, 0, 2}, 5) \ {<<>>}, cut : {1, 2, 3}]
  \union [check : {"drawn"}, left : [1..5 -> {-2, 0, 3}] \union [1..2 -> {-2, 3}], width : 1..3, from : 0..1, len : {1, 3, 4}]
  \union [check : {"silence"}, left : SeqsUpTo({0, 1, 4}, 5), hops : {2, 3}]
  \union [check : {"notes"}, midi : SeqsUpTo({Layout!None, 6000, 6040, 6200}, 4) \union [1..5 -> {Layout!None, 6000, 6200}],
          vib : {1, 2}, from : {0, 5, 10}, to : {29, 40}]

PitchRight(contour, from, to, p) == Layout!NotesWithin(contour, from, to, p) /\ Layout!HeldIsOneNote(contour, from, to, 6000, p)

SoundKinds == {"peaks", "loud", "drawn", "silence", "notes"}

SoundsRight(in) ==
  CASE in.check = "peaks"   -> Passes!PeaksOfStretches(in.left, Reverse(in.left), in.cut)
    [] in.check = "loud"    -> Passes!LoudnessOfStretches(in.left, Reverse(in.left), in.cut)
    [] in.check = "drawn"   -> Passes!PeaksDrawn(in.left, Bars(in), 4)
    [] in.check = "silence" -> Passes!SilenceDoesntCount(in.left, in.hops)
    [] in.check = "notes"   ->
         LET contour == [midi |-> in.midi, vib |-> [i \in DOMAIN in.midi |-> IF i % in.vib = 0 THEN 5 ELSE Layout!None]]
         IN PitchRight(contour, in.from, in.to, Layout!PitchOf(contour, in.from, in.to))

(***************************************************************************)
(* The runs of the page: a part with more to it than a run can take is     *)
(* looked at from one side, then from another.                             *)
(***************************************************************************)
Side(name) == [check |-> name]

Sides ==
  [remote |-> {"track", "volume", "searches"}, music |-> {"searches", "sources"}, shell |-> {"settings", "setup", "updates"},
   lyrics |-> {"lookup", "align"}, controls |-> {"menus", "stepper"}]

MCInit ==
  /\ (PageInit /\ MoreUnused(0)) \/ OthersInit
  /\ \/ part = "algorithms" /\ (input \in MatchingInputs \/ input \in LyricInputs \/ input \in SoundInputs)
     \/ part \in DOMAIN Sides /\ input \in {Side(s) : s \in Sides[part]}
     \/ part \notin DOMAIN Sides \union {"algorithms"} /\ input = Side("all")
  /\ input = Side("updates") => Shell!Fresh
  /\ input = Side("menus") => Controls!NumbersOnly

\* What a side leaves out.
OnThisSide ==
  /\ part = "remote" /\ input.check # "searches" => Remote!DragsOf({input.check})
  /\ part = "remote" /\ input.check = "searches" => Remote!SearchesOnly
  /\ part = "music"  => IF input.check = "searches" THEN Music!SearchesNext ELSE Music!SettingsNext
  /\ part = "shell"  => \/ input.check = "settings" /\ Shell!SettingsNext
                        \/ input.check = "setup" /\ Shell!SetupOf(1)
                        \/ input.check = "updates" /\ Shell!UpdatesNext
  /\ part = "lyrics" => IF input.check = "lookup" THEN Words!LookupOnly ELSE Words!AlignNext
  /\ part = "controls" => IF input.check = "menus" THEN Controls!MenusNext ELSE Controls!StepperNext

MCNext ==
  /\ (PageNext /\ UNCHANGED <<v21, v22>>) \/ OthersNext
  /\ UNCHANGED input /\ OnThisSide

MCSpec == MCInit /\ [][MCNext]_<<part, places, v21, v22, input>>

(***************************************************************************)
(* The algorithms, against what they are to compute.                       *)
(***************************************************************************)

\* SongMatching; LyricFile, LyricsShown and LyricLayout; SongPasses.
AlgorithmsRight ==
  part = "algorithms" =>
    IF input.check \in MatchingKinds THEN MatchingRight(input)
    ELSE IF input.check \in SoundKinds THEN SoundsRight(input) ELSE LyricsRight(input)
=============================================================================
