---------------------------- MODULE LyricsPanel ----------------------------
(***************************************************************************)
(* Lyrics looked up and aligned by hand: the search dialog of              *)
(* frontend/src/editing/lyrics/lyrics_search_modal.tsx over                *)
(* lyrics/lrclib.ts, and the alignments of lyrics_presenter.ts.  A search  *)
(* that is overtaken isn't aborted: its answer is told apart by number.    *)
(***************************************************************************)
EXTENDS Naturals, Sequences, FiniteSets

CONSTANTS Songs, MaxSearches, MaxIds,
          Rows, MaxAligns, Offsets

VARIABLES open, song, fields,                      \* the dialog: whether it's open, the song's title, the title typed
          phase, matches, selected, wordLevel,
          requestId, searches, cache,              \* requestIdRef, every search made, searchCache
          since, picked,                           \* searches made before it was last filled; the user selected
          audio, rows,                             \* an audio track is there; the lyrics' rows, "gone" or "there"
          aligns, controllers, statuses,           \* every alignment; each row's (0: none) and its status
          lines, offset                            \* each row's lines, by the alignment that made them; its offset

searchVars == <<open, song, fields, phase, matches, selected, wordLevel, requestId, searches, cache, since, picked>>
alignVars  == <<audio, rows, aligns, controllers, statuses, lines, offset>>
lyricsVars == <<searchVars, alignVars>>

NoTitle == ""
Titles == Songs \union {NoTitle}
None == "none"
NoMatches == [of |-> NoTitle, ids |-> {}]

\* The song a match is exactly; the others are of the same search.
Exact == "exact"
Found == {{}, {Exact}, {Exact, "other"}, {"other", "another"}}
Failed == {"failed"}
NotCached == {"not cached"}

LyricsInit ==
  /\ open = FALSE /\ song \in Titles /\ fields = NoTitle
  /\ phase = "idle" /\ matches = NoMatches /\ selected = None /\ wordLevel = TRUE
  /\ requestId = 0 /\ searches = <<>> /\ cache = [t \in Titles |-> NotCached] /\ since = 0 /\ picked = FALSE
  /\ audio \in BOOLEAN /\ rows = {} /\ aligns = <<>>
  /\ controllers = [r \in Rows |-> 0] /\ statuses = [r \in Rows |-> "idle"]
  /\ lines = [r \in Rows |-> 0] /\ offset = [r \in Rows |-> 0]

(***************************************************************************)
(* The dialog.                                                             *)
(***************************************************************************)
\* had: what searchLrclib finds in its cache at once.
Search(of, id) == [of |-> of, id |-> id, pending |-> TRUE, had |-> cache[of]]

Unselected == selected' = None /\ picked' = FALSE /\ matches' = NoMatches

\* runSearch(), once the request's number is n.
RunSearch(of, n) ==
  /\ requestId' = n /\ searches' = Append(searches, Search(of, n))
  /\ phase' = "searching" /\ Unselected

\* Mutant: what was asked for before the dialog was filled anew still counts.
ReseedKeepsId == requestId

ReseedId == requestId + 1

\* The dialog is filled from the song, when it opens or the song changes under it.
Reseed(s) == fields' = s /\ wordLevel' = TRUE /\ since' = Len(searches)

\* It opens, and looks for the song at once if it has a title.
Open ==
  /\ ~open /\ requestId < MaxIds /\ open' = TRUE /\ Reseed(song)
  /\ IF song # NoTitle THEN Len(searches) < MaxSearches /\ RunSearch(song, ReseedId + 1)
     ELSE /\ requestId' = ReseedId /\ phase' = "idle" /\ Unselected
          /\ UNCHANGED searches
  /\ UNCHANGED <<song, cache, alignVars>>

\* Another song is loaded: an open dialog starts over, but doesn't search.
SongChanges(s) ==
  /\ s # song /\ requestId < MaxIds /\ song' = s
  /\ IF open
     THEN /\ Reseed(s) /\ requestId' = ReseedId /\ phase' = "idle" /\ Unselected
     ELSE UNCHANGED <<fields, wordLevel, since, requestId, phase, selected, picked, matches>>
  /\ UNCHANGED <<open, searches, cache, alignVars>>

Close == open /\ open' = FALSE /\ UNCHANGED <<song, fields, phase, matches, selected, wordLevel, requestId,
                                              searches, cache, since, picked, alignVars>>

Type(t) ==
  /\ open /\ t # fields /\ fields' = t
  /\ UNCHANGED <<open, song, phase, matches, selected, wordLevel, requestId, searches, cache, since, picked, alignVars>>

Submit ==
  /\ open /\ fields # NoTitle /\ Len(searches) < MaxSearches
  /\ RunSearch(fields, requestId + 1)
  /\ UNCHANGED <<open, song, fields, wordLevel, cache, since, alignVars>>

\* searchLrclib(): what was found before, if nothing, is found again; a mirror that finds
\* nothing, or fails, leaves it to LRCLIB itself, whose failure is the search's.
Answers(s) ==
  IF s.had # NotCached THEN {s.had}
  ELSE Found \union {Failed}

Cached(of, found) == IF found = Failed THEN cache ELSE [cache EXCEPT ![of] = found]

\* Mutant: the first of several is picked beforehand.
PreselectFirst(found) == IF found = {} THEN None ELSE CHOOSE m \in found : TRUE

Preselect(found) ==
  IF Cardinality(found) = 1 THEN CHOOSE m \in found : TRUE
  ELSE IF Exact \in found THEN Exact ELSE None

Answered(n) ==
  LET s == searches[n] IN
  /\ s.pending /\ searches' = [searches EXCEPT ![n].pending = FALSE]
  /\ \E found \in Answers(s) :
       /\ cache' = Cached(s.of, found)
       /\ IF s.id # requestId THEN UNCHANGED <<phase, matches, selected, wordLevel>>
          ELSE IF found = Failed THEN phase' = "error" /\ UNCHANGED <<matches, selected, wordLevel>>
          ELSE IF found = {} THEN phase' = "no-results" /\ UNCHANGED <<matches, selected, wordLevel>>
          ELSE /\ phase' = "results" /\ matches' = [of |-> s.of, ids |-> found]
               /\ selected' = Preselect(found)
               /\ wordLevel' = (wordLevel \/ Preselect(found) # None)
  /\ picked' = (picked /\ selected' = selected)
  /\ UNCHANGED <<open, song, fields, requestId, since, alignVars>>

Pick(m) ==
  /\ open /\ phase = "results" /\ m \in matches.ids
  /\ selected' = m /\ wordLevel' = TRUE /\ picked' = TRUE
  /\ UNCHANGED <<open, song, fields, phase, matches, requestId, searches, cache, since, alignVars>>

SetWordLevel ==
  /\ open /\ audio /\ wordLevel' = ~wordLevel
  /\ UNCHANGED <<open, song, fields, phase, matches, selected, requestId, searches, cache, since, picked, alignVars>>

(***************************************************************************)
(* Alignments, each on the lines and the offset the row had when it began. *)
(***************************************************************************)
Running(n) == aligns[n].pending /\ ~aligns[n].aborted

Abort(list, r) == IF controllers[r] = 0 THEN list ELSE [list EXCEPT ![controllers[r]].aborted = TRUE]

\* Mutant: the alignment before goes on beside the new one.
AbortNothing(list, r) == list

Superseded(list, r) == Abort(list, r)

\* runWordLevelAlignment(), which needs an audio track.
RunAlignment(r) ==
  IF audio
  THEN /\ Len(aligns) < MaxAligns
       /\ aligns' = Append(Superseded(aligns, r), [row |-> r, pending |-> TRUE, aborted |-> FALSE, at |-> offset'[r]])
       /\ controllers' = [controllers EXCEPT ![r] = Len(aligns) + 1]
       /\ statuses' = [statuses EXCEPT ![r] = "aligning"]
  ELSE UNCHANGED <<aligns, controllers, statuses>>

\* A row is added for what was picked, or for lines that were typed.
Add(r, words) ==
  /\ r \notin rows /\ rows' = rows \union {r}
  /\ lines' = [lines EXCEPT ![r] = 0] /\ offset' = [offset EXCEPT ![r] = 0]
  /\ IF words THEN RunAlignment(r) ELSE UNCHANGED <<aligns, controllers, statuses>>
  /\ UNCHANGED audio

\* Load in the dialog; lyrics that can't be read are told as an error.
Load(r) ==
  /\ open /\ phase = "results" /\ selected \in matches.ids
  /\ \/ Add(r, wordLevel /\ audio) /\ open' = FALSE /\ UNCHANGED phase
     \/ phase' = "error" /\ UNCHANGED <<open, alignVars>>
  /\ UNCHANGED <<song, fields, matches, selected, wordLevel, requestId, searches, cache, since, picked>>

ApplyPlainText(r, words) == Add(r, words) /\ UNCHANGED searchVars

AlignTrackToVocals(r) ==
  /\ r \in rows /\ UNCHANGED <<audio, rows, lines, offset, searchVars>>
  /\ RunAlignment(r)

\* The slider of the row's offset.
SetOffset(r, s) ==
  /\ r \in rows /\ s # offset[r] /\ offset' = [offset EXCEPT ![r] = s]
  /\ UNCHANGED <<audio, rows, aligns, controllers, statuses, lines, searchVars>>

RemoveTrack(r) ==
  /\ r \in rows /\ rows' = rows \ {r}
  /\ aligns' = Abort(aligns, r)
  /\ controllers' = [controllers EXCEPT ![r] = 0] /\ statuses' = [statuses EXCEPT ![r] = "idle"]
  /\ UNCHANGED <<audio, lines, offset, searchVars>>

\* Mutant: the alignments of a song that is dropped go on.
AbortedNone == aligns

AbortedAll == [n \in DOMAIN aligns |-> [aligns[n] EXCEPT !.aborted = @ \/ controllers[aligns[n].row] = n]]

\* clearLyrics(), as another song is loaded.
ClearLyrics(withAudio) ==
  /\ audio' = withAudio /\ rows' = {}
  /\ aligns' = AbortedAll
  /\ controllers' = [r \in Rows |-> 0] /\ statuses' = [r \in Rows |-> "idle"]
  /\ UNCHANGED <<lines, offset, searchVars>>

Progress(n, status) ==
  /\ Running(n) /\ controllers[aligns[n].row] = n
  /\ statuses' = [statuses EXCEPT ![aligns[n].row] = status]
  /\ UNCHANGED <<audio, rows, aligns, controllers, lines, offset, searchVars>>

\* It ends: aborted, failed, without lines, or with lines that replace the row's.
AlignEnds(n) ==
  LET r == aligns[n].row IN
  /\ aligns[n].pending /\ aligns' = [aligns EXCEPT ![n].pending = FALSE]
  /\ controllers' = IF controllers[r] = n THEN [controllers EXCEPT ![r] = 0] ELSE controllers
  /\ IF aligns[n].aborted THEN UNCHANGED <<statuses, lines, offset>>
     ELSE /\ statuses' = [statuses EXCEPT ![r] = "idle"]
          /\ \/ UNCHANGED <<lines, offset>>
             \/ IF r \in rows
                THEN lines' = [lines EXCEPT ![r] = n] /\ offset' = [offset EXCEPT ![r] = aligns[n].at]
                ELSE UNCHANGED <<lines, offset>>
  /\ UNCHANGED <<audio, rows, searchVars>>

DialogNext ==
  \/ Open \/ Close \/ Submit \/ SetWordLevel
  \/ \E t \in Titles : Type(t) \/ SongChanges(t)
  \/ \E n \in DOMAIN searches : Answered(n)
  \/ \E m \in {Exact, "other", "another"} : Pick(m)
  \/ \E r \in Rows : Load(r)

AlignNext ==
  \/ \E r \in Rows : \/ \E words \in BOOLEAN : ApplyPlainText(r, words)
                     \/ AlignTrackToVocals(r) \/ RemoveTrack(r)
                     \/ \E s \in Offsets : SetOffset(r, s)
  \/ \E b \in BOOLEAN : ClearLyrics(b)
  \/ \E n \in DOMAIN aligns : AlignEnds(n) \/ \E s \in {"queued", "aligning"} : Progress(n, s)

\* The dialog alone, with an audio track and at most a row.
LookupOnly == DialogNext /\ audio /\ rows' \subseteq {CHOOSE r \in Rows : TRUE}

LyricsNext == DialogNext \/ AlignNext
LyricsSpec == LyricsInit /\ [][LyricsNext]_lyricsVars

(***************************************************************************)
(* Properties                                                              *)
(***************************************************************************)
LyricsTypes ==
  /\ phase \in {"idle", "searching", "no-results", "error", "results"} /\ fields \in Titles
  /\ rows \subseteq Rows /\ controllers \in [Rows -> 0..Len(aligns)]

Latest == IF Len(searches) = since THEN 0 ELSE Len(searches)

\* What an open dialog shows is of the last search made since it was filled from
\* the song, which it waits for as long as it hasn't ended; nothing of the song
\* before shows, and what is selected is there to be seen, and was the only one,
\* the exact one, or picked.
DialogRight ==
  open =>
    /\ (phase = "searching") = (Latest # 0 /\ searches[Latest].pending)
    /\ (phase = "idle") = (Latest = 0)
    /\ phase = "results" => matches.of = searches[Latest].of
    /\ selected # None =>
         /\ phase \in {"results", "error"} /\ selected \in matches.ids
         /\ picked \/ selected = Exact \/ Cardinality(matches.ids) = 1

\* A row says it is aligned exactly while an alignment of it is under way, of
\* which there is one; and none goes on that was begun before the one its lines are of.
AlignRight ==
  /\ \A r \in Rows :
       /\ (statuses[r] # "idle") = (controllers[r] # 0)
       /\ controllers[r] # 0 => r \in rows /\ Running(controllers[r]) /\ aligns[controllers[r]].row = r
  /\ \A n \in DOMAIN aligns : Running(n) => controllers[aligns[n].row] = n
  /\ \A r \in rows, n \in DOMAIN aligns : aligns[n].row = r /\ Running(n) => n > lines[r]

PanelsRight == DialogRight /\ AlignRight
=============================================================================
