----------------------------- MODULE SongQueue -----------------------------
(***************************************************************************)
(* frontend/src/queue/queue_presenter.ts and queue_store.ts: the songs to  *)
(* come, each downloading as soon as it's queued, prepared one at a time,  *)
(* and started when the song before it ends; with what                     *)
(* karaoke/song_io_presenter.ts does to load one.                          *)
(*                                                                         *)
(* Calls run to completion, then the MobX reactions to what they changed,  *)
(* in either order, before anything else: no other action is enabled until *)
(* the reactions are Settled.  What awaits goes on in an action of its own.*)
(* The transport is the playback engine, less where it plays and what its  *)
(* pauses await; its starts are answered in the order they were made.      *)
(***************************************************************************)
EXTENDS Naturals, Sequences, FiniteSets, SequencesExt

CONSTANTS Songs, NoSong,
          MaxRemounts,  \* bound on the times the page's effects are run again
          Impatient     \* whether play is pressed, or a song replayed to its end, while another starts

ASSUME QueueAssumption ==
  /\ NoSong \notin Songs /\ IsFiniteSet(Songs)
  /\ MaxRemounts \in Nat /\ Impatient \in BOOLEAN

VARIABLES streaming,    \* the songs to download; the others are local files and bundles
          items,        \* store.items, in play order
          status,       \* of each song; "new" before it's queued, "gone" after
          preparing,    \* the presenter's `preparing`
          running,      \* prepares under way: [id, aborted]
          downloads,    \* ids the presenter holds a download for
          video,        \* song -> its latest download
          waits,        \* song -> the markReadyOnceVideoIsDone() awaiting its video
          awaitingNext, starting, nowPlaying, history,  \* of the store
          starts,       \* start() calls under way: song -> what they await
          preloaded,    \* SongIoPresenter's
          seen,         \* what the two reactions last ran on
          transport, installed, plays,  \* engine state, song, play() calls under way
          remounts

prepVars  == <<status, preparing, running>>
dlVars    == <<downloads, video, waits>>
playVars  == <<transport, installed, plays>>
startVars == <<starting, starts, nowPlaying, history, preloaded>>
vars == <<items, prepVars, dlVars, awaitingNext, startVars, seen, playVars, remounts>>

LocalSongs == Songs \ streaming
Unseen == << <<NoSong, "unseen">>, <<"unseen", NoSong>> >>

(***************************************************************************)
(* What the store derives, and the reactions read.                         *)
(***************************************************************************)

\* The first of the queue whose status is in S.
FirstIn(q, st, S) ==
  LET at == {i \in DOMAIN q : st[q[i]] \in S} IN
    IF at = {} THEN NoSong ELSE q[CHOOSE i \in at : \A j \in at : i <= j]

nextPlayable == FirstIn(items, status, {"waiting", "preparing", "downloadingVideo", "ready"})
nextReadySong ==
  IF nextPlayable # NoSong /\ status[nextPlayable] = "ready" THEN nextPlayable ELSE NoSong

ToStart   == IF awaitingNext /\ nextPlayable # NoSong
               THEN <<nextPlayable, status[nextPlayable]>> ELSE <<NoSong, "new">>
ToPreload == <<IF starting = NoSong THEN "idle" ELSE "starting", nextReadySong>>

Settled == seen = <<ToStart, ToPreload>>

QInit ==
  /\ streaming \in SUBSET Songs
  /\ items = <<>> /\ status = [s \in Songs |-> "new"]
  /\ preparing = NoSong /\ running = {}
  /\ downloads = {} /\ video = [s \in Songs |-> "none"] /\ waits = [s \in Songs |-> "no"]
  /\ awaitingNext = TRUE /\ starting = NoSong /\ nowPlaying = NoSong /\ history = <<>>
  /\ starts = [s \in Songs |-> "no"] /\ preloaded = NoSong
  /\ seen = Unseen
  /\ transport = "idle" /\ installed = NoSong /\ plays = <<>>
  /\ remounts = 0

(***************************************************************************)
(* Preparing.                                                              *)
(***************************************************************************)

\* update(): only what's queued has a status to change.
Put(st, id, new) == IF st[id] \in {"new", "gone"} THEN st ELSE [st EXCEPT ![id] = new]

\* Mutant: an in-flight prepare isn't waited for.
PrepareBeside(q, st, prep, run) ==
  LET id == FirstIn(q, st, {"waiting"}) IN
    IF id = NoSong
      THEN status' = st /\ preparing' = prep /\ running' = run
      ELSE /\ preparing' = id
           /\ running' = run \union {[id |-> id, aborted |-> FALSE]}
           /\ status' = IF id \in streaming THEN [st EXCEPT ![id] = "preparing"] ELSE st

\* prepareNext(), in a queue q with statuses st, `prep` being prepared and
\* prepares run under way.  A download reports its stage at once.
PrepareNext(q, st, prep, run) ==
  LET id == FirstIn(q, st, {"waiting"}) IN
    IF prep # NoSong \/ id = NoSong
      THEN status' = st /\ preparing' = prep /\ running' = run
      ELSE /\ preparing' = id
           /\ running' = run \union {[id |-> id, aborted |-> FALSE]}
           /\ status' = IF id \in streaming THEN [st EXCEPT ![id] = "preparing"] ELSE st

Add(id) ==
  /\ Settled /\ status[id] = "new"
  /\ items' = Append(items, id)
  /\ downloads' = IF id \in streaming THEN downloads \union {id} ELSE downloads
  /\ video' = IF id \in streaming THEN [video EXCEPT ![id] = "running"] ELSE video
  /\ PrepareNext(Append(items, id), [status EXCEPT ![id] = "waiting"], preparing, running)
  /\ UNCHANGED <<waits, awaitingNext, startVars, seen, playVars, remounts>>

\* runPrepare() after the song is prepared; a bundle doesn't look at its signal.
Prepared(r) ==
  /\ Settled /\ r \in running /\ (r.aborted => r.id \in LocalSongs)
  /\ LET waiting == r.id \in downloads IN
       /\ waits' = IF waiting THEN [waits EXCEPT ![r.id] = "live"] ELSE waits
       /\ PrepareNext(items, Put(status, r.id, IF waiting THEN "downloadingVideo" ELSE "ready"), NoSong, running \ {r})
  /\ UNCHANGED <<items, downloads, video, awaitingNext, startVars, seen, playVars, remounts>>

\* runPrepare()'s catch: an aborted song is to be prepared again.
PrepareFailed(r) ==
  /\ Settled /\ r \in running
  /\ PrepareNext(items, Put(status, r.id, IF r.aborted THEN "waiting" ELSE "failed"), NoSong, running \ {r})
  /\ UNCHANGED <<items, dlVars, awaitingNext, startVars, seen, playVars, remounts>>

\* The download is over, its video on disk or given up.
VideoDone(id) ==
  /\ Settled /\ video[id] = "running"
  /\ video' = [video EXCEPT ![id] = "done"]
  /\ UNCHANGED <<items, prepVars, downloads, waits, awaitingNext, startVars, seen, playVars, remounts>>

\* Mutant: the abort isn't looked at.
WaitOverAnyway(id) ==
  /\ Settled
  /\ waits[id] = "aborted" \/ (waits[id] = "live" /\ video[id] = "done")
  /\ waits' = [waits EXCEPT ![id] = "no"]
  /\ downloads' = downloads \ {id}
  /\ status' = Put(status, id, "ready") /\ UNCHANGED <<preparing, running>>
  /\ UNCHANGED <<items, video, awaitingNext, startVars, seen, playVars, remounts>>

\* Mutant: the song is left for a prepare under way to find.
WaitOverUnprepared(id) ==
  /\ Settled
  /\ waits[id] = "aborted" \/ (waits[id] = "live" /\ video[id] = "done")
  /\ waits' = [waits EXCEPT ![id] = "no"]
  /\ downloads' = IF waits[id] = "live" THEN downloads \ {id} ELSE downloads
  /\ status' = Put(status, id, IF waits[id] = "live" THEN "ready" ELSE "waiting")
  /\ UNCHANGED <<items, preparing, running, video, awaitingNext, startVars, seen, playVars, remounts>>

\* markReadyOnceVideoIsDone() after its await.
WaitOver(id) ==
  /\ Settled
  /\ \/ /\ waits[id] = "live" /\ video[id] = "done"
        /\ downloads' = downloads \ {id}
        /\ status' = Put(status, id, "ready") /\ UNCHANGED <<preparing, running>>
     \/ /\ waits[id] = "aborted"
        /\ PrepareNext(items, Put(status, id, "waiting"), preparing, running)
        /\ UNCHANGED downloads
  /\ waits' = [waits EXCEPT ![id] = "no"]
  /\ UNCHANGED <<items, video, awaitingNext, startVars, seen, playVars, remounts>>

(***************************************************************************)
(* Changing the queue.                                                     *)
(***************************************************************************)

Abort(run, ids) == {[r EXCEPT !.aborted = @ \/ r.id \in ids] : r \in run}
Cancelled(dl, ids) == [s \in Songs |-> IF s \in ids /\ dl[s] = "running" THEN "aborted" ELSE dl[s]]
Unwaited(ids) == [s \in Songs |-> IF s \in ids /\ waits[s] = "live" THEN "aborted" ELSE waits[s]]

\* Mutant: the song stays where it was too.
MoveCopied(from, to) ==
  /\ Settled /\ from # to
  /\ items' = InsertAt(items, to, items[from])
  /\ UNCHANGED <<prepVars, dlVars, awaitingNext, startVars, seen, playVars, remounts>>

\* move() of a song to another place.
Move(from, to) ==
  /\ Settled /\ from # to
  /\ items' = InsertAt(RemoveAt(items, from), to, items[from])
  /\ UNCHANGED <<prepVars, dlVars, awaitingNext, startVars, seen, playVars, remounts>>

RemoveItem(id) ==
  /\ Settled /\ id \in ToSet(items)
  /\ items' = RemoveFirst(items, id)
  /\ status' = [status EXCEPT ![id] = "gone"]
  /\ running' = IF preparing = id THEN Abort(running, {id}) ELSE running
  /\ LET held == downloads \intersect {id} IN
       downloads' = downloads \ held /\ video' = Cancelled(video, held) /\ waits' = Unwaited(held)
  /\ UNCHANGED <<preparing, awaitingNext, startVars, seen, playVars, remounts>>

\* dispose() and init() again, as React's StrictMode and a hot reload do it:
\* all is aborted, and what isn't ready is downloaded anew.
Remount ==
  /\ Settled /\ remounts < MaxRemounts /\ remounts' = remounts + 1
  /\ LET again == {s \in ToSet(items) \intersect streaming : status[s] \notin {"ready", "failed"}} IN
       /\ downloads' = again
       /\ video' = [s \in Songs |-> IF s \in again THEN "running" ELSE Cancelled(video, downloads)[s]]
  /\ waits' = Unwaited(downloads)
  /\ PrepareNext(items, status, preparing, Abort(running, {preparing}))
  /\ preloaded' = NoSong
  /\ seen' = Unseen
  /\ UNCHANGED <<items, awaitingNext, starting, starts, nowPlaying, history, playVars>>

(***************************************************************************)
(* Reactions, and starting a song.                                         *)
(***************************************************************************)

\* The song that plays next is to start: start() up to its first await, in
\* which loadPreparedSong() takes the song's preload or makes one.
ReactToNext ==
  /\ seen[1] # ToStart
  /\ seen' = [seen EXCEPT ![1] = ToStart]
  /\ IF awaitingNext /\ nextReadySong # NoSong
       THEN /\ awaitingNext' = FALSE /\ starting' = nextReadySong
            /\ items' = RemoveFirst(items, nextReadySong)
            /\ status' = [status EXCEPT ![nextReadySong] = "gone"]
            /\ downloads' = downloads \ {nextReadySong}
            /\ starts' = [starts EXCEPT ![nextReadySong] = "audio"]
            /\ preloaded' = NoSong
       ELSE UNCHANGED <<awaitingNext, starting, items, status, downloads, starts, preloaded>>
  /\ UNCHANGED <<preparing, running, video, waits, nowPlaying, history, playVars, remounts>>

\* Mutant: the song is preloaded whether or not another is starting, and
\* not looked at again after.
ReactToPreloadAtOnce ==
  /\ seen[2] # ToPreload
  /\ seen' = [seen EXCEPT ![2] = ToPreload]
  /\ preloaded' = IF ToPreload[1] = "idle" /\ seen[2][2] # nextReadySong THEN nextReadySong ELSE preloaded
  /\ UNCHANGED <<items, prepVars, dlVars, awaitingNext, starting, starts, nowPlaying, history, playVars, remounts>>

\* The song to preload, held while another starts.
ReactToPreload ==
  /\ seen[2] # ToPreload
  /\ seen' = [seen EXCEPT ![2] = ToPreload]
  /\ preloaded' = IF ToPreload[1] = "idle" THEN nextReadySong ELSE preloaded
  /\ UNCHANGED <<items, prepVars, dlVars, awaitingNext, starting, starts, nowPlaying, history, playVars, remounts>>

OldPlays == [i \in DOMAIN plays |-> [plays[i] EXCEPT !.current = FALSE]]

\* PlaybackEngine.stop()
Silence == transport' = "idle" /\ plays' = OldPlays

\* PlaybackEngine.play() up to its await, for `by`; nothing without audio.
PlayFor(by) == transport' = "loading" /\ plays' = Append(OldPlays, [by |-> by, current |-> TRUE])

\* loadPreparedSong() with its audio: the current song is cleared and this one
\* installed, `got` unless none of its stems could be decoded.
AudioIn(id, got) ==
  /\ Settled /\ starts[id] \in {"audio", "retry"}
  /\ starts' = [starts EXCEPT ![id] = "frame"]
  /\ Silence /\ installed' = got
  /\ UNCHANGED <<items, prepVars, dlVars, awaitingNext, starting, nowPlaying, history, preloaded, seen, remounts>>

\* Some stem failed: again, without the current song in memory.
Retry(id) ==
  /\ Settled /\ starts[id] = "audio"
  /\ starts' = [starts EXCEPT ![id] = "retry"]
  /\ Silence /\ installed' = NoSong
  /\ UNCHANGED <<items, prepVars, dlVars, awaitingNext, starting, nowPlaying, history, preloaded, seen, remounts>>

\* Mutant: a song that didn't start is waited for.
FinishStartStill(id, plays_) ==
  /\ starts' = [starts EXCEPT ![id] = "no"]
  /\ starting' = NoSong /\ UNCHANGED awaitingNext
  /\ IF plays_ THEN nowPlaying' = id /\ history' = <<id>> \o history
               ELSE UNCHANGED <<nowPlaying, history>>

\* The end of start(id), the transport as it is then: recordPlayed() if the
\* song plays, and finishStart().
FinishStart(id, plays_) ==
  /\ starts' = [starts EXCEPT ![id] = "no"]
  /\ starting' = NoSong
  /\ awaitingNext' = (transport' # "playing")
  /\ IF plays_ THEN nowPlaying' = id /\ history' = <<id>> \o history
               ELSE UNCHANGED <<nowPlaying, history>>

\* Its audio can't be had at all.
LoadFailed(id) ==
  /\ Settled /\ starts[id] \in {"audio", "retry"}
  /\ UNCHANGED playVars
  /\ FinishStart(id, FALSE)
  /\ UNCHANGED <<items, prepVars, dlVars, preloaded, seen, remounts>>

\* waitForFirstFrame() is over: play, if there is audio to.
FirstFrame(id) ==
  /\ Settled /\ starts[id] = "frame"
  /\ IF installed = NoSong
       THEN UNCHANGED playVars /\ FinishStart(id, transport = "playing")
       ELSE /\ PlayFor(id) /\ starts' = [starts EXCEPT ![id] = "play"]
            /\ UNCHANGED <<installed, awaitingNext, starting, nowPlaying, history>>
  /\ UNCHANGED <<items, prepVars, dlVars, preloaded, seen, remounts>>

\* A play() after its await, started or not; then the start() that called it.
PlayAnswered(ok) ==
  /\ Settled /\ plays # <<>>
  /\ LET p == Head(plays) IN
       /\ IF ~ p.current
            THEN transport' = transport /\ plays' = Tail(plays)
            ELSE transport' = (IF ok THEN "playing" ELSE "idle") /\ plays' = Tail(plays)
       /\ IF p.by \in Songs
            THEN FinishStart(p.by, transport' = "playing")
            ELSE /\ awaitingNext' = (awaitingNext /\ transport' # "playing")
                 /\ UNCHANGED <<starts, starting, nowPlaying, history>>
  /\ UNCHANGED <<items, prepVars, dlVars, preloaded, seen, installed, remounts>>

\* skip(): the song isn't cleared when the next can follow at once.
Skip ==
  /\ Settled /\ ~ awaitingNext /\ starting = NoSong /\ nextPlayable # NoSong
  /\ Silence
  /\ installed' = IF nextReadySong # NoSong THEN installed ELSE NoSong
  /\ nowPlaying' = NoSong /\ awaitingNext' = TRUE
  /\ UNCHANGED <<items, prepVars, dlVars, starting, starts, history, preloaded, seen, remounts>>

(***************************************************************************)
(* The transport in the user's hands, and the end of a song.               *)
(***************************************************************************)

UserPlay ==
  /\ Settled /\ transport \in {"idle", "loading"} /\ installed # NoSong
  /\ Impatient \/ \A s \in Songs : starts[s] = "no"
  /\ \A i \in DOMAIN plays : plays[i].by # NoSong
  /\ PlayFor(NoSong)
  /\ UNCHANGED <<items, prepVars, dlVars, awaitingNext, startVars, seen, installed, remounts>>

\* pause() and resume(); reaching "playing" again clears awaitingNext.
UserPause ==
  /\ Settled
  /\ \/ transport = "playing" /\ transport' = "paused" /\ UNCHANGED awaitingNext
     \/ transport = "paused" /\ transport' = "playing" /\ awaitingNext' = FALSE
  /\ UNCHANGED <<items, prepVars, dlVars, startVars, seen, installed, plays, remounts>>

UserStop ==
  /\ Settled /\ transport # "idle" /\ Silence
  /\ UNCHANGED <<items, prepVars, dlVars, awaitingNext, startVars, seen, installed, remounts>>

\* finish(), and what listens to it: setAwaitingNext().
Ended ==
  /\ Settled /\ transport = "playing"
  /\ Impatient \/ starting = NoSong
  /\ Silence /\ awaitingNext' = TRUE
  /\ UNCHANGED <<items, prepVars, dlVars, startVars, seen, installed, remounts>>

Goes(id) == \/ VideoDone(id) \/ WaitOver(id)
            \/ AudioIn(id, id) \/ AudioIn(id, NoSong) \/ Retry(id) \/ LoadFailed(id) \/ FirstFrame(id)
Reacts == ReactToNext \/ ReactToPreload
Prepares == \E r \in running : Prepared(r) \/ PrepareFailed(r)
Answers == PlayAnswered(TRUE) \/ PlayAnswered(FALSE)

QNext ==
  \/ \E id \in Songs : Add(id) \/ RemoveItem(id) \/ Goes(id)
  \/ \E from, to \in DOMAIN items : Move(from, to)
  \/ Prepares \/ Remount \/ Reacts \/ Answers
  \/ Skip \/ UserPlay \/ UserPause \/ UserStop \/ Ended

QSpec == QInit /\ [][QNext /\ UNCHANGED streaming]_<<vars, streaming>>

\* Reactions run; prepares, downloads, loads and starts end, the event loop
\* coming to each whatever the user does between (hence SF: the reactions to
\* that hold the others up).  Nobody has to act, and no song to end.
QFairSpec ==
  /\ QSpec
  /\ WF_vars(Reacts) /\ SF_vars(Prepares) /\ SF_vars(Answers)
  /\ \A id \in Songs : SF_vars(Goes(id))

(***************************************************************************)
(* Properties.                                                             *)
(***************************************************************************)

Statuses == {"new", "waiting", "preparing", "downloadingVideo", "ready", "failed", "gone"}

\* Every field has its type, and the queue holds each song once.
QTypeOK ==
  /\ streaming \subseteq Songs
  /\ items \in Seq(Songs) /\ status \in [Songs -> Statuses]
  /\ IsInjective(items) /\ ToSet(items) = {s \in Songs : status[s] \notin {"new", "gone"}}
  /\ preparing \in Songs \union {NoSong}
  /\ running \subseteq [id : Songs, aborted : BOOLEAN]
  /\ downloads \subseteq streaming /\ video \in [Songs -> {"none", "running", "done", "aborted"}]
  /\ waits \in [Songs -> {"no", "live", "aborted"}]
  /\ {starting, nowPlaying, preloaded, installed} \subseteq Songs \union {NoSong}
  /\ history \in Seq(Songs) /\ starts \in [Songs -> {"no", "audio", "retry", "frame", "play"}]
  /\ awaitingNext \in BOOLEAN /\ transport \in {"idle", "loading", "playing", "paused"}

\* One song is prepared at a time, the one the presenter says, and never
\* from a download it has aborted (queue_presenter.ts:232); and one is started
\* at a time, the one shown as starting.
OneAtATime ==
  /\ Cardinality(running) <= 1
  /\ \A r \in running : /\ preparing = r.id
                        /\ ~ r.aborted => video[r.id] # "aborted"
  /\ preparing # NoSong => running # {}
  /\ \A s \in Songs : starts[s] # "no" => starting = s

\* A song is ready only once its video is done, whatever was restarted
\* meanwhile (queue_presenter.ts:266), and no download goes on for one that
\* isn't queued.
VideosMatchQueue ==
  \A s \in streaming : /\ status[s] = "ready" => video[s] = "done"
                       /\ video[s] = "running" => s \in ToSet(items)

\* The player never sits silent beside a song that's ready to play, but for
\* one the user stopped: none that ended, failed or was skipped is left without
\* the next being started.
NoStall ==
  (Settled /\ starting = NoSong /\ nextReadySong # NoSong)
     => ~ awaitingNext /\ (transport = "idle" => installed # NoSong)

\* Between starts the song that plays next is the one preloaded, and no
\* other is held in memory.
PreloadIsNext == (Settled /\ starting = NoSong) => preloaded = nextReadySong

\* A start that got as far as playing its song moves on to the next only if
\* the song isn't about to play after all (queue_presenter.ts:226).
MovesOnWhenSilent ==
  [][(\E s \in Songs : starts[s] = "play" /\ starts'[s] = "no" /\ awaitingNext') => transport' # "loading"]_vars

\* Every song waiting to be prepared is, or is removed; and while the player
\* waits for a song, one is started unless none is left that could be.
QueueMovesOn ==
  /\ \A s \in Songs : status[s] = "waiting" ~> status[s] # "waiting"
  /\ (awaitingNext /\ nextPlayable # NoSong) ~> (~ awaitingNext \/ nextPlayable = NoSong)

\* Types, and one song at a time.
QueueSafe == QTypeOK /\ OneAtATime
=============================================================================
