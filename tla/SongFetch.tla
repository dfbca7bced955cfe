------------------------------ MODULE SongFetch ------------------------------
(***************************************************************************)
(* Downloading queued songs: the jobs of aligner/app/music/fetch_jobs.py,  *)
(* each running MusicFacade.fetch() for its audio and fetch_video() for    *)
(* its backing video, and the songs' folders of song_cache.py, least       *)
(* recently used first out.  OnTheSpot, which downloads the audio, is      *)
(* another program: its queue and its one file per track are as the facade *)
(* sees them.                                                              *)
(*                                                                         *)
(* The facade, the jobs and the video's tasks run on one event loop;       *)
(* adopting a download, downloading a video and trimming the folders run   *)
(* on threads, which a cancelled task leaves behind or waits out.          *)
(***************************************************************************)
EXTENDS Naturals, Sequences, FiniteSets, SequencesExt

CONSTANTS Jobs, NoJob, Songs, NoSong,
          VideoSlots,   \* MAX_CONCURRENT_VIDEO_DOWNLOADS
          Cap,          \* cache_songs_cap_bytes; a song's audio and its video are 1 each
          Torn          \* whether anything happens between trim's look at a folder and its removal

ASSUME SongFetchAssumption ==
  /\ NoJob \notin Jobs /\ NoSong \notin Songs /\ IsFiniteSet(Jobs) /\ IsFiniteSet(Songs)
  /\ VideoSlots \in Nat \ {0} /\ Cap \in Nat /\ Torn \in BOOLEAN

VARIABLES pc,       \* job -> where _run() is
          song,     \* job -> its song
          known,    \* jobs in FetchJobs._jobs
          audio,    \* job -> its audio ref: in the song's "folder", at "onthespot", or "none"
          taken,    \* jobs whose audio the client has got
          vid,      \* job -> where _download_video() is
          adopting, \* job -> where the thread of _adopt_download() is
          adopter,  \* the job whose thread has _adopt_lock
          asked,    \* song -> how many of its downloads OnTheSpot hasn't queued yet
          items,    \* OnTheSpot's queue, by local_id
          file,     \* songs whose file is in OnTheSpot's downloads
          order,    \* the songs with a folder, by its mtime
          recent,   \* songs used in the last hour
          held, video,     \* songs whose folder has the audio, the video
          trimDue, trim,   \* a trim to come; the folders, with their sizes, one has to look at
          total, condemned,  \* trim's total; the folder it is about to remove
          how       \* what adopting a download does: "moves", "fails", or "unshared"

taskVars   == <<pc, song, known, audio, taken, vid, adopting, adopter>>
theirVars  == <<asked, items, file>>
folderVars == <<order, recent, held, video>>
trimVars   == <<trimDue, trim, total, condemned>>
vars       == <<taskVars, theirVars, folderVars, trimVars, how>>

Idle == [j \in Jobs |-> "none"]

Init ==
  /\ pc = Idle /\ song \in [Jobs -> Songs] /\ known = {} /\ taken = {}
  /\ audio = Idle /\ vid = Idle /\ adopting = Idle /\ adopter = NoJob
  /\ asked = [s \in Songs |-> 0] /\ items = <<>> /\ file = {}
  /\ order = <<>> /\ recent = {} /\ held = {} /\ video = {}
  /\ trimDue = FALSE /\ trim = <<>> /\ total = 0 /\ condemned = NoSong
  /\ how \in {"moves", "fails", "unshared"}

(***************************************************************************)
(* A song's folder.                                                        *)
(***************************************************************************)

\* touch_song_dir(): no folder, no mtime.
Touch(s) ==
  IF s \in ToSet(order) THEN order' = Append(RemoveFirst(order, s), s) /\ recent' = recent \union {s}
                        ELSE UNCHANGED <<order, recent>>

\* mkdir(): new, or just used.
MakeFolder(s) == order' = Append(RemoveFirst(order, s), s) /\ recent' = recent \union {s}

\* held_download(), but for its touch.
Held(s) == s \in held

(***************************************************************************)
(* The job: FetchJobs._run() and MusicFacade.fetch().                      *)
(***************************************************************************)

At(j, l) == pc[j] = l
Go(j, l) == pc' = [pc EXCEPT ![j] = l]
Answer(j, a) == audio' = [audio EXCEPT ![j] = a]

\* POST /music/fetch
Start(j) ==
  /\ At(j, "none") /\ Go(j, "begin") /\ known' = known \union {j}
  /\ UNCHANGED <<song, audio, taken, vid, adopting, adopter, theirVars, folderVars, trimVars, how>>

\* The video's task is made; a track held is answered at once.
Begin(j) ==
  /\ At(j, "begin")
  /\ vid' = [vid EXCEPT ![j] = "begin"]
  /\ Touch(song[j])
  /\ \/ Held(song[j]) /\ Go(j, "video") /\ Answer(j, "folder")
     \/ ~Held(song[j]) /\ Go(j, "enqueue") /\ UNCHANGED audio
  /\ UNCHANGED <<song, known, taken, adopting, adopter, theirVars, held, video, trimVars, how>>

\* parse_url(), which OnTheSpot may have done even if it doesn't answer.
Enqueue(j) ==
  /\ At(j, "enqueue")
  /\ \/ Go(j, "poll") /\ asked' = [asked EXCEPT ![song[j]] = @ + 1]
     \/ Go(j, "end") /\ asked' \in {asked, [asked EXCEPT ![song[j]] = @ + 1]}
  /\ UNCHANGED <<song, known, audio, taken, vid, adopting, adopter, items, file, folderVars, trimVars, how>>

\* _moved_away()
MovedAway(i) == how # "unshared" /\ items[i].status = "done" /\ items[i].song \notin file

\* Mutant: the newest entry, even of a download adopted before.
FindNewest(s) == {i \in DOMAIN items : items[i].song = s /\ \A k \in DOMAIN items : items[k].song = s => k <= i}

\* _find_queue_item(): the newest entry of the song, if any.
FindItem(s) ==
  LET matches == {i \in DOMAIN items : items[i].song = s /\ ~MovedAway(i)}
  IN {i \in matches : \A k \in matches : k <= i}

Poll(j) ==
  /\ At(j, "poll")
  /\ LET found == FindItem(song[j])
         Status(status) == \E i \in found : items[i].status = status
     IN \/ /\ found = {} /\ Touch(song[j])
           /\ Held(song[j]) /\ Go(j, "video") /\ Answer(j, "folder")
           /\ UNCHANGED adopting
        \/ /\ Status("done") /\ Go(j, "adopt") /\ adopting' = [adopting EXCEPT ![j] = "waiting"]
           /\ UNCHANGED <<audio, order, recent>>
        \/ Status("failed") /\ Go(j, "end") /\ UNCHANGED <<audio, adopting, order, recent>>
  /\ UNCHANGED <<song, known, taken, vid, adopter, theirVars, held, video, trimVars, how>>

\* Mutant: the deadline is looked at only while the download isn't in the queue.
TimedOutUnqueued(j) ==
  /\ At(j, "poll") /\ FindItem(song[j]) = {} /\ Go(j, "end")
  /\ UNCHANGED <<song, known, audio, taken, vid, adopting, adopter, theirVars, folderVars, trimVars, how>>

\* Past the deadline, or out of contact.
TimedOut(j) ==
  /\ At(j, "poll") /\ Go(j, "end")
  /\ UNCHANGED <<song, known, audio, taken, vid, adopting, adopter, theirVars, folderVars, trimVars, how>>

\* The audio is there, and so is the video, or it never will be.
VideoAwaited(j) ==
  /\ At(j, "video") /\ vid[j] = "done" /\ Go(j, "end")
  /\ UNCHANGED <<song, known, audio, taken, vid, adopting, adopter, theirVars, folderVars, trimVars, how>>

\* The finally: a video's task that isn't on a thread ends with its cancellation.
Ending(j) ==
  /\ At(j, "end")
  /\ \/ vid[j] \in {"begin", "slot"} /\ vid' = [vid EXCEPT ![j] = "done"] /\ UNCHANGED pc
     \/ vid[j] = "done" /\ Go(j, "done") /\ UNCHANGED vid
  /\ UNCHANGED <<song, known, audio, taken, adopting, adopter, theirVars, folderVars, trimVars, how>>

\* Mutant: the lock is the task's, and freed with it.
CancelFreesMove(j) ==
  /\ j \in known /\ known' = known \ {j} /\ taken' = taken \ {j} /\ Answer(j, "none")
  /\ pc' = [pc EXCEPT ![j] = CASE @ = "begin" -> "done" [] @ = "done" -> "done" [] OTHER -> "end"]
  /\ adopter' = IF adopter = j THEN NoJob ELSE adopter
  /\ UNCHANGED <<song, vid, adopting, theirVars, folderVars, trimVars, how>>

\* cancel(): DELETE, or nobody has polled for ABANDONED_AFTER_SEC.  A task that
\* hasn't begun never does.
Cancel(j) ==
  /\ j \in known /\ known' = known \ {j} /\ taken' = taken \ {j} /\ Answer(j, "none")
  /\ pc' = [pc EXCEPT ![j] = CASE @ = "begin" -> "done" [] @ = "done" -> "done" [] OTHER -> "end"]
  /\ UNCHANGED <<song, vid, adopting, adopter, theirVars, folderVars, trimVars, how>>

\* The client gets the audio it was told of.
Take(j) ==
  /\ j \in known /\ audio[j] # "none" /\ j \notin taken /\ taken' = taken \union {j}
  /\ IF audio[j] = "folder" THEN Touch(song[j]) ELSE UNCHANGED <<order, recent>>
  /\ UNCHANGED <<pc, song, known, audio, vid, adopting, adopter, theirVars, held, video, trimVars, how>>

(***************************************************************************)
(* _adopt_download(), on a thread; what it returns is lost on a task that  *)
(* has been cancelled.                                                     *)
(***************************************************************************)

Return(j, a) ==
  /\ adopting' = [adopting EXCEPT ![j] = "none"]
  /\ IF At(j, "adopt") THEN Go(j, "video") /\ Answer(j, a) ELSE UNCHANGED <<pc, audio>>

\* Under the lock: held by now, or not to be moved...
Adopt(j) ==
  /\ adopting[j] = "waiting" /\ adopter = NoJob
  /\ Touch(song[j])
  /\ LET src == how # "unshared" /\ song[j] \in file
     IN \/ Held(song[j]) /\ Return(j, "folder") /\ UNCHANGED adopter
        \/ ~Held(song[j]) /\ ~src /\ Return(j, "onthespot") /\ UNCHANGED adopter
        \/ /\ ~Held(song[j]) /\ src
           /\ adopting' = [adopting EXCEPT ![j] = "moving"] /\ adopter' = j
           /\ UNCHANGED <<pc, audio>>
  /\ UNCHANGED <<song, known, taken, vid, theirVars, held, video, trimVars, how>>

\* ... or moved, and the folders trimmed after it.
Adopted(j) ==
  /\ adopting[j] = "moving" /\ adopter' = NoJob
  /\ IF how = "moves"
       THEN /\ Return(j, "folder") /\ MakeFolder(song[j])
            /\ held' = held \union {song[j]} /\ file' = file \ {song[j]} /\ trimDue' = TRUE
       ELSE Return(j, "onthespot") /\ UNCHANGED <<order, recent, held, file, trimDue>>
  /\ UNCHANGED <<song, known, taken, vid, asked, items, video, trim, total, condemned, how>>

(***************************************************************************)
(* _download_video(), and fetch_video() on its thread.                     *)
(***************************************************************************)

OnThread == {"lock", "fetch", "lost"}
Video(j, l) == vid' = [vid EXCEPT ![j] = l]

\* cached_video()
VideoBegin(j) ==
  /\ vid[j] = "begin" /\ ~At(j, "end") /\ Touch(song[j])
  /\ Video(j, IF song[j] \in video THEN "done" ELSE "slot")
  /\ UNCHANGED <<pc, song, known, audio, taken, adopting, adopter, theirVars, held, video, trimVars, how>>

\* Mutant: as many as there are jobs.
VideoSlotAny(j) ==
  /\ vid[j] = "slot" /\ ~At(j, "end")
  /\ Video(j, "lock") /\ Touch(song[j])
  /\ UNCHANGED <<pc, song, known, audio, taken, adopting, adopter, theirVars, held, video, trimVars, how>>

\* One of _video_slots, and the thread.
VideoSlot(j) ==
  /\ vid[j] = "slot" /\ ~At(j, "end")
  /\ Cardinality({k \in Jobs : vid[k] \in OnThread}) < VideoSlots
  /\ Video(j, "lock") /\ Touch(song[j])
  /\ UNCHANGED <<pc, song, known, audio, taken, adopting, adopter, theirVars, held, video, trimVars, how>>

\* The video's own lock; downloaded by now, or to be.
VideoLock(j) ==
  /\ vid[j] = "lock" /\ \A k \in Jobs : vid[k] \in {"fetch", "lost"} => song[k] # song[j]
  /\ IF song[j] \in video THEN Video(j, "done") /\ UNCHANGED <<order, recent>>
                          ELSE Video(j, "fetch") /\ MakeFolder(song[j])
  /\ UNCHANGED <<pc, song, known, audio, taken, adopting, adopter, theirVars, held, video, trimVars, how>>

\* Downloaded and stored; failed, or stopped by its job's cancellation; or its
\* folder went from under it.
VideoFetched(j) ==
  /\ vid[j] \in {"fetch", "lost"} /\ Video(j, "done")
  /\ \/ vid[j] = "fetch" /\ video' = video \union {song[j]} /\ trimDue' = TRUE
     \/ UNCHANGED <<video, trimDue>>
  /\ UNCHANGED <<pc, song, known, audio, taken, adopting, adopter, theirVars, order, recent, held, trim, total,
                 condemned, how>>

(***************************************************************************)
(* trim_songs(), on a thread that has _trim_lock.                          *)
(***************************************************************************)

Size(s) == Cardinality({s} \intersect held) + Cardinality({s} \intersect video)

Trim ==
  /\ trimDue /\ trim = <<>> /\ condemned = NoSong
  /\ trimDue' = FALSE
  /\ trim' = [n \in DOMAIN order |-> [song |-> order[n], size |-> Size(order[n])]]
  /\ total' = FoldSet(LAMBDA s, sum : sum + Size(s), 0, ToSet(order))
  /\ UNCHANGED <<taskVars, theirVars, folderVars, condemned, how>>

\* One folder: looked at now, and to be removed if nothing has used it for an hour.
TrimNext ==
  /\ trim # <<>> /\ condemned = NoSong /\ trim' = Tail(trim)
  /\ LET s == Head(trim).song
         evict == (total > Cap \/ Head(trim).size = 0) /\ s \in ToSet(order) \ recent
     IN /\ total' = IF evict THEN total - Head(trim).size ELSE total
        /\ condemned' = IF evict THEN s ELSE NoSong
  /\ UNCHANGED <<taskVars, theirVars, folderVars, trimDue, how>>

\* rmtree(), under a video that is being downloaded too.
TrimRemove ==
  /\ condemned # NoSong /\ condemned' = NoSong
  /\ order' = RemoveFirst(order, condemned) /\ recent' = recent \ {condemned}
  /\ held' = held \ {condemned} /\ video' = video \ {condemned}
  /\ vid' = [j \in Jobs |-> IF vid[j] = "fetch" /\ song[j] = condemned THEN "lost" ELSE vid[j]]
  /\ UNCHANGED <<pc, song, known, audio, taken, adopting, adopter, theirVars, trimDue, trim, total, how>>

(***************************************************************************)
(* OnTheSpot, and time.                                                    *)
(***************************************************************************)

Queues(s) ==
  /\ asked[s] > 0 /\ asked' = [asked EXCEPT ![s] = @ - 1]
  /\ items' = Append(items, [song |-> s, status |-> "waiting"])
  /\ UNCHANGED <<taskVars, file, folderVars, trimVars, how>>

Downloads(i) ==
  /\ items[i].status = "waiting"
  /\ \E status \in {"done", "failed"} :
       /\ items' = [items EXCEPT ![i].status = status]
       /\ file' = IF status = "done" THEN file \union {items[i].song} ELSE file
  /\ UNCHANGED <<taskVars, asked, folderVars, trimVars, how>>

\* A client that has yet to get an answer.
Awaits(j) == j \in known /\ j \notin taken /\ audio[j] # "none"

\* restart(), for a new account, or a crash: its queue is gone.  Clients told
\* to get a download from it have got it.
OnTheSpotRestarts ==
  /\ \A j \in Jobs : ~(Awaits(j) /\ audio[j] = "onthespot") /\ adopting[j] = "none"
  /\ items' = <<>> /\ asked' = [s \in Songs |-> 0]
  /\ UNCHANGED <<taskVars, file, folderVars, trimVars, how>>

\* _IN_USE_SEC go by without a use of the folder, the least recent first.  A
\* client gets its answer, and a thread moves a file, within that time.
Age(s) ==
  /\ s \in recent /\ s = SelectSeq(order, LAMBDA t : t \in recent)[1]
  /\ \A j \in Jobs : song[j] = s => ~Awaits(j) /\ adopting[j] = "none"
  /\ recent' = recent \ {s}
  /\ UNCHANGED <<taskVars, theirVars, order, held, video, trimVars, how>>

Steps(j) ==
  \/ Begin(j) \/ Enqueue(j) \/ Poll(j) \/ TimedOut(j) \/ VideoAwaited(j) \/ Ending(j)

Threads(j) ==
  \/ Adopt(j) \/ Adopted(j)
  \/ VideoBegin(j) \/ VideoSlot(j) \/ VideoLock(j) \/ VideoFetched(j)

Whole == Torn \/ condemned = NoSong

Others ==
  \/ Trim \/ TrimNext \/ OnTheSpotRestarts
  \/ \E j \in Jobs : Start(j) \/ Steps(j) \/ Threads(j) \/ Cancel(j) \/ Take(j)
  \/ \E s \in Songs : Queues(s) \/ Age(s)
  \/ \E i \in DOMAIN items : Downloads(i)

Next ==
  \/ TrimRemove
  \/ Whole /\ Others

Spec == Init /\ [][Next]_vars

\* The event loop and the threads run on, in any order: a download of yt-dlp's
\* ends, its connections time out.  OnTheSpot may do nothing at all.
FairSpec ==
  Spec /\ WF_vars(TrimRemove \/ (Whole /\ \E j \in Jobs : Steps(j) \/ Threads(j)))

(***************************************************************************)
(* Properties.                                                             *)
(***************************************************************************)

\* Threads belong to jobs that are under way or cancelled, one has the lock
\* when it moves, and no more than VideoSlots download.
FTypeOK ==
  /\ pc \in [Jobs -> {"none", "begin", "enqueue", "poll", "adopt", "video", "end", "done"}]
  /\ audio \in [Jobs -> {"none", "folder", "onthespot"}] /\ taken \subseteq Jobs /\ known \subseteq Jobs
  /\ vid \in [Jobs -> {"none", "begin", "slot", "done"} \union OnThread]
  /\ adopting \in [Jobs -> {"none", "waiting", "moving"}]
  /\ adopter \in Jobs => adopting[adopter] = "moving"
  /\ Cardinality({j \in Jobs : vid[j] \in OnThread}) <= VideoSlots
  /\ \A j \in Jobs : pc[j] \in {"none", "begin"} => vid[j] = "none"
  /\ \A j \in Jobs : pc[j] = "done" => vid[j] \in {"none", "done"}
  /\ \A j \in Jobs : audio[j] # "none" => pc[j] \in {"video", "end", "done"}
  /\ held \union video \subseteq ToSet(order) /\ recent \subseteq ToSet(order) /\ IsInjective(order)

\* A thread that moves a download moves a file that is there, into a folder
\* without it, alone: even when its job was cancelled and another has found the
\* same download.  (_adopt_download(): "A thread's lock, not asyncio's".)
MovesAlone ==
  \A j \in Jobs : adopting[j] = "moving" =>
    /\ adopter = j /\ song[j] \in file /\ ~Held(song[j])
    /\ \A k \in Jobs \ {j} : adopting[k] # "moving"

\* What a client was told to get is there to be got: not trimmed, not moved by
\* another job, not the file of an earlier download.  (fetch(),
\* _find_queue_item(), _in_use(); Torn is FALSE.)
AudioThere ==
  \A j \in Jobs : Awaits(j) =>
    /\ audio[j] = "folder" => Held(song[j])
    /\ audio[j] = "onthespot" => song[j] \in file

\* Every job comes to an end, its video's download too: whatever OnTheSpot
\* does, and however the jobs wait for each other's locks.  (fetch()'s
\* deadline, _run()'s finally.)
JobsEnd == <>[](\A j \in Jobs : pc[j] \in {"none", "done"})

\* Types, and downloads that are moved once.
FetchSafe == FTypeOK /\ MovesAlone
=============================================================================
