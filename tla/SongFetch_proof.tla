-------------------------- MODULE SongFetch_proof --------------------------
(***************************************************************************)
(* Theorems of SongFetch, for any number of jobs, songs and video slots: a  *)
(* download is moved by one thread alone, no more videos download than may, *)
(* and what a client was told to get is there.                              *)
(*                                                                         *)
(* The invariant says, beside the types, of a download under way who has   *)
(* the lock, of a folder what is in it, and of what a client is told, or   *)
(* will be, why it stays: a file because only moving takes it away, a      *)
(* folder because it was just used.                                        *)
(***************************************************************************)
EXTENDS SongFetch, SequenceLemmas, FiniteSetTheorems

\* Folders are in the order of use, each once; what is used or held is one.
FolderInv ==
  /\ order \in Seq(Songs) /\ IsInjective(order)
  /\ recent \subseteq ToSet(order) /\ held \cup video \subseteq ToSet(order)
  /\ condemned \in Songs \cup {NoSong}
  /\ \A j \in Jobs : vid[j] = "fetch" => song[j] \in ToSet(order)

Downloading == {j \in Jobs : vid[j] \in OnThread}

\* Where the jobs, their videos and their threads are.
TaskInv ==
  /\ song \in [Jobs -> Songs] /\ taken \subseteq Jobs /\ known \subseteq Jobs
  /\ pc \in [Jobs -> {"none", "begin", "enqueue", "poll", "adopt", "video", "end", "done"}]
  /\ audio \in [Jobs -> {"none", "folder", "onthespot"}]
  /\ vid \in [Jobs -> {"none", "begin", "slot", "done"} \cup OnThread]
  /\ adopting \in [Jobs -> {"none", "waiting", "moving"}]
  /\ \A j \in Jobs :
       /\ pc[j] \in {"none", "begin"} => vid[j] = "none"
       /\ pc[j] \in {"none", "begin", "enqueue", "poll"} => adopting[j] = "none"
       /\ pc[j] = "done" => vid[j] \in {"none", "done"}
       /\ audio[j] # "none" => pc[j] \in {"video", "end", "done"}
  /\ Cardinality(Downloading) <= VideoSlots
  /\ how \in {"moves", "fails", "unshared"}

\* The thread that moves a file has the lock, and its file is still to move.
MoveInv ==
  /\ adopter \in Jobs \cup {NoJob}
  /\ \A j \in Jobs : adopting[j] = "moving" <=> adopter = j
  /\ adopter \in Jobs =>
       how # "unshared" /\ song[adopter] \in file /\ song[adopter] \notin held

FetchInv == FolderInv /\ TaskInv /\ MoveInv

------------------------------------------------------------------------------
\* Using a folder makes it the last of those there are.
LEMMA TouchKeeps ==
  ASSUME FolderInv, NEW s \in Songs, Touch(s)
  PROVE  /\ order' \in Seq(Songs) /\ IsInjective(order')
         /\ ToSet(order') = ToSet(order)
         /\ recent' = IF s \in ToSet(order) THEN recent \cup {s} ELSE recent
         /\ recent' \subseteq ToSet(order')
<1>1. /\ Append(RemoveFirst(order, s), s) \in Seq(Songs)
      /\ ToSet(Append(RemoveFirst(order, s), s)) = ToSet(order) \cup {s}
      /\ IsInjective(Append(RemoveFirst(order, s), s))
  BY MoveToEndElements DEF FolderInv
<1>2. CASE s \in ToSet(order)
  BY <1>1, <1>2 DEF Touch, FolderInv
<1>3. CASE s \notin ToSet(order)
  BY <1>3 DEF Touch, FolderInv
<1>4. QED
  BY <1>2, <1>3

\* Making a folder, or using it, makes it the last.
LEMMA MakeKeeps ==
  ASSUME FolderInv, NEW s \in Songs, MakeFolder(s)
  PROVE  /\ order' \in Seq(Songs) /\ IsInjective(order')
         /\ ToSet(order') = ToSet(order) \cup {s}
         /\ recent' = recent \cup {s}
         /\ recent' \subseteq ToSet(order')
<1>1. /\ Append(RemoveFirst(order, s), s) \in Seq(Songs)
      /\ ToSet(Append(RemoveFirst(order, s), s)) = ToSet(order) \cup {s}
      /\ IsInjective(Append(RemoveFirst(order, s), s))
  BY MoveToEndElements DEF FolderInv
<1>2. QED
  BY <1>1 DEF MakeFolder, FolderInv

\* Every step keeps the folders in order.
LEMMA FolderStep ==
  ASSUME FolderInv, TaskInv, Next
  PROVE  FolderInv'
<1> DEFINE Ordered ==
      /\ order' \in Seq(Songs) /\ IsInjective(order') /\ recent' \subseteq ToSet(order')
      /\ ToSet(order) \subseteq ToSet(order')
<1>0. \A j \in Jobs : song[j] \in Songs
  BY DEF TaskInv
<1>1. CASE TrimRemove
  <2>1. /\ order' \in Seq(Songs) /\ IsInjective(order')
        /\ ToSet(order') = ToSet(order) \ {condemned}
    BY <1>1, RemoveElements DEF TrimRemove, FolderInv
  <2>2. \A j \in Jobs : vid'[j] = "fetch" => vid[j] = "fetch" /\ song[j] # condemned
    BY <1>1 DEF TrimRemove
  <2>3. QED
    BY <1>1, <2>1, <2>2 DEF TrimRemove, FolderInv
<1>2. CASE Trim
  BY <1>2 DEF Trim, FolderInv, taskVars, folderVars
<1>3. CASE TrimNext
  <2>1. condemned' \in ToSet(order) \cup {NoSong}
    BY <1>3 DEF TrimNext
  <2>2. condemned' \in Songs \cup {NoSong}
    BY <2>1, ToSetType DEF FolderInv
  <2>3. QED
    BY <1>3, <2>2 DEF TrimNext, FolderInv, taskVars, folderVars
<1>4. CASE OnTheSpotRestarts
  BY <1>4 DEF OnTheSpotRestarts, FolderInv, taskVars, folderVars, trimVars
<1>5. ASSUME NEW j \in Jobs, Start(j) \/ Enqueue(j) \/ TimedOut(j) \/ VideoAwaited(j) \/ Cancel(j)
      PROVE  FolderInv'
  BY <1>5 DEF Start, Enqueue, TimedOut, VideoAwaited, Cancel, FolderInv, folderVars, trimVars
<1>6. ASSUME NEW j \in Jobs, Ending(j)
      PROVE  FolderInv'
  BY <1>6 DEF Ending, FolderInv, folderVars, trimVars, TaskInv
<1>7. ASSUME NEW j \in Jobs, Begin(j) \/ VideoBegin(j) \/ VideoSlot(j)
      PROVE  FolderInv'
  <2>1. Touch(song[j]) /\ UNCHANGED <<song, held, video, condemned>>
    BY <1>7 DEF Begin, VideoBegin, VideoSlot, trimVars
  <2>2. Ordered /\ ToSet(order') = ToSet(order)
    BY <1>0, <2>1, TouchKeeps
  <2>3. \A k \in Jobs : vid'[k] = "fetch" => vid[k] = "fetch"
    BY <1>7 DEF Begin, VideoBegin, VideoSlot, Video, TaskInv
  <2>4. QED
    BY <2>1, <2>2, <2>3 DEF FolderInv
<1>8. ASSUME NEW j \in Jobs, Poll(j) \/ Take(j) \/ Adopt(j)
      PROVE  FolderInv'
  <2>1. UNCHANGED <<song, held, video, vid, condemned>>
    BY <1>8 DEF Poll, Take, Adopt, trimVars
  <2>2. Touch(song[j]) \/ UNCHANGED <<order, recent>>
    BY <1>8 DEF Poll, Take, Adopt
  <2>3. Ordered /\ ToSet(order') = ToSet(order)
    BY <1>0, <2>2, TouchKeeps DEF FolderInv
  <2>4. QED
    BY <2>1, <2>3 DEF FolderInv
<1>9. ASSUME NEW j \in Jobs, Adopted(j)
      PROVE  FolderInv'
  <2>1. UNCHANGED <<song, video, vid, condemned>>
    BY <1>9 DEF Adopted
  <2>2. CASE how = "moves"
    <3>1. MakeFolder(song[j]) /\ held' = held \cup {song[j]}
      BY <1>9, <2>2 DEF Adopted
    <3>2. Ordered /\ ToSet(order') = ToSet(order) \cup {song[j]}
      BY <1>0, <3>1, MakeKeeps
    <3>3. QED
      BY <2>1, <3>1, <3>2 DEF FolderInv
  <2>3. CASE how # "moves"
    BY <1>9, <2>1, <2>3 DEF Adopted, FolderInv
  <2>4. QED
    BY <2>2, <2>3
<1>10. ASSUME NEW j \in Jobs, VideoLock(j)
       PROVE  FolderInv'
  <2>1. UNCHANGED <<song, held, video, condemned>>
    BY <1>10 DEF VideoLock, trimVars
  <2>2. CASE song[j] \in video
    BY <1>10, <2>1, <2>2 DEF VideoLock, Video, FolderInv, TaskInv
  <2>3. CASE song[j] \notin video
    <3>1. MakeFolder(song[j]) /\ vid' = [vid EXCEPT ![j] = "fetch"]
      BY <1>10, <2>3 DEF VideoLock, Video
    <3>2. Ordered /\ ToSet(order') = ToSet(order) \cup {song[j]}
      BY <1>0, <3>1, MakeKeeps
    <3>3. \A k \in Jobs : vid'[k] = "fetch" => song[k] \in ToSet(order')
      BY <3>1, <3>2 DEF FolderInv, TaskInv
    <3>4. QED
      BY <2>1, <3>1, <3>2, <3>3 DEF FolderInv
  <2>4. QED
    BY <2>2, <2>3
<1>11. ASSUME NEW j \in Jobs, VideoFetched(j)
       PROVE  FolderInv'
  <2>1. UNCHANGED <<song, order, recent, held, condemned>> /\ vid' = [vid EXCEPT ![j] = "done"]
    BY <1>11 DEF VideoFetched, Video
  <2>2. video' = video \/ (video' = video \cup {song[j]} /\ vid[j] = "fetch")
    BY <1>11 DEF VideoFetched
  <2>3. video' \subseteq ToSet(order)
    BY <2>2 DEF FolderInv
  <2>4. \A k \in Jobs : vid'[k] = "fetch" => vid[k] = "fetch"
    BY <2>1 DEF TaskInv
  <2>5. QED
    BY <2>1, <2>3, <2>4 DEF FolderInv
<1>12. ASSUME NEW s \in Songs, Queues(s) \/ Age(s)
       PROVE  FolderInv'
  BY <1>12 DEF Queues, Age, FolderInv, taskVars, folderVars, trimVars
<1>13. ASSUME NEW i \in DOMAIN items, Downloads(i)
       PROVE  FolderInv'
  BY <1>13 DEF Downloads, FolderInv, taskVars, folderVars, trimVars
<1>14. QED
  BY <1>1, <1>2, <1>3, <1>4, <1>5, <1>6, <1>7, <1>8, <1>9, <1>10, <1>11, <1>12, <1>13
     DEF Next, Others, Steps, Threads

------------------------------------------------------------------------------
\* No more videos download when no thread is added.
LEMMA NoMoreThreads ==
  ASSUME TaskInv, \A j \in Jobs : vid'[j] \in OnThread => vid[j] \in OnThread
  PROVE  Cardinality(Downloading') <= VideoSlots
<1>1. Downloading' \subseteq Downloading /\ IsFiniteSet(Downloading)
  <2>1. Downloading' = {j \in Jobs : vid'[j] \in OnThread}
    BY DEF Downloading
  <2>2. Downloading' \subseteq Downloading
    BY <2>1 DEF Downloading
  <2>3. IsFiniteSet(Downloading)
    BY SongFetchAssumption, FS_Subset DEF Downloading
  <2>4. QED
    BY <2>2, <2>3
<1>2. IsFiniteSet(Downloading') /\ Cardinality(Downloading') <= Cardinality(Downloading)
  BY <1>1, FS_Subset
<1>3. Cardinality(Downloading) \in Nat /\ Cardinality(Downloading') \in Nat
  BY <1>1, <1>2, FS_CardinalityType
<1>4. QED
  BY <1>2, <1>3, SongFetchAssumption DEF TaskInv

\* Every step keeps the jobs where the code has them.
LEMMA TaskStep ==
  ASSUME TaskInv, Next
  PROVE  TaskInv'
<1> USE DEF TaskInv
<1>1. CASE TrimRemove
  <2>1. /\ UNCHANGED <<song, taken, known, pc, audio, adopting, how>>
        /\ vid' = [j \in Jobs |-> IF vid[j] = "fetch" /\ song[j] = condemned THEN "lost" ELSE vid[j]]
    BY <1>1 DEF TrimRemove
  <2>2. vid' \in [Jobs -> {"none", "begin", "slot", "done"} \cup OnThread]
    BY <2>1 DEF OnThread
  <2>3. \A j \in Jobs : vid'[j] = vid[j] \/ (vid'[j] = "lost" /\ vid[j] = "fetch")
    BY <2>1
  <2>4. \A j \in Jobs : /\ vid'[j] \in OnThread => vid[j] \in OnThread
                        /\ vid[j] \in {"none", "done"} => vid'[j] = vid[j]
    BY <2>3 DEF OnThread
  <2>5. Cardinality(Downloading') <= VideoSlots
    BY <2>4, NoMoreThreads
  <2>6. QED
    BY <2>1, <2>2, <2>4, <2>5
<1>2. CASE Trim \/ TrimNext \/ OnTheSpotRestarts \/ (\E s \in Songs : Queues(s) \/ Age(s))
           \/ (\E i \in DOMAIN items : Downloads(i))
  <2>1. UNCHANGED <<taskVars, how>>
    BY <1>2 DEF Trim, TrimNext, OnTheSpotRestarts, Queues, Age, Downloads
  <2>2. UNCHANGED Downloading
    BY <2>1 DEF taskVars, Downloading
  <2>3. QED
    BY <2>1, <2>2 DEF taskVars
<1>3. ASSUME NEW j \in Jobs,
             Start(j) \/ Enqueue(j) \/ Poll(j) \/ TimedOut(j) \/ VideoAwaited(j) \/ Cancel(j) \/ Take(j)
               \/ Adopt(j) \/ Adopted(j)
      PROVE  TaskInv'
  <2>1. UNCHANGED <<song, vid, how>>
    BY <1>3 DEF Start, Enqueue, Poll, TimedOut, VideoAwaited, Cancel, Take, Adopt, Adopted
  <2>2. Cardinality(Downloading') <= VideoSlots
    BY <2>1, NoMoreThreads
  <2>3. CASE Start(j) \/ Enqueue(j) \/ TimedOut(j) \/ VideoAwaited(j)
    BY <2>1, <2>2, <2>3 DEF Start, Enqueue, TimedOut, VideoAwaited, At, Go
  <2>4. CASE Poll(j)
    BY <2>1, <2>2, <2>4 DEF Poll, At, Go, Answer
  <2>5. CASE Cancel(j)
    BY <2>1, <2>2, <2>5 DEF Cancel, Answer
  <2>6. CASE Take(j)
    BY <2>1, <2>2, <2>6 DEF Take
  <2>7. CASE Adopt(j) \/ Adopted(j)
    BY <2>1, <2>2, <2>7 DEF Adopt, Adopted, Return, At, Go, Answer
  <2>8. QED
    BY <1>3, <2>3, <2>4, <2>5, <2>6, <2>7
<1>4. ASSUME NEW j \in Jobs, Begin(j) \/ Ending(j) \/ VideoBegin(j) \/ VideoLock(j) \/ VideoFetched(j)
      PROVE  TaskInv'
  <2>1. UNCHANGED <<song, taken, known, adopting, how>>
    BY <1>4 DEF Begin, Ending, VideoBegin, VideoLock, VideoFetched
  <2>2. \A k \in Jobs : vid'[k] \in OnThread => vid[k] \in OnThread
    BY <1>4 DEF Begin, Ending, VideoBegin, VideoLock, VideoFetched, Video, OnThread
  <2>3. Cardinality(Downloading') <= VideoSlots
    BY <2>2, NoMoreThreads
  <2>4. CASE Begin(j)
    BY <2>1, <2>3, <2>4 DEF Begin, At, Go, Answer
  <2>5. CASE Ending(j)
    BY <2>1, <2>3, <2>5 DEF Ending, At, Go
  <2>6. CASE VideoBegin(j)
    BY <2>1, <2>3, <2>6 DEF VideoBegin, At, Video
  <2>7. CASE VideoLock(j) \/ VideoFetched(j)
    BY <2>1, <2>3, <2>7 DEF VideoLock, VideoFetched, Video, OnThread
  <2>8. QED
    BY <1>4, <2>4, <2>5, <2>6, <2>7
<1>5. ASSUME NEW j \in Jobs, VideoSlot(j)
      PROVE  TaskInv'
  <2>1. /\ UNCHANGED <<song, taken, known, pc, audio, adopting, how>>
        /\ vid[j] = "slot" /\ vid' = [vid EXCEPT ![j] = "lock"]
        /\ Cardinality(Downloading) < VideoSlots
    BY <1>5 DEF VideoSlot, Video, Downloading
  <2>2. Downloading' = Downloading \cup {j} /\ IsFiniteSet(Downloading)
    <3>1. Downloading' = {k \in Jobs : vid'[k] \in OnThread}
      BY DEF Downloading
    <3>2. QED
      BY <2>1, <3>1, SongFetchAssumption, FS_Subset DEF Downloading, OnThread
  <2>3. Cardinality(Downloading \cup {j}) <= Cardinality(Downloading) + 1
    <3>1. Cardinality(Downloading) \in Nat
      BY <2>2, FS_CardinalityType
    <3>2. Cardinality(Downloading \cup {j}) \in {Cardinality(Downloading), Cardinality(Downloading) + 1}
      BY <2>2, FS_AddElement, Zenon
    <3>3. QED
      BY <3>1, <3>2
  <2>4. Cardinality(Downloading') <= VideoSlots
    <3>1. Cardinality(Downloading) \in Nat /\ Cardinality(Downloading \cup {j}) \in Nat
      BY <2>2, FS_CardinalityType, FS_AddElement
    <3>2. QED
      BY <2>1, <2>2, <2>3, <3>1, SongFetchAssumption
  <2>5. QED
    BY <2>1, <2>4 DEF OnThread
<1>6. QED
  BY <1>1, <1>2, <1>3, <1>4, <1>5 DEF Next, Others, Steps, Threads

\* The lock is handed on with the move it was taken for.
LEMMA MoveStep ==
  ASSUME TaskInv, MoveInv, Next
  PROVE  MoveInv'
<1> USE DEF MoveInv
<1>0. NoJob \notin Jobs
  BY SongFetchAssumption
<1>1. CASE TrimRemove
  BY <1>1 DEF TrimRemove, theirVars
<1>2. CASE Trim \/ TrimNext \/ OnTheSpotRestarts \/ (\E s \in Songs : Queues(s) \/ Age(s))
  BY <1>2 DEF Trim, TrimNext, OnTheSpotRestarts, Queues, Age, taskVars, theirVars, folderVars
<1>3. CASE \E i \in DOMAIN items : Downloads(i)
  BY <1>3 DEF Downloads, taskVars, folderVars
<1>4. ASSUME NEW j \in Jobs,
             Start(j) \/ Begin(j) \/ Enqueue(j) \/ TimedOut(j) \/ VideoAwaited(j) \/ Ending(j) \/ Cancel(j)
               \/ Take(j) \/ VideoBegin(j) \/ VideoSlot(j) \/ VideoLock(j) \/ VideoFetched(j)
      PROVE  MoveInv'
  <2>1. UNCHANGED <<song, adopting, adopter, file, held, how>>
    BY <1>4 DEF Start, Begin, Enqueue, TimedOut, VideoAwaited, Ending, Cancel, Take, VideoBegin, VideoSlot,
                VideoLock, VideoFetched, theirVars, folderVars
  <2>2. QED
    BY <2>1
<1>5. ASSUME NEW j \in Jobs, Poll(j)
      PROVE  MoveInv'
  <2>1. UNCHANGED <<song, adopter, file, held, how>>
    BY <1>5 DEF Poll, theirVars
  <2>2. adopting' = adopting \/ (At(j, "poll") /\ adopting' = [adopting EXCEPT ![j] = "waiting"])
    BY <1>5 DEF Poll
  <2>3. QED
    BY <2>1, <2>2 DEF TaskInv, At
<1>6. ASSUME NEW j \in Jobs, Adopt(j)
      PROVE  MoveInv'
  <2>1. UNCHANGED <<song, file, held, how>> /\ adopting[j] = "waiting" /\ adopter = NoJob
    BY <1>6 DEF Adopt, theirVars
  <2>2. \/ adopter' = adopter /\ adopting' = [adopting EXCEPT ![j] = "none"]
        \/ /\ adopter' = j /\ adopting' = [adopting EXCEPT ![j] = "moving"]
           /\ how # "unshared" /\ song[j] \in file /\ song[j] \notin held
    BY <1>6 DEF Adopt, Return, Held
  <2>3. QED
    BY <1>0, <2>1, <2>2 DEF TaskInv
<1>7. ASSUME NEW j \in Jobs, Adopted(j)
      PROVE  MoveInv'
  <2>1. /\ adopting[j] = "moving" /\ adopter' = NoJob
        /\ adopting' = [adopting EXCEPT ![j] = "none"]
    BY <1>7 DEF Adopted, Return
  <2>2. QED
    BY <1>0, <2>1 DEF TaskInv
<1>8. QED
  BY <1>1, <1>2, <1>3, <1>4, <1>5, <1>6, <1>7 DEF Next, Others, Steps, Threads

------------------------------------------------------------------------------
(***************************************************************************)
(* What a client is told stays there, when nothing happens between trim's   *)
(* look at a folder and its removal.                                       *)
(***************************************************************************)

\* A download that is done has its file, unless a job has moved it.
DoneInv ==
  /\ items \in Seq([song : Songs, status : {"waiting", "done", "failed"}])
  /\ \A i \in DOMAIN items : items[i].status = "done" => how = "moves" \/ items[i].song \in file

\* The file to adopt is there, or is in a folder just used by the job that
\* adopted it; an audio in its folder is protected by its last use; and one at
\* OnTheSpot's is not to be moved, by anyone.
Kept(j) ==
  /\ adopting[j] = "waiting" => song[j] \in file \/ song[j] \in held \cap recent
  /\ Awaits(j) /\ audio[j] = "folder" => song[j] \in held \cap recent
  /\ audio[j] = "onthespot" => how # "moves" /\ song[j] \in file

KeptInv ==
  /\ condemned \notin recent
  /\ \A j \in Jobs : Kept(j)

\* OnTheSpot's entries keep their types, and those done their files.
LEMMA DoneStep ==
  ASSUME TaskInv, DoneInv, Next
  PROVE  DoneInv'
<1> DEFINE Items == [song : Songs, status : {"waiting", "done", "failed"}]
<1>1. ASSUME UNCHANGED <<items, how>>, \A s \in file : how = "moves" \/ s \in file'
      PROVE  DoneInv'
  BY <1>1 DEF DoneInv
<1>2. CASE TrimRemove \/ Trim \/ TrimNext \/ (\E s \in Songs : Age(s))
  BY <1>1, <1>2 DEF TrimRemove, Trim, TrimNext, Age, theirVars
<1>3. CASE OnTheSpotRestarts
  <2>1. items' = <<>>
    BY <1>3 DEF OnTheSpotRestarts
  <2>2. items' \in Seq(Items) /\ DOMAIN items' = {}
    BY <2>1
  <2>3. QED
    BY <2>2 DEF DoneInv
<1>4. ASSUME NEW j \in Jobs,
             Start(j) \/ Steps(j) \/ Adopt(j) \/ Cancel(j) \/ Take(j) \/ VideoBegin(j) \/ VideoSlot(j)
               \/ VideoLock(j) \/ VideoFetched(j)
      PROVE  DoneInv'
  BY <1>1, <1>4 DEF Start, Steps, Begin, Enqueue, Poll, TimedOut, VideoAwaited, Ending, Adopt, Cancel, Take,
                    VideoBegin, VideoSlot, VideoLock, VideoFetched, theirVars
<1>5. ASSUME NEW j \in Jobs, Adopted(j)
      PROVE  DoneInv'
  BY <1>1, <1>5 DEF Adopted
<1>6. ASSUME NEW s \in Songs, Queues(s)
      PROVE  DoneInv'
  <2>1. UNCHANGED <<file, how>> /\ items' = Append(items, [song |-> s, status |-> "waiting"])
    BY <1>6 DEF Queues
  <2>2. items \in Seq(Items) /\ [song |-> s, status |-> "waiting"] \in Items
    BY DEF DoneInv
  <2>3. /\ items' \in Seq(Items) /\ Len(items') = Len(items) + 1
        /\ \A i \in 1..Len(items) : items'[i] = items[i]
        /\ items'[Len(items) + 1] = [song |-> s, status |-> "waiting"]
    BY <2>1, <2>2, AppendProperties
  <2>4. DOMAIN items = 1..Len(items) /\ DOMAIN items' = 1..(Len(items) + 1) /\ Len(items) \in Nat
    BY <2>2, <2>3, LenProperties
  <2>5. ASSUME NEW i \in DOMAIN items', items'[i].status = "done"
        PROVE  i \in DOMAIN items /\ items'[i] = items[i]
    <3>1. i # Len(items) + 1
      BY <2>3, <2>5
    <3>2. QED
      BY <2>3, <2>4, <3>1
  <2>6. QED
    BY <2>1, <2>3, <2>5 DEF DoneInv
<1>7. ASSUME NEW i \in DOMAIN items, Downloads(i)
      PROVE  DoneInv'
  <2>1. PICK status \in {"done", "failed"} :
           /\ items' = [items EXCEPT ![i].status = status]
           /\ file' = IF status = "done" THEN file \cup {items[i].song} ELSE file
    BY <1>7 DEF Downloads
  <2>2. items \in Seq(Items) /\ how' = how
    BY <1>7 DEF Downloads, DoneInv
  <2>3. DOMAIN items = 1..Len(items) /\ \A k \in 1..Len(items) : items[k] \in Items
    <3> HIDE DEF Items
    <3>1. QED
      BY <2>2, ElementOfSeq, LenProperties
  <2>4. items' = [items EXCEPT ![i] = [song |-> items[i].song, status |-> status]]
    <3>1. ASSUME NEW r \in Items
          PROVE  [r EXCEPT !.status = status] = [song |-> r.song, status |-> status]
      OBVIOUS
    <3>2. [items[i] EXCEPT !.status = status] = [song |-> items[i].song, status |-> status]
      BY <2>3, <3>1
    <3>3. QED
      BY <2>1, <3>2
  <2>5. [song |-> items[i].song, status |-> status] \in Items
    BY <2>3
  <2>6. items' \in Seq(Items)
    BY <2>2, <2>4, <2>5, ExceptSeq
  <2>7. ASSUME NEW k \in DOMAIN items, items'[k].status = "done"
        PROVE  how = "moves" \/ items'[k].song \in file'
    <3>1. CASE k = i
      BY <2>1, <2>4, <2>7, <3>1
    <3>2. CASE k # i
      BY <2>1, <2>4, <2>7, <3>2 DEF DoneInv
    <3>3. QED
      BY <3>1, <3>2
  <2>8. DOMAIN items' = DOMAIN items
    BY <2>4
  <2>9. QED
    BY <2>2, <2>6, <2>7, <2>8 DEF DoneInv
<1>8. QED
  BY <1>2, <1>3, <1>4, <1>5, <1>6, <1>7 DEF Next, Others, Steps, Threads

\* Nothing taken away, and nothing new told of a job: it keeps what it has.
LEMMA KeptStill ==
  ASSUME NEW j \in Jobs, Kept(j), UNCHANGED <<how, song>>,
         file \subseteq file', held \cap recent \subseteq held' \cap recent',
         adopting'[j] = "waiting" => adopting[j] = "waiting",
         audio'[j] # "none" => audio'[j] = audio[j],
         Awaits(j)' => Awaits(j)
  PROVE  Kept(j)'
BY DEF Kept

\* A folder with the audio in it is used by touching it.
LEMMA TouchHeld ==
  ASSUME FolderInv, NEW s \in Songs, Touch(s), UNCHANGED held
  PROVE  /\ held \cap recent \subseteq held' \cap recent'
         /\ s \in held => s \in held' \cap recent'
BY TouchKeeps DEF FolderInv

\* What is found done in OnTheSpot's queue has its file.
LEMMA FoundIsThere ==
  ASSUME TaskInv, DoneInv, NEW s \in Songs, NEW i \in FindItem(s), items[i].status = "done"
  PROVE  s \in file
<1>1. i \in DOMAIN items /\ items[i].song = s /\ ~ MovedAway(i)
  BY DEF FindItem
<1>2. how = "unshared" \/ s \in file
  BY <1>1 DEF MovedAway
<1>3. QED
  BY <1>1, <1>2 DEF DoneInv

\* Whatever one job does, each keeps what it was told of.
LEMMA JobKeeps ==
  ASSUME FetchInv, DoneInv, \A k \in Jobs : Kept(k), NEW j \in Jobs,
         Start(j) \/ Steps(j) \/ Threads(j) \/ Cancel(j) \/ Take(j), NEW k \in Jobs
  PROVE  Kept(k)'
<1> USE DEF TaskInv
<1>0. FolderInv /\ TaskInv /\ MoveInv /\ song[j] \in Songs
  BY DEF FetchInv
<1>1. CASE Start(j)
  <2>1. UNCHANGED <<how, song, file, held, recent, adopting, audio, taken>>
        /\ known' = known \cup {j} /\ pc[j] = "none"
    BY <1>1 DEF Start, theirVars, folderVars, At
  <2>2. audio[j] = "none"
    BY <1>0, <2>1
  <2>3. Awaits(k)' => Awaits(k)
    BY <2>1, <2>2 DEF Awaits
  <2>4. QED
    BY <2>1, <2>3, KeptStill
<1>2. CASE Enqueue(j) \/ TimedOut(j) \/ VideoAwaited(j) \/ Ending(j)
  <2>1. UNCHANGED <<how, song, file, held, recent, adopting, audio, taken, known>>
    BY <1>2 DEF Enqueue, TimedOut, VideoAwaited, Ending, theirVars, folderVars
  <2>2. QED
    BY <2>1, KeptStill DEF Awaits
<1>3. CASE Cancel(j)
  <2>1. /\ UNCHANGED <<how, song, file, held, recent, adopting>>
        /\ known' = known \ {j} /\ taken' = taken \ {j} /\ audio' = [audio EXCEPT ![j] = "none"]
    BY <1>3 DEF Cancel, Answer, theirVars, folderVars
  <2>2. (audio'[k] # "none" => audio'[k] = audio[k]) /\ (Awaits(k)' => Awaits(k))
    BY <1>0, <2>1 DEF Awaits
  <2>3. QED
    BY <2>1, <2>2, KeptStill
<1>4. CASE Begin(j) \/ Poll(j)
  <2>1. UNCHANGED <<how, song, file, held, taken, known>>
    BY <1>4 DEF Begin, Poll, theirVars
  <2>2. /\ held \cap recent \subseteq held' \cap recent'
        /\ Touch(song[j]) /\ song[j] \in held => song[j] \in held' \cap recent'
    BY <1>0, <1>4, <2>1, TouchHeld DEF Begin, Poll
  <2>3. \/ audio' = audio
        \/ audio' = [audio EXCEPT ![j] = "folder"] /\ Touch(song[j]) /\ song[j] \in held
    BY <1>4 DEF Begin, Poll, Held, Answer
  <2>4. \/ adopting' = adopting
        \/ adopting' = [adopting EXCEPT ![j] = "waiting"] /\ song[j] \in file
    BY <1>0, <1>4, FoundIsThere DEF Begin, Poll, FetchInv
  <2>5. CASE k # j
    BY <1>0, <2>1, <2>2, <2>3, <2>4, <2>5, KeptStill DEF Awaits
  <2>6. CASE k = j
    <3>1. adopting'[j] = "waiting" => song[j] \in file \/ song[j] \in held' \cap recent'
      BY <1>0, <2>2, <2>4 DEF Kept
    <3>2. Awaits(j)' /\ audio'[j] = "folder" => song[j] \in held' \cap recent'
      BY <1>0, <2>1, <2>2, <2>3 DEF Kept, Awaits
    <3>3. audio'[j] = "onthespot" => how # "moves" /\ song[j] \in file
      BY <1>0, <2>3 DEF Kept
    <3>4. QED
      BY <2>1, <2>6, <3>1, <3>2, <3>3 DEF Kept
  <2>7. QED
    BY <2>5, <2>6
<1>5. CASE Take(j)
  <2>1. UNCHANGED <<how, song, file, held, adopting, audio, known>> /\ taken' = taken \cup {j}
    BY <1>5 DEF Take, theirVars
  <2>2. held \cap recent \subseteq held' \cap recent'
    BY <1>0, <1>5, <2>1, TouchHeld DEF Take
  <2>3. QED
    BY <2>1, <2>2, KeptStill DEF Awaits
<1>6. CASE Adopt(j)
  <2>1. UNCHANGED <<how, song, file, held, taken, known>> /\ adopting[j] = "waiting" /\ Touch(song[j])
    BY <1>6 DEF Adopt, theirVars
  <2>2. /\ held \cap recent \subseteq held' \cap recent'
        /\ song[j] \in held => song[j] \in held' \cap recent'
    BY <1>0, <2>1, TouchHeld
  <2>3. song[j] \in file \/ song[j] \in held
    BY <2>1 DEF Kept
  <2>4. adopting' = [adopting EXCEPT ![j] = "none"] \/ adopting' = [adopting EXCEPT ![j] = "moving"]
    BY <1>6 DEF Adopt, Return
  <2>5. \/ audio' = audio
        \/ audio' = [audio EXCEPT ![j] = "folder"] /\ song[j] \in held
        \/ audio' = [audio EXCEPT ![j] = "onthespot"] /\ song[j] \in file /\ how = "unshared"
    BY <1>6, <2>3 DEF Adopt, Return, Held, Answer
  <2>6. CASE k # j
    BY <1>0, <2>1, <2>2, <2>4, <2>5, <2>6, KeptStill DEF Awaits
  <2>7. CASE k = j
    <3>1. adopting'[j] # "waiting"
      BY <1>0, <2>4
    <3>2. Awaits(j)' /\ audio'[j] = "folder" => song[j] \in held' \cap recent'
      BY <1>0, <2>1, <2>2, <2>5 DEF Kept, Awaits
    <3>3. audio'[j] = "onthespot" => how # "moves" /\ song[j] \in file
      BY <1>0, <2>5 DEF Kept
    <3>4. QED
      BY <2>1, <2>7, <3>1, <3>2, <3>3 DEF Kept
  <2>8. QED
    BY <2>6, <2>7
<1>7. CASE Adopted(j)
  <2>1. /\ UNCHANGED <<how, song, taken, known>> /\ adopting[j] = "moving"
        /\ adopting' = [adopting EXCEPT ![j] = "none"]
        /\ adopter = j /\ how # "unshared" /\ song[j] \in file
    BY <1>0, <1>7 DEF Adopted, Return, MoveInv
  <2>2. CASE how = "moves"
    <3>1. /\ MakeFolder(song[j]) /\ held' = held \cup {song[j]} /\ file' = file \ {song[j]}
          /\ audio' = audio \/ audio' = [audio EXCEPT ![j] = "folder"]
      BY <1>7, <2>2 DEF Adopted, Return, Answer
    <3>2. /\ held \cap recent \subseteq held' \cap recent' /\ song[j] \in held' \cap recent'
      BY <1>0, <3>1, MakeKeeps
    <3>3. adopting'[k] = "waiting" => song[k] \in file' \/ song[k] \in held' \cap recent'
      BY <1>0, <2>1, <3>1, <3>2 DEF Kept
    <3>4. Awaits(k)' /\ audio'[k] = "folder" => song[k] \in held' \cap recent'
      BY <1>0, <2>1, <3>1, <3>2 DEF Kept, Awaits
    <3>5. audio'[k] # "onthespot"
      BY <1>0, <2>2, <3>1 DEF Kept
    <3>6. QED
      BY <2>1, <3>3, <3>4, <3>5 DEF Kept
  <2>3. CASE how # "moves"
    <3>1. /\ UNCHANGED <<held, file, recent>>
          /\ audio' = audio \/ audio' = [audio EXCEPT ![j] = "onthespot"]
      BY <1>7, <2>3 DEF Adopted, Return, Answer
    <3>2. adopting'[k] = "waiting" => song[k] \in file' \/ song[k] \in held' \cap recent'
      BY <1>0, <2>1, <3>1 DEF Kept
    <3>3. Awaits(k)' /\ audio'[k] = "folder" => song[k] \in held' \cap recent'
      BY <1>0, <2>1, <3>1 DEF Kept, Awaits
    <3>4. audio'[k] = "onthespot" => how # "moves" /\ song[k] \in file
      BY <1>0, <2>1, <2>3, <3>1 DEF Kept
    <3>5. QED
      BY <2>1, <3>1, <3>2, <3>3, <3>4 DEF Kept
  <2>4. QED
    BY <2>2, <2>3
<1>8. CASE VideoBegin(j) \/ VideoSlot(j) \/ VideoLock(j) \/ VideoFetched(j)
  <2>1. UNCHANGED <<how, song, file, held, adopting, audio, taken, known>>
    BY <1>8 DEF VideoBegin, VideoSlot, VideoLock, VideoFetched, theirVars
  <2>2. Touch(song[j]) \/ MakeFolder(song[j]) \/ UNCHANGED recent
    BY <1>8 DEF VideoBegin, VideoSlot, VideoLock, VideoFetched
  <2>3. held \cap recent \subseteq held' \cap recent'
    BY <1>0, <2>1, <2>2, TouchHeld, MakeKeeps
  <2>4. QED
    BY <2>1, <2>3, KeptStill DEF Awaits
<1>9. QED
  BY <1>1, <1>2, <1>3, <1>4, <1>5, <1>6, <1>7, <1>8 DEF Steps, Threads

\* So does whatever OnTheSpot, the trims and time do: a folder in use isn't
\* trimmed when nothing can use it between the look and the removal.
LEMMA OthersKeep ==
  ASSUME FolderInv, KeptInv,
         \/ TrimRemove \/ Trim \/ TrimNext \/ OnTheSpotRestarts
         \/ \E s \in Songs : Queues(s) \/ Age(s)
         \/ \E i \in DOMAIN items : Downloads(i),
         NEW k \in Jobs
  PROVE  Kept(k)'
<1>0. Kept(k)
  BY DEF KeptInv
<1>1. CASE Trim \/ TrimNext \/ OnTheSpotRestarts \/ (\E s \in Songs : Queues(s))
  <2>1. UNCHANGED <<taskVars, file, folderVars, how>>
    BY <1>1 DEF Trim, TrimNext, OnTheSpotRestarts, Queues, theirVars
  <2>2. QED
    BY <1>0, <2>1, KeptStill DEF taskVars, folderVars, Awaits
<1>2. CASE TrimRemove
  <2>1. /\ UNCHANGED <<how, song, file, adopting, audio, taken, known>>
        /\ held' = held \ {condemned} /\ recent' = recent \ {condemned}
    BY <1>2 DEF TrimRemove, theirVars
  <2>2. held \cap recent \subseteq held' \cap recent'
    BY <2>1 DEF KeptInv
  <2>3. QED
    BY <1>0, <2>1, <2>2, KeptStill DEF Awaits
<1>3. ASSUME NEW s \in Songs, Age(s)
      PROVE  Kept(k)'
  <2>1. UNCHANGED <<how, song, file, held, adopting, audio, taken, known>> /\ recent' = recent \ {s}
    BY <1>3 DEF Age, taskVars, theirVars
  <2>2. song[k] = s => ~ Awaits(k) /\ adopting[k] = "none"
    BY <1>3 DEF Age
  <2>3. QED
    BY <1>0, <2>1, <2>2 DEF Kept, Awaits
<1>4. ASSUME NEW i \in DOMAIN items, Downloads(i)
      PROVE  Kept(k)'
  <2>1. UNCHANGED <<taskVars, folderVars, how>> /\ file \subseteq file'
    BY <1>4 DEF Downloads
  <2>2. QED
    BY <1>0, <2>1, KeptStill DEF taskVars, folderVars, Awaits
<1>5. QED
  BY <1>1, <1>2, <1>3, <1>4

\* Where trim's look and its removal are one, each step keeps what is told.
LEMMA KeptStep ==
  ASSUME Torn = FALSE, FetchInv, FolderInv', DoneInv, KeptInv, Next
  PROVE  KeptInv'
<1>1. condemned' \notin recent'
  <2>1. recent' \subseteq Songs /\ NoSong \notin Songs
    BY SongFetchAssumption, ToSetType DEF FolderInv
  <2>2. CASE TrimNext
    <3>1. condemned' \in {NoSong} \cup (ToSet(order) \ recent) /\ UNCHANGED recent
      BY <2>2 DEF TrimNext, folderVars
    <3>2. QED
      BY <2>1, <3>1
  <2>3. CASE ~ TrimNext
    <3>1. condemned' = NoSong
      <4>1. TrimRemove \/ (Others /\ condemned = NoSong)
        BY DEF Next, Whole
      <4>2. CASE TrimRemove
        BY <4>2 DEF TrimRemove
      <4>3. CASE Others /\ condemned = NoSong
        <5>1. UNCHANGED condemned
          BY <2>3, <4>3 DEF Others, Trim, OnTheSpotRestarts, Start, Steps, Threads, Cancel, Take, Queues,
                      Age, Downloads, Begin, Enqueue, Poll, TimedOut, VideoAwaited, Ending, Adopt, Adopted,
                      VideoBegin, VideoSlot, VideoLock, VideoFetched, trimVars
        <5>2. QED
          BY <4>3, <5>1
      <4>4. QED
        BY <4>1, <4>2, <4>3
    <3>2. QED
      BY <2>1, <3>1
  <2>4. QED
    BY <2>2, <2>3
<1>2. ASSUME NEW k \in Jobs
      PROVE  Kept(k)'
  <2>1. FolderInv /\ \A j \in Jobs : Kept(j)
    BY DEF FetchInv, KeptInv
  <2>2. \/ \E j \in Jobs : Start(j) \/ Steps(j) \/ Threads(j) \/ Cancel(j) \/ Take(j)
        \/ TrimRemove \/ Trim \/ TrimNext \/ OnTheSpotRestarts
        \/ \E s \in Songs : Queues(s) \/ Age(s)
        \/ \E i \in DOMAIN items : Downloads(i)
    BY DEF Next, Others
  <2>3. QED
    BY <2>1, <2>2, JobKeeps, OthersKeep
<1>3. QED
  BY <1>1, <1>2, Zenon DEF KeptInv

------------------------------------------------------------------------------
\* At the start there are no folders, no jobs and no downloads.
LEMMA FetchInit ==
  ASSUME Init
  PROVE  FetchInv /\ DoneInv /\ KeptInv
<1>1. FolderInv
  <2>1. order = <<>> /\ recent = {} /\ held = {} /\ video = {} /\ condemned = NoSong /\ vid = Idle
    BY DEF Init
  <2>2. order \in Seq(Songs) /\ IsInjective(order)
    BY <2>1 DEF IsInjective
  <2>3. \A j \in Jobs : vid[j] # "fetch"
    BY <2>1 DEF Idle
  <2>4. QED
    BY <2>1, <2>2, <2>3 DEF FolderInv
<1>2. TaskInv
  <2>1. /\ song \in [Jobs -> Songs] /\ taken = {} /\ known = {}
        /\ pc = Idle /\ audio = Idle /\ vid = Idle /\ adopting = Idle
        /\ how \in {"moves", "fails", "unshared"}
    BY DEF Init
  <2>2. Downloading = {}
    BY <2>1 DEF Downloading, Idle, OnThread
  <2>3. Cardinality(Downloading) <= VideoSlots
    BY <2>2, FS_EmptySet, SongFetchAssumption
  <2>4. QED
    BY <2>1, <2>3 DEF TaskInv, Idle
<1>3. MoveInv
  BY SongFetchAssumption DEF Init, MoveInv, Idle
<1>4. DoneInv
  <2>1. items = <<>>
    BY DEF Init
  <2>2. QED
    BY <2>1 DEF DoneInv
<1>5. KeptInv
  BY DEF Init, KeptInv, Kept, Awaits, Idle
<1>6. QED
  BY <1>1, <1>2, <1>3, <1>4, <1>5 DEF FetchInv

\* Every step keeps FetchInv and DoneInv, so that they always hold.
THEOREM FetchInvariant == Spec => [](FetchInv /\ DoneInv)
<1>1. Init => FetchInv /\ DoneInv
  BY FetchInit
<1>2. FetchInv /\ DoneInv /\ [Next]_vars => (FetchInv /\ DoneInv)'
  <2> SUFFICES ASSUME FetchInv, DoneInv, [Next]_vars
               PROVE  (FetchInv /\ DoneInv)'
    OBVIOUS
  <2>1. CASE Next
    BY <2>1, FolderStep, TaskStep, MoveStep, DoneStep DEF FetchInv
  <2>2. CASE UNCHANGED vars
    <3>1. UNCHANGED <<pc, song, known, audio, taken, vid, adopting, adopter, items, file, order, recent,
                      held, video, condemned, how>>
      BY <2>2 DEF vars, taskVars, theirVars, folderVars, trimVars
    <3>2. UNCHANGED Downloading
      BY <3>1 DEF Downloading
    <3>3. QED
      BY <3>1, <3>2 DEF FetchInv, FolderInv, TaskInv, MoveInv, DoneInv
  <2>3. QED
    BY <2>1, <2>2
<1>3. QED
  BY <1>1, <1>2, PTL DEF Spec

\* Jobs, videos and threads are where the code has them, no more videos
\* download at once than there are slots (_video_slots), and a download is moved by the one
\* thread that has _adopt_lock, from a file that is there to a folder without
\* it, whichever jobs are cancelled meanwhile.
THEOREM FetchIsSafe == Spec => []FetchSafe
<1>1. FetchInv => FetchSafe
  <2> SUFFICES ASSUME FetchInv PROVE FetchSafe
    OBVIOUS
  <2>1. FTypeOK
    <3>1. adopter \in Jobs => adopting[adopter] = "moving"
      BY DEF FetchInv, MoveInv
    <3>2. QED
      BY <3>1 DEF FetchInv, FolderInv, TaskInv, FTypeOK, Downloading
  <2>2. MovesAlone
    BY DEF FetchInv, MoveInv, MovesAlone, Held
  <2>3. QED
    BY <2>1, <2>2 DEF FetchSafe
<1>2. QED
  BY <1>1, FetchInvariant, PTL

\* The audio a client was told to get is there: in its folder, which is not
\* trimmed within an hour of its use (_in_use), or at OnTheSpot's, from where
\* no other job moves it.  Not so when a folder is used between trim's look at
\* it and its removal, which the code does not rule out: hence Torn = FALSE.
THEOREM ToldIsThere ==
  ASSUME Torn = FALSE
  PROVE  Spec => []AudioThere
<1>1. Init => KeptInv
  BY FetchInit
<1>2. (FetchInv /\ DoneInv) /\ (FetchInv /\ DoneInv)' /\ KeptInv /\ [Next]_vars => KeptInv'
  <2> SUFFICES ASSUME FetchInv, DoneInv, FetchInv', KeptInv, [Next]_vars
               PROVE  KeptInv'
    OBVIOUS
  <2>1. CASE Next
    <3>1. FolderInv'
      BY DEF FetchInv
    <3>2. QED
      BY <2>1, <3>1, KeptStep
  <2>2. CASE UNCHANGED vars
    BY <2>2 DEF vars, taskVars, theirVars, folderVars, trimVars, KeptInv, Kept, Awaits
  <2>3. QED
    BY <2>1, <2>2
<1>3. KeptInv => AudioThere
  BY DEF KeptInv, Kept, AudioThere, Held
<1>4. QED
  BY <1>1, <1>2, <1>3, FetchInvariant, PTL DEF Spec
=============================================================================
