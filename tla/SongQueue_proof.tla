-------------------------- MODULE SongQueue_proof --------------------------
(***************************************************************************)
(* Theorems of SongQueue, for any songs, local or streamed, and any number  *)
(* of remounts.                                                            *)
(*                                                                         *)
(* What is prepared and downloaded (PrepInv, DownInv), what the reactions   *)
(* ran on last (SeenInv) and the transport (PlayInv) keep themselves.  That *)
(* one song is started at a time (StartInv) holds only if nobody presses    *)
(* play, or plays a song to its end, while another starts: that Impatient   *)
(* is FALSE, as in the run.                                                *)
(***************************************************************************)
EXTENDS SongQueue, SequenceLemmas, FiniteSetTheorems

Queued(st) == {s \in Songs : st[s] \notin {"new", "gone"}}

\* The queue has each of its songs once.
ItemsOK(q, st) ==
  /\ q \in Seq(Songs) /\ IsInjective(q) /\ ToSet(q) = Queued(st)
  /\ st \in [Songs -> Statuses]

\* One song is prepared at a time, and it hasn't gone on while it is.
PrepOK(st, prep, run) ==
  /\ prep \in Songs \cup {NoSong}
  /\ prep = NoSong => run = {}
  /\ prep # NoSong => \E b \in BOOLEAN :
       /\ run = {[id |-> prep, aborted |-> b]}
       /\ st[prep] \in {"waiting", "preparing", "gone"}
       /\ ~ b => st[prep] # "gone"
       /\ prep \in streaming => st[prep] # "waiting"

\* A song is downloaded while it is queued and isn't ready; its wait is for
\* the download.
DownOK(st, dl, v, w) ==
  /\ dl \subseteq streaming \cap Queued(st)
  /\ v \in [Songs -> {"none", "running", "done", "aborted"}]
  /\ w \in [Songs -> {"no", "live", "aborted"}]
  /\ \A s \in Songs :
       /\ s \notin streaming => v[s] = "none"
       /\ v[s] = "running" => s \in dl
       /\ w[s] # "no" => s \in streaming /\ st[s] \in {"downloadingVideo", "gone"}
       /\ w[s] = "live" => st[s] = "downloadingVideo"
       /\ s \in streaming /\ st[s] \in {"waiting", "preparing", "downloadingVideo"} =>
            s \in dl /\ v[s] \in {"running", "done"}
       /\ s \in streaming /\ st[s] = "ready" => v[s] = "done"

PreparingInv ==
  /\ streaming \subseteq Songs
  /\ ItemsOK(items, status) /\ PrepOK(status, preparing, running) /\ DownOK(status, downloads, video, waits)

\* What the reactions ran on tells what they did.
SeenInv ==
  /\ \E a, b, c, d : seen = << <<a, b>>, <<c, d>> >>
  /\ awaitingNext \in BOOLEAN /\ starting \in Songs \cup {NoSong} /\ preloaded \in Songs \cup {NoSong}
  /\ seen[1][2] = "ready" => ~ awaitingNext
  /\ seen[2][1] = "idle" /\ starting = NoSong => preloaded = seen[2][2]

Plays == [by : Songs \cup {NoSong}, current : BOOLEAN]

\* Only the last play() is current, and only with audio is there anything but
\* silence.
PlayInv ==
  /\ transport \in {"idle", "loading", "playing", "paused"}
  /\ installed \in Songs \cup {NoSong} /\ nowPlaying \in Songs \cup {NoSong}
  /\ history \in Seq(Songs) /\ starts \in [Songs -> {"no", "audio", "retry", "frame", "play"}]
  /\ plays \in Seq(Plays)
  /\ transport # "idle" => installed # NoSong
  /\ \A i \in DOMAIN plays : plays[i].current => i = Len(plays) /\ transport = "loading"

\* One song is started at a time, by its one play(), while none is awaited.
StartInv ==
  /\ \A s \in Songs : starts[s] # "no" => starting = s
  /\ awaitingNext => starting = NoSong
  /\ starting = NoSong /\ installed = NoSong => awaitingNext
  /\ \A i \in DOMAIN plays : plays[i].by \in Songs =>
       /\ starts[plays[i].by] = "play"
       /\ transport = "loading" => plays[i].current
       /\ \A j \in DOMAIN plays : plays[j].by \in Songs => i = j

------------------------------------------------------------------------------
\* What FirstIn finds is in the queue, with one of the statuses asked for; and
\* it finds one if there is any.
LEMMA FirstInFinds ==
  ASSUME NEW q \in Seq(Songs), NEW st, NEW S
  PROVE  \/ FirstIn(q, st, S) = NoSong /\ \A s \in ToSet(q) : st[s] \notin S
         \/ FirstIn(q, st, S) \in ToSet(q) /\ st[FirstIn(q, st, S)] \in S
<1> DEFINE at == {i \in DOMAIN q : st[q[i]] \in S}
<1>1. DOMAIN q = 1..Len(q) /\ Len(q) \in Nat
  BY LenProperties
<1>2. CASE at = {}
  BY <1>2 DEF FirstIn, ToSet
<1>3. CASE at # {}
  <2>1. at \subseteq Nat
    BY <1>1
  <2>2. \E i \in at : \A j \in at : i <= j
    BY <1>3, <2>1, LeastNumber
  <2>3. PICK i \in at : i = CHOOSE n \in at : \A j \in at : n <= j
    BY <2>2
  <2>4. FirstIn(q, st, S) = q[i]
    BY <1>3, <2>3 DEF FirstIn
  <2>5. QED
    BY <2>4 DEF ToSet
<1>4. QED
  BY <1>2, <1>3

\* The prepare it starts, if any, is of a song that waits, now preparing if it
\* streams.
LEMMA PrepareNextKeeps ==
  ASSUME streaming \subseteq Songs,
         NEW q, NEW st, NEW prep, NEW run, NEW dl, NEW v, NEW w,
         ItemsOK(q, st), PrepOK(st, prep, run), DownOK(st, dl, v, w), PrepareNext(q, st, prep, run)
  PROVE  ItemsOK(q, status') /\ PrepOK(status', preparing', running') /\ DownOK(status', dl, v, w)
<1>1. PICK id : id = FirstIn(q, st, {"waiting"})
  OBVIOUS
<1>2. CASE prep # NoSong \/ id = NoSong
  BY <1>1, <1>2 DEF PrepareNext
<1>3. CASE prep = NoSong /\ id # NoSong
  <2>1. /\ preparing' = id /\ running' = {[id |-> id, aborted |-> FALSE]}
        /\ status' = IF id \in streaming THEN [st EXCEPT ![id] = "preparing"] ELSE st
    BY <1>1, <1>3 DEF PrepareNext, PrepOK
  <2>2. q \in Seq(Songs)
    BY DEF ItemsOK
  <2>3. id \in ToSet(q) /\ st[id] = "waiting"
    BY <1>1, <1>3, <2>2, FirstInFinds
  <2>4. id \in Songs /\ id # NoSong
    BY <2>2, <2>3, <1>3, ToSetType
  <2>5. status' \in [Songs -> Statuses]
    BY <2>1 DEF ItemsOK, Statuses
  <2>6. \A s \in Songs : \/ status'[s] = st[s] /\ (s = id => s \notin streaming)
                         \/ s = id /\ s \in streaming /\ status'[s] = "preparing"
    BY <2>1, <2>4 DEF ItemsOK
  <2>7. Queued(status') = Queued(st)
    BY <2>3, <2>6 DEF Queued
  <2>8. ItemsOK(q, status')
    BY <2>5, <2>7 DEF ItemsOK
  <2>9. PrepOK(status', preparing', running')
    BY <2>1, <2>3, <2>4, <2>6 DEF PrepOK
  <2>10. DownOK(status', dl, v, w)
    BY <2>3, <2>4, <2>6, <2>7 DEF DownOK
  <2>11. QED
    BY <2>8, <2>9, <2>10
<1>4. QED
  BY <1>2, <1>3

\* update() changes the status of what is queued, and of nothing else.
LEMMA PutKeeps ==
  ASSUME NEW q, NEW st, ItemsOK(q, st), NEW id \in Songs, NEW new \in Statuses \ {"new", "gone"}
  PROVE  /\ ItemsOK(q, Put(st, id, new))
         /\ Queued(Put(st, id, new)) = Queued(st)
         /\ \A s \in Songs : Put(st, id, new)[s] =
              IF s = id /\ st[s] \notin {"new", "gone"} THEN new ELSE st[s]
<1>1. Put(st, id, new) \in [Songs -> Statuses]
  BY DEF Put, ItemsOK
<1>2. \A s \in Songs : Put(st, id, new)[s] =
        IF s = id /\ st[s] \notin {"new", "gone"} THEN new ELSE st[s]
  BY DEF Put, ItemsOK
<1>3. Queued(Put(st, id, new)) = Queued(st)
  BY <1>2 DEF Queued
<1>4. QED
  BY <1>1, <1>2, <1>3 DEF ItemsOK

\* A song added is downloaded, if it streams, until it is ready.
LEMMA AddStep ==
  ASSUME PreparingInv, UNCHANGED streaming, NEW id \in Songs, Add(id)
  PROVE  PreparingInv'
<1> USE DEF PreparingInv
<1>1. PICK st : st = [status EXCEPT ![id] = "waiting"]
  OBVIOUS
<1>2. /\ status[id] = "new" /\ items' = Append(items, id) /\ waits' = waits
      /\ downloads' = IF id \in streaming THEN downloads \cup {id} ELSE downloads
      /\ video' = IF id \in streaming THEN [video EXCEPT ![id] = "running"] ELSE video
      /\ PrepareNext(Append(items, id), st, preparing, running)
  BY <1>1 DEF Add
<1>3. \A s \in Songs : st[s] = IF s = id THEN "waiting" ELSE status[s]
  BY <1>1 DEF ItemsOK
<1>4. ItemsOK(Append(items, id), st)
  <2>1. Queued(st) = Queued(status) \cup {id} /\ id \notin Queued(status)
    BY <1>2, <1>3 DEF Queued
  <2>2. st \in [Songs -> Statuses]
    BY <1>1 DEF ItemsOK, Statuses
  <2>3. /\ Append(items, id) \in Seq(Songs) /\ IsInjective(Append(items, id))
        /\ ToSet(Append(items, id)) = ToSet(items) \cup {id}
    BY <2>1, AppendElements DEF ItemsOK
  <2>4. QED
    BY <2>1, <2>2, <2>3 DEF ItemsOK
<1>5. PrepOK(st, preparing, running)
  BY <1>2, <1>3 DEF PrepOK
<1>6. DownOK(st, downloads', video', waits)
  <2>1. Queued(st) = Queued(status) \cup {id}
    BY <1>2, <1>3 DEF Queued
  <2>2. downloads' \subseteq streaming \cap Queued(st)
    BY <1>2, <2>1 DEF DownOK
  <2>3. video' \in [Songs -> {"none", "running", "done", "aborted"}]
    BY <1>2 DEF DownOK
  <2>4. \A s \in Songs : video'[s] = IF s = id /\ id \in streaming THEN "running" ELSE video[s]
    BY <1>2 DEF DownOK
  <2>5. QED
    BY <1>2, <1>3, <2>2, <2>3, <2>4 DEF DownOK
<1>7. /\ ItemsOK(Append(items, id), status') /\ PrepOK(status', preparing', running')
      /\ DownOK(status', downloads', video', waits)
  BY <1>2, <1>4, <1>5, <1>6, PrepareNextKeeps
<1>8. QED
  <2>1. PrepOK(status, preparing, running)' /\ DownOK(status, downloads, video, waits)'
    BY <1>2, <1>7 DEF PrepOK, DownOK, Queued
  <2>2. ItemsOK(items, status)'
    BY <1>2, <1>7 DEF ItemsOK, Queued
  <2>3. QED
    BY <2>1, <2>2

\* A prepared song is ready once its video is done, which its wait is for.
LEMMA PreparedStep ==
  ASSUME PreparingInv, UNCHANGED streaming, NEW r \in running, Prepared(r) \/ PrepareFailed(r)
  PROVE  PreparingInv'
<1> USE DEF PreparingInv
<1>1. PICK b \in BOOLEAN :
        /\ r = [id |-> preparing, aborted |-> b] /\ running = {r} /\ preparing \in Songs
        /\ status[preparing] \in {"waiting", "preparing", "gone"}
        /\ ~ b => status[preparing] # "gone"
        /\ preparing \in streaming => status[preparing] # "waiting"
  BY DEF PrepOK
<1>2. PICK id \in Songs : id = preparing /\ id = r.id /\ r.aborted = b /\ running \ {r} = {}
  BY <1>1
<1>3. PICK new \in Statuses \ {"new", "gone"} :
        /\ PrepareNext(items, Put(status, id, new), NoSong, {})
        /\ DownOK(Put(status, id, new), downloads, video, waits')
  <2>1. CASE Prepared(r)
    <3>1. PICK new : new = IF id \in downloads THEN "downloadingVideo" ELSE "ready"
      OBVIOUS
    <3>2. /\ waits' = IF id \in downloads THEN [waits EXCEPT ![id] = "live"] ELSE waits
          /\ PrepareNext(items, Put(status, id, new), NoSong, {})
          /\ b => id \notin streaming
      BY <1>2, <2>1, <3>1 DEF Prepared, LocalSongs
    <3>3. new \in Statuses \ {"new", "gone"}
      BY <3>1 DEF Statuses
    <3>4. PICK st : st = Put(status, id, new)
      OBVIOUS
    <3>5. /\ Queued(st) = Queued(status)
          /\ \A s \in Songs : st[s] = IF s = id /\ status[s] \notin {"new", "gone"} THEN new ELSE status[s]
      BY <3>3, <3>4, PutKeeps
    <3>6. id \in downloads => id \in streaming /\ status[id] # "gone"
      BY DEF DownOK, Queued
    <3>7. id \in streaming => id \in downloads
      BY <1>1, <1>2, <3>2 DEF DownOK
    <3>8. \A s \in Songs : waits'[s] = IF s = id /\ id \in downloads THEN "live" ELSE waits[s]
      BY <3>2 DEF DownOK
    <3>9. waits' \in [Songs -> {"no", "live", "aborted"}]
      BY <3>2 DEF DownOK
    <3>10. DownOK(st, downloads, video, waits')
      BY <1>1, <1>2, <3>1, <3>5, <3>6, <3>7, <3>8, <3>9 DEF DownOK
    <3>11. QED
      BY <3>2, <3>3, <3>4, <3>10
  <2>2. CASE PrepareFailed(r)
    <3>1. PICK new : new = IF b THEN "waiting" ELSE "failed"
      OBVIOUS
    <3>2. waits' = waits /\ PrepareNext(items, Put(status, id, new), NoSong, {})
      BY <1>2, <2>2, <3>1 DEF PrepareFailed, dlVars
    <3>3. new \in Statuses \ {"new", "gone"}
      BY <3>1 DEF Statuses
    <3>4. PICK st : st = Put(status, id, new)
      OBVIOUS
    <3>5. /\ Queued(st) = Queued(status)
          /\ \A s \in Songs : st[s] = IF s = id /\ status[s] \notin {"new", "gone"} THEN new ELSE status[s]
      BY <3>3, <3>4, PutKeeps
    <3>6. DownOK(st, downloads, video, waits')
      BY <1>1, <1>2, <3>1, <3>2, <3>5 DEF DownOK
    <3>7. QED
      BY <3>2, <3>3, <3>4, <3>6
  <2>3. QED
    BY <2>1, <2>2
<1>4. ItemsOK(items, Put(status, id, new))
  BY PutKeeps
<1>5. PrepOK(Put(status, id, new), NoSong, {})
  BY DEF PrepOK
<1>6. /\ ItemsOK(items, status') /\ PrepOK(status', preparing', running')
      /\ DownOK(status', downloads, video, waits')
  BY <1>3, <1>4, <1>5, PrepareNextKeeps
<1>7. UNCHANGED <<items, downloads, video>>
  BY DEF Prepared, PrepareFailed, dlVars
<1>8. QED
  <2>1. PrepOK(status, preparing, running)' /\ DownOK(status, downloads, video, waits)'
    BY <1>6, <1>7 DEF PrepOK, DownOK, Queued
  <2>2. ItemsOK(items, status)'
    BY <1>6, <1>7 DEF ItemsOK, Queued
  <2>3. QED
    BY <2>1, <2>2

\* A wait ends with the video, or for the song to be prepared again.
LEMMA WaitOverStep ==
  ASSUME PreparingInv, UNCHANGED streaming, NEW id \in Songs, WaitOver(id)
  PROVE  PreparingInv'
<1> USE DEF PreparingInv
<1>1. /\ UNCHANGED <<items, video>> /\ waits' = [waits EXCEPT ![id] = "no"]
      /\ waits[id] # "no" /\ id \in streaming /\ status[id] \in {"downloadingVideo", "gone"}
  BY DEF WaitOver, DownOK
<1>2. /\ waits' \in [Songs -> {"no", "live", "aborted"}]
      /\ \A s \in Songs : waits'[s] = IF s = id THEN "no" ELSE waits[s]
  BY <1>1 DEF DownOK
<1>3. CASE waits[id] = "live" /\ video[id] = "done" /\ downloads' = downloads \ {id}
             /\ status' = Put(status, id, "ready") /\ UNCHANGED <<preparing, running>>
  <2>1. /\ ItemsOK(items, status') /\ Queued(status') = Queued(status)
        /\ \A s \in Songs : status'[s] =
             IF s = id /\ status[s] \notin {"new", "gone"} THEN "ready" ELSE status[s]
    BY <1>3, PutKeeps DEF Statuses
  <2>2. PrepOK(status', preparing, running)
    BY <1>1, <2>1 DEF PrepOK
  <2>3. DownOK(status', downloads', video, waits')
    BY <1>1, <1>2, <1>3, <2>1 DEF DownOK
  <2>4. QED
    BY <1>1, <1>3, <2>1, <2>2, <2>3 DEF ItemsOK, PrepOK, DownOK, Queued
<1>4. CASE /\ waits[id] = "aborted" /\ UNCHANGED downloads
           /\ PrepareNext(items, Put(status, id, "waiting"), preparing, running)
  <2>1. PICK st : st = Put(status, id, "waiting")
    OBVIOUS
  <2>2. /\ ItemsOK(items, st) /\ Queued(st) = Queued(status)
        /\ \A s \in Songs : st[s] =
             IF s = id /\ status[s] \notin {"new", "gone"} THEN "waiting" ELSE status[s]
    BY <2>1, PutKeeps DEF Statuses
  <2>3. PrepOK(st, preparing, running)
    BY <1>1, <2>2 DEF PrepOK
  <2>4. DownOK(st, downloads, video, waits')
    BY <1>1, <1>2, <2>2 DEF DownOK
  <2>5. /\ ItemsOK(items, status') /\ PrepOK(status', preparing', running')
        /\ DownOK(status', downloads, video, waits')
    BY <1>4, <2>1, <2>2, <2>3, <2>4, PrepareNextKeeps
  <2>6. QED
    BY <1>1, <1>4, <2>5 DEF ItemsOK, PrepOK, DownOK, Queued
<1>5. QED
  BY <1>3, <1>4 DEF WaitOver

\* An aborted prepare is the same one, aborted.
LEMMA AbortOne ==
  ASSUME NEW id, NEW b \in BOOLEAN
  PROVE  Abort({[id |-> id, aborted |-> b]}, {id}) = {[id |-> id, aborted |-> TRUE]}
<1>1. PICK r : r = [id |-> id, aborted |-> b]
  OBVIOUS
<1>2. [r EXCEPT !.aborted = @ \/ r.id \in {id}] = [id |-> id, aborted |-> TRUE]
  <2>1. r.id \in {id}
    BY <1>1
  <2>2. (r.aborted \/ r.id \in {id}) = TRUE
    BY <2>1
  <2>3. [r EXCEPT !.aborted = TRUE] = [id |-> id, aborted |-> TRUE]
    <3>1. r \in [id : {id}, aborted : BOOLEAN]
      BY <1>1
    <3>2. [r EXCEPT !.aborted = TRUE] \in [id : {id}, aborted : BOOLEAN]
      BY <3>1
    <3>3. [r EXCEPT !.aborted = TRUE].aborted = TRUE /\ [r EXCEPT !.aborted = TRUE].id = id
      BY <3>1
    <3>4. ASSUME NEW t \in [id : {id}, aborted : BOOLEAN], t.aborted = TRUE
          PROVE  t = [id |-> id, aborted |-> TRUE]
      BY <3>4
    <3>5. QED
      BY <3>2, <3>3, <3>4
  <2>4. QED
    BY <2>2, <2>3
<1>3. Abort({r}, {id}) = {[r EXCEPT !.aborted = @ \/ r.id \in {id}]}
  BY DEF Abort
<1>4. QED
  BY <1>1, <1>2, <1>3

\* A song removed has no download left, and its prepare is aborted.
LEMMA RemoveStep ==
  ASSUME PreparingInv, UNCHANGED streaming, NEW id \in Songs, RemoveItem(id)
  PROVE  PreparingInv'
<1> USE DEF PreparingInv
<1>1. /\ id \in ToSet(items) /\ items' = RemoveFirst(items, id)
      /\ status' = [status EXCEPT ![id] = "gone"] /\ UNCHANGED preparing
      /\ running' = IF preparing = id THEN Abort(running, {id}) ELSE running
      /\ downloads' = downloads \ {id}
      /\ video' = Cancelled(video, downloads \cap {id})
      /\ waits' = Unwaited(downloads \cap {id})
  BY DEF RemoveItem
<1>2. \A s \in Songs : status'[s] = IF s = id THEN "gone" ELSE status[s]
  BY <1>1 DEF ItemsOK
<1>3. Queued(status') = Queued(status) \ {id}
  BY <1>2 DEF Queued
<1>4. ItemsOK(items', status')
  <2>1. status' \in [Songs -> Statuses]
    BY <1>1 DEF ItemsOK, Statuses
  <2>2. /\ items' \in Seq(Songs) /\ IsInjective(items') /\ ToSet(items') = ToSet(items) \ {id}
    BY <1>1, RemoveFirstElements DEF ItemsOK
  <2>3. QED
    BY <1>3, <2>1, <2>2 DEF ItemsOK
<1>5. PrepOK(status', preparing, running')
  <2>1. CASE preparing = id
    <3>1. PICK b \in BOOLEAN : running = {[id |-> id, aborted |-> b]} /\ id # NoSong
      BY <2>1, QueueAssumption DEF PrepOK
    <3>2. running' = {[id |-> id, aborted |-> TRUE]}
      BY <1>1, <2>1, <3>1, AbortOne
    <3>3. QED
      BY <1>2, <2>1, <3>1, <3>2 DEF PrepOK
  <2>2. CASE preparing # id
    BY <1>1, <1>2, <2>2 DEF PrepOK
  <2>3. QED
    BY <2>1, <2>2
<1>6. DownOK(status', downloads', video', waits')
  <2>1. /\ video' \in [Songs -> {"none", "running", "done", "aborted"}]
        /\ waits' \in [Songs -> {"no", "live", "aborted"}]
    BY <1>1 DEF DownOK, Cancelled, Unwaited
  <2>2. \A s \in Songs :
          /\ video'[s] = IF s = id /\ s \in downloads /\ video[s] = "running" THEN "aborted" ELSE video[s]
          /\ waits'[s] = IF s = id /\ s \in downloads /\ waits[s] = "live" THEN "aborted" ELSE waits[s]
    BY <1>1 DEF Cancelled, Unwaited
  <2>3. downloads' \subseteq streaming \cap Queued(status')
    BY <1>1, <1>3 DEF DownOK
  <2>4. ASSUME NEW s \in Songs, s # id
        PROVE  /\ status'[s] = status[s] /\ video'[s] = video[s] /\ waits'[s] = waits[s]
               /\ s \in downloads' <=> s \in downloads
    BY <1>1, <1>2, <2>2, <2>4
  <2>5. /\ status'[id] = "gone" /\ video'[id] # "running" /\ waits'[id] # "live"
        /\ id \notin streaming => video'[id] = "none"
        /\ waits'[id] # "no" => id \in streaming
    BY <1>2, <2>1, <2>2 DEF DownOK
  <2>6. QED
    BY <2>1, <2>3, <2>4, <2>5 DEF DownOK
<1>7. /\ ItemsOK(items, status)' /\ PrepOK(status, preparing, running)'
      /\ DownOK(status, downloads, video, waits)'
  <2>1. ItemsOK(items, status)'
    BY <1>4 DEF ItemsOK, Queued
  <2>2. PrepOK(status, preparing, running)'
    BY <1>1, <1>5 DEF PrepOK
  <2>3. DownOK(status, downloads, video, waits)'
    BY <1>6 DEF DownOK, Queued
  <2>4. QED
    BY <2>1, <2>2, <2>3
<1>8. QED
  BY <1>7

\* Mounted again, the presenter downloads anew what it needs, and aborts what
\* it prepares.
LEMMA RemountStep ==
  ASSUME PreparingInv, UNCHANGED streaming, Remount
  PROVE  PreparingInv'
<1> USE DEF PreparingInv
<1>1. PICK again : again = {s \in ToSet(items) \cap streaming : status[s] \notin {"ready", "failed"}}
  OBVIOUS
<1>2. /\ UNCHANGED items /\ downloads' = again
      /\ video' = [s \in Songs |-> IF s \in again THEN "running" ELSE Cancelled(video, downloads)[s]]
      /\ waits' = Unwaited(downloads)
      /\ PrepareNext(items, status, preparing, Abort(running, {preparing}))
  BY <1>1 DEF Remount
<1>3. PrepOK(status, preparing, Abort(running, {preparing}))
  <2>1. CASE preparing = NoSong
    <3>1. Abort(running, {preparing}) = {}
      BY <2>1 DEF Abort, PrepOK
    <3>2. QED
      BY <2>1, <3>1 DEF PrepOK
  <2>2. CASE preparing # NoSong
    <3>1. PICK b \in BOOLEAN : running = {[id |-> preparing, aborted |-> b]}
      BY <2>2 DEF PrepOK
    <3>2. Abort(running, {preparing}) = {[id |-> preparing, aborted |-> TRUE]}
      BY <3>1, AbortOne
    <3>3. QED
      BY <2>2, <3>2 DEF PrepOK
  <2>3. QED
    BY <2>1, <2>2
<1>4. DownOK(status, downloads', video', waits')
  <2>1. /\ again \subseteq streaming \cap Queued(status)
        /\ \A s \in Songs : s \in again <=>
             s \in streaming /\ status[s] \notin {"new", "gone", "ready", "failed"}
    BY <1>1 DEF ItemsOK, Queued
  <2>2. /\ video' \in [Songs -> {"none", "running", "done", "aborted"}]
        /\ waits' \in [Songs -> {"no", "live", "aborted"}]
    BY <1>2 DEF DownOK, Cancelled, Unwaited
  <2>3. \A s \in Songs :
          /\ video'[s] = IF s \in again THEN "running"
                         ELSE IF s \in downloads /\ video[s] = "running" THEN "aborted" ELSE video[s]
          /\ waits'[s] = IF s \in downloads /\ waits[s] = "live" THEN "aborted" ELSE waits[s]
    BY <1>2 DEF Cancelled, Unwaited
  <2>4. QED
    BY <1>2, <2>1, <2>2, <2>3 DEF DownOK
<1>5. /\ ItemsOK(items, status') /\ PrepOK(status', preparing', running')
      /\ DownOK(status', downloads', video', waits')
  BY <1>2, <1>3, <1>4, PrepareNextKeeps
<1>6. QED
  BY <1>2, <1>5 DEF ItemsOK, PrepOK, DownOK, Queued

\* The song that starts leaves the queue, its video done.
LEMMA ReactStep ==
  ASSUME PreparingInv, UNCHANGED streaming, ReactToNext
  PROVE  PreparingInv'
<1> USE DEF PreparingInv
<1>1. UNCHANGED <<preparing, running, video, waits>>
  BY DEF ReactToNext
<1>2. CASE awaitingNext /\ nextReadySong # NoSong
  <2>1. PICK id : id = nextReadySong
    OBVIOUS
  <2>2. id \in ToSet(items) /\ status[id] = "ready"
    <3>1. nextPlayable = id /\ id # NoSong /\ status[id] = "ready"
      BY <1>2, <2>1 DEF nextReadySong
    <3>2. QED
      BY <3>1, FirstInFinds DEF nextPlayable, ItemsOK
  <2>3. id \in Songs
    BY <2>2, ToSetType DEF ItemsOK
  <2>4. /\ items' = RemoveFirst(items, id) /\ status' = [status EXCEPT ![id] = "gone"]
        /\ downloads' = downloads \ {id}
    BY <1>2, <2>1 DEF ReactToNext
  <2>5. \A s \in Songs : status'[s] = IF s = id THEN "gone" ELSE status[s]
    BY <2>4 DEF ItemsOK
  <2>6. Queued(status') = Queued(status) \ {id}
    BY <2>5 DEF Queued
  <2>7. ItemsOK(items', status')
    <3>1. status' \in [Songs -> Statuses]
      BY <2>4 DEF ItemsOK, Statuses
    <3>2. /\ items' \in Seq(Songs) /\ IsInjective(items') /\ ToSet(items') = ToSet(items) \ {id}
      BY <2>2, <2>4, RemoveFirstElements DEF ItemsOK
    <3>3. QED
      BY <2>6, <3>1, <3>2 DEF ItemsOK
  <2>8. PrepOK(status', preparing, running)
    BY <2>2, <2>5 DEF PrepOK
  <2>9. DownOK(status', downloads', video, waits)
    <3>1. video[id] # "running" /\ waits[id] = "no"
      BY <2>2, <2>3 DEF DownOK
    <3>2. downloads' \subseteq streaming \cap Queued(status')
      BY <2>4, <2>6 DEF DownOK
    <3>3. \A s \in Songs : s # id => status'[s] = status[s] /\ (s \in downloads' <=> s \in downloads)
      BY <2>4, <2>5
    <3>4. QED
      BY <2>3, <2>5, <3>1, <3>2, <3>3 DEF DownOK
  <2>10. QED
    BY <1>1, <2>7, <2>8, <2>9 DEF ItemsOK, PrepOK, DownOK, Queued
<1>3. CASE ~ (awaitingNext /\ nextReadySong # NoSong)
  <2>1. UNCHANGED <<items, status, downloads>>
    BY <1>3 DEF ReactToNext
  <2>2. QED
    BY <1>1, <2>1 DEF ItemsOK, PrepOK, DownOK, Queued
<1>4. QED
  BY <1>2, <1>3

\* Every step keeps what is queued, prepared and downloaded in agreement.
LEMMA PreparingStep ==
  ASSUME PreparingInv, UNCHANGED streaming, QNext
  PROVE  PreparingInv'
<1>1. ASSUME UNCHANGED <<items, prepVars, dlVars>>
      PROVE  PreparingInv'
  BY <1>1 DEF PreparingInv, ItemsOK, PrepOK, DownOK, Queued, prepVars, dlVars
<1>2. ASSUME NEW id \in Songs,
             AudioIn(id, id) \/ AudioIn(id, NoSong) \/ Retry(id) \/ LoadFailed(id) \/ FirstFrame(id)
      PROVE  PreparingInv'
  BY <1>1, <1>2 DEF AudioIn, Retry, LoadFailed, FirstFrame
<1>3. CASE ReactToPreload \/ Answers \/ Skip \/ UserPlay \/ UserPause \/ UserStop \/ Ended
  BY <1>1, <1>3 DEF ReactToPreload, Answers, PlayAnswered, Skip, UserPlay, UserPause, UserStop, Ended
<1>4. ASSUME NEW id \in Songs, VideoDone(id)
      PROVE  PreparingInv'
  <2>1. /\ UNCHANGED <<items, status, preparing, running, downloads, waits>>
        /\ video[id] = "running" /\ video' = [video EXCEPT ![id] = "done"]
    BY <1>4 DEF VideoDone, prepVars
  <2>2. /\ video' \in [Songs -> {"none", "running", "done", "aborted"}]
        /\ \A s \in Songs : video'[s] = IF s = id THEN "done" ELSE video[s]
    BY <2>1 DEF PreparingInv, DownOK
  <2>3. DownOK(status, downloads, video', waits)
    BY <2>1, <2>2 DEF PreparingInv, DownOK
  <2>4. QED
    BY <2>1, <2>3 DEF PreparingInv, ItemsOK, PrepOK, DownOK, Queued
<1>5. ASSUME NEW from \in DOMAIN items, NEW to \in DOMAIN items, Move(from, to)
      PROVE  PreparingInv'
  <2>1. items' = InsertAt(RemoveAt(items, from), to, items[from]) /\ UNCHANGED <<prepVars, dlVars>>
    BY <1>5 DEF Move
  <2>2. items' \in Seq(Songs) /\ ToSet(items') = ToSet(items) /\ IsInjective(items')
    BY <2>1, MoveElements DEF PreparingInv, ItemsOK
  <2>3. QED
    BY <2>1, <2>2 DEF PreparingInv, ItemsOK, PrepOK, DownOK, Queued, prepVars, dlVars
<1>6. QED
  BY <1>2, <1>3, <1>4, <1>5, AddStep, PreparedStep, WaitOverStep, RemoveStep, RemountStep, ReactStep
     DEF QNext, Goes, Prepares, Reacts

------------------------------------------------------------------------------
\* The song that is ready to play is the one to play next.
LEMMA NextReady ==
  ASSUME ItemsOK(items, status)
  PROVE  /\ nextPlayable \in Songs \cup {NoSong} /\ nextReadySong \in Songs \cup {NoSong}
         /\ nextReadySong # NoSong => nextPlayable = nextReadySong /\ status[nextReadySong] = "ready"
<1>1. nextPlayable \in Songs \cup {NoSong}
  <2>1. nextPlayable = NoSong \/ nextPlayable \in ToSet(items)
    BY FirstInFinds DEF nextPlayable, ItemsOK
  <2>2. QED
    BY <2>1, ToSetType DEF ItemsOK
<1>2. QED
  BY <1>1 DEF nextReadySong

\* When the reactions have run, none waits that would start a song.
LEMMA SettledSeen ==
  ASSUME SeenInv, Settled
  PROVE  seen[1][2] # "ready" /\ (seen[2][1] = "idle" => starting = NoSong)
<1>1. seen[1] = ToStart /\ seen[2] = ToPreload
  BY DEF Settled
<1>2. ~ awaitingNext => ToStart[2] = "new"
  BY DEF ToStart
<1>3. starting # NoSong => ToPreload[1] = "starting"
  BY DEF ToPreload
<1>4. QED
  BY <1>1, <1>2, <1>3 DEF SeenInv

\* A reaction that starts or preloads a song leaves it so until it runs again.
LEMMA SeenStep ==
  ASSUME ItemsOK(items, status), SeenInv, QNext
  PROVE  SeenInv'
<1>1. ASSUME Settled, UNCHANGED <<seen, preloaded>>, awaitingNext' \in BOOLEAN,
             starting' \in {starting, NoSong}
      PROVE  SeenInv'
  BY <1>1, SettledSeen DEF SeenInv
<1>2. ASSUME NEW id \in Songs, Add(id) \/ RemoveItem(id) \/ VideoDone(id) \/ WaitOver(id)
                 \/ AudioIn(id, id) \/ AudioIn(id, NoSong) \/ Retry(id)
      PROVE  SeenInv'
  BY <1>1, <1>2 DEF Add, RemoveItem, VideoDone, WaitOver, AudioIn, Retry, SeenInv, startVars
<1>3. ASSUME NEW id \in Songs, LoadFailed(id) \/ FirstFrame(id)
      PROVE  SeenInv'
  BY <1>1, <1>3 DEF LoadFailed, FirstFrame, FinishStart, SeenInv
<1>4. ASSUME NEW from \in DOMAIN items, NEW to \in DOMAIN items, Move(from, to)
      PROVE  SeenInv'
  BY <1>1, <1>4 DEF Move, SeenInv, startVars
<1>5. CASE Prepares
  BY <1>1, <1>5 DEF Prepares, Prepared, PrepareFailed, SeenInv, startVars
<1>6. CASE Answers
  <2>1. ASSUME NEW ok, PlayAnswered(ok)
        PROVE  SeenInv'
    <3>1. Settled /\ UNCHANGED <<seen, preloaded>> /\ awaitingNext' \in BOOLEAN
      BY <2>1 DEF PlayAnswered, FinishStart, SeenInv
    <3>2. starting' \in {starting, NoSong}
      BY <2>1 DEF PlayAnswered, FinishStart
    <3>3. QED
      BY <1>1, <3>1, <3>2
  <2>2. QED
    BY <1>6, <2>1 DEF Answers
<1>7. CASE Skip \/ UserPlay \/ UserPause \/ UserStop \/ Ended
  BY <1>1, <1>7 DEF Skip, UserPlay, UserPause, UserStop, Ended, SeenInv, startVars
<1>8. CASE Remount
  <2>1. seen' = << <<NoSong, "unseen">>, <<"unseen", NoSong>> >> /\ preloaded' = NoSong
        /\ UNCHANGED <<awaitingNext, starting>>
    BY <1>8 DEF Remount, Unseen
  <2>2. QED
    BY <2>1 DEF SeenInv
<1>9. CASE ReactToNext
  <2>1. PICK a, b, c, d : seen = << <<a, b>>, <<c, d>> >>
    BY DEF SeenInv
  <2>2. PICK x, y : ToStart = <<x, y>>
    BY DEF ToStart
  <2>3. seen' = << <<x, y>>, <<c, d>> >>
    BY <1>9, <2>1, <2>2 DEF ReactToNext
  <2>4. CASE awaitingNext /\ nextReadySong # NoSong
    <3>1. awaitingNext' = FALSE /\ starting' = nextReadySong /\ preloaded' = NoSong
      BY <1>9, <2>4 DEF ReactToNext
    <3>2. starting' \in Songs /\ starting' # NoSong
      BY <2>4, <3>1, NextReady
    <3>3. QED
      BY <2>3, <3>1, <3>2 DEF SeenInv
  <2>5. CASE ~ (awaitingNext /\ nextReadySong # NoSong)
    <3>1. UNCHANGED <<awaitingNext, starting, preloaded>>
      BY <1>9, <2>5 DEF ReactToNext
    <3>2. y = "ready" => ~ awaitingNext
      BY <2>2, <2>5 DEF ToStart, nextReadySong
    <3>3. QED
      BY <2>1, <2>3, <3>1, <3>2 DEF SeenInv
  <2>6. QED
    BY <2>4, <2>5
<1>10. CASE ReactToPreload
  <2>1. PICK a, b, c, d : seen = << <<a, b>>, <<c, d>> >>
    BY DEF SeenInv
  <2>2. ToPreload = <<IF starting = NoSong THEN "idle" ELSE "starting", nextReadySong>>
    BY DEF ToPreload
  <2>3. seen' = << <<a, b>>, <<IF starting = NoSong THEN "idle" ELSE "starting", nextReadySong>> >>
    BY <1>10, <2>1, <2>2 DEF ReactToPreload
  <2>4. /\ UNCHANGED <<awaitingNext, starting>>
        /\ preloaded' = IF starting = NoSong THEN nextReadySong ELSE preloaded
    BY <1>10, <2>2 DEF ReactToPreload
  <2>5. QED
    BY <2>1, <2>3, <2>4, NextReady DEF SeenInv
<1>11. QED
  BY <1>2, <1>3, <1>4, <1>5, <1>6, <1>7, <1>8, <1>9, <1>10 DEF QNext, Goes, Reacts

------------------------------------------------------------------------------
\* Superseding the plays under way leaves each whose it was.
LEMMA OldPlaysKeep ==
  ASSUME plays \in Seq(Plays)
  PROVE  /\ OldPlays \in Seq(Plays) /\ Len(OldPlays) = Len(plays) /\ DOMAIN OldPlays = DOMAIN plays
         /\ \A i \in DOMAIN plays : OldPlays[i].by = plays[i].by /\ OldPlays[i].current = FALSE
<1>1. DOMAIN plays = 1..Len(plays) /\ Len(plays) \in Nat /\ \A i \in 1..Len(plays) : plays[i] \in Plays
  <2> HIDE DEF Plays
  <2>1. QED
    BY LenProperties, ElementOfSeq
<1>2. ASSUME NEW p \in Plays
      PROVE  /\ [p EXCEPT !.current = FALSE] \in Plays
             /\ [p EXCEPT !.current = FALSE].by = p.by /\ [p EXCEPT !.current = FALSE].current = FALSE
  BY DEF Plays
<1>3. OldPlays \in [1..Len(plays) -> Plays]
  BY <1>1, <1>2 DEF OldPlays
<1>4. OldPlays \in Seq(Plays) /\ Len(OldPlays) = Len(plays)
  <2> HIDE DEF Plays
  <2>1. OldPlays \in Seq(Plays)
    BY <1>1, <1>3, SeqDef
  <2>2. DOMAIN OldPlays = 1..Len(plays)
    BY <1>3
  <2>3. QED
    BY <1>1, <2>1, <2>2, LenProperties
<1>5. \A i \in DOMAIN plays : OldPlays[i].by = plays[i].by /\ OldPlays[i].current = FALSE
  BY <1>1, <1>2 DEF OldPlays
<1>6. DOMAIN OldPlays = DOMAIN plays
  BY DEF OldPlays
<1>7. QED
  BY <1>4, <1>5, <1>6

\* A new play() is the only current one.
LEMMA PlayForKeeps ==
  ASSUME plays \in Seq(Plays), NEW by \in Songs \cup {NoSong}, PlayFor(by)
  PROVE  /\ transport' = "loading" /\ plays' \in Seq(Plays) /\ Len(plays') = Len(plays) + 1
         /\ DOMAIN plays = 1..Len(plays) /\ DOMAIN plays' = 1..(Len(plays) + 1) /\ Len(plays) \in Nat
         /\ \A i \in DOMAIN plays : plays'[i].by = plays[i].by /\ plays'[i].current = FALSE
         /\ plays'[Len(plays) + 1].by = by /\ plays'[Len(plays) + 1].current = TRUE
         /\ \A i \in DOMAIN plays' : plays'[i].current => i = Len(plays')
<1>1. PICK p : p = [by |-> by, current |-> TRUE]
  OBVIOUS
<1>2. p \in Plays /\ p.by = by /\ p.current = TRUE
  BY <1>1 DEF Plays
<1>3. plays' = Append(OldPlays, p) /\ transport' = "loading"
  BY <1>1 DEF PlayFor
<1>4. DOMAIN plays = 1..Len(plays) /\ Len(plays) \in Nat
  BY LenProperties
<1>5. /\ plays' \in Seq(Plays) /\ Len(plays') = Len(plays) + 1
      /\ \A i \in 1..Len(plays) : plays'[i] = OldPlays[i]
      /\ plays'[Len(plays) + 1] = p
  BY <1>2, <1>3, OldPlaysKeep, AppendProperties
<1>6. DOMAIN plays' = 1..(Len(plays) + 1)
  BY <1>4, <1>5, LenProperties
<1>7. \A i \in DOMAIN plays : plays'[i].by = plays[i].by /\ plays'[i].current = FALSE
  BY <1>4, <1>5, OldPlaysKeep
<1>8. ASSUME NEW i \in DOMAIN plays', plays'[i].current
      PROVE  i = Len(plays')
  <2>1. i \notin DOMAIN plays
    BY <1>7, <1>8
  <2>2. QED
    BY <1>4, <1>5, <1>6, <2>1
<1>9. QED
  BY <1>2, <1>3, <1>4, <1>5, <1>6, <1>7, <1>8

\* An answer is the first play()'s.
LEMMA AnswerKeeps ==
  ASSUME plays \in Seq(Plays), plays # <<>>, plays' = Tail(plays)
  PROVE  /\ Head(plays) \in Plays /\ Head(plays) = plays[1] /\ 1 \in DOMAIN plays
         /\ plays' \in Seq(Plays) /\ Len(plays') = Len(plays) - 1 /\ Len(plays) \in Nat
         /\ \A i \in DOMAIN plays' : i + 1 \in DOMAIN plays /\ plays'[i] = plays[i + 1] /\ i \in Nat \ {0}
<1>1. DOMAIN plays = 1..Len(plays) /\ Len(plays) \in Nat \ {0}
  BY LenProperties, EmptySeq
<1>2. /\ plays' \in Seq(Plays) /\ Len(plays') = Len(plays) - 1
      /\ \A i \in 1..(Len(plays) - 1) : plays'[i] = plays[i + 1]
      /\ Head(plays) \in Plays /\ Head(plays) = plays[1]
  BY HeadTailProperties
<1>3. DOMAIN plays' = 1..(Len(plays) - 1)
  BY <1>1, <1>2, LenProperties
<1>4. QED
  BY <1>1, <1>2, <1>3

\* Every step keeps the transport, the song in it and its plays together.
LEMMA PlayStep ==
  ASSUME ItemsOK(items, status), PlayInv, QNext
  PROVE  PlayInv'
<1>1. ASSUME UNCHANGED <<playVars, starts, nowPlaying, history>>
      PROVE  PlayInv'
  BY <1>1 DEF PlayInv, playVars
<1>2. ASSUME Silence, installed' \in Songs \cup {NoSong}, nowPlaying' \in Songs \cup {NoSong},
             UNCHANGED history, starts' \in [Songs -> {"no", "audio", "retry", "frame", "play"}]
      PROVE  PlayInv'
  <2>1. transport' = "idle" /\ plays' = OldPlays
    BY <1>2 DEF Silence
  <2>2. plays' \in Seq(Plays) /\ \A i \in DOMAIN plays' : plays'[i].current = FALSE
    BY <2>1, OldPlaysKeep DEF PlayInv
  <2>3. QED
    BY <1>2, <2>1, <2>2 DEF PlayInv
<1>3. ASSUME NEW id \in Songs, NEW on, FinishStart(id, on)
      PROVE  /\ starts' \in [Songs -> {"no", "audio", "retry", "frame", "play"}]
             /\ nowPlaying' \in Songs \cup {NoSong} /\ history' \in Seq(Songs)
  <2>1. starts' = [starts EXCEPT ![id] = "no"]
    BY <1>3 DEF FinishStart
  <2>2. (nowPlaying' = id /\ history' = <<id>> \o history) \/ UNCHANGED <<nowPlaying, history>>
    BY <1>3 DEF FinishStart
  <2>3. <<id>> \o history \in Seq(Songs)
    <3>1. <<id>> \in Seq(Songs)
      OBVIOUS
    <3>2. QED
      BY <3>1, ConcatProperties DEF PlayInv
  <2>4. QED
    BY <2>1, <2>2, <2>3 DEF PlayInv
<1>4. ASSUME NEW id \in Songs, Add(id) \/ RemoveItem(id) \/ VideoDone(id) \/ WaitOver(id)
      PROVE  PlayInv'
  BY <1>1, <1>4 DEF Add, RemoveItem, VideoDone, WaitOver, startVars
<1>5. CASE (\E from, to \in DOMAIN items : Move(from, to)) \/ Prepares \/ Remount \/ ReactToPreload
  BY <1>1, <1>5 DEF Move, Prepares, Prepared, PrepareFailed, Remount, ReactToPreload, startVars
<1>6. CASE ReactToNext
  <2>1. UNCHANGED <<playVars, nowPlaying, history>>
    BY <1>6 DEF ReactToNext
  <2>2. starts' = starts \/ (nextReadySong # NoSong /\ starts' = [starts EXCEPT ![nextReadySong] = "audio"])
    BY <1>6 DEF ReactToNext
  <2>3. starts' \in [Songs -> {"no", "audio", "retry", "frame", "play"}]
    BY <2>2, NextReady DEF PlayInv
  <2>4. QED
    BY <2>1, <2>3 DEF PlayInv, playVars
<1>7. ASSUME NEW id \in Songs, AudioIn(id, id) \/ AudioIn(id, NoSong) \/ Retry(id)
      PROVE  PlayInv'
  <2>1. Silence /\ installed' \in Songs \cup {NoSong} /\ UNCHANGED <<nowPlaying, history>>
    BY <1>7 DEF AudioIn, Retry
  <2>2. starts' = [starts EXCEPT ![id] = "frame"] \/ starts' = [starts EXCEPT ![id] = "retry"]
    BY <1>7 DEF AudioIn, Retry
  <2>3. QED
    BY <1>2, <2>1, <2>2 DEF PlayInv
<1>8. ASSUME NEW id \in Songs, LoadFailed(id)
      PROVE  PlayInv'
  <2>1. UNCHANGED playVars /\ FinishStart(id, FALSE)
    BY <1>8 DEF LoadFailed
  <2>2. QED
    BY <1>3, <2>1 DEF PlayInv, playVars
<1>9. ASSUME NEW id \in Songs, FirstFrame(id)
      PROVE  PlayInv'
  <2>1. CASE installed = NoSong
    <3>1. UNCHANGED playVars /\ FinishStart(id, transport = "playing")
      BY <1>9, <2>1 DEF FirstFrame
    <3>2. QED
      BY <1>3, <3>1 DEF PlayInv, playVars
  <2>2. CASE installed # NoSong
    <3>1. PlayFor(id) /\ starts' = [starts EXCEPT ![id] = "play"] /\ UNCHANGED <<installed, nowPlaying, history>>
      BY <1>9, <2>2 DEF FirstFrame
    <3>2. /\ transport' = "loading" /\ plays' \in Seq(Plays) /\ Len(plays') = Len(plays) + 1
          /\ \A i \in DOMAIN plays' : plays'[i].current => i = Len(plays')
      BY <3>1, PlayForKeeps DEF PlayInv
    <3>3. QED
      BY <2>2, <3>1, <3>2 DEF PlayInv
  <2>3. QED
    BY <2>1, <2>2
<1>10. ASSUME NEW ok \in BOOLEAN, PlayAnswered(ok)
       PROVE  PlayInv'
  <2>1. /\ plays # <<>> /\ plays' = Tail(plays) /\ UNCHANGED installed
        /\ \/ ~ Head(plays).current /\ transport' = transport
           \/ Head(plays).current /\ transport' \in {"playing", "idle"}
        /\ \/ Head(plays).by \in Songs /\ FinishStart(Head(plays).by, transport' = "playing")
           \/ UNCHANGED <<starts, nowPlaying, history>>
    BY <1>10 DEF PlayAnswered
  <2>2. /\ starts' \in [Songs -> {"no", "audio", "retry", "frame", "play"}]
        /\ nowPlaying' \in Songs \cup {NoSong} /\ history' \in Seq(Songs)
    BY <1>3, <2>1 DEF PlayInv
  <2>3. /\ plays' \in Seq(Plays) /\ Len(plays') = Len(plays) - 1 /\ Len(plays) \in Nat
        /\ 1 \in DOMAIN plays /\ Head(plays) = plays[1]
        /\ \A i \in DOMAIN plays' : i + 1 \in DOMAIN plays /\ plays'[i] = plays[i + 1] /\ i \in Nat \ {0}
    BY <2>1, AnswerKeeps DEF PlayInv
  <2>4. transport' # "idle" => installed # NoSong
    BY <2>1, <2>3 DEF PlayInv
  <2>5. ASSUME NEW i \in DOMAIN plays', plays'[i].current
        PROVE  i = Len(plays') /\ transport' = "loading"
    <3>1. i + 1 = Len(plays) /\ transport = "loading" /\ i + 1 \in DOMAIN plays
      BY <2>3, <2>5 DEF PlayInv
    <3>2. ~ plays[1].current
      <4>1. plays[1].current => 1 = Len(plays)
        BY <2>3 DEF PlayInv
      <4>2. 1 # i + 1
        BY <2>3, <2>5
      <4>3. QED
        BY <3>1, <4>1, <4>2
    <3>3. QED
      BY <2>1, <2>3, <3>1, <3>2
  <2>6. transport' \in {"idle", "loading", "playing", "paused"}
    BY <2>1 DEF PlayInv
  <2>7. QED
    BY <2>1, <2>2, <2>3, <2>4, <2>5, <2>6 DEF PlayInv
<1>11. CASE Skip \/ UserStop \/ Ended
  <2>1. Silence /\ installed' \in Songs \cup {NoSong} /\ nowPlaying' \in Songs \cup {NoSong}
        /\ UNCHANGED <<history, starts>>
    BY <1>11 DEF Skip, UserStop, Ended, startVars, PlayInv
  <2>2. QED
    BY <1>2, <2>1 DEF PlayInv
<1>12. CASE UserPlay
  <2>1. PlayFor(NoSong) /\ installed # NoSong /\ UNCHANGED <<installed, starts, nowPlaying, history>>
    BY <1>12 DEF UserPlay, startVars
  <2>2. /\ transport' = "loading" /\ plays' \in Seq(Plays) /\ Len(plays') = Len(plays) + 1
        /\ \A i \in DOMAIN plays' : plays'[i].current => i = Len(plays')
    BY <2>1, PlayForKeeps DEF PlayInv
  <2>3. QED
    BY <2>1, <2>2 DEF PlayInv
<1>13. CASE UserPause
  BY <1>13 DEF UserPause, PlayInv, startVars
<1>14. QED
  BY <1>4, <1>5, <1>6, <1>7, <1>8, <1>9, <1>10, <1>11, <1>12, <1>13 DEF QNext, Goes, Reacts, Answers

------------------------------------------------------------------------------
(***************************************************************************)
(* One song is started at a time, if nobody is impatient.                  *)
(***************************************************************************)

\* While a song isn't playing yet, no play() under way is for it.
LEMMA NoPlayYet ==
  ASSUME StartInv, NEW id \in Songs, starts[id] \notin {"no", "play"}, NEW i \in DOMAIN plays
  PROVE  plays[i].by \notin Songs
BY DEF StartInv

\* The end of a start leaves none under way, and awaits the next song unless
\* this one plays.
LEMMA FinishKeeps ==
  ASSUME PlayInv, StartInv, NEW id \in Songs, starts[id] # "no", NEW on, FinishStart(id, on)
  PROVE  /\ \A s \in Songs : starts'[s] = "no"
         /\ starting' = NoSong /\ awaitingNext' = (transport' # "playing")
BY DEF FinishStart, PlayInv, StartInv

\* Every step keeps to one start.
LEMMA StartStep ==
  ASSUME Impatient = FALSE, ItemsOK(items, status), PlayInv, StartInv, QNext
  PROVE  StartInv'
<1>0. NoSong \notin Songs
  BY QueueAssumption
<1>1. ASSUME UNCHANGED <<playVars, starts, starting, awaitingNext>>
      PROVE  StartInv'
  BY <1>1 DEF StartInv, playVars
<1>2. ASSUME Silence, starts' \in [Songs -> {"no", "audio", "retry", "frame", "play"}],
             \A s \in Songs : (starts'[s] # "no" => starting' = s) /\ (starts[s] = "play" => starts'[s] = "play"),
             awaitingNext' => starting' = NoSong,
             starting' = NoSong /\ installed' = NoSong => awaitingNext'
      PROVE  StartInv'
  <2>1. transport' = "idle" /\ plays' = OldPlays
    BY <1>2 DEF Silence
  <2>2. DOMAIN plays' = DOMAIN plays /\ \A i \in DOMAIN plays : plays'[i].by = plays[i].by
    BY <2>1, OldPlaysKeep DEF PlayInv
  <2>3. QED
    BY <1>2, <2>1, <2>2 DEF StartInv
<1>3. ASSUME NEW id \in Songs, Add(id) \/ RemoveItem(id) \/ VideoDone(id) \/ WaitOver(id)
      PROVE  StartInv'
  BY <1>1, <1>3 DEF Add, RemoveItem, VideoDone, WaitOver, startVars
<1>4. CASE (\E from, to \in DOMAIN items : Move(from, to)) \/ Prepares \/ Remount \/ ReactToPreload
  BY <1>1, <1>4 DEF Move, Prepares, Prepared, PrepareFailed, Remount, ReactToPreload, startVars
<1>5. CASE ReactToNext
  <2>1. CASE awaitingNext /\ nextReadySong # NoSong
    <3>1. PICK id \in Songs : id = nextReadySong
      BY <2>1, NextReady
    <3>2. /\ awaitingNext' = FALSE /\ starting' = id /\ starts' = [starts EXCEPT ![id] = "audio"]
          /\ UNCHANGED playVars
      BY <1>5, <2>1, <3>1 DEF ReactToNext
    <3>3. \A s \in Songs : starts[s] = "no"
      BY <1>0, <2>1 DEF StartInv, PlayInv
    <3>4. \A s \in Songs : starts'[s] = IF s = id THEN "audio" ELSE "no"
      BY <3>2, <3>3 DEF PlayInv
    <3>5. \A i \in DOMAIN plays : plays[i].by \notin Songs
      BY <3>3 DEF StartInv
    <3>6. QED
      BY <1>0, <3>2, <3>4, <3>5 DEF StartInv, playVars
  <2>2. CASE ~ (awaitingNext /\ nextReadySong # NoSong)
    BY <1>1, <1>5, <2>2 DEF ReactToNext
  <2>3. QED
    BY <2>1, <2>2
<1>6. ASSUME NEW id \in Songs, AudioIn(id, id) \/ AudioIn(id, NoSong) \/ Retry(id)
      PROVE  StartInv'
  <2>1. /\ Silence /\ starts[id] \in {"audio", "retry"} /\ UNCHANGED <<awaitingNext, starting>>
        /\ starts' = [starts EXCEPT ![id] = "frame"] \/ starts' = [starts EXCEPT ![id] = "retry"]
    BY <1>6 DEF AudioIn, Retry
  <2>2. starting = id
    BY <2>1 DEF StartInv
  <2>3. starts' \in [Songs -> {"no", "audio", "retry", "frame", "play"}]
    BY <2>1 DEF PlayInv
  <2>4. \A s \in Songs : s # id => starts'[s] = starts[s]
    BY <2>1 DEF PlayInv
  <2>5. \A s \in Songs : /\ starts'[s] # "no" => starting' = s
                         /\ starts[s] = "play" => starts'[s] = "play"
    BY <2>1, <2>2, <2>4 DEF StartInv
  <2>6. QED
    BY <1>0, <1>2, <2>1, <2>2, <2>3, <2>5 DEF StartInv
<1>7. ASSUME NEW id \in Songs, NEW on, FinishStart(id, on), starts[id] \notin {"no", "play"}, UNCHANGED playVars
      PROVE  StartInv'
  <2>1. /\ \A s \in Songs : starts'[s] = "no"
        /\ starting' = NoSong /\ awaitingNext' = (transport' # "playing")
    BY <1>7, FinishKeeps
  <2>2. \A i \in DOMAIN plays : plays[i].by \notin Songs
    BY <1>7, NoPlayYet
  <2>3. installed' = NoSong => awaitingNext'
    BY <1>7, <2>1 DEF PlayInv, playVars
  <2>4. QED
    BY <1>7, <2>1, <2>2, <2>3 DEF StartInv, playVars
<1>8. ASSUME NEW id \in Songs, LoadFailed(id)
      PROVE  StartInv'
  BY <1>7, <1>8 DEF LoadFailed
<1>9. ASSUME NEW id \in Songs, FirstFrame(id)
      PROVE  StartInv'
  <2>1. starts[id] = "frame"
    BY <1>9 DEF FirstFrame
  <2>2. CASE installed = NoSong
    BY <1>7, <1>9, <2>1, <2>2 DEF FirstFrame
  <2>3. CASE installed # NoSong
    <3>1. /\ PlayFor(id) /\ starts' = [starts EXCEPT ![id] = "play"]
          /\ UNCHANGED <<installed, awaitingNext, starting>>
      BY <1>9, <2>3 DEF FirstFrame
    <3>2. /\ DOMAIN plays = 1..Len(plays) /\ DOMAIN plays' = 1..(Len(plays) + 1) /\ Len(plays) \in Nat
          /\ \A i \in DOMAIN plays : plays'[i].by = plays[i].by
          /\ plays'[Len(plays) + 1].by = id /\ plays'[Len(plays) + 1].current = TRUE
      BY <3>1, PlayForKeeps DEF PlayInv
    <3>3. \A i \in DOMAIN plays : plays[i].by \notin Songs
      BY <2>1, NoPlayYet
    <3>4. \A i \in DOMAIN plays' : plays'[i].by \in Songs => i = Len(plays) + 1
      BY <3>2, <3>3
    <3>5. \A s \in Songs : starts'[s] = IF s = id THEN "play" ELSE starts[s]
      BY <3>1 DEF PlayInv
    <3>6. \A i \in DOMAIN plays' : plays'[i].by \in Songs =>
            /\ starts'[plays'[i].by] = "play" /\ plays'[i].current
            /\ \A j \in DOMAIN plays' : plays'[j].by \in Songs => i = j
      BY <3>2, <3>4, <3>5
    <3>7. (\A s \in Songs : starts'[s] # "no" => starting' = s) /\ starting = id
      BY <2>1, <3>1, <3>5 DEF StartInv
    <3>8. QED
      BY <1>0, <3>1, <3>6, <3>7 DEF StartInv
  <2>4. QED
    BY <2>2, <2>3
<1>10. ASSUME NEW ok \in BOOLEAN, PlayAnswered(ok)
       PROVE  StartInv'
  <2>1. /\ plays # <<>> /\ plays' = Tail(plays) /\ UNCHANGED installed
        /\ \/ ~ Head(plays).current /\ transport' = transport
           \/ Head(plays).current /\ transport' \in {"playing", "idle"}
    BY <1>10 DEF PlayAnswered
  <2>2. /\ 1 \in DOMAIN plays /\ Head(plays) = plays[1]
        /\ \A i \in DOMAIN plays' : i + 1 \in DOMAIN plays /\ plays'[i] = plays[i + 1] /\ i \in Nat \ {0}
    BY <2>1, AnswerKeeps DEF PlayInv
  <2>3. installed = NoSong => transport' = "idle"
    BY <2>1, <2>2 DEF PlayInv
  <2>4. CASE Head(plays).by \in Songs
    <3>1. PICK id \in Songs : id = Head(plays).by
      BY <2>4
    <3>2. FinishStart(id, transport' = "playing") /\ starts[id] = "play"
      BY <1>10, <2>2, <3>1 DEF PlayAnswered, StartInv
    <3>3. /\ \A s \in Songs : starts'[s] = "no"
          /\ starting' = NoSong /\ awaitingNext' = (transport' # "playing")
      BY <3>2, FinishKeeps
    <3>4. \A i \in DOMAIN plays' : plays'[i].by \notin Songs
      <4>1. ASSUME NEW i \in DOMAIN plays', plays'[i].by \in Songs
            PROVE  FALSE
        <5>1. i + 1 \in DOMAIN plays /\ plays[i + 1].by \in Songs /\ i + 1 # 1
          BY <2>2, <4>1
        <5>2. QED
          BY <2>2, <2>4, <5>1 DEF StartInv
      <4>2. QED
        BY <4>1
    <3>5. QED
      BY <2>1, <2>3, <3>3, <3>4 DEF StartInv
  <2>5. CASE Head(plays).by \notin Songs
    <3>1. /\ awaitingNext' = (awaitingNext /\ transport' # "playing")
          /\ UNCHANGED <<starts, starting>>
      BY <1>10, <2>5 DEF PlayAnswered
    <3>2. ASSUME NEW i \in DOMAIN plays', plays'[i].by \in Songs
          PROVE  /\ starts'[plays'[i].by] = "play"
                 /\ transport' = "loading" => plays'[i].current
                 /\ \A j \in DOMAIN plays' : plays'[j].by \in Songs => i = j
      <4>1. /\ starts[plays[i + 1].by] = "play" /\ (transport = "loading" => plays[i + 1].current)
            /\ \A j \in DOMAIN plays : plays[j].by \in Songs => i + 1 = j
        BY <2>2, <3>2 DEF StartInv
      <4>2. transport' = "loading" => transport = "loading"
        BY <2>1
      <4>3. \A j \in DOMAIN plays' : plays'[j].by \in Songs => i + 1 = j + 1 /\ i \in Nat /\ j \in Nat
        BY <2>2, <3>2, <4>1
      <4>4. QED
        BY <2>2, <3>1, <3>2, <4>1, <4>2, <4>3
    <3>3. awaitingNext' => awaitingNext
      BY <3>1
    <3>4. starting = NoSong /\ installed = NoSong => awaitingNext'
      BY <2>3, <3>1 DEF StartInv
    <3>5. QED
      BY <2>1, <3>1, <3>2, <3>3, <3>4 DEF StartInv
  <2>6. QED
    BY <2>4, <2>5
<1>11. CASE Skip \/ UserStop \/ Ended
  <2>1. Silence /\ UNCHANGED <<starts, starting>>
    BY <1>11 DEF Skip, UserStop, Ended, startVars
  <2>2. /\ awaitingNext' => starting = NoSong
        /\ starting = NoSong /\ installed' = NoSong => awaitingNext'
    BY <1>11 DEF Skip, UserStop, Ended, StartInv
  <2>3. QED
    BY <1>2, <2>1, <2>2 DEF StartInv, PlayInv
<1>12. CASE UserPlay
  <2>1. /\ PlayFor(NoSong) /\ UNCHANGED <<installed, starts, starting, awaitingNext>>
        /\ \A s \in Songs : starts[s] = "no"
    BY <1>12 DEF UserPlay, startVars
  <2>2. \A i \in DOMAIN plays : plays[i].by \notin Songs
    BY <2>1 DEF StartInv
  <2>3. /\ DOMAIN plays = 1..Len(plays) /\ DOMAIN plays' = 1..(Len(plays) + 1) /\ Len(plays) \in Nat
        /\ \A i \in DOMAIN plays : plays'[i].by = plays[i].by
        /\ plays'[Len(plays) + 1].by = NoSong
    BY <2>1, PlayForKeeps DEF PlayInv
  <2>4. \A i \in DOMAIN plays' : plays'[i].by \notin Songs
    BY <1>0, <2>2, <2>3
  <2>5. QED
    BY <2>1, <2>4 DEF StartInv
<1>13. CASE UserPause
  <2>1. /\ UNCHANGED <<installed, starts, starting, plays>> /\ transport' # "loading"
        /\ awaitingNext' => awaitingNext
        /\ installed = NoSong => awaitingNext' = awaitingNext
    BY <1>13 DEF UserPause, startVars, PlayInv
  <2>2. QED
    BY <2>1 DEF StartInv
<1>14. QED
  BY <1>3, <1>4, <1>5, <1>6, <1>8, <1>9, <1>10, <1>11, <1>12, <1>13 DEF QNext, Goes, Reacts, Answers

\* A start in its play() ends only with that play()'s answer, after which the
\* song plays or isn't about to.
LEMMA MovesOnStep ==
  ASSUME ItemsOK(items, status), PlayInv, StartInv, QNext,
         NEW s \in Songs, starts[s] = "play", starts'[s] = "no"
  PROVE  transport' # "loading"
<1>1. CASE UNCHANGED starts
  BY <1>1
<1>2. ASSUME NEW id \in Songs, Goes(id)
      PROVE  FALSE
  <2>1. \/ UNCHANGED starts
        \/ starts[id] \in {"audio", "retry", "frame"} /\ \E x : starts' = [starts EXCEPT ![id] = x]
    BY <1>2 DEF Goes, VideoDone, WaitOver, AudioIn, Retry, LoadFailed, FirstFrame, FinishStart, startVars
  <2>2. QED
    BY <2>1 DEF PlayInv
<1>3. CASE ReactToNext
  <2>1. UNCHANGED starts \/ (nextReadySong # NoSong /\ starts' = [starts EXCEPT ![nextReadySong] = "audio"])
    BY <1>3 DEF ReactToNext
  <2>2. QED
    BY <2>1, NextReady DEF PlayInv
<1>4. ASSUME NEW ok \in BOOLEAN, PlayAnswered(ok)
      PROVE  transport' # "loading"
  <2>1. CASE Head(plays).by \in Songs
    <3>1. plays # <<>> /\ plays' = Tail(plays)
      BY <1>4 DEF PlayAnswered
    <3>2. 1 \in DOMAIN plays /\ Head(plays) = plays[1]
      BY <3>1, AnswerKeeps DEF PlayInv
    <3>3. transport = "loading" => Head(plays).current
      BY <2>1, <3>2 DEF StartInv
    <3>4. QED
      BY <1>4, <3>3 DEF PlayAnswered
  <2>2. CASE Head(plays).by \notin Songs
    BY <1>4, <2>2 DEF PlayAnswered
  <2>3. QED
    BY <2>1, <2>2
<1>5. ASSUME NEW id \in Songs, Add(id) \/ RemoveItem(id)
      PROVE  FALSE
  BY <1>5 DEF Add, RemoveItem, startVars
<1>6. CASE (\E from, to \in DOMAIN items : Move(from, to)) \/ Prepares \/ Remount \/ ReactToPreload
           \/ Skip \/ UserPlay \/ UserPause \/ UserStop \/ Ended
  BY <1>1, <1>6 DEF Move, Prepares, Prepared, PrepareFailed, Remount, ReactToPreload,
                    Skip, UserPlay, UserPause, UserStop, Ended, startVars
<1>7. QED
  BY <1>2, <1>3, <1>4, <1>5, <1>6 DEF QNext, Reacts, Answers

------------------------------------------------------------------------------
(***************************************************************************)
(* The theorems.                                                           *)
(***************************************************************************)

\* With nothing queued all of it holds.
LEMMA QueueInit ==
  ASSUME QInit
  PROVE  PreparingInv /\ SeenInv /\ PlayInv /\ StartInv
<1>0. NoSong \notin Songs
  BY QueueAssumption
<1>1. PreparingInv
  <2>1. Queued(status) = {}
    BY DEF QInit, Queued
  <2>2. <<>> \in Seq(Songs) /\ DOMAIN <<>> = {} /\ ToSet(<<>>) = {} /\ IsInjective(<<>>)
    BY EmptySeq, LenProperties DEF ToSet, IsInjective
  <2>3. ItemsOK(items, status)
    BY <2>1, <2>2 DEF QInit, ItemsOK, Statuses
  <2>4. PrepOK(status, preparing, running)
    BY <1>0 DEF QInit, PrepOK
  <2>5. DownOK(status, downloads, video, waits)
    BY <2>1 DEF QInit, DownOK
  <2>6. QED
    BY <2>3, <2>4, <2>5 DEF PreparingInv, QInit
<1>2. SeenInv
  <2>1. seen = << <<NoSong, "unseen">>, <<"unseen", NoSong>> >>
    BY DEF QInit, Unseen
  <2>2. QED
    BY <2>1 DEF QInit, SeenInv
<1>3. PlayInv
  BY EmptySeq DEF QInit, PlayInv
<1>4. StartInv
  BY DEF QInit, StartInv
<1>5. QED
  BY <1>1, <1>2, <1>3, <1>4

\* What is queued, prepared and downloaded fits together, the reactions did
\* what they last ran for, and only the last play() is current, whatever the
\* user does.
THEOREM QueueInvariant == QSpec => [](PreparingInv /\ SeenInv /\ PlayInv)
<1>1. QInit => PreparingInv /\ SeenInv /\ PlayInv
  BY QueueInit
<1>2. PreparingInv /\ SeenInv /\ PlayInv /\ [QNext /\ UNCHANGED streaming]_<<vars, streaming>>
        => PreparingInv' /\ SeenInv' /\ PlayInv'
  <2>1. ASSUME PreparingInv, SeenInv, PlayInv, QNext, UNCHANGED streaming
        PROVE  PreparingInv' /\ SeenInv' /\ PlayInv'
    <3>1. ItemsOK(items, status)
      BY <2>1 DEF PreparingInv
    <3>2. QED
      BY <2>1, <3>1, PreparingStep, SeenStep, PlayStep
  <2>2. ASSUME PreparingInv, SeenInv, PlayInv, UNCHANGED <<vars, streaming>>
        PROVE  PreparingInv' /\ SeenInv' /\ PlayInv'
    <3>1. PreparingInv'
      BY <2>2 DEF PreparingInv, ItemsOK, PrepOK, DownOK, Queued, vars, prepVars, dlVars
    <3>2. SeenInv'
      BY <2>2 DEF SeenInv, vars, startVars
    <3>3. PlayInv'
      BY <2>2 DEF PlayInv, vars, startVars, playVars
    <3>4. QED
      BY <3>1, <3>2, <3>3
  <2>3. QED
    BY <2>1, <2>2
<1>3. QED
  BY <1>1, <1>2, PTL DEF QSpec

\* A song is ready only once its video is done, and nothing is downloaded for
\* one that isn't queued, however prepares, removals and remounts interleave.
THEOREM VideosAreOfTheQueue == QSpec => []VideosMatchQueue
<1>1. PreparingInv => VideosMatchQueue
  BY DEF PreparingInv, ItemsOK, DownOK, VideosMatchQueue
<1>2. QED
  BY <1>1, QueueInvariant, PTL

\* Between starts the song to play next is the one in memory, as the reaction
\* that preloads waits for a start to be over and then runs for it again.
THEOREM NextIsPreloaded == QSpec => []PreloadIsNext
<1>1. SeenInv => PreloadIsNext
  <2> SUFFICES ASSUME SeenInv, Settled, starting = NoSong
               PROVE  preloaded = nextReadySong
    BY DEF PreloadIsNext
  <2>1. seen[2] = <<"idle", nextReadySong>>
    BY DEF Settled, ToPreload
  <2>2. QED
    BY <2>1 DEF SeenInv
<1>2. QED
  BY <1>1, QueueInvariant, PTL

\* With nobody impatient one song is started at a time, and awaitingNext says
\* that none is.
THEOREM OneStart ==
  ASSUME Impatient = FALSE
  PROVE  QSpec => []StartInv
<1>1. QInit => StartInv
  BY QueueInit
<1>2. PreparingInv /\ PlayInv /\ StartInv /\ [QNext /\ UNCHANGED streaming]_<<vars, streaming>> => StartInv'
  <2>1. ASSUME PreparingInv, PlayInv, StartInv, QNext
        PROVE  StartInv'
    BY <2>1, StartStep DEF PreparingInv
  <2>2. ASSUME StartInv, UNCHANGED <<vars, streaming>>
        PROVE  StartInv'
    BY <2>2 DEF StartInv, vars, startVars, playVars
  <2>3. QED
    BY <2>1, <2>2
<1>3. QED
  BY <1>1, <1>2, QueueInvariant, PTL DEF QSpec

\* Every field keeps its type; one song is prepared at a time, the presenter's,
\* and never from a download it has aborted; and one is started at a time.
THEOREM QueueIsSafe ==
  ASSUME Impatient = FALSE
  PROVE  QSpec => []QueueSafe
<1>1. PreparingInv /\ SeenInv /\ PlayInv => QTypeOK
  <2> SUFFICES ASSUME PreparingInv, SeenInv, PlayInv
               PROVE  QTypeOK
    OBVIOUS
  <2>1. ToSet(items) = {s \in Songs : status[s] \notin {"new", "gone"}} /\ items \in Seq(Songs)
        /\ status \in [Songs -> Statuses] /\ IsInjective(items)
    BY DEF PreparingInv, ItemsOK, Queued
  <2>2. preparing \in Songs \union {NoSong} /\ running \subseteq [id : Songs, aborted : BOOLEAN]
    BY DEF PreparingInv, PrepOK
  <2>3. /\ downloads \subseteq streaming /\ video \in [Songs -> {"none", "running", "done", "aborted"}]
        /\ waits \in [Songs -> {"no", "live", "aborted"}] /\ streaming \subseteq Songs
    BY DEF PreparingInv, DownOK
  <2>4. {starting, nowPlaying, preloaded, installed} \subseteq Songs \union {NoSong} /\ awaitingNext \in BOOLEAN
    BY DEF SeenInv, PlayInv
  <2>5. /\ history \in Seq(Songs) /\ starts \in [Songs -> {"no", "audio", "retry", "frame", "play"}]
        /\ transport \in {"idle", "loading", "playing", "paused"}
    BY DEF PlayInv
  <2>6. QED
    BY <2>1, <2>2, <2>3, <2>4, <2>5 DEF QTypeOK
<1>2. PreparingInv /\ StartInv => OneAtATime
  <2> SUFFICES ASSUME PreparingInv, StartInv
               PROVE  OneAtATime
    OBVIOUS
  <2>1. running = {} \/ \E r : running = {r}
    BY DEF PreparingInv, PrepOK
  <2>2. Cardinality(running) <= 1
    <3>1. CASE running = {}
      BY <3>1, FS_EmptySet
    <3>2. ASSUME NEW r, running = {r}
          PROVE  Cardinality(running) = 1
      BY <3>2, FS_Singleton
    <3>3. QED
      BY <2>1, <3>1, <3>2
  <2>3. ASSUME NEW r \in running
        PROVE  preparing = r.id /\ (~ r.aborted => video[r.id] # "aborted")
    <3>1. PICK b \in BOOLEAN :
            /\ preparing \in Songs /\ running = {[id |-> preparing, aborted |-> b]}
            /\ status[preparing] \in {"waiting", "preparing", "gone"} /\ (~ b => status[preparing] # "gone")
      BY <2>3 DEF PreparingInv, PrepOK
    <3>2. r = [id |-> preparing, aborted |-> b]
      BY <2>3, <3>1
    <3>3. ~ b => video[preparing] # "aborted"
      BY <3>1 DEF PreparingInv, DownOK
    <3>4. QED
      BY <3>2, <3>3
  <2>4. preparing # NoSong => running # {}
    BY DEF PreparingInv, PrepOK
  <2>5. \A s \in Songs : starts[s] # "no" => starting = s
    BY DEF StartInv
  <2>6. QED
    BY <2>2, <2>3, <2>4, <2>5 DEF OneAtATime
<1>3. QED
  BY <1>1, <1>2, QueueInvariant, OneStart, PTL DEF QueueSafe

\* No song that is ready is left unstarted beside a silent player, but for one
\* the user stopped.
THEOREM NeverStalls ==
  ASSUME Impatient = FALSE
  PROVE  QSpec => []NoStall
<1>1. PreparingInv /\ SeenInv /\ StartInv => NoStall
  <2> SUFFICES ASSUME PreparingInv, SeenInv, StartInv, Settled, starting = NoSong, nextReadySong # NoSong
               PROVE  ~ awaitingNext /\ (transport = "idle" => installed # NoSong)
    BY DEF NoStall
  <2>1. nextPlayable = nextReadySong /\ status[nextReadySong] = "ready"
    BY NextReady DEF PreparingInv
  <2>2. awaitingNext => ToStart[2] = "ready"
    BY <2>1 DEF ToStart
  <2>3. seen[1] = ToStart
    BY DEF Settled
  <2>4. ~ awaitingNext
    BY <2>2, <2>3 DEF SeenInv
  <2>5. QED
    BY <2>4 DEF StartInv
<1>2. QED
  BY <1>1, QueueInvariant, OneStart, PTL

\* With nobody impatient, what the comment of start() promises does hold: it
\* moves on only if its song isn't about to play.
THEOREM MovesOnUnhurried ==
  ASSUME Impatient = FALSE
  PROVE  QSpec => MovesOnWhenSilent
<1>1. PreparingInv /\ PlayInv /\ StartInv /\ [QNext /\ UNCHANGED streaming]_<<vars, streaming>>
        => [(\E s \in Songs : starts[s] = "play" /\ starts'[s] = "no" /\ awaitingNext') => transport' # "loading"]_vars
  <2>1. ASSUME PreparingInv, PlayInv, StartInv, QNext,
               NEW s \in Songs, starts[s] = "play", starts'[s] = "no"
        PROVE  transport' # "loading"
    BY <2>1, MovesOnStep DEF PreparingInv
  <2>2. UNCHANGED <<vars, streaming>> => UNCHANGED vars
    OBVIOUS
  <2>3. QED
    BY <2>1, <2>2
<1>2. QED
  BY <1>1, QueueInvariant, OneStart, PTL DEF QSpec, MovesOnWhenSilent
=============================================================================
