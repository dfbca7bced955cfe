------------------------------ MODULE Playback_proof ------------------------------
(***************************************************************************)
(* Theorems of PlaybackEngine and AudioTransport, and of the two side by   *)
(* side: for songs of any length, any rates and seconds, and any number of *)
(* calls, changes of device and commands waiting.                          *)
(*                                                                         *)
(* The page's are proved for a page that leaves a pause or a resume its    *)
(* time (Hasty is FALSE): the run playback_stop shows them broken by one   *)
(* that doesn't.                                                           *)
(***************************************************************************)
EXTENDS MCPlayback, SequenceLemmas

(***************************************************************************)
(* The page's playback, and the commands on their way to the engine.       *)
(***************************************************************************)

Cmds == [op : {"play", "pause", "stop", "seek"}, sec : Times, wait : Waits, current : BOOLEAN]

\* What a command is for tells what it is; only a start may be current.
CommandOK(c) ==
  /\ c \in Cmds
  /\ c.wait = "none" => c.op \in {"stop", "seek"}
  /\ c.wait = "start" => c.op = "seek"
  /\ c.wait \in {"play", "resume"} => c.op = "play"
  /\ c.wait = "pause" => c.op = "pause"
  /\ c.op = "stop" => c.sec = 0
  /\ c.current => c.wait \in {"start", "play"}

PTypes ==
  /\ state \in States
  /\ {currentTime, feedStart, anchor} \subseteq Times
  /\ {cued, ended, timer, loaded, delayed, done} \subseteq BOOLEAN
  /\ dev \in [playing : BOOLEAN, sec : Times]
  /\ cmds \in Seq(Cmds) /\ \A i \in DOMAIN cmds : CommandOK(cmds[i])
  /\ done => cmds # <<>>

\* The engine has yet to carry it out.
Ahead(i) == done => i # 1

\* An idle page will be silent: it has no start to be answered, and whatever
\* still plays is to be stopped, or is a start whose answer stops it.
IdleInv ==
  state = "idle" =>
    /\ \A i \in DOMAIN cmds : ~ cmds[i].current /\ cmds[i].wait \notin {"pause", "resume"}
    /\ \/ ~ dev.playing
       \/ done /\ cmds[1].wait = "play"
       \/ \E i \in DOMAIN cmds : cmds[i].op = "stop" /\ Ahead(i)

\* A loading page has one start to be answered, its latest, and nothing that
\* would stop it.
LoadingInv ==
  state = "loading" =>
    /\ \A i \in DOMAIN cmds : cmds[i].wait \notin {"pause", "resume"}
    /\ \E i \in DOMAIN cmds :
         /\ cmds[i].current
         /\ \A j \in DOMAIN cmds :
              /\ j # i => ~ cmds[j].current
              /\ j > i => cmds[j].op = "seek" \/ (cmds[i].wait = "start" /\ cmds[j].wait = "play")
              /\ cmds[j].wait = "start" => j <= i /\ cmds[i].wait = "start"

\* A page that plays or is paused has the engine do so: only seeks are under
\* way, and after them the one pause or resume that is being answered.
HeardInv ==
  state \in {"playing", "paused"} =>
    /\ \A i \in DOMAIN cmds :
         /\ cmds[i].wait \in {"none", "pause", "resume"}
         /\ cmds[i].wait = "none" => cmds[i].op = "seek"
         /\ cmds[i].wait = "pause" => state = "playing" /\ i = Len(cmds)
         /\ cmds[i].wait = "resume" => state = "paused" /\ i = Len(cmds)
    /\ IF done /\ cmds[1].wait \in {"pause", "resume"}
         THEN dev.playing <=> state = "paused"
         ELSE dev.playing <=> state = "playing"

Moves(i) == cmds[i].op \in {"seek", "stop"}

\* Unless idle, the output reckons that the song is where the last command
\* that moves the engine leaves it.
WhereInv ==
  /\ state # "idle" =>
       /\ feedStart <= anchor
       /\ \/ dev.sec = anchor /\ \A i \in DOMAIN cmds : Ahead(i) => ~ Moves(i)
          \/ \E i \in DOMAIN cmds :
               /\ Ahead(i) /\ Moves(i) /\ cmds[i].sec = anchor
               /\ \A j \in DOMAIN cmds : j > i => ~ Moves(j)
  /\ state = "paused" => currentTime = anchor

\* A play that was carried out has the engine play until it's answered.
CarriedInv == done /\ cmds[1].op = "play" => dev.playing

PInv == PTypes /\ IdleInv /\ LoadingInv /\ HeardInv /\ CarriedInv /\ EndScheduled /\ WhereInv

------------------------------------------------------------------------------
\* An outdated start is no longer current; nothing else of the queue changes.
LEMMA OutdatedKeeps ==
  ASSUME NEW q \in Seq(Cmds), \A i \in DOMAIN q : CommandOK(q[i])
  PROVE  /\ Outdated(q) \in Seq(Cmds) /\ Len(Outdated(q)) = Len(q) /\ DOMAIN Outdated(q) = DOMAIN q
         /\ \A i \in DOMAIN q : /\ CommandOK(Outdated(q)[i])
                                /\ Outdated(q)[i].op = q[i].op /\ Outdated(q)[i].wait = q[i].wait
                                /\ Outdated(q)[i].sec = q[i].sec /\ Outdated(q)[i].current = FALSE
<1>1. DOMAIN q = 1..Len(q) /\ Len(q) \in Nat
  BY LenProperties
<1>2. ASSUME NEW c \in Cmds, CommandOK(c)
      PROVE  /\ [c EXCEPT !.current = FALSE] \in Cmds /\ CommandOK([c EXCEPT !.current = FALSE])
             /\ [c EXCEPT !.current = FALSE].op = c.op /\ [c EXCEPT !.current = FALSE].wait = c.wait
             /\ [c EXCEPT !.current = FALSE].sec = c.sec /\ [c EXCEPT !.current = FALSE].current = FALSE
  BY <1>2 DEF Cmds, CommandOK
<1>3. \A i \in DOMAIN q : q[i] \in Cmds
  BY DEF CommandOK
<1> HIDE DEF Cmds
<1>4. Outdated(q) \in [1..Len(q) -> Cmds]
  BY <1>1, <1>2, <1>3 DEF Outdated
<1>5. Outdated(q) \in Seq(Cmds) /\ Len(Outdated(q)) = Len(q)
  BY <1>1, <1>4
<1>6. DOMAIN Outdated(q) = DOMAIN q /\ \A i \in DOMAIN q : Outdated(q)[i] = [q[i] EXCEPT !.current = FALSE]
  BY DEF Outdated
<1>7. ASSUME NEW i \in DOMAIN q
      PROVE  /\ CommandOK(Outdated(q)[i])
             /\ Outdated(q)[i].op = q[i].op /\ Outdated(q)[i].wait = q[i].wait
             /\ Outdated(q)[i].sec = q[i].sec /\ Outdated(q)[i].current = FALSE
  <2>1. PICK c \in Cmds : c = q[i] /\ CommandOK(c)
    BY <1>3
  <2>2. Outdated(q)[i] = [c EXCEPT !.current = FALSE]
    BY <1>6, <2>1
  <2>3. QED
    BY <1>2, <2>1, <2>2
<1>8. QED
  BY <1>5, <1>6, <1>7

\* What the page sends is a command.
LEMMA CommandsSent ==
  /\ \A sec \in Times : /\ CommandOK(Send("seek", sec)) /\ CommandOK(Send("stop", 0))
                        /\ \A b \in BOOLEAN : /\ CommandOK(Cmd("seek", sec, "start", b))
                                              /\ CommandOK(Cmd("play", sec, "play", b))
  /\ CommandOK(Cmd("pause", 0, "pause", FALSE)) /\ CommandOK(Cmd("play", 0, "resume", FALSE))
  /\ 0 \in Times
<1>1. 0 \in Times
  BY PlaybackAssumption DEF Times
<1>2. QED
  BY <1>1 DEF CommandOK, Cmds, Cmd, Send, Waits

\* A page that acts has had its pause or its resume answered.
LEMMA NothingAnswering ==
  ASSUME Hasty = FALSE, MayAct
  PROVE  \A i \in DOMAIN cmds : cmds[i].wait \notin {"pause", "resume"}
BY DEF MayAct, Answering

\* A stop leaves the page idle, its stop the last that the engine is to do.
LEMMA StoppedKeeps ==
  ASSUME PTypes, NEW q \in Seq(Cmds), NEW end \in BOOLEAN, Stopped(q, end),
         \A i \in DOMAIN q : CommandOK(q[i]) /\ q[i].wait \notin {"pause", "resume"},
         done => q # <<>> /\ (q[1].op = "play" => dev.playing),
         UNCHANGED <<feedStart, delayed, done, dev>>, loaded' \in BOOLEAN
  PROVE  PInv' /\ state' = "idle"
<1>1. PICK r \in Seq(Cmds) :
        /\ r = Outdated(q) /\ Len(r) = Len(q) /\ DOMAIN r = DOMAIN q
        /\ \A i \in DOMAIN r : /\ CommandOK(r[i]) /\ ~ r[i].current /\ r[i].wait \notin {"pause", "resume"}
                              /\ r[i].op = q[i].op
  <2>1. /\ Outdated(q) \in Seq(Cmds) /\ Len(Outdated(q)) = Len(q) /\ DOMAIN Outdated(q) = DOMAIN q
        /\ \A i \in DOMAIN q : /\ CommandOK(Outdated(q)[i]) /\ Outdated(q)[i].current = FALSE
                               /\ Outdated(q)[i].wait = q[i].wait /\ Outdated(q)[i].op = q[i].op
    BY OutdatedKeeps
  <2>2. QED
    BY <2>1
<1>2. PICK c \in Cmds : c = Send("stop", 0) /\ CommandOK(c)
  BY CommandsSent DEF CommandOK
<1>3. cmds' = Append(r, c) /\ state' = "idle" /\ currentTime' = 0 /\ anchor' = 0 /\ timer' = FALSE
      /\ cued' = FALSE /\ ended' = end
  BY <1>1, <1>2 DEF Stopped
<1>4. /\ cmds' \in Seq(Cmds) /\ Len(r) \in Nat /\ DOMAIN r = 1..Len(r) /\ DOMAIN cmds' = 1..(Len(r) + 1)
      /\ \A i \in 1..Len(r) : cmds'[i] = r[i]
      /\ cmds'[Len(r) + 1] = c
  BY <1>3, AppendAt
<1>5. c.op = "stop" /\ c.wait = "none" /\ c.current = FALSE
  BY <1>2 DEF Send, Cmd
<1>6. done => Len(r) # 0
  BY <1>1, EmptySeq
<1>7. PTypes'
  <2>1. \A i \in DOMAIN cmds' : CommandOK(cmds'[i])
    BY <1>1, <1>2, <1>4
  <2>2. cmds' # <<>>
    BY <1>4, EmptySeq
  <2>3. 0 \in Times
    BY CommandsSent
  <2>4. QED
    BY <1>3, <1>4, <2>1, <2>2, <2>3 DEF PTypes, States, CommandOK
<1>8. IdleInv'
  <2>1. \A i \in DOMAIN cmds' : ~ cmds'[i].current /\ cmds'[i].wait \notin {"pause", "resume"}
    BY <1>1, <1>4, <1>5
  <2>2. cmds'[Len(r) + 1].op = "stop" /\ Len(r) + 1 \in DOMAIN cmds' /\ (done' => Len(r) + 1 # 1)
    BY <1>4, <1>5, <1>6
  <2>3. QED
    BY <2>1, <2>2 DEF IdleInv, Ahead
<1>9. CarriedInv'
  <2>1. done => 1 \in 1..Len(r) /\ cmds'[1].op = q[1].op
    BY <1>1, <1>4, <1>6
  <2>2. QED
    BY <2>1 DEF CarriedInv
<1>10. QED
  BY <1>3, <1>7, <1>8, <1>9 DEF PInv, LoadingInv, HeardInv, EndScheduled, WhereInv

\* A play() stops what was, and has the one current start.
LEMMA PlayKeeps ==
  ASSUME Hasty = FALSE, PInv, Play
  PROVE  PInv'
<1> USE DEF PInv
<1>1. PICK from \in Times : from = IF cued THEN currentTime ELSE 0
  BY CommandsSent DEF PTypes
<1>2. PICK r \in Seq(Cmds) :
        /\ r = Outdated(cmds) /\ Len(r) = Len(cmds) /\ DOMAIN r = DOMAIN cmds
        /\ \A i \in DOMAIN r : /\ CommandOK(r[i]) /\ ~ r[i].current
                              /\ r[i].wait = cmds[i].wait /\ r[i].op = cmds[i].op
  <2>1. cmds \in Seq(Cmds) /\ \A i \in DOMAIN cmds : CommandOK(cmds[i])
    BY DEF PTypes
  <2>2. /\ Outdated(cmds) \in Seq(Cmds) /\ Len(Outdated(cmds)) = Len(cmds)
        /\ DOMAIN Outdated(cmds) = DOMAIN cmds
        /\ \A i \in DOMAIN cmds : /\ CommandOK(Outdated(cmds)[i]) /\ Outdated(cmds)[i].current = FALSE
                                  /\ Outdated(cmds)[i].wait = cmds[i].wait
                                  /\ Outdated(cmds)[i].op = cmds[i].op
    BY <2>1, OutdatedKeeps
  <2>3. QED
    BY <2>2
<1>3. PICK c \in Cmds : c = Send("stop", 0) /\ CommandOK(c)
  BY CommandsSent DEF CommandOK
<1>4. PICK d \in Cmds : d = Cmd("seek", from, "start", TRUE) /\ CommandOK(d)
  BY CommandsSent DEF CommandOK
<1>5. /\ state' = "loading" /\ currentTime' = 0 /\ timer' = FALSE /\ cued' = FALSE /\ ended' = FALSE
      /\ feedStart' = from /\ anchor' = from /\ cmds' = r \o <<c, d>>
      /\ UNCHANGED <<loaded, delayed, done, dev>> /\ MayAct
  BY <1>1, <1>2, <1>3, <1>4 DEF Play, Loading
<1>6. PICK n \in Nat :
        /\ n = Len(r) /\ DOMAIN r = 1..n /\ cmds' \in Seq(Cmds) /\ DOMAIN cmds' = 1..(n + 2) /\ Len(cmds') = n + 2
        /\ \A i \in 1..n : cmds'[i] = r[i]
        /\ cmds'[n + 1] = c /\ cmds'[n + 2] = d
  <2>1. <<c, d>> \in Seq(Cmds) /\ Len(<<c, d>>) = 2 /\ <<c, d>>[1] = c /\ <<c, d>>[2] = d
    OBVIOUS
  <2>2. PICK e \in Seq(Cmds) : e = <<c, d>> /\ Len(e) = 2 /\ e[1] = c /\ e[2] = d
    BY <2>1
  <2>3. /\ cmds' \in Seq(Cmds) /\ Len(cmds') = Len(r) + 2
        /\ \A i \in 1..(Len(r) + 2) : cmds'[i] = IF i <= Len(r) THEN r[i] ELSE e[i - Len(r)]
    BY <1>5, <2>2, ConcatProperties
  <2>4. Len(r) \in Nat /\ DOMAIN r = 1..Len(r) /\ DOMAIN cmds' = 1..Len(cmds')
    BY <2>3, LenProperties
  <2>5. \A i \in 1..Len(r) : cmds'[i] = r[i]
    BY <2>3, <2>4
  <2>6. cmds'[Len(r) + 1] = c /\ cmds'[Len(r) + 2] = d
    BY <2>2, <2>3, <2>4
  <2>7. QED
    BY <2>3, <2>4, <2>5, <2>6
<1>7. /\ c.op = "stop" /\ c.wait = "none" /\ c.current = FALSE
      /\ d.op = "seek" /\ d.wait = "start" /\ d.current = TRUE /\ d.sec = from
  BY <1>3, <1>4 DEF Send, Cmd
<1>8. done => n # 0
  BY <1>2, <1>6, EmptySeq DEF PTypes
<1>9. PTypes'
  <2>1. \A i \in DOMAIN cmds' : CommandOK(cmds'[i])
    <3>1. \A i \in 1..n : CommandOK(cmds'[i])
      BY <1>2, <1>6
    <3>2. \A i \in 1..(n + 2) : i \in 1..n \/ i = n + 1 \/ i = n + 2
      OBVIOUS
    <3>3. QED
      BY <1>3, <1>4, <1>6, <3>1, <3>2
  <2>2. cmds' # <<>>
    BY <1>6, EmptySeq
  <2>3. 0 \in Times
    BY CommandsSent
  <2>4. QED
    BY <1>5, <1>6, <2>1, <2>2, <2>3 DEF PTypes, States, CommandOK
<1>10. LoadingInv'
  <2>1. \A i \in DOMAIN cmds' : cmds'[i].wait \notin {"pause", "resume"}
    <3>1. \A i \in 1..n : cmds'[i].wait \notin {"pause", "resume"}
      BY <1>2, <1>5, <1>6, NothingAnswering
    <3>2. \A i \in 1..(n + 2) : i \in 1..n \/ i = n + 1 \/ i = n + 2
      OBVIOUS
    <3>3. QED
      BY <1>6, <1>7, <3>1, <3>2
  <2>2. \A j \in DOMAIN cmds' : (j # n + 2 => ~ cmds'[j].current) /\ j <= n + 2
    <3>1. \A i \in 1..n : ~ cmds'[i].current
      BY <1>2, <1>6
    <3>2. \A i \in 1..(n + 2) : (i \in 1..n \/ i = n + 1 \/ i = n + 2) /\ i <= n + 2
      OBVIOUS
    <3>3. QED
      BY <1>6, <1>7, <3>1, <3>2
  <2>3. cmds'[n + 2].current /\ cmds'[n + 2].wait = "start" /\ n + 2 \in DOMAIN cmds'
    BY <1>6, <1>7
  <2>4. \A j \in DOMAIN cmds' :
          /\ j # n + 2 => ~ cmds'[j].current
          /\ j > n + 2 => cmds'[j].op = "seek" \/ (cmds'[n + 2].wait = "start" /\ cmds'[j].wait = "play")
          /\ cmds'[j].wait = "start" => j <= n + 2 /\ cmds'[n + 2].wait = "start"
    BY <1>6, <2>2, <2>3
  <2>5. QED
    BY <2>1, <2>3, <2>4 DEF LoadingInv
<1>11. WhereInv'
  <2>1. /\ n + 2 \in DOMAIN cmds' /\ (done' => n + 2 # 1) /\ cmds'[n + 2].op = "seek" /\ cmds'[n + 2].sec = anchor'
        /\ \A j \in DOMAIN cmds' : ~ (j > n + 2)
    BY <1>5, <1>6, <1>7
  <2>2. feedStart' <= anchor'
    BY <1>1, <1>5, PlaybackAssumption DEF Times
  <2>3. QED
    BY <1>5, <2>1, <2>2 DEF WhereInv, Ahead, Moves
<1>12. CarriedInv'
  <2>1. done => 1 \in 1..n /\ cmds'[1].op = cmds[1].op
    BY <1>2, <1>6, <1>8
  <2>2. QED
    BY <1>5, <2>1 DEF CarriedInv
<1>13. QED
  BY <1>5, <1>9, <1>10, <1>11, <1>12 DEF IdleInv, HeardInv, EndScheduled

\* Nothing is sent: the page shows another time, its end is rescheduled, or
\* what is to come changes.
LEMMA StillKeeps ==
  ASSUME PInv, UNCHANGED <<state, feedStart, anchor, cmds, done, dev>>,
         currentTime' \in Times, state = "paused" => currentTime' = currentTime,
         {cued', ended', loaded', delayed'} \subseteq BOOLEAN,
         timer' = (state = "playing" /\ ~ Answering("pause"))
  PROVE  PInv'
<1> USE DEF PInv
<1>1. PTypes'
  BY DEF PTypes
<1>2. \A i : Ahead(i)' <=> Ahead(i)
  BY DEF Ahead
<1>3. \A i : Moves(i)' <=> Moves(i)
  BY DEF Moves
<1>4. IdleInv' /\ LoadingInv' /\ HeardInv' /\ CarriedInv'
  BY <1>2 DEF IdleInv, LoadingInv, HeardInv, CarriedInv
<1>5. WhereInv'
  BY <1>2, <1>3 DEF WhereInv
<1>6. EndScheduled'
  BY DEF EndScheduled, Answering
<1>7. QED
  BY <1>1, <1>4, <1>5, <1>6

\* What is sent goes last.
LEMMA SentAt ==
  ASSUME PTypes, NEW c, CommandOK(c), cmds' = Append(cmds, c)
  PROVE  \E n \in Nat :
           /\ n = Len(cmds) /\ DOMAIN cmds = 1..n /\ DOMAIN cmds' = 1..(n + 1) /\ Len(cmds') = n + 1
           /\ cmds' \in Seq(Cmds) /\ cmds' # <<>>
           /\ \A i \in 1..n : cmds'[i] = cmds[i]
           /\ cmds'[n + 1] = c
           /\ \A i \in DOMAIN cmds' : CommandOK(cmds'[i]) /\ (i \in 1..n \/ i = n + 1)
           /\ done => n # 0
<1>1. cmds \in Seq(Cmds) /\ c \in Cmds /\ \A i \in DOMAIN cmds : CommandOK(cmds[i])
  BY DEF PTypes, CommandOK
<1>2. /\ cmds' \in Seq(Cmds)
      /\ Len(cmds) \in Nat /\ DOMAIN cmds = 1..Len(cmds)
      /\ Len(cmds') = Len(cmds) + 1 /\ DOMAIN cmds' = 1..(Len(cmds) + 1)
      /\ \A i \in 1..Len(cmds) : cmds'[i] = cmds[i]
      /\ cmds'[Len(cmds) + 1] = c
  BY <1>1, AppendAt
<1>3. \A i \in DOMAIN cmds' : i \in 1..Len(cmds) \/ i = Len(cmds) + 1
  BY <1>2
<1>4. \A i \in DOMAIN cmds' : CommandOK(cmds'[i])
  BY <1>1, <1>2, <1>3
<1>5. cmds' # <<>> /\ (done => Len(cmds) # 0)
  BY <1>1, <1>2, EmptySeq DEF PTypes
<1>6. QED
  BY <1>2, <1>3, <1>4, <1>5

\* A pause or a resume is sent to a page's engine that does the opposite.
LEMMA PauseKeeps ==
  ASSUME Hasty = FALSE, PInv, Pause \/ Resume
  PROVE  PInv'
<1> USE DEF PInv
<1>1. PICK c : /\ cmds' = Append(cmds, c) /\ CommandOK(c) /\ ~ c.current
               /\ c = IF state = "playing" THEN Cmd("pause", 0, "pause", FALSE) ELSE Cmd("play", 0, "resume", FALSE)
               /\ state \in {"playing", "paused"}
  BY CommandsSent DEF Pause, Resume, Cmd
<1>2. /\ UNCHANGED <<state, currentTime, cued, ended, feedStart, loaded, delayed, anchor, done, dev>> /\ MayAct
      /\ timer' = IF state = "playing" THEN FALSE ELSE timer
  BY DEF Pause, Resume, engineVars
<1>3. /\ state = "playing" => c.op = "pause" /\ c.wait = "pause"
      /\ state = "paused" => c.op = "play" /\ c.wait = "resume"
  BY <1>1 DEF Cmd
<1>4. PICK n \in Nat :
        /\ n = Len(cmds) /\ DOMAIN cmds = 1..n /\ DOMAIN cmds' = 1..(n + 1) /\ Len(cmds') = n + 1
        /\ cmds' \in Seq(Cmds) /\ cmds' # <<>>
        /\ \A i \in 1..n : cmds'[i] = cmds[i]
        /\ cmds'[n + 1] = c
        /\ \A i \in DOMAIN cmds' : CommandOK(cmds'[i]) /\ (i \in 1..n \/ i = n + 1)
        /\ done => n # 0
  BY <1>1, SentAt
<1>5. \A i \in 1..n : cmds[i].wait \notin {"pause", "resume"}
  BY <1>2, <1>4, NothingAnswering
<1>6. PTypes'
  BY <1>2, <1>4 DEF PTypes
<1>7. done => 1 \in 1..n /\ cmds'[1] = cmds[1]
  BY <1>4
<1>8. HeardInv'
  <2>1. ASSUME NEW i \in DOMAIN cmds'
        PROVE  /\ cmds'[i].wait \in {"none", "pause", "resume"}
               /\ cmds'[i].wait = "none" => cmds'[i].op = "seek"
               /\ cmds'[i].wait = "pause" => state = "playing" /\ i = Len(cmds')
               /\ cmds'[i].wait = "resume" => state = "paused" /\ i = Len(cmds')
    <3>1. CASE i \in 1..n
      BY <1>1, <1>4, <1>5, <3>1 DEF HeardInv
    <3>2. CASE i = n + 1
      BY <1>1, <1>3, <1>4, <3>2
    <3>3. QED
      BY <1>4, <3>1, <3>2
  <2>2. ~ (done /\ cmds[1].wait \in {"pause", "resume"})
    BY <1>5, <1>7
  <2>3. dev.playing <=> state = "playing"
    BY <1>1, <2>2 DEF HeardInv
  <2>4. ~ (done' /\ cmds'[1].wait \in {"pause", "resume"})
    BY <1>2, <1>7, <2>2
  <2>5. QED
    BY <1>2, <2>1, <2>3, <2>4 DEF HeardInv
<1>9. CarriedInv'
  BY <1>2, <1>7 DEF CarriedInv
<1>10. EndScheduled'
  <2>1. CASE state = "playing"
    <3>1. cmds'[n + 1].wait = "pause" /\ n + 1 \in DOMAIN cmds'
      BY <1>3, <1>4, <2>1
    <3>2. Answering("pause")'
      BY <3>1 DEF Answering
    <3>3. QED
      BY <1>2, <2>1, <3>2 DEF EndScheduled
  <2>2. CASE state # "playing"
    BY <1>2, <2>2 DEF EndScheduled
  <2>3. QED
    BY <2>1, <2>2
<1>11. WhereInv'
  <2>1. \A i : Ahead(i)' <=> Ahead(i)
    BY <1>2 DEF Ahead
  <2>2. \A i \in 1..n : Moves(i)' <=> Moves(i)
    BY <1>4 DEF Moves
  <2>3. ~ Moves(n + 1)'
    BY <1>1, <1>3, <1>4 DEF Moves
  <2>4. CASE dev.sec = anchor /\ \A i \in DOMAIN cmds : Ahead(i) => ~ Moves(i)
    <3>1. dev'.sec = anchor' /\ \A i \in DOMAIN cmds' : Ahead(i)' => ~ Moves(i)'
      BY <1>2, <1>4, <2>1, <2>2, <2>3, <2>4
    <3>2. QED
      BY <1>1, <1>2, <3>1 DEF WhereInv
  <2>5. CASE \E i \in DOMAIN cmds :
               /\ Ahead(i) /\ Moves(i) /\ cmds[i].sec = anchor
               /\ \A j \in DOMAIN cmds : j > i => ~ Moves(j)
    <3>1. PICK i \in 1..n : /\ Ahead(i) /\ Moves(i) /\ cmds[i].sec = anchor
                            /\ \A j \in 1..n : j > i => ~ Moves(j)
      BY <1>4, <2>5
    <3>2. \A j \in DOMAIN cmds' : j > i => ~ Moves(j)'
      BY <1>4, <2>2, <2>3, <3>1
    <3>3. i \in DOMAIN cmds' /\ Ahead(i)' /\ Moves(i)' /\ cmds'[i].sec = anchor'
      BY <1>2, <1>4, <2>1, <2>2, <3>1
    <3>4. QED
      BY <1>1, <1>2, <3>2, <3>3 DEF WhereInv
  <2>6. QED
    BY <1>1, <2>4, <2>5 DEF WhereInv
<1>12. QED
  BY <1>1, <1>2, <1>6, <1>8, <1>9, <1>10, <1>11 DEF IdleInv, LoadingInv

\* A seek that is sent goes last, and the output reckons with it.
LEMMA SeekKeeps ==
  ASSUME Hasty = FALSE, PInv, MayAct, state # "idle", NEW sec \in Times, SeekOutput(sec),
         UNCHANGED <<state, cued, loaded, done, dev>>,
         currentTime' \in Times, state = "paused" => currentTime' = sec,
         {ended', delayed'} \subseteq BOOLEAN, timer' = (state = "playing" \/ timer)
  PROVE  PInv'
<1> USE DEF PInv
<1>1. PICK c : c = Send("seek", sec) /\ CommandOK(c)
  BY CommandsSent
<1>2. c.op = "seek" /\ c.wait = "none" /\ c.current = FALSE /\ c.sec = sec
  BY <1>1 DEF Send, Cmd
<1>3. cmds' = Append(cmds, c) /\ feedStart' = sec /\ anchor' = sec
  BY <1>1 DEF SeekOutput
<1>4. PICK n \in Nat :
        /\ n = Len(cmds) /\ DOMAIN cmds = 1..n /\ DOMAIN cmds' = 1..(n + 1) /\ Len(cmds') = n + 1
        /\ cmds' \in Seq(Cmds) /\ cmds' # <<>>
        /\ \A i \in 1..n : cmds'[i] = cmds[i]
        /\ cmds'[n + 1] = c
        /\ \A i \in DOMAIN cmds' : CommandOK(cmds'[i]) /\ (i \in 1..n \/ i = n + 1)
        /\ done => n # 0
  BY <1>1, <1>3, SentAt
<1>5. \A i \in 1..n : cmds[i].wait \notin {"pause", "resume"}
  BY <1>4, NothingAnswering
<1>6. ~ Answering("pause") /\ ~ Answering("pause")'
  BY <1>2, <1>4, <1>5 DEF Answering
<1>7. PTypes' /\ EndScheduled'
  BY <1>3, <1>4, <1>6 DEF PTypes, EndScheduled
<1>8. done => 1 \in 1..n /\ cmds'[1] = cmds[1]
  BY <1>4
<1>9. CarriedInv' /\ IdleInv'
  BY <1>8 DEF CarriedInv, IdleInv
<1>10. HeardInv'
  <2>1. ASSUME state \in {"playing", "paused"}, NEW i \in DOMAIN cmds'
        PROVE  cmds'[i].wait = "none" /\ cmds'[i].op = "seek"
    <3>1. CASE i \in 1..n
      BY <1>4, <1>5, <2>1, <3>1 DEF HeardInv
    <3>2. CASE i = n + 1
      BY <1>2, <1>4, <3>2
    <3>3. QED
      BY <1>4, <3>1, <3>2
  <2>2. ~ (done /\ cmds[1].wait \in {"pause", "resume"}) /\ ~ (done' /\ cmds'[1].wait \in {"pause", "resume"})
    BY <1>5, <1>8
  <2>3. QED
    BY <2>1, <2>2 DEF HeardInv
<1>11. LoadingInv'
  <2>1. SUFFICES ASSUME state = "loading"
                 PROVE  LoadingInv'
    BY DEF LoadingInv
  <2>2. \A i \in DOMAIN cmds' : cmds'[i].wait \notin {"pause", "resume"}
    BY <1>2, <1>4, <1>5
  <2>3. PICK i \in 1..n :
         /\ cmds[i].current
         /\ \A j \in 1..n :
              /\ j # i => ~ cmds[j].current
              /\ j > i => cmds[j].op = "seek" \/ (cmds[i].wait = "start" /\ cmds[j].wait = "play")
              /\ cmds[j].wait = "start" => j <= i /\ cmds[i].wait = "start"
    BY <1>4, <2>1 DEF LoadingInv
  <2>4. ASSUME NEW j \in DOMAIN cmds'
        PROVE  /\ j # i => ~ cmds'[j].current
               /\ j > i => cmds'[j].op = "seek" \/ (cmds'[i].wait = "start" /\ cmds'[j].wait = "play")
               /\ cmds'[j].wait = "start" => j <= i /\ cmds'[i].wait = "start"
    <3>1. CASE j \in 1..n
      BY <1>4, <2>3, <3>1
    <3>2. CASE j = n + 1
      BY <1>2, <1>4, <2>3, <3>2
    <3>3. QED
      BY <1>4, <3>1, <3>2
  <2>5. i \in DOMAIN cmds' /\ cmds'[i].current
    BY <1>4, <2>3
  <2>6. QED
    BY <2>2, <2>4, <2>5 DEF LoadingInv
<1>12. WhereInv'
  <2>1. n + 1 \in DOMAIN cmds' /\ Ahead(n + 1)' /\ Moves(n + 1)' /\ cmds'[n + 1].sec = anchor'
    BY <1>2, <1>3, <1>4 DEF Ahead, Moves
  <2>2. \A j \in DOMAIN cmds' : ~ (j > n + 1)
    BY <1>4
  <2>3. feedStart' <= anchor'
    BY <1>3, PlaybackAssumption DEF Times
  <2>4. QED
    BY <1>3, <2>1, <2>2, <2>3 DEF WhereInv
<1>13. QED
  BY <1>7, <1>9, <1>10, <1>11, <1>12

\* The page's seeks, its changes of speed and of offset, the next song's tracks.
LEMMA CallsKeep ==
  ASSUME Hasty = FALSE, PInv,
         (\E sec \in -1 .. Dur + 1 : Seek(sec)) \/ SetSpeed \/ SetAudioOffset \/ InstallTracks \/ Frame
  PROVE  PInv'
<1> USE DEF PInv
<1>1. ASSUME NEW s \in -1 .. Dur + 1, Seek(s)
      PROVE  PInv'
  <2>1. PICK sec \in Times : sec = Clamped(s)
    BY PlaybackAssumption DEF Clamped, Times
  <2>2. SeekTo(sec)
    BY <1>1, <2>1 DEF Seek
  <2>3. ~ Answering("pause")
    BY <2>2, NothingAnswering DEF SeekTo, Answering
  <2>4. CASE state = "idle"
    BY <2>2, <2>3, <2>4, StillKeeps DEF SeekTo, PTypes, EndScheduled
  <2>5. CASE state # "idle"
    BY <2>2, <2>5, SeekKeeps DEF SeekTo, PTypes
  <2>6. QED
    BY <2>4, <2>5
<1>2. CASE SetSpeed \/ SetAudioOffset
  <2>1. Retime /\ MayAct /\ delayed' \in BOOLEAN
    BY <1>2 DEF SetSpeed, SetAudioOffset, PTypes
  <2>2. ~ Answering("pause")
    BY <2>1, NothingAnswering DEF Answering
  <2>3. CASE state = "paused"
    BY <2>1, <2>3, SeekKeeps DEF Retime, PTypes
  <2>4. CASE state # "paused"
    BY <2>1, <2>2, <2>4, StillKeeps DEF Retime, PTypes, EndScheduled
  <2>5. QED
    BY <2>3, <2>4
<1>3. CASE InstallTracks
  BY <1>3, StillKeeps DEF InstallTracks, PTypes, EndScheduled
<1>4. CASE Frame
  BY <1>4, StillKeeps DEF Frame, PTypes, EndScheduled
<1>5. QED
  BY <1>1, <1>2, <1>3, <1>4

\* The engine carries out the head of the queue.
LEMMA ExecuteKeeps ==
  ASSUME PInv, Execute
  PROVE  PInv'
<1> USE DEF PInv
<1>1. PICK n \in Nat : n # 0 /\ n = Len(cmds) /\ DOMAIN cmds = 1..n /\ cmds \in Seq(Cmds)
  BY EmptySeq, LenProperties DEF PTypes, Execute
<1>2. PICK c : c = cmds[1] /\ c = Head(cmds) /\ CommandOK(c) /\ c \in Cmds
  BY <1>1, HeadTailProperties DEF PTypes, CommandOK, Execute
<1>3. /\ ~ done /\ done' = TRUE /\ cmds' = cmds /\ 1 \in DOMAIN cmds
      /\ UNCHANGED <<state, currentTime, cued, ended, timer, feedStart, loaded, delayed, anchor>>
  BY <1>1 DEF Execute, engineVars
<1>4. dev' = CASE c.op = "play"  -> [dev EXCEPT !.playing = TRUE]
               [] c.op = "pause" -> [dev EXCEPT !.playing = FALSE]
               [] c.op = "stop"  -> [playing |-> FALSE, sec |-> 0]
               [] c.op = "seek"  -> [dev EXCEPT !.sec = c.sec]
  BY <1>2 DEF Execute
<1>5. /\ c.op \in {"play", "pause", "stop", "seek"} /\ c.sec \in Times /\ c.wait \in Waits /\ 0 \in Times
      /\ dev \in [playing : BOOLEAN, sec : Times]
  BY <1>2, CommandsSent DEF Cmds, PTypes
<1>6. /\ dev' \in [playing : BOOLEAN, sec : Times]
      /\ c.op = "play" => dev'.playing /\ dev'.sec = dev.sec
      /\ c.op = "pause" => ~ dev'.playing /\ dev'.sec = dev.sec
      /\ c.op = "stop" => ~ dev'.playing /\ dev'.sec = 0
      /\ c.op = "seek" => dev'.playing = dev.playing /\ dev'.sec = c.sec
  BY <1>4, <1>5
<1>7. PTypes'
  <2>1. \A i \in DOMAIN cmds : CommandOK(cmds[i])
    BY DEF PTypes
  <2>2. cmds' # <<>>
    BY <1>3 DEF Execute
  <2>3. QED
    BY <1>3, <1>6, <2>1, <2>2 DEF PTypes
<1>8. CarriedInv' /\ EndScheduled' /\ LoadingInv'
  BY <1>2, <1>3, <1>6 DEF CarriedInv, EndScheduled, LoadingInv, Answering
<1>9. (\A i : Ahead(i)' <=> i # 1) /\ (\A i : Ahead(i)) /\ (\A i : Moves(i)' <=> Moves(i))
  BY <1>3 DEF Ahead, Moves
<1>10. IdleInv'
  <2>1. SUFFICES ASSUME state = "idle"
                 PROVE  \/ ~ dev'.playing
                        \/ cmds[1].wait = "play"
                        \/ \E i \in DOMAIN cmds : cmds[i].op = "stop" /\ i # 1
    BY <1>3, <1>9 DEF IdleInv
  <2>2. c.wait \notin {"pause", "resume"} /\ (~ dev.playing \/ \E i \in DOMAIN cmds : cmds[i].op = "stop")
    BY <1>2, <1>3, <2>1 DEF IdleInv
  <2>3. CASE c.op \in {"stop", "seek"}
    BY <1>2, <1>5, <1>6, <2>2, <2>3
  <2>4. CASE c.op \in {"play", "pause"}
    BY <1>2, <1>5, <2>2, <2>4 DEF CommandOK, Waits
  <2>5. QED
    BY <1>5, <2>3, <2>4
<1>11. HeardInv'
  <2>1. SUFFICES ASSUME state \in {"playing", "paused"}
                 PROVE  IF c.wait \in {"pause", "resume"}
                          THEN dev'.playing <=> state = "paused"
                          ELSE dev'.playing <=> state = "playing"
    BY <1>2, <1>3 DEF HeardInv
  <2>2. /\ c.wait \in {"none", "pause", "resume"} /\ (c.wait = "none" => c.op = "seek")
        /\ (c.wait = "pause" => state = "playing") /\ (c.wait = "resume" => state = "paused")
        /\ dev.playing <=> state = "playing"
    BY <1>2, <1>3, <2>1 DEF HeardInv
  <2>3. QED
    BY <1>2, <1>6, <2>1, <2>2 DEF CommandOK
<1>12. WhereInv'
  <2>1. CASE state = "idle"
    BY <1>3, <2>1 DEF WhereInv
  <2>2. CASE state # "idle" /\ dev.sec = anchor /\ \A i \in DOMAIN cmds : Ahead(i) => ~ Moves(i)
    <3>1. ~ Moves(1)
      BY <1>3, <1>9, <2>2
    <3>2. dev'.sec = anchor'
      BY <1>2, <1>3, <1>5, <1>6, <2>2, <3>1 DEF Moves
    <3>3. QED
      BY <1>3, <1>9, <2>2, <3>2 DEF WhereInv
  <2>3. CASE state # "idle" /\ \E i \in DOMAIN cmds :
               /\ Ahead(i) /\ Moves(i) /\ cmds[i].sec = anchor
               /\ \A j \in DOMAIN cmds : j > i => ~ Moves(j)
    <3>1. PICK i \in 1..n : /\ Moves(i) /\ cmds[i].sec = anchor
                            /\ \A j \in 1..n : j > i => ~ Moves(j)
      BY <1>1, <2>3
    <3>2. CASE i = 1
      <4>1. dev'.sec = anchor'
        BY <1>2, <1>3, <1>6, <3>1, <3>2 DEF Moves, CommandOK
      <4>2. \A j \in 1..n : j # 1 => ~ Moves(j)
        BY <3>1, <3>2
      <4>3. QED
        BY <1>1, <1>3, <1>9, <2>3, <4>1, <4>2 DEF WhereInv
    <3>3. CASE i # 1
      BY <1>1, <1>3, <1>9, <2>3, <3>1, <3>3 DEF WhereInv
    <3>4. QED
      BY <3>2, <3>3
  <2>4. QED
    BY <2>1, <2>2, <2>3 DEF WhereInv
<1>13. QED
  BY <1>7, <1>8, <1>10, <1>11, <1>12

\* Between commands the engine moves on, and the output's reckoning with it.
LEMMA AdvanceKeeps ==
  ASSUME PInv, Advance
  PROVE  PInv'
<1> USE DEF PInv
<1>1. /\ cmds = <<>> /\ cmds' = <<>> /\ dev.playing /\ dev.sec < Dur /\ dev' = [dev EXCEPT !.sec = @ + 1]
      /\ anchor' = Clamped(anchor + 1)
      /\ UNCHANGED <<state, currentTime, cued, ended, timer, feedStart, loaded, delayed, done>>
  BY DEF Advance, engineVars
<1>2. DOMAIN cmds = {} /\ ~ done /\ dev \in [playing : BOOLEAN, sec : Times] /\ state \in States
  BY <1>1 DEF PTypes
<1>3. state = "playing"
  BY <1>1, <1>2 DEF IdleInv, LoadingInv, HeardInv, States
<1>4. dev.sec = anchor /\ feedStart <= anchor
  BY <1>2, <1>3 DEF WhereInv
<1>5. anchor' = anchor + 1 /\ anchor' \in Times
  BY <1>1, <1>2, <1>4, PlaybackAssumption DEF Clamped, Times
<1>6. /\ dev' \in [playing : BOOLEAN, sec : Times] /\ dev'.sec = anchor' /\ dev'.playing
      /\ feedStart \in Times /\ anchor \in Times
  BY <1>1, <1>2, <1>4, <1>5 DEF PTypes
<1>7. feedStart' <= anchor'
  BY <1>1, <1>4, <1>5, <1>6, PlaybackAssumption DEF Times
<1>8. PTypes'
  BY <1>1, <1>5, <1>6 DEF PTypes
<1>9. IdleInv' /\ LoadingInv' /\ HeardInv' /\ CarriedInv' /\ EndScheduled'
  BY <1>1, <1>2, <1>3, <1>6 DEF IdleInv, LoadingInv, HeardInv, CarriedInv, EndScheduled, Answering
<1>10. WhereInv'
  BY <1>1, <1>2, <1>3, <1>6, <1>7 DEF WhereInv
<1>11. QED
  BY <1>8, <1>9, <1>10

\* What is left of the queue once its head is answered, and perhaps one sent.
Shifted(n, m, c) ==
  /\ n \in Nat /\ m \in {n, n + 1} /\ Len(cmds) = n + 1 /\ DOMAIN cmds = 1..(n + 1)
  /\ cmds' \in Seq(Cmds) /\ Len(cmds') = m /\ DOMAIN cmds' = 1..m
  /\ \A i \in 1..n : cmds'[i] = cmds[i + 1] /\ i + 1 \in 1..(n + 1)
  /\ \A i \in 1..m : CommandOK(cmds'[i]) /\ (i \in 1..n \/ (i = n + 1 /\ cmds'[i] = c))
  /\ \A i \in 1..(n + 1) : i = 1 \/ (i - 1 \in 1..n /\ cmds'[i - 1] = cmds[i])

\* Its elements, when nothing is sent and when one is.
LEMMA ShiftedAt ==
  ASSUME PTypes, cmds # <<>>, NEW c, CommandOK(c)
  PROVE  /\ cmds' = Tail(cmds) => \E n : Shifted(n, n, c)
         /\ cmds' = Append(Tail(cmds), c) => \E n : Shifted(n, n + 1, c)
         /\ Head(cmds) = cmds[1] /\ CommandOK(cmds[1]) /\ cmds[1] \in Cmds /\ 1 \in DOMAIN cmds
<1>1. cmds \in Seq(Cmds) /\ c \in Cmds /\ \A i \in DOMAIN cmds : CommandOK(cmds[i])
  BY DEF PTypes, CommandOK
<1>2. PICK t : t = Tail(cmds)
  OBVIOUS
<1>3. PICK n \in Nat :
        /\ t \in Seq(Cmds) /\ Len(cmds) = n + 1 /\ DOMAIN cmds = 1..(n + 1)
        /\ Len(t) = n /\ DOMAIN t = 1..n
        /\ \A i \in 1..n : t[i] = cmds[i + 1]
        /\ Head(cmds) = cmds[1] /\ Head(cmds) \in Cmds
  <2>1. /\ t \in Seq(Cmds)
        /\ Len(cmds) \in Nat \ {0} /\ DOMAIN cmds = 1..Len(cmds)
        /\ Len(t) = Len(cmds) - 1 /\ DOMAIN t = 1..(Len(cmds) - 1)
        /\ \A i \in 1..(Len(cmds) - 1) : t[i] = cmds[i + 1]
        /\ Head(cmds) = cmds[1] /\ Head(cmds) \in Cmds
    BY <1>1, <1>2, TailAt
  <2>2. PICK l \in Nat \ {0} : l = Len(cmds)
    BY <2>1
  <2>3. l - 1 \in Nat /\ l = (l - 1) + 1
    OBVIOUS
  <2>4. QED
    BY <2>1, <2>2, <2>3
<1>4. \A i \in 1..n : CommandOK(t[i]) /\ i + 1 \in 1..(n + 1)
  BY <1>1, <1>3
<1>5. \A i \in 1..(n + 1) : i = 1 \/ (i - 1 \in 1..n /\ t[i - 1] = cmds[i])
  BY <1>3
<1>6. ASSUME cmds' = t
      PROVE  Shifted(n, n, c)
  BY <1>3, <1>4, <1>5, <1>6 DEF Shifted
<1>7. ASSUME cmds' = Append(t, c)
      PROVE  Shifted(n, n + 1, c)
  <2>1. /\ cmds' \in Seq(Cmds) /\ Len(cmds') = n + 1 /\ DOMAIN cmds' = 1..(n + 1)
        /\ \A i \in 1..n : cmds'[i] = t[i]
        /\ cmds'[n + 1] = c
    BY <1>1, <1>3, <1>7, AppendAt
  <2>2. \A i \in 1..(n + 1) : CommandOK(cmds'[i]) /\ (i \in 1..n \/ (i = n + 1 /\ cmds'[i] = c))
    <3>1. \A i \in 1..(n + 1) : i \in 1..n \/ i = n + 1
      OBVIOUS
    <3>2. QED
      BY <1>4, <2>1, <3>1
  <2>3. \A i \in 1..(n + 1) : i = 1 \/ (i - 1 \in 1..n /\ cmds'[i - 1] = cmds[i])
    BY <1>3, <1>5, <2>1
  <2>4. QED
    BY <1>3, <1>4, <2>1, <2>2, <2>3 DEF Shifted
<1>8. cmds' = Tail(cmds) => \E k : Shifted(k, k, c)
  BY <1>2, <1>6
<1>9. cmds' = Append(Tail(cmds), c) => \E k : Shifted(k, k + 1, c)
  BY <1>2, <1>7
<1>10. Head(cmds) = cmds[1] /\ CommandOK(cmds[1]) /\ cmds[1] \in Cmds /\ 1 \in DOMAIN cmds
  BY <1>1, <1>3
<1>11. QED
  BY <1>8, <1>9, <1>10

\* Where the output reckons it is holds on as the head is answered, unless
\* that was to move the engine and never did.
LEMMA WhereShifts ==
  ASSUME PInv, NEW n, NEW m, NEW c, Shifted(n, m, c), ~ done',
         done \/ ~ Moves(1) \/ (\E i \in DOMAIN cmds : i > 1 /\ Moves(i)),
         m = n + 1 => c.op \notin {"seek", "stop"},
         state # "idle", UNCHANGED <<dev, feedStart, anchor>>, state' = "paused" => currentTime' = anchor
  PROVE  WhereInv'
<1> USE DEF PInv
<1>1. \A i \in 1..m : i \in 1..n \/ ~ Moves(i)'
  BY DEF Shifted, Moves
<1>2. \A i \in 1..n : Moves(i)' <=> Moves(i + 1)
  BY DEF Shifted, Moves
<1>3. \A i : Ahead(i)'
  BY DEF Ahead
<1>4. feedStart' <= anchor' /\ (state' = "paused" => currentTime' = anchor')
  BY DEF WhereInv
<1>5. n \in Nat /\ m \in {n, n + 1} /\ DOMAIN cmds = 1..(n + 1) /\ DOMAIN cmds' = 1..m
  BY DEF Shifted
<1>6. CASE dev.sec = anchor /\ \A i \in DOMAIN cmds : Ahead(i) => ~ Moves(i)
  <2>1. ASSUME NEW i \in 1..n
        PROVE  ~ Moves(i)'
    <3>1. i + 1 \in DOMAIN cmds /\ i + 1 # 1
      BY <1>5
    <3>2. QED
      BY <1>2, <1>6, <3>1 DEF Ahead
  <2>2. \A i \in 1..m : ~ Moves(i)'
    BY <1>1, <2>1
  <2>3. QED
    BY <1>4, <1>5, <1>6, <2>2 DEF WhereInv
<1>7. CASE \E i \in DOMAIN cmds :
             /\ Ahead(i) /\ Moves(i) /\ cmds[i].sec = anchor
             /\ \A j \in DOMAIN cmds : j > i => ~ Moves(j)
  <2>1. PICK i \in 1..(n + 1) : /\ Ahead(i) /\ Moves(i) /\ cmds[i].sec = anchor
                                /\ \A j \in 1..(n + 1) : j > i => ~ Moves(j)
    BY <1>5, <1>7
  <2>2. i # 1
    BY <1>5, <2>1 DEF Ahead
  <2>3. PICK k \in 1..n : i = k + 1 /\ cmds'[k] = cmds[i]
    BY <1>5, <2>1, <2>2 DEF Shifted
  <2>4. k \in DOMAIN cmds' /\ Moves(k)' /\ cmds'[k].sec = anchor'
    BY <1>2, <1>5, <2>1, <2>3
  <2>5. ASSUME NEW j \in DOMAIN cmds', j > k
        PROVE  ~ Moves(j)'
    <3>1. CASE j \in 1..n
      BY <1>2, <1>5, <2>1, <2>3, <2>5, <3>1
    <3>2. CASE j \notin 1..n
      BY <1>1, <1>5, <3>2
    <3>3. QED
      BY <3>1, <3>2
  <2>6. QED
    BY <1>3, <1>4, <2>4, <2>5 DEF WhereInv
<1>8. QED
  BY <1>6, <1>7 DEF WhereInv

\* What an idle page is to hear no more of is still so as the head, which was
\* not the stop, is answered.
LEMMA IdleShifts ==
  ASSUME PInv, NEW n, NEW m, NEW c, Shifted(n, m, c), ~ c.current, c.wait \notin {"pause", "resume"}, ~ done',
         done /\ state = "idle" => cmds[1].wait # "play" \/ (m = n + 1 /\ c.op = "stop"), done \/ cmds[1].op # "stop",
         UNCHANGED <<state, dev>>
  PROVE  IdleInv'
<1> USE DEF PInv
<1>1. SUFFICES ASSUME state = "idle"
               PROVE  IdleInv'
  BY DEF IdleInv
<1>2. n \in Nat /\ m \in {n, n + 1} /\ DOMAIN cmds = 1..(n + 1) /\ DOMAIN cmds' = 1..m
  BY DEF Shifted
<1>3. \A i : Ahead(i)'
  BY DEF Ahead
<1>4. ASSUME NEW i \in DOMAIN cmds'
      PROVE  ~ cmds'[i].current /\ cmds'[i].wait \notin {"pause", "resume"}
  <2>1. CASE i \in 1..n
    <3>1. cmds'[i] = cmds[i + 1] /\ i + 1 \in DOMAIN cmds
      BY <1>2, <2>1 DEF Shifted
    <3>2. QED
      BY <1>1, <3>1 DEF IdleInv
  <2>2. CASE cmds'[i] = c
    BY <2>2
  <2>3. QED
    BY <1>2, <2>1, <2>2 DEF Shifted
<1>5. CASE m = n + 1 /\ c.op = "stop"
  <2>1. n + 1 \in DOMAIN cmds' /\ cmds'[n + 1] = c
    BY <1>2, <1>5 DEF Shifted
  <2>2. QED
    BY <1>3, <1>4, <1>5, <2>1 DEF IdleInv
<1>6. CASE ~ dev.playing
  BY <1>4, <1>6 DEF IdleInv
<1>7. CASE dev.playing /\ ~ (m = n + 1 /\ c.op = "stop")
  <2>1. PICK i \in DOMAIN cmds : cmds[i].op = "stop" /\ Ahead(i)
    BY <1>1, <1>7 DEF IdleInv
  <2>2. i # 1
    BY <2>1 DEF Ahead
  <2>3. i - 1 \in DOMAIN cmds' /\ cmds'[i - 1].op = "stop"
    BY <1>2, <2>1, <2>2 DEF Shifted
  <2>4. QED
    BY <1>3, <1>4, <2>3 DEF IdleInv
<1>8. QED
  BY <1>5, <1>6, <1>7

\* A loading page's latest start is still to be answered as another command is.
LEMMA LoadingShifts ==
  ASSUME PInv, NEW n, NEW m, NEW c, Shifted(n, m, c), ~ cmds[1].current, state = "loading",
         m = n + 1 => ~ c.current /\ c.wait = "play" /\ cmds[1].wait = "start"
  PROVE  LoadingInv'
<1> USE DEF PInv
<1>1. n \in Nat /\ m \in {n, n + 1} /\ DOMAIN cmds = 1..(n + 1) /\ DOMAIN cmds' = 1..m
  BY DEF Shifted
<1>2. \A i \in 1..n : cmds'[i] = cmds[i + 1] /\ i + 1 \in 1..(n + 1)
  BY DEF Shifted
<1>3. \A i \in 1..m : i \in 1..n \/ (i = n + 1 /\ cmds'[i] = c /\ m = n + 1)
  BY <1>1 DEF Shifted
<1>4. \A i \in 1..(n + 1) : cmds[i].wait \notin {"pause", "resume"}
  BY <1>1 DEF LoadingInv
<1>5. PICK i \in 1..(n + 1) :
         /\ cmds[i].current
         /\ \A j \in 1..(n + 1) :
              /\ j # i => ~ cmds[j].current
              /\ j > i => cmds[j].op = "seek" \/ (cmds[i].wait = "start" /\ cmds[j].wait = "play")
              /\ cmds[j].wait = "start" => j <= i /\ cmds[i].wait = "start"
  BY <1>1 DEF LoadingInv
<1>6. PICK k \in 1..n : i = k + 1 /\ cmds'[k] = cmds[i]
  BY <1>1, <1>2, <1>5
<1>7. k \in DOMAIN cmds' /\ cmds'[k].current
  BY <1>1, <1>5, <1>6
<1>8. m = n + 1 => cmds'[k].wait = "start"
  BY <1>1, <1>5, <1>6
<1>9. ASSUME NEW j \in DOMAIN cmds'
      PROVE  /\ cmds'[j].wait \notin {"pause", "resume"}
             /\ j # k => ~ cmds'[j].current
             /\ j > k => cmds'[j].op = "seek" \/ (cmds'[k].wait = "start" /\ cmds'[j].wait = "play")
             /\ cmds'[j].wait = "start" => j <= k /\ cmds'[k].wait = "start"
  <2>1. CASE j \in 1..n
    <3>1. PICK l \in 1..(n + 1) : l = j + 1 /\ cmds'[j] = cmds[l]
      BY <1>2, <2>1
    <3>2. /\ j # k => l # i
          /\ j > k => l > i
          /\ l <= i => j <= k
      BY <1>1, <1>6, <2>1, <3>1
    <3>3. /\ l # i => ~ cmds[l].current
          /\ l > i => cmds[l].op = "seek" \/ (cmds[i].wait = "start" /\ cmds[l].wait = "play")
          /\ cmds[l].wait = "start" => l <= i /\ cmds[i].wait = "start"
      BY <1>5
    <3>4. QED
      BY <1>4, <1>6, <3>1, <3>2, <3>3
  <2>2. CASE j = n + 1 /\ cmds'[j] = c /\ m = n + 1
    BY <1>6, <1>8, <2>2
  <2>3. QED
    BY <1>1, <1>3, <2>1, <2>2
<1>10. QED
  BY <1>7, <1>9 DEF LoadingInv

\* A start that is no longer wanted goes on to its play, or gives up; what
\* nothing awaits is done with.
LEMMA RepliesKeep ==
  ASSUME PInv, Answer \/ (StartSought /\ ~ Head(cmds).current) \/ StartedStale
                 \/ (StartFailed /\ ~ Head(cmds).current)
  PROVE  PInv'
<1> USE DEF PInv
<1>1. PICK h : h = cmds[1]
  OBVIOUS
<1>2. PICK c : /\ CommandOK(c) /\ ~ c.current /\ c.wait \notin {"pause", "resume"}
               /\ c = IF h.wait = "start" THEN Cmd("play", h.sec, "play", FALSE) ELSE Send("stop", 0)
  <2>1. CASE h.wait = "start"
    <3>1. h.sec \in Times
      BY <1>1, <2>1, ShiftedAt, CommandsSent DEF Cmds, Answer, StartSought, StartedStale, StartFailed, Reply
    <3>2. QED
      BY <2>1, <3>1, CommandsSent DEF Cmd
  <2>2. CASE h.wait # "start"
    BY <2>2, CommandsSent DEF Send, Cmd
  <2>3. QED
    BY <2>1, <2>2
<1>3. cmds # <<>>
  BY DEF Answer, StartSought, StartedStale, StartFailed, Reply
<1>4. /\ h = Head(cmds) /\ CommandOK(h) /\ h \in Cmds /\ 1 \in DOMAIN cmds /\ ~ done'
      /\ ~ h.current /\ h.wait \in {"none", "start", "play"}
      /\ cmds' = Tail(cmds) \/ cmds' = Append(Tail(cmds), c)
  <2>1. h = Head(cmds) /\ CommandOK(h) /\ h \in Cmds /\ 1 \in DOMAIN cmds
    BY <1>1, <1>2, <1>3, ShiftedAt
  <2>2. CASE Answer
    BY <2>1, <2>2 DEF Answer, Reply, CommandOK
  <2>3. CASE StartSought /\ ~ Head(cmds).current
    BY <1>2, <2>1, <2>3 DEF StartSought, Reply, Cmds
  <2>4. CASE StartedStale
    BY <1>2, <2>1, <2>4 DEF StartedStale, Reply
  <2>5. CASE StartFailed /\ ~ Head(cmds).current
    BY <2>1, <2>5 DEF StartFailed
  <2>6. QED
    BY <2>2, <2>3, <2>4, <2>5
<1>5. /\ UNCHANGED <<state, currentTime, cued, ended, timer, feedStart, loaded, delayed, dev>>
      /\ state # "idle" => anchor' = anchor
      /\ anchor' \in {anchor, 0}
  BY <1>4 DEF Answer, StartSought, StartedStale, StartFailed, Reply, engineVars
<1>6. PICK n, m :
        /\ Shifted(n, m, c)
        /\ m = n + 1 => h.wait = "start" \/ state = "idle"
        /\ done /\ state = "idle" => h.wait # "play" \/ m = n + 1
        /\ h.wait = "none" => m = n
  <2>1. h.wait = "start" /\ cmds' = Append(Tail(cmds), c) => \E k : Shifted(k, k + 1, c)
    BY <1>2, <1>3, ShiftedAt
  <2>2. PICK k : cmds' = Tail(cmds) => Shifted(k, k, c)
    BY <1>2, <1>3, ShiftedAt
  <2>3. PICK l : cmds' = Append(Tail(cmds), c) => Shifted(l, l + 1, c)
    BY <1>2, <1>3, ShiftedAt
  <2>4. CASE Answer
    BY <1>4, <2>2, <2>4 DEF Answer, Reply, Shifted
  <2>5. CASE StartSought /\ ~ Head(cmds).current
    <3>1. h.wait = "start" /\ cmds' = Append(Tail(cmds), c)
      BY <1>2, <1>4, <2>5 DEF StartSought, Reply, Cmds
    <3>2. QED
      BY <2>3, <3>1
  <2>6. CASE StartedStale
    <3>1. h.wait = "play" /\ IF state = "idle" THEN cmds' = Append(Tail(cmds), c) ELSE cmds' = Tail(cmds)
      BY <1>2, <1>4, <2>6 DEF StartedStale, Reply
    <3>2. CASE state = "idle"
      BY <2>3, <3>1, <3>2
    <3>3. CASE state # "idle"
      BY <2>2, <3>1, <3>3 DEF Shifted
    <3>4. QED
      BY <3>2, <3>3
  <2>7. CASE StartFailed /\ ~ Head(cmds).current
    <3>1. h.wait \in {"start", "play"} /\ ~ done /\ cmds' = Tail(cmds)
      BY <1>4, <2>7 DEF StartFailed
    <3>2. QED
      BY <2>2, <3>1 DEF Shifted
  <2>8. QED
    BY <2>4, <2>5, <2>6, <2>7
<1>7. n \in Nat /\ m \in {n, n + 1} /\ DOMAIN cmds = 1..(n + 1) /\ DOMAIN cmds' = 1..m
  BY <1>6 DEF Shifted
<1>8. PTypes'
  <2>1. cmds' \in Seq(Cmds) /\ \A i \in DOMAIN cmds' : CommandOK(cmds'[i])
    BY <1>6, <1>7 DEF Shifted
  <2>2. anchor' \in Times
    BY <1>5, CommandsSent DEF PTypes
  <2>3. done' = FALSE
    BY <1>4 DEF Answer, StartSought, StartedStale, StartFailed, Reply
  <2>4. QED
    BY <1>5, <2>1, <2>2, <2>3 DEF PTypes
<1>9. done \/ h.op # "stop"
  BY <1>4 DEF Answer, StartSought, StartedStale, StartFailed, Reply, CommandOK
<1>10. h.wait # "start" => c.op = "stop"
  BY <1>2 DEF Send, Cmd
<1>11. h.wait = "start" => c.op = "play" /\ c.wait = "play"
  BY <1>2 DEF Cmd
<1>12. IdleInv'
  BY <1>1, <1>2, <1>4, <1>5, <1>6, <1>9, <1>10, IdleShifts
<1>13. LoadingInv'
  <2>1. CASE state = "loading"
    BY <1>1, <1>2, <1>4, <1>6, <1>11, <2>1, LoadingShifts
  <2>2. CASE state # "loading"
    BY <1>5, <2>2 DEF LoadingInv
  <2>3. QED
    BY <2>1, <2>2
<1>14. state \in {"playing", "paused"} => h.wait = "none" /\ h.op = "seek" /\ m = n
  BY <1>1, <1>4, <1>6 DEF HeardInv
<1>15. HeardInv'
  <2>1. SUFFICES ASSUME state \in {"playing", "paused"}
                 PROVE  HeardInv'
    BY <1>5 DEF HeardInv
  <2>2. m = n /\ Len(cmds) = n + 1 /\ Len(cmds') = n
    BY <1>6, <1>14, <2>1 DEF Shifted
  <2>3. dev.playing <=> state = "playing"
    BY <1>1, <1>14, <2>1 DEF HeardInv
  <2>4. ASSUME NEW i \in DOMAIN cmds'
        PROVE  /\ cmds'[i].wait \in {"none", "pause", "resume"}
               /\ cmds'[i].wait = "none" => cmds'[i].op = "seek"
               /\ cmds'[i].wait = "pause" => state = "playing" /\ i = Len(cmds')
               /\ cmds'[i].wait = "resume" => state = "paused" /\ i = Len(cmds')
    <3>1. PICK j \in 1..(n + 1) : j = i + 1 /\ cmds'[i] = cmds[j]
      BY <1>6, <1>7, <2>2 DEF Shifted
    <3>2. /\ cmds[j].wait \in {"none", "pause", "resume"}
          /\ cmds[j].wait = "none" => cmds[j].op = "seek"
          /\ cmds[j].wait = "pause" => state = "playing" /\ j = n + 1
          /\ cmds[j].wait = "resume" => state = "paused" /\ j = n + 1
      BY <1>7, <2>1, <2>2 DEF HeardInv
    <3>3. j = n + 1 => i = Len(cmds')
      BY <1>7, <2>2, <3>1
    <3>4. QED
      BY <3>1, <3>2, <3>3
  <2>5. QED
    BY <1>4, <1>5, <2>3, <2>4 DEF HeardInv
<1>16. CarriedInv'
  BY <1>4 DEF CarriedInv
<1>17. EndScheduled'
  <2>1. ASSUME state = "playing"
        PROVE  Answering("pause")' <=> Answering("pause")
    <3>1. h.wait = "none" /\ m = n
      BY <1>14, <2>1
    <3>2. ASSUME NEW i \in DOMAIN cmds', cmds'[i].wait = "pause"
          PROVE  Answering("pause")
      <4>1. cmds'[i] = cmds[i + 1] /\ i + 1 \in DOMAIN cmds
        BY <1>6, <1>7, <3>1 DEF Shifted
      <4>2. QED
        BY <3>2, <4>1 DEF Answering
    <3>3. ASSUME NEW i \in DOMAIN cmds, cmds[i].wait = "pause"
          PROVE  Answering("pause")'
      <4>1. i # 1
        BY <1>1, <3>1, <3>3
      <4>2. i - 1 \in DOMAIN cmds' /\ cmds'[i - 1] = cmds[i]
        BY <1>6, <1>7, <3>1, <4>1 DEF Shifted
      <4>3. QED
        BY <3>3, <4>2 DEF Answering
    <3>4. QED
      BY <3>2, <3>3 DEF Answering
  <2>2. QED
    BY <1>5, <2>1 DEF EndScheduled
<1>18. WhereInv'
  <2>1. CASE state = "idle"
    BY <1>5, <2>1 DEF WhereInv
  <2>2. CASE state # "idle"
    <3>1. UNCHANGED <<dev, feedStart, anchor, state, currentTime>> /\ (m = n + 1 => h.wait = "start")
      BY <1>5, <1>6, <2>2
    <3>2. done \/ ~ Moves(1) \/ (\E i \in DOMAIN cmds : i > 1 /\ Moves(i))
      <4>1. SUFFICES ASSUME ~ done, Moves(1)
                     PROVE  \E i \in DOMAIN cmds : i > 1 /\ Moves(i)
        OBVIOUS
      <4>2. h.wait = "start" /\ h.op = "seek"
        BY <1>1, <1>4, <4>1 DEF Answer, StartSought, StartedStale, StartFailed, Reply, CommandOK, Moves
      <4>3. state = "loading"
        BY <1>14, <2>2, <4>2 DEF PTypes, States
      <4>4. PICK i \in DOMAIN cmds : cmds[i].current /\ cmds[i].wait = "start"
        BY <1>1, <1>4, <4>2, <4>3 DEF LoadingInv
      <4>5. i > 1 /\ Moves(i)
        BY <1>1, <1>4, <1>7, <4>4 DEF Moves, PTypes, CommandOK
      <4>6. QED
        BY <4>5
    <3>3. state = "paused" => currentTime = anchor
      BY DEF WhereInv
    <3>4. QED
      BY <1>4, <1>6, <1>11, <2>2, <3>1, <3>2, <3>3, WhereShifts
  <2>3. QED
    BY <2>1, <2>2
<1>19. QED
  BY <1>8, <1>12, <1>13, <1>15, <1>16, <1>17, <1>18

\* The page stops: on a call, with the song's audio gone, as the song ends, or
\* because its start failed.
LEMMA StopsKeep ==
  ASSUME Hasty = FALSE, PInv, Stop \/ ResetSong \/ Finish \/ (StartFailed /\ Head(cmds).current)
  PROVE  PInv'
<1> USE DEF PInv
<1>1. cmds \in Seq(Cmds) /\ \A i \in DOMAIN cmds : CommandOK(cmds[i])
  BY DEF PTypes
<1>2. done => cmds # <<>> /\ (cmds[1].op = "play" => dev.playing)
  BY DEF PTypes, CarriedInv
<1>3. CASE Stop \/ ResetSong \/ Finish
  <2>1. PICK end \in BOOLEAN : Stopped(cmds, end) /\ UNCHANGED <<feedStart, delayed, done, dev>> /\ loaded' \in BOOLEAN
    BY <1>3 DEF Stop, ResetSong, Finish, PTypes
  <2>2. \A i \in DOMAIN cmds : cmds[i].wait \notin {"pause", "resume"}
    <3>1. CASE Stop \/ ResetSong
      BY <3>1, NothingAnswering DEF Stop, ResetSong
    <3>2. CASE Finish
      BY <3>2 DEF Finish, EndScheduled, HeardInv, Answering
    <3>3. QED
      BY <1>3, <3>1, <3>2
  <2>3. QED
    BY <1>1, <1>2, <2>1, <2>2, StoppedKeeps
<1>4. CASE StartFailed /\ Head(cmds).current
  <2>1. ~ done /\ cmds # <<>> /\ Stopped(Tail(cmds), FALSE) /\ UNCHANGED <<feedStart, loaded, delayed, done, dev>>
    BY <1>4 DEF StartFailed
  <2>2. PICK t : /\ t = Tail(cmds) /\ t \in Seq(Cmds)
                 /\ \A i \in DOMAIN t : i + 1 \in DOMAIN cmds /\ t[i] = cmds[i + 1]
                 /\ Head(cmds) = cmds[1] /\ 1 \in DOMAIN cmds
    <3>1. /\ Tail(cmds) \in Seq(Cmds)
          /\ Len(cmds) \in Nat \ {0} /\ DOMAIN cmds = 1..Len(cmds) /\ DOMAIN Tail(cmds) = 1..(Len(cmds) - 1)
          /\ \A i \in 1..(Len(cmds) - 1) : Tail(cmds)[i] = cmds[i + 1]
          /\ Head(cmds) = cmds[1]
      BY <1>1, <2>1, TailAt
    <3>2. PICK l \in Nat \ {0} : l = Len(cmds)
      BY <3>1
    <3>3. 1 \in 1..l /\ \A i \in 1..(l - 1) : i + 1 \in 1..l
      OBVIOUS
    <3>4. PICK t : t = Tail(cmds)
      OBVIOUS
    <3>5. \A i \in DOMAIN t : i + 1 \in DOMAIN cmds /\ t[i] = cmds[i + 1]
      BY <3>1, <3>2, <3>3, <3>4
    <3>6. QED
      BY <3>1, <3>2, <3>3, <3>4, <3>5
  <2>3. cmds[1].current /\ cmds[1].wait \in {"start", "play"}
    BY <1>4, <2>2 DEF StartFailed
  <2>4. state = "loading"
    BY <2>2, <2>3 DEF IdleInv, HeardInv, PTypes, States
  <2>5. \A i \in DOMAIN t : CommandOK(t[i]) /\ t[i].wait \notin {"pause", "resume"}
    BY <1>1, <2>2, <2>4 DEF LoadingInv
  <2>6. loaded' \in BOOLEAN
    BY <2>1 DEF PTypes
  <2>7. QED
    BY <2>1, <2>2, <2>5, <2>6, StoppedKeeps
<1>5. QED
  BY <1>3, <1>4

\* The current start's seek is answered: its play is sent.
LEMMA SoughtKeeps ==
  ASSUME PInv, StartSought, Head(cmds).current
  PROVE  PInv'
<1> USE DEF PInv
<1>1. PICK h : h = cmds[1]
  OBVIOUS
<1>2. cmds # <<>> /\ done /\ done' = FALSE /\ UNCHANGED <<engineVars, anchor, dev>>
  BY DEF StartSought, Reply
<1>3. h = Head(cmds) /\ CommandOK(h) /\ h \in Cmds /\ 1 \in DOMAIN cmds
  BY <1>1, <1>2, CommandsSent, ShiftedAt
<1>4. h.wait = "start" /\ h.current = TRUE /\ h.sec \in Times
  BY <1>3 DEF StartSought, Reply, Cmds
<1>5. PICK c : c = Cmd("play", h.sec, "play", TRUE) /\ CommandOK(c)
  BY <1>4, CommandsSent
<1>6. c.op = "play" /\ c.wait = "play" /\ c.current
  BY <1>5 DEF Cmd
<1>7. cmds' = Append(Tail(cmds), c)
  BY <1>3, <1>4, <1>5 DEF StartSought
<1>8. PICK n : Shifted(n, n + 1, c)
  BY <1>2, <1>5, <1>7, ShiftedAt
<1>9. /\ n \in Nat /\ DOMAIN cmds = 1..(n + 1) /\ cmds' \in Seq(Cmds) /\ DOMAIN cmds' = 1..(n + 1)
      /\ \A i \in 1..n : cmds'[i] = cmds[i + 1] /\ i + 1 \in 1..(n + 1)
      /\ \A i \in 1..(n + 1) : CommandOK(cmds'[i]) /\ (i \in 1..n \/ (i = n + 1 /\ cmds'[i] = c))
  BY <1>8 DEF Shifted
<1>10. state = "loading" /\ state' = "loading"
  BY <1>1, <1>2, <1>3, <1>4 DEF IdleInv, HeardInv, PTypes, States, engineVars
<1>11. PTypes'
  BY <1>2, <1>9 DEF PTypes, engineVars
<1>12. \A j \in 1..(n + 1) : /\ cmds[j].wait \notin {"pause", "resume"}
                             /\ j # 1 => ~ cmds[j].current /\ cmds[j].wait # "start"
  BY <1>1, <1>4, <1>9, <1>10 DEF LoadingInv
<1>13. LoadingInv'
  <2>1. n + 1 \in DOMAIN cmds' /\ cmds'[n + 1].current
    BY <1>6, <1>9
  <2>2. ASSUME NEW j \in DOMAIN cmds'
        PROVE  /\ cmds'[j].wait \notin {"pause", "resume"}
               /\ j # n + 1 => ~ cmds'[j].current
               /\ ~ (j > n + 1)
               /\ cmds'[j].wait # "start"
    <3>1. CASE j \in 1..n
      <4>1. PICK l \in 1..(n + 1) : l = j + 1 /\ cmds'[j] = cmds[l] /\ l # 1
        BY <1>9, <3>1
      <4>2. QED
        BY <1>9, <1>12, <4>1
    <3>2. CASE j = n + 1 /\ cmds'[j] = c
      BY <1>6, <1>9, <3>2
    <3>3. QED
      BY <1>9, <3>1, <3>2
  <2>3. QED
    BY <2>1, <2>2 DEF LoadingInv
<1>14. WhereInv'
  BY <1>2, <1>6, <1>8, <1>10, WhereShifts DEF engineVars
<1>15. QED
  BY <1>2, <1>10, <1>11, <1>13, <1>14 DEF IdleInv, HeardInv, CarriedInv, EndScheduled, engineVars

\* The current start's play is answered: the page plays, with nothing but
\* seeks under way.
LEMMA StartedKeeps ==
  ASSUME PInv, Started
  PROVE  PInv'
<1> USE DEF PInv
<1>1. PICK h : h = cmds[1]
  OBVIOUS
<1>2. /\ cmds # <<>> /\ done /\ done' = FALSE /\ cmds' = Tail(cmds) /\ state' = "playing" /\ timer' = TRUE
      /\ currentTime' = Head(cmds).sec
      /\ UNCHANGED <<cued, ended, feedStart, loaded, delayed, anchor, dev>>
  BY DEF Started, Reply
<1>3. PICK c : CommandOK(c)
  BY CommandsSent
<1>4. h = Head(cmds) /\ CommandOK(h) /\ h \in Cmds /\ 1 \in DOMAIN cmds
  BY <1>1, <1>2, <1>3, ShiftedAt
<1>5. h.wait = "play" /\ h.op = "play" /\ h.current /\ h.sec \in Times
  BY <1>4 DEF Started, Reply, Cmds, CommandOK
<1>6. PICK n : Shifted(n, n, c)
  BY <1>2, <1>3, ShiftedAt
<1>7. /\ n \in Nat /\ DOMAIN cmds = 1..(n + 1) /\ cmds' \in Seq(Cmds) /\ DOMAIN cmds' = 1..n
      /\ \A i \in 1..n : cmds'[i] = cmds[i + 1] /\ i + 1 \in 1..(n + 1) /\ CommandOK(cmds'[i])
  BY <1>6 DEF Shifted
<1>8. state = "loading" /\ dev.playing
  BY <1>1, <1>2, <1>4, <1>5 DEF IdleInv, HeardInv, CarriedInv, PTypes, States
<1>9. \A j \in 1..(n + 1) : /\ cmds[j].wait \notin {"pause", "resume"}
                            /\ j # 1 => cmds[j].op = "seek" /\ cmds[j].wait # "start"
  <2>1. PICK i \in 1..(n + 1) :
         /\ cmds[i].current
         /\ \A j \in 1..(n + 1) :
              /\ j # i => ~ cmds[j].current
              /\ j > i => cmds[j].op = "seek" \/ (cmds[i].wait = "start" /\ cmds[j].wait = "play")
              /\ cmds[j].wait = "start" => j <= i /\ cmds[i].wait = "start"
    BY <1>7, <1>8 DEF LoadingInv
  <2>2. i = 1
    BY <1>1, <1>4, <1>5, <1>7, <2>1
  <2>3. \A j \in 1..(n + 1) : j # 1 => j > 1
    BY <1>7
  <2>4. \A j \in 1..(n + 1) : cmds[j].wait \notin {"pause", "resume"}
    BY <1>7, <1>8 DEF LoadingInv
  <2>5. QED
    BY <1>1, <1>5, <2>1, <2>2, <2>3, <2>4
<1>10. ASSUME NEW i \in DOMAIN cmds'
       PROVE  cmds'[i].wait = "none" /\ cmds'[i].op = "seek"
  <2>1. PICK l \in 1..(n + 1) : l = i + 1 /\ cmds'[i] = cmds[l] /\ l # 1
    BY <1>7
  <2>2. cmds'[i].op = "seek" /\ cmds'[i].wait \notin {"pause", "resume", "start"}
    BY <1>9, <2>1
  <2>3. QED
    BY <1>7, <2>2 DEF CommandOK, Cmds, Waits
<1>11. PTypes'
  BY <1>2, <1>4, <1>5, <1>7 DEF PTypes, States
<1>12. HeardInv' /\ EndScheduled'
  BY <1>2, <1>8, <1>10 DEF HeardInv, EndScheduled, Answering
<1>13. WhereInv'
  <2>1. ~ (n = n + 1)
    BY <1>7
  <2>2. QED
    BY <1>2, <1>6, <1>8, <2>1, WhereShifts
<1>14. QED
  BY <1>2, <1>11, <1>12, <1>13 DEF IdleInv, LoadingInv, CarriedInv

\* The pause or the resume is answered, and was the last of the queue.
LEMMA PausedKeeps ==
  ASSUME PInv, Paused \/ Resumed
  PROVE  PInv'
<1> USE DEF PInv
<1>1. PICK h : h = cmds[1]
  OBVIOUS
<1>2. cmds # <<>> /\ done /\ done' = FALSE /\ UNCHANGED <<cued, ended, loaded, delayed, dev>>
  BY DEF Paused, Resumed, Reply
<1>3. PICK c : CommandOK(c)
  BY CommandsSent
<1>4. h = Head(cmds) /\ h \in Cmds /\ 1 \in DOMAIN cmds
  BY <1>1, <1>2, <1>3, ShiftedAt
<1>5. h.wait = IF Paused THEN "pause" ELSE "resume"
  BY <1>4 DEF Paused, Resumed, Reply
<1>6. /\ state = IF Paused THEN "playing" ELSE "paused"
      /\ Len(cmds) = 1
  BY <1>1, <1>4, <1>5 DEF IdleInv, LoadingInv, HeardInv, PTypes, States
<1>7. dev.playing <=> state = "paused"
  BY <1>1, <1>2, <1>5, <1>6 DEF HeardInv
<1>8. Tail(cmds) = <<>> /\ Tail(cmds) \in Seq(Cmds) /\ DOMAIN cmds = {1}
  <2>1. cmds \in Seq(Cmds)
    BY DEF PTypes
  <2>2. Tail(cmds) \in Seq(Cmds) /\ Len(Tail(cmds)) = Len(cmds) - 1 /\ DOMAIN cmds = 1..Len(cmds)
    BY <1>2, <2>1, TailAt
  <2>3. Len(Tail(cmds)) = 0
    BY <1>6, <2>2
  <2>4. Tail(cmds) = <<>>
    BY <2>2, <2>3, EmptySeq
  <2>5. DOMAIN cmds = {1}
    BY <1>6, <2>2
  <2>6. QED
    BY <2>2, <2>4, <2>5
<1>9. dev.sec = anchor /\ feedStart <= anchor
  BY <1>2, <1>6, <1>8 DEF WhereInv, Ahead
<1>10. ~ timer \/ Resumed
  BY <1>1, <1>4, <1>5 DEF EndScheduled, Answering
<1>11. CASE Resumed
  <2>1. /\ cmds' = <<>> /\ state' = "playing" /\ timer' = TRUE
        /\ UNCHANGED <<currentTime, feedStart, anchor>>
    BY <1>8, <1>11 DEF Resumed
  <2>2. dev'.playing
    <3>1. ~ Paused
      BY <1>11, <2>1, <1>4 DEF Paused, Resumed, Reply
    <3>2. QED
      BY <1>2, <1>6, <1>7, <3>1
  <2>3. PTypes'
    <3>1. cmds' \in Seq(Cmds) /\ DOMAIN cmds' = {}
      BY <1>8, <2>1
    <3>2. \A i \in DOMAIN cmds' : CommandOK(cmds'[i])
      BY <3>1
    <3>3. {currentTime', feedStart', anchor'} \subseteq Times /\ state' \in States /\ timer' \in BOOLEAN
      BY <2>1 DEF PTypes, States
    <3>4. QED
      BY <1>2, <3>1, <3>2, <3>3 DEF PTypes
  <2>4. QED
    BY <1>2, <1>9, <2>1, <2>2, <2>3 DEF IdleInv, LoadingInv, HeardInv, CarriedInv, EndScheduled, WhereInv, Answering
<1>12. CASE Paused /\ ~ delayed
  <2>1. cmds' = <<>> /\ state' = "paused" /\ currentTime' = anchor /\ UNCHANGED <<feedStart, anchor, timer>>
    BY <1>8, <1>12 DEF Paused
  <2>2. ~ dev'.playing /\ ~ timer'
    BY <1>1, <1>2, <1>4, <1>5, <1>6, <1>7, <1>12, <2>1 DEF EndScheduled, Answering
  <2>3. PTypes'
    <3>1. cmds' \in Seq(Cmds) /\ DOMAIN cmds' = {}
      BY <1>8, <2>1
    <3>2. \A i \in DOMAIN cmds' : CommandOK(cmds'[i])
      BY <3>1
    <3>3. {currentTime', feedStart', anchor'} \subseteq Times /\ state' \in States /\ timer' \in BOOLEAN
      BY <2>1 DEF PTypes, States
    <3>4. QED
      BY <1>2, <3>1, <3>2, <3>3 DEF PTypes
  <2>4. QED
    BY <1>2, <1>9, <2>1, <2>2, <2>3 DEF IdleInv, LoadingInv, HeardInv, CarriedInv, EndScheduled, WhereInv, Answering
<1>13. CASE Paused /\ delayed
  <2>1. PICK sec \in feedStart .. (IF anchor > feedStart THEN anchor ELSE feedStart) :
          /\ feedStart' = sec /\ anchor' = sec /\ currentTime' = sec /\ state' = "paused"
          /\ cmds' = Append(<<>>, Send("seek", sec)) /\ UNCHANGED timer
    BY <1>8, <1>13 DEF Paused
  <2>2. sec \in Times
    BY <2>1, PlaybackAssumption DEF PTypes, Times
  <2>3. PICK d : d = Send("seek", sec) /\ CommandOK(d) /\ d \in Cmds
    BY <2>2, CommandsSent DEF CommandOK
  <2>4. d.op = "seek" /\ d.wait = "none" /\ d.sec = sec
    BY <2>3 DEF Send, Cmd
  <2>5. cmds' = <<d>> /\ cmds' \in Seq(Cmds) /\ cmds' # <<>> /\ DOMAIN cmds' = {1} /\ cmds'[1] = d
    BY <2>1, <2>3
  <2>6. ~ dev'.playing /\ ~ timer'
    BY <1>1, <1>2, <1>4, <1>5, <1>6, <1>7, <1>13, <2>1 DEF EndScheduled, Answering
  <2>7. PTypes'
    BY <1>2, <2>1, <2>2, <2>3, <2>5 DEF PTypes, States
  <2>8. HeardInv' /\ EndScheduled'
    BY <1>2, <2>1, <2>4, <2>5, <2>6 DEF HeardInv, EndScheduled
  <2>9. WhereInv'
    <3>1. 1 \in DOMAIN cmds' /\ Ahead(1)' /\ Moves(1)' /\ cmds'[1].sec = anchor' /\ \A j \in DOMAIN cmds' : ~ (j > 1)
      BY <1>2, <2>1, <2>4, <2>5 DEF Ahead, Moves
    <3>2. feedStart' <= anchor' /\ currentTime' = anchor'
      BY <2>1, <2>2, PlaybackAssumption DEF Times
    <3>3. QED
      BY <3>1, <3>2 DEF WhereInv
  <2>10. QED
    BY <1>2, <2>1, <2>7, <2>8, <2>9 DEF IdleInv, LoadingInv, CarriedInv
<1>14. QED
  BY <1>11, <1>12, <1>13

\* Every step keeps the invariant.
LEMMA PlaybackStep ==
  ASSUME Hasty = FALSE, PInv, [PNext]_vars
  PROVE  PInv'
<1>1. CASE PNext
  <2>1. CASE Stop \/ ResetSong \/ Finish \/ (StartFailed /\ Head(cmds).current)
    BY <2>1, StopsKeep
  <2>2. CASE Play
    BY <2>2, PlayKeeps
  <2>3. CASE Pause \/ Resume
    BY <2>3, PauseKeeps
  <2>4. CASE (\E sec \in -1 .. Dur + 1 : Seek(sec)) \/ SetSpeed \/ SetAudioOffset \/ InstallTracks \/ Frame
    BY <2>4, CallsKeep
  <2>5. CASE Execute
    BY <2>5, ExecuteKeeps
  <2>6. CASE Answer \/ (StartSought /\ ~ Head(cmds).current) \/ StartedStale \/ (StartFailed /\ ~ Head(cmds).current)
    BY <2>6, RepliesKeep
  <2>7. CASE StartSought /\ Head(cmds).current
    BY <2>7, SoughtKeeps
  <2>8. CASE Started
    BY <2>8, StartedKeeps
  <2>9. CASE Paused \/ Resumed
    BY <2>9, PausedKeeps
  <2>10. CASE Advance
    BY <2>10, AdvanceKeeps
  <2>11. QED
    BY <1>1, <2>1, <2>2, <2>3, <2>4, <2>5, <2>6, <2>7, <2>8, <2>9, <2>10 DEF PNext
<1>2. CASE UNCHANGED vars
  <2>1. /\ UNCHANGED <<state, currentTime, cued, ended, timer, feedStart, loaded, delayed, anchor, cmds, done, dev>>
    BY <1>2 DEF vars, engineVars
  <2>2. timer' = (state = "playing" /\ ~ Answering("pause"))
    BY <2>1 DEF PInv, EndScheduled, PTypes
  <2>3. {cued', ended', loaded', delayed'} \subseteq BOOLEAN /\ currentTime' \in Times
    BY <2>1 DEF PInv, PTypes
  <2>4. QED
    BY <2>1, <2>2, <2>3, StillKeeps
<1>3. QED
  BY <1>1, <1>2

\* What the page's playback and its engine are to each other, while commands
\* are on their way: for a page that leaves a pause or a resume its time.
THEOREM PlaybackInvariant ==
  ASSUME Hasty = FALSE
  PROVE  PSpec => []PInv
<1>1. PInit => PInv
  <2> SUFFICES ASSUME PInit
               PROVE  PInv
    OBVIOUS
  <2>1. cmds \in Seq(Cmds) /\ DOMAIN cmds = {} /\ 0 \in Times
    BY CommandsSent DEF PInit
  <2>2. PTypes
    BY <2>1 DEF PInit, PTypes, States
  <2>3. QED
    BY <2>1, <2>2 DEF PInit, PInv, IdleInv, LoadingInv, HeardInv, CarriedInv, EndScheduled, WhereInv
<1>2. PInv /\ [PNext]_vars => PInv'
  BY PlaybackStep
<1>3. QED
  BY <1>1, <1>2, PTL DEF PSpec

\* Whatever was stopped, played again or failed on the way, audio is heard
\* once all is answered exactly when the page says so.
THEOREM PageAgrees ==
  ASSUME Hasty = FALSE
  PROVE  PSpec => [](PTypeOK /\ AgreesOnceQuiet)
<1>1. PInv => PTypeOK
  BY DEF PInv, PTypes, PTypeOK, CommandOK, Cmds
<1>2. PInv => AgreesOnceQuiet
  <2> SUFFICES ASSUME PInv, cmds = <<>>
               PROVE  (dev.playing <=> state = "playing") /\ state # "loading"
    BY DEF AgreesOnceQuiet
  <2>1. DOMAIN cmds = {} /\ ~ done /\ state \in States /\ dev.playing \in BOOLEAN
    BY DEF PInv, PTypes
  <2>2. QED
    BY <2>1 DEF PInv, IdleInv, LoadingInv, HeardInv, States
<1>3. QED
  BY <1>1, <1>2, PlaybackInvariant, PTL

\* Once all is answered, what is heard is where the output reckons it is, and
\* where a paused page shows.
THEOREM HeardIsShown ==
  ASSUME Hasty = FALSE
  PROVE  PSpec => []HeardWhereShown
<1>1. PInv => HeardWhereShown
  <2> SUFFICES ASSUME PInv, cmds = <<>>
               PROVE  /\ state \in {"playing", "paused"} => dev.sec = anchor /\ dev.sec >= feedStart
                      /\ state = "paused" => dev.sec = currentTime
    BY DEF HeardWhereShown
  <2>1. DOMAIN cmds = {} /\ {anchor, feedStart} \subseteq Times
    BY DEF PInv, PTypes
  <2>2. state # "idle" => dev.sec = anchor /\ feedStart <= anchor
    BY <2>1 DEF PInv, WhereInv
  <2>3. state # "idle" => dev.sec >= feedStart
    BY <2>1, <2>2, PlaybackAssumption DEF Times
  <2>4. QED
    BY <2>2, <2>3 DEF PInv, WhereInv
<1>2. QED
  BY <1>1, PlaybackInvariant, PTL

\* A song plays with its end scheduled, and nothing else does.
THEOREM EndIsScheduled ==
  ASSUME Hasty = FALSE
  PROVE  PSpec => []EndScheduled
<1>1. PInv => EndScheduled
  BY DEF PInv
<1>2. QED
  BY <1>1, PlaybackInvariant, PTL

\* Playback ends only while the engine plays it.
THEOREM EndsAreHeard ==
  ASSUME Hasty = FALSE
  PROVE  PSpec => EndsPlayedOut
<1>1. PInv /\ [PNext]_vars => [(ended' /\ ~ ended) => (state = "playing" /\ dev.playing)]_vars
  <2> SUFFICES ASSUME PInv, PNext, ended', ~ ended
               PROVE  state = "playing" /\ dev.playing
    BY DEF PInv
  <2>1. Finish
    BY DEF PNext, Stop, Stopped, Play, Loading, Pause, Resume, Seek, SeekTo, SetSpeed, SetAudioOffset, Retime,
           ResetSong, InstallTracks, Execute, Answer, StartSought, Started, StartedStale, StartFailed, Paused,
           Resumed, Advance, Frame, engineVars
  <2>2. state = "playing" /\ ~ Answering("pause")
    BY <2>1 DEF Finish, PInv, EndScheduled
  <2>3. ~ (done /\ cmds[1].wait \in {"pause", "resume"})
    <3>1. done => 1 \in DOMAIN cmds
      BY EmptySeq, LenProperties DEF PInv, PTypes
    <3>2. QED
      BY <2>2, <3>1 DEF PInv, HeardInv, Answering
  <2>4. QED
    BY <2>2, <2>3 DEF PInv, HeardInv
<1>2. QED
  BY <1>1, PlaybackInvariant, PTL DEF PSpec, EndsPlayedOut

\* A stop wins over whatever was under way.
THEOREM StopIsFinal ==
  ASSUME Hasty = FALSE
  PROVE  PSpec => StopWins
<1>1. PInv /\ [PNext]_vars => [state = "idle" => state' \in {"idle", "loading"}]_vars
  <2> SUFFICES ASSUME PInv, PNext, state = "idle"
               PROVE  state' \in {"idle", "loading"}
    OBVIOUS
  <2>1. cmds # <<>> => 1 \in DOMAIN cmds /\ Head(cmds) = cmds[1]
    BY EmptySeq, LenProperties, HeadTailProperties DEF PInv, PTypes
  <2>2. cmds # <<>> => ~ Head(cmds).current /\ Head(cmds).wait \notin {"pause", "resume"}
    BY <2>1 DEF PInv, IdleInv
  <2>3. QED
    BY <2>2 DEF PNext, Stop, Stopped, Play, Loading, Pause, Resume, Seek, SeekTo, SetSpeed, SetAudioOffset, Retime,
           ResetSong, InstallTracks, Execute, Answer, StartSought, Started, StartedStale, StartFailed, Paused,
           Resumed, Reply, Advance, Frame, Finish, engineVars
<1>2. QED
  BY <1>1, PlaybackInvariant, PTL DEF PSpec, StopWins

(***************************************************************************)
(* The desktop's engine.                                                   *)
(***************************************************************************)

Calls == [op : {"seek"}, sec : Secs, id : Nat, plays : BOOLEAN]
           \union [op : {"play", "pause", "stop", "slow", "normal"}]

Seeks(i) == calls[i].op = "seek"

\* Where the command under way may be, by what it is.
Phases ==
  [play   |-> {"start", "mark"},
   pause  |-> {"start"},
   stop   |-> {"start", "rewind", "mark"},
   seek   |-> {"start", "move", "mark", "id"},
   slow   |-> {"start", "publish", "speed", "mark"},
   normal |-> {"start", "speed", "mark", "publish"}]

\* The command under way is a change of speed that has the sources locked.
Speeding == calls # <<>> /\ calls[1].op \in {"slow", "normal"} /\ at # "start"

CallsInv ==
  /\ calls \in Seq(Calls)
  /\ IF calls = <<>> THEN at = "start" ELSE at \in Phases[calls[1].op]
  /\ locked \in BOOLEAN /\ (locked <=> Speeding)
  /\ made \in 0 .. MaxCalls /\ asked \in 0 .. made /\ seekId \in 0 .. asked

FieldsInv ==
  /\ {playing, slow, wanted, open, crossed, tracked, subscribed} \subseteq BOOLEAN
  /\ {frame, discontinuity, got, target} \subseteq Nat /\ rate \in Rates
  /\ swaps \in 0 .. MaxSwaps
  /\ swap \in [at : {"idle", "rate", "rebuild", "seek", "mark"}, frame : Nat, rate : Nat]
  /\ swap.at # "idle" => swap.rate \in Rates /\ block.at = "idle"
  /\ block \in [at : {"idle", "look", "move", "mix"}, epoch : Nat, playing : BOOLEAN, start : Nat]
  /\ tick \in [at : {"idle", "frame", "playing", "sent"}, id : Nat, rate : Nat, frame : Nat,
               playing : BOOLEAN, torn : BOOLEAN]
  /\ shown \in [frame : Nat, rate : Nat, torn : BOOLEAN]

\* The page's seeks land in its order, the last of them the one it shows, and
\* no stop follows that one while the song is open.
SeeksInv ==
  /\ \A i \in DOMAIN calls : Seeks(i) => seekId < calls[i].id /\ calls[i].id <= asked
  /\ \A i, j \in DOMAIN calls : i < j /\ Seeks(i) /\ Seeks(j) => calls[i].id < calls[j].id
  /\ \A i \in DOMAIN calls : Seeks(i) /\ calls[i].id = asked => calls[i].sec = target
  /\ seekId < asked => \E i \in DOMAIN calls : Seeks(i) /\ calls[i].id = asked
  /\ open => \A i \in DOMAIN calls : calls[i].op = "stop" =>
               \E j \in DOMAIN calls : j > i /\ Seeks(j) /\ calls[j].id = asked

\* The playhead has been where the last seek went.
Moved == \/ seekId = asked
         \/ calls # <<>> /\ Seeks(1) /\ calls[1].id = asked /\ at \in {"mark", "id"}

\* It hasn't been put back before there since, whatever the rate it counts in;
\* and a seek that met no change of device reckons in the rate there is.
MovedInv ==
  /\ Moved /\ open /\ ~ crossed =>
       /\ swap.at \notin {"rebuild", "seek"} => frame >= target * rate
       /\ swap.at \in {"rate", "rebuild", "seek"} => swap.frame >= target * swap.rate
  /\ at = "move" /\ ~ crossed => got = rate /\ swap.at \notin {"rate", "rebuild", "seek"}

\* What the telemetry has sampled with the last seek's id was sampled after it.
TickInv ==
  /\ tick.id <= seekId
  /\ tick.at \in {"playing", "sent"} /\ tick.id = asked /\ open /\ ~ crossed /\ ~ tick.torn =>
       tick.frame >= target * tick.rate
  /\ seekId < asked /\ open => shown.frame >= target * shown.rate

\* What the stretcher is fed, and the block it is fed from, are of this epoch
\* only while the playhead has moved on from there by blocks alone.
FedInv ==
  /\ fed # <<>> => fed \in Nat \X Nat /\ fed[1] <= discontinuity
  /\ block.epoch <= discontinuity
  /\ fed # <<>> /\ fed[1] = discontinuity /\ at # "mark" /\ swap.at = "idle" /\ block.at # "mix" => fed[2] = frame
  /\ block.at = "mix" /\ block.playing /\ block.epoch = discontinuity /\ at # "mark" /\ swap.at = "idle" =>
       block.start + 1 = frame

\* A track has a stretcher of the output's rate just when the speed isn't 1,
\* but for a change of the speed or of the rate that is under way.
StretchInv ==
  /\ stretch \in Rates \union {0}
  /\ swap.at # "rebuild" => stretch \in {0, rate}
  /\ Speeding /\ calls[1].op = "slow" /\ at = "publish" => got \in Rates /\ (swap.at # "rebuild" => got = rate)
  /\ Speeding /\ calls[1].op = "slow" /\ at = "speed" /\ tracked => stretch # 0
  /\ Speeding /\ calls[1].op = "normal" /\ at \in {"mark", "publish"} => ~ slow
  /\ slow /\ tracked => stretch # 0
  /\ stretch # 0 => /\ tracked
                    /\ ~ slow => Speeding /\ \/ calls[1].op = "slow" /\ at = "speed"
                                             \/ calls[1].op = "normal" /\ at \in {"mark", "publish"}

AInv == CallsInv /\ FieldsInv /\ SeeksInv /\ MovedInv /\ TickInv /\ ShownAfterSeek /\ FedInv /\ StretchInv

------------------------------------------------------------------------------
\* The command under way, and where it may be.
LEMMA HeadCall ==
  ASSUME CallsInv, calls # <<>>
  PROVE  /\ Head(calls) = calls[1] /\ 1 \in DOMAIN calls /\ calls[1] \in Calls
         /\ calls[1].op \in {"play", "pause", "stop", "seek", "slow", "normal"}
         /\ at \in Phases[calls[1].op]
<1>1. calls \in Seq(Calls)
  BY DEF CallsInv
<1>2. Head(calls) = calls[1] /\ 1 \in DOMAIN calls /\ calls[1] \in Calls
  BY <1>1, TailAt
<1>3. calls[1].op \in {"play", "pause", "stop", "seek", "slow", "normal"}
  BY <1>2 DEF Calls
<1>4. QED
  BY <1>2, <1>3 DEF CallsInv

\* What each thread leaves alone.
LEMMA Leaves ==
  /\ Commands => UNCHANGED <<made, swapVars, block, tick, pageVars, tracked, subscribed>>
  /\ Swaps => UNCHANGED <<playing, seekId, slow, commandVars, locked, block, tick, pageVars, tracked, subscribed>>
  /\ Blocks => UNCHANGED <<playing, discontinuity, seekId, slow, stretch, locked, commandVars, swapVars, tick, pageVars,
                           crossed, tracked, subscribed>>
  /\ Ticks => UNCHANGED <<transportVars, stretch, locked, commandVars, swapVars, block, fed, crossed, tracked,
                          subscribed, wanted, asked, target, open>>
  /\ Asks => UNCHANGED <<transportVars, stretch, locked, at, got, swapVars, block, fed, tick, crossed, tracked,
                         subscribed>>
<1>1. Commands => UNCHANGED <<made, swapVars, block, tick, pageVars, tracked, subscribed>>
  BY DEF Commands, TPlay, TPause, TStop, TRewind, TSeek, TMove, TSeekId, TMark, TSpeedLock, TPublish, TSpeed, Others
<1>2. Swaps => UNCHANGED <<playing, seekId, slow, commandVars, locked, block, tick, pageVars, tracked, subscribed>>
  BY DEF Swaps, SwapPosition, SwapRate, SwapRebuild, SwapSeek, SwapMark, UnchangedBySwap
<1>3. Blocks => UNCHANGED <<playing, discontinuity, seekId, slow, stretch, locked, commandVars, swapVars, tick, pageVars,
                            crossed, tracked, subscribed>>
  BY DEF Blocks, BEpoch, BLook, BMove, BMix, UnchangedByBlock
<1>4. Ticks => UNCHANGED <<transportVars, stretch, locked, commandVars, swapVars, block, fed, crossed, tracked,
                           subscribed, wanted, asked, target, open>>
  BY DEF Ticks, TickId, TickFrame, TickPlaying, OnTelemetry, UnchangedByTick, pageVars
<1>5. Asks => UNCHANGED <<transportVars, stretch, locked, at, got, swapVars, block, fed, tick, crossed, tracked,
                          subscribed>>
  BY DEF Asks, AskStart, AskSeekOnly, AskSeek, AskPause, AskResume, AskStop, AskSpeed, Ask
<1>6. QED
  BY <1>1, <1>2, <1>3, <1>4, <1>5

\* A command goes on, is answered, or is a seek that lands.
LEMMA CommandMoves ==
  ASSUME CallsInv, Commands
  PROVE  /\ calls # <<>>
         /\ \/ /\ calls' = calls /\ seekId' = seekId /\ at' \in Phases[calls[1].op] \ {"start"}
               /\ locked' \in BOOLEAN /\ (locked' <=> calls[1].op \in {"slow", "normal"})
            \/ /\ calls' = Tail(calls) /\ seekId' = seekId /\ calls[1].op # "seek" /\ at' = "start" /\ locked' = FALSE
            \/ /\ calls' = IF calls[1].plays THEN Append(Tail(calls), [op |-> "play"]) ELSE Tail(calls)
               /\ seekId' = calls[1].id /\ calls[1].op = "seek" /\ at = "id" /\ at' = "start" /\ locked' = FALSE
<1>1. calls # <<>>
  BY DEF Commands, TPlay, TPause, TStop, TRewind, TSeek, TMove, TSeekId, TMark, TSpeedLock, TPublish, TSpeed, Running
<1>2. /\ Head(calls) = calls[1]
      /\ calls[1].op \in {"play", "pause", "stop", "seek", "slow", "normal"}
      /\ at \in Phases[calls[1].op]
      /\ locked \in BOOLEAN /\ (locked <=> calls[1].op \in {"slow", "normal"} /\ at # "start")
  BY <1>1, HeadCall DEF CallsInv, Speeding
<1> USE <1>1, <1>2
<1>3. CASE TPlay
  BY <1>3 DEF TPlay, Running, To, Phases
<1>4. CASE TPause
  BY <1>4 DEF TPause, Running, Answered, Phases
<1>5. CASE TStop
  BY <1>5 DEF TStop, Running, To, Phases
<1>6. CASE TRewind
  BY <1>6 DEF TRewind, Running, To, Phases
<1>7. CASE TSeek
  BY <1>7 DEF TSeek, Running, To, Phases, transportVars
<1>8. CASE TMove
  BY <1>8 DEF TMove, Running, To, Phases
<1>9. CASE TSeekId
  BY <1>9 DEF TSeekId, Running
<1>10. CASE TMark
  <2>1. at = "mark" /\ seekId' = seekId /\ locked' = (locked /\ calls[1].op # "slow")
    BY <1>10 DEF TMark
  <2>2. CASE calls[1].op = "seek"
    <3>1. To("id")
      BY <1>10, <2>2 DEF TMark
    <3>2. locked' = FALSE
      BY <2>1, <2>2
    <3>3. at' = "id" /\ "id" \in Phases["seek"] \ {"start"}
      BY <3>1 DEF To, Phases
    <3>4. QED
      BY <2>1, <2>2, <3>1, <3>2, <3>3 DEF To
  <2>3. CASE calls[1].op = "normal"
    <3>1. To("publish")
      BY <1>10, <2>3 DEF TMark
    <3>2. locked' = TRUE
      BY <2>1, <2>3
    <3>3. at' = "publish" /\ "publish" \in Phases["normal"] \ {"start"}
      BY <3>1 DEF To, Phases
    <3>4. QED
      BY <2>1, <2>3, <3>1, <3>2, <3>3 DEF To
  <2>4. CASE calls[1].op \notin {"seek", "normal"}
    <3>1. Answered
      BY <1>10, <2>4 DEF TMark
    <3>2. locked' = FALSE
      BY <2>1, <2>4
    <3>3. QED
      BY <2>1, <2>4, <3>1, <3>2 DEF Answered
  <2>5. QED
    BY <2>2, <2>3, <2>4
<1>11. CASE TSpeedLock
  <2>1. /\ calls[1].op \in {"slow", "normal"} /\ locked' = TRUE /\ seekId' = seekId /\ calls' = calls
        /\ at' = IF calls[1].op = "slow" THEN "publish" ELSE "speed"
    BY <1>11 DEF TSpeedLock, To, transportVars
  <2>2. at' \in Phases[calls[1].op] \ {"start"}
    BY <2>1 DEF Phases
  <2>3. QED
    BY <2>1, <2>2
<1>12. CASE TPublish
  BY <1>12 DEF TPublish, To, Answered, Phases, transportVars
<1>13. CASE TSpeed
  <2>1. calls[1].op \in {"slow", "normal"}
    BY <1>13 DEF TSpeed, Phases
  <2>2. QED
    BY <1>13, <2>1 DEF TSpeed, To, Phases
<1>14. QED
  BY <1>3, <1>4, <1>5, <1>6, <1>7, <1>8, <1>9, <1>10, <1>11, <1>12, <1>13 DEF Commands

\* What is left of the page's commands once the head is answered.
LEMMA CallsLeft ==
  ASSUME CallsInv, calls # <<>>, calls' = Tail(calls) \/ calls' = Append(Tail(calls), [op |-> "play"])
  PROVE  \E n \in Nat :
           /\ DOMAIN calls = 1..(n + 1) /\ calls' \in Seq(Calls)
           /\ \A i \in 1..n : calls'[i] = calls[i + 1] /\ i + 1 \in 1..(n + 1) /\ i \in DOMAIN calls'
           /\ \A i \in 1..(n + 1) : i = 1 \/ (i - 1 \in 1..n /\ calls'[i - 1] = calls[i])
           /\ \A i \in DOMAIN calls' : i \in 1..n \/ (i = n + 1 /\ calls'[i].op = "play")
<1>1. calls \in Seq(Calls)
  BY DEF CallsInv
<1>2. PICK t : t = Tail(calls)
  OBVIOUS
<1>3. /\ t \in Seq(Calls)
      /\ Len(calls) \in Nat \ {0} /\ DOMAIN calls = 1..Len(calls)
      /\ Len(t) = Len(calls) - 1 /\ DOMAIN t = 1..(Len(calls) - 1)
      /\ \A i \in 1..(Len(calls) - 1) : t[i] = calls[i + 1]
  BY <1>1, <1>2, TailAt
<1>4. PICK l \in Nat \ {0} : l = Len(calls)
  BY <1>3
<1>5. PICK n \in Nat : l = n + 1
  OBVIOUS
<1>6. /\ DOMAIN calls = 1..(n + 1) /\ Len(t) = n /\ DOMAIN t = 1..n
      /\ \A i \in 1..n : t[i] = calls[i + 1] /\ i + 1 \in 1..(n + 1)
  BY <1>3, <1>4, <1>5
<1>7. PICK c \in Calls : c = [op |-> "play"] /\ c.op = "play"
  BY DEF Calls
<1>8. CASE calls' = t
  <2>1. \A i \in 1..(n + 1) : i = 1 \/ (i - 1 \in 1..n /\ calls'[i - 1] = calls[i])
    BY <1>6, <1>8
  <2>2. QED
    BY <1>3, <1>6, <1>8, <2>1
<1>9. CASE calls' = Append(t, c)
  <2>1. /\ calls' \in Seq(Calls) /\ DOMAIN calls' = 1..(n + 1)
        /\ \A i \in 1..n : calls'[i] = t[i]
        /\ calls'[n + 1] = c
    <3>1. /\ Append(t, c) \in Seq(Calls) /\ DOMAIN Append(t, c) = 1..(Len(t) + 1)
          /\ \A i \in 1..Len(t) : Append(t, c)[i] = t[i]
          /\ Append(t, c)[Len(t) + 1] = c
      <4>1. t \in Seq(Calls)
        BY <1>3
      <4>2. QED
        BY <4>1, AppendAt
    <3>2. QED
      BY <1>6, <1>9, <3>1
  <2>2. \A i \in 1..(n + 1) : i \in 1..n \/ i = n + 1
    OBVIOUS
  <2>3. \A i \in 1..(n + 1) : i = 1 \/ (i - 1 \in 1..n /\ calls'[i - 1] = calls[i])
    BY <1>6, <2>1
  <2>4. \A i \in DOMAIN calls' : i \in 1..n \/ (i = n + 1 /\ calls'[i].op = "play")
    BY <1>7, <2>1, <2>2
  <2>5. \A i \in 1..n : calls'[i] = calls[i + 1] /\ i + 1 \in 1..(n + 1) /\ i \in DOMAIN calls'
    BY <1>6, <2>1
  <2>6. QED
    BY <1>6, <2>1, <2>3, <2>4, <2>5
<1>10. QED
  BY <1>2, <1>7, <1>8, <1>9

\* What the page asks, and how it goes last.
LEMMA AsksAt ==
  ASSUME CallsInv, FieldsInv, Asks
  PROVE  \E c \in Calls, n \in Nat :
           /\ n = Len(calls) /\ DOMAIN calls = 1..n /\ calls' \in Seq(Calls) /\ DOMAIN calls' = 1..(n + 1)
           /\ \A i \in 1..n : calls'[i] = calls[i] /\ i \in DOMAIN calls'
           /\ calls'[n + 1] = c
           /\ \A i \in DOMAIN calls' : i \in 1..n \/ (i = n + 1 /\ calls'[i] = c)
           /\ n = 0 <=> calls = <<>>
           /\ calls' # <<>>
           /\ made < MaxCalls /\ made' = made + 1
           /\ \/ /\ c.op = "seek" /\ c.id = asked + 1 /\ c.sec = target' /\ asked' = asked + 1
                 /\ shown' = [frame |-> target', rate |-> 1, torn |-> FALSE] /\ target' \in Secs
                 /\ wanted' \in BOOLEAN /\ open' = TRUE
              \/ /\ c.op # "seek" /\ asked' = asked /\ target' = target
                 /\ wanted' \in BOOLEAN
                 /\ \/ open' = FALSE /\ shown' = [frame |-> 0, rate |-> 1, torn |-> FALSE]
                    \/ c.op # "stop" /\ open' = open /\ shown' = shown
<1>1. ASSUME NEW c \in Calls, Ask(c)
      PROVE  \E n \in Nat :
               /\ n = Len(calls) /\ DOMAIN calls = 1..n /\ calls' \in Seq(Calls) /\ DOMAIN calls' = 1..(n + 1)
               /\ \A i \in 1..n : calls'[i] = calls[i] /\ i \in DOMAIN calls'
               /\ calls'[n + 1] = c
               /\ \A i \in DOMAIN calls' : i \in 1..n \/ (i = n + 1 /\ calls'[i] = c)
               /\ n = 0 <=> calls = <<>>
               /\ calls' # <<>>
               /\ made < MaxCalls /\ made' = made + 1
  <2>1. calls \in Seq(Calls) /\ calls' = Append(calls, c) /\ made < MaxCalls /\ made' = made + 1
    BY <1>1 DEF CallsInv, Ask
  <2>2. /\ calls' \in Seq(Calls) /\ Len(calls) \in Nat /\ DOMAIN calls = 1..Len(calls)
        /\ DOMAIN calls' = 1..(Len(calls) + 1)
        /\ \A i \in 1..Len(calls) : calls'[i] = calls[i]
        /\ calls'[Len(calls) + 1] = c
    BY <2>1, AppendAt
  <2>3. PICK n \in Nat : n = Len(calls)
    BY <2>2
  <2>4. (n = 0 <=> calls = <<>>) /\ calls' # <<>>
    BY <2>1, <2>2, <2>3, EmptySeq
  <2>5. \A i \in DOMAIN calls' : i \in 1..n \/ (i = n + 1 /\ calls'[i] = c)
    BY <2>2, <2>3
  <2>6. \A i \in 1..n : calls'[i] = calls[i] /\ i \in DOMAIN calls'
    BY <2>2, <2>3
  <2>7. n = Len(calls) /\ DOMAIN calls = 1..n /\ calls' \in Seq(Calls) /\ DOMAIN calls' = 1..(n + 1) /\ calls'[n + 1] = c
    BY <2>2, <2>3
  <2>8. QED
    BY <2>1, <2>4, <2>5, <2>6, <2>7
<1>2. asked \in Nat /\ Secs \subseteq Nat
  BY TransportAssumption DEF CallsInv
<1>3. ASSUME NEW sec \in Secs, NEW plays \in BOOLEAN, AskSeek(sec, plays), open' = TRUE, wanted' \in BOOLEAN
      PROVE  \E c \in Calls :
               /\ Ask(c)
               /\ c.op = "seek" /\ c.id = asked + 1 /\ c.sec = target' /\ asked' = asked + 1
               /\ shown' = [frame |-> target', rate |-> 1, torn |-> FALSE] /\ target' \in Secs
               /\ wanted' \in BOOLEAN /\ open' = TRUE
  <2>1. PICK c \in Calls : c = [op |-> "seek", sec |-> sec, id |-> asked + 1, plays |-> plays]
    <3>1. asked + 1 \in Nat
      BY <1>2
    <3>2. [op |-> "seek", sec |-> sec, id |-> asked + 1, plays |-> plays]
            \in [op : {"seek"}, sec : Secs, id : Nat, plays : BOOLEAN]
      BY <3>1
    <3>3. QED
      BY <3>2 DEF Calls
  <2>2. Ask(c) /\ asked' = asked + 1 /\ target' = sec /\ shown' = [frame |-> sec, rate |-> 1, torn |-> FALSE]
    BY <1>3, <2>1 DEF AskSeek
  <2>3. c.op = "seek" /\ c.id = asked + 1 /\ c.sec = sec
    BY <2>1
  <2>4. QED
    BY <1>3, <2>2, <2>3
<1>4. ASSUME NEW op \in {"play", "pause", "stop", "slow", "normal"}, Ask([op |-> op]),
             asked' = asked, target' = target, wanted' \in BOOLEAN,
             \/ open' = FALSE /\ shown' = [frame |-> 0, rate |-> 1, torn |-> FALSE]
             \/ op # "stop" /\ open' = open /\ shown' = shown
      PROVE  \E c \in Calls :
               /\ Ask(c)
               /\ c.op # "seek" /\ asked' = asked /\ target' = target
               /\ wanted' \in BOOLEAN
               /\ \/ open' = FALSE /\ shown' = [frame |-> 0, rate |-> 1, torn |-> FALSE]
                  \/ c.op # "stop" /\ open' = open /\ shown' = shown
  <2>1. PICK c \in Calls : c = [op |-> op] /\ c.op = op
    <3>1. [op |-> op] \in [op : {"play", "pause", "stop", "slow", "normal"}]
      OBVIOUS
    <3>2. QED
      BY <3>1 DEF Calls
  <2>2. QED
    BY <1>4, <2>1
<1>5. CASE \E sec \in Secs : AskStart(sec)
  BY <1>1, <1>3, <1>5 DEF AskStart
<1>6. CASE \E sec \in Secs : AskSeekOnly(sec)
  <2>1. PICK sec \in Secs : AskSeek(sec, FALSE) /\ open' = TRUE /\ wanted' \in BOOLEAN
    BY <1>6 DEF AskSeekOnly, FieldsInv
  <2>2. QED
    BY <1>1, <1>3, <2>1
<1>7. CASE AskPause \/ AskResume
  <2>1. PICK op \in {"play", "pause"} : Ask([op |-> op]) /\ UNCHANGED <<asked, shown, target, open>> /\ wanted' \in BOOLEAN
    BY <1>7 DEF AskPause, AskResume
  <2>2. QED
    BY <1>1, <1>4, <2>1
<1>8. CASE AskStop
  <2>1. /\ Ask([op |-> "stop"]) /\ UNCHANGED <<asked, target>> /\ wanted' \in BOOLEAN /\ open' = FALSE
        /\ shown' = [frame |-> 0, rate |-> 1, torn |-> FALSE]
    BY <1>8 DEF AskStop
  <2>2. QED
    BY <1>1, <1>4, <2>1
<1>9. CASE AskSpeed
  <2>1. PICK op \in {"slow", "normal"} : Ask([op |-> op]) /\ UNCHANGED <<asked, shown, target, open>> /\ wanted' \in BOOLEAN
    BY <1>9 DEF AskSpeed, pageVars, FieldsInv
  <2>2. QED
    BY <1>1, <1>4, <2>1
<1>10. QED
  BY <1>5, <1>6, <1>7, <1>8, <1>9 DEF Asks

\* What one command is at, and that the seeks land in order, is kept.
LEMMA CallsStep ==
  ASSUME CallsInv, FieldsInv, SeeksInv, [ANext]_aVars
  PROVE  CallsInv'
<1>1. calls \in Seq(Calls) /\ made \in 0 .. MaxCalls /\ asked \in 0 .. made /\ seekId \in 0 .. asked
  BY DEF CallsInv
<1>2. \A c \in Calls : "start" \in Phases[c.op]
  BY DEF Calls, Phases
<1>3. CASE UNCHANGED <<calls, at, locked, made, asked, seekId>>
  BY <1>3 DEF CallsInv, Speeding
<1>4. CASE Commands
  <2>1. UNCHANGED <<made, asked>> /\ calls # <<>>
    BY <1>4, Leaves, CommandMoves DEF pageVars
  <2>2. CASE /\ calls' = calls /\ seekId' = seekId /\ at' \in Phases[calls[1].op] \ {"start"}
             /\ locked' \in BOOLEAN /\ (locked' <=> calls[1].op \in {"slow", "normal"})
    BY <2>1, <2>2 DEF CallsInv, Speeding
  <2>3. CASE /\ calls' = Tail(calls) /\ seekId' = seekId /\ calls[1].op # "seek" /\ at' = "start" /\ locked' = FALSE
    <3>1. calls' \in Seq(Calls)
      BY <1>1, <2>1, <2>3, TailAt
    <3>2. calls' # <<>> => "start" \in Phases[calls'[1].op]
      BY <1>2, <3>1, TailAt
    <3>3. QED
      BY <2>1, <2>3, <3>1, <3>2 DEF CallsInv, Speeding
  <2>4. CASE /\ calls' = IF calls[1].plays THEN Append(Tail(calls), [op |-> "play"]) ELSE Tail(calls)
             /\ seekId' = calls[1].id /\ calls[1].op = "seek" /\ at = "id" /\ at' = "start" /\ locked' = FALSE
    <3>1. calls' \in Seq(Calls)
      BY <2>1, <2>4, CallsLeft
    <3>2. calls' # <<>> => "start" \in Phases[calls'[1].op]
      BY <1>2, <3>1, TailAt
    <3>3. seekId' \in 0 .. asked
      <4>1. 1 \in DOMAIN calls /\ calls[1] \in Calls
        BY <2>1, HeadCall
      <4>2. calls[1].id \in Nat /\ calls[1].id <= asked
        BY <2>4, <4>1 DEF Calls, SeeksInv, Seeks
      <4>3. QED
        BY <1>1, <2>4, <4>2
    <3>4. QED
      BY <2>1, <2>4, <3>1, <3>2, <3>3 DEF CallsInv, Speeding
  <2>5. QED
    BY <1>4, <2>2, <2>3, <2>4, CommandMoves
<1>5. CASE Asks
  <2>1. PICK c \in Calls, n \in Nat :
          /\ DOMAIN calls = 1..n /\ calls' \in Seq(Calls) /\ calls' # <<>>
          /\ \A i \in 1..n : calls'[i] = calls[i] /\ i \in DOMAIN calls'
          /\ calls'[n + 1] = c
          /\ n = 0 <=> calls = <<>>
          /\ made < MaxCalls /\ made' = made + 1 /\ asked' \in {asked, asked + 1}
    BY <1>5, AsksAt
  <2>2. UNCHANGED <<seekId, locked, at>>
    BY <1>5, Leaves DEF transportVars
  <2>3. made' \in 0 .. MaxCalls /\ asked' \in 0 .. made' /\ seekId' \in 0 .. asked'
    BY <1>1, <2>1, <2>2, TransportAssumption
  <2>4. CASE calls = <<>>
    <3>1. at = "start" /\ locked = FALSE
      BY <2>4 DEF CallsInv, Speeding
    <3>2. calls'[1] = c
      BY <2>1, <2>4
    <3>3. QED
      BY <1>2, <2>1, <2>2, <2>3, <3>1, <3>2 DEF CallsInv, Speeding
  <2>5. CASE calls # <<>>
    <3>1. calls'[1] = calls[1]
      BY <2>1, <2>5
    <3>2. at \in Phases[calls[1].op]
      BY <2>5 DEF CallsInv
    <3>3. Speeding' <=> Speeding
      BY <2>1, <2>2, <2>5, <3>1 DEF Speeding
    <3>4. locked' \in BOOLEAN /\ (locked' <=> Speeding')
      BY <2>2, <3>3 DEF CallsInv
    <3>5. QED
      BY <2>1, <2>2, <2>3, <3>1, <3>2, <3>4 DEF CallsInv
  <2>6. QED
    BY <2>4, <2>5
<1>6. QED
  BY <1>3, <1>4, <1>5, Leaves DEF ANext, aVars, transportVars, commandVars, pageVars

\* The page's seeks stay in order.
LEMMA SeeksStep ==
  ASSUME CallsInv, FieldsInv, SeeksInv, [ANext]_aVars
  PROVE  SeeksInv'
<1>1. seekId \in Nat /\ asked \in Nat /\ seekId <= asked
  BY DEF CallsInv
<1>2. CASE UNCHANGED <<calls, asked, seekId, target, open>>
  BY <1>2 DEF SeeksInv, Seeks
<1>3. \A i \in DOMAIN calls : Seeks(i) => calls[i].id \in Nat
  <2>1. \A i \in DOMAIN calls : calls[i] \in Calls
    BY DEF CallsInv
  <2>2. QED
    BY <2>1 DEF Calls, Seeks
<1>4. CASE /\ Commands
           /\ calls' = Tail(calls) \/ calls' = Append(Tail(calls), [op |-> "play"])
           /\ IF Seeks(1) THEN seekId' = calls[1].id ELSE seekId' = seekId
  <2>1. UNCHANGED <<asked, target, open>> /\ calls # <<>>
    BY <1>4, Leaves, CommandMoves DEF pageVars
  <2>2. /\ calls' = Tail(calls) \/ calls' = Append(Tail(calls), [op |-> "play"])
        /\ IF Seeks(1) THEN seekId' = calls[1].id ELSE seekId' = seekId
    BY <1>4
  <2>3. PICK n \in Nat :
           /\ DOMAIN calls = 1..(n + 1) /\ calls' \in Seq(Calls)
           /\ \A i \in 1..n : calls'[i] = calls[i + 1] /\ i + 1 \in 1..(n + 1) /\ i \in DOMAIN calls'
           /\ \A i \in 1..(n + 1) : i = 1 \/ (i - 1 \in 1..n /\ calls'[i - 1] = calls[i])
           /\ \A i \in DOMAIN calls' : i \in 1..n \/ (i = n + 1 /\ calls'[i].op = "play")
    BY <2>1, <2>2, CallsLeft
  <2>4. \A i \in DOMAIN calls' : i \in 1..n \/ (~ Seeks(i)' /\ calls'[i].op # "stop")
    BY <2>3 DEF Seeks
  <2>5. \A i \in 1..n : /\ Seeks(i)' <=> Seeks(i + 1)
                        /\ calls'[i] = calls[i + 1]
                        /\ i + 1 \in DOMAIN calls
    BY <2>3 DEF Seeks
  <2>6. 1 \in DOMAIN calls
    BY <2>3
  <2>7. \A i \in DOMAIN calls' : Seeks(i)' => seekId' < calls'[i].id /\ calls'[i].id <= asked'
    <3>1. ASSUME NEW i \in DOMAIN calls', Seeks(i)'
          PROVE  seekId' < calls'[i].id /\ calls'[i].id <= asked'
      <4>1. PICK k \in DOMAIN calls : k = i + 1 /\ i \in 1..n /\ Seeks(k) /\ calls'[i] = calls[k]
        BY <2>4, <2>5, <3>1
      <4>2. 1 < k
        BY <4>1
      <4>3. seekId < calls[k].id /\ calls[k].id <= asked
        BY <4>1 DEF SeeksInv
      <4>4. Seeks(1) => calls[1].id < calls[k].id
        BY <2>6, <4>1, <4>2 DEF SeeksInv
      <4>5. QED
        BY <2>1, <2>2, <4>1, <4>3, <4>4
    <3>2. QED
      BY <3>1
  <2>8. \A i, j \in DOMAIN calls' : i < j /\ Seeks(i)' /\ Seeks(j)' => calls'[i].id < calls'[j].id
    <3>1. ASSUME NEW i \in DOMAIN calls', NEW j \in DOMAIN calls', i < j, Seeks(i)', Seeks(j)'
          PROVE  calls'[i].id < calls'[j].id
      <4>1. PICK k \in DOMAIN calls : k = i + 1 /\ i \in 1..n /\ Seeks(k) /\ calls'[i] = calls[k]
        BY <2>4, <2>5, <3>1
      <4>2. PICK l \in DOMAIN calls : l = j + 1 /\ j \in 1..n /\ Seeks(l) /\ calls'[j] = calls[l]
        BY <2>4, <2>5, <3>1
      <4>3. k < l
        BY <3>1, <4>1, <4>2
      <4>4. QED
        BY <4>1, <4>2, <4>3 DEF SeeksInv
    <3>2. QED
      BY <3>1
  <2>9. \A i \in DOMAIN calls' : Seeks(i)' /\ calls'[i].id = asked' => calls'[i].sec = target'
    BY <2>1, <2>4, <2>5 DEF SeeksInv
  <2>10. \A k \in DOMAIN calls : k > 1 => k - 1 \in DOMAIN calls' /\ calls'[k - 1] = calls[k]
    BY <2>3
  <2>11. ASSUME seekId' < asked'
         PROVE  \E i \in DOMAIN calls' : Seeks(i)' /\ calls'[i].id = asked'
    <3>1. seekId < asked
      BY <1>1, <1>3, <2>1, <2>2, <2>6, <2>11 DEF SeeksInv
    <3>2. PICK k \in DOMAIN calls : Seeks(k) /\ calls[k].id = asked
      BY <3>1 DEF SeeksInv
    <3>3. k # 1
      BY <1>1, <2>1, <2>2, <2>11, <3>2
    <3>4. k > 1
      BY <2>3, <3>3
    <3>5. QED
      BY <2>1, <2>10, <3>2, <3>4 DEF Seeks
  <2>12. ASSUME open', NEW i \in DOMAIN calls', calls'[i].op = "stop"
         PROVE  \E j \in DOMAIN calls' : j > i /\ Seeks(j)' /\ calls'[j].id = asked'
    <3>1. i \in 1..n /\ i + 1 \in DOMAIN calls /\ calls[i + 1].op = "stop"
      BY <2>4, <2>5, <2>12
    <3>2. PICK k \in DOMAIN calls : k > i + 1 /\ Seeks(k) /\ calls[k].id = asked
      BY <2>1, <2>12, <3>1 DEF SeeksInv
    <3>3. k > 1 /\ k - 1 > i
      BY <2>3, <3>1, <3>2
    <3>4. QED
      BY <2>1, <2>10, <3>2, <3>3 DEF Seeks
  <2>13. QED
    BY <2>7, <2>8, <2>9, <2>11, <2>12 DEF SeeksInv
<1>5. CASE Commands
  <2>1. UNCHANGED <<asked, target, open>>
    BY <1>5, Leaves DEF pageVars
  <2>2. QED
    BY <1>2, <1>4, <1>5, <2>1, CommandMoves DEF Seeks
<1>6. CASE Asks
  <2>1. PICK c \in Calls, n \in Nat :
           /\ DOMAIN calls = 1..n /\ calls' \in Seq(Calls) /\ DOMAIN calls' = 1..(n + 1)
           /\ \A i \in 1..n : calls'[i] = calls[i] /\ i \in DOMAIN calls'
           /\ calls'[n + 1] = c
           /\ \A i \in DOMAIN calls' : i \in 1..n \/ (i = n + 1 /\ calls'[i] = c)
           /\ \/ c.op = "seek" /\ c.id = asked + 1 /\ c.sec = target' /\ asked' = asked + 1
              \/ c.op # "seek" /\ asked' = asked /\ target' = target /\ (~ open' \/ (c.op # "stop" /\ open' = open))
    BY <1>6, AsksAt
  <2>2. seekId' = seekId
    BY <1>6, Leaves DEF transportVars
  <2>3. \A i \in 1..n : /\ Seeks(i)' <=> Seeks(i)
                        /\ Seeks(i) => seekId < calls[i].id /\ calls[i].id <= asked /\ calls[i].id \in Nat
    BY <1>3, <2>1 DEF Seeks, SeeksInv
  <2>4. \A i, j \in 1..n : i < j /\ Seeks(i) /\ Seeks(j) => calls[i].id < calls[j].id
    BY <2>1 DEF SeeksInv
  <2>5. CASE c.op = "seek"
    <3>1. c.id = asked + 1 /\ c.sec = target' /\ asked' = asked + 1 /\ n + 1 \in DOMAIN calls' /\ Seeks(n + 1)'
      BY <2>1, <2>5 DEF Seeks
    <3>2. \A i \in DOMAIN calls' : Seeks(i)' => seekId' < calls'[i].id /\ calls'[i].id <= asked'
      BY <1>1, <2>1, <2>2, <2>3, <3>1
    <3>3. \A i, j \in DOMAIN calls' : i < j /\ Seeks(i)' /\ Seeks(j)' => calls'[i].id < calls'[j].id
      <4>1. ASSUME NEW i \in DOMAIN calls', NEW j \in DOMAIN calls', i < j, Seeks(i)', Seeks(j)'
            PROVE  calls'[i].id < calls'[j].id
        <5>1. i \in 1..n
          BY <2>1, <4>1
        <5>2. CASE j \in 1..n
          BY <2>1, <2>3, <2>4, <4>1, <5>1, <5>2
        <5>3. CASE j = n + 1
          BY <1>1, <2>1, <2>3, <3>1, <4>1, <5>1, <5>3
        <5>4. QED
          BY <2>1, <5>2, <5>3
      <4>2. QED
        BY <4>1
    <3>4. \A i \in DOMAIN calls' : Seeks(i)' /\ calls'[i].id = asked' => i = n + 1
      BY <1>1, <2>1, <2>3, <3>1
    <3>5. \A i \in DOMAIN calls' : calls'[i].op = "stop" => n + 1 > i
      BY <2>1, <2>5
    <3>6. QED
      BY <2>1, <3>1, <3>2, <3>3, <3>4, <3>5 DEF SeeksInv
  <2>6. CASE c.op # "seek"
    <3>1. asked' = asked /\ target' = target /\ (~ open' \/ (c.op # "stop" /\ open' = open))
      BY <2>1, <2>6
    <3>2. \A i \in DOMAIN calls' : Seeks(i)' => i \in 1..n
      BY <2>1, <2>6 DEF Seeks
    <3>3. \A i \in DOMAIN calls' : Seeks(i)' => seekId' < calls'[i].id /\ calls'[i].id <= asked'
      BY <2>1, <2>2, <2>3, <3>1, <3>2
    <3>4. \A i, j \in DOMAIN calls' : i < j /\ Seeks(i)' /\ Seeks(j)' => calls'[i].id < calls'[j].id
      BY <2>1, <2>3, <2>4, <3>2
    <3>5. \A i \in DOMAIN calls' : Seeks(i)' /\ calls'[i].id = asked' => calls'[i].sec = target'
      BY <2>1, <2>3, <3>1, <3>2 DEF SeeksInv
    <3>6. seekId' < asked' => \E i \in DOMAIN calls' : Seeks(i)' /\ calls'[i].id = asked'
      BY <2>1, <2>2, <2>3, <3>1 DEF SeeksInv
    <3>7. ASSUME open', NEW i \in DOMAIN calls', calls'[i].op = "stop"
          PROVE  \E j \in DOMAIN calls' : j > i /\ Seeks(j)' /\ calls'[j].id = asked'
      <4>1. open /\ i \in 1..n /\ calls[i].op = "stop"
        BY <2>1, <3>1, <3>7
      <4>2. PICK j \in 1..n : j > i /\ Seeks(j) /\ calls[j].id = asked
        BY <2>1, <4>1 DEF SeeksInv
      <4>3. QED
        BY <2>1, <2>3, <3>1, <4>2
    <3>8. QED
      BY <3>3, <3>4, <3>5, <3>6, <3>7 DEF SeeksInv
  <2>7. QED
    BY <2>5, <2>6
<1>7. QED
  BY <1>2, <1>5, <1>6, Leaves DEF ANext, aVars, transportVars, commandVars, pageVars

\* The rates and the frames are numbers; the last of the divisions of a
\* change of device is by twice a rate.
LEMMA RateTypes ==
  /\ Rates \subseteq Nat /\ Secs \subseteq Nat /\ MaxSwaps \in Nat
  /\ \A r \in Rates : r > 0
BY TransportAssumption

\* The same time at another rate is at or past what was at or past it.
LEMMA RateChange ==
  ASSUME NEW f \in Nat, NEW r \in Rates, NEW s \in Rates, NEW t \in Nat
  PROVE  /\ (2 * f * s + r) \div (2 * r) \in Nat
         /\ f >= t * r => (2 * f * s + r) \div (2 * r) >= t * s
<1>1. r \in Nat /\ s \in Nat /\ r > 0
  BY RateTypes
<1>2. PICK n \in Nat : n = 2 * f * s + r
  <2>1. f * s \in Nat
    BY <1>1
  <2>2. QED
    BY <1>1, <2>1
<1>3. PICK d \in Nat : d = 2 * r /\ d > 0
  BY <1>1
<1>4. PICK q \in Int : q = n \div d /\ d * q <= n /\ n < d * (q + 1)
  BY <1>2, <1>3, SMTT(30)
<1>5. q \in Nat
  <2>1. SUFFICES ASSUME q < 0
                 PROVE  FALSE
    BY <1>4
  <2>2. q + 1 <= 0
    BY <2>1, <1>4
  <2>3. d * (q + 1) <= 0
    BY <1>3, <2>2, SMTT(30)
  <2>4. QED
    BY <1>2, <1>3, <1>4, <2>3
<1>6. ASSUME f >= t * r
      PROVE  q >= t * s
  <2>1. PICK m \in Nat : m = t * s
    BY <1>1
  <2>2. f * s >= (t * r) * s
    BY <1>1, <1>6, SMTT(30)
  <2>3. n >= d * m
    <3>1. (t * r) * s = r * (t * s)
      BY <1>1, SMTT(30)
    <3>2. f * s >= r * m
      BY <2>1, <2>2, <3>1
    <3>3. d * m = 2 * (r * m) /\ r * m \in Nat /\ f * s \in Nat /\ n = 2 * (f * s) + r
      BY <1>1, <1>2, <1>3, <2>1, SMTT(30)
    <3>4. QED
      BY <1>1, <3>2, <3>3
  <2>4. SUFFICES ASSUME q < m
                 PROVE  FALSE
    BY <1>4, <2>1
  <2>5. q + 1 <= m
    BY <1>4, <2>1, <2>4
  <2>6. d * (q + 1) <= d * m
    BY <1>3, <1>4, <2>1, <2>5, SMTT(30)
  <2>7. d * (q + 1) \in Int /\ d * m \in Int
    BY <1>3, <1>4, <2>1
  <2>8. QED
    BY <1>2, <1>4, <2>3, <2>6, <2>7
<1>7. QED
  BY <1>2, <1>3, <1>4, <1>5, <1>6

\* Every field keeps its type.
LEMMA FieldsStep ==
  ASSUME CallsInv, FieldsInv, [ANext]_aVars
  PROVE  FieldsInv'
<1> DEFINE Swapping == [at : {"idle", "rate", "rebuild", "seek", "mark"}, frame : Nat, rate : Nat]
           Mixing   == [at : {"idle", "look", "move", "mix"}, epoch : Nat, playing : BOOLEAN, start : Nat]
           Ticking  == [at : {"idle", "frame", "playing", "sent"}, id : Nat, rate : Nat, frame : Nat,
                        playing : BOOLEAN, torn : BOOLEAN]
           Showing  == [frame : Nat, rate : Nat, torn : BOOLEAN]
<1>1. /\ {playing, slow, wanted, open, crossed, tracked, subscribed} \subseteq BOOLEAN
      /\ {frame, discontinuity, got, target} \subseteq Nat /\ rate \in Rates /\ rate \in Nat
      /\ swaps \in 0 .. MaxSwaps
      /\ swap \in Swapping
      /\ swap.at # "idle" => swap.rate \in Rates /\ block.at = "idle"
      /\ block \in Mixing
      /\ tick \in Ticking
      /\ shown \in Showing
  BY RateTypes DEF FieldsInv
<1>2. seekId \in Nat
  BY DEF CallsInv
<1>3. CASE Commands
  <2>1. UNCHANGED <<rate, swap, swaps, block, tick, wanted, shown, target, open, tracked, subscribed>>
    BY <1>3, Leaves DEF swapVars, pageVars
  <2>2. playing' \in BOOLEAN /\ slow' \in BOOLEAN /\ crossed' \in BOOLEAN /\ discontinuity' \in Nat
    <3>1. playing' \in {playing, TRUE, FALSE} /\ discontinuity' \in {discontinuity, discontinuity + 1}
      BY <1>3 DEF Commands, TPlay, TPause, TStop, TRewind, TSeek, TMove, TSeekId, TMark, TSpeedLock, TPublish,
                  TSpeed, transportVars
    <3>2. slow' \in BOOLEAN
      <4>1. CASE TSpeed
        BY <4>1 DEF TSpeed
      <4>2. CASE ~ TSpeed
        BY <1>1, <1>3, <4>2 DEF Commands, TPlay, TPause, TStop, TRewind, TSeek, TMove, TSeekId, TMark, TSpeedLock,
                                TPublish, transportVars
      <4>3. QED
        BY <4>1, <4>2
    <3>3. crossed' \in BOOLEAN
      <4>1. CASE TSeek
        BY <4>1 DEF TSeek
      <4>2. CASE ~ TSeek
        BY <1>1, <1>3, <4>2 DEF Commands, TPlay, TPause, TStop, TRewind, TMove, TSeekId, TMark, TSpeedLock, TPublish,
                                TSpeed
      <4>3. QED
        BY <4>1, <4>2
    <3>4. playing' \in BOOLEAN
      BY <1>1, <3>1
    <3>5. discontinuity' \in Nat
      BY <1>1, <3>1
    <3>6. QED
      BY <3>2, <3>3, <3>4, <3>5
  <2>3. got' \in Nat
    BY <1>1, <1>3 DEF Commands, TPlay, TPause, TStop, TRewind, TSeek, TMove, TSeekId, TMark, TSpeedLock, TPublish,
                      TSpeed, transportVars
  <2>4. frame' \in Nat
    <3>1. CASE TMove
      <4>1. calls # <<>> /\ Head(calls).op = "seek" /\ frame' = Head(calls).sec * got
        BY <3>1 DEF TMove, Running
      <4>2. Head(calls) \in Calls
        BY <4>1, HeadCall
      <4>3. Head(calls).sec \in Nat
        BY <4>1, <4>2, RateTypes DEF Calls
      <4>4. QED
        BY <1>1, <4>1, <4>3
    <3>2. CASE ~ TMove
      BY <1>1, <1>3, <3>2 DEF Commands, TPlay, TPause, TStop, TRewind, TSeek, TSeekId, TMark, TSpeedLock, TPublish,
                              TSpeed, transportVars
    <3>3. QED
      BY <3>1, <3>2
  <2>5. QED
    BY <1>1, <2>1, <2>2, <2>3, <2>4 DEF FieldsInv
<1>4. CASE Swaps
  <2>1. UNCHANGED <<playing, slow, got, block, tick, wanted, shown, target, open, tracked, subscribed>>
    BY <1>4, Leaves DEF commandVars, pageVars
  <2>2. frame' \in Nat
    <3>1. CASE SwapSeek
      <4>1. PICK f \in Nat, r \in Rates : f = swap.frame /\ r = swap.rate
        BY <1>1, <3>1 DEF SwapSeek
      <4>2. frame' = (2 * f * rate + r) \div (2 * r)
        BY <3>1, <4>1 DEF SwapSeek
      <4>3. QED
        BY <1>1, <4>2, RateChange
    <3>2. CASE ~ SwapSeek
      BY <1>1, <1>4, <3>2 DEF Swaps, SwapPosition, SwapRate, SwapRebuild, SwapMark
    <3>3. QED
      BY <3>1, <3>2
  <2>3. discontinuity' \in Nat /\ crossed' \in BOOLEAN /\ rate' \in Rates
    <3>1. discontinuity' \in {discontinuity, discontinuity + 1} /\ rate' \in Rates
      BY <1>1, <1>4 DEF Swaps, SwapPosition, SwapRate, SwapRebuild, SwapSeek, SwapMark
    <3>2. crossed' \in BOOLEAN
      <4>1. CASE SwapPosition
        BY <4>1 DEF SwapPosition
      <4>2. CASE ~ SwapPosition
        BY <1>1, <1>4, <4>2 DEF Swaps, SwapRate, SwapRebuild, SwapSeek, SwapMark
      <4>3. QED
        BY <4>1, <4>2
    <3>3. QED
      BY <1>1, <3>1, <3>2
  <2>4. swaps' \in 0 .. MaxSwaps
    BY <1>1, <1>4, RateTypes DEF Swaps, SwapPosition, SwapRate, SwapRebuild, SwapSeek, SwapMark
  <2>5. swap' \in Swapping /\ (swap'.at # "idle" => swap'.rate \in Rates /\ block.at = "idle")
    <3>1. CASE SwapPosition
      BY <1>1, <3>1 DEF SwapPosition
    <3>2. CASE SwapRate \/ SwapRebuild \/ SwapSeek
      <4>1. PICK l \in {"rebuild", "seek", "mark"} : swap' = [swap EXCEPT !.at = l] /\ swap.at # "idle"
        BY <3>2 DEF SwapRate, SwapRebuild, SwapSeek
      <4>2. swap' \in Swapping /\ swap'.rate = swap.rate
        BY <1>1, <4>1
      <4>3. QED
        BY <1>1, <4>1, <4>2
    <3>3. CASE SwapMark
      BY <3>3 DEF SwapMark, NoSwap
    <3>4. QED
      BY <1>4, <3>1, <3>2, <3>3 DEF Swaps
  <2>6. QED
    BY <1>1, <2>1, <2>2, <2>3, <2>4, <2>5 DEF FieldsInv
<1>5. CASE Blocks
  <2>1. UNCHANGED <<playing, discontinuity, slow, got, rate, swap, swaps, tick, wanted, shown, target, open, crossed,
                    tracked, subscribed>>
    BY <1>5, Leaves DEF commandVars, swapVars, pageVars
  <2>2. frame' \in Nat
    BY <1>1, <1>5 DEF Blocks, BEpoch, BLook, BMove, BMix
  <2>3. block' \in Mixing /\ (swap.at # "idle" => block'.at = "idle")
    <3>1. CASE BEpoch
      <4>1. block' = [at |-> "look", epoch |-> discontinuity, playing |-> FALSE, start |-> 0] /\ swap.at = "idle"
        BY <3>1 DEF BEpoch, NoBlock
      <4>2. QED
        BY <1>1, <4>1
    <3>2. CASE BLook
      <4>1. block' = [block EXCEPT !.at = "move", !.playing = playing] /\ block.at = "look"
        BY <3>2 DEF BLook
      <4>2. block' \in Mixing
        BY <1>1, <4>1
      <4>3. QED
        BY <1>1, <4>1, <4>2
    <3>3. CASE BMove
      <4>1. block' = [block EXCEPT !.at = "mix", !.start = frame] /\ block.at = "move"
        BY <3>3 DEF BMove
      <4>2. block' \in Mixing
        BY <1>1, <4>1
      <4>3. QED
        BY <1>1, <4>1, <4>2
    <3>4. CASE BMix
      <4>1. block' = [at |-> "idle", epoch |-> 0, playing |-> FALSE, start |-> 0]
        BY <3>4 DEF BMix, NoBlock
      <4>2. QED
        BY <4>1
    <3>5. QED
      BY <1>5, <3>1, <3>2, <3>3, <3>4 DEF Blocks
  <2>4. QED
    BY <1>1, <2>1, <2>2, <2>3 DEF FieldsInv
<1>6. CASE Ticks
  <2>1. UNCHANGED <<playing, frame, discontinuity, slow, got, rate, swap, swaps, block, wanted, target, open, crossed,
                    tracked, subscribed>>
    BY <1>6, Leaves DEF transportVars, commandVars, swapVars
  <2>2. tick' \in Ticking
    <3>1. CASE TickFrame
      <4>1. (swap.at \in {"rebuild", "seek"}) \in BOOLEAN
        OBVIOUS
      <4>2. PICK b \in BOOLEAN : tick' = [tick EXCEPT !.at = "playing", !.rate = rate, !.frame = frame, !.torn = b]
        BY <3>1, <4>1 DEF TickFrame
      <4>3. QED
        BY <1>1, <4>2
    <3>2. CASE TickId
      <4>1. tick' = [at |-> "frame", id |-> seekId, rate |-> 0, frame |-> 0, playing |-> FALSE, torn |-> FALSE]
        BY <3>2 DEF TickId, NoTick
      <4>2. QED
        BY <1>2, <4>1
    <3>3. CASE TickPlaying
      <4>1. tick' = [tick EXCEPT !.at = "sent", !.playing = playing]
        BY <3>3 DEF TickPlaying
      <4>2. QED
        BY <1>1, <4>1
    <3>4. CASE OnTelemetry
      BY <3>4 DEF OnTelemetry, NoTick
    <3>5. QED
      BY <1>6, <3>1, <3>2, <3>3, <3>4 DEF Ticks
  <2>3. shown' \in Showing
    BY <1>1, <1>6 DEF Ticks, TickId, TickFrame, TickPlaying, OnTelemetry, pageVars
  <2>4. QED
    BY <1>1, <2>1, <2>2, <2>3 DEF FieldsInv
<1>7. CASE Asks
  <2>1. UNCHANGED <<playing, frame, discontinuity, slow, got, rate, swap, swaps, block, tick, crossed, tracked,
                    subscribed>>
    BY <1>7, Leaves DEF transportVars, swapVars
  <2>2. /\ wanted' \in BOOLEAN
        /\ \/ shown' = [frame |-> target', rate |-> 1, torn |-> FALSE] /\ target' \in Secs /\ open' = TRUE
           \/ target' = target /\ \/ open' = FALSE /\ shown' = [frame |-> 0, rate |-> 1, torn |-> FALSE]
                                  \/ open' = open /\ shown' = shown
    BY <1>7, AsksAt
  <2>3. target' \in Nat /\ open' \in BOOLEAN
    BY <1>1, <2>2, RateTypes
  <2>4. shown' \in Showing
    <3>1. CASE shown' = shown
      BY <1>1, <3>1
    <3>2. CASE shown' = [frame |-> 0, rate |-> 1, torn |-> FALSE]
      BY <3>2
    <3>3. CASE shown' = [frame |-> target', rate |-> 1, torn |-> FALSE]
      BY <2>3, <3>3
    <3>4. QED
      BY <2>2, <3>1, <3>2, <3>3
  <2>5. QED
    BY <1>1, <2>1, <2>2, <2>3, <2>4 DEF FieldsInv
<1>8. CASE UNCHANGED aVars
  BY <1>1, <1>8 DEF FieldsInv, aVars, transportVars, commandVars, swapVars, pageVars
<1>9. QED
  BY <1>3, <1>4, <1>5, <1>6, <1>7, <1>8 DEF ANext

\* The playhead stays past the last seek.
LEMMA MovedStep ==
  ASSUME CallsInv, FieldsInv, SeeksInv, MovedInv, [ANext]_aVars
  PROVE  MovedInv'
<1> DEFINE Past(f, r) == f >= target * r
<1>1. /\ frame \in Nat /\ rate \in Nat /\ rate \in Rates /\ target \in Nat /\ seekId \in Nat /\ asked \in Nat
      /\ seekId <= asked /\ swap.frame \in Nat
  BY RateTypes DEF FieldsInv, CallsInv
<1>2. /\ swap.at \in {"idle", "rate", "rebuild", "seek", "mark"}
      /\ swap.at # "idle" => swap.rate \in Rates /\ block.at = "idle"
      /\ crossed \in BOOLEAN
  BY DEF FieldsInv
<1>3. CASE Commands
  <2>1. UNCHANGED <<rate, swap, target, open, asked>> /\ calls # <<>>
    BY <1>3, Leaves, CommandMoves DEF swapVars, pageVars
  <2>2. /\ Head(calls) = calls[1] /\ 1 \in DOMAIN calls /\ calls[1] \in Calls
        /\ calls[1].op \in {"play", "pause", "stop", "seek", "slow", "normal"}
        /\ at \in Phases[calls[1].op]
    BY <2>1, HeadCall
  <2>3. CASE TSeek
    <3>1. /\ calls[1].op = "seek" /\ at' = "move" /\ calls' = calls /\ seekId' = seekId /\ frame' = frame /\ got' = rate
          /\ crossed' = (swap.at \in {"rate", "rebuild", "seek"})
      BY <2>2, <2>3 DEF TSeek, Running, To, transportVars
    <3>2. seekId < calls[1].id /\ calls[1].id <= asked
      BY <2>2, <3>1 DEF SeeksInv, Seeks
    <3>3. ~ Moved'
      BY <1>1, <2>1, <2>2, <3>1, <3>2 DEF Moved, Calls
    <3>4. QED
      BY <2>1, <3>1, <3>3 DEF MovedInv
  <2>4. CASE TMove
    <3>1. /\ calls[1].op = "seek" /\ at = "move" /\ at' = "mark" /\ calls' = calls /\ seekId' = seekId
          /\ frame' = calls[1].sec * got /\ crossed' = crossed
      BY <2>2, <2>4 DEF TMove, Running, To
    <3>2. calls[1].id = asked => calls[1].sec = target
      BY <2>2, <3>1 DEF SeeksInv, Seeks
    <3>3. seekId < calls[1].id /\ calls[1].id <= asked
      BY <2>2, <3>1 DEF SeeksInv, Seeks
    <3>4. Moved' => calls[1].sec = target
      BY <1>1, <2>1, <2>2, <3>1, <3>2, <3>3 DEF Moved, Calls
    <3>5. ~ crossed => frame' = calls[1].sec * rate /\ swap.at \notin {"rate", "rebuild", "seek"}
      BY <3>1 DEF MovedInv
    <3>6. QED
      BY <1>1, <2>1, <3>1, <3>4, <3>5 DEF MovedInv
  <2>5. CASE TRewind
    <3>1. calls[1].op = "stop" /\ calls' = calls /\ seekId' = seekId /\ at' = "mark"
      BY <2>2, <2>5 DEF TRewind, Running, To
    <3>2. open => seekId < asked
      <4>1. SUFFICES ASSUME open
                     PROVE  seekId < asked
        OBVIOUS
      <4>2. PICK j \in DOMAIN calls : j > 1 /\ Seeks(j) /\ calls[j].id = asked
        BY <2>2, <3>1, <4>1 DEF SeeksInv
      <4>3. QED
        BY <4>2 DEF SeeksInv
    <3>3. open => ~ Moved'
      BY <1>1, <2>1, <3>1, <3>2 DEF Moved, Seeks
    <3>4. QED
      BY <2>1, <3>1, <3>3 DEF MovedInv
  <2>6. CASE TSeekId
    <3>1. calls[1].op = "seek" /\ at = "id" /\ at' = "start" /\ seekId' = calls[1].id /\ UNCHANGED <<frame, crossed>>
      BY <2>2, <2>6 DEF TSeekId, Running
    <3>2. Moved' => Moved
      BY <2>1, <3>1 DEF Moved, Seeks
    <3>3. QED
      BY <2>1, <3>1, <3>2 DEF MovedInv
  <2>7. CASE ~ (TSeek \/ TMove \/ TRewind \/ TSeekId)
    <3>1. UNCHANGED <<frame, crossed, seekId>>
      BY <1>3, <2>7 DEF Commands, TPlay, TPause, TStop, TMark, TSpeedLock, TPublish, TSpeed, transportVars
    <3>2. at' # "move"
      BY <1>3, <2>7 DEF Commands, TPlay, TPause, TStop, TMark, TSpeedLock, TPublish, TSpeed, To, Answered
    <3>3. Moved' => Moved
      <4>1. SUFFICES ASSUME Moved', seekId # asked
                     PROVE  Moved
        BY DEF Moved
      <4>2. at' \in {"mark", "id"} /\ calls'[1].op = "seek" /\ calls'[1].id = asked
        BY <2>1, <3>1, <4>1 DEF Moved, Seeks
      <4>3. calls' = calls
        BY <1>3, <4>2, CommandMoves
      <4>4. at = "mark"
        BY <1>3, <2>2, <2>7, <4>2, <4>3 DEF Commands, TPlay, TPause, TStop, TMark, TSpeedLock, TPublish, TSpeed, To,
                                            Answered, Running, Phases
      <4>5. QED
        BY <2>1, <4>2, <4>3, <4>4 DEF Moved, Seeks
    <3>4. QED
      BY <2>1, <3>1, <3>2, <3>3 DEF MovedInv
  <2>8. QED
    BY <2>3, <2>4, <2>5, <2>6, <2>7
<1>4. CASE Swaps
  <2>1. UNCHANGED <<seekId, calls, at, got, target, open, asked>>
    BY <1>4, Leaves DEF commandVars, pageVars
  <2>2. Moved' <=> Moved
    BY <2>1 DEF Moved, Seeks
  <2>3. CASE SwapPosition
    <3>1. /\ swap.at = "idle" /\ swap'.at = "rate" /\ swap'.frame = frame /\ swap'.rate = rate
          /\ frame' = frame /\ rate' = rate
          /\ crossed' = (crossed \/ Running("seek", "move"))
      BY <2>3 DEF SwapPosition
    <3>2. at = "move" => crossed'
      <4>1. SUFFICES ASSUME at = "move"
                     PROVE  Running("seek", "move")
        BY <3>1
      <4>2. calls # <<>>
        BY <4>1 DEF CallsInv
      <4>3. Head(calls).op = "seek"
        BY <4>1, <4>2, HeadCall DEF Phases
      <4>4. QED
        BY <4>1, <4>2, <4>3 DEF Running
    <3>3. ~ crossed' => ~ crossed
      BY <3>1
    <3>4. QED
      BY <2>1, <2>2, <3>1, <3>2, <3>3 DEF MovedInv
  <2>4. CASE SwapRate
    <3>1. swap.at = "rate" /\ swap' = [swap EXCEPT !.at = "rebuild"] /\ crossed' = crossed
      BY <2>4 DEF SwapRate
    <3>2. swap'.at = "rebuild" /\ swap'.frame = swap.frame /\ swap'.rate = swap.rate
      BY <3>1 DEF FieldsInv
    <3>3. QED
      BY <2>1, <2>2, <3>1, <3>2 DEF MovedInv
  <2>5. CASE SwapRebuild
    <3>1. swap.at = "rebuild" /\ swap' = [swap EXCEPT !.at = "seek"] /\ crossed' = crossed
      BY <2>5 DEF SwapRebuild
    <3>2. swap'.at = "seek" /\ swap'.frame = swap.frame /\ swap'.rate = swap.rate
      BY <3>1 DEF FieldsInv
    <3>3. QED
      BY <2>1, <2>2, <3>1, <3>2 DEF MovedInv
  <2>6. CASE SwapSeek
    <3>1. PICK f \in Nat, r \in Rates : f = swap.frame /\ r = swap.rate
      BY <1>1, <1>2, <2>6 DEF SwapSeek
    <3>2. /\ swap.at = "seek" /\ frame' = (2 * f * rate + r) \div (2 * r) /\ rate' = rate /\ crossed' = crossed
          /\ swap' = [swap EXCEPT !.at = "mark"]
      BY <2>6, <3>1 DEF SwapSeek
    <3>3. swap'.at = "mark"
      BY <3>2 DEF FieldsInv
    <3>4. f >= target * r => frame' >= target * rate
      BY <1>1, <3>2, RateChange
    <3>5. QED
      BY <2>1, <2>2, <3>1, <3>2, <3>3, <3>4 DEF MovedInv
  <2>7. CASE SwapMark
    BY <2>1, <2>2, <2>7 DEF SwapMark, NoSwap, MovedInv
  <2>8. QED
    BY <1>4, <2>3, <2>4, <2>5, <2>6, <2>7 DEF Swaps
<1>5. CASE Blocks
  <2>1. UNCHANGED <<seekId, calls, at, got, rate, swap, target, open, asked, crossed>>
    BY <1>5, Leaves DEF commandVars, swapVars, pageVars
  <2>2. Moved' <=> Moved
    BY <2>1 DEF Moved, Seeks
  <2>3. frame' \in {frame, frame + 1}
    BY <1>5 DEF Blocks, BEpoch, BLook, BMove, BMix
  <2>4. frame >= target * rate => frame' >= target * rate
    BY <1>1, <2>3
  <2>5. QED
    BY <2>1, <2>2, <2>4 DEF MovedInv
<1>6. CASE Asks
  <2>1. UNCHANGED <<seekId, at, got, frame, rate, swap, crossed>>
    BY <1>6, Leaves DEF transportVars, swapVars
  <2>2. PICK c \in Calls, n \in Nat :
          /\ DOMAIN calls = 1..n /\ calls'[n + 1] = c
          /\ \A i \in 1..n : calls'[i] = calls[i]
          /\ n = 0 <=> calls = <<>>
          /\ \/ c.op = "seek" /\ asked' = asked + 1
             \/ c.op # "seek" /\ asked' = asked /\ target' = target /\ (~ open' \/ open' = open)
    BY <1>6, AsksAt
  <2>3. CASE asked' = asked + 1
    <3>1. seekId' # asked'
      BY <1>1, <2>1, <2>3
    <3>2. CASE calls = <<>>
      BY <2>1, <3>1, <3>2 DEF Moved, MovedInv, CallsInv
    <3>3. CASE calls # <<>>
      <4>1. calls'[1] = calls[1] /\ 1 \in DOMAIN calls
        BY <2>2, <3>3
      <4>2. calls[1].op = "seek" => calls[1].id <= asked /\ calls[1].id \in Nat
        <5>1. calls[1] \in Calls
          BY <3>3, HeadCall
        <5>2. QED
          BY <4>1, <5>1 DEF SeeksInv, Seeks, Calls
      <4>3. ~ Moved'
        BY <1>1, <2>3, <3>1, <4>1, <4>2 DEF Moved, Seeks
      <4>4. QED
        BY <2>1, <4>3 DEF MovedInv
    <3>4. QED
      BY <3>2, <3>3
  <2>4. CASE asked' = asked /\ target' = target /\ (~ open' \/ open' = open)
    <3>1. CASE calls = <<>>
      BY <2>1, <2>4, <3>1 DEF Moved, MovedInv, CallsInv
    <3>2. CASE calls # <<>>
      <4>1. calls'[1] = calls[1]
        BY <2>2, <3>2
      <4>2. Moved' => Moved
        BY <2>1, <2>4, <3>2, <4>1 DEF Moved, Seeks
      <4>3. QED
        BY <2>1, <2>4, <4>2 DEF MovedInv
    <3>3. QED
      BY <3>1, <3>2
  <2>5. QED
    BY <2>2, <2>3, <2>4
<1>7. CASE Ticks \/ UNCHANGED aVars
  <2>1. UNCHANGED <<seekId, calls, at, got, frame, rate, swap, target, open, asked, crossed>>
    BY <1>7, Leaves DEF aVars, transportVars, commandVars, swapVars, pageVars
  <2>2. QED
    BY <2>1 DEF MovedInv, Moved, Seeks
<1>8. QED
  BY <1>3, <1>4, <1>5, <1>6, <1>7 DEF ANext

\* What the telemetry samples, and what the page shows, is past the last seek.
LEMMA TickStep ==
  ASSUME CallsInv, FieldsInv, SeeksInv, MovedInv, TickInv, ShownAfterSeek, [ANext]_aVars
  PROVE  TickInv' /\ ShownAfterSeek'
<1>1. seekId \in Nat /\ asked \in Nat /\ seekId <= asked /\ tick.id \in Nat /\ tick.id <= seekId
  BY DEF CallsInv, FieldsInv, TickInv
<1>2. CASE Commands
  <2>1. UNCHANGED <<tick, shown, target, open, asked>> /\ calls # <<>>
    BY <1>2, Leaves, CommandMoves DEF pageVars
  <2>2. /\ Head(calls) = calls[1] /\ 1 \in DOMAIN calls /\ calls[1] \in Calls
        /\ calls[1].op \in {"play", "pause", "stop", "seek", "slow", "normal"}
    BY <2>1, HeadCall
  <2>3. calls[1].op = "seek" => seekId < calls[1].id /\ calls[1].id <= asked /\ calls[1].id \in Nat
    BY <2>2 DEF SeeksInv, Seeks, Calls
  <2>4. seekId' \in Nat /\ seekId <= seekId' /\ (seekId' < asked => seekId < asked)
    <3>1. seekId' = seekId \/ (calls[1].op = "seek" /\ seekId' = calls[1].id)
      BY <1>2, CommandMoves
    <3>2. QED
      BY <1>1, <2>3, <3>1
  <2>5. CASE TSeek
    <3>1. calls[1].op = "seek" /\ seekId' = seekId
      BY <2>2, <2>5 DEF TSeek, Running, transportVars
    <3>2. seekId < asked
      BY <1>1, <2>3, <3>1
    <3>3. QED
      BY <1>1, <2>1, <3>1, <3>2 DEF TickInv, ShownAfterSeek
  <2>6. CASE ~ TSeek
    <3>1. crossed' = crossed
      BY <1>2, <2>6 DEF Commands, TPlay, TPause, TStop, TRewind, TMove, TSeekId, TMark, TSpeedLock, TPublish, TSpeed
    <3>2. QED
      BY <1>1, <2>1, <2>4, <3>1 DEF TickInv, ShownAfterSeek
  <2>7. QED
    BY <2>5, <2>6
<1>3. CASE Swaps
  <2>1. UNCHANGED <<seekId, tick, shown, target, open, asked>>
    BY <1>3, Leaves DEF pageVars
  <2>2. crossed => crossed'
    BY <1>3 DEF Swaps, SwapPosition, SwapRate, SwapRebuild, SwapSeek, SwapMark
  <2>3. QED
    BY <2>1, <2>2 DEF TickInv, ShownAfterSeek
<1>4. CASE Blocks \/ UNCHANGED aVars
  <2>1. UNCHANGED <<seekId, tick, shown, target, open, asked, crossed>>
    BY <1>4, Leaves DEF aVars, transportVars, pageVars
  <2>2. QED
    BY <2>1 DEF TickInv, ShownAfterSeek
<1>5. CASE Ticks
  <2>1. UNCHANGED <<seekId, target, open, asked, crossed>>
    BY <1>5, Leaves DEF transportVars
  <2>2. CASE TickId
    <3>1. tick' = [at |-> "frame", id |-> seekId, rate |-> 0, frame |-> 0, playing |-> FALSE, torn |-> FALSE]
          /\ shown' = shown
      BY <2>2 DEF TickId, NoTick, pageVars
    <3>2. tick'.at = "frame" /\ tick'.id = seekId
      BY <3>1
    <3>3. QED
      BY <1>1, <2>1, <3>1, <3>2 DEF TickInv, ShownAfterSeek
  <2>3. CASE TickFrame
    <3>1. /\ shown' = shown
          /\ tick' = [tick EXCEPT !.at = "playing", !.rate = rate, !.frame = frame, !.torn = swap.at \in {"rebuild", "seek"}]
      BY <2>3 DEF TickFrame, pageVars
    <3>2. /\ tick'.id = tick.id /\ tick'.rate = rate /\ tick'.frame = frame
          /\ tick'.torn <=> swap.at \in {"rebuild", "seek"}
      BY <3>1 DEF FieldsInv
    <3>3. tick.id = asked => Moved
      BY <1>1 DEF Moved
    <3>4. QED
      BY <2>1, <3>1, <3>2, <3>3 DEF TickInv, ShownAfterSeek, MovedInv
  <2>4. CASE TickPlaying
    <3>1. tick' = [tick EXCEPT !.at = "sent", !.playing = playing] /\ shown' = shown /\ tick.at = "playing"
      BY <2>4 DEF TickPlaying, pageVars
    <3>2. tick'.id = tick.id /\ tick'.rate = tick.rate /\ tick'.frame = tick.frame /\ tick'.torn = tick.torn
      BY <3>1 DEF FieldsInv
    <3>3. QED
      BY <2>1, <3>1, <3>2 DEF TickInv, ShownAfterSeek
  <2>5. CASE OnTelemetry
    <3>1. tick'.id = 0 /\ tick'.at = "idle" /\ tick.at = "sent"
      BY <2>5 DEF OnTelemetry, NoTick
    <3>2. CASE shown' = shown
      BY <1>1, <2>1, <3>1, <3>2 DEF TickInv, ShownAfterSeek
    <3>3. CASE shown' # shown
      <4>1. shown' = [frame |-> tick.frame, rate |-> tick.rate, torn |-> tick.torn] /\ tick.id = asked
        BY <2>5, <3>3 DEF OnTelemetry
      <4>2. shown'.frame = tick.frame /\ shown'.rate = tick.rate /\ shown'.torn = tick.torn
        BY <4>1
      <4>3. ~ (seekId < asked)
        BY <1>1, <4>1
      <4>4. QED
        BY <1>1, <2>1, <3>1, <4>1, <4>2, <4>3 DEF TickInv, ShownAfterSeek
    <3>4. QED
      BY <3>2, <3>3
  <2>6. QED
    BY <1>5, <2>2, <2>3, <2>4, <2>5 DEF Ticks
<1>6. CASE Asks
  <2>1. UNCHANGED <<seekId, tick, crossed>>
    BY <1>6, Leaves DEF transportVars
  <2>2. \/ /\ asked' = asked + 1 /\ target' \in Secs /\ shown' = [frame |-> target', rate |-> 1, torn |-> FALSE]
        \/ /\ asked' = asked /\ target' = target /\ (~ open' \/ (open' = open /\ shown' = shown))
    BY <1>6, AsksAt
  <2>3. CASE asked' = asked + 1 /\ target' \in Secs /\ shown' = [frame |-> target', rate |-> 1, torn |-> FALSE]
    <3>1. shown'.frame = target' /\ shown'.rate = 1 /\ target' \in Nat
      BY <2>3, RateTypes
    <3>2. shown'.frame >= target' * shown'.rate
      <4>1. PICK t \in Nat : t = target' /\ shown'.frame = t /\ shown'.rate = 1
        BY <3>1
      <4>2. t >= t * 1
        OBVIOUS
      <4>3. QED
        BY <4>1, <4>2
    <3>3. tick.id # asked'
      BY <1>1, <2>3
    <3>4. QED
      BY <1>1, <2>1, <3>2, <3>3 DEF TickInv, ShownAfterSeek
  <2>4. CASE asked' = asked /\ target' = target /\ (~ open' \/ (open' = open /\ shown' = shown))
    BY <1>1, <2>1, <2>4 DEF TickInv, ShownAfterSeek
  <2>5. QED
    BY <2>2, <2>3, <2>4
<1>7. QED
  BY <1>2, <1>3, <1>4, <1>5, <1>6 DEF ANext

\* What the stretcher is fed follows on from the last block of its epoch.
LEMMA FedStep ==
  ASSUME CallsInv, FieldsInv, FedInv, [ANext]_aVars
  PROVE  FedInv'
<1>1. discontinuity \in Nat /\ frame \in Nat /\ block.epoch \in Nat /\ block.start \in Nat
  BY DEF FieldsInv
<1>2. fed # <<>> => fed[1] \in Nat /\ fed[2] \in Nat /\ fed[1] <= discontinuity
  BY DEF FedInv
<1>3. block.epoch <= discontinuity
  BY DEF FedInv
<1>4. ASSUME UNCHANGED block, fed' \in {fed, <<>>}, discontinuity' = discontinuity + 1
      PROVE  FedInv'
  <2>1. block'.epoch < discontinuity'
    BY <1>1, <1>3, <1>4
  <2>2. fed' # <<>> => fed' = fed /\ fed'[1] < discontinuity'
    BY <1>1, <1>2, <1>4
  <2>3. fed' # <<>> => fed' \in Nat \X Nat
    BY <2>2 DEF FedInv
  <2>4. block'.epoch <= discontinuity' /\ block'.epoch # discontinuity'
    BY <1>1, <1>4, <2>1
  <2>5. fed' # <<>> => fed'[1] <= discontinuity' /\ fed'[1] # discontinuity'
    BY <1>1, <1>2, <1>4, <2>2
  <2>6. QED
    BY <2>3, <2>4, <2>5 DEF FedInv
<1>5. ASSUME UNCHANGED <<block, discontinuity>>, fed' \in {fed, <<>>},
             \/ at' = "mark"
             \/ swap'.at # "idle"
             \/ frame' = frame /\ at # "mark" /\ swap.at = "idle"
      PROVE  FedInv'
  <2>1. CASE fed' = fed
    BY <1>5, <2>1 DEF FedInv
  <2>2. CASE fed' = <<>>
    BY <1>5, <2>2 DEF FedInv
  <2>3. QED
    BY <1>5, <2>1, <2>2
<1>6. CASE Commands
  <2>1. UNCHANGED <<swap, block>> /\ calls # <<>> /\ Head(calls) = calls[1] /\ at \in Phases[calls[1].op]
    BY <1>6, Leaves, CommandMoves, HeadCall DEF swapVars
  <2>2. CASE TMark
    BY <1>4, <2>1, <2>2 DEF TMark
  <2>3. CASE TMove \/ TRewind
    BY <1>5, <2>1, <2>3 DEF TMove, TRewind, To
  <2>4. CASE ~ (TMark \/ TMove \/ TRewind)
    <3>1. UNCHANGED <<frame, discontinuity>> /\ fed' \in {fed, <<>>}
      BY <1>6, <2>4 DEF Commands, TPlay, TPause, TStop, TSeek, TSeekId, TSpeedLock, TPublish, TSpeed, transportVars
    <3>2. at # "mark"
      BY <1>6, <2>1, <2>4 DEF Commands, TPlay, TPause, TStop, TSeek, TSeekId, TSpeedLock, TPublish, TSpeed, Running
    <3>3. QED
      BY <1>5, <2>1, <3>1, <3>2
  <2>5. QED
    BY <2>2, <2>3, <2>4
<1>7. CASE Swaps
  <2>1. UNCHANGED <<block, at>>
    BY <1>7, Leaves DEF commandVars
  <2>2. CASE SwapMark
    BY <1>4, <2>1, <2>2 DEF SwapMark
  <2>3. CASE ~ SwapMark
    <3>1. discontinuity' = discontinuity /\ fed' \in {fed, <<>>}
      BY <1>7, <2>3 DEF Swaps, SwapPosition, SwapRate, SwapRebuild, SwapSeek
    <3>2. swap'.at # "idle"
      <4>1. CASE SwapPosition
        BY <4>1 DEF SwapPosition
      <4>2. CASE SwapRate \/ SwapRebuild \/ SwapSeek
        <5>1. PICK l \in {"rebuild", "seek", "mark"} : swap' = [swap EXCEPT !.at = l]
          BY <4>2 DEF SwapRate, SwapRebuild, SwapSeek
        <5>2. swap'.at = l
          BY <5>1 DEF FieldsInv
        <5>3. QED
          BY <5>2
      <4>3. QED
        BY <1>7, <2>3, <4>1, <4>2 DEF Swaps
    <3>3. QED
      BY <1>5, <2>1, <3>1, <3>2
  <2>4. QED
    BY <2>2, <2>3
<1>8. CASE Blocks
  <2>1. UNCHANGED <<discontinuity, at, swap>>
    BY <1>8, Leaves DEF commandVars, swapVars
  <2>2. CASE BEpoch
    <3>1. /\ block' = [at |-> "look", epoch |-> discontinuity, playing |-> FALSE, start |-> 0]
          /\ block.at = "idle" /\ frame' = frame /\ fed' = fed
      BY <2>2 DEF BEpoch, NoBlock
    <3>2. block'.at = "look" /\ block'.epoch = discontinuity
      BY <3>1
    <3>3. QED
      BY <1>1, <2>1, <3>1, <3>2 DEF FedInv
  <2>3. CASE BLook
    <3>1. block' = [block EXCEPT !.at = "move", !.playing = playing] /\ block.at = "look" /\ frame' = frame /\ fed' = fed
      BY <2>3 DEF BLook
    <3>2. block'.at = "move" /\ block'.epoch = block.epoch
      BY <3>1 DEF FieldsInv
    <3>3. QED
      BY <1>1, <2>1, <3>1, <3>2 DEF FedInv
  <2>4. CASE BMove
    <3>1. /\ block' = [block EXCEPT !.at = "mix", !.start = frame] /\ fed' = fed
          /\ frame' = IF block.playing THEN frame + 1 ELSE frame
      BY <2>4 DEF BMove
    <3>2. block'.at = "mix" /\ block'.epoch = block.epoch /\ block'.start = frame /\ block'.playing = block.playing
      BY <3>1 DEF FieldsInv
    <3>3. QED
      BY <1>1, <2>1, <3>1, <3>2 DEF FedInv
  <2>5. CASE BMix
    <3>1. /\ block' = [at |-> "idle", epoch |-> 0, playing |-> FALSE, start |-> 0] /\ block.at = "mix" /\ frame' = frame
          /\ fed' = <<>> \/ (block.playing /\ fed' = <<block.epoch, block.start + 1>>)
      BY <2>5 DEF BMix, NoBlock
    <3>2. block'.at = "idle" /\ block'.epoch = 0
      BY <3>1
    <3>3. CASE fed' = <<>>
      BY <1>1, <2>1, <3>1, <3>2, <3>3 DEF FedInv
    <3>4. CASE block.playing /\ fed' = <<block.epoch, block.start + 1>>
      <4>1. fed' \in Nat \X Nat /\ fed'[1] = block.epoch /\ fed'[2] = block.start + 1
        BY <1>1, <3>4
      <4>2. block.epoch = discontinuity /\ at # "mark" /\ swap.at = "idle" => block.start + 1 = frame
        BY <3>1, <3>4 DEF FedInv
      <4>3. QED
        BY <1>1, <1>3, <2>1, <3>1, <3>2, <4>1, <4>2 DEF FedInv
    <3>5. QED
      BY <3>1, <3>3, <3>4
  <2>6. QED
    BY <1>8, <2>2, <2>3, <2>4, <2>5 DEF Blocks
<1>9. CASE Ticks \/ Asks \/ UNCHANGED aVars
  <2>1. UNCHANGED <<frame, discontinuity, at, swap, block, fed>>
    BY <1>9, Leaves DEF aVars, transportVars, commandVars, swapVars
  <2>2. QED
    BY <2>1 DEF FedInv
<1>10. QED
  BY <1>6, <1>7, <1>8, <1>9 DEF ANext

\* A change of speed that goes on, and one that is over.
LEMMA SpeedingAt ==
  ASSUME CallsInv, calls # <<>>
  PROVE  /\ Speeding <=> calls[1].op \in {"slow", "normal"} /\ at # "start"
         /\ locked <=> Speeding
BY DEF CallsInv, Speeding

\* The track's stretcher is of the output's rate, and there just when the speed
\* isn't 1.
LEMMA StretchStep ==
  ASSUME CallsInv, FieldsInv, StretchInv, [ANext]_aVars
  PROVE  StretchInv'
<1>1. /\ rate \in Rates /\ tracked \in BOOLEAN /\ slow \in BOOLEAN
      /\ \A r \in Rates : r # 0
  BY RateTypes DEF FieldsInv
<1>2. /\ stretch \in Rates \union {0}
      /\ swap.at # "rebuild" => stretch \in {0, rate}
      /\ slow /\ tracked => stretch # 0
      /\ stretch # 0 => tracked
  BY DEF StretchInv
<1>3. ASSUME UNCHANGED <<stretch, rate, slow, tracked, swap, got, at>>, Speeding' <=> Speeding,
             Speeding => calls'[1] = calls[1]
      PROVE  StretchInv'
  BY <1>3 DEF StretchInv
\* Neither was one under way, nor is one now.
<1>4. ASSUME UNCHANGED <<stretch, rate, slow, tracked, swap>>, ~ Speeding, ~ Speeding'
      PROVE  StretchInv'
  BY <1>4 DEF StretchInv
<1>5. CASE Commands
  <2>1. UNCHANGED <<rate, swap, tracked>> /\ calls # <<>>
    BY <1>5, Leaves, CommandMoves DEF swapVars
  <2>2. /\ Head(calls) = calls[1]
        /\ calls[1].op \in {"play", "pause", "stop", "seek", "slow", "normal"}
        /\ at \in Phases[calls[1].op]
    BY <2>1, HeadCall
  <2>3. Speeding <=> calls[1].op \in {"slow", "normal"} /\ at # "start"
    BY <2>1, SpeedingAt
  <2>4. calls' = calls => (Speeding' <=> calls[1].op \in {"slow", "normal"} /\ at' # "start")
    BY <2>1 DEF Speeding
  <2>5. at' = "start" => ~ Speeding'
    BY DEF Speeding
  <2>6. CASE calls[1].op \notin {"slow", "normal"}
    <3>1. UNCHANGED <<slow, stretch>>
      BY <1>5, <2>2, <2>6 DEF Commands, TPlay, TPause, TStop, TRewind, TSeek, TMove, TSeekId, TMark, TSpeedLock,
                              TPublish, TSpeed, Phases, transportVars
    <3>2. ~ Speeding /\ ~ Speeding'
      BY <1>5, <2>3, <2>4, <2>5, <2>6, CommandMoves
    <3>3. QED
      BY <1>4, <2>1, <3>1, <3>2
  <2>7. CASE calls[1].op \in {"slow", "normal"} /\ at = "start"
    <3>1. TSpeedLock
      BY <1>5, <2>2, <2>7 DEF Commands, TPlay, TPause, TStop, TRewind, TSeek, TMove, TSeekId, TMark, TPublish, TSpeed,
                              Running
    <3>2. /\ calls' = calls /\ got' = rate /\ UNCHANGED <<slow, stretch>>
          /\ at' = IF calls[1].op = "slow" THEN "publish" ELSE "speed"
      BY <2>2, <3>1 DEF TSpeedLock, To, transportVars
    <3>3. ~ Speeding
      BY <2>3, <2>7
    <3>4. stretch # 0 => slow
      BY <3>3 DEF StretchInv
    <3>5. QED
      BY <1>1, <1>2, <2>1, <2>7, <3>2, <3>4 DEF StretchInv
  <2>8. CASE calls[1].op = "slow" /\ at = "publish"
    <3>1. TPublish
      BY <1>5, <2>2, <2>8 DEF Commands, TPlay, TPause, TStop, TRewind, TSeek, TMove, TSeekId, TMark, TSpeedLock, TSpeed,
                              Running
    <3>2. /\ calls' = calls /\ at' = "speed" /\ slow' = slow
          /\ stretch' = IF stretch = 0 /\ tracked THEN got ELSE stretch
      BY <2>2, <2>8, <3>1 DEF TPublish, To, transportVars
    <3>3. Speeding /\ Speeding'
      BY <2>3, <2>4, <2>8, <3>2
    <3>4. got \in Rates /\ (swap.at # "rebuild" => got = rate)
      BY <2>8, <3>3 DEF StretchInv
    <3>5. stretch' \in Rates \union {0} /\ (swap.at # "rebuild" => stretch' \in {0, rate}) /\ (tracked => stretch' # 0)
      BY <1>1, <1>2, <3>2, <3>4
    <3>6. stretch' # 0 => tracked
      BY <1>2, <3>2
    <3>7. QED
      BY <2>1, <2>8, <3>2, <3>3, <3>5, <3>6 DEF StretchInv
  <2>9. CASE calls[1].op = "slow" /\ at = "speed"
    <3>1. TSpeed
      BY <1>5, <2>2, <2>9 DEF Commands, TPlay, TPause, TStop, TRewind, TSeek, TMove, TSeekId, TMark, TSpeedLock,
                              TPublish, Running
    <3>2. calls' = calls /\ at' = "mark" /\ slow' = TRUE /\ stretch' = stretch
      BY <2>2, <2>9, <3>1 DEF TSpeed, To
    <3>3. tracked => stretch # 0
      BY <2>3, <2>9 DEF StretchInv
    <3>4. QED
      BY <1>2, <2>1, <2>9, <3>2, <3>3 DEF StretchInv
  <2>10. CASE calls[1].op = "slow" /\ at = "mark"
    <3>1. TMark
      BY <1>5, <2>2, <2>10 DEF Commands, TPlay, TPause, TStop, TRewind, TSeek, TMove, TSeekId, TSpeed, TSpeedLock,
                               TPublish, Running
    <3>2. at' = "start" /\ UNCHANGED <<slow, stretch>>
      BY <2>2, <2>10, <3>1 DEF TMark, Answered
    <3>3. stretch # 0 => slow
      BY <2>10 DEF StretchInv
    <3>4. ~ Speeding'
      BY <2>5, <3>2
    <3>5. QED
      BY <1>2, <2>1, <3>2, <3>3, <3>4 DEF StretchInv
  <2>11. CASE calls[1].op = "normal" /\ at = "speed"
    <3>1. TSpeed
      BY <1>5, <2>2, <2>11 DEF Commands, TPlay, TPause, TStop, TRewind, TSeek, TMove, TSeekId, TMark, TSpeedLock,
                              TPublish, Running
    <3>2. calls' = calls /\ at' = "mark" /\ slow' = FALSE /\ stretch' = stretch
      BY <2>2, <2>11, <3>1 DEF TSpeed, To
    <3>3. Speeding'
      BY <2>4, <2>11, <3>2
    <3>4. QED
      BY <1>2, <2>1, <2>11, <3>2, <3>3 DEF StretchInv
  <2>12. CASE calls[1].op = "normal" /\ at = "mark"
    <3>1. TMark
      BY <1>5, <2>2, <2>12 DEF Commands, TPlay, TPause, TStop, TRewind, TSeek, TMove, TSeekId, TSpeed, TSpeedLock,
                               TPublish, Running
    <3>2. calls' = calls /\ at' = "publish" /\ UNCHANGED <<slow, stretch>>
      BY <2>2, <2>12, <3>1 DEF TMark, To
    <3>3. Speeding' /\ ~ slow
      BY <2>3, <2>4, <2>12, <3>2 DEF StretchInv
    <3>4. QED
      BY <1>2, <2>1, <2>12, <3>2, <3>3 DEF StretchInv
  <2>13. CASE calls[1].op = "normal" /\ at = "publish"
    <3>1. TPublish
      BY <1>5, <2>2, <2>13 DEF Commands, TPlay, TPause, TStop, TRewind, TSeek, TMove, TSeekId, TMark, TSpeedLock, TSpeed,
                              Running
    <3>2. at' = "start" /\ slow' = slow /\ stretch' = 0
      BY <2>2, <2>13, <3>1 DEF TPublish, Answered, transportVars
    <3>3. ~ slow
      BY <2>3, <2>13 DEF StretchInv
    <3>4. ~ Speeding'
      BY <2>5, <3>2
    <3>5. QED
      BY <3>2, <3>3, <3>4 DEF StretchInv
  <2>14. at \in {"start", "publish", "speed", "mark"} \/ calls[1].op \notin {"slow", "normal"}
    BY <2>2 DEF Phases
  <2>15. QED
    BY <2>2, <2>6, <2>7, <2>8, <2>9, <2>10, <2>11, <2>12, <2>13, <2>14
<1>6. CASE Swaps
  <2>1. UNCHANGED <<slow, calls, at, got, tracked>> /\ (Speeding' <=> Speeding)
    BY <1>6, Leaves DEF commandVars, Speeding
  <2>2. CASE SwapPosition
    <3>1. swap.at = "idle" /\ swap'.at = "rate" /\ UNCHANGED <<rate, stretch>>
      BY <2>2 DEF SwapPosition
    <3>2. QED
      BY <2>1, <3>1 DEF StretchInv
  <2>3. CASE SwapRate
    <3>1. swap' = [swap EXCEPT !.at = "rebuild"] /\ stretch' = stretch
      BY <2>3 DEF SwapRate
    <3>2. swap'.at = "rebuild"
      BY <3>1 DEF FieldsInv
    <3>3. QED
      BY <2>1, <3>1, <3>2 DEF StretchInv
  <2>4. CASE SwapRebuild
    <3>1. ~ locked /\ stretch' = (IF slow /\ tracked THEN rate ELSE 0) /\ rate' = rate
      BY <2>4 DEF SwapRebuild
    <3>2. ~ Speeding
      BY <3>1 DEF CallsInv
    <3>3. QED
      BY <1>1, <2>1, <3>1, <3>2 DEF StretchInv
  <2>5. CASE SwapSeek \/ SwapMark
    <3>1. swap.at # "rebuild" /\ UNCHANGED <<rate, stretch>>
      BY <2>5 DEF SwapSeek, SwapMark
    <3>2. QED
      BY <2>1, <3>1 DEF StretchInv
  <2>6. QED
    BY <1>6, <2>2, <2>3, <2>4, <2>5 DEF Swaps
<1>7. CASE Blocks \/ Ticks \/ UNCHANGED aVars
  <2>1. UNCHANGED <<stretch, rate, slow, tracked, swap, got, at, calls>>
    BY <1>7, Leaves DEF aVars, transportVars, commandVars, swapVars
  <2>2. QED
    BY <1>3, <2>1 DEF Speeding
<1>8. CASE Asks
  <2>1. UNCHANGED <<stretch, rate, slow, tracked, swap, got, at>>
    BY <1>8, Leaves DEF transportVars, swapVars
  <2>2. PICK n \in Nat : /\ \A i \in 1..n : calls'[i] = calls[i]
                         /\ n = 0 <=> calls = <<>>
                         /\ calls' # <<>>
    BY <1>8, AsksAt
  <2>3. CASE calls = <<>>
    <3>1. at = "start" /\ ~ Speeding /\ ~ Speeding'
      BY <2>1, <2>3 DEF CallsInv, Speeding
    <3>2. QED
      BY <1>4, <2>1, <3>1
  <2>4. CASE calls # <<>>
    <3>1. calls'[1] = calls[1]
      BY <2>2, <2>4
    <3>2. Speeding' <=> Speeding
      BY <2>1, <2>2, <2>4, <3>1 DEF Speeding
    <3>3. QED
      BY <1>3, <2>1, <3>1, <3>2
  <2>5. QED
    BY <2>3, <2>4
<1>9. QED
  BY <1>5, <1>6, <1>7, <1>8 DEF ANext

\* What the commands, the callback, the telemetry and a change of device leave
\* of the transport, at each of their steps.
THEOREM TransportInvariant == ASpec => []AInv
<1>1. AInit => AInv
  <2> SUFFICES ASSUME AInit
               PROVE  AInv
    OBVIOUS
  <2>1. calls = <<>> /\ calls \in Seq(Calls) /\ DOMAIN calls = {}
    BY DEF AInit
  <2>2. CallsInv /\ SeeksInv
    <3>1. made \in 0 .. MaxCalls /\ asked \in 0 .. made /\ seekId \in 0 .. asked
      BY TransportAssumption DEF AInit
    <3>2. CallsInv
      BY <2>1, <3>1 DEF AInit, CallsInv, Speeding
    <3>3. SeeksInv
      BY <2>1 DEF AInit, SeeksInv
    <3>4. QED
      BY <3>2, <3>3
  <2>3. FieldsInv
    <3>1. /\ swap = [at |-> "idle", frame |-> 0, rate |-> 0]
          /\ block = [at |-> "idle", epoch |-> 0, playing |-> FALSE, start |-> 0]
          /\ tick = [at |-> "idle", id |-> 0, rate |-> 0, frame |-> 0, playing |-> FALSE, torn |-> FALSE]
      BY DEF AInit, NoSwap, NoBlock, NoTick
    <3>2. swaps \in 0 .. MaxSwaps
      BY TransportAssumption DEF AInit
    <3>3. {playing, slow, wanted, open, crossed, tracked, subscribed} \subseteq BOOLEAN
      BY DEF AInit
    <3>4. QED
      BY <3>1, <3>2, <3>3 DEF AInit, FieldsInv
  <2>4. MovedInv /\ TickInv /\ ShownAfterSeek /\ FedInv
    BY DEF AInit, MovedInv, TickInv, ShownAfterSeek, FedInv, NoSwap, NoBlock, NoTick
  <2>5. StretchInv
    BY <2>1, RateTypes DEF AInit, StretchInv, Speeding, NoSwap
  <2>6. QED
    BY <2>2, <2>3, <2>4, <2>5 DEF AInv
<1>2. AInv /\ [ANext]_aVars => AInv'
  BY CallsStep, SeeksStep, FieldsStep, MovedStep, TickStep, FedStep, StretchStep DEF AInv
<1>3. QED
  BY <1>1, <1>2, PTL DEF ASpec

\* Every field of the transport has its type, and no seek has landed that the
\* page hasn't asked for.
THEOREM TransportTypes == ASpec => []ATypeOK
<1>1. AInv => ATypeOK
  <2> SUFFICES ASSUME AInv
               PROVE  ATypeOK
    OBVIOUS
  <2>1. /\ {seekId, asked} \subseteq 0 .. MaxCalls /\ seekId <= asked
    BY TransportAssumption DEF AInv, CallsInv
  <2>2. locked \in BOOLEAN /\ (locked => calls # <<>>)
    BY DEF AInv, CallsInv, Speeding
  <2>3. QED
    BY <2>1, <2>2 DEF AInv, FieldsInv, StretchInv, ATypeOK
<1>2. QED
  BY <1>1, TransportInvariant, PTL

\* While the song is open, the page shows no position before its last seek,
\* whatever telemetry is late.
THEOREM SeekIsShown == ASpec => []ShownAfterSeek
<1>1. AInv => ShownAfterSeek
  BY DEF AInv
<1>2. QED
  BY <1>1, TransportInvariant, PTL

\* No jump of the playhead escapes the stretcher, and a track has one just when
\* the speed isn't 1, of the rate of the output.
THEOREM StretcherFollows == ASpec => []StretchFollows
<1>1. AInv => StretchFollows
  <2> SUFFICES ASSUME AInv
               PROVE  StretchFollows
    OBVIOUS
  <2>1. /\ block.at = "idle" /\ at # "mark" /\ swap.at = "idle"
        /\ fed # <<>> /\ fed[1] = discontinuity
        => fed[2] = frame
    BY DEF AInv, FedInv
  <2>2. slow /\ tracked => stretch # 0
    BY DEF AInv, StretchInv
  <2>3. calls = <<>> /\ swap.at = "idle" => stretch = (IF slow /\ tracked THEN rate ELSE 0)
    BY <2>2 DEF AInv, StretchInv, Speeding
  <2>4. QED
    BY <2>1, <2>2, <2>3 DEF StretchFollows
<1>2. QED
  BY <1>1, TransportInvariant, PTL

\* The page's playback and the engine side by side are each what they are
\* alone; so both have their types, and page and output agree once quiet.
THEOREM PlaybackIsSafe ==
  ASSUME Hasty = FALSE
  PROVE  MCSpec => []PlaybackSafe
<1>1. MCSpec => PSpec
  <2>1. MCInit => PInit
    BY DEF MCInit
  <2>2. [MCNext]_<<vars, aVars, part>> => [PNext]_vars
    BY DEF MCNext
  <2>3. QED
    BY <2>1, <2>2, PTL DEF MCSpec, PSpec
<1>2. MCSpec => ASpec
  <2>1. MCInit => AInit
    BY DEF MCInit
  <2>2. [MCNext]_<<vars, aVars, part>> => [ANext]_aVars
    BY DEF MCNext
  <2>3. QED
    BY <2>1, <2>2, PTL DEF MCSpec, ASpec
<1>3. PTypeOK /\ AgreesOnceQuiet /\ ATypeOK => PlaybackSafe
  BY DEF PlaybackSafe
<1>4. QED
  BY <1>1, <1>2, <1>3, PageAgrees, TransportTypes, PTL
=============================================================================
