------------------------- MODULE SessionRelay_proof -------------------------
(***************************************************************************)
(* For every set of sessions, ids and sockets, every TTL and every limit:   *)
(* the members of a session are served and never swept from under them, a   *)
(* remote that reads on ends up with the truth, a host that was replaced    *)
(* hears nothing after it, and a session is kept as long as it should be.   *)
(***************************************************************************)
EXTENDS SessionRelay, SequenceLemmas, FiniteSetTheorems

-----------------------------------------------------------------------------
\* Frames and outboxes.

\* Which frames say something of a session's host and of its state.
LEMMA FrameFields ==
  ASSUME NEW f \in Frames
  PROVE  /\ "host" \in DOMAIN f <=> f.type \in {"hello", "host"}
         /\ "state" \in DOMAIN f <=> f.type \in {"hello", "state"}
         /\ "host" \in DOMAIN f => f.host \in BOOLEAN
         /\ "state" \in DOMAIN f => f.state \in States \cup {NoState}
<1>1. CASE f \in {Hello(h, st) : h \in BOOLEAN, st \in States \cup {NoState}}
  BY <1>1 DEF Hello
<1>2. CASE f \in {HostFrame(h) : h \in BOOLEAN}
  BY <1>2 DEF HostFrame
<1>3. CASE f \in {StateFrame(st) : st \in States}
  BY <1>3 DEF StateFrame
<1>4. CASE f \in {Simple(t) : t \in {"reply", "command", "replaced", "close"}}
  BY <1>4 DEF Simple
<1>5. QED
  BY <1>1, <1>2, <1>3, <1>4 DEF Frames

\* The frames sessions.py builds are frames, each with its type.
LEMMA FramesBuilt ==
  /\ \A h \in BOOLEAN, st \in States \cup {NoState} :
       Hello(h, st) \in Frames /\ Hello(h, st).host = h /\ Hello(h, st).state = st
         /\ Hello(h, st).type = "hello"
  /\ \A h \in BOOLEAN :
       HostFrame(h) \in Frames /\ HostFrame(h).host = h /\ HostFrame(h).type = "host"
  /\ \A st \in States :
       StateFrame(st) \in Frames /\ StateFrame(st).state = st /\ StateFrame(st).type = "state"
  /\ \A t \in {"reply", "command", "replaced", "close"} :
       Simple(t) \in Frames /\ Simple(t).type = t
<1>1. \A h \in BOOLEAN, st \in States \cup {NoState} :
        Hello(h, st) \in Frames /\ Hello(h, st).host = h /\ Hello(h, st).state = st
          /\ Hello(h, st).type = "hello"
  BY DEF Frames, Hello
<1>2. \A h \in BOOLEAN :
        HostFrame(h) \in Frames /\ HostFrame(h).host = h /\ HostFrame(h).type = "host"
  BY DEF Frames, HostFrame
<1>3. \A st \in States :
        StateFrame(st) \in Frames /\ StateFrame(st).state = st /\ StateFrame(st).type = "state"
  BY DEF Frames, StateFrame
<1>4. \A t \in {"reply", "command", "replaced", "close"} :
        Simple(t) \in Frames /\ Simple(t).type = t
  BY DEF Frames, Simple
<1>5. QED
  BY <1>1, <1>2, <1>3, <1>4

\* A client is told of what the frame says, and of nothing else.
LEMMA ToldProperties ==
  ASSUME NEW v \in Views, NEW f \in Frames
  PROVE  /\ Told(v, f) \in Views
         /\ Told(v, f).host = IF "host" \in DOMAIN f THEN f.host ELSE v.host
         /\ Told(v, f).state = IF "state" \in DOMAIN f THEN f.state ELSE v.state
<1>1. CASE f.type = "hello"
  BY <1>1, FrameFields DEF Told, Views
<1>2. CASE f.type = "host"
  BY <1>2, FrameFields DEF Told, Views
<1>3. CASE f.type = "state"
  BY <1>3, FrameFields DEF Told, Views
<1>4. CASE f.type \notin {"hello", "host", "state"}
  BY <1>4, FrameFields DEF Told, Views
<1>5. QED
  BY <1>1, <1>2, <1>3, <1>4

\* Queueing a frame for some clients appends it to their outboxes.
LEMMA SendToType ==
  ASSUME NEW box \in [Sockets -> Seq(Frames)], NEW cs, NEW f \in Frames
  PROVE  SendTo(box, cs, f) \in [Sockets -> Seq(Frames)]
BY AppendElements DEF SendTo

-----------------------------------------------------------------------------
\* What a client will be told, at the latest, of `field`.

Silent(box, field) == \A i \in DOMAIN box : field \notin DOMAIN box[i]

Shows(box, v, field, val) ==
  \/ Silent(box, field) /\ v[field] = val
  \/ \E i \in DOMAIN box :
       /\ field \in DOMAIN box[i] /\ box[i][field] = val
       /\ \A j \in DOMAIN box : field \in DOMAIN box[j] => j <= i

\* A frame about something else changes nothing of it...
LEMMA ShowsStill ==
  ASSUME NEW box \in Seq(Frames), NEW v, NEW field, NEW val, NEW f \in Frames,
         Shows(box, v, field, val), field \notin DOMAIN f
  PROVE  Shows(Append(box, f), v, field, val)
<1> DEFINE r == Append(box, f)
<1>1. /\ DOMAIN box = 1..Len(box) /\ Len(box) \in Nat
      /\ DOMAIN r = 1..(Len(box) + 1)
      /\ \A i \in 1..Len(box) : r[i] = box[i]
      /\ r[Len(box) + 1] = f
  BY AppendProperties, LenProperties
<1> HIDE DEF r
<1>2. CASE Silent(box, field) /\ v[field] = val
  <2>1. ASSUME NEW i \in DOMAIN r
        PROVE  field \notin DOMAIN r[i]
    <3>1. CASE i = Len(box) + 1
      BY <1>1, <3>1
    <3>2. CASE i # Len(box) + 1
      BY <1>1, <1>2, <3>2 DEF Silent
    <3>3. QED
      BY <3>1, <3>2
  <2>2. QED
    BY <1>2, <2>1 DEF Shows, Silent, r
<1>3. ASSUME NEW i \in DOMAIN box, field \in DOMAIN box[i], box[i][field] = val,
             \A j \in DOMAIN box : field \in DOMAIN box[j] => j <= i
      PROVE  Shows(r, v, field, val)
  <2>1. i \in DOMAIN r /\ r[i] = box[i]
    BY <1>1
  <2>2. ASSUME NEW j \in DOMAIN r, field \in DOMAIN r[j]
        PROVE  j <= i
    <3>1. j # Len(box) + 1
      BY <1>1, <2>2
    <3>2. QED
      BY <1>1, <1>3, <2>2, <3>1
  <2>3. QED
    BY <1>3, <2>1, <2>2 DEF Shows
<1>4. QED
  BY <1>2, <1>3 DEF Shows, r

\* ... one that says it is the latest...
LEMMA ShowsNew ==
  ASSUME NEW box \in Seq(Frames), NEW v, NEW field, NEW f \in Frames, field \in DOMAIN f
  PROVE  Shows(Append(box, f), v, field, f[field])
<1> DEFINE r == Append(box, f)
<1>1. /\ Len(box) \in Nat
      /\ DOMAIN r = 1..(Len(box) + 1)
      /\ r[Len(box) + 1] = f
  BY AppendProperties, LenProperties
<1> HIDE DEF r
<1>2. Len(box) + 1 \in DOMAIN r /\ \A j \in DOMAIN r : j <= Len(box) + 1
  BY <1>1
<1>3. QED
  BY <1>1, <1>2 DEF Shows, r

\* ... and a frame that is sent moves what it says into the client's view.
LEMMA ShowsWritten ==
  ASSUME NEW box \in Seq(Frames), box # <<>>, NEW v \in Views, NEW field \in {"host", "state"},
         NEW val, Shows(box, v, field, val)
  PROVE  Shows(Tail(box), Told(v, Head(box)), field, val)
<1> DEFINE r == Tail(box)
           w == Told(v, Head(box))
<1>1. /\ Len(box) \in Nat /\ Len(box) > 0
      /\ DOMAIN box = 1..Len(box)
      /\ r \in Seq(Frames)
      /\ DOMAIN r = 1..(Len(box) - 1)
      /\ \A i \in 1..(Len(box) - 1) : r[i] = box[i + 1]
      /\ Head(box) = box[1] /\ Head(box) \in Frames
  BY HeadTailProperties, LenProperties, EmptySeq
<1>2. w[field] = IF field \in DOMAIN box[1] THEN box[1][field] ELSE v[field]
  BY <1>1, ToldProperties
<1> HIDE DEF r, w
<1>3. CASE Silent(box, field) /\ v[field] = val
  <2>1. Silent(r, field)
    BY <1>1, <1>3 DEF Silent
  <2>2. w[field] = val
    BY <1>1, <1>2, <1>3 DEF Silent
  <2>3. QED
    BY <2>1, <2>2 DEF Shows, r, w
<1>4. ASSUME NEW i \in DOMAIN box, field \in DOMAIN box[i], box[i][field] = val,
             \A j \in DOMAIN box : field \in DOMAIN box[j] => j <= i
      PROVE  Shows(r, w, field, val)
  <2>1. CASE i = 1
    <3>1. ASSUME NEW j \in DOMAIN r
          PROVE  field \notin DOMAIN r[j]
      <4>1. j + 1 \in DOMAIN box /\ box[j + 1] = r[j] /\ ~(j + 1 <= i)
        BY <1>1, <2>1
      <4>2. QED
        BY <1>4, <4>1
    <3>2. QED
      BY <1>2, <1>4, <2>1, <3>1 DEF Shows, Silent
  <2>2. CASE i # 1
    <3>1. i - 1 \in DOMAIN r /\ r[i - 1] = box[i]
      BY <1>1, <2>2
    <3>2. ASSUME NEW j \in DOMAIN r, field \in DOMAIN r[j]
          PROVE  j <= i - 1
      <4>1. j + 1 \in DOMAIN box /\ box[j + 1] = r[j]
        BY <1>1
      <4>2. j + 1 <= i
        BY <1>4, <3>2, <4>1
      <4>3. QED
        BY <1>1, <4>2
    <3>3. QED
      BY <1>4, <3>1, <3>2 DEF Shows
  <2>3. QED
    BY <2>1, <2>2
<1>5. QED
  BY <1>3, <1>4 DEF Shows, r, w

\* What it shows is what Pending says it is.
LEMMA ShowsPending ==
  ASSUME NEW c \in Sockets, outbox[c] \in Seq(Frames), NEW field, NEW val,
         Shows(outbox[c], view[c], field, val)
  PROVE  Pending(c, field) = val
<1>1. CASE Silent(outbox[c], field) /\ view[c][field] = val
  BY <1>1 DEF Silent, Pending, About
<1>2. ASSUME NEW i \in DOMAIN outbox[c], field \in DOMAIN outbox[c][i],
             outbox[c][i][field] = val,
             \A j \in DOMAIN outbox[c] : field \in DOMAIN outbox[c][j] => j <= i
      PROVE  Pending(c, field) = val
  <2> DEFINE last == CHOOSE k \in About(c, field) : \A j \in About(c, field) : j <= k
  <2>1. i \in About(c, field) /\ \A j \in About(c, field) : j <= i
    BY <1>2 DEF About
  <2>2. last \in About(c, field) /\ \A j \in About(c, field) : j <= last
    BY <2>1
  <2>3. i \in Nat /\ last \in Nat
    BY <2>1, <2>2, LenProperties DEF About
  <2>4. last = i
    BY <2>1, <2>2, <2>3
  <2>5. QED
    BY <1>2, <2>1, <2>4 DEF Pending
<1>3. QED
  BY <1>1, <1>2 DEF Shows

-----------------------------------------------------------------------------
\* The inductive invariant.

\* A session is in the registry from its creation until it has been idle; one
\* with clients isn't idle, and theirs are the handlers that hold it.
SessionsInv ==
  /\ \A i \in Ids : registry[i] \in made \cup {NoSession}
  /\ \A s \in Sessions : HasClients(s) => idleSince[s] = Active
  /\ \A c \in Sockets : handler[c] = "in" => sess[c] \in made
  /\ MembersKept

\* Nothing is queued for a client before it joins.
FreshInv ==
  \A c \in Sockets :
    handler[c] \in {"new", "accepted"} => outbox[c] = <<>> /\ writer[c] = "none"

\* Every remote is about to be told the truth.
TruthInv ==
  \A s \in Sessions : \A c \in remotes[s] : writer[c] = "run" =>
    /\ Shows(outbox[c], view[c], "state", state[s])
    /\ Shows(outbox[c], view[c], "host", host[s] # NoSocket)

\* A close is queued for a host that was replaced, last, and for no other.
Unclosed(box)   == \A i \in DOMAIN box : box[i].type # "close"
ClosesLast(box) == box # <<>> /\ \A i \in DOMAIN box : box[i].type = "close" <=> i = Len(box)

FinalInv ==
  \A c \in HostSockets : handler[c] = "in" =>
    IF host[sess[c]] = c THEN Unclosed(outbox[c])
    ELSE writer[c] = "run" => ClosesLast(outbox[c])

RelayInv == RTypeOK /\ SessionsInv /\ FreshInv /\ TruthInv /\ FinalInv

\* A session without clients was last busy, and last served, no later than it
\* became idle, and not before now.
IdleInv ==
  /\ busyAt \in [Sessions -> Nat] /\ servedAt \in [Sessions -> Nat]
  /\ \A s \in made :
       /\ ~HasClients(s) => idleSince[s] <= now /\ busyAt[s] <= idleSince[s]
       /\ ~Served(s) => idleSince[s] <= servedAt[s]
       /\ busyAt[s] <= now

-----------------------------------------------------------------------------
\* The registry.

Taken(reg) == {i \in Ids : reg[i] # NoSession}

\* A sweep drops idle sessions and moves none.
LEMMA SweptProperties ==
  ASSUME RTypeOK
  PROVE  /\ Swept \in [Ids -> Sessions \cup {NoSession}]
         /\ \A i \in Ids : Swept[i] \in {registry[i], NoSession}
         /\ \A i \in Ids : registry[i] # NoSession /\ idleSince[registry[i]] = Active
              => Swept[i] = registry[i]
         /\ IsFiniteSet(Taken(Swept))
         /\ Cardinality(Taken(Swept)) \in Nat
         /\ Cardinality(Taken(Swept)) <= MaxSessions
<1> USE RelayAssumption DEF RTypeOK
<1>1. Swept \in [Ids -> Sessions \cup {NoSession}]
  BY DEF Swept
<1>2. \A i \in Ids : Swept[i] \in {registry[i], NoSession}
  BY DEF Swept
<1>3. ASSUME NEW i \in Ids, registry[i] # NoSession, idleSince[registry[i]] = Active
      PROVE  Swept[i] = registry[i]
  <2>1. ~(Active + TTL <= now)
    BY DEF Active
  <2>2. QED
    BY <1>3, <2>1 DEF Swept
<1>4. /\ IsFiniteSet(Taken(registry)) /\ IsFiniteSet(Taken(Swept))
      /\ Cardinality(Taken(Swept)) <= Cardinality(Taken(registry))
  <2>1. IsFiniteSet(Taken(registry))
    BY FS_Subset DEF Taken
  <2>2. Taken(Swept) \subseteq Taken(registry)
    BY <1>2 DEF Taken
  <2>3. QED
    BY <2>1, <2>2, FS_Subset
<1>5. /\ Cardinality(Taken(Swept)) \in Nat /\ Cardinality(Taken(registry)) \in Nat
      /\ Cardinality(Taken(registry)) <= MaxSessions
  BY <1>4, FS_CardinalityType DEF Taken
<1>6. QED
  BY <1>1, <1>2, <1>3, <1>4, <1>5

\* create() keeps within MAX_SESSIONS.
LEMMA CreateFits ==
  ASSUME RTypeOK, NEW s \in Sessions, NEW i \in Ids, Create(s, i)
  PROVE  /\ registry' \in [Ids -> Sessions \cup {NoSession}]
         /\ Cardinality(Taken(registry')) <= MaxSessions
<1>1. /\ Swept \in [Ids -> Sessions \cup {NoSession}] /\ IsFiniteSet(Taken(Swept))
      /\ Cardinality(Taken(Swept)) \in Nat
  BY SweptProperties
<1>2. registry' = [Swept EXCEPT ![i] = s] /\ Cardinality(Taken(Swept)) < MaxSessions
  BY DEF Create, Taken
<1>3. Taken(registry') = Taken(Swept) \cup {i}
  BY <1>1, <1>2, RelayAssumption DEF Taken
<1>4. PICK T : T = Taken(Swept)
  OBVIOUS
<1>5. IsFiniteSet(T) /\ Cardinality(T) \in Nat /\ Cardinality(T) < MaxSessions
  BY <1>1, <1>2, <1>4
<1>6. IsFiniteSet(T \cup {i})
      /\ Cardinality(T \cup {i}) = IF i \in T THEN Cardinality(T) ELSE Cardinality(T) + 1
  BY <1>5, FS_AddElement
<1>7. Cardinality(T \cup {i}) <= MaxSessions
  BY <1>5, <1>6, RelayAssumption
<1>8. registry' \in [Ids -> Sessions \cup {NoSession}]
  BY <1>1, <1>2
<1>9. QED
  BY <1>3, <1>4, <1>7, <1>8

-----------------------------------------------------------------------------
\* Every step keeps the types.
LEMMA RTypeStep ==
  ASSUME RTypeOK, SessionsInv, Next
  PROVE  RTypeOK'
<1> USE RelayAssumption DEF RTypeOK, regVars, sessVars, sockVars
<1>0. /\ Swept \in [Ids -> Sessions \cup {NoSession}]
      /\ Cardinality({i \in Ids : Swept[i] # NoSession}) <= MaxSessions
      /\ now \in 0..Active /\ Active \in 0..Active
  BY SweptProperties DEF Taken, Active
<1>1. ASSUME Tick PROVE RTypeOK'
  BY <1>1 DEF Tick
<1>2. ASSUME LookUp PROVE RTypeOK'
  BY <1>0, <1>2 DEF LookUp
<1>3. ASSUME NEW s \in Sessions, NEW i \in Ids, Create(s, i) PROVE RTypeOK'
  <2>1. /\ registry' \in [Ids -> Sessions \cup {NoSession}]
        /\ Cardinality({j \in Ids : registry'[j] # NoSession}) <= MaxSessions
    BY <1>3, CreateFits DEF Taken
  <2>2. QED
    BY <1>0, <1>3, <2>1 DEF Create
<1>4. ASSUME NEW c \in Sockets, Accept(c) PROVE RTypeOK'
  BY <1>4 DEF Accept
<1>5. ASSUME NEW c \in Sockets, NEW t \in Typed, Refuse(c, t) PROVE RTypeOK'
  BY <1>0, <1>5 DEF Refuse
<1>6. ASSUME NEW c \in Sockets, NEW t \in Typed, JoinHost(c, t) \/ JoinRemote(c, t)
      PROVE  RTypeOK'
  <2> DEFINE s == Swept[Normalize[t]]
  <2>1. s \in Sessions /\ Enter(c, s)
    BY <1>0, <1>6 DEF JoinHost, JoinRemote
  <2>2. /\ host' \in [Sessions -> HostSockets \cup {NoSocket}]
        /\ remotes' \in [Sessions -> SUBSET (Sockets \ HostSockets)]
    <3>1. CASE JoinHost(c, t)
      <4>1. c \in HostSockets /\ host' = [host EXCEPT ![s] = c] /\ UNCHANGED remotes
        BY <3>1 DEF JoinHost
      <4>2. QED
        BY <4>1
    <3>2. CASE JoinRemote(c, t)
      <4>1. /\ c \notin HostSockets /\ remotes' = [remotes EXCEPT ![s] = @ \cup {c}]
            /\ UNCHANGED host
        BY <3>2 DEF JoinRemote
      <4> HIDE DEF s
      <4>2. QED
        BY <2>1, <4>1
    <3>3. QED
      BY <1>6, <3>1, <3>2
  <2>3. Greet(c, s) \in [Sockets -> Seq(Frames)]
    BY <2>1, FramesBuilt, SendToType DEF Greet
  <2>4. outbox' \in [Sockets -> Seq(Frames)]
    <3>1. /\ Simple("replaced") \in Frames /\ Simple("close") \in Frames
          /\ HostFrame(TRUE) \in Frames
      BY FramesBuilt
    <3>2. CASE JoinRemote(c, t)
      BY <2>3, <3>2 DEF JoinRemote
    <3>3. CASE JoinHost(c, t)
      <4> DEFINE greeted == Greet(c, s)
                 replaced == SendTo(greeted, {host[s]}, Simple("replaced"))
      <4>1. outbox' = IF host[s] # NoSocket
                      THEN SendTo(replaced, {host[s]}, Simple("close"))
                      ELSE SendTo(greeted, remotes[s], HostFrame(TRUE))
        BY <3>3 DEF JoinHost
      <4>2. replaced \in [Sockets -> Seq(Frames)]
        BY <2>3, <3>1, SendToType
      <4> HIDE DEF replaced, greeted
      <4>3. QED
        BY <2>3, <3>1, <4>1, <4>2, SendToType DEF greeted
    <3>4. QED
      BY <1>6, <3>2, <3>3
  <2> HIDE DEF s
  <2>5. QED
    BY <1>0, <2>1, <2>2, <2>4 DEF Enter
<1>7. ASSUME NEW c \in Sockets, Receives(c),
             outbox' \in [Sockets -> Seq(Frames)], state' \in [Sessions -> States \cup {NoState}]
      PROVE  RTypeOK'
  BY <1>7 DEF Receives
<1>8. ASSUME NEW c \in Sockets, NEW st \in States, Publish(c, st) PROVE RTypeOK'
  <2>1. outbox' \in [Sockets -> Seq(Frames)]
    BY <1>8, FramesBuilt, SendToType DEF Publish
  <2>2. QED
    BY <1>7, <1>8, <2>1 DEF Publish
<1>9. ASSUME NEW c \in Sockets, NEW d \in Sockets, Reply(c, d) PROVE RTypeOK'
  <2>1. outbox' \in [Sockets -> Seq(Frames)]
    BY <1>9, FramesBuilt, SendToType DEF Reply
  <2>2. QED
    BY <1>7, <1>9, <2>1 DEF Reply
<1>10. ASSUME NEW c \in Sockets, Command(c) PROVE RTypeOK'
  <2>1. outbox' \in [Sockets -> Seq(Frames)]
    BY <1>10, FramesBuilt, SendToType DEF Command
  <2>2. QED
    BY <1>7, <1>10, <2>1 DEF Command
<1>11. ASSUME NEW c \in Sockets, Drop(c) PROVE RTypeOK'
  BY <1>11 DEF Drop
<1>12. ASSUME NEW c \in Sockets, LeaveHost(c) PROVE RTypeOK'
  <2>1. outbox' \in [Sockets -> Seq(Frames)]
    BY <1>12, FramesBuilt, SendToType DEF LeaveHost
  <2>2. idleSince' \in [Sessions -> 0..Active] /\ host' \in [Sessions -> HostSockets \cup {NoSocket}]
    BY <1>0, <1>12 DEF LeaveHost
  <2>3. QED
    BY <1>12, <2>1, <2>2 DEF LeaveHost, Left
<1>13. ASSUME NEW c \in Sockets, LeaveRemote(c) PROVE RTypeOK'
  BY <1>0, <1>13 DEF LeaveRemote, Left
<1>14. ASSUME NEW c \in Sockets, Write(c) PROVE RTypeOK'
  <2>1. Tail(outbox[c]) \in Seq(Frames) /\ Head(outbox[c]) \in Frames
    BY <1>14, HeadTailProperties DEF Write
  <2>2. Told(view[c], Head(outbox[c])) \in Views
    BY <2>1, ToldProperties
  <2>3. QED
    BY <1>14, <2>1, <2>2 DEF Write
<1>15. ASSUME NEW c \in Sockets, WriteLast(c) PROVE RTypeOK'
  <2>1. Tail(outbox[c]) \in Seq(Frames)
    BY <1>15, HeadTailProperties DEF WriteLast
  <2>2. QED
    BY <1>15, <2>1 DEF WriteLast
<1>16. QED
  BY <1>1, <1>2, <1>3, <1>4, <1>5, <1>6, <1>8, <1>9, <1>10, <1>11, <1>12, <1>13, <1>14, <1>15
     DEF Next

-----------------------------------------------------------------------------
\* The sessions' members.

\* A session with clients stays in the registry through a sweep.
LEMMA MembersNotSwept ==
  ASSUME RTypeOK, SessionsInv, NEW s \in Sessions, HasClients(s)
  PROVE  \E i \in Ids : Swept[i] = s
<1>1. PICK c : c \in Members(s)
  BY DEF HasClients, Members
<1>2. PICK i \in Ids : registry[i] = s
  BY <1>1 DEF SessionsInv, MembersKept
<1>3. s # NoSession /\ idleSince[s] = Active
  BY RelayAssumption DEF SessionsInv
<1>4. QED
  BY <1>2, <1>3, SweptProperties

\* A step that moves no client keeps the sessions as they are, swept or not.
LEMMA NobodyMoves ==
  ASSUME RTypeOK, SessionsInv, registry' \in {registry, Swept},
         UNCHANGED <<made, idleSince, host, remotes, sess>>,
         \A c \in Sockets : handler[c] = "in" <=> handler'[c] = "in"
  PROVE  SessionsInv'
<1>1. \A i \in Ids : registry'[i] \in made' \cup {NoSession}
  BY SweptProperties DEF SessionsInv
<1>2. \A s \in Sessions : HasClients(s)' <=> HasClients(s)
  BY DEF HasClients
<1>3. \A s \in Sessions : HasClients(s)' => idleSince'[s] = Active
  BY <1>2 DEF SessionsInv
<1>4. \A c \in Sockets : handler'[c] = "in" => sess'[c] \in made'
  BY DEF SessionsInv
<1>5. ASSUME NEW s \in Sessions, NEW c \in Members(s)'
      PROVE  /\ handler'[c] = "in" /\ sess'[c] = s
             /\ \E i \in Ids : registry'[i] = s
  <2>0. c \in Members(s)
    BY <1>5 DEF Members
  <2>1. c \in Members(s) /\ HasClients(s) /\ c \in Sockets
    BY <2>0, RelayAssumption DEF Members, HasClients, RTypeOK
  <2>2. handler'[c] = "in" /\ sess'[c] = s
    BY <2>1 DEF SessionsInv, MembersKept
  <2>3. \E i \in Ids : registry[i] = s
    BY <2>1 DEF SessionsInv, MembersKept
  <2>4. QED
    BY <2>1, <2>2, <2>3, MembersNotSwept
<1>6. QED
  BY <1>1, <1>3, <1>4, <1>5, Zenon DEF SessionsInv, MembersKept

\* A client that joins a session becomes a member of that session alone.
LEMMA JoinStep ==
  ASSUME RTypeOK, SessionsInv, NEW c \in Sockets, NEW t \in Typed,
         JoinHost(c, t) \/ JoinRemote(c, t)
  PROVE  SessionsInv'
<1>0. PICK s : s = Swept[Normalize[t]]
  OBVIOUS
<1>1. /\ Normalize[t] \in Ids /\ s \in Sessions /\ s # NoSession /\ Enter(c, s) /\ handler[c] = "accepted"
  BY <1>0, SweptProperties, RelayAssumption DEF JoinHost, JoinRemote
<1>2. s \in made
  BY <1>0, <1>1, SweptProperties DEF SessionsInv
<1>3. \A u \in Sessions : u # s => host'[u] = host[u] /\ remotes'[u] = remotes[u]
  BY <1>0 DEF JoinHost, JoinRemote, RTypeOK
<1>4. \/ host'[s] = c /\ remotes'[s] = remotes[s]
      \/ host'[s] = host[s] /\ remotes'[s] = remotes[s] \cup {c}
  BY <1>0, <1>1 DEF JoinHost, JoinRemote, RTypeOK
<1>5. \E i \in Ids : Swept[i] = s
  BY <1>0, <1>1
<1>6. /\ registry' = Swept /\ made' = made
      /\ idleSince' = [idleSince EXCEPT ![s] = Active]
      /\ handler' = [handler EXCEPT ![c] = "in"]
      /\ sess' = [sess EXCEPT ![c] = s]
  BY <1>1 DEF Enter
<1>7. \A i \in Ids : registry'[i] \in made' \cup {NoSession}
  BY <1>6, SweptProperties DEF SessionsInv
<1>8. ASSUME NEW u \in Sessions, HasClients(u)'
      PROVE  idleSince'[u] = Active
  <2>1. CASE u = s
    BY <1>6, <2>1 DEF RTypeOK
  <2>2. CASE u # s
    BY <1>3, <1>6, <1>8, <2>2 DEF RTypeOK, HasClients, SessionsInv
  <2>3. QED
    BY <2>1, <2>2
<1>9. \A d \in Sockets : handler'[d] = "in" => sess'[d] \in made'
  BY <1>2, <1>6 DEF RTypeOK, SessionsInv
<1>10. ASSUME NEW u \in Sessions, NEW d \in Members(u)'
       PROVE  /\ handler'[d] = "in" /\ sess'[d] = u
              /\ \E i \in Ids : registry'[i] = u
  <2>1. CASE u = s /\ d = c
    BY <1>1, <1>5, <1>6, <2>1 DEF RTypeOK
  <2>2. CASE ~(u = s /\ d = c)
    <3>1. d \in Members(u)
      <4>1. CASE u = s
        BY <1>4, <1>10, <2>2, <4>1 DEF Members
      <4>2. CASE u # s
        BY <1>3, <1>10, <4>2 DEF Members
      <4>3. QED
        BY <4>1, <4>2
    <3>2. d \in Sockets /\ HasClients(u)
      BY <3>1, RelayAssumption DEF Members, HasClients, RTypeOK
    <3>3. d # c /\ handler[d] = "in" /\ sess[d] = u
      BY <1>1, <3>1 DEF SessionsInv, MembersKept
    <3>4. handler'[d] = "in" /\ sess'[d] = u
      BY <1>6, <3>2, <3>3 DEF RTypeOK
    <3>5. QED
      BY <1>6, <3>2, <3>4, MembersNotSwept
  <2>3. QED
    BY <2>1, <2>2
<1>11. QED
  BY <1>7, <1>8, <1>9, <1>10, Zenon DEF SessionsInv, MembersKept

\* A client that leaves is no member of any session, and a session left empty
\* becomes idle.
LEMMA LeaveStep ==
  ASSUME RTypeOK, SessionsInv, NEW c \in Sockets, Leave(c)
  PROVE  SessionsInv'
<1>0. PICK s : s = sess[c]
  OBVIOUS
<1>1. /\ handler[c] = "in" /\ s \in made /\ s \in Sessions
      /\ handler' = [handler EXCEPT ![c] = "done"]
      /\ UNCHANGED <<registry, made, sess>>
  <2>1. Left(c)
    BY DEF Leave, LeaveHost, LeaveRemote
  <2>2. s \in made /\ s \in Sessions
    BY <1>0, <2>1 DEF Left, SessionsInv, RTypeOK
  <2>3. QED
    BY <2>1, <2>2 DEF Left
<1>2. /\ \A u \in Sessions : Members(u)' \subseteq Members(u)
      /\ \A u \in Sessions : HasClients(u)' => HasClients(u)
      /\ c \notin Members(s)'
  <2>1. CASE LeaveHost(c)
    <3>1. /\ c \in HostSockets /\ remotes' = remotes
          /\ host' \in {host, [host EXCEPT ![s] = NoSocket]}
          /\ host'[s] # c
      BY <1>0, <1>1, <2>1, RelayAssumption DEF LeaveHost, RTypeOK
    <3>2. QED
      BY <1>1, <3>1, RelayAssumption DEF Members, HasClients, RTypeOK
  <2>2. CASE LeaveRemote(c)
    <3>1. c \notin HostSockets /\ host' = host /\ remotes' = [remotes EXCEPT ![s] = @ \ {c}]
      BY <1>0, <2>2 DEF LeaveRemote
    <3>2. QED
      BY <1>1, <3>1, RelayAssumption DEF Members, HasClients, RTypeOK
  <2>3. QED
    BY <2>1, <2>2 DEF Leave
<1>3. /\ idleSince' \in {idleSince, [idleSince EXCEPT ![s] = now]}
      /\ HasClients(s)' => idleSince' = idleSince
  BY <1>0, <1>1 DEF Leave, LeaveHost, LeaveRemote, HasClients, RTypeOK
<1>4. \A i \in Ids : registry'[i] \in made' \cup {NoSession}
  BY <1>1 DEF SessionsInv
<1>5. \A u \in Sessions : HasClients(u)' => idleSince'[u] = Active
  BY <1>1, <1>2, <1>3 DEF SessionsInv, RTypeOK
<1>6. \A d \in Sockets : handler'[d] = "in" => sess'[d] \in made'
  BY <1>1 DEF SessionsInv, RTypeOK
<1>7. ASSUME NEW u \in Sessions, NEW d \in Members(u)'
      PROVE  /\ handler'[d] = "in" /\ sess'[d] = u
             /\ \E i \in Ids : registry'[i] = u
  <2>1. d \in Members(u) /\ d \in Sockets
    BY <1>2, RelayAssumption DEF Members, RTypeOK
  <2>2. /\ handler[d] = "in" /\ sess[d] = u
        /\ \E i \in Ids : registry[i] = u
    BY <2>1 DEF SessionsInv, MembersKept
  <2>3. d # c
    BY <1>0, <1>2, <1>7, <2>2
  <2>4. QED
    BY <1>1, <2>1, <2>2, <2>3 DEF RTypeOK
<1>8. QED
  BY <1>4, <1>5, <1>6, <1>7, Zenon DEF SessionsInv, MembersKept

\* create() makes a session without clients, under an id that names no other.
LEMMA CreateStep ==
  ASSUME RTypeOK, SessionsInv, NEW s \in Sessions, NEW i \in Ids, Create(s, i)
  PROVE  SessionsInv'
<1>1. /\ s \notin made /\ Swept[i] = NoSession
      /\ registry' = [Swept EXCEPT ![i] = s] /\ made' = made \cup {s}
      /\ idleSince' = [idleSince EXCEPT ![s] = now]
      /\ UNCHANGED <<host, remotes, handler, sess>>
  BY DEF Create, sessVars, sockVars
<1>2. Swept \in [Ids -> Sessions \cup {NoSession}]
  BY SweptProperties
<1>3. \A j \in Ids : registry'[j] \in made' \cup {NoSession}
  BY <1>1, <1>2, SweptProperties DEF SessionsInv
<1>4. ~HasClients(s)
  <2>1. SUFFICES ASSUME HasClients(s) PROVE FALSE
    OBVIOUS
  <2>2. PICK j \in Ids : registry[j] = s
    BY <2>1 DEF HasClients, Members, SessionsInv, MembersKept
  <2>3. QED
    BY <1>1, <2>2, RelayAssumption DEF SessionsInv
<1>5. \A u \in Sessions : HasClients(u)' => idleSince'[u] = Active
  BY <1>1, <1>4 DEF HasClients, SessionsInv, RTypeOK
<1>6. \A d \in Sockets : handler'[d] = "in" => sess'[d] \in made'
  BY <1>1 DEF SessionsInv
<1>7. ASSUME NEW u \in Sessions, NEW d \in Members(u)'
      PROVE  /\ handler'[d] = "in" /\ sess'[d] = u
             /\ \E j \in Ids : registry'[j] = u
  <2>1. d \in Members(u) /\ HasClients(u)
    BY <1>1 DEF Members, HasClients
  <2>2. handler'[d] = "in" /\ sess'[d] = u
    BY <1>1, <2>1 DEF SessionsInv, MembersKept
  <2>3. PICK j \in Ids : Swept[j] = u
    BY <2>1, MembersNotSwept
  <2>4. j # i
    BY <1>1, <2>3, RelayAssumption
  <2>5. registry'[j] = u
    BY <1>1, <1>2, <2>3, <2>4
  <2>6. QED
    BY <2>2, <2>5
<1>8. QED
  BY <1>3, <1>5, <1>6, <1>7, Zenon DEF SessionsInv, MembersKept

\* Every step keeps the sessions and their members together.
LEMMA SessionsStep ==
  ASSUME RTypeOK, SessionsInv, Next
  PROVE  SessionsInv'
<1> USE DEF regVars, sessVars, sockVars
<1>1. ASSUME Tick \/ LookUp PROVE SessionsInv'
  BY <1>1, NobodyMoves DEF Tick, LookUp
<1>2. ASSUME NEW c \in Sockets,
             \/ Accept(c) \/ (\E t \in Typed : Refuse(c, t))
             \/ Drop(c) \/ Write(c) \/ WriteLast(c)
      PROVE  SessionsInv'
  <2>1. registry' \in {registry, Swept}
    BY <1>2 DEF Accept, Refuse, Drop, Write, WriteLast
  <2>2. UNCHANGED <<made, idleSince, host, remotes, sess>>
    BY <1>2 DEF Accept, Refuse, Drop, Write, WriteLast
  <2>3. \A d \in Sockets : handler[d] = "in" <=> handler'[d] = "in"
    BY <1>2 DEF Accept, Refuse, Drop, Write, WriteLast, RTypeOK
  <2>4. QED
    BY <2>1, <2>2, <2>3, NobodyMoves
<1>3. ASSUME NEW c \in Sockets,
             \/ (\E st \in States : Publish(c, st)) \/ Command(c)
             \/ (\E d \in Sockets : Reply(c, d))
      PROVE  SessionsInv'
  <2>1. Receives(c)
    BY <1>3 DEF Publish, Command, Reply
  <2>2. QED
    BY <2>1, NobodyMoves DEF Receives
<1>4. QED
  BY <1>1, <1>2, <1>3, JoinStep, LeaveStep, CreateStep DEF Next, Leave

-----------------------------------------------------------------------------
\* What is queued for whom.

\* Frames without `close` keep an outbox unclosed, and a close ends it.
LEMMA AppendCloses ==
  ASSUME NEW box \in Seq(Frames), Unclosed(box), NEW f \in Frames
  PROVE  /\ f.type # "close" => Unclosed(Append(box, f))
         /\ f.type = "close" => ClosesLast(Append(box, f))
<1> DEFINE r == Append(box, f)
<1>1. /\ DOMAIN box = 1..Len(box) /\ Len(box) \in Nat
      /\ r \in Seq(Frames) /\ r # <<>> /\ Len(r) = Len(box) + 1
      /\ \A i \in 1..Len(box) : r[i] = box[i]
      /\ r[Len(box) + 1] = f
  BY AppendProperties, LenProperties
<1> HIDE DEF r
<1>2. DOMAIN r = 1..(Len(box) + 1)
  BY <1>1, LenProperties
<1>3. \A i \in DOMAIN r : i = Len(r) \/ r[i].type # "close"
  BY <1>1, <1>2 DEF Unclosed
<1>4. QED
  BY <1>1, <1>2, <1>3 DEF Unclosed, ClosesLast, r

\* Sending the oldest frame leaves an outbox as it was, closed or not.
LEMMA TailCloses ==
  ASSUME NEW box \in Seq(Frames), box # <<>>
  PROVE  /\ Unclosed(box) => Unclosed(Tail(box))
         /\ ClosesLast(box) /\ Head(box).type # "close" => ClosesLast(Tail(box))
<1> DEFINE r == Tail(box)
<1>1. /\ DOMAIN box = 1..Len(box) /\ Len(box) \in Nat /\ Len(box) > 0
      /\ r \in Seq(Frames) /\ Len(r) = Len(box) - 1
      /\ \A i \in 1..(Len(box) - 1) : r[i] = box[i + 1]
      /\ Head(box) = box[1]
  BY HeadTailProperties, LenProperties, EmptySeq
<1> HIDE DEF r
<1>2. DOMAIN r = 1..(Len(box) - 1)
  BY <1>1, LenProperties
<1>3. \A i \in DOMAIN r : i + 1 \in DOMAIN box /\ r[i] = box[i + 1]
  BY <1>1, <1>2
<1>4. Unclosed(box) => Unclosed(r)
  BY <1>3 DEF Unclosed
<1>5. ASSUME ClosesLast(box), Head(box).type # "close"
      PROVE  ClosesLast(r)
  <2>1. Len(box) # 1
    BY <1>1, <1>5 DEF ClosesLast
  <2>2. r # <<>>
    BY <1>1, <2>1, EmptySeq
  <2>3. \A i \in DOMAIN r : r[i].type = "close" <=> i = Len(r)
    BY <1>1, <1>2, <1>3, <1>5 DEF ClosesLast
  <2>4. QED
    BY <2>2, <2>3 DEF ClosesLast
<1>6. QED
  BY <1>4, <1>5 DEF r

\* The remotes and the host of a session are handlers that hold it.
LEMMA MembersIn ==
  ASSUME RTypeOK, SessionsInv, NEW s \in Sessions
  PROVE  /\ \A c \in remotes[s] : c \in Sockets /\ c \notin HostSockets
                                    /\ handler[c] = "in" /\ sess[c] = s
         /\ host[s] # NoSocket => host[s] \in HostSockets /\ host[s] \in Sockets
                                    /\ handler[host[s]] = "in" /\ sess[host[s]] = s
BY RelayAssumption DEF RTypeOK, SessionsInv, MembersKept, Members

QueuesInv == FreshInv /\ TruthInv /\ FinalInv

\* A step that queues nothing and moves nobody changes nothing of it.
LEMMA NothingQueued ==
  ASSUME RelayInv, UNCHANGED <<host, remotes, state, sess, outbox, writer, view>>,
         \A c \in Sockets : /\ handler[c] = "in" <=> handler'[c] = "in"
                            /\ handler'[c] \in {"new", "accepted"} => handler[c] \in {"new", "accepted"}
  PROVE  QueuesInv'
<1>1. FreshInv'
  BY DEF RelayInv, FreshInv
<1>2. TruthInv'
  BY DEF RelayInv, TruthInv
<1>3. FinalInv'
  BY RelayAssumption DEF RelayInv, FinalInv
<1>4. QED
  BY <1>1, <1>2, <1>3 DEF QueuesInv

\* The writer takes one frame off its client's outbox.
LEMMA WriterStep ==
  ASSUME RelayInv, NEW c \in Sockets, Writer(c)
  PROVE  QueuesInv'
<1> USE DEF RTypeOK, sessVars
<1>1. /\ RTypeOK /\ outbox[c] \in Seq(Frames) /\ outbox[c] # <<>>
      /\ writer[c] = "run"
      /\ outbox' = [outbox EXCEPT ![c] = Tail(@)]
      /\ UNCHANGED <<host, remotes, state, sess, handler>>
      /\ \A d \in Sockets \ {c} : view'[d] = view[d] /\ writer'[d] = writer[d]
  BY DEF RelayInv, Writer, Write, WriteLast
<1>2. FreshInv'
  BY <1>1 DEF RelayInv, FreshInv
<1>3. TruthInv'
  <2> SUFFICES ASSUME NEW s \in Sessions, NEW d \in remotes[s], writer'[d] = "run"
               PROVE  /\ Shows(outbox'[d], view'[d], "state", state[s])
                      /\ Shows(outbox'[d], view'[d], "host", host[s] # NoSocket)
    BY <1>1 DEF TruthInv
  <2>1. CASE d = c
    <3>1. Write(c)
      BY <1>1, <2>1 DEF Writer, WriteLast
    <3>2. view'[c] = Told(view[c], Head(outbox[c])) /\ view[c] \in Views
      BY <1>1, <3>1 DEF Write
    <3>3. /\ Shows(outbox[c], view[c], "state", state[s])
          /\ Shows(outbox[c], view[c], "host", host[s] # NoSocket)
      BY <1>1, <2>1 DEF RelayInv, TruthInv
    <3>4. QED
      BY <1>1, <2>1, <3>2, <3>3, ShowsWritten
  <2>2. CASE d # c
    BY <1>1, <2>2 DEF RelayInv, TruthInv
  <2>3. QED
    BY <2>1, <2>2
<1>4. FinalInv'
  <2> SUFFICES ASSUME NEW d \in HostSockets, handler[d] = "in"
               PROVE  IF host[sess[d]] = d THEN Unclosed(outbox'[d])
                      ELSE writer'[d] = "run" => ClosesLast(outbox'[d])
    BY <1>1 DEF FinalInv
  <2>1. d \in Sockets /\ IF host[sess[d]] = d THEN Unclosed(outbox[d])
                         ELSE writer[d] = "run" => ClosesLast(outbox[d])
    BY RelayAssumption DEF RelayInv, FinalInv
  <2>2. CASE d = c
    <3>1. outbox'[d] = Tail(outbox[d])
      BY <1>1, <2>2
    <3>2. writer'[d] = "run" => Head(outbox[d]).type # "close"
      BY <1>1, <2>2 DEF Writer, Write, WriteLast
    <3>3. QED
      BY <1>1, <2>1, <2>2, <3>1, <3>2, TailCloses
  <2>3. CASE d # c
    BY <1>1, <2>1, <2>3
  <2>4. QED
    BY <2>2, <2>3
<1>5. QED
  BY <1>2, <1>3, <1>4 DEF QueuesInv

\* A host that joins is greeted; the one it takes over from is told and closed,
\* or else the remotes are told of it.
LEMMA JoinHostStep ==
  ASSUME RelayInv, NEW c \in Sockets, NEW t \in Typed, JoinHost(c, t)
  PROVE  QueuesInv'
<1>0. PICK s : s = Swept[Normalize[t]]
  OBVIOUS
<1>1. /\ RTypeOK /\ SessionsInv /\ c \in HostSockets /\ handler[c] = "accepted"
      /\ s \in Sessions /\ outbox[c] = <<>> /\ Enter(c, s)
  BY <1>0, SweptProperties, RelayAssumption DEF JoinHost, RelayInv, FreshInv
<1>2. /\ host' = [host EXCEPT ![s] = c] /\ UNCHANGED <<remotes, state, view>>
      /\ handler' = [handler EXCEPT ![c] = "in"] /\ sess' = [sess EXCEPT ![c] = s]
      /\ writer' = [writer EXCEPT ![c] = "run"]
  BY <1>0, <1>1 DEF JoinHost, Enter
<1> DEFINE greeting == Hello(host[s] # NoSocket, state[s])
           taken == host[s] # NoSocket
<1>3. /\ greeting \in Frames /\ greeting.type = "hello"
      /\ Simple("replaced") \in Frames /\ Simple("close") \in Frames
      /\ Simple("replaced").type = "replaced" /\ Simple("close").type = "close"
      /\ HostFrame(TRUE) \in Frames /\ HostFrame(TRUE).type = "host" /\ HostFrame(TRUE).host = TRUE
  BY <1>1, FramesBuilt DEF RTypeOK
<1>4. /\ c \notin remotes[s] /\ c # host[s]
      /\ host[s] \notin remotes[s]
  BY <1>1, MembersIn, RelayAssumption
<1>5. \A d \in Sockets :
        outbox'[d] = IF d = c THEN Append(outbox[d], greeting)
                     ELSE IF taken
                     THEN IF d = host[s] THEN Append(Append(outbox[d], Simple("replaced")), Simple("close"))
                          ELSE outbox[d]
                     ELSE IF d \in remotes[s] THEN Append(outbox[d], HostFrame(TRUE)) ELSE outbox[d]
  <2> DEFINE greeted == Greet(c, s)
             told == SendTo(greeted, {host[s]}, Simple("replaced"))
  <2>1. outbox' = IF taken THEN SendTo(told, {host[s]}, Simple("close"))
                  ELSE SendTo(greeted, remotes[s], HostFrame(TRUE))
    BY <1>0 DEF JoinHost
  <2>2. \A d \in Sockets :
          greeted[d] = IF d = c THEN Append(outbox[d], greeting) ELSE outbox[d]
    BY DEF Greet, SendTo
  <2> HIDE DEF greeted, greeting
  <2>3. \A d \in Sockets :
          told[d] = IF d = host[s] THEN Append(greeted[d], Simple("replaced")) ELSE greeted[d]
    BY DEF SendTo
  <2> HIDE DEF told
  <2>4. QED
    BY <1>4, <2>1, <2>2, <2>3 DEF SendTo
<1> HIDE DEF greeting
<1>6. FreshInv'
  <2> SUFFICES ASSUME NEW d \in Sockets, handler'[d] \in {"new", "accepted"}
               PROVE  outbox'[d] = <<>> /\ writer'[d] = "none"
    BY DEF FreshInv
  <2>1. d # c /\ handler[d] = handler'[d] /\ writer'[d] = writer[d]
    BY <1>1, <1>2 DEF RTypeOK
  <2>2. d \notin remotes[s] /\ d # host[s]
    BY <1>1, <2>1, MembersIn, RelayAssumption
  <2>3. QED
    BY <1>5, <2>1, <2>2 DEF RelayInv, FreshInv
<1>7. TruthInv'
  <2> SUFFICES ASSUME NEW u \in Sessions, NEW d \in remotes[u], writer'[d] = "run"
               PROVE  /\ Shows(outbox'[d], view[d], "state", state[u])
                      /\ Shows(outbox'[d], view[d], "host", host'[u] # NoSocket)
    BY <1>2 DEF TruthInv
  <2>1. d \in Sockets /\ d \notin HostSockets /\ sess[d] = u /\ d # c
    BY <1>1, MembersIn
  <2>2. /\ Shows(outbox[d], view[d], "state", state[u])
        /\ Shows(outbox[d], view[d], "host", host[u] # NoSocket)
    BY <1>1, <1>2, <2>1 DEF RelayInv, TruthInv, RTypeOK
  <2>3. CASE u = s /\ ~taken
    <3>1. /\ outbox'[d] = Append(outbox[d], HostFrame(TRUE)) /\ outbox[d] \in Seq(Frames)
          /\ (host'[u] # NoSocket) = TRUE
      BY <1>1, <1>2, <1>5, <2>1, <2>3, RelayAssumption DEF RTypeOK
    <3>2. "state" \notin DOMAIN HostFrame(TRUE) /\ "host" \in DOMAIN HostFrame(TRUE)
      BY <1>3, FrameFields
    <3>3. QED
      BY <1>3, <2>2, <3>1, <3>2, ShowsStill, ShowsNew
  <2>4. CASE ~(u = s /\ ~taken)
    <3>1. outbox'[d] = outbox[d]
      <4>1. d # host[s]
        BY <1>1, <2>1, MembersIn, RelayAssumption
      <4>2. u # s => d \notin remotes[s]
        BY <1>1, <2>1, MembersIn
      <4>3. QED
        BY <1>5, <2>1, <2>4, <4>1, <4>2
    <3>2. (host'[u] # NoSocket) = (host[u] # NoSocket)
      BY <1>1, <1>2, <2>4, RelayAssumption DEF RTypeOK
    <3>3. QED
      BY <2>2, <3>1, <3>2
  <2>5. QED
    BY <2>3, <2>4
<1>8. FinalInv'
  <2> SUFFICES ASSUME NEW d \in HostSockets, handler'[d] = "in"
               PROVE  IF host'[sess'[d]] = d THEN Unclosed(outbox'[d])
                      ELSE writer'[d] = "run" => ClosesLast(outbox'[d])
    BY DEF FinalInv
  <2>0. d \in Sockets /\ outbox[d] \in Seq(Frames)
    BY <1>1, RelayAssumption DEF RTypeOK
  <2>1. CASE d = c
    <3>1. outbox'[d] = Append(outbox[d], greeting) /\ outbox[d] = <<>>
      BY <1>1, <1>5, <2>0, <2>1
    <3>2. Unclosed(outbox'[d])
      <4>1. DOMAIN outbox[d] = {}
        BY <2>0, <3>1, EmptySeq, LenProperties
      <4>2. Unclosed(outbox[d])
        BY <4>1 DEF Unclosed
      <4>3. QED
        BY <1>3, <2>0, <3>1, <4>2, AppendCloses
    <3>3. host'[sess'[d]] = d
      BY <1>1, <1>2, <2>1 DEF RTypeOK
    <3>4. QED
      BY <3>2, <3>3
  <2>2. CASE d # c
    <3>1. /\ handler[d] = "in" /\ sess'[d] = sess[d] /\ writer'[d] = writer[d]
          /\ sess[d] \in Sessions
      BY <1>1, <1>2, <2>0, <2>2 DEF RTypeOK, SessionsInv
    <3>2. IF host[sess[d]] = d THEN Unclosed(outbox[d])
          ELSE writer[d] = "run" => ClosesLast(outbox[d])
      BY <3>1 DEF RelayInv, FinalInv
    <3>3. CASE d = host[s]
      <4>1. taken /\ host[sess[d]] = d /\ sess[d] = s
        BY <1>1, <2>0, <3>3, MembersIn, RelayAssumption
      <4>2. outbox'[d] = Append(Append(outbox[d], Simple("replaced")), Simple("close"))
        BY <1>5, <2>0, <2>2, <3>3, <4>1
      <4>3. /\ Append(outbox[d], Simple("replaced")) \in Seq(Frames)
            /\ Unclosed(Append(outbox[d], Simple("replaced")))
        BY <1>3, <2>0, <3>2, <4>1, AppendCloses, AppendProperties
      <4>4. ClosesLast(outbox'[d])
        BY <1>3, <4>2, <4>3, AppendCloses
      <4>5. host'[sess'[d]] # d
        BY <1>1, <1>2, <2>2, <3>1, <4>1 DEF RTypeOK
      <4>6. QED
        BY <4>4, <4>5
    <3>4. CASE d # host[s]
      <4>1. d \notin remotes[s]
        BY <1>1, MembersIn
      <4>2. outbox'[d] = outbox[d]
        BY <1>5, <2>0, <2>2, <3>4, <4>1
      <4>3. host'[sess'[d]] = d <=> host[sess[d]] = d
        BY <1>1, <1>2, <2>2, <3>1, <3>4 DEF RTypeOK
      <4>4. QED
        BY <3>1, <3>2, <4>2, <4>3
    <3>5. QED
      BY <3>3, <3>4
  <2>3. QED
    BY <2>1, <2>2
<1>9. QED
  BY <1>6, <1>7, <1>8 DEF QueuesInv

\* A remote that joins is greeted with the session as it is.
LEMMA JoinRemoteStep ==
  ASSUME RelayInv, NEW c \in Sockets, NEW t \in Typed, JoinRemote(c, t)
  PROVE  QueuesInv'
<1>0. PICK s : s = Swept[Normalize[t]]
  OBVIOUS
<1>1. /\ RTypeOK /\ SessionsInv /\ c \notin HostSockets /\ handler[c] = "accepted"
      /\ s \in Sessions /\ outbox[c] = <<>> /\ Enter(c, s)
  BY <1>0, SweptProperties, RelayAssumption DEF JoinRemote, RelayInv, FreshInv
<1>2. /\ remotes' = [remotes EXCEPT ![s] = @ \cup {c}] /\ UNCHANGED <<host, state, view>>
      /\ handler' = [handler EXCEPT ![c] = "in"] /\ sess' = [sess EXCEPT ![c] = s]
      /\ writer' = [writer EXCEPT ![c] = "run"]
  BY <1>0, <1>1 DEF JoinRemote, Enter
<1> DEFINE greeting == Hello(host[s] # NoSocket, state[s])
<1>3. /\ greeting \in Frames /\ greeting.type = "hello"
      /\ greeting.host = (host[s] # NoSocket) /\ greeting.state = state[s]
  BY <1>1, FramesBuilt DEF RTypeOK
<1>4. \A d \in Sockets :
        outbox'[d] = IF d = c THEN Append(outbox[d], greeting) ELSE outbox[d]
  BY <1>0 DEF JoinRemote, Greet, SendTo
<1> HIDE DEF greeting
<1>5. FreshInv'
  BY <1>1, <1>2, <1>4 DEF RelayInv, FreshInv, RTypeOK
<1>6. TruthInv'
  <2> SUFFICES ASSUME NEW u \in Sessions, NEW d \in remotes'[u], writer'[d] = "run"
               PROVE  /\ Shows(outbox'[d], view[d], "state", state[u])
                      /\ Shows(outbox'[d], view[d], "host", host[u] # NoSocket)
    BY <1>2 DEF TruthInv
  <2>1. CASE d = c
    <3>1. u = s
      BY <1>1, <1>2, <2>1, MembersIn DEF RTypeOK
    <3>2. outbox'[d] = Append(outbox[d], greeting) /\ outbox[d] \in Seq(Frames)
      BY <1>1, <1>4, <2>1 DEF RTypeOK
    <3>3. "state" \in DOMAIN greeting /\ "host" \in DOMAIN greeting
      BY <1>3, FrameFields
    <3>4. QED
      BY <1>3, <3>1, <3>2, <3>3, ShowsNew
  <2>2. CASE d # c
    <3>1. d \in remotes[u] /\ d \in Sockets
      BY <1>1, <1>2, <2>2, MembersIn DEF RTypeOK
    <3>2. writer[d] = "run" /\ outbox'[d] = outbox[d]
      BY <1>1, <1>2, <1>4, <2>2, <3>1 DEF RTypeOK
    <3>3. QED
      BY <3>1, <3>2 DEF RelayInv, TruthInv
  <2>3. QED
    BY <2>1, <2>2
<1>7. FinalInv'
  <2> SUFFICES ASSUME NEW d \in HostSockets, handler'[d] = "in"
               PROVE  IF host[sess'[d]] = d THEN Unclosed(outbox'[d])
                      ELSE writer'[d] = "run" => ClosesLast(outbox'[d])
    BY <1>2 DEF FinalInv
  <2>1. d \in Sockets /\ d # c
    BY <1>1, RelayAssumption
  <2>2. /\ handler[d] = "in" /\ sess'[d] = sess[d] /\ writer'[d] = writer[d]
        /\ outbox'[d] = outbox[d]
    BY <1>1, <1>2, <1>4, <2>1 DEF RTypeOK
  <2>3. QED
    BY <2>2 DEF RelayInv, FinalInv
<1>8. QED
  BY <1>5, <1>6, <1>7 DEF QueuesInv

\* A frame received from a client is forwarded: the host's to the session's
\* remotes, a remote's to its host.
LEMMA ReceiveStep ==
  ASSUME RelayInv, NEW c \in Sockets,
         \/ \E st \in States : Publish(c, st)
         \/ \E d \in Sockets : Reply(c, d)
         \/ Command(c)
  PROVE  QueuesInv'
<1>0. PICK s : s = sess[c]
  OBVIOUS
<1>1. /\ RTypeOK /\ SessionsInv /\ s \in Sessions
      /\ UNCHANGED <<host, remotes, handler, sess, writer, view>>
  BY <1>0 DEF Publish, Reply, Command, Receives, RelayInv, SessionsInv, RTypeOK
<1>2. ASSUME NEW st \in States, Publish(c, st)
      PROVE  QueuesInv'
  <2> DEFINE frame == StateFrame(st)
  <2>1. /\ state' = [state EXCEPT ![s] = st]
        /\ \A d \in Sockets :
             outbox'[d] = IF d \in remotes[s] THEN Append(outbox[d], frame) ELSE outbox[d]
    BY <1>0, <1>2 DEF Publish, SendTo
  <2>2. /\ frame \in Frames /\ frame.state = st
        /\ "state" \in DOMAIN frame /\ "host" \notin DOMAIN frame
    BY FramesBuilt, FrameFields
  <2> HIDE DEF frame
  <2>3. FreshInv'
    BY <1>1, <2>1, MembersIn DEF FreshInv, RelayInv
  <2>4. TruthInv'
    <3> SUFFICES ASSUME NEW u \in Sessions, NEW d \in remotes[u], writer[d] = "run"
                 PROVE  /\ Shows(outbox'[d], view[d], "state", state'[u])
                        /\ Shows(outbox'[d], view[d], "host", host[u] # NoSocket)
      BY <1>1 DEF TruthInv
    <3>1. d \in Sockets /\ sess[d] = u /\ outbox[d] \in Seq(Frames)
      BY <1>1, MembersIn DEF RTypeOK
    <3>2. /\ Shows(outbox[d], view[d], "state", state[u])
          /\ Shows(outbox[d], view[d], "host", host[u] # NoSocket)
      BY DEF RelayInv, TruthInv
    <3>3. CASE u = s
      <4>1. outbox'[d] = Append(outbox[d], frame) /\ state'[u] = st
        BY <1>1, <2>1, <3>1, <3>3 DEF RTypeOK
      <4>2. QED
        BY <2>2, <3>1, <3>2, <4>1, ShowsNew, ShowsStill
    <3>4. CASE u # s
      <4>1. d \notin remotes[s]
        BY <1>1, <3>1, <3>4, MembersIn
      <4>2. outbox'[d] = outbox[d] /\ state'[u] = state[u]
        BY <1>1, <2>1, <3>1, <3>4, <4>1 DEF RTypeOK
      <4>3. QED
        BY <3>2, <4>2
    <3>5. QED
      BY <3>3, <3>4
  <2>5. FinalInv'
    <3>1. \A d \in HostSockets : outbox'[d] = outbox[d]
      BY <1>1, <2>1, MembersIn, RelayAssumption
    <3>2. QED
      BY <1>1, <3>1 DEF FinalInv, RelayInv
  <2>6. QED
    BY <2>3, <2>4, <2>5 DEF QueuesInv
<1>3. ASSUME NEW e \in Sockets, Reply(c, e)
      PROVE  QueuesInv'
  <2> DEFINE frame == Simple("reply")
  <2>1. /\ state' = state
        /\ \A d \in Sockets :
             outbox'[d] = IF d \in remotes[s] \cap {e} THEN Append(outbox[d], frame) ELSE outbox[d]
    BY <1>0, <1>3 DEF Reply, SendTo
  <2>2. frame \in Frames /\ "state" \notin DOMAIN frame /\ "host" \notin DOMAIN frame
    BY FramesBuilt, FrameFields
  <2> HIDE DEF frame
  <2>3. FreshInv'
    BY <1>1, <2>1, MembersIn DEF FreshInv, RelayInv
  <2>4. TruthInv'
    <3> SUFFICES ASSUME NEW u \in Sessions, NEW d \in remotes[u], writer[d] = "run"
                 PROVE  /\ Shows(outbox'[d], view[d], "state", state[u])
                        /\ Shows(outbox'[d], view[d], "host", host[u] # NoSocket)
      BY <1>1, <2>1 DEF TruthInv
    <3>1. d \in Sockets /\ outbox[d] \in Seq(Frames)
      BY <1>1, MembersIn DEF RTypeOK
    <3>2. outbox'[d] \in {outbox[d], Append(outbox[d], frame)}
      BY <2>1, <3>1
    <3>3. /\ Shows(outbox[d], view[d], "state", state[u])
          /\ Shows(outbox[d], view[d], "host", host[u] # NoSocket)
      BY DEF RelayInv, TruthInv
    <3>4. QED
      BY <2>2, <3>1, <3>2, <3>3, ShowsStill
  <2>5. FinalInv'
    <3>1. \A d \in HostSockets : outbox'[d] = outbox[d]
      BY <1>1, <2>1, MembersIn, RelayAssumption
    <3>2. QED
      BY <1>1, <3>1 DEF FinalInv, RelayInv
  <2>6. QED
    BY <2>3, <2>4, <2>5 DEF QueuesInv
<1>4. ASSUME Command(c)
      PROVE  QueuesInv'
  <2> DEFINE frame == Simple("command")
  <2>1. /\ state' = state /\ host[s] # NoSocket
        /\ \A d \in Sockets :
             outbox'[d] = IF d = host[s] THEN Append(outbox[d], frame) ELSE outbox[d]
    BY <1>0, <1>4 DEF Command, SendTo
  <2>2. frame \in Frames /\ frame.type = "command"
    BY FramesBuilt
  <2> HIDE DEF frame
  <2>3. host[s] \in HostSockets /\ handler[host[s]] = "in" /\ sess[host[s]] = s
    BY <1>1, <2>1, MembersIn
  <2>4. FreshInv'
    BY <1>1, <2>1, <2>3 DEF FreshInv, RelayInv
  <2>5. TruthInv'
    <3>1. \A u \in Sessions : \A d \in remotes[u] : outbox'[d] = outbox[d]
      BY <1>1, <2>1, <2>3, MembersIn
    <3>2. QED
      BY <1>1, <2>1, <3>1 DEF TruthInv, RelayInv
  <2>6. FinalInv'
    <3> SUFFICES ASSUME NEW d \in HostSockets, handler[d] = "in"
                 PROVE  IF host[sess[d]] = d THEN Unclosed(outbox'[d])
                        ELSE writer[d] = "run" => ClosesLast(outbox'[d])
      BY <1>1 DEF FinalInv
    <3>1. /\ d \in Sockets /\ outbox[d] \in Seq(Frames)
          /\ IF host[sess[d]] = d THEN Unclosed(outbox[d])
             ELSE writer[d] = "run" => ClosesLast(outbox[d])
      BY <1>1, RelayAssumption DEF FinalInv, RelayInv, RTypeOK
    <3>2. CASE d = host[s]
      BY <2>1, <2>2, <2>3, <3>1, <3>2, AppendCloses
    <3>3. CASE d # host[s]
      BY <2>1, <3>1, <3>3
    <3>4. QED
      BY <3>2, <3>3
  <2>7. QED
    BY <2>4, <2>5, <2>6 DEF QueuesInv
<1>5. QED
  BY <1>2, <1>3, <1>4

\* The remotes hear of their host's leaving; one that was replaced leaves
\* without a word.
LEMMA LeaveQueues ==
  ASSUME RelayInv, NEW c \in Sockets, Leave(c)
  PROVE  QueuesInv'
<1>0. PICK s : s = sess[c]
  OBVIOUS
<1>1. /\ RTypeOK /\ SessionsInv /\ s \in Sessions /\ handler[c] = "in"
      /\ handler' = [handler EXCEPT ![c] = "done"] /\ writer' = [writer EXCEPT ![c] = "done"]
      /\ UNCHANGED <<state, sess, view>>
  <2>1. Left(c)
    BY DEF Leave, LeaveHost, LeaveRemote
  <2>2. QED
    BY <1>0, <2>1 DEF Left, RelayInv, SessionsInv, RTypeOK
<1>2. CASE LeaveRemote(c) \/ (LeaveHost(c) /\ host[s] # c)
  <2>1. UNCHANGED <<host, outbox>> /\ \A u \in Sessions : remotes'[u] \subseteq remotes[u]
    BY <1>0, <1>1, <1>2 DEF LeaveRemote, LeaveHost, RTypeOK
  <2>2. FreshInv'
    BY <1>1, <2>1 DEF FreshInv, RelayInv, RTypeOK
  <2>3. TruthInv'
    <3> SUFFICES ASSUME NEW u \in Sessions, NEW d \in remotes'[u], writer'[d] = "run"
                 PROVE  /\ Shows(outbox[d], view[d], "state", state[u])
                        /\ Shows(outbox[d], view[d], "host", host[u] # NoSocket)
      BY <1>1, <2>1 DEF TruthInv
    <3>1. d \in remotes[u] /\ writer[d] = "run"
      BY <1>1, <2>1, MembersIn DEF RTypeOK
    <3>2. QED
      BY <3>1 DEF RelayInv, TruthInv
  <2>4. FinalInv'
    <3> SUFFICES ASSUME NEW d \in HostSockets, handler'[d] = "in"
                 PROVE  IF host[sess[d]] = d THEN Unclosed(outbox[d])
                        ELSE writer'[d] = "run" => ClosesLast(outbox[d])
      BY <1>1, <2>1 DEF FinalInv
    <3>1. d \in Sockets /\ handler[d] = "in" /\ writer'[d] = writer[d]
      BY <1>1, RelayAssumption DEF RTypeOK
    <3>2. QED
      BY <3>1 DEF RelayInv, FinalInv
  <2>5. QED
    BY <2>2, <2>3, <2>4 DEF QueuesInv
<1>3. CASE LeaveHost(c) /\ host[s] = c
  <2> DEFINE frame == HostFrame(FALSE)
  <2>1. /\ c \in HostSockets /\ host' = [host EXCEPT ![s] = NoSocket] /\ remotes' = remotes
        /\ \A d \in Sockets :
             outbox'[d] = IF d \in remotes[s] THEN Append(outbox[d], frame) ELSE outbox[d]
    BY <1>0, <1>3 DEF LeaveHost, SendTo
  <2>2. /\ frame \in Frames /\ frame.host = FALSE
        /\ "state" \notin DOMAIN frame /\ "host" \in DOMAIN frame
    BY FramesBuilt, FrameFields
  <2> HIDE DEF frame
  <2>3. FreshInv'
    BY <1>1, <2>1, MembersIn DEF FreshInv, RelayInv, RTypeOK
  <2>4. TruthInv'
    <3> SUFFICES ASSUME NEW u \in Sessions, NEW d \in remotes[u], writer'[d] = "run"
                 PROVE  /\ Shows(outbox'[d], view[d], "state", state[u])
                        /\ Shows(outbox'[d], view[d], "host", host'[u] # NoSocket)
      BY <1>1, <2>1 DEF TruthInv
    <3>1. /\ d \in Sockets /\ sess[d] = u /\ outbox[d] \in Seq(Frames)
          /\ writer[d] = "run"
      BY <1>1, MembersIn DEF RTypeOK
    <3>2. /\ Shows(outbox[d], view[d], "state", state[u])
          /\ Shows(outbox[d], view[d], "host", host[u] # NoSocket)
      BY <3>1 DEF RelayInv, TruthInv
    <3>3. CASE u = s
      <4>1. outbox'[d] = Append(outbox[d], frame) /\ (host'[u] # NoSocket) = FALSE
        BY <1>1, <2>1, <3>1, <3>3 DEF RTypeOK
      <4>2. QED
        BY <2>2, <3>1, <3>2, <4>1, ShowsNew, ShowsStill
    <3>4. CASE u # s
      <4>1. d \notin remotes[s]
        BY <1>1, <3>1, <3>4, MembersIn
      <4>2. outbox'[d] = outbox[d] /\ host'[u] = host[u]
        BY <1>1, <2>1, <3>1, <3>4, <4>1 DEF RTypeOK
      <4>3. QED
        BY <3>2, <4>2
    <3>5. QED
      BY <3>3, <3>4
  <2>5. FinalInv'
    <3> SUFFICES ASSUME NEW d \in HostSockets, handler'[d] = "in"
                 PROVE  IF host'[sess[d]] = d THEN Unclosed(outbox'[d])
                        ELSE writer'[d] = "run" => ClosesLast(outbox'[d])
      BY <1>1 DEF FinalInv
    <3>1. /\ d \in Sockets /\ d # c /\ handler[d] = "in" /\ writer'[d] = writer[d]
          /\ sess[d] \in Sessions
      BY <1>1, RelayAssumption DEF RTypeOK, SessionsInv
    <3>2. outbox'[d] = outbox[d]
      BY <1>1, <2>1, <3>1, MembersIn
    <3>3. host'[sess[d]] = d <=> host[sess[d]] = d
      BY <1>1, <1>3, <2>1, <3>1, RelayAssumption DEF RTypeOK
    <3>4. QED
      BY <3>1, <3>2, <3>3 DEF RelayInv, FinalInv
  <2>6. QED
    BY <2>3, <2>4, <2>5 DEF QueuesInv
<1>4. QED
  BY <1>2, <1>3 DEF Leave

-----------------------------------------------------------------------------
\* Every step keeps what is queued for the clients true and complete.
LEMMA QueuesStep ==
  ASSUME RelayInv, Next
  PROVE  QueuesInv'
<1> USE DEF regVars, sessVars, sockVars
<1>1. RTypeOK
  BY DEF RelayInv
<1>2. ASSUME Tick \/ LookUp PROVE QueuesInv'
  BY <1>2, NothingQueued DEF Tick, LookUp
<1>3. ASSUME NEW s \in Sessions, NEW i \in Ids, Create(s, i) PROVE QueuesInv'
  BY <1>3, NothingQueued DEF Create
<1>4. ASSUME NEW c \in Sockets, Accept(c) \/ Drop(c) PROVE QueuesInv'
  BY <1>1, <1>4, NothingQueued DEF Accept, Drop, RTypeOK
<1>5. ASSUME NEW c \in Sockets, NEW t \in Typed, Refuse(c, t) PROVE QueuesInv'
  BY <1>1, <1>5, NothingQueued DEF Refuse, RTypeOK
<1>6. QED
  BY <1>2, <1>3, <1>4, <1>5, JoinHostStep, JoinRemoteStep, ReceiveStep, LeaveQueues, WriterStep
     DEF Next, Leave, Writer

-----------------------------------------------------------------------------
\* Every step of the relay keeps RelayInv...
LEMMA RelayStep ==
  ASSUME RelayInv, [Next]_vars
  PROVE  RelayInv'
<1>1. CASE Next
  <2>1. RTypeOK' /\ SessionsInv'
    BY <1>1, RTypeStep, SessionsStep DEF RelayInv
  <2>2. QED
    BY <1>1, <2>1, QueuesStep DEF RelayInv, QueuesInv
<1>2. CASE UNCHANGED vars
  <2> USE <1>2 DEF vars, regVars, sessVars, sockVars
  <2>1. RTypeOK'
    BY DEF RelayInv, RTypeOK
  <2>2. SessionsInv'
    BY NobodyMoves DEF RelayInv
  <2>3. QueuesInv'
    BY NothingQueued
  <2>4. QED
    BY <2>1, <2>2, <2>3 DEF RelayInv, QueuesInv
<1>3. QED
  BY <1>1, <1>2

\* ... so that it always holds.
THEOREM RelayInvariant == Spec => []RelayInv
<1>1. Init => RelayInv
  <2> SUFFICES ASSUME Init PROVE RelayInv
    OBVIOUS
  <2> USE RelayAssumption DEF Init
  <2>1. RTypeOK
    <3>1. {i \in Ids : registry[i] # NoSession} = {}
      OBVIOUS
    <3>2. Cardinality({i \in Ids : registry[i] # NoSession}) = 0
      BY <3>1, FS_EmptySet
    <3>3. [host |-> FALSE, state |-> NoState] \in Views
      BY DEF Views
    <3>4. /\ Active \in 0..Active /\ 0 \in 0..MaxTime /\ 0 \in 0..MaxFrames
          /\ 0 <= MaxSessions
      BY DEF Active
    <3>5. \A c \in Sockets : outbox[c] \in Seq(Frames)
      BY EmptySeq
    <3>6. QED
      BY <3>2, <3>3, <3>4, <3>5 DEF RTypeOK
  <2>2. SessionsInv
    BY DEF SessionsInv, HasClients, MembersKept, Members
  <2>3. FreshInv /\ TruthInv /\ FinalInv
    BY DEF FreshInv, TruthInv, FinalInv
  <2>4. QED
    BY <2>1, <2>2, <2>3 DEF RelayInv
<1>2. QED
  BY <1>1, RelayStep, PTL DEF Spec

\* The members of a session are connections being served, and a session with
\* any is never swept from under them (join, take-over, leave and _sweep).
THEOREM MembersAreKept == Spec => []RelaySafe
<1>1. RelayInv => RelaySafe
  BY DEF RelayInv, SessionsInv, RelaySafe
<1>2. QED
  BY <1>1, RelayInvariant, PTL

\* A remote that reads all that is queued for it ends up with the session's
\* state, and knows whether there is a host.
THEOREM RemotesConverge == Spec => []ViewsConverge
<1>1. RelayInv => ViewsConverge
  <2> SUFFICES ASSUME RelayInv, NEW s \in Sessions, NEW c \in remotes[s], writer[c] = "run"
               PROVE  /\ Pending(c, "state") = state[s]
                      /\ Pending(c, "host") = (host[s] # NoSocket)
    BY DEF ViewsConverge
  <2>1. c \in Sockets /\ outbox[c] \in Seq(Frames)
    BY DEF RelayInv, RTypeOK
  <2>2. /\ Shows(outbox[c], view[c], "state", state[s])
        /\ Shows(outbox[c], view[c], "host", host[s] # NoSocket)
    BY DEF RelayInv, TruthInv
  <2>3. QED
    BY <2>1, <2>2, ShowsPending
<1>2. QED
  BY <1>1, RelayInvariant, PTL

\* A host that was replaced is told, closed, and sent nothing after that; one
\* that wasn't isn't closed.
THEOREM ReplacedHearNoMore == Spec => []ReplacedIsFinal
<1>1. RelayInv => ReplacedIsFinal
  <2> SUFFICES ASSUME RelayInv, NEW c \in HostSockets, handler[c] = "in",
                      NEW closing, closing = {i \in DOMAIN outbox[c] : outbox[c][i].type = "close"}
               PROVE  IF host[sess[c]] = c THEN closing = {}
                      ELSE writer[c] = "run" => closing = {Len(outbox[c])}
    BY DEF ReplacedIsFinal
  <2>1. IF host[sess[c]] = c THEN Unclosed(outbox[c])
        ELSE writer[c] = "run" => ClosesLast(outbox[c])
    BY DEF RelayInv, FinalInv
  <2>2. Unclosed(outbox[c]) => closing = {}
    BY DEF Unclosed
  <2>3. ClosesLast(outbox[c]) => closing = {Len(outbox[c])}
    <3>1. outbox[c] \in Seq(Frames)
      BY RelayAssumption DEF RelayInv, RTypeOK
    <3>2. outbox[c] # <<>> => Len(outbox[c]) \in DOMAIN outbox[c]
      BY <3>1, EmptySeq, LenProperties
    <3>3. QED
      BY <3>2 DEF ClosesLast
  <2>4. QED
    BY <2>1, <2>2, <2>3
<1>2. QED
  BY <1>1, RelayInvariant, PTL

-----------------------------------------------------------------------------
\* How long a session is kept.

\* When a session's idle clock is set: as its last client leaves, or as a host
\* that was replaced leaves one without clients.
LEMMA IdleClock ==
  ASSUME RelayInv, Next, NEW s \in made
  PROVE  /\ s \in made' /\ now' \in Nat /\ now <= now'
         /\ HasClients(s) /\ ~HasClients(s)' => idleSince'[s] = now /\ now' = now
         /\ ~HasClients(s) /\ ~HasClients(s)' => idleSince'[s] \in {idleSince[s], now}
         /\ ~Served(s) /\ ~Served(s)' => idleSince'[s] = idleSince[s]
         /\ Served(s) /\ ~Served(s)' => now' = now
<1> DEFINE Goal == /\ s \in made' /\ now' \in Nat /\ now <= now'
                   /\ HasClients(s) /\ ~HasClients(s)' => idleSince'[s] = now /\ now' = now
                   /\ ~HasClients(s) /\ ~HasClients(s)' => idleSince'[s] \in {idleSince[s], now}
                   /\ ~Served(s) /\ ~Served(s)' => idleSince'[s] = idleSince[s]
                   /\ Served(s) /\ ~Served(s)' => now' = now
<1> USE DEF regVars, sessVars, sockVars
<1>1. RTypeOK /\ SessionsInv /\ s \in Sessions /\ now \in Nat
  BY RelayAssumption DEF RelayInv, RTypeOK
<1>2. ASSUME UNCHANGED <<made, idleSince, host, remotes, handler, sess>>, now' \in {now, now + 1}
      PROVE  Goal
  BY <1>1, <1>2 DEF HasClients, Served
<1>3. ASSUME UNCHANGED <<now, made, idleSince, host, remotes>>
      PROVE  Goal
  BY <1>1, <1>3 DEF HasClients
<1>4. CASE Tick \/ LookUp
  BY <1>2, <1>4 DEF Tick, LookUp
<1>5. ASSUME NEW u \in Sessions, NEW i \in Ids, Create(u, i)
      PROVE  Goal
  <2>1. idleSince'[s] = idleSince[s] /\ s \in made' /\ UNCHANGED <<now, host, remotes>>
    BY <1>1, <1>5 DEF Create, RTypeOK
  <2>2. QED
    BY <1>1, <2>1 DEF HasClients
<1>6. ASSUME NEW c \in Sockets,
             \/ Accept(c) \/ (\E t \in Typed : Refuse(c, t))
             \/ Drop(c) \/ Write(c) \/ WriteLast(c)
      PROVE  Goal
  BY <1>3, <1>6 DEF Accept, Refuse, Drop, Write, WriteLast
<1>7. ASSUME NEW c \in Sockets,
             \/ (\E st \in States : Publish(c, st)) \/ Command(c)
             \/ (\E d \in Sockets : Reply(c, d))
      PROVE  Goal
  BY <1>3, <1>7 DEF Publish, Command, Reply, Receives
<1>8. ASSUME NEW c \in Sockets, NEW t \in Typed, JoinHost(c, t) \/ JoinRemote(c, t)
      PROVE  Goal
  <2>0. PICK u : u = Swept[Normalize[t]]
    OBVIOUS
  <2>1. u \in Sessions /\ Enter(c, u)
    BY <1>1, <1>8, <2>0, SweptProperties, RelayAssumption DEF JoinHost, JoinRemote
  <2>2. /\ UNCHANGED <<now, made>> /\ idleSince' = [idleSince EXCEPT ![u] = Active]
        /\ handler' = [handler EXCEPT ![c] = "in"] /\ sess' = [sess EXCEPT ![c] = u]
    BY <2>1 DEF Enter
  <2>3. CASE s = u
    <3>1. Served(s)'
      BY <1>1, <2>2, <2>3 DEF Served, RTypeOK
    <3>2. HasClients(s)'
      <4>1. CASE JoinHost(c, t)
        <5>1. host'[s] = c
          BY <1>1, <2>0, <2>3, <4>1 DEF JoinHost, RTypeOK
        <5>2. QED
          BY <5>1, RelayAssumption DEF HasClients
      <4>2. CASE JoinRemote(c, t)
        <5>1. c \in remotes'[s]
          BY <1>1, <2>0, <2>3, <4>2 DEF JoinRemote, RTypeOK
        <5>2. QED
          BY <5>1 DEF HasClients
      <4>3. QED
        BY <1>8, <4>1, <4>2
    <3>3. QED
      BY <1>1, <2>2, <3>1, <3>2
  <2>4. CASE s # u
    <3>1. idleSince'[s] = idleSince[s]
      BY <1>1, <2>2, <2>4 DEF RTypeOK
    <3>2. host'[s] = host[s] /\ remotes'[s] = remotes[s]
      BY <1>1, <1>8, <2>0, <2>4 DEF JoinHost, JoinRemote, RTypeOK
    <3>3. QED
      BY <1>1, <2>2, <3>1, <3>2 DEF HasClients
  <2>5. QED
    BY <2>3, <2>4
<1>9. ASSUME NEW c \in Sockets, Leave(c)
      PROVE  Goal
  <2>0. PICK u : u = sess[c]
    OBVIOUS
  <2>1. Left(c)
    BY <1>9 DEF Leave, LeaveHost, LeaveRemote
  <2>2. /\ u \in Sessions /\ Served(u) /\ UNCHANGED <<now, made>>
    BY <1>1, <2>0, <2>1 DEF Left, SessionsInv, Served, RTypeOK
  <2>3. CASE s = u
    <3>1. idleSince' = IF HasClients(s)' THEN idleSince ELSE [idleSince EXCEPT ![s] = now]
      <4>1. CASE LeaveHost(c)
        BY <2>0, <2>3, <4>1 DEF LeaveHost, HasClients
      <4>2. CASE LeaveRemote(c)
        BY <2>0, <2>3, <4>2 DEF LeaveRemote, HasClients
      <4>3. QED
        BY <1>9, <4>1, <4>2 DEF Leave
    <3>2. ~HasClients(s)' => idleSince'[s] = now
      BY <1>1, <3>1 DEF RTypeOK
    <3>3. QED
      BY <1>1, <2>2, <2>3, <3>2
  <2>4. CASE s # u
    <3>1. idleSince'[s] = idleSince[s] /\ host'[s] = host[s] /\ remotes'[s] = remotes[s]
      BY <1>1, <1>9, <2>0, <2>4 DEF Leave, LeaveHost, LeaveRemote, RTypeOK
    <3>2. QED
      BY <1>1, <2>2, <3>1 DEF HasClients
  <2>5. QED
    BY <2>3, <2>4
<1>10. QED
  BY <1>4, <1>5, <1>6, <1>7, <1>8, <1>9 DEF Next, Leave

\* A session that is made, the only other time its clock is set.
LEMMA NewSession ==
  ASSUME RelayInv, Next, NEW s \in made', s \notin made
  PROVE  idleSince'[s] = now /\ now' = now
<1>1. \E u \in Sessions, i \in Ids : Create(u, i)
  BY DEF Next, Tick, LookUp, Accept, Refuse, JoinHost, JoinRemote, Enter, Publish, Reply,
         Command, Receives, Drop, LeaveHost, LeaveRemote, Left, Write, WriteLast, regVars
<1>2. QED
  BY <1>1 DEF Create, RelayInv, RTypeOK

\* The two clocks the code doesn't have change with it.
LEMMA IdleStep ==
  ASSUME RelayInv, RelayInv', IdleInv, INext
  PROVE  IdleInv'
<1>1. Next /\ now \in Nat /\ made \subseteq Sessions /\ made' \subseteq Sessions
  BY RelayAssumption DEF INext, RelayInv, RTypeOK
<1>2. /\ busyAt' = [s \in Sessions |->
           IF HasClients(s) \/ s \in made' \ made THEN now ELSE busyAt[s]]
      /\ servedAt' = [s \in Sessions |->
           IF Served(s) \/ s \in made' \ made THEN now ELSE servedAt[s]]
  BY DEF INext
<1>3. busyAt' \in [Sessions -> Nat] /\ servedAt' \in [Sessions -> Nat]
  BY <1>1, <1>2 DEF IdleInv
<1>4. ASSUME NEW s \in made'
      PROVE  /\ ~HasClients(s)' => idleSince'[s] <= now' /\ busyAt'[s] <= idleSince'[s]
             /\ ~Served(s)' => idleSince'[s] <= servedAt'[s]
             /\ busyAt'[s] <= now'
  <2>1. CASE s \notin made
    <3>1. idleSince'[s] = now /\ now' = now
      BY <1>1, <2>1, NewSession
    <3>2. busyAt'[s] = now /\ servedAt'[s] = now
      BY <1>1, <1>2, <2>1
    <3>3. QED
      BY <1>1, <3>1, <3>2
  <2>2. CASE s \in made
    <3>1. /\ now' \in Nat /\ now <= now'
          /\ HasClients(s) /\ ~HasClients(s)' => idleSince'[s] = now /\ now' = now
          /\ ~HasClients(s) /\ ~HasClients(s)' => idleSince'[s] \in {idleSince[s], now}
          /\ ~Served(s) /\ ~Served(s)' => idleSince'[s] = idleSince[s]
          /\ Served(s) /\ ~Served(s)' => now' = now
      BY <1>1, <2>2, IdleClock
    <3>2. /\ s \in Sessions
          /\ busyAt'[s] = IF HasClients(s) THEN now ELSE busyAt[s]
          /\ servedAt'[s] = IF Served(s) THEN now ELSE servedAt[s]
          /\ busyAt[s] \in Nat /\ servedAt[s] \in Nat
      BY <1>1, <1>2, <2>2 DEF IdleInv
    <3>3. /\ ~HasClients(s) => idleSince[s] <= now /\ busyAt[s] <= idleSince[s]
          /\ ~Served(s) => idleSince[s] <= servedAt[s]
          /\ busyAt[s] <= now
          /\ idleSince[s] \in Nat
      BY <2>2, <3>2, RelayAssumption DEF IdleInv, RelayInv, RTypeOK, Active
    <3>4. ~HasClients(s)' => idleSince'[s] <= now' /\ busyAt'[s] <= idleSince'[s]
      BY <1>1, <3>1, <3>2, <3>3
    <3>5. ~Served(s)' => ~HasClients(s)'
      <4>1. HasClients(s)' => \E c \in Sockets : handler'[c] = "in" /\ sess'[c] = s
        BY <3>2, RelayAssumption DEF RelayInv, SessionsInv, MembersKept, Members, HasClients, RTypeOK
      <4>2. QED
        BY <4>1 DEF Served
    <3>6. ~Served(s)' => idleSince'[s] <= servedAt'[s]
      BY <1>1, <3>1, <3>2, <3>3, <3>4, <3>5
    <3>7. QED
      BY <1>1, <3>1, <3>2, <3>3, <3>4, <3>6
  <2>3. QED
    BY <2>1, <2>2
<1>5. QED
  BY <1>3, <1>4 DEF IdleInv

\* The clocks change nothing of what the relay does.
THEOREM ClocksOnly == ISpec => Spec
<1>1. IInit => Init
  BY DEF IInit
<1>2. [INext]_<<vars, busyAt, servedAt>> => [Next]_vars
  BY DEF INext
<1>3. QED
  BY <1>1, <1>2, PTL DEF ISpec, Spec

\* The clocks tell when a session became idle.
THEOREM IdleInvariant == ISpec => []IdleInv
<1>1. IInit => IdleInv
  BY DEF IInit, Init, IdleInv
<1>2. RelayInv /\ RelayInv' /\ IdleInv /\ [INext]_<<vars, busyAt, servedAt>> => IdleInv'
  <2>1. CASE INext
    BY <2>1, IdleStep
  <2>2. CASE UNCHANGED <<vars, busyAt, servedAt>>
    BY <2>2 DEF vars, regVars, sessVars, sockVars, IdleInv, HasClients, Served
  <2>3. QED
    BY <2>1, <2>2
<1>3. QED
  BY <1>1, <1>2, ClocksOnly, RelayInvariant, PTL DEF ISpec

\* A lookup finds no session that nobody has been connected to for the TTL
\* (_sweep; mark_idle_if_empty, in every path by which a client leaves).
THEOREM IdleIsDropped == ISpec => []DroppedInTime
<1>1. RelayInv /\ IdleInv => DroppedInTime
  <2> SUFFICES ASSUME RelayInv, IdleInv, NEW i \in Ids, Swept[i] # NoSession, ~Served(Swept[i])
               PROVE  now < servedAt[Swept[i]] + TTL
    BY DEF DroppedInTime
  <2>1. PICK s : s = registry[i]
    OBVIOUS
  <2>2. Swept[i] = s /\ s # NoSession /\ ~(idleSince[s] + TTL <= now)
    BY <2>1 DEF Swept
  <2>3. s \in made /\ s \in Sessions
    BY <2>1, <2>2 DEF RelayInv, SessionsInv, RTypeOK
  <2>4. idleSince[s] <= servedAt[s] /\ servedAt[s] \in Nat
    BY <2>2, <2>3 DEF IdleInv
  <2>5. idleSince[s] \in Nat /\ now \in Nat /\ TTL \in Nat
    BY <2>3, RelayAssumption DEF RelayInv, RTypeOK, Active
  <2>6. now < servedAt[s] + TTL
    BY <2>2, <2>4, <2>5
  <2>7. QED
    BY <2>2, <2>6
<1>2. QED
  BY <1>1, ClocksOnly, RelayInvariant, IdleInvariant, PTL

\* Only a session without clients for the whole TTL is dropped, "and no other".
THEOREM NoneDroppedEarly == ISpec => NotDroppedEarly
<1> DEFINE Idle == \A i \in Ids : registry[i] # NoSession /\ registry'[i] # registry[i] =>
                     ~HasClients(registry[i]) /\ busyAt[registry[i]] + TTL <= now
<1>1. RelayInv /\ IdleInv /\ [INext]_<<vars, busyAt, servedAt>>
        => [Idle]_<<vars, busyAt, servedAt>>
  <2> SUFFICES ASSUME RelayInv, IdleInv, Next, NEW i \in Ids,
                      registry[i] # NoSession, registry'[i] # registry[i]
               PROVE  ~HasClients(registry[i]) /\ busyAt[registry[i]] + TTL <= now
    BY DEF INext
  <2> DEFINE s == registry[i]
  <2>1. Swept[i] # s
    <3>1. \/ registry' \in {registry, Swept}
          \/ \E u \in Sessions, j \in Ids : registry' = [Swept EXCEPT ![j] = u] /\ Swept[j] = NoSession
      BY DEF Next, Tick, LookUp, Create, Accept, Refuse, JoinHost, JoinRemote, Enter, Publish,
             Reply, Command, Receives, Drop, LeaveHost, LeaveRemote, Left, Write, WriteLast, regVars
    <3>2. Swept \in [Ids -> Sessions \cup {NoSession}]
      BY SweptProperties DEF RelayInv
    <3>3. QED
      BY <3>1, <3>2
  <2>2. idleSince[s] + TTL <= now
    BY <2>1 DEF Swept
  <2>3. s \in made /\ s \in Sessions /\ idleSince[s] \in Nat /\ now \in 0..MaxTime
    BY RelayAssumption DEF RelayInv, SessionsInv, RTypeOK, Active
  <2>4. ~HasClients(s)
    BY <2>2, <2>3, RelayAssumption DEF RelayInv, SessionsInv, Active
  <2>5. busyAt[s] <= idleSince[s] /\ busyAt[s] \in Nat
    BY <2>3, <2>4 DEF IdleInv
  <2>6. QED
    BY <2>2, <2>3, <2>4, <2>5, RelayAssumption
<1>2. QED
  BY <1>1, ClocksOnly, RelayInvariant, IdleInvariant, PTL DEF ISpec, NotDroppedEarly
=============================================================================
