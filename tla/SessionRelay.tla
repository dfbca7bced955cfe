---------------------------- MODULE SessionRelay ----------------------------
(***************************************************************************)
(* aligner/app/sessions.py: karaoke sessions, each with one playback host  *)
(* and any number of remotes, through a relay that forwards payloads.      *)
(*                                                                         *)
(* A socket's handler runs without interruption from registry.get() to its *)
(* first `await ws.receive()`, and from each received frame to the next:   *)
(* each is one action.  Its writer is a task of its own, which takes one   *)
(* item off the outbox at a time.  A socket is used for one connection.    *)
(*                                                                         *)
(* Sessions are objects: a swept session's id may be drawn again while a   *)
(* replaced host's handler still holds the old object.                     *)
(***************************************************************************)
EXTENDS Naturals, Sequences, FiniteSets, SequencesExt

CONSTANTS Sessions, NoSession,
          Ids,          \* canonical session ids
          Typed,        \* ids as users type them
          Normalize,    \* normalize_session_id
          Sockets, NoSocket,
          HostSockets,  \* those opened with role=host
          States,       \* what hosts publish
          NoState,      \* a session's state before that
          TTL,          \* SESSION_IDLE_TTL_SEC
          MaxSessions,  \* MAX_SESSIONS
          MaxTime,      \* bound on the clock
          MaxFrames     \* bound on the frames clients send

ASSUME RelayAssumption ==
  /\ NoSession \notin Sessions /\ NoSocket \notin Sockets /\ NoState \notin States
  /\ HostSockets \subseteq Sockets
  /\ Normalize \in [Typed -> Ids]
  /\ TTL \in Nat \ {0} /\ MaxSessions \in Nat /\ MaxTime \in Nat /\ MaxFrames \in Nat
  /\ IsFiniteSet(Ids)

VARIABLES now,       \* the registry's clock
          registry,  \* _sessions: id -> session
          made,      \* sessions created so far
          idleSince, \* session -> when it became idle; Active while in use
          host,      \* session -> its host's socket
          remotes,   \* session -> its remotes' sockets
          state,     \* session -> the state last published
          handler,   \* socket -> where session_socket is
          sess,      \* socket -> the session its handler holds
          outbox,    \* socket -> frames its writer hasn't sent
          writer,    \* socket -> its writer task
          wire,      \* socket -> whether the connection is up
          view,      \* socket -> what its client was last told
          sent       \* frames received from clients so far

regVars  == <<now, registry, made, idleSince>>
sessVars == <<host, remotes, state>>
sockVars == <<handler, sess, outbox, writer, wire, view>>
vars     == <<regVars, sessVars, sockVars, sent>>

Active == MaxTime + 1   \* idle_since = None

Hello(h, st)  == [type |-> "hello", host |-> h, state |-> st]
HostFrame(h)  == [type |-> "host", host |-> h]
StateFrame(s) == [type |-> "state", state |-> s]
Simple(t)     == [type |-> t]

Frames ==
  {Hello(h, st) : h \in BOOLEAN, st \in States \cup {NoState}}
    \cup {HostFrame(h) : h \in BOOLEAN}
    \cup {StateFrame(st) : st \in States}
    \cup {Simple(t) : t \in {"reply", "command", "replaced", "close"}}

Views == [host : BOOLEAN, state : States \cup {NoState}]

RTypeOK ==
  /\ now \in 0..MaxTime
  /\ registry \in [Ids -> Sessions \cup {NoSession}]
  /\ Cardinality({i \in Ids : registry[i] # NoSession}) <= MaxSessions
  /\ made \subseteq Sessions
  /\ idleSince \in [Sessions -> 0..Active]
  /\ host \in [Sessions -> HostSockets \cup {NoSocket}]
  /\ remotes \in [Sessions -> SUBSET (Sockets \ HostSockets)]
  /\ state \in [Sessions -> States \cup {NoState}]
  /\ handler \in [Sockets -> {"new", "accepted", "in", "done"}]
  /\ sess \in [Sockets -> Sessions \cup {NoSession}]
  /\ outbox \in [Sockets -> Seq(Frames)]
  /\ writer \in [Sockets -> {"none", "run", "done"}]
  /\ wire \in [Sockets -> {"up", "down"}]
  /\ view \in [Sockets -> Views]
  /\ sent \in 0..MaxFrames

Init ==
  /\ now = 0 /\ sent = 0
  /\ registry = [i \in Ids |-> NoSession]
  /\ made = {}
  /\ idleSince = [s \in Sessions |-> Active]
  /\ host = [s \in Sessions |-> NoSocket]
  /\ remotes = [s \in Sessions |-> {}]
  /\ state = [s \in Sessions |-> NoState]
  /\ handler = [c \in Sockets |-> "new"]
  /\ sess = [c \in Sockets |-> NoSession]
  /\ outbox = [c \in Sockets |-> <<>>]
  /\ writer = [c \in Sockets |-> "none"]
  /\ wire = [c \in Sockets |-> "up"]
  /\ view = [c \in Sockets |-> [host |-> FALSE, state |-> NoState]]

-----------------------------------------------------------------------------
\* The registry.

\* Mutant: a session with clients, idle_since None, counts as idle.
SweptWithClients ==
  [i \in Ids |-> IF registry[i] # NoSession /\ now >= TTL /\ idleSince[registry[i]] % Active <= now - TTL
                 THEN NoSession ELSE registry[i]]

\* _sweep(): drop the sessions that have been idle for the TTL.
Swept ==
  [i \in Ids |-> IF registry[i] # NoSession /\ idleSince[registry[i]] + TTL <= now
                 THEN NoSession ELSE registry[i]]

HasClients(s) == host[s] # NoSocket \/ remotes[s] # {}

Tick ==
  /\ now < MaxTime
  /\ now' = now + 1
  /\ UNCHANGED <<registry, made, idleSince, sessVars, sockVars, sent>>

\* create(): a session under an id not taken, unless there are too many.
Create(s, i) ==
  /\ s \notin made
  /\ Swept[i] = NoSession
  /\ Cardinality({j \in Ids : Swept[j] # NoSession}) < MaxSessions
  /\ registry' = [Swept EXCEPT ![i] = s]
  /\ made' = made \cup {s}
  /\ idleSince' = [idleSince EXCEPT ![s] = now]
  /\ UNCHANGED <<now, sessVars, sockVars, sent>>

\* GET /sessions/<id>, a job asking for its lane, a refused creation: all a
\* registry lookup does is sweep.
LookUp ==
  /\ registry' = Swept
  /\ UNCHANGED <<now, made, idleSince, sessVars, sockVars, sent>>

-----------------------------------------------------------------------------
\* The sockets.

\* Outboxes after queueing `frame` for each of `cs`.
SendTo(box, cs, frame) ==
  [c \in Sockets |-> IF c \in cs THEN Append(box[c], frame) ELSE box[c]]

\* session_socket up to `await ws.accept()`.
Accept(c) ==
  /\ handler[c] = "new"
  /\ handler' = [handler EXCEPT ![c] = "accepted"]
  /\ UNCHANGED <<regVars, sessVars, sess, outbox, writer, wire, view, sent>>

\* No such session (4404), or a host without its token (4403).
Refuse(c, typed) ==
  /\ handler[c] = "accepted"
  /\ c \notin HostSockets => Swept[Normalize[typed]] = NoSession
  /\ registry' = Swept
  /\ handler' = [handler EXCEPT ![c] = "done"]
  /\ wire' = [wire EXCEPT ![c] = "down"]
  /\ UNCHANGED <<now, made, idleSince, sessVars, sess, outbox, writer, view, sent>>

\* What joining a session does to the client itself.
Enter(c, s) ==
  /\ registry' = Swept
  /\ handler' = [handler EXCEPT ![c] = "in"]
  /\ sess' = [sess EXCEPT ![c] = s]
  /\ writer' = [writer EXCEPT ![c] = "run"]
  /\ idleSince' = [idleSince EXCEPT ![s] = Active]
  /\ UNCHANGED <<now, made, state, wire, view, sent>>

Greet(c, s) == SendTo(outbox, {c}, Hello(host[s] # NoSocket, state[s]))

\* Mutant: a takeover isn't told from an arrival by the remotes, which hear
\* of a host only if there was none.
JoinHostUnheard(c, typed) ==
  LET s == Swept[Normalize[typed]]
      greeted == Greet(c, s)
  IN /\ handler[c] = "accepted" /\ c \in HostSockets /\ s # NoSession
     /\ Enter(c, s)
     /\ host' = [host EXCEPT ![s] = c]
     /\ outbox' = IF host[s] # NoSocket
                  THEN SendTo(SendTo(greeted, {host[s]}, Simple("replaced")), {host[s]}, Simple("close"))
                  ELSE greeted
     /\ UNCHANGED remotes

\* A host with the token joins: it takes over from the one before, which is
\* told and closed, or else the remotes hear that there is a host now.
JoinHost(c, typed) ==
  LET s == Swept[Normalize[typed]]
      greeted == Greet(c, s)
  IN /\ handler[c] = "accepted" /\ c \in HostSockets /\ s # NoSession
     /\ Enter(c, s)
     /\ host' = [host EXCEPT ![s] = c]
     /\ outbox' = IF host[s] # NoSocket
                  THEN SendTo(SendTo(greeted, {host[s]}, Simple("replaced")), {host[s]}, Simple("close"))
                  ELSE SendTo(greeted, remotes[s], HostFrame(TRUE))
     /\ UNCHANGED remotes

\* Mutant: the role isn't looked at.
JoinAnyRole(c, typed) ==
  LET s == Swept[Normalize[typed]]
  IN /\ handler[c] = "accepted" /\ s # NoSession
     /\ Enter(c, s)
     /\ remotes' = [remotes EXCEPT ![s] = @ \cup {c}]
     /\ outbox' = Greet(c, s)
     /\ UNCHANGED host

JoinRemote(c, typed) ==
  LET s == Swept[Normalize[typed]]
  IN /\ handler[c] = "accepted" /\ c \notin HostSockets /\ s # NoSession
     /\ Enter(c, s)
     /\ remotes' = [remotes EXCEPT ![s] = @ \cup {c}]
     /\ outbox' = Greet(c, s)
     /\ UNCHANGED host

\* _route(): the frames of a host that was replaced are ignored, as are frames
\* of the wrong role and malformed ones.
Receives(c) ==
  /\ handler[c] = "in" /\ sent < MaxFrames
  /\ sent' = sent + 1
  /\ UNCHANGED <<regVars, host, remotes, handler, sess, writer, wire, view>>

Publish(c, st) ==
  LET s == sess[c]
  IN /\ Receives(c) /\ c \in HostSockets /\ host[s] = c
     /\ state' = [state EXCEPT ![s] = st]
     /\ outbox' = SendTo(outbox, remotes[s], StateFrame(st))

Reply(c, to) ==
  /\ Receives(c) /\ c \in HostSockets /\ host[sess[c]] = c
  /\ outbox' = SendTo(outbox, remotes[sess[c]] \cap {to}, Simple("reply"))
  /\ UNCHANGED state

Command(c) ==
  /\ Receives(c) /\ c \notin HostSockets /\ host[sess[c]] # NoSocket
  /\ outbox' = SendTo(outbox, {host[sess[c]]}, Simple("command"))
  /\ UNCHANGED state

\* The connection breaks, or its client closes it.
Drop(c) ==
  /\ handler[c] = "in" /\ wire[c] = "up"
  /\ wire' = [wire EXCEPT ![c] = "down"]
  /\ UNCHANGED <<regVars, sessVars, handler, sess, outbox, writer, view, sent>>

\* ws.receive() says so: `finally`.  A host that was replaced leaves the new
\* one alone.
Left(c) ==
  /\ handler[c] = "in" /\ wire[c] = "down"
  /\ handler' = [handler EXCEPT ![c] = "done"]
  /\ writer' = [writer EXCEPT ![c] = "done"]
  /\ UNCHANGED <<now, registry, made, state, sess, wire, view, sent>>

\* Mutants: whichever host leaves, the session has none; idle_since isn't set.
LeaveAnyHost(c) ==
  LET s == sess[c]
  IN /\ Left(c) /\ c \in HostSockets
     /\ host' = [host EXCEPT ![s] = NoSocket]
     /\ outbox' = IF host[s] = c THEN SendTo(outbox, remotes[s], HostFrame(FALSE)) ELSE outbox
     /\ idleSince' = IF remotes[s] = {} THEN [idleSince EXCEPT ![s] = now] ELSE idleSince
     /\ UNCHANGED remotes

LeaveHostActive(c) ==
  LET s == sess[c]
      gone == host[s] = c
  IN /\ Left(c) /\ c \in HostSockets
     /\ host' = IF gone THEN [host EXCEPT ![s] = NoSocket] ELSE host
     /\ outbox' = IF gone THEN SendTo(outbox, remotes[s], HostFrame(FALSE)) ELSE outbox
     /\ UNCHANGED <<remotes, idleSince>>

LeaveHost(c) ==
  LET s == sess[c]
      gone == host[s] = c
  IN /\ Left(c) /\ c \in HostSockets
     /\ host' = IF gone THEN [host EXCEPT ![s] = NoSocket] ELSE host
     /\ outbox' = IF gone THEN SendTo(outbox, remotes[s], HostFrame(FALSE)) ELSE outbox
     /\ idleSince' = IF host'[s] = NoSocket /\ remotes[s] = {}
                     THEN [idleSince EXCEPT ![s] = now] ELSE idleSince
     /\ UNCHANGED remotes

\* Mutant: mark_idle_if_empty looks at the remotes only.
LeaveRemoteIdle(c) ==
  LET s == sess[c]
  IN /\ Left(c) /\ c \notin HostSockets
     /\ remotes' = [remotes EXCEPT ![s] = @ \ {c}]
     /\ idleSince' = IF remotes'[s] = {} THEN [idleSince EXCEPT ![s] = now] ELSE idleSince
     /\ UNCHANGED <<host, outbox>>

LeaveRemote(c) ==
  LET s == sess[c]
  IN /\ Left(c) /\ c \notin HostSockets
     /\ remotes' = [remotes EXCEPT ![s] = @ \ {c}]
     /\ idleSince' = IF host[s] = NoSocket /\ remotes'[s] = {}
                     THEN [idleSince EXCEPT ![s] = now] ELSE idleSince
     /\ UNCHANGED <<host, outbox>>

\* What a client makes of a frame.
Told(v, frame) ==
  CASE frame.type = "hello" -> [host |-> frame.host, state |-> frame.state]
    [] frame.type = "host"  -> [v EXCEPT !.host = frame.host]
    [] frame.type = "state" -> [v EXCEPT !.state = frame.state]
    [] OTHER -> v

\* _write(): send the oldest item...
Write(c) ==
  /\ writer[c] = "run" /\ wire[c] = "up"
  /\ outbox[c] # <<>> /\ Head(outbox[c]).type # "close"
  /\ outbox' = [outbox EXCEPT ![c] = Tail(@)]
  /\ view' = [view EXCEPT ![c] = Told(@, Head(outbox[c]))]
  /\ UNCHANGED <<regVars, sessVars, handler, sess, writer, wire, sent>>

\* ... or close, and stop; or stop because the connection is down.
WriteLast(c) ==
  /\ writer[c] = "run" /\ outbox[c] # <<>>
  /\ wire[c] = "down" \/ Head(outbox[c]).type = "close"
  /\ outbox' = [outbox EXCEPT ![c] = Tail(@)]
  /\ writer' = [writer EXCEPT ![c] = "done"]
  /\ wire' = [wire EXCEPT ![c] = "down"]
  /\ UNCHANGED <<regVars, sessVars, handler, sess, view, sent>>

-----------------------------------------------------------------------------
Writer(c) == Write(c) \/ WriteLast(c)
Leave(c)  == LeaveHost(c) \/ LeaveRemote(c)

Next ==
  \/ Tick \/ LookUp
  \/ \E s \in Sessions, i \in Ids : Create(s, i)
  \/ \E c \in Sockets :
       \/ Accept(c)
       \/ \E t \in Typed : Refuse(c, t) \/ JoinHost(c, t) \/ JoinRemote(c, t)
       \/ \E st \in States : Publish(c, st)
       \/ \E d \in Sockets : Reply(c, d)
       \/ Command(c)
       \/ Drop(c) \/ LeaveHost(c) \/ LeaveRemote(c)
       \/ Write(c) \/ WriteLast(c)

Spec == Init /\ [][Next]_vars

-----------------------------------------------------------------------------
Members(s) == remotes[s] \cup (IF host[s] = NoSocket THEN {} ELSE {host[s]})

\* The members of a session are connections still being served, and a session
\* with any is never swept from under them, though joins, takeovers and leaves
\* each set idle_since: it stays where new clients and GPU jobs will find it.
MembersKept ==
  \A s \in Sessions : \A c \in Members(s) :
    /\ handler[c] = "in" /\ sess[c] = s
    /\ \E i \in Ids : registry[i] = s

\* A remote that reads all that is queued for it ends up with the truth: the
\* session's state and whether it has a host, whatever was published and
\* whoever took over or left between its joining and now.
About(c, field) == {i \in DOMAIN outbox[c] : field \in DOMAIN outbox[c][i]}
Pending(c, field) ==
  IF About(c, field) = {} THEN view[c][field]
  ELSE outbox[c][CHOOSE i \in About(c, field) : \A j \in About(c, field) : j <= i][field]

ViewsConverge ==
  \A s \in Sessions : \A c \in remotes[s] :
    writer[c] = "run" =>
      /\ Pending(c, "state") = state[s]
      /\ Pending(c, "host") = (host[s] # NoSocket)

\* A host that was replaced is told so, then closed, and nothing is queued for
\* it after that; a host that wasn't isn't closed.
ReplacedIsFinal ==
  \A c \in HostSockets : handler[c] = "in" =>
    LET closing == {i \in DOMAIN outbox[c] : outbox[c][i].type = "close"}
    IN IF host[sess[c]] = c THEN closing = {}
       ELSE writer[c] = "run" => closing = {Len(outbox[c])}

\* Types, and members that are served, and not swept.
RelaySafe == RTypeOK /\ MembersKept

(***************************************************************************)
(* How long a session is kept: the same, with two clocks per session       *)
(* beside it that the code doesn't have.                                   *)
(***************************************************************************)
VARIABLES busyAt,     \* session -> when it last had a host or remote, or was made
          servedAt    \* session -> when a handler, a replaced host's too, last held it

Served(s) == \E c \in Sockets : handler[c] = "in" /\ sess[c] = s

IInit ==
  /\ Init
  /\ busyAt = [s \in Sessions |-> 0]
  /\ servedAt = [s \in Sessions |-> 0]

INext ==
  /\ Next
  /\ busyAt' = [s \in Sessions |->
       IF HasClients(s) \/ s \in made' \ made THEN now ELSE busyAt[s]]
  /\ servedAt' = [s \in Sessions |->
       IF Served(s) \/ s \in made' \ made THEN now ELSE servedAt[s]]

ISpec == IInit /\ [][INext]_<<vars, busyAt, servedAt>>

\* "A session with no connected clients for an hour is dropped", and no other:
\* one that goes has been without a host and remotes for the whole TTL.
NotDroppedEarly ==
  [][\A i \in Ids : registry[i] # NoSession /\ registry'[i] # registry[i] =>
       ~HasClients(registry[i]) /\ busyAt[registry[i]] + TTL <= now]_<<vars, busyAt, servedAt>>

\* ... and a lookup finds none that nobody has been connected to for the TTL.
DroppedInTime ==
  \A i \in Ids : Swept[i] # NoSession =>
    Served(Swept[i]) \/ now < servedAt[Swept[i]] + TTL

\* For the run: what is typed otherwise names some session too, as "o1" does "01".
MCNormalize == [t \in Typed |-> IF t \in Ids THEN t ELSE CHOOSE i \in Ids : TRUE]
=============================================================================
