----------------------------- MODULE SessionHost -----------------------------
(***************************************************************************)
(* The pages that host a session: SessionSocket of                         *)
(* frontend/src/session/session_client.ts, session_host_presenter.ts and   *)
(* host_page_presenter.ts, against the relay of SessionRelay as a page     *)
(* sees it.  All pages are tabs of one browser, which keeps the host token *)
(* of each session it created.                                             *)
(*                                                                         *)
(* A page's WebSocket has two streams: `up`, the states it published that  *)
(* the relay has not received, and `down`, the events it has not handled.  *)
(* A lost connection may take what is in either with it.  Of the state a   *)
(* host publishes only the queue is kept, which is what a reload restores; *)
(* no state at all is an empty queue.                                      *)
(***************************************************************************)
EXTENDS Naturals, Sequences, FiniteSets, SequencesExt

CONSTANTS Pages, NoPage, Songs,
          Streamed,     \* the songs with a track: not the uploads and bundles
          MaxSessions,  \* bound on the sessions created, numbered in turn
          MaxFaults,    \* bound on lost connections, failed connects and restarts
          MaxActs,      \* bound on what the users do
          MaxSent,      \* bound on the states published and not received
          Busy          \* whether a page's state changes before its first hello

ASSUME HostAssumption ==
  /\ NoPage \notin Pages /\ IsFiniteSet(Pages) /\ Streamed \subseteq Songs
  /\ MaxSessions \in Nat \ {0} /\ MaxFaults \in Nat /\ MaxActs \in Nat /\ MaxSent \in Nat /\ Busy \in BOOLEAN

VARIABLES status,    \* store.status; "away" while the page isn't open
          ws,        \* this.ws
          timer,     \* pages with a reconnectTimer
          code,      \* store.code
          creating,  \* pages in startNewSession()'s await
          restored,  \* pages whose `restored` is set
          swapped,   \* pages whose `replacedSinceOpen` is set
          fresh,     \* pages in a new session that hasn't greeted them yet
          queue,     \* page -> its queue, as a set
          down, up,
          alive, host, saved, drawn,  \* the relay: sessions, their hosts and states
          reopened,  \* sessions a page was ever opened or reloaded at
          faults, acts

pageVars  == <<status, ws, timer, code, creating, restored, swapped, fresh, queue>>
relayVars == <<alive, host, saved, drawn>>
vars      == <<pageVars, down, up, relayVars, reopened, faults, acts>>

Codes == 1 .. MaxSessions
Queues == SUBSET Songs

Opened     == [type |-> "opened"]
Hello(q)   == [type |-> "hello", queue |-> q]
Closed(by) == [type |-> "closed", by |-> by]
Events == {Opened} \union {Hello(q) : q \in Queues}
                   \union {Closed(by) : by \in {"lost", "replaced", "missing"}}

\* One page hosts the first session, about to connect.
Init ==
  /\ \E p \in Pages :
       /\ status = [q \in Pages |-> IF q = p THEN "connecting" ELSE "away"]
       /\ ws = [q \in Pages |-> IF q = p THEN "connecting" ELSE "none"]
  /\ timer = {} /\ creating = {} /\ restored = {} /\ swapped = {} /\ fresh = {}
  /\ code = [p \in Pages |-> 1] /\ queue = [p \in Pages |-> {}]
  /\ down = [p \in Pages |-> <<>>] /\ up = [p \in Pages |-> <<>>]
  /\ alive = {1} /\ host = [c \in Codes |-> NoPage] /\ saved = [c \in Codes |-> {}] /\ drawn = 1
  /\ reopened = {}
  /\ faults = 0 /\ acts = 0

(***************************************************************************)
(* The relay.                                                              *)
(***************************************************************************)

\* It accepts first, and then turns the page away or lets it take the session
\* over.
Admit(p) ==
  /\ ws[p] = "connecting" /\ down[p] = <<>>
  /\ LET c == code[p] IN
       IF c \in alive
         THEN /\ down' = [q \in Pages |-> CASE q = p -> <<Opened, Hello(saved[c])>>
                                            [] q # p /\ q = host[c] -> Append(down[q], Closed("replaced"))
                                            [] OTHER -> down[q]]
              /\ host' = [host EXCEPT ![c] = p]
         ELSE /\ down' = [down EXCEPT ![p] = <<Opened, Closed("missing")>>]
              /\ UNCHANGED host
  /\ UNCHANGED <<pageVars, up, alive, saved, drawn, reopened, faults, acts>>

\* A state from the session's host; one it replaced isn't listened to.
Receive(p) ==
  /\ up[p] # <<>>
  /\ up' = [up EXCEPT ![p] = Tail(@)]
  /\ saved' = IF host[code[p]] = p THEN [saved EXCEPT ![code[p]] = Head(up[p])] ELSE saved
  /\ UNCHANGED <<pageVars, down, alive, host, drawn, reopened, faults, acts>>

Fault == faults < MaxFaults /\ faults' = faults + 1 /\ UNCHANGED <<pageVars, reopened, acts>>

\* The host's place, once its connection is gone.
HostLeft(p) == [c \in Codes |-> IF host[c] = p THEN NoPage ELSE host[c]]

Connected(p) == ws[p] = "open" \/ down[p] # <<>>

\* A connection fails, or is lost with what it still had to deliver.
Lose(p) ==
  /\ Fault /\ ws[p] # "none"
  /\ \E n \in 0 .. Len(down[p]) : down' = [down EXCEPT ![p] = Append(SubSeq(@, 1, n), Closed("lost"))]
  /\ up' = [up EXCEPT ![p] = <<>>]
  /\ host' = HostLeft(p)
  /\ UNCHANGED <<alive, saved, drawn>>

\* The relay restarts, and has no sessions.
Restart ==
  /\ Fault
  /\ alive' = {} /\ host' = [c \in Codes |-> NoPage] /\ saved' = [c \in Codes |-> {}]
  /\ down' = [p \in Pages |-> IF Connected(p) THEN Append(down[p], Closed("lost")) ELSE down[p]]
  /\ up' = [p \in Pages |-> <<>>]
  /\ UNCHANGED drawn

(***************************************************************************)
(* The page's socket.                                                      *)
(***************************************************************************)

Event(p, type) ==
  /\ down[p] # <<>> /\ Head(down[p]).type = type
  /\ UNCHANGED <<relayVars, reopened, faults, acts>>

\* connect()
Connect(p) == ws' = [ws EXCEPT ![p] = "connecting"] /\ status' = [status EXCEPT ![p] = "connecting"]

OnOpen(p) ==
  /\ Event(p, "opened")
  /\ ws' = [ws EXCEPT ![p] = "open"] /\ status' = [status EXCEPT ![p] = "open"]
  /\ swapped' = swapped \ {p}
  /\ down' = [down EXCEPT ![p] = Tail(@)]
  /\ UNCHANGED <<timer, code, creating, restored, fresh, queue, up>>

\* restore(), the first time: the songs that can be played again from their
\* track.  An upload or a bundle has none, so that the page comes back without.
Restored(p) ==
  IF p \in restored \/ queue[p] # {} THEN queue
  ELSE [queue EXCEPT ![p] = Head(down[p]).queue \intersect Streamed]

\* Mutant: restores, but after it has published.
OnHelloPublishFirst(p) ==
  /\ Event(p, "hello")
  /\ down' = [down EXCEPT ![p] = Tail(@)]
  /\ restored' = restored \union {p} /\ fresh' = fresh \ {p}
  /\ queue' = Restored(p)
  /\ up' = [up EXCEPT ![p] = Append(@, queue[p])]
  /\ UNCHANGED <<status, ws, timer, code, creating, swapped>>

\* Mutant: only a page that just loaded publishes.
OnHelloQuiet(p) ==
  /\ Event(p, "hello")
  /\ down' = [down EXCEPT ![p] = Tail(@)]
  /\ restored' = restored \union {p} /\ fresh' = fresh \ {p}
  /\ queue' = Restored(p)
  /\ up' = IF p \in restored THEN up ELSE [up EXCEPT ![p] = Append(@, queue'[p])]
  /\ UNCHANGED <<status, ws, timer, code, creating, swapped>>

\* restore(), the first time, and publish().
OnHello(p) ==
  /\ Event(p, "hello")
  /\ down' = [down EXCEPT ![p] = Tail(@)]
  /\ restored' = restored \union {p} /\ fresh' = fresh \ {p}
  /\ queue' = Restored(p)
  /\ up' = [up EXCEPT ![p] = Append(@, queue'[p])]
  /\ UNCHANGED <<status, ws, timer, code, creating, swapped>>

\* onStatus(): a lost session is replaced, once per open.
Swaps(p, by) == by = "missing" /\ p \notin swapped

\* Mutant: a host that was replaced reconnects.
OnCloseReconnects(p) ==
  /\ Event(p, "closed")
  /\ ws' = [ws EXCEPT ![p] = "none"]
  /\ down' = [down EXCEPT ![p] = <<>>] /\ up' = [up EXCEPT ![p] = <<>>]
  /\ status' = [status EXCEPT ![p] = "connecting"] /\ timer' = timer \union {p}
  /\ UNCHANGED <<code, creating, restored, swapped, fresh, queue>>

\* Mutant: tries a lost session again, and replaces it.
OnCloseTriesBoth(p) ==
  /\ Event(p, "closed")
  /\ ws' = [ws EXCEPT ![p] = "none"]
  /\ down' = [down EXCEPT ![p] = <<>>] /\ up' = [up EXCEPT ![p] = <<>>]
  /\ LET by == Head(down[p]).by
     IN /\ timer' = IF by # "replaced" THEN timer \union {p} ELSE timer
        /\ creating' = IF Swaps(p, by) THEN creating \union {p} ELSE creating
        /\ swapped' = IF Swaps(p, by) THEN swapped \union {p} ELSE swapped
        /\ status' = [status EXCEPT ![p] = IF by = "lost" \/ Swaps(p, by) THEN "connecting" ELSE by]
  /\ UNCHANGED <<code, restored, fresh, queue>>

\* onclose: to be tried again, replaced, or final.
OnClose(p) ==
  /\ Event(p, "closed")
  /\ ws' = [ws EXCEPT ![p] = "none"]
  /\ down' = [down EXCEPT ![p] = <<>>] /\ up' = [up EXCEPT ![p] = <<>>]
  /\ LET by == Head(down[p]).by
     IN /\ timer' = IF by = "lost" THEN timer \union {p} ELSE timer
        /\ creating' = IF Swaps(p, by) THEN creating \union {p} ELSE creating
        /\ swapped' = IF Swaps(p, by) THEN swapped \union {p} ELSE swapped
        /\ status' = [status EXCEPT ![p] = IF by = "lost" \/ Swaps(p, by) THEN "connecting" ELSE by]
  /\ UNCHANGED <<code, restored, fresh, queue>>

Reconnect(p) ==
  /\ p \in timer /\ timer' = timer \ {p} /\ Connect(p)
  /\ UNCHANGED <<code, creating, restored, swapped, fresh, queue, down, up, relayVars, reopened, faults, acts>>

\* startNewSession() after its await: adopt() and connect()...
Created(p) ==
  /\ p \in creating /\ drawn < MaxSessions
  /\ drawn' = drawn + 1 /\ alive' = alive \union {drawn + 1}
  /\ creating' = creating \ {p} /\ restored' = restored \union {p} /\ fresh' = fresh \union {p}
  /\ code' = [code EXCEPT ![p] = drawn + 1]
  /\ Connect(p)
  /\ UNCHANGED <<timer, swapped, queue, down, up, host, saved, reopened, faults, acts>>

\* ... or the session is over.
CreateFailed(p) ==
  /\ p \in creating
  /\ creating' = creating \ {p} /\ status' = [status EXCEPT ![p] = "missing"]
  /\ UNCHANGED <<ws, timer, code, restored, swapped, fresh, queue, down, up, relayVars, reopened, faults, acts>>

(***************************************************************************)
(* The users.                                                              *)
(***************************************************************************)

\* publish(): sent if the socket is open.
Sent(p, q) == up' = IF ws[p] = "open" THEN [up EXCEPT ![p] = Append(@, q)] ELSE up

Act == acts < MaxActs /\ acts' = acts + 1 /\ UNCHANGED <<relayVars, reopened, faults>>

\* Songs are queued, or something else is changed: the reaction publishes.
Change(p, q) ==
  /\ Act /\ status[p] # "away" /\ queue[p] \subseteq q /\ Len(up[p]) < MaxSent
  /\ Busy \/ p \in restored
  /\ queue' = [queue EXCEPT ![p] = q] /\ Sent(p, q)
  /\ UNCHANGED <<status, ws, timer, code, creating, restored, swapped, fresh, down>>

\* "Hosted elsewhere": reclaim().
Reclaim(p) ==
  /\ Act /\ status[p] = "replaced" /\ Connect(p)
  /\ UNCHANGED <<timer, code, creating, restored, swapped, fresh, queue, down, up>>

\* "Session ended": startNewSession() again.
StartAnew(p) ==
  /\ Act /\ status[p] = "missing"
  /\ creating' = creating \union {p} /\ status' = [status EXCEPT ![p] = "connecting"]
  /\ UNCHANGED <<ws, timer, code, restored, swapped, fresh, queue, down, up>>

\* The page is opened at session c, or reloaded; if there is no such session
\* it says so, and is no host.
Open(p, c) ==
  /\ acts < MaxActs /\ acts' = acts + 1 /\ UNCHANGED <<alive, saved, drawn, faults>>
  /\ status[p] # "away" => c = code[p]
  /\ p \notin creating
  /\ code' = [code EXCEPT ![p] = c]
  /\ status' = [status EXCEPT ![p] = IF c \in alive THEN "connecting" ELSE "away"]
  /\ ws' = [ws EXCEPT ![p] = IF c \in alive THEN "connecting" ELSE "none"]
  /\ timer' = timer \ {p} /\ restored' = restored \ {p} /\ swapped' = swapped \ {p} /\ fresh' = fresh \ {p}
  /\ queue' = [queue EXCEPT ![p] = {}]
  /\ down' = [down EXCEPT ![p] = <<>>] /\ up' = [up EXCEPT ![p] = <<>>]
  /\ host' = HostLeft(p)
  /\ reopened' = reopened \union {c}
  /\ UNCHANGED creating

Goes(p) ==
  \/ Admit(p) \/ Receive(p) \/ OnOpen(p) \/ OnHello(p) \/ OnClose(p)
  \/ Reconnect(p) \/ Created(p) \/ CreateFailed(p)

Next ==
  \/ Restart
  \/ \E p \in Pages :
       \/ Goes(p) \/ Lose(p) \/ Reclaim(p) \/ StartAnew(p)
       \/ \E q \in Queues : Change(p, q)
       \/ \E c \in 1 .. drawn : Open(p, c)

Spec == Init /\ [][Next]_vars

\* Browsers and the relay do what they have to; users and faults may stop.
FairSpec == Spec /\ \A p \in Pages : WF_vars(Goes(p))

(***************************************************************************)
(* Properties.                                                             *)
(***************************************************************************)

\* A page has a timer or a connection, never both, and nothing is on its way
\* to or from a page without one.
HTypeOK ==
  /\ status \in [Pages -> {"away", "connecting", "open", "missing", "replaced"}]
  /\ ws \in [Pages -> {"none", "connecting", "open"}]
  /\ code \in [Pages -> Codes] /\ queue \in [Pages -> Queues] /\ saved \in [Codes -> Queues]
  /\ restored \subseteq Pages /\ swapped \subseteq Pages /\ fresh \subseteq Pages
  /\ reopened \subseteq Codes
  /\ \A p \in timer \union creating : ws[p] = "none" /\ down[p] = <<>> /\ up[p] = <<>>
  /\ timer \intersect creating = {}
  /\ \A p \in Pages : down[p] \in Seq(Events) /\ up[p] \in Seq(Queues)
  /\ \A p \in Pages : ws[p] = "open" => status[p] = "open"
  /\ alive \subseteq 1 .. drawn /\ drawn <= MaxSessions
  /\ \A c \in Codes : host[c] # NoPage => c \in alive /\ code[host[c]] = c
  /\ \A c \in Codes : saved[c] # {} => c \in alive

\* Nothing is under way: what each page shows is final until somebody acts.
Quiet ==
  /\ timer = {} /\ creating = {}
  /\ \A p \in Pages : down[p] = <<>> /\ up[p] = <<>> /\ ws[p] # "connecting"

\* Once quiet, exactly the pages that say they are open host their sessions,
\* and the relay, so every remote, has their queues as they are: whatever was
\* changed while a page was cut off or replaced.  (onFrame(), publish(),
\* onclose.)
HostsAgreeOnceQuiet ==
  Quiet => \A p \in Pages :
             /\ (status[p] = "open") <=> (host[code[p]] = p)
             /\ status[p] = "open" => saved[code[p]] = queue[p]

\* A session hosted by one page never loses a queued song, however often it is
\* cut off; nor, when it is reloaded or opened anew, one that has a track: what
\* it publishes then holds what it found.  (onFrame(): restore() before
\* publish(); restore() leaves out what has no track; Busy is FALSE.)
HostedBy(c) == {p \in Pages : status[p] # "away" /\ code[p] = c}

Lasting(c) == IF c \in reopened THEN Streamed ELSE Songs

QueueKept ==
  [][\A c \in alive \intersect alive' : Cardinality(HostedBy(c)) = 1 =>
       saved[c] \intersect Lasting(c) \subseteq saved'[c]]_vars

\* When users and faults leave them alone the pages come to rest: two hosts
\* don't take a session from each other for ever, and no page goes on creating
\* sessions.  (onclose: a replaced host stays away until reclaim().)
Settles == <>[]Quiet

\* "Once per open: a relay that rejects even a fresh session would otherwise
\* spin creating them."  A page whose new session turned it away doesn't create
\* another of itself.  Violated: the relay accepts before it turns a page away,
\* so the page has been open in between.  (onStatus().)
SpinStops ==
  [][\A p \in fresh : p \in creating' \ creating => status[p] = "missing"]_vars

\* Types, and pages and relay that agree once quiet.
HostsSafe == HTypeOK /\ HostsAgreeOnceQuiet
=============================================================================
