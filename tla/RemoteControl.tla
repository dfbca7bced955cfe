---------------------------- MODULE RemoteControl ----------------------------
(***************************************************************************)
(* A phone as a remote: frontend/src/session/remote/ over the relay        *)
(* (SessionRelay) to what session_host_presenter.ts does with its          *)
(* commands.  Sliders: a drag shows its own value (a draft) and sends it,  *)
(* at most one in 150 ms; the host's next state after the release takes    *)
(* over.  Searches run on the host, and are answered or given up.          *)
(*                                                                         *)
(* up and down are the two directions of the connection, in order; what is *)
(* on the way is lost with it.  The volume can be dragged always, the seek *)
(* bar and the track's fader while the host has a song.                    *)
(***************************************************************************)
EXTENDS Naturals, Sequences, FiniteSets, SequencesExt

CONSTANTS Sliders,      \* of {"seek", "volume", "track"}
          Values,       \* where a slider is dragged to
          MaxSearches, MaxWire,  \* bounds: searches asked for, messages on the way in a direction
          MaxHostSearches,       \* MAX_CONCURRENT_SEARCHES
          Hasty         \* the user searches again while a search of before the connection was lost is open

VARIABLES status, hostHere,   \* store.status and hostConnected
          seen, draft, freed, \* the host's last state; drafts; releasedDrags
          late, paced,        \* of each ThrottledSend: what is pending, and whether its timer runs
          held,               \* sliders under the user's finger
          asked, timer, found,  \* searchRequestId, the search its timer is of (0: none), the phase
          wanted, shownFor,   \* the last search that was sent, and the one whose results are shown
          up, down,
          online, hostVal, hasSong, working,  \* the host: at the relay, its values, has a song, its searches
          moved               \* of each slider, where the user left it if nothing has come between

remoteVars == <<status, hostHere, seen, draft, freed, late, paced, held, asked, timer, found, wanted, shownFor,
                up, down, online, hostVal, hasSong, working, moved>>
sliders == <<draft, freed, late, paced, held, moved>>
search  == <<asked, timer, found, wanted, shownFor>>
wire    == <<up, down>>
host    == <<online, hostVal, hasSong, working>>

None == 9      \* no value
Nowhere == [s \in Sliders |-> None]
Connected == status = "open" /\ hostHere
State   == [kind |-> "state", song |-> hasSong, val |-> hostVal]
\* Sliders of a state: the track's is gone with the song, the seek bar only disabled.
Mounted(state) == IF state.song THEN Sliders ELSE Sliders \ {"track"}
Usable(state)  == IF state.song THEN Sliders ELSE Sliders \ {"track", "seek"}

RemoteInit ==
  /\ status = "connecting" /\ hostHere = FALSE
  /\ seen = [song |-> FALSE, val |-> [s \in Sliders |-> 0]] /\ draft = Nowhere /\ freed = {}
  /\ late = Nowhere /\ paced = {} /\ held = {} /\ moved = Nowhere
  /\ asked = 0 /\ timer = 0 /\ found = "idle" /\ wanted = 0 /\ shownFor = 0
  /\ up = <<>> /\ down = <<>>
  /\ online = TRUE /\ hostVal = [s \in Sliders |-> 0] /\ hasSong = TRUE /\ working = {}

(***************************************************************************)
(* Dragging.                                                               *)
(***************************************************************************)
DragTo(s, v) == [kind |-> "drag", slider |-> s, val |-> v]

\* send() and ThrottledSend.push(), through up' and paced', once `drafts` is set.
Push(s, v) ==
  IF s \in paced THEN late' = [late EXCEPT ![s] = v] /\ UNCHANGED <<paced, up>>
  ELSE /\ late' = late /\ paced' = paced \union {s}
       /\ up' = (IF Connected THEN Append(up, DragTo(s, v)) ELSE up)

\* seek(), setVolume(), setSpeed(), setTrackVolume(): drag().
Drag(s, v) ==
  /\ Connected /\ s \in Usable(seen) /\ Len(up) < MaxWire
  /\ v # (IF draft[s] # None THEN draft[s] ELSE seen.val[s])
  /\ held' = held \union {s}
  /\ draft' = [draft EXCEPT ![s] = v] /\ freed' = freed \ {s}
  /\ moved' = [moved EXCEPT ![s] = IF online /\ s \in Usable(State) THEN v ELSE None]
  /\ Push(s, v)
  /\ UNCHANGED <<status, hostHere, seen, search, down, host>>

\* ThrottledSend.flush() of every slider of S, in the order they were dragged:
\* what is pending is sent, and the next 150 ms begin.
Flush(S) ==
  LET due == {s \in S : late[s] # None}
  IN  /\ \E list \in SetToSeqs(due) :
           up' = (IF Connected THEN up \o [i \in DOMAIN list |-> DragTo(list[i], late[list[i]])] ELSE up)
      /\ late' = [s \in Sliders |-> IF s \in due THEN None ELSE late[s]]
      /\ paced' = (paced \ S) \union due

\* The timer of 150 ms.
TimerFlush(s) ==
  /\ s \in paced /\ Len(up) < MaxWire
  /\ Flush({s})
  /\ UNCHANGED <<status, hostHere, seen, draft, freed, held, moved, search, down, host>>

\* release(): the pointer is up.
Release(s) ==
  /\ s \in held /\ Len(up) < MaxWire
  /\ held' = held \ {s} /\ freed' = freed \union {s}
  /\ Flush({s})
  /\ UNCHANGED <<status, hostHere, seen, draft, moved, search, down, host>>

\* setTab(): the sliders of the Audio tab unmount; every drag is let go.
SetTab ==
  /\ held \ {"seek"} # {} /\ Len(up) < MaxWire
  /\ LET dragged == {s \in Sliders : draft[s] # None}
     IN  freed' = freed \union dragged /\ Flush(dragged)
  /\ held' = held \intersect {"seek"}
  /\ UNCHANGED <<status, hostHere, seen, draft, moved, search, down, host>>

(***************************************************************************)
(* Frames, in the order they come.                                         *)
(***************************************************************************)
\* Mutant: a track's draft outlives the track.
ShownWithGone(state, drafts) == [s \in Sliders |-> IF s \in freed THEN None ELSE drafts[s]]

\* setHostState(): the drafts let go are dropped, and those of tracks that are gone.
Shown(state, drafts) ==
  [s \in Sliders |-> IF s \in freed \/ (s = "track" /\ s \notin Mounted(state)) THEN None ELSE drafts[s]]

Take(state, drafts, fingers) ==
  /\ seen' = [song |-> state.song, val |-> state.val]
  /\ draft' = Shown(state, drafts) /\ freed' = {}
  /\ held' = fingers \intersect Usable(state)      \* a disabled input reports no end of the drag

Hello ==
  /\ down # <<>> /\ Head(down).kind = "hello"
  /\ hostHere' = Head(down).host
  /\ IF Head(down).host THEN Take(Head(down), draft, held) /\ UNCHANGED moved
     ELSE Take(Head(down), Nowhere, {}) /\ moved' = Nowhere
  /\ down' = Tail(down)
  /\ UNCHANGED <<status, late, paced, search, up, host>>

OnState ==
  /\ down # <<>> /\ Head(down).kind = "state"
  /\ Take(Head(down), draft, held)
  /\ down' = Tail(down)
  /\ UNCHANGED <<status, hostHere, late, paced, moved, search, up, host>>

\* setHostConnected(): with the host gone the sliders are disabled, and their drafts dropped.
OnHost ==
  /\ down # <<>> /\ Head(down).kind = "host"
  /\ hostHere' = Head(down).here
  /\ IF Head(down).here THEN UNCHANGED <<draft, held, moved>>
     ELSE draft' = Nowhere /\ held' = {} /\ moved' = Nowhere
  /\ down' = Tail(down)
  /\ UNCHANGED <<status, seen, freed, late, paced, search, up, host>>

\* Mutant: any answer counts.
AnyAnswer(reply) == TRUE

\* onReply(): only the answer to the last search counts.
IsLast(reply) == reply.of = asked

OnReply ==
  /\ down # <<>> /\ Head(down).kind = "reply"
  /\ IF IsLast(Head(down))
     THEN timer' = 0 /\ found' = Head(down).is /\ UNCHANGED <<asked, wanted>>
          /\ shownFor' = (IF Head(down).is = "error" THEN shownFor ELSE Head(down).of)
     ELSE UNCHANGED search
  /\ down' = Tail(down)
  /\ UNCHANGED <<status, hostHere, seen, sliders, up, host>>

(***************************************************************************)
(* search().  The id is taken before the send, which may fail.             *)
(***************************************************************************)
CanAsk == status # "left" /\ (Hasty \/ Connected \/ found # "searching")
Search ==
  /\ asked < MaxSearches /\ Len(up) < MaxWire /\ CanAsk
  /\ asked' = asked + 1
  /\ IF Connected
     THEN /\ found' = "searching" /\ timer' = asked + 1 /\ wanted' = asked + 1
          /\ up' = Append(up, [kind |-> "search", of |-> asked + 1])
     ELSE UNCHANGED <<found, timer, wanted, up>>
  /\ UNCHANGED <<status, hostHere, seen, sliders, shownFor, down, host>>

\* searchTimedOut(), 30 seconds on.
SearchTimedOut ==
  /\ timer # 0
  /\ timer' = 0
  /\ found' = (IF timer = asked /\ found = "searching" THEN "error" ELSE found)
  /\ UNCHANGED <<status, hostHere, seen, sliders, asked, wanted, shownFor, wire, host>>

(***************************************************************************)
(* The connection.  setStatus() drops the drafts, not what is pending.     *)
(***************************************************************************)
Lose ==
  /\ status = "open"
  /\ status' = "connecting" /\ draft' = Nowhere /\ held' = {} /\ moved' = Nowhere
  /\ up' = <<>> /\ down' = <<>>
  /\ UNCHANGED <<hostHere, seen, freed, late, paced, search, host>>

Open ==
  /\ status = "connecting"
  /\ status' = "open"
  /\ down' = <<[kind |-> "hello", host |-> online, song |-> hasSong, val |-> hostVal]>>
  /\ UNCHANGED <<hostHere, seen, sliders, search, up, host>>

(***************************************************************************)
(* The host.  It publishes what has changed; run() of a drag, in its song, *)
(* and search(), of which it runs a few at a time.                         *)
(***************************************************************************)
Tell(msg) == down' = (IF status = "open" THEN Append(down, msg) ELSE down)
Publish   == Tell([State EXCEPT !.song = hasSong', !.val = hostVal'])

RunDrag ==
  /\ up # <<>> /\ Head(up).kind = "drag" /\ Len(down) < MaxWire
  /\ up' = Tail(up)
  /\ LET s == Head(up).slider
         heard == online /\ s \in Usable(State)
     IN  IF heard /\ (s = "seek" \/ hostVal[s] # Head(up).val)
         THEN hostVal' = [hostVal EXCEPT ![s] = Head(up).val] /\ UNCHANGED hasSong /\ Publish
         ELSE UNCHANGED <<hostVal, hasSong, down>>
  /\ UNCHANGED <<status, hostHere, seen, sliders, search, online, working>>

RunSearch ==
  /\ up # <<>> /\ Head(up).kind = "search" /\ Len(down) < MaxWire
  /\ up' = Tail(up)
  /\ IF ~online THEN UNCHANGED <<working, down>>
     ELSE IF Cardinality(working) >= MaxHostSearches
     THEN Tell([kind |-> "reply", of |-> Head(up).of, is |-> "error"]) /\ UNCHANGED working
     ELSE working' = working \union {Head(up).of} /\ UNCHANGED down
  /\ UNCHANGED <<status, hostHere, seen, sliders, search, online, hostVal, hasSong>>

Answer(id) ==
  /\ id \in working /\ online /\ Len(down) < MaxWire
  /\ working' = working \ {id}
  /\ \E is \in {"results", "no-results", "error"} : Tell([kind |-> "reply", of |-> id, is |-> is])
  /\ UNCHANGED <<status, hostHere, seen, sliders, search, up, online, hostVal, hasSong>>

\* The song ends, or the next begins: the relay passes the host's state on.
NextSong ==
  /\ online /\ Len(down) < MaxWire
  /\ hasSong' = ~hasSong /\ hostVal' = [s \in Sliders |-> IF s = "volume" THEN hostVal[s] ELSE 0]
  /\ Publish
  /\ moved' = [s \in Sliders |-> IF s = "volume" THEN moved[s] ELSE None]
  /\ UNCHANGED <<status, hostHere, seen, draft, freed, late, paced, held, search, up, online, working>>

\* While it plays, it publishes where it is again and again.
Republish ==
  /\ online /\ hasSong /\ Len(down) < MaxWire
  /\ Tell(State) /\ status = "open"
  /\ UNCHANGED <<status, hostHere, seen, sliders, search, up, host>>

\* The host's tab is closed, and its searches with it; back, it publishes.
HostGoes ==
  /\ online /\ Len(down) < MaxWire
  /\ online' = FALSE /\ working' = {} /\ moved' = Nowhere
  /\ Tell([kind |-> "host", here |-> FALSE])
  /\ UNCHANGED <<status, hostHere, seen, draft, freed, late, paced, held, search, up, hostVal, hasSong>>

HostComes ==
  /\ ~online /\ Len(down) < MaxWire
  /\ online' = TRUE /\ moved' = Nowhere
  /\ down' = (IF status = "open" THEN down \o <<[kind |-> "host", here |-> TRUE], State>> ELSE down)
  /\ UNCHANGED <<status, hostHere, seen, draft, freed, late, paced, held, search, up, hostVal, hasSong, working>>

\* dispose(): the page is left.
Dispose ==
  /\ status' = "left" /\ timer' = 0 /\ late' = Nowhere /\ paced' = {} /\ held' = {}
  /\ up' = <<>> /\ down' = <<>>
  /\ UNCHANGED <<hostHere, seen, draft, freed, moved, asked, found, wanted, shownFor, host>>

RemoteNext ==
  \/ \E s \in Sliders : (\E v \in Values : Drag(s, v)) \/ TimerFlush(s) \/ Release(s)
  \/ SetTab \/ Hello \/ OnState \/ OnHost \/ OnReply
  \/ Search \/ SearchTimedOut \/ Lose \/ Open
  \/ RunDrag \/ RunSearch \/ (\E id \in working : Answer(id)) \/ NextSong \/ Republish \/ HostGoes \/ HostComes
  \/ (status # "left" /\ Dispose)

\* The sliders, and the searches, have little to do with each other: a check
\* may look at the drags of one, or at the searches alone.
DragsOf(S)   == UNCHANGED asked /\ held' \subseteq S
SearchesOnly == held' = {}

RemoteSpec == RemoteInit /\ [][RemoteNext]_remoteVars

(***************************************************************************)
(* Properties.                                                             *)
(***************************************************************************)
RemoteTypes ==
  /\ status \in {"connecting", "open", "left"} /\ {hostHere, online, hasSong} \subseteq BOOLEAN
  /\ {draft, late, moved} \subseteq [Sliders -> Values \union {None}]
  /\ freed \subseteq Sliders /\ paced \subseteq Sliders /\ held \subseteq Sliders
  /\ {asked, timer, wanted, shownFor} \subseteq 0..MaxSearches /\ working \subseteq 1..MaxSearches
  /\ found \in {"idle", "searching", "results", "no-results", "error"}
  /\ Cardinality(working) <= MaxHostSearches

\* A draft is of a slider under a finger or let go, for the next state to
\* drop: else the slider shows for ever what the host doesn't have.
DraftsEnd == status = "open" => \A s \in Sliders : draft[s] # None => s \in held \union freed

\* "Searching" ends: with the host's answer, or by the timer of that search.
SearchSettles == (status # "left" /\ found = "searching") => timer = asked

\* The results shown are those of the last search that was sent.
ResultsAreOfLast == found \in {"results", "no-results"} => shownFor = wanted

\* What a slider was left at gets to the host, unless the connection, the
\* host or the song went meanwhile: it's pending, or on its way as the last
\* of its slider, or there.
SentOf(s) == {i \in DOMAIN up : up[i].kind = "drag" /\ up[i].slider = s}
Lands(s, v) ==
  \/ late[s] = v /\ s \in paced
  \/ late[s] = None /\ (\/ SentOf(s) = {} /\ hostVal[s] = v
                       \/ \E i \in SentOf(s) : up[i].val = v /\ \A j \in SentOf(s) : j <= i)
DragLands == status = "open" => \A s \in Sliders : moved[s] # None => Lands(s, moved[s])

\* With nothing on the way, the sliders show what the host has.
Quiet == Connected /\ up = <<>> /\ down = <<>> /\ paced = {} /\ held = {}
ShowsHost ==
  Quiet => /\ seen = [song |-> hasSong, val |-> hostVal]
           /\ \A s \in Mounted(seen) : draft[s] \in {None, hostVal[s]}

RemoteRight == DraftsEnd /\ SearchSettles /\ ResultsAreOfLast /\ DragLands /\ ShowsHost
=============================================================================
