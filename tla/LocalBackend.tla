---------------------------- MODULE LocalBackend ----------------------------
(***************************************************************************)
(* The desktop app's own backend: local_backend.rs keeps two processes up  *)
(* (OnTheSpot and the API), stops them while a capability is installed or  *)
(* removed, and starts them again when they die; processes.rs knows the    *)
(* children spawned through it, so that none of them outlives the app.     *)
(* One is not: a first start asks python itself where its ffmpeg is.       *)
(*                                                                         *)
(* What holds the lock of `backend` runs a start, a stop or the work; the  *)
(* others wait for it.  Times, and the waits between looks, are left out.  *)
(***************************************************************************)
EXTENDS Naturals, FiniteSets

CONSTANTS Ids,      \* process ids: a child gets one that no child has
          MaxCalls  \* bound on the calls for a base, and on the installs

Backends == {"onthespot", "api"}
NoPid == 0

VARIABLES procs,            \* the processes there are, [kind, id]
          pids, closing,    \* Registry
          ports, running,   \* Backend: whether it has ports; the ids of its processes, by kind
          mine,             \* the ids held by the task that has the lock
          task, step,       \* which one has it, and where it is
          boots, works, look,  \* who waits for it: calls for a base, installs, and the supervisor
          child,            \* the child of the work under way, or the python a first start asks
          bases, installs   \* how many there were

backendVars == <<procs, pids, closing, ports, running, mine, task, step, boots, works, look, child, bases, installs>>

None == [k \in Backends |-> NoPid]

BackendInit ==
  /\ procs = {} /\ pids = {} /\ closing = FALSE /\ ports = FALSE /\ running = None /\ mine = None
  /\ task = "none" /\ step = "none" /\ boots = 0 /\ works = 0 /\ look = "off" /\ child = NoPid
  /\ bases = 0 /\ installs = 0

Alive(k, id) == [kind |-> k, id |-> id] \in procs
AllAlive(of) == \A k \in Backends : of[k] # NoPid /\ Alive(k, of[k])

(***************************************************************************)
(* The children (processes.rs).                                            *)
(***************************************************************************)
Used == {p.id : p \in procs} \union {running[k] : k \in Backends} \union {mine[k] : k \in Backends} \union {child}

\* Mutant: the exit handler doesn't know the child.
Untracked(id) == UNCHANGED pids

Track(id) == pids' = pids \union {id}

\* spawn(), under the registry's lock.
Spawn(k, id) ==
  /\ ~closing /\ id \in Ids \ Used
  /\ procs' = procs \union {[kind |-> k, id |-> id]} /\ Track(id)
  /\ UNCHANGED closing

\* Tracked::kill(), which waits for the process to be gone, and drop().
KillOf(k, id) ==
  /\ procs' = {p \in procs : p # [kind |-> k, id |-> id]}
  /\ pids' = pids \ {id}

\* kill_all(), as the app exits.
KillAll ==
  /\ ~closing /\ closing' = TRUE /\ pids' = {}
  /\ procs' = {p \in procs : p.id \notin pids}
  /\ UNCHANGED <<ports, running, mine, task, step, boots, works, look, child, bases, installs>>

\* A process ends, whatever it was: killed for memory, crashed, or done.
Dies(p) ==
  /\ procs' = procs \ {p}
  /\ UNCHANGED <<pids, closing, ports, running, mine, task, step, boots, works, look, child, bases, installs>>

(***************************************************************************)
(* The lock.                                                               *)
(***************************************************************************)
AskBase ==
  /\ bases < MaxCalls /\ bases' = bases + 1 /\ boots' = boots + 1
  /\ UNCHANGED <<procs, pids, closing, ports, running, mine, task, step, works, look, child, installs>>

AskInstall ==
  /\ installs < MaxCalls /\ installs' = installs + 1 /\ works' = works + 1
  /\ UNCHANGED <<procs, pids, closing, ports, running, mine, task, step, boots, look, child, bases>>

\* supervise() has slept.
LookAgain ==
  /\ look = "sleep" /\ look' = "wait"
  /\ UNCHANGED <<procs, pids, closing, ports, running, mine, task, step, boots, works, child, bases, installs>>

Others == UNCHANGED <<procs, pids, closing, ports, child, bases, installs>>

\* local_backend_api_base(): the base there is, or a first start.
LockToBoot ==
  /\ task = "none" /\ boots > 0 /\ boots' = boots - 1
  /\ IF ports THEN UNCHANGED <<task, step>> ELSE task' = "boot" /\ step' = "work"
  /\ UNCHANGED <<running, mine, works, look>> /\ Others

\* Mutant: the work starts with the backend as it is.
LockToWorkUnstopped ==
  /\ task = "none" /\ works > 0 /\ works' = works - 1
  /\ task' = "work" /\ step' = "work"
  /\ UNCHANGED <<running, mine, boots, look>> /\ Others

\* while_stopped()
LockToWork ==
  /\ task = "none" /\ works > 0 /\ works' = works - 1
  /\ task' = "work" /\ step' = "stop" /\ mine' = running /\ running' = None
  /\ UNCHANGED <<boots, look>> /\ Others

\* supervise(), which goes back to sleep if both are up.
LockToLook ==
  /\ task = "none" /\ look = "wait" /\ look' = "sleep"
  /\ IF AllAlive(running) THEN UNCHANGED <<task, step, mine, running>>
     ELSE task' = "look" /\ step' = "stop" /\ mine' = running /\ running' = None
  /\ UNCHANGED <<boots, works>> /\ Others

Held == UNCHANGED <<task, boots, works, bases, installs>>
Unlock == task' = "none" /\ step' = "none"

(***************************************************************************)
(* stop(): one after the other, each until it is gone.                     *)
(***************************************************************************)
NextStep(k) == IF k = "onthespot" THEN "stop api" ELSE IF task = "work" THEN "work" ELSE "start"

\* Mutant: what is stopped is only let go of.
Dropped(k) == pids' = pids \ {mine[k]} /\ UNCHANGED procs

Killed(k) == IF mine[k] = NoPid THEN UNCHANGED <<procs, pids>> ELSE KillOf(k, mine[k])

Stop(k) ==
  /\ step = (IF k = "onthespot" THEN "stop" ELSE "stop api")
  /\ Killed(k) /\ mine' = [mine EXCEPT ![k] = NoPid] /\ step' = NextStep(k)
  /\ UNCHANGED <<closing, ports, running, look, child>> /\ Held

(***************************************************************************)
(* The work: prepare_venv(), or what installs and removes, each a child    *)
(* that is waited for.                                                     *)
(***************************************************************************)
WorkSpawns(id) ==
  /\ step = "work" /\ child = NoPid /\ Spawn("work", id) /\ child' = id
  /\ UNCHANGED <<ports, running, mine, step, look>> /\ Held

\* Goes on to another, or is over.
WorkEnds ==
  /\ step = "work" /\ child # NoPid /\ ~Alive("work", child)
  /\ child' = NoPid /\ pids' = pids \ {child}
  /\ UNCHANGED <<procs, closing, ports, running, mine, step, look>> /\ Held

\* link_bundled_ffmpeg(), the last thing prepare_venv() may do: spawned and
\* awaited by output(), so that neither the registry nor the exit handler
\* knows of it, and an app that exits may yet start it.
Links(id) ==
  /\ step = "work" /\ task = "boot" /\ child = NoPid /\ id \in Ids \ Used
  /\ procs' = procs \union {[kind |-> "link", id |-> id]} /\ child' = id /\ step' = "link"
  /\ UNCHANGED <<pids, closing, ports, running, mine, look>> /\ Held

\* It has printed the path, or failed, which is only logged.
Linked ==
  /\ step = "link" /\ ~Alive("link", child)
  /\ child' = NoPid /\ step' = "start"
  /\ UNCHANGED <<procs, pids, closing, ports, running, mine, look>> /\ Held

\* The work has succeeded, or failed; a first start that has failed ends there.
Worked ==
  /\ step = "work" /\ child = NoPid
  /\ \/ task = "boot" /\ Unlock
     \/ task = "boot" /\ step' = "start" /\ UNCHANGED task
     \/ task = "work" /\ ports /\ step' = "start" /\ UNCHANGED task
     \/ task = "work" /\ ~ports /\ Unlock
  /\ UNCHANGED <<procs, pids, closing, ports, running, mine, look, child, boots, works, bases, installs>>

(***************************************************************************)
(* start()                                                                 *)
(***************************************************************************)

\* The in-flight downloads are cleared, then the processes started.
Clean ==
  /\ step = "start" /\ step' = "onthespot"
  /\ UNCHANGED <<procs, pids, closing, ports, running, mine, look, child>> /\ Held

SpawnBackend(k, id) ==
  /\ step = k /\ Spawn(k, id) /\ mine' = [mine EXCEPT ![k] = id]
  /\ step' = IF k = "onthespot" THEN "api" ELSE "ready"
  /\ UNCHANGED <<ports, running, look, child>> /\ Held

\* Mutant: OnTheSpot is left when the API can't be started.
LeftAlone == UNCHANGED <<procs, pids>> /\ mine' = None

Aborted ==
  /\ mine' = None
  /\ procs' = {p \in procs : p.kind \notin Backends \/ p.id # mine[p.kind]}
  /\ pids' = pids \ {mine[k] : k \in Backends}

\* A process can't be spawned, or the app is exiting; or one of them has
\* exited, or isn't listening in time: what was started is stopped, and it
\* is for the supervisor, or the page's next call, to try again.
StartFails ==
  /\ step \in {"onthespot", "api", "ready"} /\ Aborted /\ Unlock
  /\ UNCHANGED <<closing, ports, running, look, child, boots, works, bases, installs>>

\* Both listen.  A first start has the ports kept, and a supervisor, from here on.
Started ==
  /\ step = "ready" /\ running' = mine /\ mine' = None /\ Unlock
  /\ ports' = TRUE /\ look' = IF task = "boot" THEN "sleep" ELSE look
  /\ UNCHANGED <<procs, pids, closing, child, boots, works, bases, installs>>

BackendNext ==
  \/ KillAll \/ \E p \in procs : Dies(p)
  \/ AskBase \/ AskInstall \/ LookAgain \/ LockToBoot \/ LockToWork \/ LockToLook
  \/ \E k \in Backends : Stop(k) \/ \E id \in Ids : SpawnBackend(k, id)
  \/ \E id \in Ids : WorkSpawns(id) \/ Links(id)
  \/ WorkEnds \/ Linked \/ Worked \/ Clean \/ StartFails \/ Started

BackendSpec == BackendInit /\ [][BackendNext]_backendVars

(***************************************************************************)
(* Properties                                                              *)
(***************************************************************************)
BackendTypes ==
  /\ procs \subseteq [kind : Backends \union {"work", "link"}, id : Ids] /\ pids \subseteq Ids
  /\ running \in [Backends -> Ids \union {NoPid}] /\ mine \in [Backends -> Ids \union {NoPid}]
  /\ task \in {"none", "boot", "work", "look"} /\ look \in {"off", "sleep", "wait"}

Live(k) == {p \in procs : p.kind = k}

\* The ports are the same for as long as the app runs: a process must be gone
\* before another of its kind is started on its port.
OneOfEach == \A k \in Backends : Cardinality(Live(k)) <= 1

\* "it holds the venv's packages and models open" (local_backend.rs): what
\* installs or removes them never runs with the backend up.
WorkAlone == Live("work") # {} => Live("onthespot") = {} /\ Live("api") = {}

\* "OnTheSpot isn't running here: anything left is debris."
OnlyDebris == step = "start" => Live("onthespot") = {}

\* Every process of the backend is one it knows, that it stops when it should.
NoneLost == \A p \in procs : p.kind \in Backends => p.id \in {running[p.kind], mine[p.kind]}

\* "killing them with the app": once it exits no child is left or started,
\* wherever a start or an install had got to, but for the one python that a
\* first start is asking where its ffmpeg is.
NoneOutlives == closing => \A p \in procs : step = "link" /\ p = [kind |-> "link", id |-> child]

BackendRight == OneOfEach /\ WorkAlone /\ OnlyDebris /\ NoneLost /\ NoneOutlives
=============================================================================
