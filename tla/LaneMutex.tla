------------------------------ MODULE LaneMutex ------------------------------
(***************************************************************************)
(* What the backend's GPU lock promises its users, whatever order it serves *)
(* its lanes in: at most one owner; the lock is free only when nobody is    *)
(* queued (so it is handed over and can never be barged); and, within a     *)
(* lane, first come first served.  RoundRobinLock implements this.          *)
(***************************************************************************)
EXTENDS Naturals, Sequences, SequencesExt

CONSTANTS Tasks, Lanes, NoTask

VARIABLES owner,   \* the task the lock belongs to, or NoTask
          queue    \* the live waiters of each lane, oldest first

vars == <<owner, queue>>

Queued == UNION {ToSet(queue[l]) : l \in Lanes}

Init == owner = NoTask /\ queue = [l \in Lanes |-> <<>>]

Take(t) ==
  /\ owner = NoTask
  /\ Queued = {}
  /\ owner' = t
  /\ UNCHANGED queue

Enqueue(t, l) ==
  /\ owner # NoTask
  /\ t \notin Queued \cup {owner}
  /\ queue' = [queue EXCEPT ![l] = Append(@, t)]
  /\ UNCHANGED owner

\* The waiter gives up before its turn came.
Leave(t, l) ==
  /\ t \in ToSet(queue[l])
  /\ queue' = [queue EXCEPT ![l] = RemoveFirst(@, t)]
  /\ UNCHANGED owner

HandOver(l) ==
  /\ owner # NoTask
  /\ queue[l] # <<>>
  /\ owner' = Head(queue[l])
  /\ queue' = [queue EXCEPT ![l] = Tail(@)]

Free ==
  /\ owner # NoTask
  /\ Queued = {}
  /\ owner' = NoTask
  /\ UNCHANGED queue

Next ==
  \/ Free
  \/ \E t \in Tasks : Take(t)
  \/ \E l \in Lanes : HandOver(l) \/ \E t \in Tasks : Enqueue(t, l) \/ Leave(t, l)

Spec == Init /\ [][Next]_vars
=============================================================================
