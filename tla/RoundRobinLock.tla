--------------------------- MODULE RoundRobinLock ---------------------------
(***************************************************************************)
(* aligner/app/round_robin_lock.py: the asyncio lock the GPU jobs share.   *)
(* Releases rotate through lanes (one per session), FIFO within a lane.    *)
(*                                                                         *)
(* asyncio runs a task without interruption up to its next `await`, so the *)
(* code between two awaits is one action.  The one loop in the code, in    *)
(* release(), is spread over several steps (ReleasePass, ReleaseSkip,      *)
(* ReleaseEmpty) during which pc[t] = "releasing" keeps every other action *)
(* from happening: the loop stays atomic and no recursion is needed.       *)
(*                                                                         *)
(* A task has at most one acquire() under way, so its waiter (a Future) is *)
(* named by the task and lives in fut[t].                                  *)
(***************************************************************************)
EXTENDS Naturals, Sequences, SequencesExt

CONSTANTS Tasks,   \* the asyncio tasks that use the lock
          Lanes    \* the lanes they queue in: live session ids, and ""

VARIABLES held,        \* self._held
          order,       \* the keys of self._lanes, an OrderedDict, first to last
          waiters,     \* lane -> its deque of waiters (empty: lane not a key)
          pc,          \* where the task is
          fut,         \* the state of the Future the task awaits
          mustCancel   \* tasks cancelled after their Future was done

vars == <<held, order, waiters, pc, fut, mustCancel>>

PCs == {"idle", "waiting", "holding", "releasing"}
Futures == {"none", "pending", "granted", "cancelled"}

TypeOK ==
  /\ held \in BOOLEAN
  /\ order \in Seq(Lanes)
  /\ waiters \in [Lanes -> Seq(Tasks)]
  /\ pc \in [Tasks -> PCs]
  /\ fut \in [Tasks -> Futures]
  /\ mustCancel \in SUBSET Tasks

Init ==
  /\ held = FALSE
  /\ order = <<>>
  /\ waiters = [l \in Lanes |-> <<>>]
  /\ pc = [t \in Tasks |-> "idle"]
  /\ fut = [t \in Tasks |-> "none"]
  /\ mustCancel = {}

\* The event loop runs something else only between release() calls.
Quiet == \A t \in Tasks : pc[t] # "releasing"

-----------------------------------------------------------------------------
\* acquire() of a free lock: no await, the caller just goes on.
AcquireFree(t) ==
  /\ Quiet /\ pc[t] = "idle" /\ ~held
  /\ held' = TRUE
  /\ pc' = [pc EXCEPT ![t] = "holding"]
  /\ UNCHANGED <<order, waiters, fut, mustCancel>>

\* Mutant: the waiter goes to the front of its lane.
AcquireWaitInFront(t, l) ==
  /\ Quiet /\ pc[t] = "idle" /\ held
  /\ waiters' = [waiters EXCEPT ![l] = <<t>> \o @]
  /\ order' = IF waiters[l] = <<>> THEN Append(order, l) ELSE order
  /\ fut' = [fut EXCEPT ![t] = "pending"]
  /\ pc' = [pc EXCEPT ![t] = "waiting"]
  /\ UNCHANGED <<held, mustCancel>>

\* acquire() of a held lock: queue a fresh Future in the lane and await it.
AcquireWait(t, l) ==
  /\ Quiet /\ pc[t] = "idle" /\ held
  /\ waiters' = [waiters EXCEPT ![l] = Append(@, t)]
  /\ order' = IF waiters[l] = <<>> THEN Append(order, l) ELSE order
  /\ fut' = [fut EXCEPT ![t] = "pending"]
  /\ pc' = [pc EXCEPT ![t] = "waiting"]
  /\ UNCHANGED <<held, mustCancel>>

\* task.cancel() of a waiting task: it cancels the Future, or, when that is
\* already done, has the task raise at its next step.
Cancel(t) ==
  /\ Quiet /\ pc[t] = "waiting"
  /\ IF fut[t] = "pending"
     THEN fut' = [fut EXCEPT ![t] = "cancelled"] /\ UNCHANGED mustCancel
     ELSE mustCancel' = mustCancel \cup {t} /\ UNCHANGED fut
  /\ UNCHANGED <<held, order, waiters, pc>>

\* The granted waiter's task runs again: acquire() returns.
Resume(t) ==
  /\ Quiet /\ pc[t] = "waiting" /\ fut[t] = "granted" /\ t \notin mustCancel
  /\ pc' = [pc EXCEPT ![t] = "holding"]
  /\ fut' = [fut EXCEPT ![t] = "none"]
  /\ UNCHANGED <<held, order, waiters, mustCancel>>

\* Granted, then cancelled before resuming: acquire() passes the lock on.
ResumeGrantedCancelled(t) ==
  /\ Quiet /\ pc[t] = "waiting" /\ fut[t] = "granted" /\ t \in mustCancel
  /\ pc' = [pc EXCEPT ![t] = "releasing"]
  /\ fut' = [fut EXCEPT ![t] = "none"]
  /\ mustCancel' = mustCancel \ {t}
  /\ UNCHANGED <<held, order, waiters>>

\* _discard(): take the waiter out of its lane, where release() has not
\* popped it already, and drop a lane left empty.
DiscardFrom(t, l) ==
  LET left == RemoveFirst(waiters[l], t)
  IN /\ waiters' = [waiters EXCEPT ![l] = left]
     /\ order' = IF left = <<>> THEN RemoveFirst(order, l) ELSE order

Discard(t) ==
  \/ \E l \in Lanes : t \in ToSet(waiters[l]) /\ DiscardFrom(t, l)
  \/ /\ \A l \in Lanes : t \notin ToSet(waiters[l])
     /\ UNCHANGED <<order, waiters>>

\* Cancelled while queued: the task resumes with CancelledError.
ResumeCancelled(t) ==
  /\ Quiet /\ pc[t] = "waiting" /\ fut[t] = "cancelled"
  /\ Discard(t)
  /\ pc' = [pc EXCEPT ![t] = "idle"]
  /\ fut' = [fut EXCEPT ![t] = "none"]
  /\ mustCancel' = mustCancel \ {t}
  /\ UNCHANGED held

-----------------------------------------------------------------------------
\* The holder calls release().
Release(t) ==
  /\ Quiet /\ pc[t] = "holding"
  /\ pc' = [pc EXCEPT ![t] = "releasing"]
  /\ UNCHANGED <<held, order, waiters, fut, mustCancel>>

\* Mutants: the lane keeps its turn; an emptied lane stays in the rotation.
PopSameLane ==
  LET l == Head(order)
      left == Tail(waiters[l])
  IN /\ waiters' = [waiters EXCEPT ![l] = left]
     /\ order' = IF left = <<>> THEN Tail(order) ELSE order

PopKeepLane ==
  LET l == Head(order)
  IN /\ waiters' = [waiters EXCEPT ![l] = Tail(@)]
     /\ order' = Append(Tail(order), l)

\* One turn of release()'s loop: the first lane gives up its oldest waiter and
\* goes to the back of the rotation, or away when it has no other.
PopFirstWaiter ==
  LET l == Head(order)
      left == Tail(waiters[l])
  IN /\ waiters' = [waiters EXCEPT ![l] = left]
     /\ order' = IF left = <<>> THEN Tail(order) ELSE Append(Tail(order), l)

FirstWaiter == Head(waiters[Head(order)])

\* ... its waiter still waits: it owns the lock now, which stays held.
ReleasePass(t) ==
  /\ pc[t] = "releasing" /\ order # <<>> /\ fut[FirstWaiter] = "pending"
  /\ PopFirstWaiter
  /\ fut' = [fut EXCEPT ![FirstWaiter] = "granted"]
  /\ pc' = [pc EXCEPT ![t] = "idle"]
  /\ UNCHANGED <<held, mustCancel>>

\* Mutant: a cancelled waiter ends the search.
ReleaseSkipLast(t) ==
  /\ pc[t] = "releasing" /\ order # <<>> /\ fut[FirstWaiter] # "pending"
  /\ PopFirstWaiter
  /\ held' = FALSE
  /\ pc' = [pc EXCEPT ![t] = "idle"]
  /\ UNCHANGED <<fut, mustCancel>>

\* ... its waiter was cancelled and has not run since: look further.
ReleaseSkip(t) ==
  /\ pc[t] = "releasing" /\ order # <<>> /\ fut[FirstWaiter] # "pending"
  /\ PopFirstWaiter
  /\ UNCHANGED <<held, pc, fut, mustCancel>>

\* Nobody left to pass it to.
ReleaseEmpty(t) ==
  /\ pc[t] = "releasing" /\ order = <<>>
  /\ held' = FALSE
  /\ pc' = [pc EXCEPT ![t] = "idle"]
  /\ UNCHANGED <<order, waiters, fut, mustCancel>>

-----------------------------------------------------------------------------
ReleaseLoop(t) == ReleasePass(t) \/ ReleaseSkip(t) \/ ReleaseEmpty(t)

Wake(t) == Resume(t) \/ ResumeGrantedCancelled(t) \/ ResumeCancelled(t)

Next ==
  \E t \in Tasks :
    \/ AcquireFree(t)
    \/ \E l \in Lanes : AcquireWait(t, l)
    \/ Cancel(t)
    \/ Resume(t)
    \/ ResumeGrantedCancelled(t)
    \/ ResumeCancelled(t)
    \/ Release(t)
    \/ ReleasePass(t)
    \/ ReleaseSkip(t)
    \/ ReleaseEmpty(t)

Spec == Init /\ [][Next]_vars

\* The event loop runs every task that can run, and a job that holds the lock
\* ends (its work is bounded, and `finally` releases).
Fairness ==
  \A t \in Tasks : WF_vars(Wake(t)) /\ WF_vars(Release(t)) /\ WF_vars(ReleaseLoop(t))

FairSpec == Spec /\ Fairness

-----------------------------------------------------------------------------
\* The tasks the lock belongs to: the holder, a waiter that was granted it and
\* has not run yet, or the task inside release().
Owners ==
  {t \in Tasks : pc[t] \in {"holding", "releasing"} \/ fut[t] = "granted"}

\* The lock never belongs to two tasks, through any mix of grants and cancels
\* (acquire, release and the pass-on of a grant that was cancelled).
MutualExclusion == \A t, u \in Owners : t = u

\* A held lock belongs to somebody who will release it: a grant that meets a
\* cancel is passed on, never lost, or every GPU job would wait for ever.
NoLostGrant == held => Owners # {}

\* A free lock has no live waiter, so acquire() needs no look at the queue
\* before it takes the lock: nobody is left behind or overtaken.
NoStrandedWaiter == ~held => \A t \in Tasks : fut[t] # "pending"

\* A live waiter is where release() will find it: in a lane that is in the
\* rotation.  Lanes enter and leave the rotation in four places.
WaitersReachable ==
  \A t \in Tasks : fut[t] = "pending" =>
    \E l \in ToSet(order) : t \in ToSet(waiters[l])

\* Why the above hold: what every step of the lock keeps.  A Future exists
\* exactly while its task waits; a waiter sits in one place of one lane until
\* it is granted or discarded; the rotation is the lanes that have waiters,
\* each once, and is empty while the lock is free.
LockInv ==
  /\ TypeOK
  /\ MutualExclusion
  /\ held <=> Owners # {}
  /\ ~held => order = <<>>
  /\ \A t \in Tasks : fut[t] = "none" <=> pc[t] # "waiting"
  /\ IsInjective(order)
  /\ \A l \in Lanes :
       /\ l \in ToSet(order) <=> waiters[l] # <<>>
       /\ IsInjective(waiters[l])
       /\ \A t \in ToSet(waiters[l]) :
            /\ fut[t] \in {"pending", "cancelled"}
            /\ \A m \in Lanes : t \in ToSet(waiters[m]) => m = l
  /\ \A t \in Tasks : fut[t] = "pending" => \E l \in Lanes : t \in ToSet(waiters[l])

\* A waiter is granted the lock in the end, however the other lanes fill up,
\* unless it is cancelled.
NotStarved(t) == fut[t] = "pending" ~> fut[t] \in {"granted", "cancelled"}
NoStarvation == \A t \in Tasks : NotStarved(t)

\* The elements of s that are in P, in their order.
Kept(s, P) ==
  LET kept[i \in 0 .. Len(s)] ==
        IF i = 0 THEN <<>>
        ELSE IF s[i] \in P THEN Append(kept[i - 1], s[i]) ELSE kept[i - 1]
  IN kept[Len(s)]

\* The waiters that still want the lock.
Live == {t \in Tasks : fut[t] = "pending"}

\* The lock behaves as a first-come-first-served mutex per lane.
CONSTANT NoTask
ASSUME LockAssumption == NoTask \notin Tasks

Lock == INSTANCE LaneMutex WITH
  owner <- IF Owners = {} THEN NoTask ELSE CHOOSE t \in Owners : TRUE,
  queue <- [l \in Lanes |-> Kept(waiters[l], Live)]

ImplementsLaneMutex == Lock!Spec
=============================================================================
