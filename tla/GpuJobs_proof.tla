---------------------------- MODULE GpuJobs_proof ----------------------------
(***************************************************************************)
(* For every set of tasks and of lanes: the GPU lock never has two owners,  *)
(* never loses a grant to a cancel, and never strands a waiter.  The three  *)
(* follow from the inductive invariant LockInv.  No lane is served twice    *)
(* while another waits its turn (TurnsInv, over LockInv): a lane served      *)
(* goes behind all that wait.  Every step is one of LaneMutex, or none.     *)
(*                                                                         *)
(* For every set of jobs, songs, lanes and downloads: the jobs and the      *)
(* reloads use the GPU lock as RoundRobinLock says, so that what is proved  *)
(* of the lock holds of it here; the GPU has one user, on the models in     *)
(* memory; and a job's scratch dir outlives its work.                       *)
(***************************************************************************)
EXTENDS GpuJobs, RoundRobinTurns, SequenceLemmas

(***************************************************************************)
(* The lock.                                                               *)
(***************************************************************************)
\* What one waiter leaving the lanes does to them, wherever it was: both
\* release(), which pops it, and _discard(), which removes it, do this.
Left(u) ==
  /\ order' \in Seq(Lanes)
  /\ waiters' \in [Lanes -> Seq(Tasks)]
  /\ IsInjective(order')
  /\ \A l \in Lanes :
       /\ l \in ToSet(order') <=> waiters'[l] # <<>>
       /\ IsInjective(waiters'[l])
       /\ ToSet(waiters'[l]) = ToSet(waiters[l]) \ {u}

\* A turn of release()'s loop takes the first lane's oldest waiter out.
LEMMA PopLeaves ==
  ASSUME LockInv, order # <<>>, PopFirstWaiter
  PROVE  /\ FirstWaiter \in Tasks
         /\ fut[FirstWaiter] \in {"pending", "cancelled"}
         /\ Left(FirstWaiter)
<1> DEFINE l == Head(order)
           u == FirstWaiter
           left == Tail(waiters[l])
<1>1. /\ order \in Seq(Lanes)
      /\ waiters \in [Lanes -> Seq(Tasks)]
      /\ IsInjective(order)
  BY DEF LockInv, TypeOK
<1>2. /\ l \in Lanes
      /\ l \in ToSet(order)
      /\ Tail(order) \in Seq(Lanes)
      /\ ToSet(order) = {l} \cup ToSet(Tail(order))
      /\ IsInjective(Tail(order))
      /\ l \notin ToSet(Tail(order))
  BY <1>1, TailElements
<1>3. /\ waiters[l] \in Seq(Tasks)
      /\ waiters[l] # <<>>
      /\ IsInjective(waiters[l])
  BY <1>1, <1>2 DEF LockInv
<1>4. /\ u \in Tasks
      /\ u \in ToSet(waiters[l])
      /\ left \in Seq(Tasks)
      /\ ToSet(waiters[l]) = {u} \cup ToSet(left)
      /\ IsInjective(left)
      /\ u \notin ToSet(left)
  BY <1>3, TailElements DEF FirstWaiter
<1>5. /\ fut[u] \in {"pending", "cancelled"}
      /\ \A m \in Lanes : m # l => u \notin ToSet(waiters[m])
  BY <1>2, <1>4 DEF LockInv
<1>6. /\ waiters' = [waiters EXCEPT ![l] = left]
      /\ order' = IF left = <<>> THEN Tail(order) ELSE Append(Tail(order), l)
  BY DEF PopFirstWaiter
<1>7. waiters' \in [Lanes -> Seq(Tasks)]
  BY <1>1, <1>4, <1>6
<1>8. /\ order' \in Seq(Lanes)
      /\ IsInjective(order')
      /\ ToSet(order') = IF left = <<>> THEN ToSet(order) \ {l} ELSE ToSet(order)
  <2>1. CASE left = <<>>
    BY <1>2, <1>6, <2>1
  <2>2. CASE left # <<>>
    <3> DEFINE rest == Tail(order)
               back == Append(rest, l)
    <3>0. /\ l \in Lanes
          /\ rest \in Seq(Lanes)
          /\ IsInjective(rest)
          /\ l \notin ToSet(rest)
      BY <1>2
    <3> HIDE DEF l, rest
    <3>1. /\ back \in Seq(Lanes)
          /\ ToSet(back) = ToSet(rest) \cup {l}
          /\ IsInjective(back)
      BY <3>0, AppendElements
    <3>2. order' = back
      BY <1>6, <2>2 DEF rest
    <3> HIDE DEF back
    <3>3. QED
      BY <1>2, <2>2, <3>1, <3>2 DEF rest
  <2>3. QED
    BY <2>1, <2>2
<1>9. ASSUME NEW m \in Lanes
      PROVE  /\ m \in ToSet(order') <=> waiters'[m] # <<>>
             /\ IsInjective(waiters'[m])
             /\ ToSet(waiters'[m]) = ToSet(waiters[m]) \ {u}
  <2>1. CASE m = l
    <3>1. waiters'[m] = left
      BY <1>1, <1>2, <1>6, <2>1
    <3>2. QED
      BY <1>2, <1>4, <1>8, <2>1, <3>1
  <2>2. CASE m # l
    <3>1. waiters'[m] = waiters[m]
      BY <1>1, <1>6, <2>2
    <3>2. m \in ToSet(order') <=> m \in ToSet(order)
      BY <1>8, <2>2
    <3>3. QED
      BY <1>5, <2>2, <3>1, <3>2 DEF LockInv
  <2>3. QED
    BY <2>1, <2>2
<1> HIDE DEF u
<1>10. QED
  BY <1>4, <1>5, <1>7, <1>8, <1>9 DEF Left, u

\* _discard() takes a cancelled waiter out of its lane, if it is still there.
LEMMA DiscardLeaves ==
  ASSUME LockInv, NEW t \in Tasks, Discard(t)
  PROVE  Left(t)
<1>1. /\ order \in Seq(Lanes)
      /\ waiters \in [Lanes -> Seq(Tasks)]
      /\ IsInjective(order)
  BY DEF LockInv, TypeOK
<1>2. CASE /\ \A l \in Lanes : t \notin ToSet(waiters[l])
           /\ UNCHANGED <<order, waiters>>
  BY <1>1, <1>2 DEF Left, LockInv
<1>3. ASSUME NEW l \in Lanes, t \in ToSet(waiters[l]), DiscardFrom(t, l)
      PROVE  Left(t)
  <2> DEFINE left == RemoveFirst(waiters[l], t)
  <2>1. /\ waiters[l] \in Seq(Tasks)
        /\ IsInjective(waiters[l])
        /\ l \in ToSet(order)
    <3>1. waiters[l] \in Seq(Tasks) /\ IsInjective(waiters[l])
      BY <1>1 DEF LockInv
    <3>2. waiters[l] # <<>>
      BY <1>3, <3>1, ToSetEmpty
    <3>3. QED
      BY <3>1, <3>2 DEF LockInv
  <2>2. /\ left \in Seq(Tasks)
        /\ ToSet(left) = ToSet(waiters[l]) \ {t}
        /\ IsInjective(left)
    BY <1>3, <2>1, RemoveFirstElements
  <2>3. /\ RemoveFirst(order, l) \in Seq(Lanes)
        /\ ToSet(RemoveFirst(order, l)) = ToSet(order) \ {l}
        /\ IsInjective(RemoveFirst(order, l))
    BY <1>1, <2>1, RemoveFirstElements
  <2>4. /\ waiters' = [waiters EXCEPT ![l] = left]
        /\ order' = IF left = <<>> THEN RemoveFirst(order, l) ELSE order
    BY <1>3 DEF DiscardFrom
  <2> HIDE DEF left
  <2>5. /\ order' \in Seq(Lanes)
        /\ IsInjective(order')
        /\ ToSet(order') = IF left = <<>> THEN ToSet(order) \ {l} ELSE ToSet(order)
    BY <1>1, <2>3, <2>4
  <2>6. waiters' \in [Lanes -> Seq(Tasks)]
    BY <1>1, <2>2, <2>4
  <2>7. ASSUME NEW m \in Lanes
        PROVE  /\ m \in ToSet(order') <=> waiters'[m] # <<>>
               /\ IsInjective(waiters'[m])
               /\ ToSet(waiters'[m]) = ToSet(waiters[m]) \ {t}
    <3>1. CASE m = l
      <4>1. waiters'[m] = left
        BY <1>1, <2>4, <3>1
      <4>2. QED
        BY <2>1, <2>2, <2>5, <3>1, <4>1
    <3>2. CASE m # l
      <4>1. waiters'[m] = waiters[m]
        BY <1>1, <2>4, <3>2
      <4>2. m \in ToSet(order') <=> m \in ToSet(order)
        BY <2>5, <3>2
      <4>3. t \notin ToSet(waiters[m])
        BY <1>3, <3>2 DEF LockInv
      <4>4. QED
        BY <4>1, <4>2, <4>3 DEF LockInv
    <3>3. QED
      BY <3>1, <3>2
  <2>8. QED
    BY <2>5, <2>6, <2>7 DEF Left
<1>4. QED
  BY <1>2, <1>3 DEF Discard
-----------------------------------------------------------------------------
\* Who owns the lock, in a form the provers can use.
LEMMA OwnersDef ==
  /\ \A t : t \in Owners <=> /\ t \in Tasks
                            /\ \/ pc[t] \in {"holding", "releasing"}
                               \/ fut[t] = "granted"
  /\ \A t : t \in Owners' <=> /\ t \in Tasks
                             /\ \/ pc'[t] \in {"holding", "releasing"}
                                \/ fut'[t] = "granted"
BY DEF Owners

LEMMA InitInv == Init => LockInv
<1> SUFFICES ASSUME Init PROVE LockInv
  OBVIOUS
<1>1. TypeOK
  BY EmptySeq DEF Init, TypeOK, PCs, Futures
<1>2. Owners = {}
  BY DEF Init, Owners
<1>3. ToSet(order) = {} /\ \A l \in Lanes : ToSet(waiters[l]) = {}
  BY DEF Init, ToSet
<1>4. IsInjective(order) /\ \A l \in Lanes : IsInjective(waiters[l])
  BY DEF Init, IsInjective
<1>5. QED
  BY <1>1, <1>2, <1>3, <1>4 DEF Init, LockInv, MutualExclusion

\* The part of LockInv about who owns the lock.
OwnersInv ==
  /\ MutualExclusion
  /\ held <=> Owners # {}
  /\ \A t \in Tasks : fut[t] = "none" <=> pc[t] # "waiting"

LEMMA OwnersStep ==
  ASSUME LockInv, Next
  PROVE  OwnersInv'
<1> USE DEF TypeOK, PCs, Futures, MutualExclusion
<1>1. /\ TypeOK
      /\ OwnersInv
  BY DEF LockInv, OwnersInv
<1>2. ASSUME NEW t \in Tasks, AcquireFree(t)
      PROVE  OwnersInv'
  BY <1>1, <1>2, OwnersDef DEF AcquireFree, OwnersInv
<1>3. ASSUME NEW t \in Tasks, NEW l \in Lanes, AcquireWait(t, l)
      PROVE  OwnersInv'
  <2>1. \A u \in Tasks : u \in Owners' <=> u \in Owners
    BY <1>1, <1>3, OwnersDef DEF AcquireWait, OwnersInv
  <2>2. \A u \in Tasks : fut'[u] = "none" <=> pc'[u] # "waiting"
    BY <1>1, <1>3 DEF AcquireWait, OwnersInv
  <2>3. held' = held
    BY <1>3 DEF AcquireWait
  <2>4. QED
    BY <1>1, <2>1, <2>2, <2>3, OwnersDef DEF OwnersInv
<1>4. ASSUME NEW t \in Tasks, Cancel(t)
      PROVE  OwnersInv'
  BY <1>1, <1>4, OwnersDef DEF Cancel, OwnersInv
<1>5. ASSUME NEW t \in Tasks, Resume(t)
      PROVE  OwnersInv'
  BY <1>1, <1>5, OwnersDef DEF Resume, OwnersInv
<1>6. ASSUME NEW t \in Tasks, ResumeGrantedCancelled(t)
      PROVE  OwnersInv'
  <2>1. \A u \in Tasks : u \in Owners' <=> u \in Owners
    BY <1>1, <1>6, OwnersDef DEF ResumeGrantedCancelled
  <2>2. \A u \in Tasks : fut'[u] = "none" <=> pc'[u] # "waiting"
    BY <1>1, <1>6 DEF ResumeGrantedCancelled, OwnersInv
  <2>3. held' = held
    BY <1>6 DEF ResumeGrantedCancelled
  <2>4. QED
    BY <1>1, <2>1, <2>2, <2>3, OwnersDef DEF OwnersInv
<1>7. ASSUME NEW t \in Tasks, ResumeCancelled(t)
      PROVE  OwnersInv'
  BY <1>1, <1>7, OwnersDef DEF ResumeCancelled, OwnersInv
<1>8. ASSUME NEW t \in Tasks, Release(t)
      PROVE  OwnersInv'
  BY <1>1, <1>8, OwnersDef DEF Release, OwnersInv
<1>9. ASSUME NEW t \in Tasks, ReleasePass(t)
      PROVE  OwnersInv'
  <2>1. FirstWaiter \in Tasks
    BY <1>9, PopLeaves DEF ReleasePass
  <2>2. \A u \in Tasks : u \in Owners <=> u = t
    BY <1>1, <1>9, OwnersDef DEF ReleasePass, OwnersInv
  <2>3. FirstWaiter # t
    BY <1>1, <1>9, <2>1 DEF ReleasePass, OwnersInv
  <2>4. \A u \in Tasks : u \in Owners' <=> u = FirstWaiter
    <3> DEFINE f == FirstWaiter
    <3>1. /\ fut' = [fut EXCEPT ![f] = "granted"]
          /\ pc' = [pc EXCEPT ![t] = "idle"]
      BY <1>9 DEF ReleasePass
    <3>2. f \in Tasks /\ f # t
      BY <2>1, <2>3
    <3> HIDE DEF f
    <3>3. f \in Owners' /\ t \notin Owners'
      <4>1. fut'[f] = "granted"
        BY <1>1, <3>1, <3>2
      <4>2. pc'[t] = "idle" /\ fut'[t] = fut[t]
        BY <1>1, <3>1, <3>2
      <4>3. fut[t] = "none"
        BY <1>1, <1>9 DEF ReleasePass, OwnersInv
      <4>4. QED
        BY <3>2, <4>1, <4>2, <4>3, OwnersDef
    <3>4. ASSUME NEW u \in Tasks, u # t, u # f
          PROVE  u \notin Owners'
      <4>1. pc'[u] = pc[u] /\ fut'[u] = fut[u]
        BY <1>1, <3>1, <3>2, <3>4
      <4>2. u \notin Owners
        BY <2>2, <3>4
      <4>3. QED
        BY <4>1, <4>2, OwnersDef
    <3>5. \A u \in Tasks : u \in Owners' <=> u = f
      BY <3>3, <3>4
    <3>6. QED
      BY <3>5 DEF f
  <2>5. \A u \in Tasks : fut'[u] = "none" <=> pc'[u] # "waiting"
    BY <1>1, <1>9, <2>1, <2>3 DEF ReleasePass, OwnersInv
  <2>6. held'
    BY <1>1, <1>9, <2>2 DEF ReleasePass, OwnersInv
  <2>7. QED
    BY <2>1, <2>4, <2>5, <2>6, OwnersDef DEF OwnersInv
<1>10. ASSUME NEW t \in Tasks, ReleaseSkip(t)
       PROVE  OwnersInv'
  BY <1>1, <1>10, OwnersDef DEF ReleaseSkip, OwnersInv
<1>11. ASSUME NEW t \in Tasks, ReleaseEmpty(t)
       PROVE  OwnersInv'
  BY <1>1, <1>11, OwnersDef DEF ReleaseEmpty, OwnersInv
<1>12. QED
  BY <1>2, <1>3, <1>4, <1>5, <1>6, <1>7, <1>8, <1>9, <1>10, <1>11 DEF Next
-----------------------------------------------------------------------------
\* The part of LockInv about the lanes.
LanesInv ==
  /\ ~held => order = <<>>
  /\ IsInjective(order)
  /\ \A l \in Lanes :
       /\ l \in ToSet(order) <=> waiters[l] # <<>>
       /\ IsInjective(waiters[l])
       /\ \A t \in ToSet(waiters[l]) :
            /\ fut[t] \in {"pending", "cancelled"}
            /\ \A m \in Lanes : t \in ToSet(waiters[m]) => m = l
  /\ \A t \in Tasks : fut[t] = "pending" => \E l \in Lanes : t \in ToSet(waiters[l])

\* A step that takes waiter u out of the lanes, with u no longer pending,
\* and changes no other Future, keeps the lanes in order.
LEMMA LeftKeepsLanes ==
  ASSUME LockInv, NEW u \in Tasks, Left(u), held,
         order = <<>> => order' = <<>>,
         fut' \in [Tasks -> Futures], fut'[u] # "pending",
         \A t \in Tasks : t # u => fut'[t] = fut[t],
         held' = held
  PROVE  LanesInv'
<1>1. /\ TypeOK
      /\ LanesInv
  BY DEF LockInv, LanesInv
<1>2. ASSUME NEW l \in Lanes
      PROVE  /\ l \in ToSet(order') <=> waiters'[l] # <<>>
             /\ IsInjective(waiters'[l])
             /\ \A t \in ToSet(waiters'[l]) :
                  /\ fut'[t] \in {"pending", "cancelled"}
                  /\ \A m \in Lanes : t \in ToSet(waiters'[m]) => m = l
  <2>1. \A m \in Lanes : ToSet(waiters'[m]) = ToSet(waiters[m]) \ {u}
    BY DEF Left
  <2>2. ASSUME NEW t \in ToSet(waiters'[l])
        PROVE  /\ fut'[t] \in {"pending", "cancelled"}
               /\ \A m \in Lanes : t \in ToSet(waiters'[m]) => m = l
    <3>1. t \in ToSet(waiters[l]) /\ t # u
      BY <2>1, <2>2
    <3>2. t \in Tasks
      BY <1>1, <3>1, ToSetType DEF TypeOK
    <3>3. QED
      BY <1>1, <2>1, <3>1, <3>2 DEF LanesInv
  <2>3. QED
    BY <2>2 DEF Left
<1>3. ASSUME NEW t \in Tasks, fut'[t] = "pending"
      PROVE  \E l \in Lanes : t \in ToSet(waiters'[l])
  <2>1. t # u /\ fut[t] = "pending"
    BY <1>3
  <2>2. PICK l \in Lanes : t \in ToSet(waiters[l])
    BY <1>1, <2>1 DEF LanesInv
  <2>3. QED
    BY <2>1, <2>2 DEF Left
<1>4. (IsInjective(order))'
  BY DEF Left
<1>5. QED
  BY <1>2, <1>3, <1>4 DEF LanesInv

LEMMA LanesStep ==
  ASSUME LockInv, Next
  PROVE  LanesInv'
<1>1. /\ TypeOK
      /\ LanesInv
      /\ OwnersInv
  BY DEF LockInv, LanesInv, OwnersInv
<1>2. ASSUME UNCHANGED <<order, waiters>>,
             fut' \in [Tasks -> Futures],
             held \/ held' = held \/ order = <<>>,
             held' \/ order = <<>>,
             \A t \in Tasks : \/ fut'[t] = fut[t]
                             \/ /\ fut[t] = "pending"
                                /\ fut'[t] = "cancelled"
                             \/ /\ fut[t] = "granted"
                                /\ fut'[t] = "none"
      PROVE  LanesInv'
  <2>1. ASSUME NEW l \in Lanes, NEW t \in ToSet(waiters[l])
        PROVE  fut'[t] \in {"pending", "cancelled"}
    <3>1. t \in Tasks /\ fut[t] \in {"pending", "cancelled"}
      BY <1>1, <2>1, ToSetType DEF TypeOK, LanesInv
    <3>2. QED
      BY <1>2, <3>1
  <2>2. \A t \in Tasks : fut'[t] = "pending" => fut[t] = "pending"
    BY <1>2
  <2>3. waiters' = waiters /\ order' = order
    BY <1>2
  <2>4. QED
    BY <1>1, <1>2, <2>1, <2>2, <2>3 DEF LanesInv
<1> USE DEF TypeOK
<1>3. ASSUME NEW t \in Tasks, AcquireFree(t)
      PROVE  LanesInv'
  BY <1>1, <1>2, <1>3 DEF AcquireFree, LanesInv
<1>4. ASSUME NEW t \in Tasks, NEW l \in Lanes, AcquireWait(t, l)
      PROVE  LanesInv'
  <2>1. /\ fut[t] = "none"
        /\ \A m \in Lanes : t \notin ToSet(waiters[m])
    <3>1. fut[t] = "none"
      BY <1>1, <1>4 DEF AcquireWait, OwnersInv
    <3>2. QED
      BY <1>1, <3>1 DEF LanesInv
  <2> DEFINE grown == Append(waiters[l], t)
  <2>2. /\ grown \in Seq(Tasks)
        /\ grown # <<>>
        /\ ToSet(grown) = ToSet(waiters[l]) \cup {t}
        /\ IsInjective(grown)
    <3>1. waiters[l] \in Seq(Tasks) /\ IsInjective(waiters[l])
      BY <1>1 DEF LanesInv
    <3>2. QED
      BY <2>1, <3>1, AppendElements
  <2>3. /\ waiters' = [waiters EXCEPT ![l] = grown]
        /\ order' = IF waiters[l] = <<>> THEN Append(order, l) ELSE order
        /\ fut' = [fut EXCEPT ![t] = "pending"]
        /\ held' = held
        /\ held
    BY <1>4 DEF AcquireWait
  <2>4. /\ ToSet(order') = ToSet(order) \cup {l}
        /\ IsInjective(order')
    <3>1. order \in Seq(Lanes) /\ IsInjective(order)
      BY <1>1 DEF LanesInv
    <3>2. l \in ToSet(order) <=> waiters[l] # <<>>
      BY <1>1 DEF LanesInv
    <3>3. CASE waiters[l] = <<>>
      <4>1. /\ ToSet(Append(order, l)) = ToSet(order) \cup {l}
            /\ IsInjective(Append(order, l))
        BY <3>1, <3>2, <3>3, AppendElements
      <4>2. QED
        BY <2>3, <3>3, <4>1
    <3>4. CASE waiters[l] # <<>>
      BY <2>3, <3>1, <3>2, <3>4
    <3>5. QED
      BY <3>3, <3>4
  <2> HIDE DEF grown
  <2>5. ASSUME NEW m \in Lanes
        PROVE  /\ m \in ToSet(order') <=> waiters'[m] # <<>>
               /\ IsInjective(waiters'[m])
               /\ ToSet(waiters'[m]) = IF m = l THEN ToSet(waiters[m]) \cup {t}
                                               ELSE ToSet(waiters[m])
    <3>1. CASE m = l
      BY <1>1, <2>2, <2>3, <2>4, <3>1
    <3>2. CASE m # l
      <4>1. waiters'[m] = waiters[m]
        BY <1>1, <2>3, <3>2
      <4>2. QED
        BY <1>1, <2>4, <3>2, <4>1 DEF LanesInv
    <3>3. QED
      BY <3>1, <3>2
  <2>6. ASSUME NEW m \in Lanes, NEW u \in ToSet(waiters'[m])
        PROVE  /\ fut'[u] \in {"pending", "cancelled"}
               /\ \A n \in Lanes : u \in ToSet(waiters'[n]) => n = m
    <3>1. CASE u = t
      <4>1. fut'[u] = "pending"
        BY <1>1, <2>3, <3>1
      <4>2. QED
        BY <2>1, <2>5, <2>6, <3>1, <4>1
    <3>2. CASE u # t
      <4>1. u \in ToSet(waiters[m])
        BY <2>5, <2>6, <3>2
      <4>2. u \in Tasks
        BY <1>1, <4>1, ToSetType
      <4>3. fut'[u] = fut[u]
        BY <1>1, <2>3, <3>2, <4>2
      <4>4. \A n \in Lanes : u \in ToSet(waiters'[n]) => u \in ToSet(waiters[n])
        BY <2>5, <3>2
      <4>5. QED
        BY <1>1, <4>1, <4>3, <4>4 DEF LanesInv
    <3>3. QED
      BY <3>1, <3>2
  <2>7. ASSUME NEW u \in Tasks, fut'[u] = "pending"
        PROVE  \E m \in Lanes : u \in ToSet(waiters'[m])
    <3>1. CASE u = t
      BY <2>5, <3>1
    <3>2. CASE u # t
      <4>1. fut[u] = "pending"
        BY <1>1, <2>3, <2>7, <3>2
      <4>2. PICK m \in Lanes : u \in ToSet(waiters[m])
        BY <1>1, <4>1 DEF LanesInv
      <4>3. QED
        BY <2>5, <4>2
    <3>3. QED
      BY <3>1, <3>2
  <2>8. QED
    BY <2>3, <2>4, <2>5, <2>6, <2>7 DEF LanesInv
<1>5. ASSUME NEW t \in Tasks, Cancel(t)
      PROVE  LanesInv'
  BY <1>1, <1>2, <1>5 DEF Cancel, Futures, LanesInv
<1>6. ASSUME NEW t \in Tasks, Resume(t)
      PROVE  LanesInv'
  BY <1>1, <1>2, <1>6 DEF Resume, Futures, LanesInv
<1>7. ASSUME NEW t \in Tasks, ResumeGrantedCancelled(t)
      PROVE  LanesInv'
  BY <1>1, <1>2, <1>7 DEF ResumeGrantedCancelled, Futures, LanesInv
<1>8. ASSUME NEW t \in Tasks, ResumeCancelled(t)
      PROVE  LanesInv'
  <2>1. Left(t)
    BY <1>8, DiscardLeaves DEF ResumeCancelled
  <2>2. /\ fut' \in [Tasks -> Futures]
        /\ fut'[t] # "pending"
        /\ \A u \in Tasks : u # t => fut'[u] = fut[u]
        /\ held' = held
    BY <1>1, <1>8 DEF ResumeCancelled, Futures
  <2>3. CASE held
    <3>1. order = <<>> => order' = <<>>
      <4>1. SUFFICES ASSUME order = <<>> PROVE order' = <<>>
        OBVIOUS
      <4>2. \A l \in Lanes : ToSet(waiters[l]) = {}
        <5>1. ToSet(order) = {}
          BY <4>1 DEF ToSet
        <5>2. QED
          BY <1>1, <5>1, ToSetEmpty DEF LanesInv
      <4>3. QED
        BY <1>8, <4>1, <4>2 DEF ResumeCancelled, Discard
    <3>2. QED
      BY <2>1, <2>2, <2>3, <3>1, LeftKeepsLanes
  <2>4. CASE ~held
    <3>1. order = <<>>
      BY <1>1, <2>4 DEF LanesInv
    <3>2. ToSet(order) = {}
      BY <3>1 DEF ToSet
    <3>3. \A l \in Lanes : ToSet(waiters[l]) = {}
      BY <1>1, <3>2, ToSetEmpty DEF LanesInv
    <3>4. UNCHANGED <<order, waiters>>
      BY <1>8, <3>3 DEF ResumeCancelled, Discard
    <3>5. ASSUME NEW u \in Tasks, fut'[u] = "pending"
          PROVE  FALSE
      BY <1>1, <2>2, <3>3, <3>5 DEF LanesInv
    <3>6. QED
      BY <1>1, <3>1, <3>3, <3>4, <3>5 DEF LanesInv
  <2>5. QED
    BY <2>3, <2>4
<1>9. ASSUME NEW t \in Tasks, Release(t)
      PROVE  LanesInv'
  BY <1>1, <1>2, <1>9 DEF Release, LanesInv
<1>10. ASSUME NEW t \in Tasks, ReleasePass(t)
       PROVE  LanesInv'
  <2>1. /\ FirstWaiter \in Tasks
        /\ Left(FirstWaiter)
    BY <1>10, PopLeaves DEF ReleasePass
  <2>2. /\ fut' \in [Tasks -> Futures]
        /\ fut'[FirstWaiter] # "pending"
        /\ \A u \in Tasks : u # FirstWaiter => fut'[u] = fut[u]
        /\ held' = held
    BY <1>1, <1>10, <2>1 DEF ReleasePass, Futures
  <2>3. held /\ order # <<>>
    BY <1>1, <1>10 DEF ReleasePass, LanesInv
  <2>4. QED
    BY <2>1, <2>2, <2>3, LeftKeepsLanes
<1>11. ASSUME NEW t \in Tasks, ReleaseSkip(t)
       PROVE  LanesInv'
  <2>1. /\ FirstWaiter \in Tasks
        /\ Left(FirstWaiter)
    BY <1>11, PopLeaves DEF ReleaseSkip
  <2>2. /\ fut' \in [Tasks -> Futures]
        /\ fut'[FirstWaiter] # "pending"
        /\ \A u \in Tasks : u # FirstWaiter => fut'[u] = fut[u]
        /\ held' = held
    BY <1>1, <1>11, <2>1 DEF ReleaseSkip
  <2>3. held /\ order # <<>>
    BY <1>1, <1>11 DEF ReleaseSkip, LanesInv
  <2>4. QED
    BY <2>1, <2>2, <2>3, LeftKeepsLanes
<1>12. ASSUME NEW t \in Tasks, ReleaseEmpty(t)
       PROVE  LanesInv'
  BY <1>1, <1>2, <1>12 DEF ReleaseEmpty, LanesInv
<1>13. QED
  BY <1>3, <1>4, <1>5, <1>6, <1>7, <1>8, <1>9, <1>10, <1>11, <1>12 DEF Next

-----------------------------------------------------------------------------
LEMMA TypeStep ==
  ASSUME LockInv, Next
  PROVE  TypeOK'
<1> USE DEF TypeOK, PCs, Futures
<1>1. TypeOK
  BY DEF LockInv
<1>2. ASSUME NEW t \in Tasks, AcquireFree(t)
      PROVE  TypeOK'
  BY <1>1, <1>2 DEF AcquireFree
<1>3. ASSUME NEW t \in Tasks, NEW l \in Lanes, AcquireWait(t, l)
      PROVE  TypeOK'
  <2>1. /\ Append(waiters[l], t) \in Seq(Tasks)
        /\ Append(order, l) \in Seq(Lanes)
    BY <1>1, AppendElements
  <2>2. QED
    BY <1>1, <1>3, <2>1 DEF AcquireWait
<1>4. ASSUME NEW t \in Tasks, Cancel(t)
      PROVE  TypeOK'
  BY <1>1, <1>4 DEF Cancel
<1>5. ASSUME NEW t \in Tasks, Resume(t) \/ ResumeGrantedCancelled(t) \/ Release(t)
      PROVE  TypeOK'
  BY <1>1, <1>5 DEF Resume, ResumeGrantedCancelled, Release
<1>6. ASSUME NEW t \in Tasks, ResumeCancelled(t)
      PROVE  TypeOK'
  <2>1. Left(t)
    BY <1>6, DiscardLeaves DEF ResumeCancelled
  <2>2. QED
    BY <1>1, <1>6, <2>1 DEF ResumeCancelled, Left
<1>7. ASSUME NEW t \in Tasks, ReleasePass(t)
      PROVE  TypeOK'
  <2>1. FirstWaiter \in Tasks /\ Left(FirstWaiter)
    BY <1>7, PopLeaves DEF ReleasePass
  <2>2. QED
    BY <1>1, <1>7, <2>1 DEF ReleasePass, Left
<1>8. ASSUME NEW t \in Tasks, ReleaseSkip(t)
      PROVE  TypeOK'
  <2>1. FirstWaiter \in Tasks /\ Left(FirstWaiter)
    BY <1>8, PopLeaves DEF ReleaseSkip
  <2>2. QED
    BY <1>1, <1>8, <2>1 DEF ReleaseSkip, Left
<1>9. ASSUME NEW t \in Tasks, ReleaseEmpty(t)
      PROVE  TypeOK'
  BY <1>1, <1>9 DEF ReleaseEmpty
<1>10. QED
  BY <1>2, <1>3, <1>4, <1>5, <1>6, <1>7, <1>8, <1>9 DEF Next

-----------------------------------------------------------------------------
\* Every step keeps LockInv.
LEMMA LockStep ==
  ASSUME LockInv, [Next]_vars
  PROVE  LockInv'
<1>1. CASE Next
  <2>1. TypeOK' /\ OwnersInv' /\ LanesInv'
    BY <1>1, TypeStep, OwnersStep, LanesStep
  <2>2. QED
    BY <2>1 DEF LockInv, OwnersInv, LanesInv
<1>2. CASE UNCHANGED vars
  BY <1>2 DEF vars, LockInv, TypeOK, MutualExclusion, Owners
<1>3. QED
  BY <1>1, <1>2

\* So it always holds.
THEOREM LockInvariant == Spec => []LockInv
BY InitInv, LockStep, PTL DEF Spec

\* The GPU lock never belongs to two jobs, whatever is granted and cancelled
\* in whatever order (acquire, release and the pass-on in acquire's handler).
THEOREM LockMutualExclusion == Spec => []MutualExclusion
<1>1. LockInv => MutualExclusion
  BY DEF LockInv
<1>2. QED
  BY <1>1, LockInvariant, PTL

\* A held lock always belongs to a task that will release it.
THEOREM LockNeverLost == Spec => []NoLostGrant
<1>1. LockInv => NoLostGrant
  BY DEF LockInv, NoLostGrant
<1>2. QED
  BY <1>1, LockInvariant, PTL

\* Nobody waits for a free lock, and release() finds every live waiter.
THEOREM WaitersAreServed == Spec => [](NoStrandedWaiter /\ WaitersReachable)
<1>1. LockInv => NoStrandedWaiter /\ WaitersReachable
  <2> SUFFICES ASSUME LockInv, NEW t \in Tasks, fut[t] = "pending"
               PROVE  held /\ \E l \in ToSet(order) : t \in ToSet(waiters[l])
    BY DEF NoStrandedWaiter, WaitersReachable
  <2>1. PICK l \in Lanes : t \in ToSet(waiters[l])
    BY DEF LockInv
  <2>2. waiters[l] # <<>>
    BY <2>1 DEF ToSet
  <2>3. l \in ToSet(order)
    BY <2>2 DEF LockInv
  <2>4. order # <<>>
    BY <2>3 DEF ToSet
  <2>5. QED
    BY <2>1, <2>3, <2>4 DEF LockInv
<1>2. QED
  BY <1>1, LockInvariant, PTL
-----------------------------------------------------------------------------
(***************************************************************************)
(* The rotation.                                                           *)
(***************************************************************************)

\* m doesn't come before l in the rotation q.
NotBefore(q, m, l) == \A i, j \in DOMAIN q : q[i] = m /\ q[j] = l => j < i

\* A lane passed over once comes before the lane that passed it.
TurnsInv ==
  /\ overtaken \in [Lanes -> [Lanes -> {0, 1}]]
  /\ \A l, m \in Lanes : overtaken[l][m] = 1 => waiters[l] # <<>> /\ NotBefore(order, m, l)

\* A lane that joins the rotation goes behind the others.
LEMMA AppendNotBefore ==
  ASSUME NEW S, NEW q \in Seq(S), NEW x \in S, x \notin ToSet(q),
         NEW m, NEW l, l # x, NotBefore(q, m, l)
  PROVE  NotBefore(Append(q, x), m, l)
<1> DEFINE r == Append(q, x)
<1>1. /\ Len(q) \in Nat /\ DOMAIN q = 1..Len(q) /\ DOMAIN r = 1..(Len(q) + 1)
      /\ \A i \in 1..Len(q) : r[i] = q[i]
      /\ r[Len(q) + 1] = x
  BY AppendProperties, LenProperties
<1> HIDE DEF r
<1>2. ASSUME NEW i \in DOMAIN r, NEW j \in DOMAIN r, r[i] = m, r[j] = l
      PROVE  j < i
  <2>1. j \in 1..Len(q)
    BY <1>1, <1>2
  <2>2. CASE i \in 1..Len(q)
    BY <1>1, <1>2, <2>1, <2>2 DEF NotBefore
  <2>3. CASE i = Len(q) + 1
    BY <1>1, <2>1, <2>3
  <2>4. QED
    BY <1>1, <2>2, <2>3
<1>3. QED
  BY <1>2 DEF NotBefore, r

\* The first lane leaving changes nothing between the others ...
LEMMA TailNotBefore ==
  ASSUME NEW S, NEW q \in Seq(S), q # <<>>, NEW m, NEW l, NotBefore(q, m, l)
  PROVE  NotBefore(Tail(q), m, l)
<1> DEFINE r == Tail(q)
<1>1. /\ Len(q) \in Nat \ {0} /\ DOMAIN q = 1..Len(q) /\ DOMAIN r = 1..(Len(q) - 1)
      /\ \A i \in 1..(Len(q) - 1) : r[i] = q[i + 1]
  BY HeadTailProperties, LenProperties, EmptySeq
<1> HIDE DEF r
<1>2. ASSUME NEW i \in DOMAIN r, NEW j \in DOMAIN r, r[i] = m, r[j] = l
      PROVE  j < i
  <2>1. i + 1 \in DOMAIN q /\ j + 1 \in DOMAIN q /\ q[i + 1] = m /\ q[j + 1] = l /\ i \in Nat /\ j \in Nat
    BY <1>1, <1>2
  <2>2. j + 1 < i + 1
    BY <2>1 DEF NotBefore
  <2>3. QED
    BY <2>1, <2>2
<1>3. QED
  BY <1>2 DEF NotBefore, r

\* ... nor does any other.
LEMMA RemoveNotBefore ==
  ASSUME NEW S, NEW q \in Seq(S), IsInjective(q), NEW x \in ToSet(q), NEW m, NEW l, NotBefore(q, m, l)
  PROVE  NotBefore(RemoveFirst(q, x), m, l)
<1>1. PICK r : r = RemoveFirst(q, x)
  OBVIOUS
<1>2. PICK k \in 1..Len(q) :
        /\ Len(q) \in Nat /\ DOMAIN q = 1..Len(q) /\ DOMAIN r = 1..(Len(q) - 1)
        /\ \A i \in 1..(Len(q) - 1) : r[i] = IF i < k THEN q[i] ELSE q[i + 1]
  <2>1. PICK k \in DOMAIN q : q[k] = x
    BY DEF ToSet
  <2>2. Len(q) \in Nat /\ DOMAIN q = 1..Len(q)
    BY LenProperties
  <2>3. r \in Seq(S) /\ Len(r) = Len(q) - 1
    BY <1>1, RemoveFirstElements
  <2>4. DOMAIN r = 1..(Len(q) - 1)
    BY <2>3, LenProperties
  <2>5. \A i \in 1..(Len(q) - 1) : r[i] = IF i < k THEN q[i] ELSE q[i + 1]
    BY <1>1, <2>1, RemoveFirstElements
  <2>6. QED
    BY <2>1, <2>2, <2>4, <2>5
<1>3. ASSUME NEW i \in DOMAIN r, NEW j \in DOMAIN r, r[i] = m, r[j] = l
      PROVE  j < i
  <2>1. PICK a \in DOMAIN q : q[a] = m /\ a = IF i < k THEN i ELSE i + 1
    BY <1>2, <1>3
  <2>2. PICK b \in DOMAIN q : q[b] = l /\ b = IF j < k THEN j ELSE j + 1
    BY <1>2, <1>3
  <2>3. b < a
    BY <2>1, <2>2 DEF NotBefore
  <2>4. QED
    BY <1>2, <2>1, <2>2, <2>3
<1>4. QED
  BY <1>1, <1>3 DEF NotBefore

\* A step that takes no turn, and leaves the lanes or adds to one or takes from
\* one, keeps who comes before whom among those that wait.
LEMMA OthersKeepTurns ==
  ASSUME LockInv, TurnsInv, CountTurns, \A l \in Lanes : ~ TakesTurn(l),
         \A l, m \in Lanes : /\ waiters[l] # <<>> /\ waiters'[l] # <<>> /\ NotBefore(order, m, l)
                             => NotBefore(order', m, l)
  PROVE  TurnsInv'
<1>1. \A l, m \in Lanes : overtaken'[l][m] = IF waiters'[l] = <<>> THEN 0 ELSE overtaken[l][m]
  <2>1. ASSUME NEW l \in Lanes, NEW m \in Lanes
        PROVE  overtaken'[l][m] = IF waiters'[l] = <<>> THEN 0 ELSE overtaken[l][m]
    <3>1. ~ GrantedIn(m) /\ ~ TakesTurn(l)
      BY DEF GrantedIn
    <3>2. overtaken[l][m] \in {0, 1}
      BY DEF TurnsInv
    <3>3. QED
      BY <3>1, <3>2 DEF CountTurns
  <2>2. QED
    BY <2>1
<1>2. overtaken' \in [Lanes -> [Lanes -> {0, 1}]]
  <2>1. overtaken' = [l \in Lanes |-> [m \in Lanes |-> overtaken'[l][m]]]
    BY DEF CountTurns
  <2>2. \A l, m \in Lanes : overtaken'[l][m] \in {0, 1}
    BY <1>1 DEF TurnsInv
  <2>3. QED
    BY <2>1, <2>2
<1>3. QED
  BY <1>1, <1>2 DEF TurnsInv

\* A turn sends the first lane behind those it passed over, each for the first
\* time since its own turn.
LEMMA TurnKeepsTurns ==
  ASSUME LockInv, TurnsInv, CountTurns, NEW t \in Tasks, ReleasePass(t) \/ ReleaseSkip(t)
  PROVE  TurnsInv'
<1>1. order # <<>> /\ PopFirstWaiter /\ pc[t] = "releasing"
  BY DEF ReleasePass, ReleaseSkip
<1>2. order \in Seq(Lanes) /\ IsInjective(order) /\ waiters \in [Lanes -> Seq(Tasks)]
  BY DEF LockInv, TypeOK
<1>3. PICK h \in Lanes : h = Head(order)
  BY <1>1, <1>2, TailElements
<1>4. PICK rest \in Seq(Lanes) : rest = Tail(order) /\ h \notin ToSet(rest)
  BY <1>1, <1>2, <1>3, TailElements
<1>5. /\ \A l \in Lanes : l # h => waiters'[l] = waiters[l]
      /\ order' = rest \/ order' = Append(rest, h)
  BY <1>1, <1>2, <1>3, <1>4 DEF PopFirstWaiter
<1>6. \A l \in Lanes : TakesTurn(l) <=> l = h
  BY <1>1, <1>3 DEF TakesTurn
<1>7. ASSUME NEW l \in Lanes, l # h, NEW m \in Lanes, NotBefore(rest, m, l)
      PROVE  NotBefore(order', m, l)
  BY <1>4, <1>5, <1>7, AppendNotBefore
<1>8. ASSUME NEW l \in Lanes, l # h
      PROVE  NotBefore(rest, h, l)
  BY <1>4 DEF NotBefore, ToSet
<1>9. ASSUME NEW l \in Lanes, l # h, waiters[l] # <<>>
      PROVE  overtaken[l][h] = 0
  <2>1. l \in ToSet(order)
    BY <1>9 DEF LockInv
  <2>2. PICK j \in DOMAIN order : order[j] = l
    BY <2>1 DEF ToSet
  <2>3. DOMAIN order = 1..Len(order) /\ Len(order) \in Nat /\ 1 \in DOMAIN order /\ order[1] = h
    BY <1>1, <1>2, <1>3, HeadTailProperties, LenProperties, EmptySeq
  <2>4. ~ NotBefore(order, h, l)
    BY <2>2, <2>3 DEF NotBefore
  <2>5. QED
    BY <2>4 DEF TurnsInv
<1>10. ASSUME NEW l \in Lanes, NEW m \in Lanes
       PROVE  /\ overtaken'[l][m] \in {0, 1}
              /\ overtaken'[l][m] = 1 => waiters'[l] # <<>> /\ NotBefore(order', m, l)
  <2>1. overtaken'[l][m] =
          IF l = h \/ waiters'[l] = <<>> THEN 0
          ELSE overtaken[l][m] + IF GrantedIn(m) /\ overtaken[l][m] < MaxCount THEN 1 ELSE 0
    BY <1>6 DEF CountTurns
  <2>2. CASE l = h \/ waiters'[l] = <<>>
    BY <2>1, <2>2
  <2>3. CASE l # h /\ waiters'[l] # <<>> /\ m = h
    <3>1. overtaken[l][m] = 0
      BY <1>5, <1>9, <2>3
    <3>2. overtaken'[l][m] \in {0, 1}
      BY <2>1, <2>3, <3>1
    <3>3. NotBefore(order', m, l)
      BY <1>7, <1>8, <2>3
    <3>4. QED
      BY <2>3, <3>2, <3>3
  <2>4. CASE l # h /\ waiters'[l] # <<>> /\ m # h
    <3>1. ~ GrantedIn(m)
      BY <1>6, <2>4 DEF GrantedIn
    <3>2. overtaken[l][m] \in {0, 1}
      BY DEF TurnsInv
    <3>3. overtaken'[l][m] = overtaken[l][m]
      BY <2>1, <2>4, <3>1, <3>2
    <3>4. overtaken[l][m] = 1 => NotBefore(order, m, l)
      BY DEF TurnsInv
    <3>5. NotBefore(order, m, l) => NotBefore(order', m, l)
      BY <1>1, <1>2, <1>4, <1>7, <2>4, TailNotBefore
    <3>6. QED
      BY <2>4, <3>2, <3>3, <3>4, <3>5
  <2>5. QED
    BY <2>2, <2>3, <2>4
<1>11. overtaken' \in [Lanes -> [Lanes -> {0, 1}]]
  <2>1. overtaken' = [l \in Lanes |-> [m \in Lanes |-> overtaken'[l][m]]]
    BY DEF CountTurns
  <2>2. QED
    BY <1>10, <2>1
<1>12. QED
  BY <1>10, <1>11 DEF TurnsInv

\* Every step keeps the turns.
LEMMA TurnsStep ==
  ASSUME LockInv, TurnsInv, TNext
  PROVE  TurnsInv'
<1>1. CountTurns /\ Next
  BY DEF TNext
<1>2. order \in Seq(Lanes) /\ IsInjective(order) /\ waiters \in [Lanes -> Seq(Tasks)]
  BY DEF LockInv, TypeOK
<1>3. Quiet => \A l \in Lanes : ~ TakesTurn(l)
  BY DEF Quiet, TakesTurn
<1>4. ASSUME NEW t \in Tasks,
             AcquireFree(t) \/ Cancel(t) \/ Resume(t) \/ ResumeGrantedCancelled(t) \/ Release(t)
      PROVE  TurnsInv'
  <2>1. Quiet /\ order' = order
    BY <1>4 DEF AcquireFree, Cancel, Resume, ResumeGrantedCancelled, Release
  <2>2. QED
    BY <1>1, <1>3, <2>1, OthersKeepTurns
<1>5. ASSUME NEW t \in Tasks, NEW x \in Lanes, AcquireWait(t, x)
      PROVE  TurnsInv'
  <2>1. Quiet /\ order' = IF waiters[x] = <<>> THEN Append(order, x) ELSE order
    BY <1>5 DEF AcquireWait
  <2>2. waiters[x] = <<>> => x \notin ToSet(order)
    BY DEF LockInv
  <2>3. ASSUME NEW l \in Lanes, NEW m \in Lanes, waiters[l] # <<>>, NotBefore(order, m, l)
        PROVE  NotBefore(order', m, l)
    <3>1. CASE waiters[x] = <<>>
      BY <1>2, <2>1, <2>2, <2>3, <3>1, AppendNotBefore
    <3>2. CASE waiters[x] # <<>>
      BY <2>1, <2>3, <3>2
    <3>3. QED
      BY <3>1, <3>2
  <2>4. QED
    BY <1>1, <1>3, <2>1, <2>3, OthersKeepTurns
<1>6. ASSUME NEW t \in Tasks, ResumeCancelled(t)
      PROVE  TurnsInv'
  <2>1. Quiet /\ Discard(t)
    BY <1>6 DEF ResumeCancelled
  <2>2. order' = order \/ \E x \in Lanes : x \in ToSet(order) /\ order' = RemoveFirst(order, x)
    <3>1. ASSUME NEW x \in Lanes, t \in ToSet(waiters[x]), DiscardFrom(t, x)
          PROVE  order' = order \/ (x \in ToSet(order) /\ order' = RemoveFirst(order, x))
      <4>1. waiters[x] # <<>>
        BY <3>1 DEF ToSet
      <4>2. x \in ToSet(order)
        BY <4>1 DEF LockInv
      <4>3. QED
        BY <3>1, <4>2 DEF DiscardFrom
    <3>2. QED
      BY <2>1, <3>1 DEF Discard
  <2>3. ASSUME NEW l \in Lanes, NEW m \in Lanes, NotBefore(order, m, l)
        PROVE  NotBefore(order', m, l)
    BY <1>2, <2>2, <2>3, RemoveNotBefore
  <2>4. QED
    BY <1>1, <1>3, <2>1, <2>3, OthersKeepTurns
<1>7. ASSUME NEW t \in Tasks, ReleaseEmpty(t)
      PROVE  TurnsInv'
  <2>1. order = <<>> /\ order' = order
    BY <1>7 DEF ReleaseEmpty
  <2>2. \A l \in Lanes : ~ TakesTurn(l)
    BY <2>1 DEF TakesTurn
  <2>3. QED
    BY <1>1, <2>1, <2>2, OthersKeepTurns
<1>8. QED
  BY <1>1, <1>4, <1>5, <1>6, <1>7, TurnKeepsTurns DEF Next

\* A lane with waiters sees no other lane served twice before its own turn.
THEOREM OvertakingIsBounded == TSpec => []BoundedOvertaking
<1>1. TInit => LockInv /\ TurnsInv
  <2> SUFFICES ASSUME TInit PROVE LockInv /\ TurnsInv
    OBVIOUS
  <2>1. LockInv
    BY InitInv DEF TInit
  <2>2. TurnsInv
    BY DEF TInit, TurnsInv
  <2>3. QED
    BY <2>1, <2>2
<1>2. LockInv /\ TurnsInv /\ [TNext]_<<vars, overtaken>> => LockInv' /\ TurnsInv'
  <2>1. ASSUME LockInv, TurnsInv, TNext
        PROVE  LockInv' /\ TurnsInv'
    BY <2>1, LockStep, TurnsStep DEF TNext
  <2>2. ASSUME LockInv, TurnsInv, UNCHANGED <<vars, overtaken>>
        PROVE  LockInv' /\ TurnsInv'
    <3>1. LockInv'
      BY <2>2, LockStep
    <3>2. TurnsInv'
      BY <2>2 DEF TurnsInv, NotBefore, vars
    <3>3. QED
      BY <3>1, <3>2
  <2>3. QED
    BY <2>1, <2>2
<1>3. TurnsInv => BoundedOvertaking
  <2> SUFFICES ASSUME TurnsInv, NEW l \in Lanes, NEW m \in Lanes
               PROVE  overtaken[l][m] <= 1
    BY DEF BoundedOvertaking
  <2>1. overtaken[l][m] \in {0, 1}
    BY DEF TurnsInv
  <2>2. QED
    BY <2>1
<1>4. QED
  BY <1>1, <1>2, <1>3, PTL DEF TSpec
-----------------------------------------------------------------------------
\* What the recursion of Kept() defines.
Keeps(F, s, P) ==
  F = [i \in 0 .. Len(s) |->
         IF i = 0 THEN <<>>
         ELSE IF s[i] \in P THEN Append(F[i - 1], s[i]) ELSE F[i - 1]]

\* There is such a function, and Kept() is its last value.
LEMMA KeptExists ==
  ASSUME NEW S, NEW s \in Seq(S), NEW P
  PROVE  \E F : Keeps(F, s, P) /\ Kept(s, P) = F[Len(s)]
<1> DEFINE upTo(F, n) ==
             F = [i \in 0 .. n |->
                    IF i = 0 THEN <<>>
                    ELSE IF s[i] \in P THEN Append(F[i - 1], s[i]) ELSE F[i - 1]]
           T == {n \in Nat : \E F : upTo(F, n)}
<1>1. 0 \in T
  <2>1. upTo([i \in 0 .. 0 |-> <<>>], 0)
    OBVIOUS
  <2>2. QED
    BY <2>1
<1>2. ASSUME NEW n \in T PROVE n + 1 \in T
  <2>1. n \in Nat
    OBVIOUS
  <2>2. PICK F : upTo(F, n)
    BY <1>2
  <2> DEFINE last == IF s[n + 1] \in P THEN Append(F[n], s[n + 1]) ELSE F[n]
             G == [i \in 0 .. (n + 1) |-> IF i = n + 1 THEN last ELSE F[i]]
  <2>3. \A i \in 0 .. (n + 1) :
          G[i] = IF i = 0 THEN <<>>
                 ELSE IF s[i] \in P THEN Append(G[i - 1], s[i]) ELSE G[i - 1]
    <3>1. \A i \in 0 .. n : G[i] = F[i]
      BY <2>1
    <3>2. G[n + 1] = last
      BY <2>1
    <3>3. \A i \in 0 .. n :
            F[i] = IF i = 0 THEN <<>>
                   ELSE IF s[i] \in P THEN Append(F[i - 1], s[i]) ELSE F[i - 1]
      BY <2>2
    <3> HIDE DEF G
    <3>4. ASSUME NEW i \in 0 .. (n + 1)
          PROVE  G[i] = IF i = 0 THEN <<>>
                        ELSE IF s[i] \in P THEN Append(G[i - 1], s[i]) ELSE G[i - 1]
      <4>1. CASE i = n + 1
        <5>1. i # 0 /\ i - 1 = n /\ n \in 0 .. n
          BY <2>1, <4>1
        <5>2. G[i - 1] = F[n]
          BY <3>1, <5>1
        <5>3. QED
          BY <3>2, <4>1, <5>1, <5>2
      <4>2. CASE i \in 0 .. n
        <5>1. G[i] = F[i] /\ (i # 0 => G[i - 1] = F[i - 1])
          BY <2>1, <3>1, <4>2
        <5>2. QED
          BY <3>3, <4>2, <5>1
      <4>3. QED
        BY <2>1, <4>1, <4>2
    <3>5. QED
      BY <3>4
  <2>4. upTo(G, n + 1)
    <3>1. G = [i \in 0 .. (n + 1) |-> G[i]]
      OBVIOUS
    <3> HIDE DEF G
    <3>2. QED
      BY <2>3, <3>1
  <2> HIDE DEF upTo, G
  <2>5. \E H : upTo(H, n + 1)
    BY <2>4
  <2>6. QED
    BY <2>1, <2>5
<1>3. T = Nat
  <2> HIDE DEF T
  <2>1. T \in SUBSET Nat
    BY DEF T
  <2>2. QED
    BY <1>1, <1>2, <2>1, NaturalsFromZero
<1>4. \E F : upTo(F, Len(s))
  BY <1>3, LenProperties
<1>5. QED
  BY <1>4 DEF Keeps, Kept

\* What has been kept of a sequence doesn't depend on what follows.
LEMMA KeepsAlike ==
  ASSUME NEW S, NEW s \in Seq(S), NEW x \in S, NEW P,
         NEW F, Keeps(F, s, P), NEW G, Keeps(G, Append(s, x), P)
  PROVE  /\ G[Len(s)] = F[Len(s)]
         /\ G[Len(s) + 1] = IF x \in P THEN Append(F[Len(s)], x) ELSE F[Len(s)]
<1> DEFINE n == Len(s)
           T == {i \in Nat : i <= n => G[i] = F[i]}
<1>1. /\ n \in Nat /\ Len(Append(s, x)) = n + 1
      /\ \A i \in 1 .. n : Append(s, x)[i] = s[i]
      /\ Append(s, x)[n + 1] = x
  BY AppendAt
<1>2. \A i \in 0 .. n : F[i] = IF i = 0 THEN <<>>
                               ELSE IF s[i] \in P THEN Append(F[i - 1], s[i]) ELSE F[i - 1]
  BY DEF Keeps
<1>3. \A i \in 0 .. (n + 1) :
        G[i] = IF i = 0 THEN <<>>
               ELSE IF Append(s, x)[i] \in P THEN Append(G[i - 1], Append(s, x)[i]) ELSE G[i - 1]
  BY <1>1 DEF Keeps
<1> DEFINE a == Append(s, x)
<1> HIDE DEF n, a
<1>4. \A i \in 1 .. n : G[i] = IF s[i] \in P THEN Append(G[i - 1], s[i]) ELSE G[i - 1]
  <2>1. ASSUME NEW i \in 1 .. n
        PROVE  G[i] = IF s[i] \in P THEN Append(G[i - 1], s[i]) ELSE G[i - 1]
    <3>1. i \in 0 .. (n + 1) /\ i # 0 /\ Append(s, x)[i] = s[i]
      BY <1>1
    <3>2. QED
      BY <1>3, <3>1
  <2>2. QED
    BY <2>1
<1>5. G[0] = F[0]
  BY <1>1, <1>2, <1>3
<1>6. ASSUME NEW i \in T PROVE i + 1 \in T
  <2>1. CASE i + 1 <= n
    <3>1. i \in Nat /\ i + 1 \in 1 .. n /\ i + 1 \in 0 .. n /\ (i + 1) - 1 = i /\ i + 1 # 0
      BY <1>1, <2>1
    <3>2. G[i] = F[i]
      BY <1>1, <2>1, <3>1
    <3>3. G[i + 1] = IF s[i + 1] \in P THEN Append(G[i], s[i + 1]) ELSE G[i]
      BY <1>4, <3>1
    <3>4. F[i + 1] = IF s[i + 1] \in P THEN Append(F[i], s[i + 1]) ELSE F[i]
      BY <1>2, <3>1
    <3>5. QED
      BY <3>1, <3>2, <3>3, <3>4
  <2>2. QED
    BY <2>1
<1>7. T = Nat
  <2>1. T \in SUBSET Nat /\ 0 \in T
    BY <1>5
  <2> HIDE DEF T
  <2>2. QED
    BY <1>6, <2>1, NaturalsFromZero
<1>8. G[n] = F[n]
  BY <1>1, <1>7
<1>9. G[n + 1] = IF x \in P THEN Append(G[n], x) ELSE G[n]
  <2>1. n + 1 \in 0 .. (n + 1) /\ n + 1 # 0 /\ (n + 1) - 1 = n
    BY <1>1
  <2>2. QED
    BY <1>1, <1>3, <2>1
<1>10. QED
  BY <1>8, <1>9 DEF n

\* Of an empty sequence nothing is kept.
LEMMA KeptOfEmpty ==
  ASSUME NEW P
  PROVE  Kept(<<>>, P) = <<>>
<1>1. <<>> \in Seq(P) /\ Len(<<>>) = 0
  OBVIOUS
<1>2. PICK F : Keeps(F, <<>>, P) /\ Kept(<<>>, P) = F[0]
  BY <1>1, KeptExists
<1>3. QED
  BY <1>1, <1>2 DEF Keeps

\* What is appended is kept if it is in P.
LEMMA KeptOfAppend ==
  ASSUME NEW S, NEW s \in Seq(S), NEW x \in S, NEW P
  PROVE  Kept(Append(s, x), P) = IF x \in P THEN Append(Kept(s, P), x) ELSE Kept(s, P)
<1>1. Append(s, x) \in Seq(S) /\ Len(Append(s, x)) = Len(s) + 1
  BY AppendAt
<1>2. PICK F : Keeps(F, s, P) /\ Kept(s, P) = F[Len(s)]
  BY KeptExists
<1>3. PICK G : Keeps(G, Append(s, x), P) /\ Kept(Append(s, x), P) = G[Len(Append(s, x))]
  BY <1>1, KeptExists
<1>4. G[Len(s) + 1] = IF x \in P THEN Append(F[Len(s)], x) ELSE F[Len(s)]
  BY <1>2, <1>3, KeepsAlike
<1>5. QED
  BY <1>1, <1>2, <1>3, <1>4

\* What is kept is what of the sequence is in P, once each if it was.
LEMMA KeptElements ==
  ASSUME NEW S, NEW s \in Seq(S), NEW P
  PROVE  /\ Kept(s, P) \in Seq(S)
         /\ ToSet(Kept(s, P)) = ToSet(s) \cap P
         /\ IsInjective(s) => IsInjective(Kept(s, P))
<1> DEFINE T == {r \in Seq(S) : /\ Kept(r, P) \in Seq(S)
                                /\ ToSet(Kept(r, P)) = ToSet(r) \cap P
                                /\ IsInjective(r) => IsInjective(Kept(r, P))}
<1>1. <<>> \in T
  <2>1. <<>> \in Seq(S) /\ Kept(<<>>, P) = <<>>
    BY KeptOfEmpty
  <2>2. ToSet(<<>>) = {}
    BY <2>1, ToSetEmpty
  <2>3. QED
    BY <2>1, <2>2
<1>2. ASSUME NEW r \in T, NEW x \in S PROVE Append(r, x) \in T
  <2>1. /\ r \in Seq(S) /\ Kept(r, P) \in Seq(S) /\ ToSet(Kept(r, P)) = ToSet(r) \cap P
        /\ IsInjective(r) => IsInjective(Kept(r, P))
    BY <1>2
  <2>2. /\ Append(r, x) \in Seq(S) /\ ToSet(Append(r, x)) = ToSet(r) \cup {x}
        /\ Kept(Append(r, x), P) = IF x \in P THEN Append(Kept(r, P), x) ELSE Kept(r, P)
    BY <2>1, AppendElements, KeptOfAppend
  <2>3. IsInjective(Append(r, x)) => IsInjective(r) /\ x \notin ToSet(r)
    BY <2>1, AppendInjects
  <2>4. CASE x \in P
    <3>1. /\ Append(Kept(r, P), x) \in Seq(S)
          /\ ToSet(Append(Kept(r, P), x)) = ToSet(Kept(r, P)) \cup {x}
          /\ IsInjective(Kept(r, P)) /\ x \notin ToSet(Kept(r, P)) => IsInjective(Append(Kept(r, P), x))
      BY <2>1, AppendElements
    <3>2. QED
      BY <2>1, <2>2, <2>3, <2>4, <3>1
  <2>5. CASE x \notin P
    BY <2>1, <2>2, <2>3, <2>5
  <2>6. QED
    BY <2>4, <2>5
<1>3. T = Seq(S)
  <2>1. T \in SUBSET Seq(S)
    OBVIOUS
  <2> HIDE DEF T
  <2>2. QED
    BY <1>1, <1>2, <2>1, SequencesFromEmpty
<1>4. QED
  BY <1>3

\* Only what of P is in the sequence matters.
LEMMA KeptOfAlike ==
  ASSUME NEW S, NEW s \in Seq(S), NEW P, NEW Q, ToSet(s) \cap P = ToSet(s) \cap Q
  PROVE  Kept(s, P) = Kept(s, Q)
<1> DEFINE T == {r \in Seq(S) : ToSet(r) \cap P = ToSet(r) \cap Q => Kept(r, P) = Kept(r, Q)}
<1>1. <<>> \in T
  BY KeptOfEmpty
<1>2. ASSUME NEW r \in T, NEW x \in S PROVE Append(r, x) \in T
  <2>1. r \in Seq(S) /\ Append(r, x) \in Seq(S) /\ ToSet(Append(r, x)) = ToSet(r) \cup {x}
    BY <1>2, AppendElements
  <2>2. ASSUME ToSet(Append(r, x)) \cap P = ToSet(Append(r, x)) \cap Q
        PROVE  Kept(Append(r, x), P) = Kept(Append(r, x), Q)
    <3>1. ToSet(r) \cap P = ToSet(r) \cap Q /\ (x \in P <=> x \in Q)
      BY <2>1, <2>2
    <3>2. Kept(r, P) = Kept(r, Q)
      BY <1>2, <3>1
    <3>3. /\ Kept(Append(r, x), P) = IF x \in P THEN Append(Kept(r, P), x) ELSE Kept(r, P)
          /\ Kept(Append(r, x), Q) = IF x \in Q THEN Append(Kept(r, Q), x) ELSE Kept(r, Q)
      BY <2>1, KeptOfAppend
    <3>4. QED
      BY <3>1, <3>2, <3>3
  <2>3. QED
    BY <2>1, <2>2
<1>3. T = Seq(S)
  <2>1. T \in SUBSET Seq(S)
    OBVIOUS
  <2> HIDE DEF T
  <2>2. QED
    BY <1>1, <1>2, <2>1, SequencesFromEmpty
<1>4. QED
  BY <1>3

\* The first is what is kept first, if it is, before what is kept of the others.
LEMMA KeptOfTail ==
  ASSUME NEW S, NEW s \in Seq(S), s # <<>>, NEW P
  PROVE  /\ Head(s) \in P => /\ Kept(s, P) # <<>>
                             /\ Head(Kept(s, P)) = Head(s)
                             /\ Tail(Kept(s, P)) = Kept(Tail(s), P)
         /\ Head(s) \notin P => Kept(s, P) = Kept(Tail(s), P)
<1> DEFINE Holds(r) ==
             /\ Head(r) \in P => /\ Kept(r, P) # <<>>
                                 /\ Head(Kept(r, P)) = Head(r)
                                 /\ Tail(Kept(r, P)) = Kept(Tail(r), P)
             /\ Head(r) \notin P => Kept(r, P) = Kept(Tail(r), P)
           T == {r \in Seq(S) : r # <<>> => Holds(r)}
<1>1. <<>> \in T
  OBVIOUS
<1>2. ASSUME NEW r \in T, NEW x \in S PROVE Append(r, x) \in T
  <2>1. r \in Seq(S) /\ Append(r, x) \in Seq(S) /\ Kept(r, P) \in Seq(S) /\ Kept(<<>>, P) = <<>>
    BY <1>2, AppendElements, KeptElements, KeptOfEmpty
  <2>2. Kept(Append(r, x), P) = IF x \in P THEN Append(Kept(r, P), x) ELSE Kept(r, P)
    <3>1. r \in Seq(S)
      BY <2>1
    <3> HIDE DEF T, Holds
    <3>2. QED
      BY <3>1, KeptOfAppend
  <2>3. CASE r = <<>>
    <3>1. Head(Append(r, x)) = x /\ Tail(Append(r, x)) = <<>>
      BY <2>1, <2>3, TailOfAppend
    <3>2. CASE x \in P
      <4>1. Kept(Append(r, x), P) = Append(r, x)
        BY <2>1, <2>2, <2>3, <3>2
      <4>2. Append(r, x) # <<>>
        BY <2>1, AppendElements
      <4>3. QED
        BY <2>1, <3>1, <3>2, <4>1, <4>2
    <3>3. CASE x \notin P
      BY <2>1, <2>2, <2>3, <3>1, <3>3
    <3>4. QED
      BY <3>2, <3>3
  <2>4. CASE r # <<>>
    <3>1. /\ Head(Append(r, x)) = Head(r) /\ Tail(Append(r, x)) = Append(Tail(r), x)
          /\ Tail(r) \in Seq(S)
      BY <2>1, <2>4, TailOfAppend, TailElements
    <3>2. Kept(Append(Tail(r), x), P) = IF x \in P THEN Append(Kept(Tail(r), P), x) ELSE Kept(Tail(r), P)
      <4>1. Tail(r) \in Seq(S)
        BY <3>1
      <4> HIDE DEF T, Holds
      <4>2. QED
        BY <4>1, KeptOfAppend
    <3>3. Holds(r)
      BY <1>2, <2>4
    <3>4. CASE Head(r) \in P
      <4>1. Kept(r, P) # <<>> /\ Head(Kept(r, P)) = Head(r) /\ Tail(Kept(r, P)) = Kept(Tail(r), P)
        BY <3>3, <3>4
      <4>2. /\ Append(Kept(r, P), x) # <<>>
            /\ Head(Append(Kept(r, P), x)) = Head(r)
            /\ Tail(Append(Kept(r, P), x)) = Append(Kept(Tail(r), P), x)
        BY <2>1, <4>1, TailOfAppend, AppendElements
      <4>3. CASE x \in P
        <5>1. Kept(Append(r, x), P) = Append(Kept(r, P), x)
          BY <2>2, <4>3
        <5>2. Kept(Append(Tail(r), x), P) = Append(Kept(Tail(r), P), x)
          BY <3>2, <4>3
        <5>3. QED
          BY <2>1, <3>1, <3>4, <4>2, <5>1, <5>2
      <4>4. CASE x \notin P
        <5>1. Kept(Append(r, x), P) = Kept(r, P)
          BY <2>2, <4>4
        <5>2. Kept(Append(Tail(r), x), P) = Kept(Tail(r), P)
          BY <3>2, <4>4
        <5>3. QED
          BY <2>1, <3>1, <3>4, <4>1, <5>1, <5>2
      <4>5. QED
        BY <4>3, <4>4
    <3>5. CASE Head(r) \notin P
      <4>1. Kept(r, P) = Kept(Tail(r), P)
        BY <3>3, <3>5
      <4>2. QED
        BY <2>1, <2>2, <3>1, <3>2, <3>5, <4>1
    <3>6. QED
      BY <3>4, <3>5
  <2>5. QED
    BY <2>3, <2>4
<1>3. T = Seq(S)
  <2>1. T \in SUBSET Seq(S)
    OBVIOUS
  <2> HIDE DEF T
  <2>2. QED
    BY <1>1, <1>2, <2>1, SequencesFromEmpty
<1> HIDE DEF Holds
<1>4. Holds(s)
  BY <1>3
<1>5. QED
  BY <1>4 DEF Holds

\* Removing what isn't kept changes nothing; removing what is removes it.
LEMMA KeptOfRemoved ==
  ASSUME NEW S, NEW s \in Seq(S), IsInjective(s), NEW P, NEW t \in ToSet(s)
  PROVE  /\ t \notin P => Kept(RemoveFirst(s, t), P) = Kept(s, P)
         /\ t \in P => Kept(s, P \ {t}) = RemoveFirst(Kept(s, P), t)
<1> DEFINE Holds(r) ==
             /\ t \notin P => Kept(RemoveFirst(r, t), P) = Kept(r, P)
             /\ t \in P => Kept(r, P \ {t}) = RemoveFirst(Kept(r, P), t)
           T == {r \in Seq(S) : IsInjective(r) /\ t \in ToSet(r) => Holds(r)}
<1>1. <<>> \in T
  <2>1. <<>> \in Seq(S) /\ ToSet(<<>>) = {}
    BY DEF ToSet
  <2>2. QED
    BY <2>1
<1>2. ASSUME NEW r \in T, NEW x \in S PROVE Append(r, x) \in T
  <2>1. r \in Seq(S) /\ Append(r, x) \in Seq(S) /\ ToSet(Append(r, x)) = ToSet(r) \cup {x}
    BY <1>2, AppendElements
  <2>2. ASSUME IsInjective(Append(r, x)), t \in ToSet(Append(r, x))
        PROVE  Holds(Append(r, x))
    <3>1. IsInjective(r) /\ x \notin ToSet(r)
      BY <2>1, <2>2, AppendInjects
    <3>2. /\ Kept(Append(r, x), P) = IF x \in P THEN Append(Kept(r, P), x) ELSE Kept(r, P)
          /\ Kept(Append(r, x), P \ {t}) =
               IF x \in P \ {t} THEN Append(Kept(r, P \ {t}), x) ELSE Kept(r, P \ {t})
          /\ Kept(r, P) \in Seq(S) /\ IsInjective(Kept(r, P)) /\ ToSet(Kept(r, P)) = ToSet(r) \cap P
      <4>1. r \in Seq(S) /\ IsInjective(r)
        BY <2>1, <3>1
      <4> HIDE DEF T, Holds
      <4>2. Kept(Append(r, x), P) = IF x \in P THEN Append(Kept(r, P), x) ELSE Kept(r, P)
        BY <4>1, KeptOfAppend
      <4>3. Kept(Append(r, x), P \ {t}) =
               IF x \in P \ {t} THEN Append(Kept(r, P \ {t}), x) ELSE Kept(r, P \ {t})
        BY <4>1, KeptOfAppend
      <4>4. Kept(r, P) \in Seq(S) /\ IsInjective(Kept(r, P)) /\ ToSet(Kept(r, P)) = ToSet(r) \cap P
        BY <4>1, KeptElements
      <4>5. QED
        BY <4>2, <4>3, <4>4
    <3>3. CASE x = t
      <4>1. RemoveFirst(Append(r, x), t) = r
        BY <2>1, <3>1, <3>3, RemoveFromAppend
      <4>2. Kept(r, P \ {t}) = Kept(r, P)
        <5>1. ToSet(r) \cap (P \ {t}) = ToSet(r) \cap P
          BY <3>1, <3>3
        <5>2. QED
          BY <2>1, <5>1, KeptOfAlike
      <4>3. t \in P => RemoveFirst(Append(Kept(r, P), x), t) = Kept(r, P)
        BY <3>1, <3>2, <3>3, RemoveFromAppend
      <4>4. QED
        BY <3>2, <3>3, <4>1, <4>2, <4>3
    <3>4. CASE x # t
      <4>1. t \in ToSet(r)
        BY <2>1, <2>2, <3>4
      <4>2. Holds(r)
        BY <1>2, <3>1, <4>1
      <4>3. CASE t \notin P
        <5>1. /\ RemoveFirst(Append(r, x), t) = Append(RemoveFirst(r, t), x)
              /\ RemoveFirst(r, t) \in Seq(S)
          BY <2>1, <3>1, <3>4, <4>1, RemoveFromAppend, RemoveFirstElements
        <5>2. Kept(Append(RemoveFirst(r, t), x), P) =
                IF x \in P THEN Append(Kept(RemoveFirst(r, t), P), x) ELSE Kept(RemoveFirst(r, t), P)
          BY <5>1, KeptOfAppend
        <5>3. Kept(RemoveFirst(r, t), P) = Kept(r, P)
          BY <4>2, <4>3
        <5>4. QED
          BY <3>2, <4>3, <5>1, <5>2, <5>3
      <4>4. CASE t \in P
        <5>1. Kept(r, P \ {t}) = RemoveFirst(Kept(r, P), t)
          BY <4>2, <4>4
        <5>2. CASE x \in P
          <6>1. RemoveFirst(Append(Kept(r, P), x), t) = Append(RemoveFirst(Kept(r, P), t), x)
            <7>1. t \in ToSet(Kept(r, P)) /\ x \notin ToSet(Kept(r, P))
              BY <3>1, <3>2, <4>1, <4>4
            <7> DEFINE k == Kept(r, P)
            <7> HIDE DEF k
            <7>2. k \in Seq(S) /\ IsInjective(k) /\ t \in ToSet(k) /\ x \notin ToSet(k)
              BY <3>2, <7>1 DEF k
            <7>3. RemoveFirst(Append(k, x), t) = Append(RemoveFirst(k, t), x)
              BY <3>4, <7>2, RemoveFromAppend
            <7>4. QED
              BY <7>3 DEF k
          <6>2. QED
            BY <3>2, <3>4, <4>4, <5>1, <5>2, <6>1
        <5>3. CASE x \notin P
          BY <3>2, <4>4, <5>1, <5>3
        <5>4. QED
          BY <5>2, <5>3
      <4>5. QED
        BY <4>3, <4>4
    <3>5. QED
      BY <3>3, <3>4
  <2> HIDE DEF Holds
  <2>3. QED
    BY <2>1, <2>2
<1>3. T = Seq(S)
  <2>1. T \in SUBSET Seq(S)
    OBVIOUS
  <2> HIDE DEF T
  <2>2. QED
    BY <1>1, <1>2, <2>1, SequencesFromEmpty
<1> HIDE DEF Holds
<1>4. Holds(s)
  BY <1>3
<1>5. QED
  BY <1>4 DEF Holds

-----------------------------------------------------------------------------
\* The abstract lock's variables, as the refinement mapping has them.
Holder == IF Owners = {} THEN NoTask ELSE CHOOSE t \in Owners : TRUE
Queues == [l \in Lanes |-> Kept(waiters[l], Live)]

\* What each step of the abstract lock is, in those terms.
AbstractTake(t) ==
  Holder = NoTask /\ (\A l \in Lanes : Queues[l] = <<>>) /\ Holder' = t /\ Queues' = Queues

AbstractEnqueue(t, l) ==
  /\ Holder # NoTask /\ t # Holder /\ \A m \in Lanes : t \notin ToSet(Queues[m])
  /\ Queues' = [Queues EXCEPT ![l] = Append(@, t)] /\ Holder' = Holder

AbstractLeave(t, l) ==
  t \in ToSet(Queues[l]) /\ Queues' = [Queues EXCEPT ![l] = RemoveFirst(@, t)] /\ Holder' = Holder

AbstractHandOver(l) ==
  /\ Holder # NoTask /\ Queues[l] # <<>>
  /\ Holder' = Head(Queues[l]) /\ Queues' = [Queues EXCEPT ![l] = Tail(@)]

AbstractFree ==
  Holder # NoTask /\ (\A l \in Lanes : Queues[l] = <<>>) /\ Holder' = NoTask /\ Queues' = Queues

AbstractSame == Holder' = Holder /\ Queues' = Queues

\* These are the abstract lock's steps.
LEMMA AbstractSteps ==
  /\ \A t \in Tasks : AbstractTake(t) => Lock!Next
  /\ \A t \in Tasks, l \in Lanes : AbstractEnqueue(t, l) => Lock!Next
  /\ \A t \in Tasks, l \in Lanes : AbstractLeave(t, l) => Lock!Next
  /\ \A l \in Lanes : AbstractHandOver(l) => Lock!Next
  /\ AbstractFree => Lock!Next
  /\ AbstractSame => UNCHANGED Lock!vars
<1>0. /\ \A q : Lock!ToSet(q) = ToSet(q)
      /\ \A q, t : Lock!RemoveFirst(q, t) = RemoveFirst(q, t)
  <2>1. \A q : Lock!ToSet(q) = ToSet(q)
    BY DEF Lock!ToSet, ToSet
  <2>2. \A q, i : Lock!RemoveAt(q, i) = RemoveAt(q, i)
    BY DEF Lock!RemoveAt, RemoveAt
  <2>3. \A q, t : Lock!SelectInSeq(q, LAMBDA v : v = t) = SelectInSeq(q, LAMBDA v : v = t)
    BY DEF Lock!SelectInSeq, SelectInSeq, Lock!Min, Min
  <2>4. \A q, t : Lock!RemoveFirst(q, t) = RemoveFirst(q, t)
    BY <2>2, <2>3 DEF Lock!RemoveFirst, RemoveFirst
  <2>5. QED
    BY <2>1, <2>4
<1>1. ToSet(<<>>) = {}
  BY DEF ToSet
<1>2. ASSUME NEW t \in Tasks, AbstractTake(t) PROVE Lock!Next
  <2>1. Lock!Take(t)
    BY <1>0, <1>1, <1>2 DEF AbstractTake, Holder, Queues, Lock!Take, Lock!Queued
  <2>2. QED
    BY <2>1 DEF Lock!Next
<1>3. ASSUME NEW t \in Tasks, NEW l \in Lanes, AbstractEnqueue(t, l) PROVE Lock!Next
  <2>1. Lock!Enqueue(t, l)
    BY <1>0, <1>3 DEF AbstractEnqueue, Holder, Queues, Lock!Enqueue, Lock!Queued
  <2>2. QED
    BY <2>1 DEF Lock!Next
<1>4. ASSUME NEW t \in Tasks, NEW l \in Lanes, AbstractLeave(t, l) PROVE Lock!Next
  <2>1. Lock!Leave(t, l)
    BY <1>0, <1>4 DEF AbstractLeave, Holder, Queues, Lock!Leave
  <2>2. QED
    BY <2>1 DEF Lock!Next
<1>5. ASSUME NEW l \in Lanes, AbstractHandOver(l) PROVE Lock!Next
  <2>1. Lock!HandOver(l)
    BY <1>0, <1>5 DEF AbstractHandOver, Holder, Queues, Lock!HandOver
  <2>2. QED
    BY <2>1 DEF Lock!Next
<1>6. ASSUME AbstractFree PROVE Lock!Next
  <2>1. Lock!Free
    BY <1>0, <1>1, <1>6 DEF AbstractFree, Holder, Queues, Lock!Free, Lock!Queued
  <2>2. QED
    BY <2>1 DEF Lock!Next
<1>7. ASSUME AbstractSame PROVE UNCHANGED Lock!vars
  BY <1>7 DEF AbstractSame, Holder, Queues, Lock!vars
<1>8. QED
  BY <1>2, <1>3, <1>4, <1>5, <1>6, <1>7

\* Whom the refinement mapping has hold the lock: the one owner, or nobody.
LEMMA TheHolder ==
  ASSUME NEW O, \A t, u \in O : t = u
  PROVE  LET h == IF O = {} THEN NoTask ELSE CHOOSE t \in O : TRUE
         IN (O = {} => h = NoTask) /\ \A t \in O : h = t
<1>1. ASSUME NEW t \in O PROVE (CHOOSE u \in O : TRUE) = t
  <2>1. (CHOOSE u \in O : TRUE) \in O
    BY <1>1
  <2>2. QED
    BY <1>1, <2>1
<1>2. QED
  BY <1>1

\* A state of the lock and the next, in the terms of the mapping.
LEMMA HolderIs ==
  ASSUME LockInv, LockInv'
  PROVE  /\ Owners = {} => Holder = NoTask
         /\ \A t \in Owners : Holder = t /\ Holder # NoTask
         /\ Owners' = {} => Holder' = NoTask
         /\ \A t \in Owners' : Holder' = t
<1>1. /\ \A t, u \in Owners : t = u
      /\ \A t, u \in Owners' : t = u
  BY DEF LockInv, MutualExclusion
<1>2. \A t \in Owners : t # NoTask
  BY LockAssumption DEF Owners
<1>3. (Owners = {} => Holder = NoTask) /\ \A t \in Owners : Holder = t
  <2> DEFINE O == Owners
  <2>1. (O = {} => (IF O = {} THEN NoTask ELSE CHOOSE t \in O : TRUE) = NoTask)
        /\ \A t \in O : (IF O = {} THEN NoTask ELSE CHOOSE u \in O : TRUE) = t
    <3> HIDE DEF O
    <3>1. \A t, u \in O : t = u
      BY <1>1 DEF O
    <3>2. QED
      BY <3>1, TheHolder
  <2>2. QED
    BY <2>1 DEF Holder
<1>4. (Owners' = {} => Holder' = NoTask) /\ \A t \in Owners' : Holder' = t
  <2> DEFINE O == Owners'
  <2>1. (O = {} => (IF O = {} THEN NoTask ELSE CHOOSE t \in O : TRUE) = NoTask)
        /\ \A t \in O : (IF O = {} THEN NoTask ELSE CHOOSE u \in O : TRUE) = t
    <3> HIDE DEF O
    <3>1. \A t, u \in O : t = u
      BY <1>1 DEF O
    <3>2. QED
      BY <3>1, TheHolder
  <2>2. QED
    BY <2>1 DEF Holder
<1>5. QED
  BY <1>2, <1>3, <1>4

\* The abstract lock's queues are the live waiters of each lane.
LEMMA QueuesAre ==
  ASSUME LockInv, LockInv'
  PROVE  /\ Live = {t \in Tasks : fut[t] = "pending"}
         /\ Live' = {t \in Tasks : fut'[t] = "pending"}
         /\ \A l \in Lanes : /\ Queues[l] = Kept(waiters[l], Live)
                             /\ Queues'[l] = Kept(waiters'[l], Live')
                             /\ waiters[l] \in Seq(Tasks) /\ IsInjective(waiters[l])
                             /\ waiters'[l] \in Seq(Tasks)
                             /\ ToSet(Queues[l]) = ToSet(waiters[l]) \cap Live
         /\ DOMAIN Queues = Lanes /\ DOMAIN Queues' = Lanes
         /\ Queues = [l \in Lanes |-> Queues[l]] /\ Queues' = [l \in Lanes |-> Queues'[l]]
<1>1. \A l \in Lanes : waiters[l] \in Seq(Tasks) /\ IsInjective(waiters[l]) /\ waiters'[l] \in Seq(Tasks)
  BY DEF LockInv, TypeOK
<1>2. \A l \in Lanes : Queues[l] = Kept(waiters[l], Live) /\ Queues'[l] = Kept(waiters'[l], Live')
  BY DEF Queues
<1>3. \A l \in Lanes : ToSet(Queues[l]) = ToSet(waiters[l]) \cap Live
  BY <1>1, <1>2, KeptElements
<1>4. Live = {t \in Tasks : fut[t] = "pending"} /\ Live' = {t \in Tasks : fut'[t] = "pending"}
  BY DEF Live
<1>5. /\ DOMAIN Queues = Lanes /\ DOMAIN Queues' = Lanes
      /\ Queues = [l \in Lanes |-> Queues[l]] /\ Queues' = [l \in Lanes |-> Queues'[l]]
  BY DEF Queues
<1>6. QED
  BY <1>1, <1>2, <1>3, <1>4, <1>5

\* Nobody is queued while the lock is free or release() has found nobody.
LEMMA NobodyQueued ==
  ASSUME LockInv, LockInv', order = <<>>
  PROVE  \A l \in Lanes : waiters[l] = <<>> /\ Queues[l] = <<>>
<1>1. ToSet(order) = {}
  BY DEF ToSet
<1>2. \A l \in Lanes : waiters[l] = <<>>
  BY <1>1 DEF LockInv
<1>3. QED
  BY <1>2, QueuesAre, KeptOfEmpty

\* A step that leaves each lane's live waiters, and the owners, leaves the
\* abstract lock as it is.
LEMMA SameQueues ==
  ASSUME LockInv, LockInv',
         \A l \in Lanes : Kept(waiters'[l], Live') = Kept(waiters[l], Live)
  PROVE  Queues' = Queues
<1>1. \A l \in Lanes : Queues'[l] = Queues[l]
  BY QueuesAre
<1>2. QED
  BY <1>1, QueuesAre

\* The owners being the same, so is the abstract lock's.
LEMMA SameHolder ==
  ASSUME LockInv, LockInv', \A t \in Tasks : t \in Owners' <=> t \in Owners
  PROVE  Holder' = Holder
<1>1. Owners' = Owners
  BY OwnersDef
<1>2. QED
  BY <1>1 DEF Holder

-----------------------------------------------------------------------------
\* Every step of the lock is one of the abstract lock, or leaves it as it is.
AbstractNext ==
  \/ \E t \in Tasks : AbstractTake(t)
  \/ \E t \in Tasks, l \in Lanes : AbstractEnqueue(t, l) \/ AbstractLeave(t, l)
  \/ \E l \in Lanes : AbstractHandOver(l)
  \/ AbstractFree
  \/ AbstractSame

\* Acquiring a free lock is Take ...
LEMMA TakeRefines ==
  ASSUME LockInv, LockInv', NEW t \in Tasks, AcquireFree(t)
  PROVE  AbstractTake(t)
<1>1. Owners = {} /\ order = <<>>
  BY DEF LockInv, AcquireFree
<1>2. t \in Owners'
  BY OwnersDef DEF AcquireFree, LockInv, TypeOK
<1>3. Live' = Live /\ waiters' = waiters
  BY DEF AcquireFree, Live
<1>4. Queues' = Queues
  BY <1>3, SameQueues
<1>5. QED
  BY <1>1, <1>2, <1>4, HolderIs, NobodyQueued DEF AbstractTake

\* ... waiting for a held one is Enqueue ...
LEMMA EnqueueRefines ==
  ASSUME LockInv, LockInv', NEW t \in Tasks, NEW l \in Lanes, AcquireWait(t, l)
  PROVE  AbstractEnqueue(t, l)
<1> USE DEF TypeOK, PCs, Futures
<1>1. /\ TypeOK /\ Owners # {} /\ pc[t] = "idle" /\ fut[t] = "none"
      /\ fut' = [fut EXCEPT ![t] = "pending"] /\ pc' = [pc EXCEPT ![t] = "waiting"]
      /\ waiters' = [waiters EXCEPT ![l] = Append(@, t)]
  BY DEF LockInv, AcquireWait
<1>2. \A u \in Tasks : u \in Owners' <=> u \in Owners
  BY <1>1, OwnersDef
<1>3. Holder' = Holder
  BY <1>2, SameHolder
<1>4. t \notin Owners
  BY <1>1, OwnersDef
<1>5. PICK u \in Owners : TRUE
  BY <1>1
<1>6. Holder # NoTask /\ t # Holder
  BY <1>4, <1>5, HolderIs
<1>7. Live' = Live \cup {t} /\ t \notin Live
  BY <1>1, QueuesAre
<1>8. \A m \in Lanes : t \notin ToSet(waiters[m])
  BY <1>1 DEF LockInv
<1>9. \A m \in Lanes : t \notin ToSet(Queues[m])
  BY <1>8, QueuesAre
<1>10. \A m \in Lanes : Kept(waiters[m], Live') = Queues[m]
  <2>1. ASSUME NEW m \in Lanes PROVE Kept(waiters[m], Live') = Kept(waiters[m], Live)
    <3>1. ToSet(waiters[m]) \cap Live' = ToSet(waiters[m]) \cap Live
      BY <1>7, <1>8
    <3>2. waiters[m] \in Seq(Tasks)
      BY <1>1
    <3>3. QED
      BY <3>1, <3>2, KeptOfAlike
  <2>2. QED
    BY <2>1, QueuesAre
<1>11. Queues'[l] = Append(Queues[l], t)
  <2>1. waiters'[l] = Append(waiters[l], t) /\ waiters[l] \in Seq(Tasks)
    BY <1>1
  <2>2. Kept(Append(waiters[l], t), Live') = Append(Kept(waiters[l], Live'), t)
    <3>1. t \in Live'
      BY <1>7
    <3> DEFINE P == Live'
               w == waiters[l]
    <3> HIDE DEF P, w
    <3>2. Kept(Append(w, t), P) = IF t \in P THEN Append(Kept(w, P), t) ELSE Kept(w, P)
      <4>1. w \in Seq(Tasks)
        BY <2>1 DEF w
      <4>2. QED
        BY <4>1, KeptOfAppend
    <3>3. QED
      BY <3>1, <3>2 DEF P, w
  <2>3. QED
    BY <1>10, <2>1, <2>2, QueuesAre
<1>12. \A m \in Lanes : m # l => Queues'[m] = Queues[m]
  <2>1. \A m \in Lanes : m # l => waiters'[m] = waiters[m]
    BY <1>1
  <2>2. QED
    BY <1>10, <2>1, QueuesAre
<1>13. Queues' = [Queues EXCEPT ![l] = Append(@, t)]
  BY <1>11, <1>12, QueuesAre
<1>14. QED
  BY <1>3, <1>6, <1>9, <1>13 DEF AbstractEnqueue

\* ... cancelling a waiter is Leave, or nothing if it was granted the lock.
LEMMA CancelRefines ==
  ASSUME LockInv, LockInv', NEW t \in Tasks, Cancel(t)
  PROVE  AbstractNext
<1> USE DEF TypeOK, PCs, Futures
<1>1. TypeOK /\ pc' = pc /\ waiters' = waiters /\ pc[t] = "waiting"
  BY DEF LockInv, Cancel
<1>2. CASE fut[t] = "pending"
  <2>1. fut' = [fut EXCEPT ![t] = "cancelled"]
    BY <1>2 DEF Cancel
  <2>2. \A u \in Tasks : u \in Owners' <=> u \in Owners
    BY <1>1, <1>2, <2>1, OwnersDef
  <2>3. Holder' = Holder
    BY <2>2, SameHolder
  <2>4. Live' = Live \ {t} /\ t \in Live
    BY <1>1, <1>2, <2>1, QueuesAre
  <2>5. PICK l \in Lanes : t \in ToSet(waiters[l])
    BY <1>2 DEF LockInv
  <2>6. Queues'[l] = RemoveFirst(Queues[l], t)
    <3>1. waiters[l] \in Seq(Tasks) /\ IsInjective(waiters[l]) /\ waiters'[l] = waiters[l]
      BY <1>1, QueuesAre
    <3>2. Kept(waiters[l], Live \ {t}) = RemoveFirst(Kept(waiters[l], Live), t)
      BY <2>4, <2>5, <3>1, KeptOfRemoved
    <3>3. Queues'[l] = Kept(waiters'[l], Live') /\ Queues[l] = Kept(waiters[l], Live)
      BY QueuesAre
    <3>4. QED
      BY <2>4, <3>1, <3>2, <3>3
  <2>7. ASSUME NEW m \in Lanes, m # l PROVE Queues'[m] = Queues[m]
    <3>1. t \notin ToSet(waiters[m])
      BY <2>5, <2>7 DEF LockInv
    <3>2. ToSet(waiters[m]) \cap Live' = ToSet(waiters[m]) \cap Live
      BY <2>4, <3>1
    <3>3. waiters[m] \in Seq(Tasks) /\ waiters'[m] = waiters[m]
      BY <1>1
    <3>4. Kept(waiters[m], Live') = Kept(waiters[m], Live)
      BY <3>2, <3>3, KeptOfAlike
    <3>5. QED
      BY <3>3, <3>4, QueuesAre
  <2>8. Queues' = [Queues EXCEPT ![l] = RemoveFirst(@, t)]
    BY <2>6, <2>7, QueuesAre
  <2>9. t \in ToSet(Queues[l])
    BY <2>4, <2>5, QueuesAre
  <2>10. AbstractLeave(t, l)
    BY <2>3, <2>8, <2>9 DEF AbstractLeave
  <2>11. QED
    BY <2>10 DEF AbstractNext
<1>3. CASE fut[t] # "pending"
  <2>1. fut' = fut
    BY <1>3 DEF Cancel
  <2>2. (\A u \in Tasks : u \in Owners' <=> u \in Owners) /\ Live' = Live
    BY <1>1, <2>1, OwnersDef, QueuesAre
  <2>3. Holder' = Holder /\ Queues' = Queues
    BY <1>1, <2>2, SameHolder, SameQueues
  <2>4. QED
    BY <2>3 DEF AbstractNext, AbstractSame
<1>4. QED
  BY <1>2, <1>3

\* Waking up, and starting to release, change nothing of the abstract lock.
LEMMA WakeRefines ==
  ASSUME LockInv, LockInv', NEW t \in Tasks,
         Resume(t) \/ ResumeGrantedCancelled(t) \/ Release(t)
  PROVE  AbstractSame
<1> USE DEF TypeOK, PCs, Futures
<1>1. TypeOK /\ waiters' = waiters
  BY DEF LockInv, Resume, ResumeGrantedCancelled, Release
<1>2. \A u \in Tasks : u \in Owners' <=> u \in Owners
  BY <1>1, OwnersDef DEF Resume, ResumeGrantedCancelled, Release
<1>3. Live' = Live
  <2>1. fut' = fut \/ (fut[t] = "granted" /\ fut' = [fut EXCEPT ![t] = "none"])
    BY DEF Resume, ResumeGrantedCancelled, Release
  <2>2. \A u \in Tasks : fut'[u] = "pending" <=> fut[u] = "pending"
    BY <1>1, <2>1
  <2>3. QED
    BY <2>2, QueuesAre
<1>4. QED
  BY <1>1, <1>2, <1>3, SameHolder, SameQueues DEF AbstractSame

\* Nor does a cancelled waiter that takes itself out of its lane.
LEMMA DiscardRefines ==
  ASSUME LockInv, LockInv', NEW t \in Tasks, ResumeCancelled(t)
  PROVE  AbstractSame
<1> USE DEF TypeOK, PCs, Futures
<1>1. /\ TypeOK /\ fut[t] = "cancelled" /\ pc[t] = "waiting"
      /\ fut' = [fut EXCEPT ![t] = "none"] /\ pc' = [pc EXCEPT ![t] = "idle"]
  BY DEF LockInv, ResumeCancelled
<1>2. \A u \in Tasks : u \in Owners' <=> u \in Owners
  BY <1>1, OwnersDef
<1>3. Live' = Live /\ t \notin Live
  BY <1>1, QueuesAre
<1>4. ASSUME NEW m \in Lanes PROVE Kept(waiters'[m], Live') = Kept(waiters[m], Live)
  <2>1. CASE waiters'[m] = waiters[m]
    BY <1>3, <2>1
  <2>2. CASE t \in ToSet(waiters[m]) /\ waiters'[m] = RemoveFirst(waiters[m], t)
    <3>1. waiters[m] \in Seq(Tasks) /\ IsInjective(waiters[m])
      BY QueuesAre
    <3>2. Kept(RemoveFirst(waiters[m], t), Live) = Kept(waiters[m], Live)
      BY <1>3, <2>2, <3>1, KeptOfRemoved
    <3>3. QED
      BY <1>3, <2>2, <3>2
  <2>3. \/ waiters'[m] = waiters[m]
        \/ t \in ToSet(waiters[m]) /\ waiters'[m] = RemoveFirst(waiters[m], t)
    <3>1. Discard(t)
      BY DEF ResumeCancelled
    <3>2. CASE waiters' = waiters
      BY <3>2
    <3>3. ASSUME NEW l \in Lanes, t \in ToSet(waiters[l]), DiscardFrom(t, l)
          PROVE  \/ waiters'[m] = waiters[m]
                 \/ t \in ToSet(waiters[m]) /\ waiters'[m] = RemoveFirst(waiters[m], t)
      <4>1. waiters' = [waiters EXCEPT ![l] = RemoveFirst(waiters[l], t)]
        BY <3>3 DEF DiscardFrom
      <4>2. QED
        BY <1>1, <3>3, <4>1
    <3>4. QED
      BY <3>1, <3>2, <3>3 DEF Discard
  <2>4. QED
    BY <2>1, <2>2, <2>3
<1>5. QED
  BY <1>2, <1>4, SameHolder, SameQueues DEF AbstractSame

\* What one turn of release()'s loop takes out is the first of its lane.
LEMMA PopRefines ==
  ASSUME LockInv, LockInv', order # <<>>, PopFirstWaiter
  PROVE  LET l == Head(order)
             u == FirstWaiter
         IN /\ l \in Lanes /\ u \in ToSet(waiters[l])
            /\ Live' = Live \ {u} =>
                 /\ u \in Live => /\ Queues[l] # <<>> /\ Head(Queues[l]) = u
                                  /\ Queues'[l] = Tail(Queues[l])
                 /\ u \notin Live => Queues'[l] = Queues[l]
                 /\ \A m \in Lanes : m # l => Queues'[m] = Queues[m]
<1> DEFINE l == Head(order)
           u == FirstWaiter
           w == waiters[l]
<1>1. TypeOK
  BY DEF LockInv
<1>2. l \in Lanes /\ l \in ToSet(order)
  BY <1>1, TailElements DEF TypeOK
<1>3. w \in Seq(Tasks) /\ w # <<>> /\ IsInjective(w)
  BY <1>1, <1>2 DEF LockInv, TypeOK
<1>4. /\ u = Head(w) /\ u \in ToSet(w)
      /\ Tail(w) \in Seq(Tasks) /\ u \notin ToSet(Tail(w))
  <2>1. Head(w) \in ToSet(w) /\ Tail(w) \in Seq(Tasks) /\ Head(w) \notin ToSet(Tail(w))
    <3> HIDE DEF w
    <3>1. QED
      BY <1>3, TailElements
  <2>2. QED
    BY <2>1 DEF FirstWaiter
<1>5. waiters' = [waiters EXCEPT ![l] = Tail(w)]
  BY DEF PopFirstWaiter
<1>6. waiters'[l] = Tail(w) /\ \A m \in Lanes : m # l => waiters'[m] = waiters[m]
  BY <1>1, <1>2, <1>5 DEF TypeOK
<1>7. ASSUME Live' = Live \ {u}
      PROVE  /\ Kept(Tail(w), Live') = Kept(Tail(w), Live)
             /\ \A m \in Lanes : m # l => Queues'[m] = Queues[m]
  <2>1. Kept(Tail(w), Live') = Kept(Tail(w), Live)
    <3>1. ToSet(Tail(w)) \cap Live' = ToSet(Tail(w)) \cap Live
      BY <1>4, <1>7
    <3> HIDE DEF w
    <3>2. QED
      BY <1>4, <3>1, KeptOfAlike
  <2>2. ASSUME NEW m \in Lanes, m # l PROVE Queues'[m] = Queues[m]
    <3>1. u \notin ToSet(waiters[m])
      BY <1>2, <1>4, <2>2 DEF LockInv
    <3>2. ToSet(waiters[m]) \cap Live' = ToSet(waiters[m]) \cap Live
      BY <1>7, <3>1
    <3>3. waiters[m] \in Seq(Tasks) /\ waiters'[m] = waiters[m]
      BY <1>1, <1>6, <2>2 DEF TypeOK
    <3>4. Kept(waiters[m], Live') = Kept(waiters[m], Live)
      BY <3>2, <3>3, KeptOfAlike
    <3>5. QED
      BY <3>3, <3>4, QueuesAre
  <2>3. QED
    BY <2>1, <2>2
<1>8. Queues'[l] = Kept(waiters'[l], Live') /\ Queues[l] = Kept(w, Live)
  BY <1>2, QueuesAre
<1>9. /\ Head(w) \in Live => /\ Kept(w, Live) # <<>>
                             /\ Head(Kept(w, Live)) = Head(w)
                             /\ Tail(Kept(w, Live)) = Kept(Tail(w), Live)
      /\ Head(w) \notin Live => Kept(w, Live) = Kept(Tail(w), Live)
  <2> HIDE DEF w
  <2>1. QED
    BY <1>3, KeptOfTail
<1> HIDE DEF w, u, l
<1>10. ASSUME Live' = Live \ {u}
       PROVE  /\ u \in Live => /\ Queues[l] # <<>> /\ Head(Queues[l]) = u
                               /\ Queues'[l] = Tail(Queues[l])
              /\ u \notin Live => Queues'[l] = Queues[l]
  BY <1>4, <1>6, <1>7, <1>8, <1>9, <1>10
<1>11. QED
  BY <1>2, <1>4, <1>7, <1>10 DEF w, u, l

\* A turn that grants hands over; one that skips a cancelled waiter is nothing yet.
LEMMA PassRefines ==
  ASSUME LockInv, LockInv', NEW t \in Tasks, ReleasePass(t)
  PROVE  \E l \in Lanes : AbstractHandOver(l)
<1> DEFINE l == Head(order)
           u == FirstWaiter
<1>1. TypeOK /\ order # <<>> /\ PopFirstWaiter /\ pc[t] = "releasing"
  BY DEF LockInv, ReleasePass
<1>2. u \in Tasks /\ l \in Lanes
  BY <1>1, PopLeaves, PopRefines
<1>3. fut[u] = "pending" /\ fut' = [fut EXCEPT ![u] = "granted"]
  BY DEF ReleasePass
<1> HIDE DEF u
<1>4. Live' = Live \ {u} /\ u \in Live
  BY <1>1, <1>2, <1>3, QueuesAre DEF TypeOK
<1>5. u \in Owners' /\ t \in Owners
  BY <1>1, <1>2, <1>3, OwnersDef DEF TypeOK
<1>6. Holder' = u /\ Holder # NoTask
  BY <1>5, HolderIs
<1>7. /\ Queues[l] # <<>> /\ Head(Queues[l]) = u /\ Queues'[l] = Tail(Queues[l])
      /\ \A m \in Lanes : m # l => Queues'[m] = Queues[m]
  BY <1>1, <1>4, PopRefines DEF u
<1> HIDE DEF l
<1>8. Queues' = [Queues EXCEPT ![l] = Tail(@)]
  BY <1>2, <1>7, QueuesAre
<1>9. AbstractHandOver(l)
  BY <1>6, <1>7, <1>8 DEF AbstractHandOver
<1>10. QED
  BY <1>2, <1>9

LEMMA SkipRefines ==
  ASSUME LockInv, LockInv', NEW t \in Tasks, ReleaseSkip(t)
  PROVE  AbstractSame
<1> DEFINE l == Head(order)
           u == FirstWaiter
<1>1. TypeOK /\ order # <<>> /\ PopFirstWaiter /\ pc' = pc /\ fut' = fut
  BY DEF LockInv, ReleaseSkip
<1>2. fut[u] # "pending"
  BY DEF ReleaseSkip
<1>3. u \notin Live /\ Live' = Live /\ Live' = Live \ {u}
  BY <1>1, <1>2, QueuesAre
<1>4. Queues'[l] = Queues[l] /\ \A m \in Lanes : m # l => Queues'[m] = Queues[m]
  BY <1>1, <1>3, PopRefines
<1> HIDE DEF l
<1>5. Queues' = Queues
  BY <1>4, QueuesAre
<1>6. Holder' = Holder
  BY <1>1, SameHolder, OwnersDef
<1>7. QED
  BY <1>5, <1>6 DEF AbstractSame

\* Finding nobody is Free.
LEMMA EmptyRefines ==
  ASSUME LockInv, LockInv', NEW t \in Tasks, ReleaseEmpty(t)
  PROVE  AbstractFree
<1>1. TypeOK /\ order = <<>> /\ pc[t] = "releasing" /\ waiters' = waiters /\ fut' = fut
  BY DEF LockInv, ReleaseEmpty
<1>2. Live' = Live
  BY <1>1, QueuesAre
<1>3. Queues' = Queues
  BY <1>1, <1>2, SameQueues
<1>4. t \in Owners
  BY <1>1, OwnersDef
<1>5. Owners' = {}
  <2>1. ~ held'
    BY DEF ReleaseEmpty
  <2>2. QED
    BY <2>1 DEF LockInv
<1>6. QED
  BY <1>1, <1>3, <1>4, <1>5, HolderIs, NobodyQueued DEF AbstractFree

LEMMA RefinesStep ==
  ASSUME LockInv, LockInv', Next
  PROVE  Lock!Next \/ UNCHANGED Lock!vars
<1>1. AbstractNext
  <2>1. ASSUME NEW t \in Tasks, AcquireFree(t) PROVE AbstractNext
    BY <2>1, TakeRefines DEF AbstractNext
  <2>2. ASSUME NEW t \in Tasks, NEW l \in Lanes, AcquireWait(t, l) PROVE AbstractNext
    BY <2>2, EnqueueRefines DEF AbstractNext
  <2>3. ASSUME NEW t \in Tasks, Cancel(t) PROVE AbstractNext
    BY <2>3, CancelRefines
  <2>4. ASSUME NEW t \in Tasks, Resume(t) \/ ResumeGrantedCancelled(t) \/ Release(t) PROVE AbstractNext
    BY <2>4, WakeRefines DEF AbstractNext
  <2>5. ASSUME NEW t \in Tasks, ResumeCancelled(t) PROVE AbstractNext
    BY <2>5, DiscardRefines DEF AbstractNext
  <2>6. ASSUME NEW t \in Tasks, ReleasePass(t) PROVE AbstractNext
    BY <2>6, PassRefines DEF AbstractNext
  <2>7. ASSUME NEW t \in Tasks, ReleaseSkip(t) PROVE AbstractNext
    BY <2>7, SkipRefines DEF AbstractNext
  <2>8. ASSUME NEW t \in Tasks, ReleaseEmpty(t) PROVE AbstractNext
    BY <2>8, EmptyRefines DEF AbstractNext
  <2>9. QED
    BY <2>1, <2>2, <2>3, <2>4, <2>5, <2>6, <2>7, <2>8 DEF Next
<1>2. QED
  BY <1>1, AbstractSteps DEF AbstractNext

\* The lock is a mutex that is handed over first come first served in each
\* lane, and is free only when nobody wants it, whatever is cancelled when.
THEOREM LockImplementsMutex == Spec => ImplementsLaneMutex
<1>1. Init => Lock!Init
  <2> SUFFICES ASSUME Init PROVE Lock!Init
    OBVIOUS
  <2>1. Owners = {}
    BY DEF Init, Owners
  <2>2. \A l \in Lanes : Kept(waiters[l], Live) = <<>>
    BY KeptOfEmpty DEF Init
  <2>3. QED
    BY <2>1, <2>2 DEF Lock!Init
<1>2. LockInv /\ LockInv' /\ [Next]_vars => [Lock!Next]_(Lock!vars)
  <2>1. ASSUME LockInv, LockInv', Next PROVE [Lock!Next]_(Lock!vars)
    BY <2>1, RefinesStep
  <2>2. ASSUME UNCHANGED vars PROVE UNCHANGED Lock!vars
    <3>1. Owners' = Owners /\ Live' = Live /\ waiters' = waiters
      BY <2>2 DEF vars, Owners, Live
    <3>2. Holder' = Holder /\ Queues' = Queues
      BY <3>1 DEF Holder, Queues
    <3>3. QED
      BY <3>2, AbstractSteps DEF AbstractSame
  <2>3. QED
    BY <2>1, <2>2
<1>3. QED
  BY <1>1, <1>2, LockInvariant, PTL DEF Spec, ImplementsLaneMutex, Lock!Spec

(***************************************************************************)
(* The jobs and the reloads.                                               *)
(***************************************************************************)
\* What a job's thread is doing follows from where its producer is, and a
\* producer with work under way has a consumer that waits for it, and will
\* drop the scratch dir only then.
ThreadInv ==
  \A j \in Jobs :
    /\ thread[j] = "work" <=> at[j] \in {"work", "align"}
    /\ thread[j] = "stopping" <=> at[j] = "workCancelled"
    /\ at[j] \notin Yields \cup {"new", "ended"} => consumer[j] \in {"pull", "unwind"}
    /\ consumer[j] \in {"pull", "unwind"} => j \in scratch

\* A task holds or awaits the lock exactly where its code says so; a job
\* without GPU has nothing to do with it.
InLock == {"yRunning", "work", "workCancelled", "store", "align", "yResult"}

LockUse ==
  /\ \A j \in gpuOnly :
       /\ pc[j] = "holding" <=> at[j] \in InLock
       /\ pc[j] = "waiting" <=> at[j] = "lockWait"
  /\ \A j \in Jobs \ gpuOnly :
       at[j] \notin {"yQueued", "lockWait", "store", "align"} /\ pc[j] = "idle"
  /\ pc[Reloader] = "holding" <=> reload \in {"reset", "warm"}
  /\ pc[Reloader] = "waiting" <=> reload = "lockWait"

\* A download is refused while one is under way, so that each adds at most one
\* version; and the models a GPU job works on are in memory.
ModelsInv ==
  /\ reload # "idle" => pstate = "downloading"
  /\ disk <= downloads + (IF reload = "provision" THEN 0 ELSE 1)
  /\ resident <= disk
  /\ \A j \in gpuOnly : thread[j] \in {"work", "stopping"} =>
       ver[j] = resident /\ resident # 0

GpuInv == LockInv /\ JTypeOK /\ ThreadInv /\ LockUse /\ ModelsInv

-----------------------------------------------------------------------------
\* Whatever a job or the reload does to the lock is a step of the lock.
LEMMA UsesLock ==
  ASSUME JNext
  PROVE  [Next]_vars
<1> USE JobsAssumption
<1>1. ASSUME NEW j \in Jobs, EnterStream(j)
      PROVE  [Next]_vars
  BY <1>1 DEF EnterStream, Next
<1>2. ASSUME NEW j \in Jobs, LeaveStream(j)
      PROVE  [Next]_vars
  BY <1>2 DEF LeaveStream, Next
<1>3. ASSUME NEW j \in Jobs, Produce(j)
      PROVE  [Next]_vars
  <2>1. CASE PullFirst(j) \/ PullAfterLoading(j) \/ LoadWoken(j)
    BY <1>1, <2>1 DEF PullFirst, PullAfterLoading, LoadWoken
  <2>2. CASE PullAfterQueued(j)
    <3>1. LaneOf[j] \in Lanes
      OBVIOUS
    <3>2. QED
      BY <2>2, <3>1 DEF PullAfterQueued, Next
  <2>3. CASE LockGranted(j)
    BY <2>3 DEF LockGranted, Next
  <2>4. CASE PullAfterRunning(j) \/ WorkDone(j) \/ WorkWritten(j) \/ StoreDone(j)
               \/ AlignVocals(j)
    BY <2>4 DEF PullAfterRunning, WorkDone, WorkWritten, StoreDone, AlignVocals
  <2>5. CASE PullAfterResult(j)
    BY <1>2, <2>5 DEF PullAfterResult
  <2>6. QED
    BY <1>3, <2>1, <2>2, <2>3, <2>4, <2>5 DEF Produce
<1>4. ASSUME NEW j \in Jobs, Unwind(j)
      PROVE  [Next]_vars
  <2>1. CASE StreamOver(j) \/ CancelPull(j) \/ CancelWork(j) \/ StoreAfterCancel(j)
    BY <2>1 DEF StreamOver, CancelPull, CancelWork, StoreAfterCancel
  <2>2. CASE CancelInLock(j)
    BY <2>2 DEF CancelInLock, Next
  <2>3. CASE WorkStopped(j) \/ CancelStore(j) \/ Finalize(j)
    BY <1>2, <2>3 DEF WorkStopped, CancelStore, Finalize
  <2>4. QED
    BY <1>4, <2>1, <2>2, <2>3 DEF Unwind
<1>5. ASSUME NEW j \in Jobs, Request(j) \/ Disconnect(j)
      PROVE  [Next]_vars
  BY <1>5 DEF Request, Disconnect, Next
<1>6. ASSUME Provision
      PROVE  [Next]_vars
  <2>1. CASE ReloadStart
    BY <2>1 DEF ReloadStart, Next
  <2>2. CASE ReloadGranted
    BY <2>2 DEF ReloadGranted, Next
  <2>3. CASE ModelsWarm
    BY <2>3 DEF ModelsWarm, Next
  <2>4. CASE CheckDone \/ StartupLoad \/ StartupLoaded \/ Provisioned \/ ModelsReset
    BY <2>4 DEF CheckDone, StartupLoad, StartupLoaded, Provisioned, ModelsReset
  <2>5. QED
    BY <1>6, <2>1, <2>2, <2>3, <2>4 DEF Provision
<1>7. ASSUME ReleaseTurn
      PROVE  [Next]_vars
  BY <1>7 DEF ReleaseTurn, ReleaseLoop, Next
<1>8. CASE Download
  BY <1>8 DEF Download
<1>9. QED
  BY <1>3, <1>4, <1>5, <1>6, <1>7, <1>8 DEF JNext

-----------------------------------------------------------------------------
\* What an action does to the jobs' own state, whatever it does to the lock.
LEMMA ThreadStep ==
  ASSUME JTypeOK, ThreadInv, JNext
  PROVE  ThreadInv'
<1> USE DEF JTypeOK, ThreadInv, Yields, jobVars, provVars
<1>1. ASSUME NEW j \in Jobs, Request(j)
      PROVE  ThreadInv'
  BY <1>1 DEF Request
<1>2. ASSUME NEW j \in Jobs, Produce(j)
      PROVE  ThreadInv'
  <2>1. CASE PullFirst(j)
    BY <2>1 DEF PullFirst, EnterStream
  <2>2. CASE PullAfterLoading(j)
    BY <2>2 DEF PullAfterLoading, EnterStream
  <2>3. CASE LoadWoken(j)
    BY <2>3 DEF LoadWoken, EnterStream
  <2>4. CASE PullAfterQueued(j)
    BY <2>4 DEF PullAfterQueued
  <2>5. CASE LockGranted(j)
    BY <2>5 DEF LockGranted
  <2>6. CASE PullAfterRunning(j)
    BY <2>6 DEF PullAfterRunning, StartWork
  <2>7. CASE WorkDone(j) \/ WorkWritten(j)
    <3>1. CASE WorkDone(j)
      BY <3>1 DEF WorkDone
    <3>2. CASE WorkWritten(j)
      BY <3>2 DEF WorkWritten
    <3>3. QED
      BY <2>7, <3>1, <3>2
  <2>8. CASE StoreDone(j)
    BY <2>8 DEF StoreDone
  <2>9. CASE PullAfterResult(j)
    BY <2>9 DEF PullAfterResult
  <2>10. CASE AlignVocals(j)
    BY <2>10 DEF AlignVocals, StartWork
  <2>11. QED
    BY <1>2, <2>1, <2>2, <2>3, <2>4, <2>5, <2>6, <2>7, <2>8, <2>9, <2>10 DEF Produce
<1>3. ASSUME NEW j \in Jobs, Unwind(j)
      PROVE  ThreadInv'
  <2>1. CASE StreamOver(j)
    BY <2>1 DEF StreamOver
  <2>2. CASE CancelPull(j)
    BY <2>2 DEF CancelPull
  <2>3. CASE CancelInLock(j)
    BY <2>3 DEF CancelInLock
  <2>4. CASE CancelWork(j)
    BY <2>4 DEF CancelWork
  <2>5. CASE WorkStopped(j)
    BY <2>5 DEF WorkStopped
  <2>6. CASE CancelStore(j)
    BY <2>6 DEF CancelStore
  <2>7. CASE StoreAfterCancel(j)
    BY <2>7 DEF StoreAfterCancel
  <2>8. CASE Finalize(j)
    BY <2>8 DEF Finalize
  <2>9. QED
    BY <1>3, <2>1, <2>2, <2>3, <2>4, <2>5, <2>6, <2>7, <2>8 DEF Unwind
<1>4. ASSUME NEW j \in Jobs, Disconnect(j)
      PROVE  ThreadInv'
  BY <1>4 DEF Disconnect
<1>5. CASE Download
  BY <1>5 DEF Download
<1>6. CASE Provision
  <2>1. CASE StartupLoaded \/ ModelsWarm
    BY <2>1 DEF StartupLoaded, ModelsWarm, SetLoaded
  <2>2. CASE CheckDone \/ StartupLoad \/ Provisioned \/ ReloadStart \/ ReloadGranted \/ ModelsReset
    BY <2>2 DEF CheckDone, StartupLoad, Provisioned, ReloadStart, ReloadGranted, ModelsReset
  <2>3. QED
    BY <1>6, <2>1, <2>2 DEF Provision
<1>7. CASE ReleaseTurn
  BY <1>7 DEF ReleaseTurn
<1>8. QED
  BY <1>1, <1>2, <1>3, <1>4, <1>5, <1>6, <1>7 DEF JNext
-----------------------------------------------------------------------------
\* Each step of a job or a reload moves its place in the code and its place in
\* the lock together.
LEMMA LockUseStep ==
  ASSUME TypeOK, JTypeOK, LockUse, ModelsInv, JNext, UNCHANGED gpuOnly
  PROVE  LockUse'
<1> USE JobsAssumption
<1>a. /\ gpuOnly \subseteq Jobs
      /\ at = [i \in Jobs |-> at[i]]
      /\ pc = [t \in Tasks |-> pc[t]]
  BY DEF JTypeOK, TypeOK
<1>b. ASSUME UNCHANGED <<at, pc, reload>>
      PROVE  LockUse'
  BY <1>b DEF LockUse
<1> USE <1>a DEF LockUse, InLock, Yields, jobVars, provVars, vars
<1>1. ASSUME NEW j \in Jobs, Request(j)
      PROVE  LockUse'
  BY <1>1 DEF Request
<1>2. ASSUME NEW j \in Jobs, Produce(j)
      PROVE  LockUse'
  <2>1. CASE PullFirst(j)
    BY <2>1 DEF PullFirst, EnterStream, AcquireFree
  <2>2. CASE PullAfterLoading(j)
    BY <2>2 DEF PullAfterLoading, EnterStream, AcquireFree
  <2>3. CASE LoadWoken(j)
    BY <2>3 DEF LoadWoken, EnterStream, AcquireFree
  <2>4. CASE PullAfterQueued(j)
    <3>1. j \in gpuOnly /\ UNCHANGED reload
      BY <2>4 DEF PullAfterQueued
    <3>2. CASE AcquireFree(j) /\ at' = [at EXCEPT ![j] = "yRunning"]
      BY <3>1, <3>2 DEF AcquireFree
    <3>3. CASE AcquireWait(j, LaneOf[j]) /\ at' = [at EXCEPT ![j] = "lockWait"]
      BY <3>1, <3>3 DEF AcquireWait
    <3>4. QED
      BY <2>4, <3>2, <3>3 DEF PullAfterQueued
  <2>5. CASE LockGranted(j)
    BY <2>5 DEF LockGranted, Resume
  <2>6. CASE PullAfterRunning(j)
    <3>1. UNCHANGED <<pc, reload>> /\ at[j] = "yRunning"
      BY <2>6 DEF PullAfterRunning
    <3>2. CASE at' = [at EXCEPT ![j] = "yResult"]
      BY <3>1, <3>2
    <3>3. CASE at' = [at EXCEPT ![j] = "work"]
      BY <3>1, <3>3
    <3>4. QED
      BY <2>6, <3>2, <3>3 DEF PullAfterRunning, StartWork
  <2>7. CASE WorkDone(j) \/ WorkWritten(j)
    <3>1. CASE WorkDone(j)
      BY <3>1 DEF WorkDone
    <3>2. CASE WorkWritten(j)
      BY <3>2 DEF WorkWritten
    <3>3. QED
      BY <2>7, <3>1, <3>2
  <2>8. CASE StoreDone(j)
    BY <2>8 DEF StoreDone
  <2>9. CASE PullAfterResult(j)
    BY <2>9 DEF PullAfterResult, LeaveStream, Release
  <2>10. CASE AlignVocals(j)
    BY <2>10 DEF AlignVocals, StartWork
  <2>11. QED
    BY <1>2, <2>1, <2>2, <2>3, <2>4, <2>5, <2>6, <2>7, <2>8, <2>9, <2>10 DEF Produce
<1>3. ASSUME NEW j \in Jobs, Unwind(j)
      PROVE  LockUse'
  <2>1. CASE StreamOver(j)
    BY <2>1 DEF StreamOver
  <2>2. CASE CancelPull(j)
    BY <2>2 DEF CancelPull
  <2>3. CASE CancelInLock(j)
    BY <2>3 DEF CancelInLock, ResumeCancelled, ResumeGrantedCancelled
  <2>4. CASE CancelWork(j)
    BY <2>4 DEF CancelWork
  <2>5. CASE WorkStopped(j)
    BY <2>5 DEF WorkStopped, LeaveStream, Release
  <2>6. CASE CancelStore(j)
    BY <2>6 DEF CancelStore, LeaveStream, Release
  <2>7. CASE StoreAfterCancel(j)
    BY <2>7 DEF StoreAfterCancel
  <2>8. CASE Finalize(j)
    BY <2>8 DEF Finalize, LeaveStream, Release
  <2>9. QED
    BY <1>3, <2>1, <2>2, <2>3, <2>4, <2>5, <2>6, <2>7, <2>8 DEF Unwind
<1>4. ASSUME NEW j \in Jobs, Disconnect(j)
      PROVE  LockUse'
  BY <1>4 DEF Disconnect, Cancel
<1>5. CASE Download
  BY <1>5 DEF Download, ModelsInv
<1>6. CASE Provision
  <2>1. CASE StartupLoaded
    BY <2>1 DEF StartupLoaded, SetLoaded
  <2>2. CASE ModelsWarm
    BY <2>2 DEF ModelsWarm, SetLoaded, Release
  <2>3. CASE ReloadStart
    BY <2>3 DEF ReloadStart, AcquireFree, AcquireWait
  <2>4. CASE ReloadGranted
    BY <2>4 DEF ReloadGranted, Resume
  <2>5. CASE CheckDone \/ StartupLoad \/ Provisioned \/ ModelsReset
    BY <2>5 DEF CheckDone, StartupLoad, Provisioned, ModelsReset
  <2>6. QED
    BY <1>6, <2>1, <2>2, <2>3, <2>4, <2>5 DEF Provision
<1>7. CASE ReleaseTurn
  <2>1. PICK t \in Tasks : ReleaseLoop(t)
    BY <1>7 DEF ReleaseTurn
  <2>2. pc[t] = "releasing" /\ pc' \in {pc, [pc EXCEPT ![t] = "idle"]}
    BY <2>1 DEF ReleaseLoop, ReleasePass, ReleaseSkip, ReleaseEmpty
  <2>3. QED
    BY <1>7, <2>2 DEF ReleaseTurn
<1>8. QED
  BY <1>1, <1>2, <1>3, <1>4, <1>5, <1>6, <1>7 DEF JNext

-----------------------------------------------------------------------------
\* Two tasks never hold the lock at once.
LEMMA OneHolder ==
  ASSUME LockInv, NEW t \in Tasks, NEW u \in Tasks, pc[t] = "holding", pc[u] = "holding"
  PROVE  t = u
BY DEF LockInv, MutualExclusion, Owners

\* While the models are dropped and loaded again no GPU job is at work.
LEMMA ReloadAlone ==
  ASSUME GpuInv, reload \in {"reset", "warm"}, NEW j \in gpuOnly
  PROVE  thread[j] \notin {"work", "stopping"}
<1>1. j \in Jobs /\ j \in Tasks /\ Reloader \in Tasks /\ j # Reloader
  BY JobsAssumption DEF GpuInv, JTypeOK
<1>2. pc[Reloader] = "holding"
  BY DEF GpuInv, LockUse
<1>3. pc[j] # "holding"
  BY <1>1, <1>2, OneHolder DEF GpuInv
<1>4. at[j] \notin {"work", "align", "workCancelled"}
  BY <1>3 DEF GpuInv, LockUse, InLock
<1>5. QED
  BY <1>1, <1>4 DEF GpuInv, ThreadInv

\* Models come into memory only while there are none, or newer ones only with
\* no GPU job at work.
LEMMA ModelsStep ==
  ASSUME GpuInv, JNext, UNCHANGED gpuOnly
  PROVE  ModelsInv' /\ JTypeOK'
<1>0. ASSUME NEW j \in Jobs
      PROVE  Result(j) \in Songs \X BOOLEAN
  <2>1. (j \in gpuOnly) \in BOOLEAN
    OBVIOUS
  <2>2. SongOf[j] \in Songs
    BY JobsAssumption
  <2>3. QED
    BY <2>1, <2>2, Zenon DEF Result
<1> USE JobsAssumption DEF JTypeOK, ModelsInv, Yields, jobVars, provVars
<1>1. JTypeOK /\ ModelsInv
  BY DEF GpuInv
<1>2. ASSUME NEW j \in Jobs, Request(j) \/ Disconnect(j)
      PROVE  ModelsInv' /\ JTypeOK'
  BY <1>1, <1>2 DEF Request, Disconnect
<1>3. ASSUME NEW j \in Jobs, Produce(j)
      PROVE  ModelsInv' /\ JTypeOK'
  <2>1. CASE PullFirst(j) \/ PullAfterLoading(j) \/ LoadWoken(j)
    BY <1>1, <2>1 DEF PullFirst, PullAfterLoading, LoadWoken, EnterStream
  <2>2. CASE PullAfterQueued(j) \/ LockGranted(j) \/ PullAfterResult(j)
    BY <1>1, <2>2 DEF PullAfterQueued, LockGranted, PullAfterResult
  <2>3. CASE PullAfterRunning(j)
    BY <1>1, <2>3 DEF PullAfterRunning, StartWork
  <2>4. CASE WorkDone(j) \/ WorkWritten(j)
    <3>1. CASE WorkDone(j)
      BY <1>1, <3>1 DEF WorkDone
    <3>2. CASE WorkWritten(j)
      <4>1. cached' \subseteq Songs \X BOOLEAN
        BY <1>0, <1>1, <3>2 DEF WorkWritten
      <4>2. QED
        BY <1>1, <3>2, <4>1 DEF WorkWritten
    <3>3. QED
      BY <2>4, <3>1, <3>2
  <2>5. CASE StoreDone(j)
    BY <1>0, <1>1, <2>5 DEF StoreDone
  <2>6. CASE AlignVocals(j)
    BY <1>1, <2>6 DEF AlignVocals, StartWork
  <2>7. QED
    BY <1>3, <2>1, <2>2, <2>3, <2>4, <2>5, <2>6 DEF Produce
<1>4. ASSUME NEW j \in Jobs, Unwind(j)
      PROVE  ModelsInv' /\ JTypeOK'
  <2>1. CASE StreamOver(j) \/ CancelPull(j) \/ CancelInLock(j)
    BY <1>1, <2>1 DEF StreamOver, CancelPull, CancelInLock
  <2>2. CASE CancelWork(j)
    <3>1. thread[j] = "work"
      BY <2>2 DEF CancelWork, GpuInv, ThreadInv
    <3>2. QED
      BY <1>1, <2>2, <3>1 DEF CancelWork
  <2>3. CASE WorkStopped(j) \/ CancelStore(j) \/ Finalize(j)
    BY <1>1, <2>3 DEF WorkStopped, CancelStore, Finalize
  <2>4. CASE StoreAfterCancel(j)
    BY <1>0, <1>1, <2>4 DEF StoreAfterCancel
  <2>5. QED
    BY <1>4, <2>1, <2>2, <2>3, <2>4 DEF Unwind
<1>5. CASE Download
  BY <1>1, <1>5 DEF Download
<1>6. CASE Provision
  <2>1. CASE CheckDone \/ StartupLoad
    BY <1>1, <2>1 DEF CheckDone, StartupLoad
  <2>2. CASE StartupLoaded
    BY <1>1, <2>2 DEF StartupLoaded, SetLoaded
  <2>3. CASE Provisioned
    BY <1>1, <2>3 DEF Provisioned
  <2>4. CASE ReloadStart
    BY <1>1, <2>4 DEF ReloadStart
  <2>5. CASE ReloadGranted
    BY <1>1, <2>5 DEF ReloadGranted
  <2>6. CASE ModelsReset
    BY <1>1, <2>6, ReloadAlone DEF ModelsReset
  <2>7. CASE ModelsWarm
    BY <1>1, <2>7 DEF ModelsWarm, SetLoaded
  <2>8. QED
    BY <1>6, <2>1, <2>2, <2>3, <2>4, <2>5, <2>6, <2>7 DEF Provision
<1>7. CASE ReleaseTurn
  BY <1>1, <1>7 DEF ReleaseTurn
<1>8. QED
  BY <1>2, <1>3, <1>4, <1>5, <1>6, <1>7 DEF JNext

-----------------------------------------------------------------------------
\* Every step of the jobs and of the provisioner keeps GpuInv, so that it
\* always holds.
THEOREM GpuInvariant == JSpec => []GpuInv
<1>1. JInit => GpuInv
  <2> SUFFICES ASSUME JInit PROVE GpuInv
    OBVIOUS
  <2> USE JobsAssumption DEF JInit
  <2>1. LockInv
    BY InitInv
  <2>2. JTypeOK
    <3>1. cached \subseteq Songs \X BOOLEAN
      OBVIOUS
    <3>2. /\ 0 \in 0..(MaxDownloads + 1) /\ 1 \in 1..(MaxDownloads + 1)
          /\ 0 \in 0..1 /\ 0 \in 0..MaxDownloads
      OBVIOUS
    <3>3. QED
      BY <3>1, <3>2 DEF JTypeOK
  <2>3. ThreadInv
    BY DEF ThreadInv
  <2>4. LockUse
    BY DEF LockUse, InLock, Init, JTypeOK
  <2>5. ModelsInv
    BY DEF ModelsInv, JTypeOK
  <2>6. QED
    BY <2>1, <2>2, <2>3, <2>4, <2>5 DEF GpuInv
<1>2. GpuInv /\ [JNext /\ UNCHANGED gpuOnly]_<<allVars, gpuOnly>> => GpuInv'
  <2> SUFFICES ASSUME GpuInv, [JNext /\ UNCHANGED gpuOnly]_<<allVars, gpuOnly>>
               PROVE  GpuInv'
    OBVIOUS
  <2>1. CASE JNext /\ UNCHANGED gpuOnly
    <3>1. LockInv'
      BY <2>1, UsesLock, LockStep DEF GpuInv
    <3>2. ThreadInv'
      BY <2>1, ThreadStep DEF GpuInv
    <3>3. LockUse'
      BY <2>1, LockUseStep DEF GpuInv, LockInv
    <3>4. QED
      BY <2>1, <3>1, <3>2, <3>3, ModelsStep DEF GpuInv
  <2>2. CASE UNCHANGED <<allVars, gpuOnly>>
    <3>1. LockInv'
      BY <2>2, LockStep DEF GpuInv, allVars
    <3>2. JTypeOK' /\ ThreadInv' /\ LockUse' /\ ModelsInv'
      BY <2>2 DEF GpuInv, allVars, vars, jobVars, provVars, JTypeOK, ThreadInv, LockUse, ModelsInv
    <3>3. QED
      BY <3>1, <3>2 DEF GpuInv
  <2>3. QED
    BY <2>1, <2>2
<1>3. QED
  BY <1>1, <1>2, PTL DEF JSpec

\* What the jobs and the reloads do to the lock is a behaviour of the lock: all
\* that is proved of RoundRobinLock holds of it here.
THEOREM JobsUseLock == JSpec => Spec
<1>1. JInit => Init
  BY DEF JInit
<1>2. [JNext /\ UNCHANGED gpuOnly]_<<allVars, gpuOnly>> => [Next]_vars
  BY UsesLock DEF allVars
<1>3. QED
  BY <1>1, <1>2, PTL DEF JSpec, Spec

\* The GPU has at most one user, which holds the lock (run_cancellable waits
\* for its thread before it releases), and a GPU job's thread runs on the
\* models in memory (the reload drains the jobs first).
THEOREM GpuIsSafe == JSpec => []GpuSafe
<1>1. GpuInv => GpuSafe
  <2> SUFFICES ASSUME GpuInv PROVE GpuSafe
    OBVIOUS
  <2>1. ASSUME NEW t \in OnGpu
        PROVE  t \in Tasks /\ pc[t] = "holding"
    BY JobsAssumption DEF OnGpu, GpuInv, JTypeOK, ThreadInv, LockUse, InLock
  <2>2. GpuExclusive
    BY <2>1, OneHolder DEF GpuExclusive, GpuInv
  <2>3. OneModelSet
    BY DEF OneModelSet, GpuInv, ModelsInv
  <2>4. QED
    BY <2>2, <2>3 DEF GpuSafe, GpuInv
<1>2. QED
  BY <1>1, GpuInvariant, PTL

\* A job's scratch dir is there as long as its work runs, whenever its client
\* goes away (pump_with_heartbeat waits a cancelled pull out).
THEOREM ScratchIsKept == JSpec => []ScratchOutlivesWork
<1>1. GpuInv => ScratchOutlivesWork
  BY DEF GpuInv, ThreadInv, Yields, ScratchOutlivesWork
<1>2. QED
  BY <1>1, GpuInvariant, PTL

\* A GPU job at work holds the lock, so that no other is.
LEMMA OneAtWork ==
  ASSUME GpuInv, NEW i \in Jobs, NEW j \in Jobs, AtWork(i), AtWork(j)
  PROVE  i = j
BY JobsAssumption, OneHolder DEF GpuInv, LockUse, InLock, AtWork

\* Two GPU jobs never do the same work: what one is at work on was not on disk
\* when it looked, under the lock it holds until its last file is stored
\* (serialized_gpu_stream), and comes there meanwhile only by a thread that a
\* cancelled job left behind.
THEOREM WorkIsDoneOnce == JSpec => NoWorkTwice
<1> DEFINE Once ==
      \A j \in Jobs : AtWork(j)' /\ Result(j) \in cached' =>
        AtWork(j) /\ (Result(j) \in cached \/ LeftStoring(j))
<1>1. GpuInv /\ [JNext /\ UNCHANGED gpuOnly]_<<allVars, gpuOnly>> => [Once]_allVars
  <2> SUFFICES ASSUME GpuInv, JNext, UNCHANGED gpuOnly,
                      NEW i \in Jobs, AtWork(i)', Result(i) \in cached'
               PROVE  AtWork(i) /\ (Result(i) \in cached \/ LeftStoring(i))
    BY DEF allVars
  <2>0. JTypeOK /\ ThreadInv
    BY DEF GpuInv
  <2> USE <2>0 DEF Yields, jobVars
  \* A step that starts no work and stores nothing.
  <2>1. ASSUME cached' = cached, \A j \in Jobs : AtWork(j)' => AtWork(j)
        PROVE  AtWork(i) /\ Result(i) \in cached
    BY <2>1
  \* A step of a job at work that stores its own result, and so ends its work.
  <2>2. ASSUME NEW j \in Jobs, at' = [at EXCEPT ![j] = "yResult"],
               cached' \in {cached, cached \cup {Result(j)}},
               AtWork(j) \/ j \notin gpuOnly
        PROVE  AtWork(i) /\ Result(i) \in cached
    <3>1. i # j /\ AtWork(i)
      BY <2>2 DEF AtWork, JTypeOK
    <3>2. j \notin gpuOnly /\ i \in gpuOnly
      BY <2>2, <3>1, OneAtWork DEF AtWork
    <3>3. Result(i) # Result(j)
      BY <3>2 DEF Result
    <3>4. QED
      BY <2>2, <3>1, <3>3
  <2>3. ASSUME NEW j \in Jobs, Request(j) \/ Disconnect(j)
        PROVE  AtWork(i) /\ Result(i) \in cached
    BY <2>1, <2>3 DEF Request, Disconnect, AtWork, JTypeOK
  <2>4. ASSUME NEW j \in Jobs, Produce(j)
        PROVE  AtWork(i) /\ Result(i) \in cached
    <3>1. CASE PullFirst(j) \/ PullAfterLoading(j) \/ LoadWoken(j) \/ PullAfterQueued(j)
               \/ LockGranted(j) \/ PullAfterResult(j)
      BY <2>1, <3>1 DEF PullFirst, PullAfterLoading, LoadWoken, EnterStream, PullAfterQueued,
                        LockGranted, PullAfterResult, AtWork, JTypeOK
    <3>2. CASE PullAfterRunning(j)
      <4>1. CASE Result(j) \in cached
        BY <2>1, <3>2, <4>1 DEF PullAfterRunning, AtWork, JTypeOK
      <4>2. CASE Result(j) \notin cached
        <5>1. cached' = cached /\ at' = [at EXCEPT ![j] = "work"]
          BY <3>2, <4>2 DEF PullAfterRunning, StartWork
        <5>2. Result(i) = Result(i)' /\ i # j
          BY <4>2, <5>1 DEF Result
        <5>3. QED
          BY <5>1, <5>2 DEF AtWork, JTypeOK
      <4>3. QED
        BY <4>1, <4>2
    <3>3. CASE WorkDone(j)
      BY <2>1, <3>3 DEF WorkDone, AtWork, JTypeOK
    <3>4. CASE WorkWritten(j) \/ StoreDone(j)
      <4>1. AtWork(j) \/ j \notin gpuOnly
        BY <3>4 DEF WorkWritten, StoreDone, AtWork
      <4>2. QED
        BY <2>2, <3>4, <4>1 DEF WorkWritten, StoreDone
    <3>5. CASE AlignVocals(j)
      BY <2>1, <3>5 DEF AlignVocals, StartWork, AtWork, JTypeOK
    <3>6. QED
      BY <2>4, <3>1, <3>2, <3>3, <3>4, <3>5 DEF Produce
  <2>5. ASSUME NEW j \in Jobs, Unwind(j)
        PROVE  AtWork(i) /\ (Result(i) \in cached \/ LeftStoring(i))
    <3>1. CASE StreamOver(j) \/ CancelPull(j) \/ CancelInLock(j) \/ CancelWork(j) \/ WorkStopped(j)
               \/ CancelStore(j) \/ Finalize(j)
      BY <2>1, <3>1 DEF StreamOver, CancelPull, CancelInLock, CancelWork, WorkStopped, CancelStore,
                        Finalize, AtWork, JTypeOK
    <3>2. CASE StoreAfterCancel(j)
      <4>1. AtWork(i) /\ (Result(i) \in cached \/ Result(i) = Result(j))
        BY <3>2 DEF StoreAfterCancel, AtWork
      <4>2. at[j] = "ended" /\ thread[j] = "store"
        BY <3>2 DEF StoreAfterCancel
      <4>3. QED
        BY <4>1, <4>2 DEF LeftStoring
    <3>3. QED
      BY <2>5, <3>1, <3>2 DEF Unwind
  <2>6. ASSUME Provision \/ Download \/ ReleaseTurn
        PROVE  AtWork(i) /\ Result(i) \in cached
    BY <2>1, <2>6 DEF Provision, Download, ReleaseTurn, CheckDone, StartupLoad, StartupLoaded,
                Provisioned, ReloadStart, ReloadGranted, ModelsReset, ModelsWarm,
                SetLoaded, AtWork, JTypeOK
  <2>7. QED
    BY <2>3, <2>4, <2>5, <2>6 DEF JNext
<1>2. QED
  BY <1>1, GpuInvariant, PTL DEF JSpec, NoWorkTwice
=============================================================================
