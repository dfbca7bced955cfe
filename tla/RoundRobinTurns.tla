--------------------------- MODULE RoundRobinTurns ---------------------------
(***************************************************************************)
(* RoundRobinLock with a history variable that counts, for each lane with   *)
(* waiters, the grants every other lane was given since its last turn.      *)
(***************************************************************************)
EXTENDS RoundRobinLock

VARIABLE overtaken  \* overtaken[l][m]: grants to m since l last had its turn

\* The lane this step takes a waiter from, if it is a turn of release()'s loop.
TakesTurn(l) ==
  /\ order # <<>> /\ l = Head(order)
  /\ \E t \in Tasks : pc[t] = "releasing"

GrantedIn(m) ==
  /\ TakesTurn(m)
  /\ \E t \in Tasks : fut[t] = "pending" /\ fut'[t] = "granted"

MaxCount == 2   \* bound: more grants than that aren't told apart

CountTurns ==
  overtaken' =
    [l \in Lanes |-> [m \in Lanes |->
       IF TakesTurn(l) \/ waiters'[l] = <<>> THEN 0
       ELSE overtaken[l][m] + IF GrantedIn(m) /\ overtaken[l][m] < MaxCount THEN 1 ELSE 0]]

TInit == Init /\ overtaken = [l \in Lanes |-> [m \in Lanes |-> 0]]
TNext == Next /\ CountTurns
TSpec == TInit /\ [][TNext]_<<vars, overtaken>> /\ Fairness

\* "Releases rotate through lanes": a lane with waiters sees no other lane
\* served twice before its own turn, whatever joins, leaves or is cancelled
\* meanwhile.
BoundedOvertaking == \A l, m \in Lanes : overtaken[l][m] <= 1

\* A waiter is granted the lock in the end, however the other lanes fill up,
\* unless it is cancelled (the rotation in release()).  The tasks are alike, so
\* one stands for all.
OneNotStarved == NotStarved(CHOOSE t \in Tasks : TRUE)
=============================================================================
