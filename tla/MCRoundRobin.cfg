\* Four tasks in two lanes.
SPECIFICATION TSpec
CONSTANTS
  Tasks = {t1, t2, t3, t4}
  Lanes = {a, b}
  NoTask = NoTask
INVARIANT LockInv NoStrandedWaiter BoundedOvertaking
PROPERTY ImplementsLaneMutex OneNotStarved
