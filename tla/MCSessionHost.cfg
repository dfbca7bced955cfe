\* Two tabs, two sessions, two songs; the system may come to rest.
SPECIFICATION FairSpec
CONSTANTS
  Pages = {p1, p2}
  NoPage = NoPage
  Songs = {a, b}
  Streamed = {a}
  MaxSessions = 2
  MaxFaults = 2
  MaxActs = 3
  MaxSent = 3
  Busy = FALSE
INVARIANTS HostsSafe
PROPERTIES QueueKept Settles
CHECK_DEADLOCK FALSE
