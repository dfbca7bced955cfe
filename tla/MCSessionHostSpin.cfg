\* A relay that restarts while a page creates its new session.
SPECIFICATION Spec
CONSTANTS
  Pages = {p1, p2}
  NoPage = NoPage
  Songs = {a, b}
  Streamed = {a}
  MaxSessions = 2
  MaxFaults = 2
  MaxActs = 0
  MaxSent = 3
  Busy = FALSE
PROPERTY SpinStops
CHECK_DEADLOCK FALSE
