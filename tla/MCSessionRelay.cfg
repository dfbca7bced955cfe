\* Two sessions that may draw the same id, two hosts and a remote, and time
\* enough to drop a session.
SPECIFICATION ISpec
CONSTANTS
  Sessions = {s1, s2}
  NoSession = NoSession
  Ids = {"01"}
  Typed = {"o1"}
  Normalize <- MCNormalize
  Sockets = {h1, h2, r1}
  NoSocket = NoSocket
  HostSockets = {h1, h2}
  States = {a}
  NoState = NoState
  TTL = 1
  MaxSessions = 1
  MaxTime = 2
  MaxFrames = 1
INVARIANT RelaySafe ViewsConverge ReplacedIsFinal DroppedInTime
PROPERTY NotDroppedEarly
CHECK_DEADLOCK FALSE
