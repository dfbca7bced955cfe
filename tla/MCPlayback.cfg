\* A song of two steps, six commands may wait; two output rates and two calls,
\* one change of device.
SPECIFICATION MCSpec
CONSTANTS
  Dur = 2
  MaxCmds = 6
  Hasty = FALSE
  Rates = {1, 2}
  Secs = {0, 1}
  MaxCalls = 2
  MaxSwaps = 1
  MaxFrame = 3
INVARIANTS PlaybackSafe HeardWhereShown EndScheduled ShownAfterSeek StretchFollows
PROPERTIES EndsPlayedOut StopWins
CHECK_DEADLOCK FALSE
