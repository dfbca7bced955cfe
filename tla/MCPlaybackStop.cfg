\* The page may act before a pause or a resume is answered.
SPECIFICATION PSpec
CONSTANTS
  Dur = 1
  MaxCmds = 4
  Hasty = TRUE
PROPERTY StopWins
CHECK_DEADLOCK FALSE
