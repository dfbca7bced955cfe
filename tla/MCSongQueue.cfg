\* Two songs, one remount.
SPECIFICATION QFairSpec
CONSTANTS
  NoSong = NoSong
  Songs = {s1, s2}
  MaxRemounts = 1
  Impatient = FALSE
INVARIANTS QueueSafe VideosMatchQueue NoStall PreloadIsNext
PROPERTIES QueueMovesOn
CHECK_DEADLOCK FALSE
