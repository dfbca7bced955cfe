\* Two songs, one remount; the page may be impatient.
SPECIFICATION QSpec
CONSTANTS
  NoSong = NoSong
  Songs = {s1, s2}
  MaxRemounts = 1
  Impatient = TRUE
PROPERTY MovesOnWhenSilent
CHECK_DEADLOCK FALSE
