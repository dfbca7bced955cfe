\* Two jobs, of the same song or not; the system comes to rest.
SPECIFICATION FairSpec
CONSTANTS
  Jobs = {j1, j2}
  NoJob = NoJob
  Songs = {a}
  NoSong = NoSong
  VideoSlots = 1
  Cap = 1
  Torn = FALSE
INVARIANTS FetchSafe AudioThere
PROPERTY JobsEnd
CHECK_DEADLOCK FALSE
