\* The other parts' bounds, and the sequences, records and functions, are in MCPage.
SPECIFICATION MCSpec
CONSTANTS
  Sliders = {"volume", "track"}
  SliderValues = {0, 1}
  MaxRemoteSearches = 2
  MaxRemoteWire = 2
  MaxHostSearches = 1
  Videos = {"a", "b"}
  VideoSpeeds = {1, 2}
  Latencies = {1, 3, 7}
  MaxLead = 3
  MaxWait = 5
  SongLen = 12
  MaxJumps = 2
  Clips = {"a", "b"}
  SongNotes <- MCNotes
  Tolerance = 1
  LastTick = 7
  Sung = {0, 48}
  MaxSungFrames = 2
  MaxSeeks = 1
  MaxSessions = 2
  Inputs = {"a", "b"}
  MaxMicCalls = 2
  ProcessIds = {1, 2, 3}
  MaxBackendCalls = 2
INVARIANTS PrepareSafe RemoteSafe VideoSafe ScoringSafe SoundSafe MachineSafe UiSafe AlgorithmsRight
CHECK_DEADLOCK FALSE
