SPECIFICATION JFairSpec
CONSTANTS
  DefaultLane = lane0
  Jobs = {j1, j2}
  Reloader = Reloader
  Tasks <- MCTasks
  Lanes = {lane0, lane1, lane2}
  NoTask = NoTask
  Songs = {s1}
  SongOf <- MCSongOf
  LaneOf <- MCLaneOf
  MaxDownloads = 1
INVARIANT GpuSafe ScratchOutlivesWork
PROPERTY NoWorkTwice AllEnd
CHECK_DEADLOCK FALSE
