SPECIFICATION JSpec
CONSTANTS
  DefaultLane = lane0
  Jobs = {j1, j2}
  Reloader = Reloader
  Tasks <- MCTasks
  Lanes = {lane0, lane1, lane2}
  NoTask = NoTask
  Songs = {s1}
  SongOf <- MCSongOf
  LaneOf <- MCLaneOf
  MaxDownloads = 1
INVARIANT ScratchOutlivesJob
CHECK_DEADLOCK FALSE
