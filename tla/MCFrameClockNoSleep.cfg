CONSTANTS
  Ms = 3
  Frame = 13
  Slow = 4
  Fast = 1
  Clamp = 9
  SleepMax = 2
  Resync = 30
  Requests <- MCRequests
  Works <- MCWorks
  MaxSteps = 2
  NoSleep = TRUE
  Unanchored = Unanchored
SPECIFICATION ClockSpec
PROPERTIES FramesKeepComing
