CONSTANTS
  Ms = 3
  Frame = 13
  Slow = 4
  Fast = 1
  Clamp = 9
  SleepMax = 2
  Resync = 30
  Requests <- MCRequests
  Works <- MCWorks
  MaxSteps = 2
  NoSleep = FALSE
  Unanchored = Unanchored
SPECIFICATION ClockSpec
INVARIANTS StepsFollowTheClock BurstIsBounded
PROPERTIES FramesKeepComing
