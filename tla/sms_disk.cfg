CONSTANTS
  LowLimit = 2
  HighLimit = 4
  MaxFree = 6
  Fault = {"power", "notify_error", "resume_error"}
SPECIFICATION FairSpec
INVARIANTS RefusedIsWatched NoSleepAboveLimit
PROPERTIES ResumedWhenRoom ImplementsDiskWatch
