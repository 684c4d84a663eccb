SPECIFICATION FairSpec
CONSTANTS
  f1 = f1
  NumCommands = 2
  Abortable = {}
  Files = {f1}
  Jobs <- ReadJobs
  WakeupSlots = 3
  CallbackSlots = 1
  GameYields = FALSE
  None = None
PROPERTIES EventuallyDelivered EventuallyFreed
CHECK_DEADLOCK FALSE
