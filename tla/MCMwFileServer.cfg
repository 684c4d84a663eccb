SPECIFICATION Spec
CONSTANTS
  f1 = f1
  NumCommands = 2
  Abortable = {1}
  Files = {f1}
  Jobs <- AllJobs
  WakeupSlots = 3
  CallbackSlots = 1
  GameYields = FALSE
  None = None
INVARIANTS NoDanglingCommand NeverStranded NoLostSignal CompletedOnce SuccessIsComplete
  BufferHeldByActive ActiveCountAgrees
PROPERTY AsyncSpec
CHECK_DEADLOCK FALSE
