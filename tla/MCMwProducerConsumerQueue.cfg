SPECIFICATION FairSpec
CONSTANTS
  Producers = {p1, p2}
  Values = {a, b}
  Size = 3
  None = None
INVARIANT NoLostWakeup
PROPERTIES FifoSpec SleepersWake
