CONSTANTS
  System = System
  Wave = Wave
  Movie = Movie
  Overflow = Overflow
  Small = Small
  Big = Big
  Nil = Nil
  Heaps = {System, Wave, Movie, Overflow, Small, Big}
  Fixed <- TwoFixed
  HeapUnits = 1
  WaveUnits = 16
  OverflowUnits = 5
  MemUnits = 33
  BlockUnits <- OneAndTwo
  Fallbacks <- PassOn
  Configs <- OneOfEach
  ResetUnits = 1
  Asks <- SomeOfEach
  Resizes = {3}
  MaxLive = 3
  MaxBorrowed = 1
SPECIFICATION Spec
INVARIANTS BlocksSound OwnerFound StatsAgree
PROPERTIES AllocatorSpec
