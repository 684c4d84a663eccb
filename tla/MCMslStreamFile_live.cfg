SPECIFICATION FairSpec
CONSTANTS
  s1 = s1
  s2 = s2
  b1 = b1
  c1 = c1
  c2 = c2
  c3 = c3
  c4 = c4
  None = None
  NumRequests = 2
  NumBuffers = 2
  MaxDropped = 0
  Commands <- TwoCommands
  ArqSlots = 4
  TickSlots = 3
  Generations = 1
  Streams <- OneStream
  Banks <- OneBank
  MaxChunks = 2
PROPERTY EveryRequestEnds
