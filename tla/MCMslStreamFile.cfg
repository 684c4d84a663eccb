SPECIFICATION Spec
CONSTANTS
  s1 = s1
  s2 = s2
  b1 = b1
  c1 = c1
  c2 = c2
  c3 = c3
  c4 = c4
  None = None
  NumRequests = 2
  NumBuffers = 2
  MaxDropped = 2
  Commands <- FourCommands
  ArqSlots = 4
  TickSlots = 3
  Generations = 2
  Streams <- OneStream
  Banks <- OneBank
  MaxChunks = 3
INVARIANTS BufferHeldOnce RequestAccounted ChunkUndisturbed NeverExhausted HandleCurrent
PROPERTY ChunksInOrder
SYMMETRY AnyFour
