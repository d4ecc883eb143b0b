SPECIFICATION Spec
CONSTANTS
  FrameMin = 4
  FrameMax = 7
  RxCap = 10
  RxDrop = 5
  Chunk = 4
  Payloads <- SomePayloads
  Noise <- SomeNoise
  MaxPieces = 4
INVARIANTS ChunkingIrrelevant HandledInOrder Resynchronises BufferBounded
CHECK_DEADLOCK FALSE
