SPECIFICATION Spec
CONSTANTS
  NumIterations = 3
  BufferSize <- Unlimited
  InitialCapacity = 2
  NumLayers = 3
  LayersPerChunk = 2
  Placements = {p1, p2}
  MaxRows = 8
  Empty = Empty
INVARIANT NoStaleRows
