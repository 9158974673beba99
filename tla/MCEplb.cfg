SPECIFICATION FairSpec
CONSTANTS
  NumIterations = 3
  BufferSize = 3
  InitialCapacity = 2
  NumLayers = 3
  LayersPerChunk = 2
  Placements = {p1, p2}
  MaxRows = 6
  Empty = Empty
INVARIANTS TypeOK NoStaleRows
PROPERTIES PlanApplied RebalanceRecurs
