SPECIFICATION Spec
CONSTANTS
  NumLayers = 2
  DenseLayers = {0}
  NumExperts = 2
  TopKNum = 1
  TopK = 2
  MaxTokens = 1
  PassKinds = {"target"}
  UseDeepEp = TRUE
  MaxPass = 2
  NoPass = NoPass
  Unrouted = Unrouted
INVARIANT DenseLayersEmpty
