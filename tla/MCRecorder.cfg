SPECIFICATION Spec
CONSTANTS
  NumLayers = 3
  DenseLayers = {0}
  NumExperts = 2
  TopKNum = 2
  TopK = 1
  MaxTokens = 2
  PassKinds = {"target", "draft"}
  UseDeepEp = TRUE
  MaxPass = 3
  NoPass = NoPass
  Unrouted = Unrouted
INVARIANTS TypeOK NoGap ScoresOwn MiscOfLastRecord
PROPERTY ImplementsLog
