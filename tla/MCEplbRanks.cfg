CONSTANTS
  NumNodes = 2
  GpusPerNode = 2
  NumLocal = 2
  NumLogical = 4
  NumGroups = 4
  Hierarchical = TRUE
  NumLayers = 2
  Undef = Undef
  InitMaps <- MCInitMaps
  LoadChoices <- MCLoadChoices
  MaxRounds = 2
SPECIFICATION FairSpec
INVARIANTS
  TypeOK
  WeightsFollowMap
  RanksAgree
  DispatchFindsWeights
  GroupsStayTogether
  ReplicasOptimal
  RebalanceHasHistory
PROPERTIES
  RoundsEnd
CHECK_DEADLOCK FALSE
