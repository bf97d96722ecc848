SPECIFICATION FairSpec
CONSTANTS
  NoData = NoData
  NoLeaf = NoLeaf
  NoSpec = NoSpec
  Hot = Hot
  c1 = c1
  c2 = c2
  Clients <- MCClients
  Batches <- MCBatches
  MaxCompressions = 2
INVARIANTS
  SdkTypeOK
  LoadSuffices
  FailsOnlyIfOvertaken
PROPERTIES
  ImplementsWarm
  ClientsFinish
CHECK_DEADLOCK FALSE
