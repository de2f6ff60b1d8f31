SPECIFICATION Spec
CONSTANTS
  c1 = c1
  c2 = c2
  Conns <- MCConns
  Ids <- MCIds
  Sizes <- MCSizes
  Capacity = 3
  SplitBytes = {2}
  BannerBytes = 2
  ChunkBytes = {1, 4}
  MaxChannels = 1
  MaxSessions = 2
  MaxQueues = 2
  MaxGenerations <- MCGenerations
  MaxPushed <- MCPushed
  MaxRestarts = 1
  Checkpointed = {1}
SYMMETRY MCSymmetry
INVARIANTS
  StoreSound
  ScrollbackIsTail
  StreamsUnbroken
  SizeFitsAll
  NobodyWaitsOnTheDead
