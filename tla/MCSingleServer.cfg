SPECIFICATION Spec
CONSTANTS
  c1 = c1
  c2 = c2
  s1 = s1
  s2 = s2
  Null = Null
  Conns <- MCConns
  SessionIds <- MCSessionIds
  Sizes <- MCSizes
  Capacity = 3
  SplitBytes = {0}
  BannerBytes = 2
  ChunkBytes = {1, 4}
  MaxQueues = 3
  MaxPushed = 3
SYMMETRY MCSymmetry
INVARIANTS
  NoQueueLeaks
  OutputReachesAll
  SizeFitsShown
