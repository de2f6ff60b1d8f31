CONSTANTS
  p1 = p1
  p2 = p2
  p3 = p3
  p4 = p4
  NoChannel = NoChannel
  Ids <- MCIds
  MaxChannels = 3
SPECIFICATION MapSpec
INVARIANTS
  ChannelMapSound
PROPERTY PoolSpec
