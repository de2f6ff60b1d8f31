CONSTANTS
  x = x
  y = y
  go = go
  Go = Go
  red = red
  Null = Null
  All = All
  Temp = Temp
  Gone = Gone
  Titles <- MCTitles
  Names <- MCNames
  ValidNames <- MCNames
  Lower <- MCLower
  Colors <- MCColors
  ValidColors <- MCColors
  Libraries <- MCLibraries
  First = 1
  MaxRequests = 2
  MaxIds = 4
  MaxChanges = 2
SPECIFICATION Spec
INVARIANTS
  LibrarySound
  PageSound
  PagesSkipNothing
  QuietPageAgrees
