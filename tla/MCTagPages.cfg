CONSTANTS
  go = go
  Go = Go
  ts = ts
  red = red
  blue = blue
  title = title
  Null = Null
  Gone = Gone
  Titles <- MCTitles
  Names <- MCNames
  ValidNames <- MCNames
  Lower <- MCLower
  JsLower <- MCLower
  Colors <- MCColors
  ValidColors <- MCColors
  Libraries <- MCLibraries
  MaxRequests = 2
  MaxIds = 3
  MaxChanges = 2
SPECIFICATION TagsSpec
INVARIANTS
  PagesSound
  ChipsAsAsked
  TagsListedOnce
  TagsAgree
