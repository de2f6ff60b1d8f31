CONSTANTS
  window = window
  client = client
  http = http
  mobile = mobile
  timeout = timeout
  Null = Null
  Empty = Empty
  NoContent = NoContent
  Callers <- MCCallers
  Windows <- MCWindows
  Urls <- MCUrls
  Documents <- MCDocuments
  FetchErrors <- MCFetchErrors
  Day = 2
  MaxTime = 2
  MaxVersions = 1
  MaxCalls = 3
SPECIFICATION Spec
INVARIANTS
  CacheSound
  AnswersExplain
  CacheMovesForward
  ForcedIsFresh
  ArticleIsTheStorys
CHECK_DEADLOCK FALSE
