SPECIFICATION FairSpec
CONSTANTS
  Requests <- MCRequests
  Limit <- MCLimit
  RequestBufSize = 4
  MaxRequestBufSize = 36
  MaxReads = 3
  ResponseBufSize = 12
  Strays = {0, 3}
  Responses <- MCResponses
INVARIANTS
  TypeOK
  TokensExact
  OverlongTrickles
  KeepAliveAsAsked
  ResponseExact
  MemUnderestimates
PROPERTY WellFormedHandled
CHECK_DEADLOCK FALSE
