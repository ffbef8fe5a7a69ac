SPECIFICATION Spec
CONSTANTS
  Requests <- OneRequest
  Limit <- MCLimit
  RequestBufSize = 4
  MaxRequestBufSize = 36
  MaxReads = 3
  ResponseBufSize = 12
  Strays = {0, 3}
  Responses <- LongResponses
INVARIANT GrowsAutomatically
CHECK_DEADLOCK FALSE
