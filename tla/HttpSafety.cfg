SPECIFICATION Spec
CONSTANTS
  c1 = c1
  c2 = c2
  NoConn = NoConn
  Conns = {c1, c2}
  Layouts = {"a", "b"}
  Script <- MixedScript
  REQUEST_TIMEOUT = 2
  KEEP_ALIVE_TIMEOUT = 3
  REQUEST_BUF_SIZE = 3
  MAX_REQUEST_BUF_SIZE = 16
  RESPONSE_SIZE = 2
  MAX_MEM_USAGE = 2
  MaxFds = 3
  SendBuffer = 1
  Pipelining = TRUE
  Fins = {c2}
  Resets = {c2}
  Clock = TRUE
INVARIANTS TypeOK NoUseAfterFree MemAccounted BufferFitsState NoLostWakeup TimeoutInRange OneAnswerEach
CHECK_DEADLOCK FALSE
