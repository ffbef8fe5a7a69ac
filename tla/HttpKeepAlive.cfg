SPECIFICATION Spec
CONSTANTS
  c1 = c1
  c2 = c2
  NoConn = NoConn
  Conns = {c1, c2}
  Layouts = {"a", "b"}
  Script <- PoliteScript
  REQUEST_TIMEOUT = 2
  KEEP_ALIVE_TIMEOUT = 3
  REQUEST_BUF_SIZE = 4
  MAX_REQUEST_BUF_SIZE = 16
  RESPONSE_SIZE = 2
  MAX_MEM_USAGE = 100
  MaxFds = 4
  SendBuffer = 1
  Pipelining = FALSE
  Fins = {}
  Resets = {}
  Clock = FALSE
INVARIANT IdleHasKeepAliveTimeout
CHECK_DEADLOCK FALSE
