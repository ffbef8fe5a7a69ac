SPECIFICATION FairSpec
CONSTANTS
  Files = {"file"}
  Targets <- SomeTargets
  NoValue = NoValue
  Writes <- SomeWrites
  Failures = {"text", "table", "plain"}
  MaxRequests = 3
INVARIANTS TypeOK StackAtRest AnswerIsOutcome HasContentType TextsAlive LuaAfterFiles
PROPERTY TameIsAnswered
CHECK_DEADLOCK FALSE
