SPECIFICATION MCFairSpec
CONSTANTS
  StopTasks = {"close", "event", "restart_later"}
  CloseTasks = {"close"}
  MaxChallenges = 2
  TasksFail = TRUE
  QueueLen = 1
  MaxJoins = 1
  HoldMs = 5
  PollMs = 2
  MaxTasks = 2
INVARIANTS LockHolds AdminModeHolds OncePerPress
PROPERTIES ModesEnd HoldsAreReal
CHECK_DEADLOCK FALSE
