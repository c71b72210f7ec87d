SPECIFICATION MCFairSpec
CONSTANTS
  StopTasks = {"close", "event", "restart_later"}
  CloseTasks = {"close"}
  MaxChallenges = 2
  TasksFail = FALSE
  QueueLen = 1
  MaxJoins = 1
  HoldMs = 5
  PollMs = 2
  MaxTasks = 2
PROPERTY AdminIsShortLived
CHECK_DEADLOCK FALSE
