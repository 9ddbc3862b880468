SPECIFICATION Spec
CONSTANTS
  Attempts <- FewAttempts
  Interval = 1
  CallTime = 1
  MaxStarts = 2
  WaitFor = 1
  Timeout = 2
  SocketTimeout = 1
  InARow = 2
INVARIANT RestartedOnSuccess
CHECK_DEADLOCK FALSE
