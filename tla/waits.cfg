SPECIFICATION FairSpec
CONSTANTS
  Attempts <- FewAttempts
  Interval = 1
  CallTime = 2
  MaxStarts = 2
  WaitFor = 2
  Timeout = 2
  SocketTimeout = 1
  InARow = 2
INVARIANT TypeOK
INVARIANT GivesUpInTime
INVARIANT ServiceNotMissed
INVARIANT RestartIsNew
INVARIANT StableIsSame
PROPERTY PromiseKept
PROPERTY RetryEnds
PROPERTY ComesToAnEnd
CHECK_DEADLOCK FALSE
