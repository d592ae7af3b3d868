CONSTANTS
  w1 = w1
  s1 = s1
  s2 = s2
  s3 = s3
  f1 = f1
  f2 = f2
  Worker <- MCWorker
  Acc = acc
  Socket <- MCSocket
  NoSocket = nosock
  MaxResume = 1
  Event <- MCEvent
  Func <- MCFunc
  NoFunc = nofunc
SPECIFICATION FairSpec
INVARIANTS SocketsHaveOnePlace CallbacksAtHome CrashOnlyAfterClose FuncsInTable CompletionsMatch
PROPERTIES ConnectionsServed CloseReturns
CHECK_DEADLOCK FALSE
