SPECIFICATION FairSpec
CONSTANTS
  WaitQLen = 2
  Senders = {s1, s2, s3}
  Closers = {c1}
  NoThread = NoThread
  Prompt = TRUE
INVARIANTS ExclusiveSend AssertsHold
PROPERTIES ImplementsFifoEntry WaiterReturns CloseReturns
