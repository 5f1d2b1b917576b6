CONSTANTS
  Senders = {x1}
  NTx = 2
  NRx = 2
  Links = {TRUE}
SPECIFICATION MacSpec
INVARIANT QueuedUntilFreed
