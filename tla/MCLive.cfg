CONSTANTS
  t1 = t1
  t2 = t2
  t3 = t3
  t4 = t4
  s1 = s1
  s2 = s2
  Idle = idle
  Threads = {t1, t2, t3, t4, idle}
  Sems = {s1, s2}
  Queues = {s1, s2}
  BinSems = {}
  Quantum = 1
  MaxCnt = 1
  Servers = {t3, t4}
  p_msgqueue <- MCMsgQueue
  Words = {v, w}
  MaxHeld = 2
  BasePrio <- MCPrio
SPECIFICATION LiveSpec
INVARIANTS MessagesOK
PROPERTIES TimeoutsArrive RoundRobin ImplementsAbsMsg MessagesReceived
