CONSTANTS
  t1 = t1
  t2 = t2
  t3 = t3
  Idle = idle
  Threads = {t1, t2, t3, idle}
  Sems = {s1, b1}
  Queues = {s1, b1}
  BinSems = {b1}
  Quantum = 1
  MaxCnt = 1
  BasePrio <- MCPrio
  W = 6
  Timers = {v1, v2}
  Sleepers = {z1}
  Pars = {p}
  None = none0
SYMMETRY TimerSymmetry
SPECIFICATION MCSpec
INVARIANTS ArmedAndTyped ListsOK SemaphoresConsistent HighestRuns TimersOK WakeupMessage
PROPERTIES ImplementsAbsSem ImplementsAbsVT WakesOnTime
