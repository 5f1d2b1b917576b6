CONSTANTS
  t1 = t1
  t2 = t2
  t3 = t3
  Idle = idle
  None = none0
  Threads = {t1, t2, t3, idle}
  Mutexes = {m1, m2}
  Conds = {c1}
  Queues = {m1, m2, c1}
  Quantum = 1
  Prios = {2, 4}
  BasePrio <- MCPrio
SPECIFICATION MCSpec
PROPERTIES QueuedThreadBoosts
