CONSTANTS
  t1 = t1
  t2 = t2
  t3 = t3
  t4 = t4
  t5 = t5
  Idle = idle
  Main = t1
  Rlist = rlist
  Threads = {t1, t2, t3, t4, t5, idle}
  Queues = {t1, t2, t3, t4, t5, idle}
  Heap = {t3, t4}
  Codes = {"code"}
  MaxRefs = 2
  Quantum = 1
  BasePrio <- MCPrio
SPECIFICATION MCSpec
INVARIANT RegistryComplete
