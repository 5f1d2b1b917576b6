CONSTANTS
  t1 = t1
  t2 = t2
  t3 = t3
  l1 = l1
  l2 = l2
  Idle = idle
  None = none0
  Threads = {t1, t2, t3, idle}
  emptysem = q1
  fullsem = q2
  Queues = {q1, q2}
  Quantum = 1
  Data = {a, b}
  Size = 2
  ResetAnyTime = FALSE
  qp = q1
  Bytes = {x, y}
  QSize = 2
  MaxN = 2
  Events = {0, 1}
  Flags = {f}
  Sources = {src}
  Listeners = {l1, l2}
  Owner <- MCOwner
  Mask <- MCMask
  Uses <- MCUses
  BasePrio <- MCPrio
SYMMETRY DataSymmetry
SPECIFICATION Spec
INVARIANTS MailboxOK EventWaitsOK FlagsAnnounced QueueWaitsOK
PROPERTIES ImplementsAbsMBox ImplementsAbsQueue
