---------------------------- MODULE ChSemProofs ----------------------------
(***************************************************************************)
(* The safety properties of ChSem, for any number of threads, semaphores   *)
(* and priorities.                                                         *)
(*                                                                         *)
(* The inductive invariant IInv has four parts.  Good(k, Payload) is what  *)
(* the functions of the scheduler keep, whoever calls them (ChSchedProofs).*)
(* SemLists and SemaphoresConsistent relate the queues of the semaphores   *)
(* to the states of the threads and to the counters.  Calls relates each   *)
(* thread to the call it is in (SemSteps).  Context says who may be        *)
(* interrupted where.                                                      *)
(***************************************************************************)
EXTENDS SemSteps

Context ==
    /\ irq = "none" /\ loop = <<>> => Highest(k)
    /\ irq # "none" \/ loop # <<>> => pc[k.cur] = "run"
    /\ loop # <<>> => /\ irq # "tick"
                      /\ ~ loop[1].isr => irq = "none"
                      /\ loop[1].kind = "add"
                             => loop[1].n >= 0 /\ loop[1].s \notin BinSems
                      /\ loop[1].kind = "reset" => cnt[loop[1].s] >= 0

IInv == /\ TypeOK
        /\ Good(k, Payload)
        /\ SemLists(k)
        /\ SemaphoresConsistent
        /\ Calls(k, pc, irq)
        /\ Context
        /\ BinaryStaysBinary

-----------------------------------------------------------------------------
(* The inductive invariant. *)

\* chSysInit establishes the invariant.
LEMMA InvariantInit == Init => IInv
<1> SUFFICES ASSUME Init PROVE IInv
  OBVIOUS
<1>1. PICK main \in Threads \ {Idle} :
         k = [cur     |-> main,
              ready   |-> <<Idle>>,
              state   |-> [t \in Threads |-> IF t = main THEN "CURRENT"
                                             ELSE IF t = Idle THEN "READY"
                                             ELSE "SUSPENDED"],
              prio    |-> BasePrio,
              preempt |-> [t \in Threads |-> Quantum],
              queue   |-> [q \in Queues |-> <<>>],
              u       |-> [t \in Threads |-> RDY_OK],
              armed   |-> {}]
  BY DEF Init, SysInit
<1>2. /\ cnt \in [Sems -> 0 .. 1] /\ pc = [t \in Threads |-> "run"]
      /\ irq = "none" /\ loop = <<>>
  BY DEF Init, SysInit
<1>3. Good(k, Payload) /\ Highest(k)
  <2>1. RDY_OK \in Payload
    BY DEF Payload, Msgs
  <2> QED BY <1>1, <2>1, BasePrioAssumption, Started
<1>4. /\ \A t \in Threads : k.state[t] \in Runnable \cup {"SUSPENDED"}
      /\ \A s \in Sems : k.queue[s] = <<>>
      /\ \A t \in Threads : k.u[t] = RDY_OK
      /\ k.armed = {}
  BY <1>1, SemsAssumption DEF Runnable
<1>5. k \in Kernel(Payload)
  BY <1>3 DEF Good
<1>6. SemLists(k) /\ SemaphoresConsistent
  <2>1. Range(<<>>) = {} /\ NoRepeat(<<>>) /\ Len(<<>>) = 0
    BY DEF Range, NoRepeat
  <2>2. \A s \in Sems : ~ (cnt[s] < 0)
    BY <1>2
  <2> QED BY <1>2, <1>4, <2>1, <2>2 DEF SemLists, SemaphoresConsistent, Waiters, Resetting, Runnable
<1>7. Calls(k, pc, irq)
  BY <1>2, <1>4, NamesAssumption, ContextAssumption DEF Calls, Call, Runnable
<1>8. TypeOK
  BY <1>2, <1>5 DEF TypeOK
<1>9. BinaryStaysBinary
  BY <1>2, SemsAssumption DEF BinaryStaysBinary
<1>10. Context
  BY <1>2, <1>3 DEF Context
<1> QED BY <1>3, <1>6, <1>7, <1>8, <1>9, <1>10 DEF IInv

\* What every step starts from.
LEMMA InvariantParts ==
    ASSUME IInv
    PROVE  /\ Good(k, Payload) /\ SemLists(k) /\ Calls(k, pc, irq)
           /\ k \in Kernel(Payload) /\ k.cur \in Threads
           /\ cnt \in [Sems -> Int]
           /\ pc \in [Threads -> {"run", "wait", "timed", "sleep"}]
           /\ irq \in {"none", "tick"} \cup Threads
           /\ loop \in Seq(Loop) /\ Len(loop) <= 1
           /\ loop # <<>> => Len(loop) = 1 /\ loop[1] \in Loop
           /\ \A s \in Sems : Len(k.queue[s]) = Debt(Waiters(s))
           /\ loop = <<>> => \A s \in Sems : Waiters(s) = cnt[s]
           /\ Unlocked => Highest(k)
<1>1. k \in Kernel(Payload)
  BY DEF IInv, Good
<1>2. k.cur \in Threads
  BY <1>1, KernelParts
<1>3. /\ loop \in Seq(Loop) /\ Len(loop) <= 1
      /\ loop # <<>> => Len(loop) = 1 /\ loop[1] \in Loop
  <2>1. loop \in Seq(Loop) /\ Len(loop) <= 1
    BY DEF IInv, TypeOK
  <2>2. PICK q : q = loop OBVIOUS
  <2>3. ASSUME q # <<>> PROVE Len(q) = 1 /\ q[1] \in Loop
    <3>1. q \in Seq(Loop) /\ Len(q) <= 1
      BY <2>1, <2>2
    <3>2. PICK n : n = Len(q) OBVIOUS
    <3>3. n \in Nat /\ n > 0 /\ \A i \in 1 .. n : q[i] \in Loop
      BY <2>3, <3>1, <3>2, InList
    <3>4. n <= 1
      BY <3>1, <3>2
    <3>5. n = 1
      BY <3>3, <3>4
    <3> QED BY <3>2, <3>3, <3>5
  <2> QED BY <2>1, <2>2, <2>3
<1>4. \A s \in Sems : Len(k.queue[s]) = Debt(Waiters(s))
  BY DEF IInv, SemaphoresConsistent, Debt
<1>5. loop = <<>> => \A s \in Sems : Waiters(s) = cnt[s]
  BY DEF Waiters, Resetting
<1>6. Unlocked => Highest(k)
  BY DEF IInv, Context, Unlocked
<1> QED BY <1>1, <1>2, <1>3, <1>4, <1>5, <1>6 DEF IInv, TypeOK

\* A step that opens no loop and leaves the invariant's parts is a good one.
LEMMA Preserved ==
    ASSUME Good(k', Payload), SemLists(k'), Calls(k', pc', irq'),
           cnt' \in [Sems -> Int],
           pc' \in [Threads -> {"run", "wait", "timed", "sleep"}],
           irq' \in {"none", "tick"} \cup Threads,
           loop' = <<>>,
           \A s \in Sems : Len(k'.queue[s]) = Debt(cnt'[s]),
           irq' = "none" => Highest(k'),
           irq' # "none" => pc'[k'.cur] = "run",
           \A s \in BinSems : cnt'[s] <= 1
    PROVE  IInv'
<1>1. TypeOK'
  BY DEF TypeOK, Good
<1>2. SemaphoresConsistent'
  BY DEF SemaphoresConsistent, Waiters, Resetting, Debt
<1>3. Context'
  BY DEF Context
<1>4. BinaryStaysBinary'
  BY DEF BinaryStaysBinary
<1> QED BY <1>1, <1>2, <1>3, <1>4 DEF IInv

-----------------------------------------------------------------------------
(* The actions of the running thread. *)

\* The counters d count the waiters of a.
Counted(a, d) ==
    /\ d \in [Sems -> Int]
    /\ \A q \in Sems : Len(a.queue[q]) = Debt(d[q])
    /\ \A q \in BinSems : d[q] <= 1

\* What an API called by the running thread starts from.
LEMMA ThreadKeeps ==
    ASSUME IInv, InThread
    PROVE  /\ Good(k, Payload) /\ Highest(k) /\ SemLists(k) /\ Calls(k, pc, irq)
           /\ k \in Kernel(Payload) /\ k.cur \in Threads /\ k.cur # Idle
           /\ cnt \in [Sems -> Int]
           /\ pc \in [Threads -> {"run", "wait", "timed", "sleep"}]
           /\ pc[k.cur] = "run"
           /\ irq = "none" /\ loop = <<>>
           /\ \A s \in Sems : Len(k.queue[s]) = Debt(cnt[s])
           /\ \A s \in BinSems : cnt[s] <= 1 /\ s \in Sems
           /\ Counted(k, cnt)
  BY InvariantParts, SemsAssumption
     DEF InThread, Unlocked, IInv, BinaryStaysBinary, Counted

\* A static thread starts.
LEMMA CreateKeeps ==
    ASSUME IInv, NEW t \in Threads, chThdCreateStatic(t)
    PROVE  IInv'
<1>1. /\ InThread /\ k.state[t] = "SUSPENDED" /\ k' = chSchWakeupS(k, t, RDY_OK)
      /\ cnt' = cnt /\ pc' = pc /\ irq' = irq /\ loop' = loop
  BY DEF chThdCreateStatic, StartThread
<1>2. k.state[t] \notin Runnable /\ RDY_OK \in Payload
  BY <1>1 DEF Runnable, Payload, Msgs
<1>3. /\ Good(k', Payload) /\ Highest(k') /\ k'.state[t] \in Runnable
      /\ Others(k, k', t) /\ k'.queue = k.queue /\ k'.armed = k.armed
      /\ k'.u = [k.u EXCEPT ![t] = RDY_OK]
  BY <1>1, <1>2, ThreadKeeps, WakeupS DEF Others
<1>4. pc[t] = "run"
  BY <1>1, ThreadKeeps DEF Calls, Call
<1>5. SemLists(k') /\ Calls(k', pc, irq)
  BY <1>1, <1>3, <1>4, ThreadKeeps, WakeStep
<1> QED BY <1>1, <1>3, <1>5, ThreadKeeps, Preserved

\* chThdSleep.
LEMMA SleepKeeps ==
    ASSUME IInv, chThdSleep
    PROVE  IInv'
<1>1. /\ InThread /\ k' = chSchGoSleepTimeoutS(k, "SLEEPING")
      /\ pc' = [pc EXCEPT ![k.cur] = "sleep"]
      /\ cnt' = cnt /\ irq' = irq /\ loop' = loop
  BY DEF chThdSleep, SleepThread
<1>2. /\ Good(k', Payload) /\ Highest(k') /\ k'.queue = k.queue
      /\ SemLists(k') /\ Calls(k', pc', irq)
  BY <1>1, ThreadKeeps, SleepS
<1>3. pc' \in [Threads -> {"run", "wait", "timed", "sleep"}]
  BY <1>1, ThreadKeeps
<1> QED BY <1>1, <1>2, <1>3, ThreadKeeps, Preserved

\* chThdYield.
LEMMA YieldKeeps ==
    ASSUME IInv, chThdYield
    PROVE  IInv'
<1>1. /\ InThread /\ k' = chSchDoYieldS(k)
      /\ cnt' = cnt /\ pc' = pc /\ irq' = irq /\ loop' = loop
  BY DEF chThdYield, YieldThread
<1>2. Good(k', Payload) /\ Highest(k') /\ Same(k, k')
  BY <1>1, ThreadKeeps, DoYieldS
<1>3. SemLists(k') /\ Calls(k', pc, irq) /\ k'.queue = k.queue
  BY <1>1, <1>2, ThreadKeeps, SameStep DEF Same
<1> QED BY <1>1, <1>2, <1>3, ThreadKeeps, Preserved

\* A thread runs again behind its chSchGoSleep.
LEMMA ResumeKeeps ==
    ASSUME IInv, Resume
    PROVE  IInv'
<1>1. /\ irq = "none" /\ loop = <<>>
      /\ k' = IF pc[k.cur] = "wait" THEN k ELSE SleepTimeoutEnd(k)
      /\ pc' = [pc EXCEPT ![k.cur] = "run"]
      /\ cnt' = cnt /\ irq' = irq /\ loop' = loop
  BY DEF Resume, SwitchedIn
<1>2. Highest(k) /\ \A s \in BinSems : cnt[s] <= 1
  BY <1>1 DEF IInv, Context, BinaryStaysBinary
<1>3. /\ Good(k', Payload) /\ Highest(k') /\ k'.queue = k.queue
      /\ SemLists(k') /\ Calls(k', pc', irq)
  BY <1>1, <1>2, InvariantParts, CallEnds
<1>4. pc' \in [Threads -> {"run", "wait", "timed", "sleep"}]
  BY <1>1, InvariantParts
<1> QED BY <1>1, <1>2, <1>3, <1>4, InvariantParts, Preserved

\* The running thread blocks on s: the common part of the waiting actions,
\* which start from the kernel a with the counters d.
LEMMA BlockKeeps ==
    ASSUME NEW a, Good(a, Payload), SemLists(a), a.cur # Idle,
           pc \in [Threads -> {"run", "wait", "timed", "sleep"}],
           Calls(a, pc, irq), pc[a.cur] = "run", irq = "none", loop = <<>>,
           NEW d, Counted(a, d), NEW s \in Sems, ~ (d[s] > 0),
           NEW c, Blocks(a, s, c, k'),
           pc' = [pc EXCEPT ![a.cur] = c], cnt' = [d EXCEPT ![s] = d[s] - 1],
           irq' = irq, loop' = loop
    PROVE  IInv'
<1>1. /\ Good(k', Payload) /\ Highest(k')
      /\ SemLists(k') /\ Calls(k', pc', irq)
      /\ Joined(a, k', s, a.cur)
  BY EnqueueSleep
<1>2. /\ cnt' \in [Sems -> Int] /\ cnt'[s] = d[s] - 1 /\ d[s] \in Int /\ d[s] <= 0
      /\ \A q \in Sems \ {s} : cnt'[q] = d[q]
  BY DEF Counted
<1>3. \A q \in BinSems : cnt'[q] <= 1
  BY <1>2, SemsAssumption DEF Counted
<1>4. pc' \in [Threads -> {"run", "wait", "timed", "sleep"}]
  <2>1. c \in {"wait", "timed"} /\ a.cur \in Threads
    BY KernelParts DEF Good, Blocks
  <2> QED BY <2>1
<1>5. \A q \in Sems : Len(k'.queue[q]) = Debt(cnt'[q])
  <2>1. \A q \in Sems \ {s} : Len(k'.queue[q]) = Debt(cnt'[q])
    BY <1>1, <1>2 DEF Counted, Joined
  <2>2. Len(a.queue[s]) = -d[s] /\ Len(k'.queue[s]) = Len(a.queue[s]) + 1
    BY <1>1, <1>2 DEF Counted, Debt, Joined
  <2>3. Len(k'.queue[s]) = Debt(cnt'[s])
    BY <1>2, <2>2 DEF Debt
  <2> QED BY <2>1, <2>3
<1> QED BY <1>1, <1>2, <1>3, <1>4, <1>5, Preserved

\* The running thread takes a unit.
LEMMA TakeKeeps ==
    ASSUME IInv, InThread, NEW s \in Sems, cnt[s] > 0,
           cnt' = [cnt EXCEPT ![s] = cnt[s] - 1], UNCHANGED <<k, pc, irq, loop>>
    PROVE  IInv'
<1>1. cnt' \in [Sems -> Int] /\ cnt'[s] = cnt[s] - 1 /\ cnt[s] \in Int
      /\ \A q \in Sems \ {s} : cnt'[q] = cnt[q]
  BY ThreadKeeps
<1>2. \A q \in BinSems : cnt'[q] <= 1
  <2>1. ASSUME NEW q \in BinSems PROVE cnt'[q] <= 1
    <3>1. q \in Sems /\ cnt[q] <= 1 /\ cnt[q] \in Int
      BY ThreadKeeps
    <3> QED BY <1>1, <3>1
  <2> QED BY <2>1
<1>3. \A q \in Sems : Len(k.queue[q]) = Debt(cnt'[q])
  BY <1>1, ThreadKeeps DEF Debt
<1> QED BY <1>1, <1>2, <1>3, ThreadKeeps, Preserved

\* chSemWait.
LEMMA SemWaitKeeps ==
    ASSUME IInv, NEW s \in Sems, chSemWait(s)
    PROVE  IInv'
<1>1. InThread /\ irq' = irq /\ loop' = loop /\ cnt' = [cnt EXCEPT ![s] = cnt[s] - 1]
  BY DEF chSemWait
<1>2. cnt'[s] = cnt[s] - 1 /\ cnt[s] \in Int
  BY <1>1, ThreadKeeps
<1>3. CASE cnt'[s] >= 0 /\ UNCHANGED <<k, pc>>
  <2>1. cnt[s] > 0
    BY <1>2, <1>3
  <2> QED BY <1>1, <1>3, <2>1, TakeKeeps
<1>4. CASE /\ cnt'[s] < 0
           /\ k' = chSchGoSleepS(Enqueue(k, s), "WTSEM")
           /\ pc' = [pc EXCEPT ![k.cur] = "wait"]
  <2>1. ~ (cnt[s] > 0) /\ Blocks(k, s, "wait", k')
    BY <1>2, <1>4 DEF Blocks
  <2> QED BY <1>1, <1>4, <2>1, ThreadKeeps, BlockKeeps
<1> QED BY <1>3, <1>4 DEF chSemWait

\* chSemWaitTimeout.
LEMMA SemWaitTimeoutKeeps ==
    ASSUME IInv, NEW s \in Sems, NEW time, chSemWaitTimeout(s, time)
    PROVE  IInv'
<1>1. InThread /\ irq' = irq /\ loop' = loop /\ cnt[s] \in Int
  BY ThreadKeeps DEF chSemWaitTimeout
<1>2. CASE cnt[s] > 0
  <2>1. cnt' = [cnt EXCEPT ![s] = cnt[s] - 1] /\ UNCHANGED <<k, pc>>
    BY <1>1, <1>2 DEF chSemWaitTimeout
  <2> QED BY <1>1, <1>2, <2>1, TakeKeeps
<1>3. CASE cnt[s] <= 0 /\ time = TIME_IMMEDIATE
  <2>1. cnt' = cnt /\ UNCHANGED <<k, pc>>
    BY <1>1, <1>3 DEF chSemWaitTimeout, TIME_IMMEDIATE, TIME_INFINITE
  <2> QED BY <1>1, <2>1, ThreadKeeps, Preserved
<1>4. CASE cnt[s] <= 0 /\ time # TIME_IMMEDIATE
  <2>1. cnt' = [cnt EXCEPT ![s] = cnt[s] - 1]
    BY <1>4 DEF chSemWaitTimeout
  <2>2. PICK c : c = IF time = TIME_INFINITE THEN "wait" ELSE "timed"
    OBVIOUS
  <2>3. Blocks(k, s, c, k') /\ pc' = [pc EXCEPT ![k.cur] = c]
    BY <1>1, <1>4, <2>2 DEF chSemWaitTimeout, Blocks
  <2>4. ~ (cnt[s] > 0)
    BY <1>1, <1>4
  <2> QED BY <1>1, <2>1, <2>3, <2>4, ThreadKeeps, BlockKeeps
<1> QED BY <1>1, <1>2, <1>3, <1>4

\* The counter of s goes up by one, and a waiter leaves if there is one.
LEMMA CountUp ==
    ASSUME NEW c \in [Sems -> Int], NEW s \in Sems,
           NEW d, d = [c EXCEPT ![s] = c[s] + 1]
    PROVE  /\ d \in [Sems -> Int] /\ d[s] = c[s] + 1 /\ c[s] = d[s] - 1
           /\ d[s] \in Int /\ c[s] \in Int
           /\ \A q \in Sems \ {s} : d[q] = c[q]
  OBVIOUS

\* chSemSignal.
LEMMA SemSignalKeeps ==
    ASSUME IInv, NEW s \in Sems, chSemSignal(s)
    PROVE  IInv'
<1>1. /\ InThread /\ s \notin BinSems /\ cnt' = [cnt EXCEPT ![s] = cnt[s] + 1]
      /\ k' = IF cnt'[s] <= 0
              THEN chSchWakeupS(fifo_remove(k, s), Head(k.queue[s]), RDY_OK) ELSE k
      /\ pc' = pc /\ irq' = irq /\ loop' = loop
  BY DEF chSemSignal
<1>2. /\ cnt' \in [Sems -> Int] /\ cnt'[s] = cnt[s] + 1 /\ cnt[s] \in Int
      /\ cnt'[s] \in Int /\ \A q \in Sems \ {s} : cnt'[q] = cnt[q]
  BY <1>1, ThreadKeeps, CountUp
<1>3. \A q \in BinSems : cnt'[q] <= 1
  BY <1>1, <1>2, ThreadKeeps
<1>4. Len(k.queue[s]) = Debt(cnt[s])
  BY <1>1, ThreadKeeps
<1>5. CASE cnt'[s] > 0
  <2>1. k' = k /\ \A q \in Sems : Len(k.queue[q]) = Debt(cnt'[q])
    BY <1>1, <1>2, <1>4, <1>5, ThreadKeeps DEF Debt
  <2> QED BY <1>1, <1>2, <1>3, <2>1, ThreadKeeps, Preserved
<1>6. CASE cnt'[s] <= 0
  <2>1. /\ Len(k.queue[s]) > 0 /\ Len(k.queue[s]) - 1 = Debt(cnt'[s])
        /\ k' = chSchWakeupS(fifo_remove(k, s), Head(k.queue[s]), RDY_OK)
    BY <1>1, <1>2, <1>4, <1>6 DEF Debt
  <2>2. /\ Good(k', Payload) /\ Highest(k') /\ SemLists(k') /\ Calls(k', pc, irq)
        /\ OneLess(k, k', s)
    BY <1>1, <2>1, ThreadKeeps, SignalS
  <2>3. \A q \in Sems : Len(k'.queue[q]) = Debt(cnt'[q])
    BY <1>1, <1>2, <2>1, <2>2, ThreadKeeps DEF OneLess
  <2> QED BY <1>1, <1>2, <1>3, <2>2, <2>3, ThreadKeeps, Preserved
<1> QED BY <1>2, <1>5, <1>6

\* chSemSignalI on the kernel and the counters together.
Raised(c, s) == [c EXCEPT ![s] = c[s] + 1]
MayRaise(c, s) == s \in BinSems => c[s] < 1

\* chSemSignalI counts the signal and wakes at most one thread.
LEMMA SignalCounted ==
    ASSUME NEW a, Good(a, Payload), SemLists(a), NEW p, NEW i, Calls(a, p, i),
           NEW c, Counted(a, c), NEW s \in Sems, MayRaise(c, s),
           NEW d, d = Raised(c, s),
           NEW j, j = chSemSignalI(a, s, d[s])
    PROVE  /\ Good(j, Payload) /\ SemLists(j) /\ Calls(j, p, i)
           /\ j.cur = a.cur /\ Counted(j, d)
<1>1. c \in [Sems -> Int]
  BY DEF Counted
<1>2. /\ d \in [Sems -> Int] /\ d[s] = c[s] + 1 /\ c[s] = d[s] - 1
      /\ d[s] \in Int /\ c[s] \in Int /\ \A q \in Sems \ {s} : d[q] = c[q]
  BY <1>1, CountUp DEF Raised
<1>3. PICK n : n = d[s] OBVIOUS
<1>4. n \in Int /\ Len(a.queue[s]) = Debt(n - 1) /\ j = chSemSignalI(a, s, n)
  BY <1>2, <1>3 DEF Counted
<1>5. /\ Good(j, Payload) /\ SemLists(j) /\ Calls(j, p, i)
      /\ j.cur = a.cur
      /\ Len(j.queue[s]) = Debt(n)
      /\ \A q \in Sems \ {s} : j.queue[q] = a.queue[q]
  BY <1>4, SignalI
<1>6. \A q \in Sems : Len(j.queue[q]) = Debt(d[q])
  BY <1>2, <1>3, <1>5 DEF Counted
<1>7. \A q \in BinSems : d[q] <= 1
  <2>1. ASSUME NEW q \in BinSems PROVE d[q] <= 1
    <3>1. q \in Sems /\ c[q] <= 1
      BY SemsAssumption DEF Counted
    <3> QED BY <1>2, <3>1 DEF MayRaise
  <2> QED BY <2>1
<1> QED BY <1>2, <1>5, <1>6, <1>7 DEF Counted

\* Rescheduling, on leaving the kernel.
LEMMA SwitchKeeps ==
    ASSUME NEW a, Good(a, Payload), SemLists(a), Calls(a, pc, irq'),
           pc \in [Threads -> {"run", "wait", "timed", "sleep"}],
           Counted(a, cnt'), pc' = pc, irq' = "none", loop' = <<>>,
           \/ k' = chSchRescheduleS(a)
           \/ k' = _port_irq_epilogue(a)
    PROVE  IInv'
<1>1. Good(k', Payload) /\ Highest(k') /\ Same(a, k')
  BY RescheduleS, Epilogue
<1>2. SemLists(k') /\ Calls(k', pc, irq') /\ k'.queue = a.queue
  BY <1>1, SameStep DEF Same
<1> QED BY <1>1, <1>2, Preserved DEF Counted

\* chBSemSignal.
LEMMA BSemSignalKeeps ==
    ASSUME IInv, NEW s \in Sems, chBSemSignal(s)
    PROVE  IInv'
<1>1. PICK a : a = chSemSignalI(k, s, cnt'[s]) OBVIOUS
<1>2. /\ InThread /\ cnt[s] < 1 /\ cnt' = [cnt EXCEPT ![s] = cnt[s] + 1]
      /\ k' = chSchRescheduleS(a) /\ pc' = pc /\ irq' = irq /\ loop' = loop
  BY <1>1 DEF chBSemSignal
<1>3. Good(a, Payload) /\ SemLists(a) /\ Calls(a, pc, irq) /\ Counted(a, cnt')
  <2>1. MayRaise(cnt, s) /\ cnt' = Raised(cnt, s)
    BY <1>2 DEF MayRaise, Raised
  <2>2. Good(k, Payload) /\ SemLists(k) /\ Calls(k, pc, irq) /\ Counted(k, cnt)
    BY <1>2, ThreadKeeps
  <2> QED BY <1>1, <2>1, <2>2, SignalCounted
<1> QED BY <1>2, <1>3, ThreadKeeps, SwitchKeeps

\* chSemSignalWait: both semaphores in one step.
LEMMA SemSignalWaitKeeps ==
    ASSUME IInv, NEW sps \in Sems, NEW spw \in Sems, chSemSignalWait(sps, spw)
    PROVE  IInv'
<1>1. PICK d : d = [cnt EXCEPT ![sps] = cnt[sps] + 1] OBVIOUS
<1>2. PICK a : a = chSemSignalI(k, sps, d[sps]) OBVIOUS
<1>3. /\ InThread /\ sps \notin BinSems /\ irq' = irq /\ loop' = loop
      /\ cnt' = [d EXCEPT ![spw] = d[spw] - 1]
  BY <1>1 DEF chSemSignalWait
<1>4. \/ /\ cnt'[spw] < 0
         /\ k' = chSchGoSleepS(Enqueue(a, spw), "WTSEM")
         /\ pc' = [pc EXCEPT ![k.cur] = "wait"]
      \/ /\ cnt'[spw] >= 0
         /\ k' = chSchRescheduleS(a)
         /\ pc' = pc
  BY <1>1, <1>2 DEF chSemSignalWait
<1>5. /\ Good(a, Payload) /\ SemLists(a) /\ Calls(a, pc, irq) /\ a.cur = k.cur
      /\ Counted(a, d)
  <2>1. MayRaise(cnt, sps) /\ d = Raised(cnt, sps)
    BY <1>1, <1>3 DEF MayRaise, Raised
  <2> QED BY <1>2, <1>3, <2>1, ThreadKeeps, SignalCounted
<1>6. /\ cnt' \in [Sems -> Int] /\ cnt'[spw] = d[spw] - 1 /\ d[spw] \in Int
      /\ \A q \in Sems \ {spw} : cnt'[q] = d[q]
  <2>1. d \in [Sems -> Int]
    BY <1>5 DEF Counted
  <2> QED BY <1>3, <2>1
<1>7. CASE /\ cnt'[spw] < 0
           /\ k' = chSchGoSleepS(Enqueue(a, spw), "WTSEM")
           /\ pc' = [pc EXCEPT ![k.cur] = "wait"]
  <2>1. /\ ~ (d[spw] > 0) /\ Blocks(a, spw, "wait", k')
        /\ pc' = [pc EXCEPT ![a.cur] = "wait"]
    BY <1>5, <1>6, <1>7 DEF Blocks
  <2>2. /\ a.cur # Idle /\ pc[a.cur] = "run" /\ irq = "none" /\ loop = <<>>
        /\ pc \in [Threads -> {"run", "wait", "timed", "sleep"}]
    BY <1>3, <1>5, ThreadKeeps
  <2> QED BY <1>3, <1>5, <2>1, <2>2, BlockKeeps
<1>8. CASE cnt'[spw] >= 0 /\ k' = chSchRescheduleS(a) /\ pc' = pc
  <2>1. Counted(a, cnt')
    <3>1. Len(a.queue[spw]) = Debt(cnt'[spw])
      BY <1>5, <1>6, <1>8 DEF Counted, Debt
    <3>2. \A q \in Sems : Len(a.queue[q]) = Debt(cnt'[q])
      BY <1>5, <1>6, <3>1 DEF Counted
    <3>3. ASSUME NEW q \in BinSems PROVE cnt'[q] <= 1
      <4>1. q \in Sems /\ d[q] <= 1
        BY <1>5, SemsAssumption DEF Counted
      <4> QED BY <1>6, <4>1
    <3> QED BY <1>6, <3>2, <3>3 DEF Counted
  <2> QED BY <1>3, <1>5, <1>8, <2>1, ThreadKeeps, SwitchKeeps
<1> QED BY <1>4, <1>7, <1>8

-----------------------------------------------------------------------------
(* The interrupt handlers, and the loops. *)

\* What an interrupt handler starts from.
LEMMA HandlerKeeps ==
    ASSUME IInv, InIsr
    PROVE  /\ Good(k, Payload) /\ SemLists(k) /\ Calls(k, pc, irq)
           /\ k \in Kernel(Payload) /\ k.cur \in Threads
           /\ pc \in [Threads -> {"run", "wait", "timed", "sleep"}]
           /\ pc[k.cur] = "run"
           /\ irq \in {"none"} \cup Threads /\ irq # "tick" /\ loop = <<>>
           /\ Counted(k, cnt)
<1>1. loop = <<>> /\ pc[k.cur] = "run" /\ irq \in {"none"} \cup Threads
  BY NamesAssumption, ContextAssumption DEF InIsr, Unlocked, IInv, Context
<1>2. irq # "tick"
  BY <1>1, NamesAssumption, ContextAssumption
<1>3. Counted(k, cnt)
  BY <1>1, InvariantParts, SemsAssumption DEF IInv, BinaryStaysBinary, Counted
<1> QED BY <1>1, <1>2, <1>3, InvariantParts

\* A handler signals.
LEMMA IsrSignalKeeps ==
    ASSUME IInv, NEW s \in Sems, IsrSignal(s)
    PROVE  IInv'
<1>1. PICK a : a = chSemSignalI(k, s, cnt'[s]) OBVIOUS
<1>2. /\ InIsr /\ cnt' = Raised(cnt, s) /\ MayRaise(cnt, s)
      /\ k' = IsrExit(a) /\ pc' = pc /\ irq' = irq /\ loop' = loop
  BY <1>1 DEF IsrSignal, Raised, MayRaise
<1>3. /\ Good(a, Payload) /\ SemLists(a) /\ Calls(a, pc, irq) /\ Counted(a, cnt')
      /\ a.cur = k.cur
  BY <1>1, <1>2, HandlerKeeps, SignalCounted
<1>4. CASE irq = "none"
  <2>1. k' = _port_irq_epilogue(a)
    BY <1>2, <1>4 DEF IsrExit
  <2> QED BY <1>2, <1>3, <1>4, <2>1, HandlerKeeps, SwitchKeeps
<1>5. CASE irq # "none"
  <2>1. k' = a
    BY <1>2, <1>5 DEF IsrExit
  <2>2. /\ cnt' \in [Sems -> Int] /\ \A q \in BinSems : cnt'[q] <= 1
        /\ \A q \in Sems : Len(k'.queue[q]) = Debt(cnt'[q])
    BY <1>3, <2>1 DEF Counted
  <2> QED BY <1>2, <1>3, <1>5, <2>1, <2>2, HandlerKeeps, Preserved
<1> QED BY <1>4, <1>5

\* What the queues are counted by while loop l runs.
CountedIn(a, c, l) ==
    \A q \in Sems :
        Len(a.queue[q]) = Debt(IF l.kind = "reset" /\ l.s = q THEN l.n ELSE c[q])
LoopFits(c, l) ==
    /\ c \in [Sems -> Int] /\ \A q \in BinSems : c[q] <= 1
    /\ l.kind = "add" => l.n >= 0 /\ l.s \notin BinSems
    /\ l.kind = "reset" => c[l.s] >= 0

\* A step into a loop, or to its next round.
LEMMA PreservedLoop ==
    ASSUME Good(k', Payload), SemLists(k'), Calls(k', pc', irq'),
           pc' \in [Threads -> {"run", "wait", "timed", "sleep"}],
           irq' \in {"none"} \cup Threads, irq' # "tick",
           pc'[k'.cur] = "run",
           NEW l \in Loop, loop' \in Seq(Loop), Len(loop') = 1, loop'[1] = l,
           CountedIn(k', cnt', l), LoopFits(cnt', l),
           ~ l.isr => irq' = "none"
    PROVE  IInv'
<1>1. loop' # <<>>
  <2>1. PICK n : n = Len(loop') /\ n = 1
    OBVIOUS
  <2>2. loop' = <<>> => n = 0
    BY <2>1
  <2> QED BY <2>1, <2>2
<1>2. TypeOK'
  BY DEF TypeOK, Good, LoopFits
<1>3. SemaphoresConsistent'
  BY <1>1 DEF SemaphoresConsistent, Waiters, Resetting, Debt, CountedIn
<1>4. Context'
  BY <1>1 DEF Context, LoopFits
<1>5. BinaryStaysBinary'
  BY DEF BinaryStaysBinary, LoopFits
<1> QED BY <1>2, <1>3, <1>4, <1>5 DEF IInv

\* chSemReset and its I-class form replace the counter and enter the loop.
LEMMA ResetKeeps ==
    ASSUME IInv, NEW s \in Sems, NEW n \in 0 .. MaxCnt, NEW b \in BOOLEAN, InIsr,
           ~ b => irq = "none", s \in BinSems => n <= 1,
           loop' = <<[kind |-> "reset", s |-> s, n |-> cnt[s], isr |-> b]>>,
           cnt' = [cnt EXCEPT ![s] = n], UNCHANGED <<k, pc, irq>>
    PROVE  IInv'
<1>1. PICK l : l = [kind |-> "reset", s |-> s, n |-> cnt[s], isr |-> b]
  OBVIOUS
<1>2. l.kind = "reset" /\ l.s = s /\ l.n = cnt[s] /\ l.isr = b
  BY <1>1
<1>3. cnt \in [Sems -> Int] /\ n \in Int /\ n >= 0
  BY HandlerKeeps, MaxCntAssumption DEF Counted
<1>4. l \in Loop
  BY <1>1, <1>3 DEF Loop
<1>5. loop' \in Seq(Loop) /\ Len(loop') = 1 /\ loop'[1] = l
  BY <1>1, <1>4
<1>6. cnt' \in [Sems -> Int] /\ cnt'[s] = n /\ \A q \in Sems \ {s} : cnt'[q] = cnt[q]
  BY <1>3
<1>7. CountedIn(k', cnt', l)
  BY <1>2, <1>6, HandlerKeeps DEF CountedIn, Counted
<1>8. LoopFits(cnt', l)
  <2>1. ASSUME NEW q \in BinSems PROVE cnt'[q] <= 1
    BY <1>6, HandlerKeeps, SemsAssumption DEF Counted
  <2> QED BY <1>2, <1>3, <1>6, <2>1 DEF LoopFits
<1> QED BY <1>2, <1>4, <1>5, <1>7, <1>8, HandlerKeeps, PreservedLoop

\* chSemAddCounterI begins.
LEMMA AddKeeps ==
    ASSUME IInv, NEW s \in Sems, NEW n \in 1 .. MaxCnt, IsrAddCounter(s, n)
    PROVE  IInv'
<1>1. /\ InIsr /\ s \notin BinSems /\ UNCHANGED <<k, cnt, pc, irq>>
      /\ loop' = <<[kind |-> "add", s |-> s, n |-> n, isr |-> TRUE]>>
  BY DEF IsrAddCounter
<1>2. PICK l : l = [kind |-> "add", s |-> s, n |-> n, isr |-> TRUE]
  OBVIOUS
<1>3. l.kind = "add" /\ l.s = s /\ l.n = n /\ l.isr
  BY <1>2
<1>4. n \in Int /\ n >= 0 /\ l \in Loop
  BY <1>2, MaxCntAssumption DEF Loop
<1>5. loop' \in Seq(Loop) /\ Len(loop') = 1 /\ loop'[1] = l
  BY <1>1, <1>2, <1>4
<1>6. CountedIn(k', cnt', l) /\ LoopFits(cnt', l)
  BY <1>1, <1>3, <1>4, HandlerKeeps DEF CountedIn, Counted, LoopFits
<1> QED BY <1>1, <1>3, <1>4, <1>5, <1>6, HandlerKeeps, PreservedLoop

\* What a round of a loop starts from.
LEMMA LoopKeeps ==
    ASSUME IInv, loop # <<>>, NEW l, l = loop[1]
    PROVE  /\ Good(k, Payload) /\ SemLists(k) /\ Calls(k, pc, irq)
           /\ k \in Kernel(Payload)
           /\ pc \in [Threads -> {"run", "wait", "timed", "sleep"}]
           /\ pc[k.cur] = "run"
           /\ irq \in {"none"} \cup Threads /\ irq # "tick"
           /\ loop \in Seq(Loop) /\ Len(loop) = 1
           /\ l \in Loop /\ (~ l.isr => irq = "none")
           /\ CountedIn(k, cnt, l) /\ LoopFits(cnt, l)
<1>1. /\ pc[k.cur] = "run" /\ irq # "tick" /\ (~ l.isr => irq = "none")
      /\ l.kind = "add" => l.n >= 0 /\ l.s \notin BinSems
      /\ l.kind = "reset" => cnt[l.s] >= 0
  BY DEF IInv, Context
<1>2. CountedIn(k, cnt, l)
  BY InvariantParts DEF CountedIn, Waiters, Resetting
<1>3. LoopFits(cnt, l)
  BY <1>1, InvariantParts DEF LoopFits, IInv, BinaryStaysBinary
<1> QED BY <1>1, <1>2, <1>3, InvariantParts

\* A loop of the kernel is a sequence of one element.
LEMMA OneLoop ==
    ASSUME NEW e \in Loop, NEW r, r = <<e>>
    PROVE  r \in Seq(Loop) /\ Len(r) = 1 /\ r[1] = e
  OBVIOUS

\* The next round of a loop works on the same record, with another n.
LEMMA NextRound ==
    ASSUME NEW q \in Seq(Loop), Len(q) = 1, NEW m \in Int,
           NEW r, r = [q EXCEPT ![1].n = m]
    PROVE  /\ r \in Seq(Loop) /\ Len(r) = 1 /\ r[1] \in Loop
           /\ r[1].kind = q[1].kind /\ r[1].s = q[1].s /\ r[1].isr = q[1].isr
           /\ r[1].n = m
<1>1. q[1] \in Loop
  <2>1. PICK n : n = Len(q) OBVIOUS
  <2>2. \A i \in 1 .. n : q[i] \in Loop
    BY <2>1, InList
  <2> QED BY <2>1, <2>2
<1>2. PICK e : e = [q[1] EXCEPT !.n = m] OBVIOUS
<1>3. /\ e \in Loop /\ e.n = m
      /\ e.kind = q[1].kind /\ e.s = q[1].s /\ e.isr = q[1].isr
  BY <1>1, <1>2 DEF Loop
<1>4. r = [q EXCEPT ![1] = e]
  BY <1>2
<1>5. DOMAIN q = 1 .. 1 /\ q \in [1 .. 1 -> Loop]
  BY <1>1
<1>6. r \in [1 .. 1 -> Loop] /\ r[1] = e
  BY <1>3, <1>4, <1>5
<1>7. r \in Seq(Loop) /\ Len(r) = 1 /\ r[1] = e
  <2>1. r = <<e>>
    BY <1>6
  <2> QED BY <1>3, <2>1, OneLoop
<1> QED BY <1>3, <1>7

\* A round of chSemResetI.
LEMMA ResetRoundKeeps ==
    ASSUME IInv, chSemResetI
    PROVE  IInv'
<1>1. PICK l, s : l = loop[1] /\ s = l.s OBVIOUS
<1>2. /\ loop # <<>> /\ l.kind = "reset" /\ l.n + 1 <= 0
      /\ k' = ResetOne(k, s) /\ loop' = [loop EXCEPT ![1].n = l.n + 1]
      /\ cnt' = cnt /\ pc' = pc /\ irq' = irq
  BY <1>1 DEF chSemResetI, ResetOne
<1>3. l \in Loop /\ s \in Sems /\ l.n \in Int /\ l.n + 1 \in Int
  BY <1>1, <1>2, LoopKeeps DEF Loop
<1>4. Len(k.queue[s]) = -l.n /\ Len(k.queue[s]) > 0
  BY <1>1, <1>2, <1>3, LoopKeeps DEF CountedIn, Debt
<1>5. /\ Good(k', Payload) /\ SemLists(k') /\ Calls(k', pc, irq)
      /\ k'.cur = k.cur /\ OneLess(k, k', s)
  BY <1>1, <1>2, <1>3, <1>4, LoopKeeps, ResetRound
<1>6. PICK e, m : e = loop'[1] /\ m = l.n + 1 OBVIOUS
<1>7. /\ loop' \in Seq(Loop) /\ Len(loop') = 1 /\ e \in Loop
      /\ e.kind = l.kind /\ e.s = s /\ e.isr = l.isr /\ e.n = l.n + 1
  <2>1. loop \in Seq(Loop) /\ Len(loop) = 1 /\ m \in Int
    BY <1>1, <1>2, <1>3, <1>6, LoopKeeps
  <2>2. loop' = [loop EXCEPT ![1].n = m]
    BY <1>2, <1>6
  <2> QED BY <1>1, <1>6, <2>1, <2>2, NextRound
<1>8. CountedIn(k', cnt', e)
  <2>1. Len(k'.queue[s]) = Debt(l.n + 1)
    BY <1>2, <1>3, <1>4, <1>5 DEF Debt, OneLess
  <2>2. CountedIn(k, cnt, l)
    BY <1>1, <1>2, LoopKeeps
  <2> QED BY <1>1, <1>2, <1>5, <1>7, <2>1, <2>2 DEF CountedIn, OneLess
<1>9. LoopFits(cnt', e)
  <2>1. LoopFits(cnt, l)
    BY <1>1, <1>2, LoopKeeps
  <2> QED BY <1>1, <1>2, <1>7, <2>1 DEF LoopFits
<1> QED BY <1>1, <1>2, <1>5, <1>6, <1>7, <1>8, <1>9, LoopKeeps, PreservedLoop

\* A round of chSemAddCounterI.
LEMMA AddRoundKeeps ==
    ASSUME IInv, chSemAddCounterI
    PROVE  IInv'
<1>1. PICK l, s : l = loop[1] /\ s = l.s OBVIOUS
<1>2. /\ loop # <<>> /\ l.kind = "add" /\ l.n > 0
      /\ k' = chSemSignalI(k, s, cnt'[s]) /\ cnt' = Raised(cnt, s)
      /\ loop' = [loop EXCEPT ![1].n = l.n - 1] /\ pc' = pc /\ irq' = irq
  BY <1>1 DEF chSemAddCounterI, Raised
<1>3. l \in Loop /\ s \in Sems /\ l.n \in Int /\ l.n - 1 \in Int
  BY <1>1, <1>2, LoopKeeps DEF Loop
<1>4. s \notin BinSems /\ MayRaise(cnt, s) /\ Counted(k, cnt)
  <2>1. LoopFits(cnt, l) /\ CountedIn(k, cnt, l)
    BY <1>1, <1>2, LoopKeeps
  <2> QED BY <1>1, <1>2, <2>1 DEF LoopFits, CountedIn, Counted, MayRaise
<1>5. /\ Good(k', Payload) /\ SemLists(k') /\ Calls(k', pc, irq)
      /\ k'.cur = k.cur /\ Counted(k', cnt')
  BY <1>1, <1>2, <1>3, <1>4, LoopKeeps, SignalCounted
<1>6. PICK e, m : e = loop'[1] /\ m = l.n - 1 OBVIOUS
<1>7. /\ loop' \in Seq(Loop) /\ Len(loop') = 1 /\ e \in Loop
      /\ e.kind = l.kind /\ e.s = s /\ e.isr = l.isr /\ e.n = m
  <2>1. loop \in Seq(Loop) /\ Len(loop) = 1 /\ m \in Int
    BY <1>1, <1>2, <1>3, <1>6, LoopKeeps
  <2>2. loop' = [loop EXCEPT ![1].n = m]
    BY <1>2, <1>6
  <2> QED BY <1>1, <1>6, <2>1, <2>2, NextRound
<1>8. m >= 0
  BY <1>2, <1>3, <1>6
<1>9. CountedIn(k', cnt', e) /\ LoopFits(cnt', e)
  BY <1>2, <1>4, <1>5, <1>7, <1>8 DEF CountedIn, Counted, LoopFits
<1> QED BY <1>1, <1>2, <1>5, <1>6, <1>7, <1>9, LoopKeeps, PreservedLoop

\* The end of either loop, with chSchRescheduleS.
LEMMA LoopEndKeeps ==
    ASSUME IInv, LoopEnd
    PROVE  IInv'
<1>1. PICK l : l = loop[1] OBVIOUS
<1>2. /\ loop # <<>>
      /\ IF l.kind = "reset" THEN l.n + 1 > 0 ELSE l.n = 0
      /\ k' = IF l.isr THEN IsrExit(k) ELSE chSchRescheduleS(k)
      /\ loop' = <<>> /\ cnt' = cnt /\ pc' = pc /\ irq' = irq
  BY <1>1 DEF LoopEnd
<1>3. l \in Loop /\ l.n \in Int /\ l.s \in Sems
  BY <1>1, <1>2, LoopKeeps DEF Loop
<1>4. Counted(k, cnt')
  <2>1. LoopFits(cnt, l) /\ CountedIn(k, cnt, l)
    BY <1>1, <1>2, LoopKeeps
  <2>2. \A q \in Sems : Len(k.queue[q]) = Debt(cnt[q])
    <3>1. CASE l.kind = "reset"
      <4>1. Debt(l.n) = 0 /\ cnt[l.s] \in Int /\ Debt(cnt[l.s]) = 0
        BY <1>2, <1>3, <2>1, <3>1 DEF Debt, LoopFits
      <4> QED BY <2>1, <4>1 DEF CountedIn
    <3>2. CASE l.kind # "reset"
      BY <2>1, <3>2 DEF CountedIn
    <3> QED BY <3>1, <3>2
  <2> QED BY <1>2, <2>1, <2>2 DEF LoopFits, Counted
<1>5. CASE irq = "none"
  <2>1. k' = chSchRescheduleS(k) \/ k' = _port_irq_epilogue(k)
    BY <1>2, <1>5 DEF IsrExit
  <2> QED BY <1>1, <1>2, <1>4, <1>5, <2>1, LoopKeeps, SwitchKeeps
<1>6. CASE irq # "none"
  <2>1. k' = k
    BY <1>1, <1>2, <1>6, LoopKeeps DEF IsrExit
  <2>2. /\ cnt' \in [Sems -> Int] /\ \A q \in BinSems : cnt'[q] <= 1
        /\ \A q \in Sems : Len(k'.queue[q]) = Debt(cnt'[q])
    BY <1>4, <2>1 DEF Counted
  <2> QED BY <1>1, <1>2, <1>6, <2>1, <2>2, LoopKeeps, Preserved
<1> QED BY <1>5, <1>6

-----------------------------------------------------------------------------
(* The system tick. *)

\* No thread is at its callback outside of the callback.
LEMMA NoCallback ==
    ASSUME NEW a, NEW p, NEW i \in {"none", "tick"}, Calls(a, p, i),
           NEW j \in {"none", "tick"}
    PROVE  Calls(a, p, j)
<1>1. i \notin Threads /\ j \notin Threads
  BY NamesAssumption, ContextAssumption
<1> QED BY <1>1 DEF Calls, Call

\* The tick interrupt charges the running thread.
LEMMA TickKeeps ==
    ASSUME IInv, SysTick
    PROVE  IInv'
<1>1. /\ Unlocked /\ k' = ChargeTick(k) /\ irq' = "tick"
      /\ cnt' = cnt /\ pc' = pc /\ loop' = loop
  BY DEF SysTick, EnterTick
<1>2. InIsr /\ irq = "none" /\ k \in Kernel(Payload) /\ Good(k, Payload)
  BY <1>1, InvariantParts DEF InIsr, Unlocked
<1>3. Good(k', Payload) /\ Same(k, k') /\ k'.cur = k.cur
  BY <1>1, <1>2, Charge
<1>4. k' \in Kernel(Payload) /\ k'.queue = k.queue
  BY <1>3 DEF Good, Same
<1>5. SemLists(k') /\ Calls(k', pc, irq)
  BY <1>2, <1>3, HandlerKeeps, SameStep
<1>6. Calls(k', pc', irq')
  BY <1>1, <1>2, <1>5, NoCallback
<1>7. /\ cnt' \in [Sems -> Int] /\ \A q \in BinSems : cnt'[q] <= 1
      /\ \A q \in Sems : Len(k'.queue[q]) = Debt(cnt'[q])
  BY <1>1, <1>2, <1>4, HandlerKeeps DEF Counted
<1> QED BY <1>1, <1>2, <1>3, <1>4, <1>5, <1>6, <1>7, HandlerKeeps, Preserved

\* What the tick handler goes on from, inside and outside of a callback.
LEMMA InTickKeeps ==
    ASSUME IInv, irq # "none", loop = <<>>
    PROVE  pc[k.cur] = "run" /\ Counted(k, cnt)
<1>1. pc[k.cur] = "run"
  BY DEF IInv, Context
<1>2. Counted(k, cnt)
  BY InvariantParts DEF IInv, BinaryStaysBinary, Counted
<1> QED BY <1>1, <1>2

\* A timer leaves the delta list.
LEMMA ExpiresKeeps ==
    ASSUME IInv, NEW t \in Threads, TimerExpires(t)
    PROVE  IInv'
<1>1. /\ irq = "tick" /\ t \in k.armed /\ k' = [k EXCEPT !.armed = k.armed \ {t}]
      /\ irq' = t /\ cnt' = cnt /\ pc' = pc /\ loop' = loop
  BY DEF TimerExpires, TakeTimer
<1>2. loop = <<>>
  BY <1>1 DEF IInv, Context
<1>3. /\ Good(k', Payload) /\ k'.queue = k.queue /\ k'.cur = k.cur
      /\ SemLists(k') /\ Calls(k', pc, t)
  BY <1>1, InvariantParts, TimerTaken
<1>4. pc[k.cur] = "run" /\ Counted(k, cnt)
  BY <1>1, <1>2, InTickKeeps
<1>5. /\ cnt' \in [Sems -> Int] /\ \A q \in BinSems : cnt'[q] <= 1
      /\ \A q \in Sems : Len(k'.queue[q]) = Debt(cnt'[q])
  BY <1>1, <1>3, <1>4 DEF Counted
<1>6. irq' # "none" /\ pc' \in [Threads -> {"run", "wait", "timed", "sleep"}]
  BY <1>1, InvariantParts, NamesAssumption, ContextAssumption
<1> QED BY <1>1, <1>2, <1>3, <1>4, <1>5, <1>6, Preserved

\* The callback of a timer, with the kernel locked again.
LEMMA CallbackKeeps ==
    ASSUME IInv, TimeoutCallback
    PROVE  IInv'
<1>1. /\ irq \in Threads /\ loop = <<>> /\ k' = wakeup(k, irq)
      /\ cnt' = IF k.state[irq] = "WTSEM"
                THEN [cnt EXCEPT ![k.u[irq]] = cnt[k.u[irq]] + 1] ELSE cnt
      /\ irq' = "tick" /\ pc' = pc /\ loop' = loop
  BY DEF TimeoutCallback, CallTimer
<1>2. PICK t, s : t = irq /\ s = k.u[t] OBVIOUS
<1>3. pc[k.cur] = "run" /\ Counted(k, cnt)
  BY <1>1, InTickKeeps, NamesAssumption, ContextAssumption
<1>4. t \in Threads /\ Calls(k, pc, t) /\ k' = wakeup(k, t)
  BY <1>1, <1>2, InvariantParts
<1>5. /\ Good(k', Payload) /\ SemLists(k') /\ Calls(k', pc, "tick")
      /\ k'.cur = k.cur
      /\ k.state[t] # "WTSEM" => k'.queue = k.queue
      /\ k.state[t] = "WTSEM" =>
             s \in Sems /\ Len(k.queue[s]) > 0 /\ OneLess(k, k', s)
  <2>1. Good(k, Payload) /\ SemLists(k)
    BY InvariantParts
  <2> QED BY <1>2, <1>3, <1>4, <2>1, TimeoutWakes
<1>6. Counted(k', cnt')
  <2>1. CASE k.state[t] # "WTSEM"
    BY <1>1, <1>2, <1>3, <1>5, <2>1 DEF Counted
  <2>2. CASE k.state[t] = "WTSEM"
    <3>1. cnt' = [cnt EXCEPT ![s] = cnt[s] + 1] /\ s \in Sems /\ cnt \in [Sems -> Int]
      BY <1>1, <1>2, <1>3, <1>5, <2>2 DEF Counted
    <3>2. /\ cnt' \in [Sems -> Int] /\ cnt'[s] = cnt[s] + 1 /\ cnt[s] \in Int
          /\ \A q \in Sems \ {s} : cnt'[q] = cnt[q]
      BY <3>1, CountUp
    <3>3. Len(k.queue[s]) = Debt(cnt[s]) /\ Len(k.queue[s]) > 0
      BY <1>3, <1>5, <2>2, <3>1 DEF Counted
    <3>4. cnt[s] < 0 /\ Len(k.queue[s]) - 1 = Debt(cnt'[s])
      BY <3>2, <3>3 DEF Debt
    <3>5. \A q \in Sems : Len(k'.queue[q]) = Debt(cnt'[q])
      BY <1>3, <1>5, <2>2, <3>2, <3>4 DEF Counted, OneLess
    <3>6. ASSUME NEW q \in BinSems PROVE cnt'[q] <= 1
      <4>1. q \in Sems /\ cnt[q] <= 1
        BY <1>3, SemsAssumption DEF Counted
      <4> QED BY <3>2, <3>4, <4>1
    <3> QED BY <3>2, <3>5, <3>6 DEF Counted
  <2> QED BY <2>1, <2>2
<1>7. /\ cnt' \in [Sems -> Int] /\ \A q \in BinSems : cnt'[q] <= 1
      /\ \A q \in Sems : Len(k'.queue[q]) = Debt(cnt'[q])
  BY <1>6 DEF Counted
<1>8. pc' \in [Threads -> {"run", "wait", "timed", "sleep"}]
  BY <1>1, InvariantParts
<1> QED BY <1>1, <1>3, <1>5, <1>7, <1>8, Preserved

\* The tick interrupt ends.
LEMMA TickEndKeeps ==
    ASSUME IInv, SysTickEnd
    PROVE  IInv'
<1>1. /\ irq = "tick" /\ k' = _port_irq_epilogue(k) /\ irq' = "none"
      /\ cnt' = cnt /\ pc' = pc /\ loop' = loop
  BY DEF SysTickEnd, LeaveTick
<1>2. loop = <<>>
  BY <1>1 DEF IInv, Context
<1>3. Counted(k, cnt')
  BY <1>1, <1>2, InTickKeeps
<1>4. Calls(k, pc, irq')
  BY <1>1, InvariantParts, NoCallback
<1> QED BY <1>1, <1>2, <1>3, <1>4, InvariantParts, SwitchKeeps

-----------------------------------------------------------------------------
(* The theorems. *)

\* Every step keeps the invariant.
LEMMA InvariantStep == IInv /\ [Next]_vars => IInv'
<1> SUFFICES ASSUME IInv, [Next]_vars PROVE IInv'
  OBVIOUS
<1>1. CASE Thread
  <2>1. ASSUME NEW s \in Sems, NEW n \in 0 .. MaxCnt, chSemReset(s, n) PROVE IInv'
    <3>1. InIsr /\ irq = "none"
      BY <2>1 DEF chSemReset, InThread, Unlocked, InIsr
    <3> QED BY <2>1, <3>1, ResetKeeps DEF chSemReset
  <2> QED BY <1>1, <2>1, CreateKeeps, SleepKeeps, YieldKeeps, SemWaitKeeps,
             SemWaitTimeoutKeeps, SemSignalKeeps, SemSignalWaitKeeps,
             BSemSignalKeeps DEF Thread
<1>2. CASE Handler
  <2>1. ASSUME NEW s \in Sems, NEW n \in 0 .. MaxCnt, IsrReset(s, n) PROVE IInv'
    BY <2>1, ResetKeeps DEF IsrReset
  <2> QED BY <1>2, <2>1, IsrSignalKeeps, AddKeeps DEF Handler
<1>3. CASE Tick
  BY <1>3, TickKeeps, ExpiresKeeps, CallbackKeeps, TickEndKeeps DEF Tick
<1>4. CASE UNCHANGED vars
  BY <1>4 DEF vars, IInv, TypeOK, SemaphoresConsistent, Waiters, Resetting,
              Context, BinaryStaysBinary
<1> QED
  BY <1>1, <1>2, <1>3, <1>4, ResumeKeeps, ResetRoundKeeps, AddRoundKeeps,
     LoopEndKeeps DEF Next

\* The invariant holds from chSysInit on.
LEMMA Invariant == Spec => []IInv
  BY InvariantInit, InvariantStep, PTL DEF Spec

\* The variables of the semaphores, the scheduler and the tick handler keep
\* their types.
THEOREM TypeCorrect == Spec => []TypeOK
<1>1. IInv => TypeOK
  BY DEF IInv
<1> QED BY <1>1, Invariant, PTL

\* Whatever the interleaving of waits, signals, resets, timeouts and
\* handlers, every thread is in exactly the list its state calls for.
THEOREM ListsCorrect == Spec => []ListsOK
<1>1. IInv => ListsOK
  <2> SUFFICES ASSUME IInv PROVE ListsOK
    OBVIOUS
  <2>1. ReadyListOK(k) /\ SemLists(k) /\ k.queue \in [Sems -> Seq(Threads)]
    BY KernelParts, SemsAssumption DEF IInv, Good
  <2>2. \A s \in Sems : Range(k.queue[s]) \subseteq Threads
    BY <2>1, InList
  <2>3. QueuesOK(k)
    <3>1. \A s \in Sems : \A t \in Range(k.queue[s]) : k.state[t] \in Blocked
      BY <2>1, <2>2 DEF SemLists, Blocked
    <3>2. ASSUME NEW q \in Sems, NEW r \in Sems, q # r,
                 NEW t \in Range(k.queue[q]), t \in Range(k.queue[r])
          PROVE  FALSE
      <4>1. t \in Threads
        BY <2>2
      <4>2. k.u[t] = q /\ k.u[t] = r
        BY <2>1, <3>2, <4>1 DEF SemLists
      <4> QED BY <3>2, <4>2
    <3>3. \A s \in Sems : NoRepeat(k.queue[s])
      BY <2>1 DEF SemLists
    <3> QED BY <3>1, <3>2, <3>3, SemsAssumption DEF QueuesOK
  <2> QED BY <2>1, <2>3 DEF ListsOK, SemLists
<1> QED BY <1>1, Invariant, PTL

\* The negative counter of a semaphore is the number of threads in its
\* queue: no wake-up is lost, and none is given twice.
THEOREM CountersCorrect == Spec => []SemaphoresConsistent
<1>1. IInv => SemaphoresConsistent
  BY DEF IInv
<1> QED BY <1>1, Invariant, PTL

\* Out of the critical zones, the running thread has the highest priority.
THEOREM PriorityCorrect == Spec => []HighestRuns
<1>1. IInv => HighestRuns
  BY DEF IInv, Context, HighestRuns, Unlocked
<1> QED BY <1>1, Invariant, PTL

\* No timer outlives the call whose stack it lives on, and no call with a
\* timeout loses its timer while it sleeps.
THEOREM TimersCorrect == Spec => []TimersOK
<1>1. IInv => TimersOK
  BY DEF IInv, Calls, Call, TimersOK, Runnable, Blocked
<1> QED BY <1>1, Invariant, PTL

\* A woken thread reads a message from the union, and the right one.
THEOREM MessagesCorrect == Spec => []WakeupMessage
<1>1. IInv => WakeupMessage
  BY DEF IInv, Calls, Call, WakeupMessage, Answers, Runnable
<1> QED BY <1>1, Invariant, PTL

\* A binary semaphore never holds a second unit.
THEOREM BinaryCorrect == Spec => []BinaryStaysBinary
<1>1. IInv => BinaryStaysBinary
  BY DEF IInv
<1> QED BY <1>1, Invariant, PTL
=============================================================================
