------------------------------- MODULE ChSem -------------------------------
(***************************************************************************)
(* Counting and binary semaphores (chsem.c, chbsem.h) over the scheduler,  *)
(* with the timeouts of chSchGoSleepTimeoutS, the system tick and the      *)
(* interrupt handlers that signal and reset semaphores.                    *)
(***************************************************************************)
EXTENDS ChSys

CONSTANTS Sems,       \* the semaphores; each is also the queue it owns
          BinSems,    \* those used through the binary semaphore API
          MaxCnt      \* bound on the counters and on the reset values

ASSUME SemsAssumption == Queues = Sems /\ BinSems \subseteq Sems
ASSUME MaxCntAssumption == MaxCnt \in Nat \ {0}
ASSUME NamesAssumption == Sems \cap Msgs = {}

VARIABLE cnt          \* s_cnt of each semaphore

vars == <<k, cnt, pc, irq, loop>>

Payload == Sems \cup Msgs

\* n is the local counter of the loop; isr tells who called.
Loop == [kind : {"reset", "add"}, s : Sems, n : Int, isr : BOOLEAN]

Init == SysInit /\ cnt \in [Sems -> 0 .. 1]

-----------------------------------------------------------------------------
(* Threads: start, sleep, yield, and the end of a blocking call. *)

chThdCreateStatic(t) == StartThread(t) /\ UNCHANGED cnt
chThdSleep           == SleepThread /\ UNCHANGED cnt
chThdYield           == YieldThread /\ UNCHANGED cnt

\* Mutant: the timer is left armed when the thread is woken by someone else.
Resume_NoVTReset ==
    /\ SwitchedIn
    /\ pc' = [pc EXCEPT ![k.cur] = "run"]
    /\ UNCHANGED <<k, cnt, irq, loop>>

\* The thread switched in returns from chSchGoSleepS or chSchGoSleepTimeoutS,
\* disarms its timer, and unlocks.
Resume ==
    /\ SwitchedIn
    /\ k'  = IF pc[k.cur] = "wait" THEN k ELSE SleepTimeoutEnd(k)
    /\ pc' = [pc EXCEPT ![k.cur] = "run"]
    /\ UNCHANGED <<cnt, irq, loop>>

-----------------------------------------------------------------------------
(* Semaphores: operations of the running thread. *)

\* The running thread enters the queue of s, with the counter decremented.
Enqueue(k1, s) == queue_insert([k1 EXCEPT !.u[k1.cur] = s], k1.cur, s)

chSemWait(s) ==
    /\ InThread
    /\ cnt' = [cnt EXCEPT ![s] = @ - 1]
    /\ \/ /\ cnt'[s] >= 0
          /\ UNCHANGED <<k, pc>>
       \/ /\ cnt'[s] < 0
          /\ k'  = chSchGoSleepS(Enqueue(k, s), "WTSEM")
          /\ pc' = [pc EXCEPT ![k.cur] = "wait"]
    /\ UNCHANGED <<irq, loop>>

\* With no unit left, TIME_IMMEDIATE puts the counter back and returns.
chSemWaitTimeout(s, time) ==
    /\ InThread
    /\ cnt' = IF cnt[s] <= 0 /\ time = TIME_IMMEDIATE
              THEN cnt ELSE [cnt EXCEPT ![s] = @ - 1]
    /\ \/ /\ cnt[s] > 0 \/ time = TIME_IMMEDIATE
          /\ UNCHANGED <<k, pc>>
       \/ /\ cnt[s] <= 0 /\ time = TIME_INFINITE
          /\ k'  = chSchGoSleepS(Enqueue(k, s), "WTSEM")
          /\ pc' = [pc EXCEPT ![k.cur] = "wait"]
       \/ /\ cnt[s] <= 0 /\ time \notin {TIME_IMMEDIATE, TIME_INFINITE}
          /\ k'  = chSchGoSleepTimeoutS(Enqueue(k, s), "WTSEM")
          /\ pc' = [pc EXCEPT ![k.cur] = "timed"]
    /\ UNCHANGED <<irq, loop>>

\* The first waiter of s, if the incremented counter says there is one.
chSemSignalI(k1, s, newcnt) ==
    LET tp == Head(k1.queue[s])
    IN  IF newcnt <= 0
        THEN chSchReadyI([fifo_remove(k1, s) EXCEPT !.u[tp] = RDY_OK], tp)
        ELSE k1

chSemSignal(s) ==
    /\ InThread
    /\ s \notin BinSems
    /\ cnt[s] < MaxCnt
    /\ cnt' = [cnt EXCEPT ![s] = @ + 1]
    /\ k' = IF cnt'[s] <= 0
            THEN chSchWakeupS(fifo_remove(k, s), Head(k.queue[s]), RDY_OK)
            ELSE k
    /\ UNCHANGED <<pc, irq, loop>>

chSemSignalWait(sps, spw) ==
    /\ InThread
    /\ sps \notin BinSems
    /\ cnt[sps] < MaxCnt
    /\ LET c1 == [cnt EXCEPT ![sps] = @ + 1]
           k1 == chSemSignalI(k, sps, c1[sps])
       IN  /\ cnt' = [c1 EXCEPT ![spw] = @ - 1]
           /\ \/ /\ cnt'[spw] < 0
                 /\ k'  = chSchGoSleepS(Enqueue(k1, spw), "WTSEM")
                 /\ pc' = [pc EXCEPT ![k.cur] = "wait"]
              \/ /\ cnt'[spw] >= 0
                 /\ k' = chSchRescheduleS(k1)
                 /\ UNCHANGED pc
    /\ UNCHANGED <<irq, loop>>

\* The loop starts with the old counter; see the rounds below.
chSemReset(s, n) ==
    /\ InThread
    /\ s \in BinSems => n <= 1
    /\ loop' = <<[kind |-> "reset", s |-> s, n |-> cnt[s], isr |-> FALSE]>>
    /\ cnt'  = [cnt EXCEPT ![s] = n]
    /\ UNCHANGED <<k, pc, irq>>

chBSemSignal(s) ==
    /\ InThread
    /\ s \in BinSems
    /\ cnt[s] < 1
    /\ cnt' = [cnt EXCEPT ![s] = @ + 1]
    /\ k' = chSchRescheduleS(chSemSignalI(k, s, cnt'[s]))
    /\ UNCHANGED <<pc, irq, loop>>

-----------------------------------------------------------------------------
(* Semaphores: interrupt handlers. *)

IsrSignal(s) ==
    /\ InIsr
    /\ cnt[s] < IF s \in BinSems THEN 1 ELSE MaxCnt
    /\ cnt' = [cnt EXCEPT ![s] = @ + 1]
    /\ k' = IsrExit(chSemSignalI(k, s, cnt'[s]))
    /\ UNCHANGED <<pc, irq, loop>>

IsrReset(s, n) ==
    /\ InIsr
    /\ s \in BinSems => n <= 1
    /\ loop' = <<[kind |-> "reset", s |-> s, n |-> cnt[s], isr |-> TRUE]>>
    /\ cnt'  = [cnt EXCEPT ![s] = n]
    /\ UNCHANGED <<k, pc, irq>>

IsrAddCounter(s, n) ==
    /\ InIsr
    /\ s \notin BinSems
    /\ n > 0 /\ cnt[s] + n <= MaxCnt
    /\ loop' = <<[kind |-> "add", s |-> s, n |-> n, isr |-> TRUE]>>
    /\ UNCHANGED <<k, cnt, pc, irq>>

-----------------------------------------------------------------------------
(* The loops of chSemResetI and chSemAddCounterI, and their ends. *)

\* Mutant: the released threads are not told of the reset.
chSemResetI_NoMessage ==
    /\ loop # <<>>
    /\ loop[1].kind = "reset"
    /\ loop[1].n + 1 <= 0
    /\ LET s == loop[1].s
       IN  k' = chSchReadyI(lifo_remove(k, s), LastOf(k.queue[s]))
    /\ loop' = [loop EXCEPT ![1].n = @ + 1]
    /\ UNCHANGED <<cnt, pc, irq>>

chSemResetI ==
    /\ loop # <<>>
    /\ loop[1].kind = "reset"
    /\ loop[1].n + 1 <= 0
    /\ LET s  == loop[1].s
           tp == LastOf(k.queue[s])
       IN  k' = [chSchReadyI(lifo_remove(k, s), tp) EXCEPT !.u[tp] = RDY_RESET]
    /\ loop' = [loop EXCEPT ![1].n = @ + 1]
    /\ UNCHANGED <<cnt, pc, irq>>

chSemAddCounterI ==
    /\ loop # <<>>
    /\ loop[1].kind = "add"
    /\ loop[1].n > 0
    /\ LET s == loop[1].s
       IN  /\ cnt' = [cnt EXCEPT ![s] = @ + 1]
           /\ k' = chSemSignalI(k, s, cnt'[s])
    /\ loop' = [loop EXCEPT ![1].n = @ - 1]
    /\ UNCHANGED <<pc, irq>>

\* Mutant: chSemReset unlocks without rescheduling.
LoopEnd_NoReschedule ==
    /\ loop # <<>>
    /\ IF loop[1].kind = "reset" THEN loop[1].n + 1 > 0 ELSE loop[1].n = 0
    /\ k' = IF loop[1].isr THEN IsrExit(k) ELSE k
    /\ loop' = <<>>
    /\ UNCHANGED <<cnt, pc, irq>>

LoopEnd ==
    /\ loop # <<>>
    /\ IF loop[1].kind = "reset" THEN loop[1].n + 1 > 0 ELSE loop[1].n = 0
    /\ k' = IF loop[1].isr THEN IsrExit(k) ELSE chSchRescheduleS(k)
    /\ loop' = <<>>
    /\ UNCHANGED <<cnt, pc, irq>>

-----------------------------------------------------------------------------
(* The system tick. *)

SysTick         == EnterTick /\ UNCHANGED cnt
TimerExpires(t) == TakeTimer(t) /\ UNCHANGED cnt
SysTickEnd      == LeaveTick /\ UNCHANGED cnt

\* Mutant: the counter is not given back (no chSemFastSignalI).
TimeoutCallback_NoCount == CallTimer /\ UNCHANGED cnt

TimeoutCallback ==
    /\ CallTimer
    /\ cnt' = IF k.state[irq] = "WTSEM"
              THEN [cnt EXCEPT ![k.u[irq]] = @ + 1]
              ELSE cnt

-----------------------------------------------------------------------------
Thread ==
    \/ \E t \in Threads : chThdCreateStatic(t)
    \/ chThdSleep
    \/ chThdYield
    \/ \E s \in Sems : chSemWait(s)
    \/ \E s \in Sems, time \in Times : chSemWaitTimeout(s, time)
    \/ \E s \in Sems : chSemSignal(s)
    \/ \E s, w \in Sems : chSemSignalWait(s, w)
    \/ \E s \in Sems, n \in 0 .. MaxCnt : chSemReset(s, n)
    \/ \E s \in Sems : chBSemSignal(s)

Handler ==
    \/ \E s \in Sems : IsrSignal(s)
    \/ \E s \in Sems, n \in 0 .. MaxCnt : IsrReset(s, n)
    \/ \E s \in Sems, n \in 1 .. MaxCnt : IsrAddCounter(s, n)

Tick ==
    \/ SysTick
    \/ \E t \in Threads : TimerExpires(t)
    \/ TimeoutCallback
    \/ SysTickEnd

Next ==
    \/ Thread
    \/ Handler
    \/ Tick
    \/ Resume
    \/ chSemResetI
    \/ chSemAddCounterI
    \/ LoopEnd

Spec == Init /\ [][Next]_vars

\* The hardware serves a pending tick sooner or later, an armed timer reaches
\* its deadline, and whoever holds the lock goes on.  Nothing is assumed of
\* the threads: a thread may keep the processor for as long as it likes.
Fairness ==
    /\ SF_vars(SysTick) /\ WF_vars(SysTickEnd) /\ SF_vars(TimeoutCallback)
    /\ \A t \in Threads : SF_vars(TimerExpires(t))
    /\ WF_vars(Resume) /\ WF_vars(LoopEnd)
    /\ WF_vars(chSemResetI) /\ WF_vars(chSemAddCounterI)

-----------------------------------------------------------------------------
(* Properties. *)

TypeOK ==
    /\ k \in Kernel(Payload)
    /\ cnt \in [Sems -> Int]
    /\ pc \in [Threads -> {"run", "wait", "timed", "sleep"}]
    /\ irq \in {"none", "tick"} \cup Threads
    /\ loop \in Seq(Loop) /\ Len(loop) <= 1

\* Every thread is in exactly the list its state calls for: the ready list
\* is sorted and complete, and the queue of a semaphore holds exactly the
\* threads that wait for it.  A thread has one pair of links, so a wake-up
\* that forgets to unlink, or happens twice, corrupts both lists.
ListsOK ==
    /\ ReadyListOK(k)
    /\ QueuesOK(k)
    /\ \A t \in Threads, s \in Sems :
           t \in Range(k.queue[s]) <=> k.state[t] = "WTSEM" /\ k.u[t] = s

\* chDbgAssert "inconsistent semaphore" of every function of chsem.c, with
\* the number of waiters: a negative counter counts the queue.  A reset under
\* way has already replaced the counter and keeps the old one in its loop.
Resetting(s) == loop # <<>> /\ loop[1].kind = "reset" /\ loop[1].s = s
Waiters(s)   == IF Resetting(s) THEN loop[1].n ELSE cnt[s]
SemaphoresConsistent ==
    \A s \in Sems : Len(k.queue[s]) = IF Waiters(s) < 0 THEN -Waiters(s) ELSE 0

\* Whenever no critical zone is open and no handler is active, no ready
\* thread has a higher priority than the running one: every path out of the
\* kernel has rescheduled.
HighestRuns == Unlocked => Highest(k)

\* The timer of chSchGoSleepTimeoutS lives on the stack of its thread: it is
\* in the list of the timers, or on its way to the callback, only while the
\* thread is inside that call.  And a call with a timeout that still sleeps
\* has its timer there: its timeout cannot be lost to a race.
TimersOK ==
    \A t \in Threads :
        /\ t \in k.armed \/ irq = t => pc[t] \in {"timed", "sleep"}
        /\ pc[t] \in {"timed", "sleep"} /\ k.state[t] \in Blocked
               => t \in k.armed \/ irq = t

\* p_u is a union: while a thread waits it holds the object, and when the
\* thread runs again the return value is read from the same place.  A thread
\* that has been woken finds a message there, and RDY_TIMEOUT only if its
\* call had a timeout.
WakeupMessage ==
    \A t \in Threads :
        k.state[t] \in {"READY", "CURRENT"} /\ pc[t] # "run" =>
            k.u[t] \in IF pc[t] = "wait" THEN {RDY_OK, RDY_RESET}
                       ELSE IF pc[t] = "sleep" THEN {RDY_TIMEOUT}
                       ELSE Msgs

\* chBSemSignalI gives no second unit: a binary semaphore is taken or not.
BinaryStaysBinary == \A s \in BinSems : cnt[s] <= 1

\* The abstract state of AbsSem.  A reset under way is already over there.
SemState ==
    [value   |-> [s \in Sems |-> IF cnt[s] > 0 THEN cnt[s] ELSE 0],
     waiting |-> [s \in Sems |-> IF Resetting(s) THEN <<>> ELSE k.queue[s]],
     outcome |-> [t \in Threads |->
         IF k.state[t] = "WTSEM"
         THEN IF Resetting(k.u[t]) THEN RDY_RESET ELSE "waiting"
         ELSE IF pc[t] \in {"wait", "timed"} THEN k.u[t] ELSE "none"]]

\* The semaphores do what AbsSem promises: first come first served, one unit
\* one wake-up, a timeout that removes the caller and nothing else, a reset
\* that releases everybody as one step, and the message that tells which.
Abs == INSTANCE AbsSem WITH sem <- SemState
ImplementsAbsSem == Abs!Spec

\* A call with a timeout is not left asleep, whatever the other threads and
\* the handlers do to the same semaphore.
TimeoutsArrive ==
    \A t \in Threads :
        pc[t] \in {"timed", "sleep"} ~> k.state[t] \in {"READY", "CURRENT"}

\* Among the threads of the highest priority the processor goes round: a ready
\* thread none outranks is given it, whoever has it now.
RoundRobin ==
    \A t \in Threads :
        k.state[t] = "READY" /\ k.prio[t] = k.prio[k.cur]
            ~> k.cur = t \/ k.prio[k.cur] > k.prio[t]
=============================================================================
