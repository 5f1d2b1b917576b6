------------------------------ MODULE ChSched ------------------------------
(***************************************************************************)
(* The scheduler of the kernel (chschd.c): the ready list, the running     *)
(* thread, and the functions every other part of the kernel blocks and     *)
(* wakes threads with.                                                     *)
(*                                                                         *)
(* The kernel is one record k, and each S-class or I-class function of the *)
(* code (called with the kernel locked) is an operator from k to the k it  *)
(* leaves behind, under the name it has in the code.  The components       *)
(* (semaphores, mutexes, ...) compose these operators into their actions.  *)
(*                                                                         *)
(*   cur      rlist.r_current          queue    the ThreadsQueue of each   *)
(*   ready    rlist.r_queue                     synchronization object     *)
(*   state    p_state                  u        the union p_u (rdymsg,     *)
(*   prio     p_prio                            wtobjp, exitcode)          *)
(*   preempt  p_preempt                armed    threads whose sleep timer  *)
(*                                              is in the timers' list     *)
(*                                                                         *)
(* A doubly linked list is the sequence of its threads.  A thread has one  *)
(* pair of links (p_next, p_prev), hence may be in one list at a time.     *)
(***************************************************************************)
EXTENDS Integers, Sequences, FiniteSetsExt

CONSTANTS Threads,    \* every thread of the system
          Idle,       \* the idle thread, which never sleeps
          Queues,     \* the synchronization objects that hold a ThreadsQueue
          Quantum     \* CH_TIME_QUANTUM

ASSUME IdleAssumption == Idle \in Threads
ASSUME QuantumAssumption == Quantum \in Nat \ {0}

RDY_OK      == "RDY_OK"
RDY_TIMEOUT == "RDY_TIMEOUT"
RDY_RESET   == "RDY_RESET"
Msgs        == {RDY_OK, RDY_TIMEOUT, RDY_RESET}

NOPRIO   == 0
IDLEPRIO == 1

\* The states of chthreads.h in which a thread waits for something.
Blocked == {"SUSPENDED", "WTSEM", "WTMTX", "WTCOND", "SLEEPING", "WTEXIT",
            "WTOREVT", "WTANDEVT", "SNDMSGQ", "SNDMSG", "WTMSG", "WTQUEUE"}
States  == Blocked \cup {"READY", "CURRENT", "FINAL"}

-----------------------------------------------------------------------------
(* Thread lists (chinline.h). *)

\* Where the walk from the head stops: at the first thread whose priority is
\* below p, or at the list header.
FirstBelow(q, prio, p) ==
    Min({i \in 1 .. Len(q) + 1 : i <= Len(q) => prio[q[i]] < p})

\* Insertion on p_prev of the thread at place i.
LinkBefore(q, i, tp) == SubSeq(q, 1, i - 1) \o <<tp>> \o SubSeq(q, i, Len(q))

prio_insert(q, prio, tp) == LinkBefore(q, FirstBelow(q, prio, prio[tp]), tp)

\* Unlinking a thread takes it out of whatever list it is in.
CutAt(q, i)    == SubSeq(q, 1, i - 1) \o SubSeq(q, i + 1, Len(q))
IndexOf(q, tp) == CHOOSE i \in DOMAIN q : q[i] = tp
Unlink(q, tp)  == IF tp \in Range(q) THEN CutAt(q, IndexOf(q, tp)) ELSE q

LastOf(q)  == q[Len(q)]
ButLast(q) == SubSeq(q, 1, Len(q) - 1)

dequeue(k, tp) == [k EXCEPT !.queue = [q \in Queues |-> Unlink(@[q], tp)]]

\* Mutant: the newcomer goes to the head of the queue.
queue_insert_AtHead(k, tp, q) == [k EXCEPT !.queue[q] = <<tp>> \o @]

queue_insert(k, tp, q) == [k EXCEPT !.queue[q] = Append(@, tp)]
fifo_remove(k, q)      == [k EXCEPT !.queue[q] = Tail(@)]
lifo_remove(k, q)      == [k EXCEPT !.queue[q] = ButLast(@)]

-----------------------------------------------------------------------------
(* Making threads ready, sleeping, and switching (chschd.c, chschd.h). *)

firstprio(k) == IF k.ready = <<>> THEN NOPRIO ELSE k.prio[Head(k.ready)]

chSchReadyI(k, tp) ==
    [k EXCEPT !.state[tp] = "READY",
              !.ready = prio_insert(@, k.prio, tp)]

\* The first thread of the ready list becomes the running one.
PickFirst(k) ==
    [k EXCEPT !.cur = Head(k.ready),
              !.state[Head(k.ready)] = "CURRENT",
              !.ready = Tail(@)]

chSchGoSleepS(k, newstate) ==
    PickFirst([k EXCEPT !.state[k.cur] = newstate,
                        !.preempt[k.cur] = Quantum])

\* A sleep with a timeout; SleepTimeoutEnd is what the thread does when it
\* runs again, before it releases the kernel lock.
chSchGoSleepTimeoutS(k, newstate) ==
    chSchGoSleepS([k EXCEPT !.armed = @ \cup {k.cur}], newstate)
SleepTimeoutEnd(k) == [k EXCEPT !.armed = @ \ {k.cur}]

\* Mutant: the thread is made ready while it is still in the queue.
wakeup_NoDequeue(k, tp) ==
    IF k.state[tp] = "READY" THEN k
    ELSE chSchReadyI([k EXCEPT !.u[tp] = RDY_TIMEOUT], tp)

\* The timeout callback.  The counter of a semaphore is the caller's matter.
wakeup(k, tp) ==
    LET k1 == IF k.state[tp] \in {"WTSEM", "WTQUEUE", "WTCOND"}
              THEN dequeue(k, tp) ELSE k
    IN  IF k.state[tp] = "READY"
        THEN k
        ELSE chSchReadyI([k1 EXCEPT !.u[tp] = RDY_TIMEOUT], tp)

chSchWakeupS(k, ntp, msg) ==
    LET k1 == [k EXCEPT !.u[ntp] = msg]
    IN  IF k.prio[ntp] <= k.prio[k.cur]
        THEN chSchReadyI(k1, ntp)
        ELSE [chSchReadyI(k1, k.cur) EXCEPT !.cur = ntp,
                                            !.state[ntp] = "CURRENT"]

chSchDoRescheduleBehind(k) ==
    chSchReadyI([PickFirst(k) EXCEPT !.preempt[k.cur] = Quantum], k.cur)

chSchDoRescheduleAhead(k) ==
    LET k1 == PickFirst(k)
        at == FirstBelow(k1.ready, k.prio, k.prio[k.cur] + 1)
    IN  [k1 EXCEPT !.state[k.cur] = "READY",
                   !.ready = LinkBefore(@, at, k.cur)]

chSchRescheduleS(k) ==
    IF firstprio(k) > k.prio[k.cur] THEN chSchDoRescheduleAhead(k) ELSE k

chSchDoYieldS(k) ==
    IF firstprio(k) >= k.prio[k.cur] THEN chSchDoRescheduleBehind(k) ELSE k

-----------------------------------------------------------------------------
(* What an interrupt handler does on its way out (chcore_v7m.c). *)

chSchIsPreemptionRequired(k) ==
    IF k.preempt[k.cur] > 0 THEN firstprio(k) >  k.prio[k.cur]
                            ELSE firstprio(k) >= k.prio[k.cur]

chSchDoReschedule(k) ==
    IF k.preempt[k.cur] = 0 THEN chSchDoRescheduleBehind(k)
                            ELSE chSchDoRescheduleAhead(k)

_port_irq_epilogue(k) ==
    IF chSchIsPreemptionRequired(k) THEN chSchDoReschedule(k) ELSE k

\* Mutant: the quantum is decremented past zero.
ChargeTick_NoTest(k) == [k EXCEPT !.preempt[k.cur] = @ - 1]

\* The part of chSysTimerHandlerI that charges the tick to the running thread.
ChargeTick(k) ==
    [k EXCEPT !.preempt[k.cur] = IF @ > 0 THEN @ - 1 ELSE @]

-----------------------------------------------------------------------------
(* Well-formedness of the kernel record, shared by the components.         *)

Kernel(Payload) ==
    [cur : Threads, ready : Seq(Threads), state : [Threads -> States],
     prio : [Threads -> Nat], preempt : [Threads -> 0 .. Quantum],
     queue : [Queues -> Seq(Threads)], u : [Threads -> Payload],
     armed : SUBSET Threads]

\* A list never holds a thread twice.
NoRepeat(q) == \A i, j \in DOMAIN q : q[i] = q[j] => i = j

\* The ready list holds the READY threads, each once, in falling priority;
\* the running thread, and no other, is CURRENT.
ReadyListOK(k) ==
    /\ NoRepeat(k.ready)
    /\ \A t \in Threads : k.state[t] = "READY" <=> t \in Range(k.ready)
    /\ \A t \in Threads : k.state[t] = "CURRENT" <=> t = k.cur
    /\ \A i, j \in DOMAIN k.ready :
           i < j => k.prio[k.ready[i]] >= k.prio[k.ready[j]]

\* No ready thread outranks the running one.
Highest(k) == firstprio(k) <= k.prio[k.cur]

\* A thread that waits in the queue of an object is in that queue only, once,
\* and is not ready, running or terminated.
QueuesOK(k) ==
    /\ \A q \in Queues : NoRepeat(k.queue[q])
    /\ \A q \in Queues : \A t \in Range(k.queue[q]) : k.state[t] \in Blocked
    /\ \A q, r \in Queues :
           q # r => Range(k.queue[q]) \cap Range(k.queue[r]) = {}

\* There is always a thread to run: the idle thread is ready or running, and
\* has the lowest priority, above that of the list header.
IdleOK(k) ==
    /\ k.state[Idle] \in {"READY", "CURRENT"}
    /\ k.prio[Idle] = IDLEPRIO
    /\ \A t \in Threads \ {Idle} : k.prio[t] > k.prio[Idle]
=============================================================================
