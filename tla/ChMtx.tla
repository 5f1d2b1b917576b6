------------------------------- MODULE ChMtx -------------------------------
(***************************************************************************)
(* Mutexes with priority inheritance (chmtx.c) and condition variables     *)
(* (chcond.c), with the changes of priority of chThdSetPriority.           *)
(*                                                                         *)
(* A mutex m is its owner and its ThreadsQueue; a thread has a stack of    *)
(* owned mutexes (p_mtxlist, linked by m_next) and beside its priority the *)
(* one it has without inheritance (p_realprio).  The loops of chMtxLockS   *)
(* (the walk along the owners), chMtxUnlockAll and chCondBroadcastI run    *)
(* one round at a time, inside their critical zone.                        *)
(***************************************************************************)
EXTENDS ChSys, FiniteSets

CONSTANTS Mutexes, Conds,  \* each is also the queue it owns
          None,            \* the null pointer
          Prios            \* the priorities chThdSetPriority is called with

ASSUME ObjectsAssumption ==
    /\ Queues = Mutexes \cup Conds
    /\ Mutexes \cap Conds = {}
    /\ Queues \cap Msgs = {}
    /\ None \notin Threads \cup Queues
ASSUME PriosAssumption == Prios \subseteq Nat /\ \A p \in Prios : p > IDLEPRIO

VARIABLES owner,     \* m_owner of each mutex
          mtxlist,   \* p_mtxlist: the mutexes a thread owns, last taken first
          realprio,  \* p_realprio
          mp         \* the local mp of a call of chMtxLockS or chCondWaitS

vars == <<k, pc, irq, loop, owner, mtxlist, realprio, mp>>
own  == <<owner, mtxlist, realprio, mp>>

Payload == Queues \cup Msgs

\* boost: chMtxLockS on obj, at the owner tp, or out of the loop (tp = None);
\* unlock: chMtxUnlockAll; broadcast: chCondBroadcastI on obj.
Loop == [kind : {"boost", "unlock", "broadcast"}, obj : Queues \cup {None},
         tp : Threads \cup {None}, isr : BOOLEAN]

Init ==
    /\ SysInit
    /\ owner = [m \in Mutexes |-> None]
    /\ mtxlist = [t \in Threads |-> <<>>]
    /\ realprio = BasePrio
    /\ mp = [t \in Threads |-> None]

InLoop(kind) == loop # <<>> /\ loop[1].kind = kind

-----------------------------------------------------------------------------
(* Locking. *)

\* The running thread tp becomes the owner of m and m the top of its stack.
Take(m, tp) ==
    /\ owner'   = [owner EXCEPT ![m] = tp]
    /\ mtxlist' = [mtxlist EXCEPT ![tp] = <<m>> \o @]

\* chMtxLockS up to its loop.
chMtxLockS(m) ==
    \/ /\ owner[m] = None
       /\ Take(m, k.cur)
       /\ UNCHANGED loop
    \/ /\ owner[m] # None
       /\ loop' = <<[kind |-> "boost", obj |-> m, tp |-> owner[m],
                     isr |-> FALSE]>>
       /\ UNCHANGED <<owner, mtxlist>>

chMtxLock(m) ==
    /\ InThread
    /\ chMtxLockS(m)
    /\ UNCHANGED <<k, pc, irq, realprio, mp>>

chMtxTryLock(m) ==
    /\ InThread
    /\ owner[m] = None
    /\ Take(m, k.cur)
    /\ UNCHANGED <<k, pc, irq, loop, realprio, mp>>

\* prio_insert(dequeue(tp), wtobjp), after the priority has been raised.
Requeue(k1, tp) ==
    [k1 EXCEPT !.queue[k1.u[tp]] = prio_insert(Unlink(@, tp), k1.prio, tp)]

\* Mutant: the waiting owner keeps its place in the queue it waits in.
Boost_NoRequeue ==
    /\ InLoop("boost")
    /\ LET tp == loop[1].tp
           k1 == [k EXCEPT !.prio[tp] = k.prio[k.cur]]
       IN  /\ tp # None
           /\ k.prio[tp] < k.prio[k.cur]
           /\ k' = IF k.state[tp] = "READY"
                   THEN chSchReadyI([k1 EXCEPT !.ready = Unlink(@, tp)], tp)
                   ELSE k1
           /\ loop' = [loop EXCEPT ![1].tp = IF k.state[tp] = "WTMTX"
                                             THEN owner[k.u[tp]] ELSE None]
    /\ UNCHANGED <<pc, irq, own>>

\* Mutant: only the owner of the mutex is raised, not who holds it up.
Boost_DirectOnly ==
    /\ InLoop("boost")
    /\ LET tp == loop[1].tp
           k1 == [k EXCEPT !.prio[tp] = k.prio[k.cur]]
       IN  /\ tp # None
           /\ k.prio[tp] < k.prio[k.cur]
           /\ k' = IF k.state[tp] = "READY"
                   THEN chSchReadyI([k1 EXCEPT !.ready = Unlink(@, tp)], tp)
                   ELSE IF k.state[tp] \in {"WTMTX", "WTCOND"}
                   THEN Requeue(k1, tp) ELSE k1
           /\ loop' = [loop EXCEPT ![1].tp = None]
    /\ UNCHANGED <<pc, irq, own>>

\* One round of the walk: the owner tp takes the priority of the running
\* thread, and its place in the list it is in.
Boost ==
    /\ InLoop("boost")
    /\ LET tp == loop[1].tp
           k1 == [k EXCEPT !.prio[tp] = k.prio[k.cur]]
       IN  /\ tp # None
           /\ k.prio[tp] < k.prio[k.cur]
           /\ \/ /\ k.state[tp] = "WTMTX"
                 /\ k' = Requeue(k1, tp)
                 /\ loop' = [loop EXCEPT ![1].tp = owner[k.u[tp]]]
              \/ /\ k.state[tp] = "WTCOND"
                 /\ k' = Requeue(k1, tp)
                 /\ loop' = [loop EXCEPT ![1].tp = None]
              \/ /\ k.state[tp] = "READY"
                 /\ k' = chSchReadyI([k1 EXCEPT !.ready = Unlink(@, tp)], tp)
                 /\ loop' = [loop EXCEPT ![1].tp = None]
              \/ /\ k.state[tp] \notin {"WTMTX", "WTCOND", "READY"}
                 /\ k' = k1
                 /\ loop' = [loop EXCEPT ![1].tp = None]
    /\ UNCHANGED <<pc, irq, own>>

\* The running thread enters the queue of obj and sleeps there.
Enqueue(k1, obj) ==
    [k1 EXCEPT !.u[k1.cur] = obj,
               !.queue[obj] = prio_insert(@, k1.prio, k1.cur)]

\* The walk is over; the thread sleeps on the mutex.
BoostEnd ==
    /\ InLoop("boost")
    /\ LET tp == loop[1].tp IN tp # None => k.prio[tp] >= k.prio[k.cur]
    /\ k' = chSchGoSleepS(Enqueue(k, loop[1].obj), "WTMTX")
    /\ pc' = [pc EXCEPT ![k.cur] = "lock"]
    /\ mp' = [mp EXCEPT ![k.cur] = loop[1].obj]
    /\ loop' = <<>>
    /\ UNCHANGED <<irq, owner, mtxlist, realprio>>

-----------------------------------------------------------------------------
(* Unlocking. *)

\* Mutant: the mutex is not put on the stack of its new owner.
HandOver_NoPush(m) ==
    LET q == k.queue[m]
    IN  /\ owner'   = [owner EXCEPT ![m] = IF q = <<>> THEN None ELSE Head(q)]
        /\ mtxlist' = [mtxlist EXCEPT ![k.cur] = Tail(@)]

\* The top mutex of the running thread goes to its first waiter, if any.
HandOver(m) ==
    LET q    == k.queue[m]
        mine == [mtxlist EXCEPT ![k.cur] = Tail(@)]
    IN  /\ owner'   = [owner EXCEPT ![m] = IF q = <<>> THEN None ELSE Head(q)]
        /\ mtxlist' = IF q = <<>> THEN mine
                      ELSE [mine EXCEPT ![Head(q)] = <<m>> \o @]

\* The priority the running thread is left with: its own, or that of the
\* first waiter of a mutex it still owns, if higher.
NewPrio(others) ==
    Max({realprio[k.cur]} \cup
        {k.prio[Head(k.queue[m])] : m \in {n \in others : k.queue[n] # <<>>}})

\* chMtxUnlock and chMtxUnlockS up to the wake-up of the new owner.
UnlockTop(m) ==
    [fifo_remove(k, m) EXCEPT
        !.prio[k.cur] = NewPrio(Range(Tail(mtxlist[k.cur])))]

chMtxUnlockS(m) ==
    IF k.queue[m] = <<>> THEN k ELSE chSchReadyI(UnlockTop(m), Head(k.queue[m]))

chMtxUnlock ==
    /\ InThread
    /\ mtxlist[k.cur] # <<>>
    /\ LET m == Head(mtxlist[k.cur])
       IN  /\ HandOver(m)
           /\ k' = IF k.queue[m] = <<>> THEN k
                   ELSE chSchWakeupS(UnlockTop(m), Head(k.queue[m]), RDY_OK)
    /\ UNCHANGED <<pc, irq, loop, realprio, mp>>

chMtxUnlockAll ==
    /\ InThread
    /\ mtxlist[k.cur] # <<>>
    /\ loop' = <<[kind |-> "unlock", obj |-> None, tp |-> None,
                  isr |-> FALSE]>>
    /\ UNCHANGED <<k, pc, irq, own>>

UnlockRound ==
    /\ InLoop("unlock")
    /\ mtxlist[k.cur] # <<>>
    /\ LET m == Head(mtxlist[k.cur])
       IN  /\ HandOver(m)
           /\ k' = IF k.queue[m] = <<>> THEN k
                   ELSE chSchReadyI(fifo_remove(k, m), Head(k.queue[m]))
    /\ UNCHANGED <<pc, irq, loop, realprio, mp>>

UnlockAllEnd ==
    /\ InLoop("unlock")
    /\ mtxlist[k.cur] = <<>>
    /\ k' = chSchRescheduleS([k EXCEPT !.prio[k.cur] = realprio[k.cur]])
    /\ loop' = <<>>
    /\ UNCHANGED <<pc, irq, own>>

-----------------------------------------------------------------------------
(* Condition variables. *)

\* The top mutex is released, and the thread sleeps on c in the same
\* critical zone; chCondWait is the same call with no timeout.
chCondWaitTimeout(c, time) ==
    /\ InThread
    /\ mtxlist[k.cur] # <<>>
    /\ LET m  == Head(mtxlist[k.cur])
           k1 == Enqueue(chMtxUnlockS(m), c)
       IN  /\ HandOver(m)
           /\ mp' = [mp EXCEPT ![k.cur] = m]
           /\ \/ /\ time = TIME_INFINITE
                 /\ k'  = chSchGoSleepS(k1, "WTCOND")
                 /\ pc' = [pc EXCEPT ![k.cur] = "cond"]
              \/ /\ time = "finite"
                 /\ k'  = chSchGoSleepTimeoutS(k1, "WTCOND")
                 /\ pc' = [pc EXCEPT ![k.cur] = "timed"]
    /\ UNCHANGED <<irq, loop, realprio>>

chCondSignal(c) ==
    /\ InThread
    /\ k.queue[c] # <<>>
    /\ k' = chSchWakeupS(fifo_remove(k, c), Head(k.queue[c]), RDY_OK)
    /\ UNCHANGED <<pc, irq, loop, own>>

\* The first waiter of c becomes ready with a message.
ReadyFirst(c, msg) ==
    LET tp == Head(k.queue[c])
    IN  [chSchReadyI(fifo_remove(k, c), tp) EXCEPT !.u[tp] = msg]

chCondSignalI(c) ==
    /\ InIsr
    /\ k.queue[c] # <<>>
    /\ k' = IsrExit(ReadyFirst(c, RDY_OK))
    /\ UNCHANGED <<pc, irq, loop, own>>

chCondBroadcast(c) ==
    /\ InThread
    /\ loop' = <<[kind |-> "broadcast", obj |-> c, tp |-> None,
                  isr |-> FALSE]>>
    /\ UNCHANGED <<k, pc, irq, own>>

IsrBroadcast(c) ==
    /\ InIsr
    /\ loop' = <<[kind |-> "broadcast", obj |-> c, tp |-> None,
                  isr |-> TRUE]>>
    /\ UNCHANGED <<k, pc, irq, own>>

chCondBroadcastI ==
    /\ InLoop("broadcast")
    /\ k.queue[loop[1].obj] # <<>>
    /\ k' = ReadyFirst(loop[1].obj, RDY_RESET)
    /\ UNCHANGED <<pc, irq, loop, own>>

BroadcastEnd ==
    /\ InLoop("broadcast")
    /\ k.queue[loop[1].obj] = <<>>
    /\ k' = IF loop[1].isr THEN IsrExit(k) ELSE chSchRescheduleS(k)
    /\ loop' = <<>>
    /\ UNCHANGED <<pc, irq, own>>

-----------------------------------------------------------------------------
(* A thread switched in: the end of chMtxLockS, of a sleep, and what        *)
(* follows the sleep in the waits on a condition variable.                  *)

LockEnd ==
    /\ SwitchedIn
    /\ pc[k.cur] = "lock"
    /\ pc' = [pc EXCEPT ![k.cur] = "run"]
    /\ mp' = [mp EXCEPT ![k.cur] = None]
    /\ UNCHANGED <<k, irq, loop, owner, mtxlist, realprio>>

SleepEnd ==
    /\ SwitchedIn
    /\ pc[k.cur] = "sleep"
    /\ k'  = SleepTimeoutEnd(k)
    /\ pc' = [pc EXCEPT ![k.cur] = "run"]
    /\ UNCHANGED <<irq, loop, own>>

\* The mutex is taken again unless the wait timed out.
CondWaitEnd ==
    /\ SwitchedIn
    /\ pc[k.cur] \in {"cond", "timed"}
    /\ k' = IF pc[k.cur] = "timed" THEN SleepTimeoutEnd(k) ELSE k
    /\ IF pc[k.cur] = "timed" /\ k.u[k.cur] = RDY_TIMEOUT
       THEN UNCHANGED <<loop, owner, mtxlist>>
       ELSE chMtxLockS(mp[k.cur])
    /\ pc' = [pc EXCEPT ![k.cur] = "run"]
    /\ mp' = [mp EXCEPT ![k.cur] = None]
    /\ UNCHANGED <<irq, realprio>>

-----------------------------------------------------------------------------
(* Threads and the tick. *)

chThdSetPriority(newprio) ==
    /\ InThread
    /\ LET p  == k.prio[k.cur]
           k1 == IF p = realprio[k.cur] \/ newprio > p
                 THEN [k EXCEPT !.prio[k.cur] = newprio] ELSE k
       IN  k' = chSchRescheduleS(k1)
    /\ realprio' = [realprio EXCEPT ![k.cur] = newprio]
    /\ UNCHANGED <<pc, irq, loop, owner, mtxlist, mp>>

chThdCreateStatic(t) == StartThread(t) /\ UNCHANGED own
chThdSleep           == SleepThread /\ UNCHANGED own
SysTick              == EnterTick /\ UNCHANGED own
TimerExpires(t)      == TakeTimer(t) /\ UNCHANGED own
TimeoutCallback      == CallTimer /\ UNCHANGED own
SysTickEnd           == LeaveTick /\ UNCHANGED own

Thread ==
    \/ \E t \in Threads : chThdCreateStatic(t)
    \/ chThdSleep
    \/ \E p \in Prios : chThdSetPriority(p)
    \/ \E m \in Mutexes : chMtxLock(m) \/ chMtxTryLock(m)
    \/ chMtxUnlock
    \/ chMtxUnlockAll
    \/ \E c \in Conds, time \in Times : chCondWaitTimeout(c, time)
    \/ \E c \in Conds : chCondSignal(c) \/ chCondBroadcast(c)

Locked ==
    \/ Boost \/ BoostEnd
    \/ UnlockRound \/ UnlockAllEnd
    \/ chCondBroadcastI \/ BroadcastEnd
    \/ LockEnd \/ SleepEnd \/ CondWaitEnd

Handler ==
    \/ \E c \in Conds : chCondSignalI(c) \/ IsrBroadcast(c)
    \/ SysTick
    \/ \E t \in Threads : TimerExpires(t)
    \/ TimeoutCallback
    \/ SysTickEnd

Next == Thread \/ Locked \/ Handler

-----------------------------------------------------------------------------
(* Properties. *)

TypeOK ==
    /\ k \in Kernel(Payload)
    /\ pc \in [Threads -> {"run", "lock", "sleep", "cond", "timed"}]
    /\ irq \in {"none", "tick"} \cup Threads
    /\ loop \in Seq(Loop) /\ Len(loop) <= 1
    /\ owner \in [Mutexes -> Threads \cup {None}]
    /\ mtxlist \in [Threads -> Seq(Mutexes)]
    /\ realprio \in [Threads -> Nat]
    /\ mp \in [Threads -> Mutexes \cup {None}]

\* Every thread is in exactly the list its state calls for, and the queues of
\* mutexes and condition variables are sorted by priority, although the
\* priority of a thread changes while it waits in one: first come is not first
\* served, the first is always a waiter of the highest priority.
ListsOK ==
    /\ ReadyListOK(k)
    /\ QueuesOK(k)
    /\ \A t \in Threads, q \in Queues :
           t \in Range(k.queue[q])
               <=> k.state[t] \in {"WTMTX", "WTCOND"} /\ k.u[t] = q
    /\ \A q \in Queues : \A i, j \in DOMAIN k.queue[q] :
           i < j => k.prio[k.queue[q][i]] >= k.prio[k.queue[q][j]]

\* The owner a mutex names has it in its stack, once, and nobody else has; a
\* mutex somebody waits for has an owner; and a thread woken inside
\* chMtxLockS finds what chDbgAssert says there, "not owner" and "not owned":
\* it owns the mutex it waited for, and that mutex is on top of its stack.
OwnershipOK ==
    /\ \A m \in Mutexes, t \in Threads :
           owner[m] = t <=> m \in Range(mtxlist[t])
    /\ \A t \in Threads : NoRepeat(mtxlist[t])
    /\ \A m \in Mutexes : k.queue[m] # <<>> => owner[m] # None
    /\ \A t \in Threads :
           pc[t] = "lock" /\ k.state[t] # "WTMTX" =>
               mtxlist[t] # <<>> /\ Head(mtxlist[t]) = mp[t]

\* Whenever no critical zone is open and no handler is active, no ready
\* thread has a higher priority than the running one, whatever has been
\* inherited, given back or set.
HighestRuns == Unlocked => Highest(k)

\* A sleep timer is armed only while its thread is inside the timed call, and
\* a timed call that still sleeps has its timer.
TimersOK ==
    \A t \in Threads :
        /\ t \in k.armed \/ irq = t => pc[t] \in {"timed", "sleep"}
        /\ pc[t] \in {"timed", "sleep"} /\ k.state[t] \in Blocked
               => t \in k.armed \/ irq = t

\* chCondWaitS reads its return value from the union p_u, which held the
\* condition variable: it finds RDY_OK or RDY_RESET there, and RDY_TIMEOUT
\* only after a wait with a timeout.
WakeupMessage ==
    \A t \in Threads :
        k.state[t] \in {"READY", "CURRENT"} =>
            /\ pc[t] = "cond"  => k.u[t] \in {RDY_OK, RDY_RESET}
            /\ pc[t] = "timed" => k.u[t] \in Msgs
            /\ pc[t] = "sleep" => k.u[t] = RDY_TIMEOUT

\* The priority of a thread is the highest among its own and those of the
\* threads that wait for its mutexes: nothing inherited is lost while it is
\* needed, and nothing is kept longer.
EffectivePriority ==
    loop = <<>> =>
        \A t \in Threads :
            k.prio[t] = Max({realprio[t]} \cup
                {k.prio[w] : w \in UNION {Range(k.queue[m]) :
                                          m \in Range(mtxlist[t])}})

\* Thread t and the threads that hold, directly or through others, the mutex
\* t waits for.
HoldersUp(t) ==
    LET up[n \in Nat] ==
            IF n = 0 THEN {t}
            ELSE LET down == up[n - 1]
                 IN  down \cup {owner[k.u[w]] :
                               w \in {x \in down : k.state[x] = "WTMTX"}}
    IN  up[Cardinality(Threads)]

\* No priority inversion: while a thread that could run holds up t, the
\* processor is not given to a thread of lower priority than t.
NoInversion ==
    Unlocked =>
        \A t \in Threads : \A o \in HoldersUp(t) :
            k.state[o] \in {"READY", "CURRENT"} => k.prio[k.cur] >= k.prio[t]

\* The description of the mutexes: "When a thread is queued on a mutex, any
\* thread, directly or indirectly, holding the mutex gains the same priority
\* of the waiting thread (if their priority was not already equal or
\* higher)."
QueuedThreadBoosts ==
    [][BoostEnd => \A t \in {k.cur} : \A o \in HoldersUp(t)' :
           k'.prio[o] >= k'.prio[t]]_vars
=============================================================================
