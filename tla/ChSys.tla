------------------------------- MODULE ChSys -------------------------------
(***************************************************************************)
(* What the components share beside the scheduler: the state of the kernel *)
(* after chSysInit, the contexts in which a step may be taken, and the     *)
(* system tick with the callbacks of the sleep timers (chsys.c, chvt.h,    *)
(* chcore_v7m.c).                                                          *)
(*                                                                         *)
(* Who may take a step is what the kernel lock allows:                     *)
(*   - the running thread calls an API, which is atomic up to the point    *)
(*     where the thread is switched out;                                   *)
(*   - a thread that is switched in again finishes its call (pc) before it *)
(*     unlocks, so nothing interrupts it in between;                       *)
(*   - a loop inside a critical zone (loop) runs one round at a time with  *)
(*     everything else locked out;                                         *)
(*   - the tick handler unlocks around each timer callback (irq), and a    *)
(*     handler of higher urgency may run there.                            *)
(* A timer that is armed may expire at any later tick: the order of the    *)
(* expiries is the matter of the virtual timers.                           *)
(***************************************************************************)
EXTENDS ChSched

CONSTANT BasePrio     \* the priority each thread was created with

ASSUME BasePrioAssumption ==
    /\ BasePrio \in [Threads -> Nat \ {NOPRIO}]
    /\ BasePrio[Idle] = IDLEPRIO
    /\ \A t \in Threads \ {Idle} : BasePrio[t] > IDLEPRIO
ASSUME ContextAssumption == "none" \notin Threads /\ "tick" \notin Threads

VARIABLES k,      \* the scheduler
          pc,     \* where a thread goes on when it is switched in again:
                  \* in its code ("run"), or inside a blocking call
          irq,    \* "none"; "tick": in the tick handler, locked; or a thread:
                  \* at its timeout callback, which has not locked yet
          loop    \* the loop of a kernel function under way, a sequence of
                  \* at most one

TIME_IMMEDIATE == "immediate"
TIME_INFINITE  == "infinite"
Times          == {TIME_IMMEDIATE, "finite", TIME_INFINITE}

\* chSysInit: the main thread runs, the idle thread is ready; the other
\* threads are not started yet.
SysInit ==
    /\ \E main \in Threads \ {Idle} :
         k = [cur     |-> main,
              ready   |-> <<Idle>>,
              state   |-> [t \in Threads |-> IF t = main THEN "CURRENT"
                                             ELSE IF t = Idle THEN "READY"
                                             ELSE "SUSPENDED"],
              prio    |-> BasePrio,
              preempt |-> [t \in Threads |-> Quantum],
              queue   |-> [q \in Queues |-> <<>>],
              u       |-> [t \in Threads |-> RDY_OK],
              armed   |-> {}]
    /\ pc = [t \in Threads |-> "run"]
    /\ irq = "none"
    /\ loop = <<>>

-----------------------------------------------------------------------------
(* Contexts. *)

\* No critical zone is open and no handler is active.
Unlocked == irq = "none" /\ loop = <<>> /\ pc[k.cur] = "run"

\* The running thread may call an API.
InThread == Unlocked /\ k.cur # Idle

\* The thread just switched in has a call to finish.
SwitchedIn == irq = "none" /\ loop = <<>> /\ pc[k.cur] # "run"

\* An interrupt handler may be entered: from thread level, or nested in the
\* tick handler while that is unlocked.  Only the outermost handler switches.
InIsr == Unlocked \/ (irq \in Threads /\ loop = <<>>)
IsrExit(k1) == IF irq = "none" THEN _port_irq_epilogue(k1) ELSE k1

-----------------------------------------------------------------------------
(* Threads: start, sleep and yield. *)

StartThread(t) ==
    /\ InThread
    /\ k.state[t] = "SUSPENDED"
    /\ k' = chSchWakeupS(k, t, RDY_OK)
    /\ UNCHANGED <<pc, irq, loop>>

SleepThread ==
    /\ InThread
    /\ k'  = chSchGoSleepTimeoutS(k, "SLEEPING")
    /\ pc' = [pc EXCEPT ![k.cur] = "sleep"]
    /\ UNCHANGED <<irq, loop>>

YieldThread ==
    /\ InThread
    /\ k' = chSchDoYieldS(k)
    /\ UNCHANGED <<pc, irq, loop>>

-----------------------------------------------------------------------------
(* The system tick (SysTickVector, chSysTimerHandlerI, chVTDoTickI). *)

\* Mutant: the tick is not charged to the running thread.
EnterTick_NoCharge ==
    /\ Unlocked
    /\ irq' = "tick"
    /\ UNCHANGED <<k, pc, loop>>

EnterTick ==
    /\ Unlocked
    /\ k'   = ChargeTick(k)
    /\ irq' = "tick"
    /\ UNCHANGED <<pc, loop>>

\* Mutant: the timer is dropped and its callback never called.
TakeTimer_NoCallback(t) ==
    /\ irq = "tick"
    /\ t \in k.armed
    /\ k' = [k EXCEPT !.armed = @ \ {t}]
    /\ UNCHANGED <<pc, irq, loop>>

\* A timer at the head of the list has expired: it is unlinked and disarmed,
\* and the lock is released for its callback.
TakeTimer(t) ==
    /\ irq = "tick"
    /\ t \in k.armed
    /\ k'   = [k EXCEPT !.armed = @ \ {t}]
    /\ irq' = t
    /\ UNCHANGED <<pc, loop>>

CallTimer ==
    /\ irq \in Threads
    /\ loop = <<>>
    /\ k'   = wakeup(k, irq)
    /\ irq' = "tick"
    /\ UNCHANGED <<pc, loop>>

LeaveTick ==
    /\ irq = "tick"
    /\ k'   = _port_irq_epilogue(k)
    /\ irq' = "none"
    /\ UNCHANGED <<pc, loop>>
=============================================================================
