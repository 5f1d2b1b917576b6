------------------------------- MODULE MCMtx -------------------------------
(***************************************************************************)
(* Mutexes and condition variables in three setups: threads that keep      *)
(* their priorities, threads that raise them and wait without a timeout,   *)
(* and a thread, t3, that also lowers its own, with no condition variable. *)
(* The thread of the lowest priority, t1, is the one that sleeps, so that  *)
(* an owner is boosted in its sleep.                                       *)
(***************************************************************************)
EXTENDS ChMtx, TLC

CONSTANTS t1, t2, t3    \* the threads besides Idle

VARIABLE setup

\* Three priorities, so that one thread can be in between.
MCPrio == [t \in Threads |-> CASE t = Idle -> 1 [] t = t1 -> 3 [] t = t2 -> 4
                               [] OTHER -> 5]

MutexSymmetry == Permutations(Mutexes)

mcvars == <<vars, setup>>

MCInit == Init /\ setup \in {"wait", "raise", "lower"}

MCNext ==
    /\ UNCHANGED setup
    /\ Next
    /\ \A t \in Threads \ {t1} : pc'[t] # "sleep"
    /\ \/ setup = "wait" /\ UNCHANGED realprio
       \/ /\ setup = "raise"
          /\ \A t \in Threads : realprio'[t] >= realprio[t]
          /\ \A t \in Threads : pc'[t] \notin {"timed", "sleep"}
       \/ /\ setup = "lower"
          /\ \A t \in Threads \ {t3} : UNCHANGED realprio[t]
          /\ \A c \in Conds : k'.queue[c] = <<>>

MCSpec == MCInit /\ [][MCNext]_mcvars
-----------------------------------------------------------------------------
\* What the kernel is built on holds with priorities that change while threads
\* wait: the lists agree with the states and stay sorted, the processor goes
\* to the highest priority, a timer lives as long as its call, and a woken
\* thread finds a message.
KernelOK == TypeOK /\ ListsOK /\ HighestRuns /\ TimersOK /\ WakeupMessage

\* As long as no owner of a mutex lowers its own priority, which
\* chThdSetPriority leaves to chMtxUnlock, each thread has the priority it
\* needs and there is no priority inversion.
PriorityAsNeeded == setup # "lower" => EffectivePriority /\ NoInversion
=============================================================================
