----------------------------- MODULE MCThreads -----------------------------
(***************************************************************************)
(* Threads in three setups.  "heap": threads of both kinds of area, each   *)
(* reference used by the thread that has it.  "shared": references change  *)
(* hands and are found in the registry, so that two threads may give back  *)
(* references to the same heap thread at once.  "static": the threads walk *)
(* the registry, and no area is in the heap.                               *)
(***************************************************************************)
EXTENDS ChThreads

CONSTANTS t1, t2, t3, t4, t5    \* the threads besides Idle

MaxHeld == 2    \* bound on the references one thread has in setup "shared"

VARIABLE setup

\* All but one of the same priority: each may be preempted by the others at
\* any tick.
MCPrio == [t \in Threads |-> CASE t = Idle -> 1 [] t = t2 -> 3 [] OTHER -> 2]

mcvars == <<vars, setup>>

MCInit == Init /\ setup \in {"heap", "shared", "static"}

\* The walks of the registry that chThdRelease and chThdExitS do not undo: they
\* reach no thread whose last reference is being given back (the test and the
\* release that follow are not locked), and do not go on from a static thread
\* that has left the registry.
Undisturbed ==
    /\ \A x, t \in Threads :
           /\ job[x] # <<>> /\ job[x][1].at \notin {"wait", "next"}
           /\ job[x][1].tp = t /\ job[x][1].refs = 0
           => refs'[t] <= refs[t]
    /\ ~\E t \in Threads \ Heap : k.state[t] = "FINAL" /\ chRegNextThread(t)

\* Who has begun a walk goes on with it until it has passed the threads that
\* are there from the start.
OnWalk == hold[k.cur][Main] + hold[k.cur][Idle] > 0

\* References are given only to threads that run, and nobody has more than two.
Shared ==
    /\ IF OnWalk THEN Walk \/ Inside \/ SysTick \/ SysTickEnd
                 ELSE Walk \/ Pass \/ Next
    /\ Undisturbed
    /\ \A x \in Threads :
           k.state[x] \in {"SUSPENDED", "FINAL"} =>
               \A t \in Threads : hold'[x][t] <= hold[x][t]
    /\ \A x \in Threads :
           MapThenSumSet(LAMBDA t : hold[x][t], Threads)' <= MaxHeld

\* The threads that are never created, and those that have no references.
Absent  == CASE setup = "heap"   -> {t5}
             [] setup = "shared" -> {t2, t4}
             [] setup = "static" -> Heap
Without == CASE setup = "heap"   -> Heap
             [] setup = "shared" -> {t3}
             [] setup = "static" -> {t4, t5}

MCNext ==
    /\ UNCHANGED setup
    /\ \/ setup = "heap" /\ Next
       \/ setup = "shared" /\ Shared
       \/ setup = "static" /\ (Next \/ Walk)
    /\ \A t \in Absent : k'.state[t] = "SUSPENDED"
    /\ \A t \in Threads, x \in Without : hold'[x][t] = 0

MCSpec == MCInit /\ [][MCNext]_mcvars
-----------------------------------------------------------------------------
\* While no area comes from the heap, every active thread can be found in the
\* registry at any time: REG_INSERT and the REG_REMOVE of chThdExitS are done
\* with the kernel locked.
StaticRegistryComplete == setup = "static" => RegistryComplete

\* Whoever waits for a thread is in the list that ends the wait, once, and
\* finds the exit code.
WaitsOK == TypeOK /\ ListsOK /\ ExitCodeDelivered
=============================================================================
