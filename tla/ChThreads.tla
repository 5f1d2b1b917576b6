----------------------------- MODULE ChThreads -----------------------------
(***************************************************************************)
(* The life of a thread (chthreads.c, chdynamic.c, chregistry.c): creation *)
(* in a static or a heap area, exit, the threads that wait for it, its     *)
(* references, its place in the registry, and the release of its memory.   *)
(*                                                                         *)
(* A thread is its memory area: a heap area that has been freed can be     *)
(* allocated again for another thread.  chThdRelease unlocks the kernel    *)
(* after it has decremented the counter of references, so the rest of it   *)
(* is steps of the thread like any other: job is where a thread is in      *)
(* there, and the processor may be given to another thread at each step.   *)
(***************************************************************************)
EXTENDS ChSys, FiniteSets

CONSTANTS Heap,       \* the threads whose area is in the heap
          Main,       \* the main thread
          Rlist,      \* the header of the registry
          Codes,      \* the exit codes
          MaxRefs     \* bound on the references to a thread

ASSUME ThreadsAssumption ==
    /\ Queues = Threads          \* the list p_waiting of each thread
    /\ Heap \subseteq Threads \ {Idle, Main} /\ Main \in Threads \ {Idle}
    /\ Rlist \notin Threads
    /\ Codes \cap Msgs = {}
    /\ MaxRefs \in Nat

VARIABLES refs,           \* p_refs
          newer, older,   \* the links of the registry
          mem,            \* the heap areas that are allocated
          hold,           \* the references each thread holds
          job             \* what a thread is doing inside a kernel function:
                          \* a sequence of at most one

life == <<refs, newer, older, mem, hold, job>>
vars == <<k, pc, irq, loop, life>>

Payload == Msgs \cup Codes
Job == [at : {"wait", "next", "test", "unlink", "relink", "free"}, tp : Threads,
        refs : 0 .. MaxRefs]

\* chSysInit: the main thread and the idle thread are in the registry.
Init ==
    /\ SysInit
    /\ k.cur = Main
    /\ refs = [t \in Threads |-> 1]
    /\ newer = [t \in Threads \cup {Rlist} |->
                   IF t = Rlist THEN Main ELSE IF t = Main THEN Idle ELSE Rlist]
    /\ older = [t \in Threads \cup {Rlist} |->
                   IF t = Rlist THEN Idle ELSE IF t = Idle THEN Main ELSE Rlist]
    /\ mem = {}
    /\ hold = [x \in Threads |-> [t \in Threads |-> 0]]
    /\ job = [t \in Threads |-> <<>>]

\* The running thread may call an API: it is in its own code.
InCode == InThread /\ job[k.cur] = <<>>

At(step) == InThread /\ job[k.cur] # <<>> /\ job[k.cur][1].at = step
Done     == job' = [job EXCEPT ![k.cur] = <<>>]

-----------------------------------------------------------------------------
(* Creation. *)

\* REG_INSERT
Register(t) ==
    LET last == older[Rlist]
    IN  /\ newer' = [newer EXCEPT ![t] = Rlist, ![last] = t]
        /\ older' = [older EXCEPT ![t] = last, ![Rlist] = t]

\* _thread_init of an area nobody uses, and the wake-up; the creator has the
\* reference.
Create(t) ==
    /\ InCode
    /\ Register(t)
    /\ k' = chSchWakeupS([k EXCEPT !.state[t] = "SUSPENDED",
                                   !.prio[t] = BasePrio[t],
                                   !.preempt[t] = Quantum,
                                   !.queue[t] = <<>>], t, RDY_OK)
    /\ refs' = [refs EXCEPT ![t] = 1]
    /\ hold' = [hold EXCEPT ![k.cur][t] = 1]
    /\ UNCHANGED <<pc, irq, loop, job>>

chThdCreateStatic(t) ==
    /\ t \notin Heap
    /\ k.state[t] = "SUSPENDED"
    /\ Create(t)
    /\ UNCHANGED mem

chThdCreateFromHeap(t) ==
    /\ t \in Heap \ mem
    /\ Create(t)
    /\ mem' = mem \cup {t}

-----------------------------------------------------------------------------
(* Exit and wait. *)

\* Mutant: the exit code is not stored.
chThdExit_NoCode(msg) ==
    /\ InCode
    /\ loop' = <<"exit">>
    /\ UNCHANGED <<k, pc, irq, life>>

\* chThdExitS up to its loop.
chThdExit(msg) ==
    /\ InCode
    /\ k' = [k EXCEPT !.u[k.cur] = msg]
    /\ loop' = <<"exit">>
    /\ UNCHANGED <<pc, irq, life>>

ReleaseWaiter ==
    /\ loop # <<>>
    /\ k.queue[k.cur] # <<>>
    /\ k' = chSchReadyI(fifo_remove(k, k.cur), Head(k.queue[k.cur]))
    /\ UNCHANGED <<pc, irq, loop, life>>

\* Mutant: the thread that follows in the registry keeps its back link.
ExitEnd_HalfUnlink ==
    /\ loop # <<>>
    /\ k.queue[k.cur] = <<>>
    /\ newer' = [newer EXCEPT ![older[k.cur]] = newer[k.cur]]
    /\ k' = chSchGoSleepS(k, "FINAL")
    /\ loop' = <<>>
    /\ UNCHANGED <<pc, irq, refs, older, mem, hold, job>>

\* A static thread leaves the registry at once.
ExitEnd ==
    /\ loop # <<>>
    /\ k.queue[k.cur] = <<>>
    /\ IF k.cur \in Heap THEN UNCHANGED <<newer, older>>
       ELSE /\ newer' = [newer EXCEPT ![older[k.cur]] = newer[k.cur]]
            /\ older' = [older EXCEPT ![newer[k.cur]] = older[k.cur]]
    /\ k' = chSchGoSleepS(k, "FINAL")
    /\ loop' = <<>>
    /\ UNCHANGED <<pc, irq, refs, mem, hold, job>>

\* The reference is given back; what follows is no longer locked.
Release(tp) ==
    /\ refs' = [refs EXCEPT ![tp] = @ - 1]
    /\ hold' = [hold EXCEPT ![k.cur][tp] = @ - 1]
    /\ job'  = [job EXCEPT ![k.cur] =
                   <<[at |-> "test", tp |-> tp, refs |-> refs[tp] - 1]>>]

\* list_insert puts the caller at the head of the list.  The exit code is
\* read before the kernel is unlocked.
chThdWait(tp) ==
    /\ InCode
    /\ tp # k.cur
    /\ hold[k.cur][tp] > 0
    /\ \/ /\ k.state[tp] = "FINAL"
          /\ Release(tp)
          /\ UNCHANGED <<k, pc>>
       \/ /\ k.state[tp] # "FINAL"
          /\ k' = chSchGoSleepS([k EXCEPT !.queue[tp] = <<k.cur>> \o @],
                                "WTEXIT")
          /\ pc' = [pc EXCEPT ![k.cur] = "wait"]
          /\ job' = [job EXCEPT ![k.cur] =
                        <<[at |-> "wait", tp |-> tp, refs |-> 0]>>]
          /\ UNCHANGED <<refs, hold>>
    /\ UNCHANGED <<irq, loop, newer, older, mem>>

WaitEnd ==
    /\ SwitchedIn
    /\ pc' = [pc EXCEPT ![k.cur] = "run"]
    /\ Release(job[k.cur][1].tp)
    /\ UNCHANGED <<k, irq, loop, newer, older, mem>>

-----------------------------------------------------------------------------
(* References, and the unlocked part of chThdRelease. *)

chThdAddRef(tp) ==
    /\ InCode
    /\ hold[k.cur][tp] > 0
    /\ refs[tp] < MaxRefs
    /\ refs' = [refs EXCEPT ![tp] = @ + 1]
    /\ hold' = [hold EXCEPT ![k.cur][tp] = @ + 1]
    /\ UNCHANGED <<k, pc, irq, loop, newer, older, mem, job>>

chThdRelease(tp) ==
    /\ InCode
    /\ hold[k.cur][tp] > 0
    /\ Release(tp)
    /\ UNCHANGED <<k, pc, irq, loop, newer, older, mem>>

\* The caller: a thread gives one of its references to another.
PassRef(x, tp) ==
    /\ InCode
    /\ x # k.cur /\ hold[k.cur][tp] > 0
    /\ hold' = [hold EXCEPT ![k.cur][tp] = @ - 1, ![x][tp] = @ + 1]
    /\ UNCHANGED <<k, pc, irq, loop, refs, newer, older, mem, job>>

\* Mutant: the counter is read again, with the kernel unlocked.
ReleaseTest_Reread ==
    /\ At("test")
    /\ LET tp == job[k.cur][1].tp
       IN  IF refs[tp] = 0 /\ k.state[tp] = "FINAL" /\ tp \in Heap
           THEN job' = [job EXCEPT ![k.cur][1].at = "unlink"]
           ELSE Done
    /\ UNCHANGED <<k, pc, irq, loop, refs, newer, older, mem, hold>>

ReleaseTest ==
    /\ At("test")
    /\ LET tp == job[k.cur][1].tp
       IN  IF job[k.cur][1].refs = 0 /\ k.state[tp] = "FINAL" /\ tp \in Heap
           THEN job' = [job EXCEPT ![k.cur][1].at = "unlink"]
           ELSE Done
    /\ UNCHANGED <<k, pc, irq, loop, refs, newer, older, mem, hold>>

\* The two assignments of REG_REMOVE.
Unlink1 ==
    /\ At("unlink")
    /\ LET tp == job[k.cur][1].tp
       IN  newer' = [newer EXCEPT ![older[tp]] = newer[tp]]
    /\ job' = [job EXCEPT ![k.cur][1].at = "relink"]
    /\ UNCHANGED <<k, pc, irq, loop, refs, older, mem, hold>>

Unlink2 ==
    /\ At("relink")
    /\ LET tp == job[k.cur][1].tp
       IN  older' = [older EXCEPT ![newer[tp]] = older[tp]]
    /\ job' = [job EXCEPT ![k.cur][1].at = "free"]
    /\ UNCHANGED <<k, pc, irq, loop, refs, newer, mem, hold>>

chHeapFree ==
    /\ At("free")
    /\ mem' = mem \ {job[k.cur][1].tp}
    /\ Done
    /\ UNCHANGED <<k, pc, irq, loop, refs, newer, older, hold>>

-----------------------------------------------------------------------------
(* The registry. *)

GetRef(t) ==
    /\ refs[t] < MaxRefs
    /\ refs' = [refs EXCEPT ![t] = @ + 1]
    /\ hold' = [hold EXCEPT ![k.cur][t] = @ + 1]

chRegFirstThread ==
    /\ InCode
    /\ GetRef(newer[Rlist])
    /\ UNCHANGED <<k, pc, irq, loop, newer, older, mem, job>>

\* A reference to the next thread is taken in one critical zone, the one to tp
\* given back in another.
chRegNextThread(tp) ==
    /\ InCode
    /\ hold[k.cur][tp] > 0
    /\ IF newer[tp] = Rlist THEN UNCHANGED <<refs, hold>> ELSE GetRef(newer[tp])
    /\ job' = [job EXCEPT ![k.cur] =
                  <<[at |-> "next", tp |-> tp, refs |-> 0]>>]
    /\ UNCHANGED <<k, pc, irq, loop, newer, older, mem>>

NextRelease ==
    /\ At("next")
    /\ Release(job[k.cur][1].tp)
    /\ UNCHANGED <<k, pc, irq, loop, newer, older, mem>>

-----------------------------------------------------------------------------
(* The processor is given to another thread. *)

chThdYield == InCode /\ YieldThread /\ UNCHANGED life
SysTick    == EnterTick /\ UNCHANGED life
SysTickEnd == LeaveTick /\ UNCHANGED life

Thread ==
    \/ \E t \in Threads : chThdCreateStatic(t) \/ chThdCreateFromHeap(t)
    \/ \E msg \in Codes : chThdExit(msg)
    \/ \E t \in Threads : chThdWait(t) \/ chThdAddRef(t) \/ chThdRelease(t)
    \/ chThdYield

\* A reference changes hands.
Pass == \E x, t \in Threads : PassRef(x, t)

\* A walk of the registry.
Walk == \/ chRegFirstThread \/ NextRelease
        \/ \E t \in Threads : chRegNextThread(t)

Inside ==
    \/ ReleaseWaiter \/ ExitEnd \/ WaitEnd
    \/ ReleaseTest \/ Unlink1 \/ Unlink2 \/ chHeapFree

Next == Thread \/ Inside \/ SysTick \/ SysTickEnd

-----------------------------------------------------------------------------
(* Properties. *)

TypeOK ==
    /\ k \in Kernel(Payload)
    /\ pc \in [Threads -> {"run", "wait"}]
    /\ irq \in {"none", "tick"}
    /\ loop \in {<<>>, <<"exit">>}
    /\ refs \in [Threads -> 0 .. MaxRefs]
    /\ newer \in [Threads \cup {Rlist} -> Threads \cup {Rlist}]
    /\ older \in [Threads \cup {Rlist} -> Threads \cup {Rlist}]
    /\ mem \subseteq Heap
    /\ hold \in [Threads -> [Threads -> 0 .. MaxRefs]]
    /\ \A t \in Threads : job[t] \in Seq(Job) /\ Len(job[t]) <= 1

\* Every thread is in exactly the list its state calls for, and nobody waits
\* for a thread that has terminated: chThdWait tests the state and joins the
\* list in one critical zone, chThdExitS empties the list and terminates in
\* one.
ListsOK ==
    /\ ReadyListOK(k)
    /\ QueuesOK(k)
    /\ \A t, w \in Threads :
           w \in Range(k.queue[t]) <=>
               k.state[w] = "WTEXIT" /\ job[w] # <<>> /\ job[w][1].tp = t
    /\ \A t \in Threads : k.state[t] = "FINAL" => k.queue[t] = <<>>

\* The exit code is in the same union as the wake-up message; who has waited
\* finds the code there.
ExitCodeDelivered ==
    \A w \in Threads :
        pc[w] = "wait" /\ k.state[w] \in {"READY", "CURRENT"} =>
            k.u[job[w][1].tp] \in Codes

\* The counter of references of a thread that was created is the number of
\* references held, by whoever created it, added one or found the thread in
\* the registry.
RefsCounted ==
    \A t \in Threads \ {Main, Idle} :
        t \in mem \/ (t \notin Heap /\ k.state[t] # "SUSPENDED") =>
            refs[t] = MapThenSumSet(LAMBDA x : hold[x][t], Threads)

\* A thread that is referenced keeps its memory: "A reference is added to the
\* returned thread in order to make sure its status is not lost."  (The walks
\* for which that is not so are those MCThreads.Undisturbed names.)
ReferencedIsLive ==
    \A x, t \in Threads : t \in Heap /\ hold[x][t] > 0 => t \in mem

\* Memory is freed once, and by one thread, although the test that decides it
\* is made with the kernel unlocked and several threads may give back their
\* references at once.
FreedOnce ==
    \A x, y \in Threads :
        /\ x # y /\ job[x] # <<>> /\ job[y] # <<>>
        /\ {job[x][1].at, job[y][1].at} \subseteq {"unlink", "relink", "free"}
        => job[x][1].tp # job[y][1].tp

\* The threads found by following the links from the header.
Listed ==
    LET upto[n \in Nat] ==
            IF n = 0 THEN {newer[Rlist]}
            ELSE LET found == upto[n - 1]
                 IN  found \cup {newer[t] : t \in found}
    IN  upto[Cardinality(Threads)] \ {Rlist}

\* The description of the registry: "using the registry a debugger can
\* enumerate the active threads in any given moment or the shell can print the
\* active threads and their state."
RegistryComplete ==
    loop = <<>> =>
        \A t \in Threads :
            k.state[t] \notin {"SUSPENDED", "FINAL"} => t \in Listed

\* References keep a thread and nothing else does: they are counted, what is
\* referenced is there, and the last one frees the memory once.
ReferencesOK == RefsCounted /\ ReferencedIsLive /\ FreedOnce
=============================================================================
