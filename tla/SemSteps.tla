------------------------------ MODULE SemSteps ------------------------------
(***************************************************************************)
(* What the functions of the semaphores do to a kernel record, one call at *)
(* a time: which threads leave or join which queue, with which message, and*)
(* what is kept.                                                           *)
(*                                                                         *)
(* SemLists relates the queues to the states of the threads.  Calls        *)
(* relates, for each thread, its state, its timer, its union p_u and the   *)
(* call it is in.                                                          *)
(***************************************************************************)
EXTENDS ChSem, ChSchedProofs

\* The queue of a semaphore holds exactly the threads that wait for it, once.
SemLists(a) ==
    /\ \A s \in Sems : NoRepeat(a.queue[s])
    /\ \A t \in Threads, s \in Sems :
           t \in Range(a.queue[s]) <=> a.state[t] = "WTSEM" /\ a.u[t] = s

\* What a thread that has been woken in call p may find in p_u.
Answers(p) == IF p = "wait" THEN {RDY_OK, RDY_RESET}
              ELSE IF p = "sleep" THEN {RDY_TIMEOUT} ELSE Msgs

\* Thread t is inside call p[t]; i is the thread at its timeout callback.
Call(a, p, i, t) ==
    /\ a.state[t] \in Runnable \cup {"WTSEM", "SLEEPING", "SUSPENDED"}
    /\ a.state[t] = "WTSEM" => p[t] \in {"wait", "timed"} /\ a.u[t] \in Sems
    /\ a.state[t] = "SLEEPING" => p[t] = "sleep"
    /\ a.state[t] = "SUSPENDED" => p[t] = "run"
    /\ t \in a.armed \/ i = t => p[t] \in {"timed", "sleep"}
    /\ p[t] \in {"timed", "sleep"} /\ a.state[t] \notin Runnable
           => t \in a.armed \/ i = t
    /\ a.state[t] \in Runnable /\ p[t] # "run" => a.u[t] \in Answers(p[t])

Calls(a, p, i) == \A t \in Threads : Call(a, p, i, t)

-----------------------------------------------------------------------------
(* Steps of the kernel record, and what they keep. *)

\* Every thread but t is as runnable as before, or in the same state.
Others(a, j, t) ==
    \A x \in Threads \ {t} : \/ j.state[x] = a.state[x]
                             \/ j.state[x] \in Runnable /\ a.state[x] \in Runnable

\* The queues after t has left the one of s, or joined it.
Left(a, j, s, t) ==
    /\ \A q \in Sems \ {s} : j.queue[q] = a.queue[q]
    /\ NoRepeat(j.queue[s]) /\ Len(j.queue[s]) = Len(a.queue[s]) - 1
    /\ \A x : x \in Range(j.queue[s]) <=> x \in Range(a.queue[s]) /\ x # t
Joined(a, j, s, t) ==
    /\ \A q \in Sems \ {s} : j.queue[q] = a.queue[q]
    /\ NoRepeat(j.queue[s]) /\ Len(j.queue[s]) = Len(a.queue[s]) + 1
    /\ \A x : x \in Range(j.queue[s]) <=> x \in Range(a.queue[s]) \/ x = t

\* The queue of s has lost one thread, and nothing else has changed.
OneLess(a, j, s) ==
    /\ Len(j.queue[s]) = Len(a.queue[s]) - 1
    /\ \A q \in Sems \ {s} : j.queue[q] = a.queue[q]

\* Rescheduling changes nothing for the semaphores.
LEMMA SameStep ==
    ASSUME NEW a, NEW j, Same(a, j), NEW p, NEW i, SemLists(a), Calls(a, p, i)
    PROVE  SemLists(j) /\ Calls(j, p, i)
<1>1. SemLists(j)
  BY DEF Same, SemLists, Runnable
<1>2. Calls(j, p, i)
  BY DEF Same, Calls, Call, Runnable
<1> QED BY <1>1, <1>2

\* A thread leaves the queue of s with a message and becomes runnable.
LEMMA ReleaseStep ==
    ASSUME NEW a \in Kernel(Payload), NEW j, NEW s \in Sems, NEW t \in Threads, NEW m,
           NEW p, NEW i, SemLists(a), Calls(a, p, i),
           t \in Range(a.queue[s]), m \in Answers(p[t]),
           Left(a, j, s, t), Others(a, j, t), j.state[t] \in Runnable,
           j.u = [a.u EXCEPT ![t] = m], j.armed = a.armed
    PROVE  SemLists(j) /\ Calls(j, p, i)
<1>1. a.u \in [Threads -> Payload]
  BY KernelParts
<1>2. j.u[t] = m /\ \A x \in Threads \ {t} : j.u[x] = a.u[x]
  BY <1>1
<1>3. a.state[t] = "WTSEM" /\ a.u[t] = s
  BY DEF SemLists
<1>4. SemLists(j)
  <2>1. \A q \in Sems : NoRepeat(j.queue[q])
    BY DEF SemLists, Left
  <2>2. \A x \in Threads, q \in Sems :
            x \in Range(j.queue[q]) <=> j.state[x] = "WTSEM" /\ j.u[x] = q
    <3>1. \A q \in Sems : t \notin Range(j.queue[q])
      BY <1>3 DEF Left, SemLists
    <3>2. \A x \in Threads \ {t}, q \in Sems :
              x \in Range(j.queue[q]) <=> x \in Range(a.queue[q])
      BY DEF Left
    <3>3. \A x \in Threads \ {t}, q \in Sems :
              x \in Range(j.queue[q]) <=> j.state[x] = "WTSEM" /\ j.u[x] = q
      BY <1>2, <3>2 DEF SemLists, Others, Runnable
    <3> QED BY <3>1, <3>3 DEF Runnable
  <2> QED BY <2>1, <2>2 DEF SemLists
<1>5. Calls(j, p, i)
  <2>1. Call(j, p, i, t)
    BY <1>2 DEF Calls, Call, Runnable
  <2>2. ASSUME NEW x \in Threads \ {t} PROVE Call(j, p, i, x)
    BY <1>2 DEF Calls, Call, Others, Runnable
  <2> QED BY <2>1, <2>2 DEF Calls
<1> QED BY <1>4, <1>5

\* A thread that waits in no queue becomes runnable, with a message if it is
\* inside a call.
LEMMA WakeStep ==
    ASSUME NEW a \in Kernel(Payload), NEW j, NEW t \in Threads, NEW m,
           NEW p, NEW i, SemLists(a), Calls(a, p, i),
           a.state[t] \in {"SUSPENDED", "SLEEPING"},
           p[t] # "run" => m \in Answers(p[t]),
           j.queue = a.queue, Others(a, j, t), j.state[t] \in Runnable,
           j.u = [a.u EXCEPT ![t] = m], j.armed = a.armed
    PROVE  SemLists(j) /\ Calls(j, p, i)
<1>1. a.u \in [Threads -> Payload]
  BY KernelParts
<1>2. j.u[t] = m /\ \A x \in Threads \ {t} : j.u[x] = a.u[x]
  BY <1>1
<1>3. SemLists(j)
  BY <1>2 DEF SemLists, Others, Runnable
<1>4. Calls(j, p, i)
  <2>1. Call(j, p, i, t)
    BY <1>2 DEF Calls, Call, Runnable
  <2>2. ASSUME NEW x \in Threads \ {t} PROVE Call(j, p, i, x)
    BY <1>2 DEF Calls, Call, Others, Runnable
  <2> QED BY <2>1, <2>2 DEF Calls
<1> QED BY <1>3, <1>4

\* A runnable thread joins the queue of s and sleeps, with or without a timer.
LEMMA BlockStep ==
    ASSUME NEW a \in Kernel(Payload), NEW j, NEW s \in Sems, NEW t \in Threads,
           NEW p \in [Threads -> {"run", "wait", "timed", "sleep"}], NEW i, NEW c,
           SemLists(a), Calls(a, p, i), a.state[t] \in Runnable,
           Joined(a, j, s, t), Others(a, j, t), j.state[t] = "WTSEM",
           j.u = [a.u EXCEPT ![t] = s], p[t] = "run",
           \/ c = "wait" /\ j.armed = a.armed
           \/ c = "timed" /\ j.armed = a.armed \cup {t}
    PROVE  SemLists(j) /\ Calls(j, [p EXCEPT ![t] = c], i)
<1>1. a.u \in [Threads -> Payload]
  BY KernelParts
<1>2. j.u[t] = s /\ \A x \in Threads \ {t} : j.u[x] = a.u[x]
  BY <1>1
<1>3. SemLists(j)
  <2>1. \A q \in Sems : NoRepeat(j.queue[q])
    BY DEF SemLists, Joined
  <2>2. \A x \in Threads \ {t}, q \in Sems :
              x \in Range(j.queue[q]) <=> j.state[x] = "WTSEM" /\ j.u[x] = q
    BY <1>2 DEF SemLists, Joined, Others, Runnable
  <2>3. \A q \in Sems : t \in Range(j.queue[q]) <=> j.state[t] = "WTSEM" /\ j.u[t] = q
    <3>1. \A q \in Sems : t \notin Range(a.queue[q])
      BY DEF SemLists, Runnable
    <3> QED BY <1>2, <3>1 DEF Joined
  <2> QED BY <2>1, <2>2, <2>3 DEF SemLists
<1>4. Calls(j, [p EXCEPT ![t] = c], i)
  <2> DEFINE r == [p EXCEPT ![t] = c]
  <2>1. r[t] = c /\ \A x \in Threads \ {t} : r[x] = p[x]
    OBVIOUS
  <2> HIDE DEF r
  <2>2. Call(j, r, i, t)
    BY <1>2, <2>1 DEF Calls, Call, Runnable
  <2>3. ASSUME NEW x \in Threads \ {t} PROVE Call(j, r, i, x)
    BY <1>2, <2>1 DEF Calls, Call, Others, Runnable
  <2> QED BY <2>2, <2>3 DEF Calls, r
<1> QED BY <1>3, <1>4

-----------------------------------------------------------------------------
(* The functions of the semaphores as operators on the kernel record. *)

\* How many threads the counter c of a semaphore says are waiting.
Debt(c) == IF c < 0 THEN -c ELSE 0

\* b differs from a in the queue of one semaphore only.
OnlyQueue(a, b) ==
    /\ b.cur = a.cur /\ b.ready = a.ready /\ b.state = a.state
    /\ b.prio = a.prio /\ b.preempt = a.preempt
    /\ b.u = a.u /\ b.armed = a.armed

\* fifo_remove and lifo_remove take one waiter out of a queue that has one.
LEMMA RemoveWaiter ==
    ASSUME NEW a, Good(a, Payload), SemLists(a), NEW s \in Sems,
           Len(a.queue[s]) > 0, NEW t, NEW b,
           \/ t = Head(a.queue[s]) /\ b = fifo_remove(a, s)
           \/ t = LastOf(a.queue[s]) /\ b = lifo_remove(a, s)
    PROVE  /\ t \in Threads /\ t \in Range(a.queue[s])
           /\ a.state[t] = "WTSEM"
           /\ Good(b, Payload) /\ OnlyQueue(a, b) /\ Left(a, b, s, t)
           /\ Highest(b) <=> Highest(a)
<1>1. a \in Kernel(Payload) /\ a.queue \in [Sems -> Seq(Threads)]
  BY KernelParts, SemsAssumption DEF Good
<1>2. PICK q : q = a.queue[s] OBVIOUS
<1>3. q \in Seq(Threads) /\ q # <<>> /\ NoRepeat(q)
  BY <1>1, <1>2 DEF SemLists
<1>4. PICK r : r = IF b = fifo_remove(a, s) /\ t = Head(q) THEN Tail(q) ELSE ButLast(q)
  OBVIOUS
<1>5. b = [a EXCEPT !.queue[s] = r] /\ r \in Seq(Threads) /\ Len(r) = Len(q) - 1
      /\ NoRepeat(r) /\ t \in Threads /\ t \in Range(q)
      /\ \A x : x \in Range(r) <=> x \in Range(q) /\ x # t
  <2>1. CASE t = Head(q) /\ b = fifo_remove(a, s)
    <3>1. r = Tail(q)
      BY <1>4, <2>1
    <3>2. b = [a EXCEPT !.queue[s] = Tail(q)]
      BY <1>1, <1>2, <2>1 DEF fifo_remove, Kernel
    <3>3. Range(Tail(q)) = Range(q) \ {Head(q)}
      BY <1>3, TailList
    <3> QED BY <1>3, <2>1, <3>1, <3>2, <3>3, TailList
  <2>2. CASE t = LastOf(q) /\ b = lifo_remove(a, s) /\ ~ (t = Head(q) /\ b = fifo_remove(a, s))
    <3>1. r = ButLast(q)
      BY <1>4, <2>2
    <3>2. b = [a EXCEPT !.queue[s] = ButLast(q)]
      BY <1>1, <1>2, <2>2 DEF lifo_remove, Kernel
    <3>3. Range(ButLast(q)) = Range(q) \ {LastOf(q)}
      BY <1>3, ButLastList
    <3> QED BY <1>3, <2>2, <3>1, <3>2, <3>3, ButLastList
  <2> QED BY <1>2, <2>1, <2>2
<1>6. b \in Kernel(Payload) /\ OnlyQueue(a, b) /\ b.queue = [a.queue EXCEPT ![s] = r]
  <2>1. [a.queue EXCEPT ![s] = r] \in [Queues -> Seq(Threads)]
    BY <1>1, <1>5, SemsAssumption
  <2> QED BY <1>1, <1>5, <2>1, SemsAssumption DEF Kernel, OnlyQueue
<1>7. Left(a, b, s, t)
  BY <1>1, <1>2, <1>5, <1>6 DEF Left
<1>8. Good(b, Payload) /\ (Highest(b) <=> Highest(a))
  BY <1>6, OtherParts DEF OnlyQueue
<1> QED
  BY <1>2, <1>5, <1>6, <1>7, <1>8 DEF SemLists

\* chSemSignalI readies the first waiter if the counter, c after the
\* increment, says there is one.
LEMMA SignalI ==
    ASSUME NEW a, Good(a, Payload), SemLists(a), NEW p, NEW i, Calls(a, p, i),
           NEW s \in Sems, NEW c \in Int, Len(a.queue[s]) = Debt(c - 1),
           NEW j, j = chSemSignalI(a, s, c)
    PROVE  /\ Good(j, Payload) /\ SemLists(j) /\ Calls(j, p, i)
           /\ j.cur = a.cur
           /\ Len(j.queue[s]) = Debt(c)
           /\ \A q \in Sems \ {s} : j.queue[q] = a.queue[q]
<1>1. CASE c > 0
  BY <1>1 DEF chSemSignalI, Debt
<1>2. CASE c <= 0
  <2>1. PICK t, b : t = Head(a.queue[s]) /\ b = fifo_remove(a, s)
    OBVIOUS
  <2>2. Len(a.queue[s]) > 0 /\ Len(a.queue[s]) - 1 = Debt(c)
    BY <1>2 DEF Debt
  <2>3. /\ t \in Threads /\ t \in Range(a.queue[s]) /\ a.state[t] = "WTSEM"
        /\ Good(b, Payload) /\ OnlyQueue(a, b) /\ Left(a, b, s, t)
    BY <2>1, <2>2, RemoveWaiter
  <2>4. PICK d : d = [b EXCEPT !.u[t] = RDY_OK]
    OBVIOUS
  <2>5. j = chSchReadyI(d, t)
    BY <1>2, <2>1, <2>4 DEF chSemSignalI
  <2>6. /\ d \in Kernel(Payload) /\ d.u = [a.u EXCEPT ![t] = RDY_OK]
        /\ d.cur = a.cur /\ d.ready = b.ready /\ d.state = a.state
        /\ d.prio = b.prio /\ d.queue = b.queue /\ d.armed = a.armed
    <3>1. b \in Kernel(Payload) /\ b.u \in [Threads -> Payload]
      BY <2>3, KernelParts DEF Good
    <3>2. [b.u EXCEPT ![t] = RDY_OK] \in [Threads -> Payload]
      BY <2>3, <3>1 DEF Payload, Msgs
    <3> QED BY <2>3, <2>4, <3>1, <3>2 DEF Kernel, OnlyQueue
  <2>7. Good(d, Payload)
    BY <2>3, <2>6, OtherParts DEF OnlyQueue
  <2>8. /\ Good(j, Payload) /\ j.state = [d.state EXCEPT ![t] = "READY"]
        /\ j.cur = d.cur /\ j.queue = d.queue /\ j.u = d.u /\ j.armed = d.armed
    BY <2>3, <2>5, <2>6, <2>7, ReadyGood DEF Runnable
  <2>9. a \in Kernel(Payload) /\ a.state \in [Threads -> States]
    BY KernelParts DEF Good
  <2>10. j.state[t] \in Runnable /\ Others(a, j, t)
    BY <2>3, <2>6, <2>8, <2>9 DEF Others, Runnable
  <2>11. Left(a, j, s, t)
    BY <2>3, <2>6, <2>8 DEF Left
  <2>12. RDY_OK \in Answers(p[t])
    BY <2>3 DEF Calls, Call, Answers, Msgs
  <2>13. SemLists(j) /\ Calls(j, p, i)
    BY <2>3, <2>6, <2>8, <2>9, <2>10, <2>11, <2>12, ReleaseStep
  <2> QED BY <2>2, <2>6, <2>8, <2>11, <2>13 DEF Left
<1> QED BY <1>1, <1>2

\* chSemSignal wakes the first waiter and lets it run if it outranks the
\* caller.
LEMMA SignalS ==
    ASSUME NEW a, Good(a, Payload), Highest(a), SemLists(a),
           NEW p, NEW i, Calls(a, p, i),
           NEW s \in Sems, Len(a.queue[s]) > 0,
           NEW j, j = chSchWakeupS(fifo_remove(a, s), Head(a.queue[s]), RDY_OK)
    PROVE  /\ Good(j, Payload) /\ Highest(j) /\ SemLists(j) /\ Calls(j, p, i)
           /\ OneLess(a, j, s)
<1>1. PICK t, b : t = Head(a.queue[s]) /\ b = fifo_remove(a, s)
  OBVIOUS
<1>2. /\ t \in Threads /\ t \in Range(a.queue[s]) /\ a.state[t] = "WTSEM"
      /\ Good(b, Payload) /\ Highest(b) /\ OnlyQueue(a, b) /\ Left(a, b, s, t)
  BY <1>1, RemoveWaiter
<1>3. j = chSchWakeupS(b, t, RDY_OK) /\ RDY_OK \in Payload /\ b.state[t] \notin Runnable
  BY <1>1, <1>2 DEF Payload, Msgs, OnlyQueue, Runnable
<1>4. /\ Good(j, Payload) /\ Highest(j) /\ j.state[t] \in Runnable
      /\ Others(b, j, t)
      /\ j.queue = b.queue /\ j.armed = b.armed
      /\ j.u = [b.u EXCEPT ![t] = RDY_OK]
  BY <1>2, <1>3, WakeupS DEF Others
<1>5. a \in Kernel(Payload) /\ Others(a, j, t) /\ Left(a, j, s, t)
  BY <1>2, <1>4 DEF Good, OnlyQueue, Others, Left
<1>6. RDY_OK \in Answers(p[t])
  BY <1>2 DEF Calls, Call, Answers, Msgs
<1>7. j.u = [a.u EXCEPT ![t] = RDY_OK] /\ j.armed = a.armed
  BY <1>2, <1>4 DEF OnlyQueue
<1>8. SemLists(j) /\ Calls(j, p, i)
  BY <1>2, <1>4, <1>5, <1>6, <1>7, ReleaseStep
<1> QED BY <1>4, <1>5, <1>8 DEF Left, OneLess

\* One round of chSemResetI: the last waiter leaves with RDY_RESET.
ResetOne(a, s) ==
    LET t == LastOf(a.queue[s])
    IN  [chSchReadyI(lifo_remove(a, s), t) EXCEPT !.u[t] = RDY_RESET]

\* One round of the loop of chSemResetI.
LEMMA ResetRound ==
    ASSUME NEW a, Good(a, Payload), SemLists(a), NEW p, NEW i, Calls(a, p, i),
           NEW s \in Sems, Len(a.queue[s]) > 0,
           NEW j, j = ResetOne(a, s)
    PROVE  /\ Good(j, Payload) /\ SemLists(j) /\ Calls(j, p, i)
           /\ j.cur = a.cur /\ OneLess(a, j, s)
<1>1. PICK t, b : t = LastOf(a.queue[s]) /\ b = lifo_remove(a, s)
  OBVIOUS
<1>2. /\ t \in Threads /\ t \in Range(a.queue[s]) /\ a.state[t] = "WTSEM"
      /\ Good(b, Payload) /\ OnlyQueue(a, b) /\ Left(a, b, s, t)
  BY <1>1, RemoveWaiter
<1>3. PICK d : d = chSchReadyI(b, t)
  OBVIOUS
<1>4. /\ Good(d, Payload) /\ d.state = [a.state EXCEPT ![t] = "READY"]
      /\ d.cur = a.cur /\ d.queue = b.queue /\ d.u = a.u /\ d.armed = a.armed
  <2>1. b.state[t] \notin Runnable /\ b.state = a.state
    BY <1>2 DEF OnlyQueue, Runnable
  <2>2. /\ Good(d, Payload) /\ d.state = [b.state EXCEPT ![t] = "READY"]
        /\ d.cur = b.cur /\ d.queue = b.queue /\ d.u = b.u /\ d.armed = b.armed
    BY <1>2, <1>3, <2>1, ReadyGood
  <2> QED BY <1>2, <2>1, <2>2 DEF OnlyQueue
<1>5. /\ j \in Kernel(Payload) /\ j.u = [a.u EXCEPT ![t] = RDY_RESET]
      /\ j.cur = d.cur /\ j.ready = d.ready /\ j.state = d.state
      /\ j.prio = d.prio /\ j.queue = d.queue /\ j.armed = d.armed
  <2>1. d \in Kernel(Payload) /\ d.u \in [Threads -> Payload]
    BY <1>4, KernelParts DEF Good
  <2>2. [d.u EXCEPT ![t] = RDY_RESET] \in [Threads -> Payload]
    BY <1>2, <2>1 DEF Payload, Msgs
  <2>3. j = [d EXCEPT !.u[t] = RDY_RESET]
    BY <1>1, <1>3 DEF ResetOne
  <2> QED BY <1>4, <2>1, <2>2, <2>3 DEF Kernel
<1>6. Good(j, Payload)
  BY <1>4, <1>5, OtherParts
<1>7. a \in Kernel(Payload) /\ a.state \in [Threads -> States]
  BY KernelParts DEF Good
<1>8. j.state[t] \in Runnable /\ Others(a, j, t)
  BY <1>2, <1>4, <1>5, <1>7 DEF Others, Runnable
<1>9. Left(a, j, s, t)
  BY <1>2, <1>4, <1>5 DEF Left
<1>10. RDY_RESET \in Answers(p[t])
  BY <1>2 DEF Calls, Call, Answers, Msgs
<1>11. SemLists(j) /\ Calls(j, p, i)
  <2>1. j.u = [a.u EXCEPT ![t] = RDY_RESET] /\ j.armed = a.armed
    BY <1>4, <1>5
  <2>2. a \in Kernel(Payload) /\ t \in Threads /\ t \in Range(a.queue[s])
    BY <1>2, <1>7
  <2> QED BY <1>8, <1>9, <1>10, <2>1, <2>2, ReleaseStep
<1> QED BY <1>4, <1>5, <1>6, <1>9, <1>11 DEF Left, OneLess

\* From a, the running thread blocks on s in call c.
Blocks(a, s, c, j) ==
    \/ c = "wait" /\ j = chSchGoSleepS(Enqueue(a, s), "WTSEM")
    \/ c = "timed" /\ j = chSchGoSleepTimeoutS(Enqueue(a, s), "WTSEM")

\* The running thread joins the queue of s and sleeps, with or without a
\* timer; a thread of the highest priority takes over.
LEMMA EnqueueSleep ==
    ASSUME NEW a, Good(a, Payload), SemLists(a), a.cur # Idle, NEW s \in Sems,
           NEW p \in [Threads -> {"run", "wait", "timed", "sleep"}], NEW i,
           Calls(a, p, i), p[a.cur] = "run", NEW c, NEW j, Blocks(a, s, c, j),
           NEW r, r = [p EXCEPT ![a.cur] = c]
    PROVE  /\ Good(j, Payload) /\ Highest(j)
           /\ SemLists(j) /\ Calls(j, r, i)
           /\ Joined(a, j, s, a.cur)
<1>1. /\ a \in Kernel(Payload) /\ a.queue \in [Sems -> Seq(Threads)]
      /\ a.cur \in Threads /\ a.u \in [Threads -> Payload]
      /\ a.armed \subseteq Threads /\ a.state \in [Threads -> States]
  BY KernelParts, SemsAssumption DEF Good
<1>2. PICK t : t = a.cur OBVIOUS
<1>3. t \in Threads /\ a.state[t] = "CURRENT"
  BY <1>1, <1>2 DEF Good, ReadyListOK
<1>4. PICK q : q = a.queue[s] OBVIOUS
<1>5. q \in Seq(Threads) /\ NoRepeat(q) /\ t \notin Range(q)
  BY <1>1, <1>3, <1>4 DEF SemLists
<1>6. PICK w : w = Append(q, t) OBVIOUS
<1>7. /\ w \in Seq(Threads) /\ Len(w) = Len(q) + 1 /\ NoRepeat(w)
      /\ \A x : x \in Range(w) <=> x \in Range(q) \/ x = t
  <2>1. Range(Append(q, t)) = Range(q) \cup {t}
    BY <1>3, <1>5, AppendList
  <2> QED BY <1>3, <1>5, <1>6, <2>1, AppendList
<1>8. PICK h : h = IF c = "timed" THEN a.armed \cup {t} ELSE a.armed
  OBVIOUS
<1>9. PICK b : b = [a EXCEPT !.u = [a.u EXCEPT ![t] = s],
                             !.queue = [a.queue EXCEPT ![s] = w],
                             !.armed = h]
  OBVIOUS
<1>10. /\ b \in Kernel(Payload)
       /\ b.u = [a.u EXCEPT ![t] = s] /\ b.queue = [a.queue EXCEPT ![s] = w]
       /\ b.armed = h
       /\ b.cur = a.cur /\ b.ready = a.ready /\ b.state = a.state /\ b.prio = a.prio
  <2>1. [a.u EXCEPT ![t] = s] \in [Threads -> Payload]
    BY <1>1, <1>3 DEF Payload
  <2>2. [a.queue EXCEPT ![s] = w] \in [Queues -> Seq(Threads)]
    BY <1>1, <1>7, SemsAssumption
  <2>3. h \in SUBSET Threads
    BY <1>1, <1>3, <1>8
  <2> QED BY <1>1, <1>9, <2>1, <2>2, <2>3 DEF Kernel
<1>11. Good(b, Payload)
  BY <1>10, OtherParts
<1>12. j = chSchGoSleepS(b, "WTSEM")
  <2>1. PICK e : e = Enqueue(a, s) OBVIOUS
  <2>2. e = [a EXCEPT !.u = [a.u EXCEPT ![t] = s],
                      !.queue = [a.queue EXCEPT ![s] = w]]
    BY <1>1, <1>2, <1>4, <1>6, <2>1 DEF Enqueue, queue_insert, Kernel
  <2>3. CASE c = "wait"
    <3>1. b = e
      BY <1>1, <1>8, <1>9, <2>2, <2>3 DEF Kernel
    <3> QED BY <2>1, <2>3, <3>1 DEF Blocks
  <2>4. CASE c = "timed"
    <3>1. b = [e EXCEPT !.armed = e.armed \cup {e.cur}]
      BY <1>1, <1>2, <1>8, <1>9, <2>2, <2>4 DEF Kernel
    <3> QED BY <2>1, <2>4, <3>1 DEF chSchGoSleepTimeoutS, Blocks
  <2> QED BY <2>3, <2>4 DEF Blocks
<1>13. /\ Good(j, Payload) /\ Highest(j) /\ j.state[t] = "WTSEM"
       /\ Same([b EXCEPT !.state[b.cur] = "WTSEM"], j)
  <2>1. "WTSEM" \in Blocked /\ b.cur # Idle /\ b.cur = t
    BY <1>2, <1>10 DEF Blocked
  <2>2. /\ Good(j, Payload) /\ Highest(j) /\ j.state[b.cur] = "WTSEM"
        /\ Same([b EXCEPT !.state[b.cur] = "WTSEM"], j)
    BY <1>11, <1>12, <2>1, GoSleepS
  <2> QED BY <2>1, <2>2
<1>14. /\ j.queue = b.queue /\ j.u = b.u /\ j.armed = b.armed /\ Others(a, j, t)
  <2>1. PICK d : d = [b EXCEPT !.state[b.cur] = "WTSEM"]
    OBVIOUS
  <2>2. /\ d.queue = b.queue /\ d.u = b.u /\ d.armed = b.armed
        /\ d.state = [b.state EXCEPT ![t] = "WTSEM"]
    BY <1>2, <1>10, <2>1 DEF Kernel
  <2>3. \A x \in Threads \ {t} : d.state[x] = a.state[x]
    BY <1>1, <1>10, <2>2
  <2> QED BY <1>13, <2>1, <2>2, <2>3 DEF Same, Others
<1>15. Joined(a, j, s, t)
  BY <1>1, <1>4, <1>7, <1>10, <1>14 DEF Joined
<1>16. SemLists(j) /\ Calls(j, [p EXCEPT ![t] = c], i)
  <2>1. \/ c = "wait" /\ j.armed = a.armed
        \/ c = "timed" /\ j.armed = a.armed \cup {t}
    BY <1>8, <1>10, <1>14 DEF Blocks
  <2>2. a.state[t] \in Runnable /\ j.u = [a.u EXCEPT ![t] = s] /\ p[t] = "run"
    BY <1>2, <1>3, <1>10, <1>14 DEF Runnable
  <2> QED BY <1>1, <1>3, <1>13, <1>14, <1>15, <2>1, <2>2, BlockStep
<1> QED BY <1>2, <1>13, <1>15, <1>16

\* chThdSleepS: the running thread sleeps with its timer armed.
LEMMA SleepS ==
    ASSUME NEW a, Good(a, Payload), SemLists(a), a.cur # Idle,
           NEW p \in [Threads -> {"run", "wait", "timed", "sleep"}], NEW i,
           Calls(a, p, i), p[a.cur] = "run",
           NEW j, j = chSchGoSleepTimeoutS(a, "SLEEPING")
    PROVE  /\ Good(j, Payload) /\ Highest(j) /\ j.queue = a.queue
           /\ SemLists(j) /\ Calls(j, [p EXCEPT ![a.cur] = "sleep"], i)
<1>1. /\ a \in Kernel(Payload) /\ a.cur \in Threads
      /\ a.armed \subseteq Threads /\ a.state \in [Threads -> States]
  BY KernelParts DEF Good
<1>2. PICK t : t = a.cur OBVIOUS
<1>3. t \in Threads /\ a.state[t] = "CURRENT"
  BY <1>1, <1>2 DEF Good, ReadyListOK
<1>4. PICK b : b = [a EXCEPT !.armed = a.armed \cup {t}]
  OBVIOUS
<1>5. /\ b \in Kernel(Payload) /\ b.armed = a.armed \cup {t}
      /\ b.u = a.u /\ b.queue = a.queue
      /\ b.cur = a.cur /\ b.ready = a.ready /\ b.state = a.state /\ b.prio = a.prio
  BY <1>1, <1>3, <1>4 DEF Kernel
<1>6. Good(b, Payload)
  BY <1>5, OtherParts
<1>7. j = chSchGoSleepS(b, "SLEEPING")
  BY <1>2, <1>4 DEF chSchGoSleepTimeoutS
<1>8. /\ Good(j, Payload) /\ Highest(j) /\ j.state[t] = "SLEEPING"
      /\ Same([b EXCEPT !.state[b.cur] = "SLEEPING"], j)
  <2>1. "SLEEPING" \in Blocked /\ b.cur # Idle /\ b.cur = t
    BY <1>2, <1>5 DEF Blocked
  <2>2. /\ Good(j, Payload) /\ Highest(j) /\ j.state[b.cur] = "SLEEPING"
        /\ Same([b EXCEPT !.state[b.cur] = "SLEEPING"], j)
    BY <1>6, <1>7, <2>1, GoSleepS
  <2> QED BY <2>1, <2>2
<1>9. j.queue = a.queue /\ j.u = a.u /\ j.armed = a.armed \cup {t} /\ Others(a, j, t)
  <2>1. PICK d : d = [b EXCEPT !.state[b.cur] = "SLEEPING"]
    OBVIOUS
  <2>2. /\ d.queue = b.queue /\ d.u = b.u /\ d.armed = b.armed
        /\ d.state = [b.state EXCEPT ![t] = "SLEEPING"]
    BY <1>2, <1>5, <2>1 DEF Kernel
  <2>3. \A x \in Threads \ {t} : d.state[x] = a.state[x]
    BY <1>1, <1>5, <2>2
  <2> QED BY <1>5, <1>8, <2>1, <2>2, <2>3 DEF Same, Others
<1>10. SemLists(j)
  BY <1>3, <1>8, <1>9 DEF SemLists, Others, Runnable
<1>11. Calls(j, [p EXCEPT ![t] = "sleep"], i)
  <2> DEFINE r == [p EXCEPT ![t] = "sleep"]
  <2>1. r[t] = "sleep" /\ \A x \in Threads \ {t} : r[x] = p[x]
    BY <1>3
  <2> HIDE DEF r
  <2>2. Call(j, r, i, t)
    BY <1>8, <1>9, <2>1 DEF Call, Runnable
  <2>3. ASSUME NEW x \in Threads \ {t} PROVE Call(j, r, i, x)
    BY <1>9, <2>1 DEF Calls, Call, Others, Runnable
  <2> QED BY <2>2, <2>3 DEF Calls, r
<1> QED BY <1>2, <1>8, <1>9, <1>10, <1>11

\* A thread that is switched in disarms its timer and is out of its call.
LEMMA CallEnds ==
    ASSUME NEW a, Good(a, Payload), SemLists(a),
           NEW p \in [Threads -> {"run", "wait", "timed", "sleep"}],
           Calls(a, p, "none"),
           NEW j, j = IF p[a.cur] = "wait" THEN a ELSE SleepTimeoutEnd(a)
    PROVE  /\ Good(j, Payload) /\ (Highest(j) <=> Highest(a)) /\ j.queue = a.queue
           /\ SemLists(j) /\ Calls(j, [p EXCEPT ![a.cur] = "run"], "none")
<1>1. /\ a \in Kernel(Payload) /\ a.cur \in Threads /\ a.armed \subseteq Threads
  BY KernelParts DEF Good
<1>2. PICK t : t = a.cur OBVIOUS
<1>3. t \in Threads /\ a.state[t] = "CURRENT"
  BY <1>1, <1>2 DEF Good, ReadyListOK
<1>4. /\ j \in Kernel(Payload) /\ j.armed = a.armed \ {t}
      /\ j.u = a.u /\ j.queue = a.queue
      /\ j.cur = a.cur /\ j.ready = a.ready /\ j.state = a.state /\ j.prio = a.prio
  <2>1. CASE p[t] = "wait"
    BY <1>1, <1>2, <1>3, <2>1 DEF Calls, Call
  <2>2. CASE p[t] # "wait"
    <3>1. j = [a EXCEPT !.armed = a.armed \ {t}]
      BY <1>2, <2>2 DEF SleepTimeoutEnd
    <3> QED BY <1>1, <3>1 DEF Kernel
  <2> QED BY <2>1, <2>2
<1>5. Good(j, Payload) /\ (Highest(j) <=> Highest(a))
  BY <1>4, OtherParts
<1>6. SemLists(j)
  BY <1>4 DEF SemLists
<1>7. Calls(j, [p EXCEPT ![t] = "run"], "none")
  <2> DEFINE r == [p EXCEPT ![t] = "run"]
  <2>1. r[t] = "run" /\ \A x \in Threads \ {t} : r[x] = p[x]
    BY <1>3
  <2> HIDE DEF r
  <2>2. Call(j, r, "none", t)
    BY <1>3, <1>4, <2>1, NamesAssumption, ContextAssumption DEF Call, Runnable
  <2>3. ASSUME NEW x \in Threads \ {t} PROVE Call(j, r, "none", x)
    BY <1>4, <2>1 DEF Calls, Call
  <2> QED BY <2>2, <2>3 DEF Calls, r
<1> QED BY <1>2, <1>4, <1>5, <1>6, <1>7

\* An expired timer leaves the list; its callback is now pending.
LEMMA TimerTaken ==
    ASSUME NEW a, Good(a, Payload), SemLists(a), NEW p, Calls(a, p, "tick"),
           NEW t \in a.armed, NEW j, j = [a EXCEPT !.armed = a.armed \ {t}]
    PROVE  /\ Good(j, Payload) /\ j.queue = a.queue /\ j.cur = a.cur
           /\ SemLists(j) /\ Calls(j, p, t)
<1>1. a \in Kernel(Payload) /\ a.armed \subseteq Threads
  BY KernelParts DEF Good
<1>2. /\ j \in Kernel(Payload) /\ j.armed = a.armed \ {t}
      /\ j.u = a.u /\ j.queue = a.queue
      /\ j.cur = a.cur /\ j.ready = a.ready /\ j.state = a.state /\ j.prio = a.prio
  BY <1>1 DEF Kernel
<1>3. Good(j, Payload)
  BY <1>2, OtherParts
<1>4. SemLists(j)
  BY <1>2 DEF SemLists
<1>5. Calls(j, p, t)
  BY <1>2, NamesAssumption, ContextAssumption DEF Calls, Call
<1> QED BY <1>2, <1>3, <1>4, <1>5

\* The callback of a timeout finds its thread asleep and wakes it, or finds
\* that it has been woken already and does nothing.
LEMMA TimeoutWakes ==
    ASSUME NEW a, Good(a, Payload), SemLists(a), NEW t \in Threads,
           NEW p, Calls(a, p, t), p[a.cur] = "run",
           NEW j, j = wakeup(a, t)
    PROVE  /\ Good(j, Payload) /\ SemLists(j) /\ Calls(j, p, "tick")
           /\ j.cur = a.cur
           /\ a.state[t] # "WTSEM" => j.queue = a.queue
           /\ a.state[t] = "WTSEM" =>
                  /\ a.u[t] \in Sems
                  /\ Len(a.queue[a.u[t]]) > 0
                  /\ OneLess(a, j, a.u[t])
<1>1. /\ a \in Kernel(Payload) /\ a.state \in [Threads -> States]
      /\ a.u \in [Threads -> Payload] /\ a.queue \in [Sems -> Seq(Threads)]
  BY KernelParts, SemsAssumption DEF Good
<1>2. a.state[t] \in {"READY", "WTSEM", "SLEEPING"}
  <2>1. p[t] \in {"timed", "sleep"} /\ t # a.cur
    BY DEF Calls, Call
  <2>2. a.state[t] # "CURRENT"
    BY <2>1 DEF Good, ReadyListOK
  <2> QED BY <2>1, <2>2 DEF Calls, Call, Runnable
<1>3. ASSUME Calls(j, p, t), j.state[t] \in Runnable
      PROVE  Calls(j, p, "tick")
  BY <1>3, NamesAssumption, ContextAssumption DEF Calls, Call
<1>4. CASE a.state[t] = "READY"
  <2>1. j = a
    BY <1>4 DEF wakeup
  <2> QED BY <1>3, <1>4, <2>1 DEF Runnable
<1>5. CASE a.state[t] = "SLEEPING"
  <2>1. PICK d : d = [a EXCEPT !.u[t] = RDY_TIMEOUT]
    OBVIOUS
  <2>2. j = chSchReadyI(d, t)
    BY <1>5, <2>1 DEF wakeup
  <2>3. /\ d \in Kernel(Payload) /\ d.u = [a.u EXCEPT ![t] = RDY_TIMEOUT]
        /\ d.cur = a.cur /\ d.ready = a.ready /\ d.state = a.state
        /\ d.prio = a.prio /\ d.queue = a.queue /\ d.armed = a.armed
    <3>1. [a.u EXCEPT ![t] = RDY_TIMEOUT] \in [Threads -> Payload]
      BY <1>1 DEF Payload, Msgs
    <3> QED BY <1>1, <2>1, <3>1 DEF Kernel
  <2>4. Good(d, Payload) /\ d.state[t] \notin Runnable
    BY <1>5, <2>3, OtherParts DEF Runnable
  <2>5. /\ Good(j, Payload) /\ j.state = [d.state EXCEPT ![t] = "READY"]
        /\ j.cur = d.cur /\ j.queue = d.queue /\ j.u = d.u /\ j.armed = d.armed
    BY <2>2, <2>4, ReadyGood
  <2>6. j.state[t] \in Runnable /\ Others(a, j, t)
    BY <1>1, <2>3, <2>5 DEF Others, Runnable
  <2>7. RDY_TIMEOUT \in Answers(p[t])
    BY <1>5 DEF Calls, Call, Answers
  <2>8. SemLists(j) /\ Calls(j, p, t)
    <3>1. /\ a.state[t] \in {"SUSPENDED", "SLEEPING"} /\ j.queue = a.queue
          /\ j.u = [a.u EXCEPT ![t] = RDY_TIMEOUT] /\ j.armed = a.armed
      BY <1>5, <2>3, <2>5
    <3> QED BY <1>1, <2>6, <2>7, <3>1, WakeStep
  <2> QED BY <1>3, <1>5, <2>3, <2>5, <2>6, <2>8
<1>6. CASE a.state[t] = "WTSEM"
  <2>1. PICK s : s = a.u[t] OBVIOUS
  <2>2. s \in Sems /\ t \in Range(a.queue[s]) /\ \A q \in Sems \ {s} : t \notin Range(a.queue[q])
    BY <1>6, <2>1 DEF Calls, Call, SemLists
  <2>3. PICK r : r = [q \in Queues |-> Unlink(a.queue[q], t)]
    OBVIOUS
  <2>4. /\ r \in [Queues -> Seq(Threads)]
        /\ \A q \in Sems \ {s} : r[q] = a.queue[q]
        /\ NoRepeat(r[s]) /\ Len(r[s]) = Len(a.queue[s]) - 1
        /\ \A x : x \in Range(r[s]) <=> x \in Range(a.queue[s]) /\ x # t
    <3>1. \A q \in Sems : a.queue[q] \in Seq(Threads) /\ NoRepeat(a.queue[q])
      BY <1>1 DEF SemLists
    <3>2. \A q \in Sems : Unlink(a.queue[q], t) \in Seq(Threads)
      BY <3>1, UnlinkList
    <3>3. \A q \in Sems \ {s} : Unlink(a.queue[q], t) = a.queue[q]
      BY <2>2, <3>1, UnlinkList
    <3>4. PICK q : q = a.queue[s] OBVIOUS
    <3>5. /\ NoRepeat(Unlink(q, t)) /\ Len(Unlink(q, t)) = Len(q) - 1
          /\ Range(Unlink(q, t)) = Range(q) \ {t}
      BY <2>2, <3>1, <3>4, UnlinkList
    <3>6. r[s] = Unlink(q, t)
      BY <2>2, <2>3, <3>4, SemsAssumption
    <3> QED BY <2>2, <2>3, <3>2, <3>3, <3>4, <3>5, <3>6, SemsAssumption
  <2>5. Len(a.queue[s]) > 0
    <3>1. PICK q : q = a.queue[s] OBVIOUS
    <3>2. q \in Seq(Threads) /\ t \in Range(q)
      BY <1>1, <2>2, <3>1
    <3>3. PICK x \in 1 .. Len(q) : q[x] = t
      BY <3>2, InList
    <3> QED BY <3>1, <3>2, <3>3, InList
  <2>6. PICK d : d = [a EXCEPT !.queue = r, !.u = [a.u EXCEPT ![t] = RDY_TIMEOUT]]
    OBVIOUS
  <2>7. j = chSchReadyI(d, t)
    <3>1. dequeue(a, t) = [a EXCEPT !.queue = r]
      BY <2>3 DEF dequeue
    <3>2. [dequeue(a, t) EXCEPT !.u[t] = RDY_TIMEOUT] = d
      BY <1>1, <2>6, <3>1 DEF Kernel
    <3>3. wakeup(a, t) = chSchReadyI([dequeue(a, t) EXCEPT !.u[t] = RDY_TIMEOUT], t)
      BY <1>6 DEF wakeup
    <3> QED BY <3>2, <3>3
  <2>8. /\ d \in Kernel(Payload) /\ d.u = [a.u EXCEPT ![t] = RDY_TIMEOUT]
        /\ d.cur = a.cur /\ d.ready = a.ready /\ d.state = a.state
        /\ d.prio = a.prio /\ d.queue = r /\ d.armed = a.armed
    <3>1. [a.u EXCEPT ![t] = RDY_TIMEOUT] \in [Threads -> Payload]
      BY <1>1 DEF Payload, Msgs
    <3> QED BY <1>1, <2>4, <2>6, <3>1 DEF Kernel
  <2>9. Good(d, Payload) /\ d.state[t] \notin Runnable
    BY <1>6, <2>8, OtherParts DEF Runnable
  <2>10. /\ Good(j, Payload) /\ j.state = [d.state EXCEPT ![t] = "READY"]
         /\ j.cur = d.cur /\ j.queue = d.queue /\ j.u = d.u /\ j.armed = d.armed
    BY <2>7, <2>9, ReadyGood
  <2>11. j.state[t] \in Runnable /\ Others(a, j, t)
    BY <1>1, <2>8, <2>10 DEF Others, Runnable
  <2>12. RDY_TIMEOUT \in Answers(p[t])
    BY <1>6 DEF Calls, Call, Answers, Msgs
  <2>13. Left(a, j, s, t)
    BY <2>4, <2>8, <2>10 DEF Left
  <2>14. SemLists(j) /\ Calls(j, p, t)
    <3>1. j.u = [a.u EXCEPT ![t] = RDY_TIMEOUT] /\ j.armed = a.armed
      BY <2>8, <2>10
    <3> QED BY <1>1, <2>2, <2>11, <2>12, <2>13, <3>1, ReleaseStep
  <2>15. /\ s \in Sems /\ Len(a.queue[s]) > 0
         /\ OneLess(a, j, s)
    BY <2>2, <2>5, <2>13 DEF Left, OneLess
  <2>16. j.cur = a.cur
    BY <2>8, <2>10
  <2> QED BY <1>3, <1>6, <2>1, <2>10, <2>11, <2>14, <2>15, <2>16
<1> QED BY <1>2, <1>4, <1>5, <1>6
=============================================================================
