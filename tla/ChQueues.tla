------------------------------ MODULE ChQueues -----------------------------
(***************************************************************************)
(* I/O queues (chqueues.c): a circular buffer of bytes between threads,    *)
(* which sleep when they must, and an interrupt handler, which never does. *)
(* Of an input queue the handler is the writer, of an output queue the     *)
(* reader; dir says which of the two the queue is.  The read and write     *)
(* calls move their bytes one critical zone at a time.  The notification   *)
(* callback is the driver's: see SerialUsb.                                *)
(***************************************************************************)
EXTENDS ChSys, SequencesExt

CONSTANTS qp,         \* the queue, one of Queues
          Bytes,
          QSize,      \* q_top - q_buffer
          MaxN        \* bound: the length of a read or write

ASSUME QueueAssumption ==
    /\ qp \in Queues /\ qp \notin Msgs
    /\ QSize \in Nat \ {0} /\ MaxN \in Nat \ {0}

VARIABLES dir,        \* "in" or "out"
          q_counter,  \* bytes to read, or room to write
          q_buffer, q_rdptr, q_wrptr,
          todo        \* what a thread inside a call has still to do

queue == <<q_counter, q_buffer, q_rdptr, q_wrptr>>
qvars == <<k, pc, irq, loop, dir, queue, todo>>

Idling == [n |-> 0, time |-> TIME_INFINITE]

\* chIQInit, chOQInit
QInit ==
    /\ dir \in {"in", "out"}
    /\ q_counter = IF dir = "in" THEN 0 ELSE QSize
    /\ q_buffer = [i \in 0 .. QSize - 1 |-> "none"]
    /\ q_rdptr = 0 /\ q_wrptr = 0
    /\ todo = [t \in Threads |-> Idling]

-----------------------------------------------------------------------------
(* Moving a byte.  The counter serves the threads' side of the queue.      *)

\* Mutant: the write pointer runs past q_top by one byte.
PutByte_Late(b) ==
    /\ q_buffer' = [q_buffer EXCEPT ![q_wrptr] = b]
    /\ q_wrptr'  = IF q_wrptr + 1 > QSize - 1 THEN 1 % QSize ELSE q_wrptr + 1
    /\ UNCHANGED q_rdptr

PutByte(b) ==
    /\ q_buffer' = [q_buffer EXCEPT ![q_wrptr] = b]
    /\ q_wrptr'  = (q_wrptr + 1) % QSize
    /\ UNCHANGED q_rdptr

GetByte ==
    /\ q_rdptr' = (q_rdptr + 1) % QSize
    /\ UNCHANGED <<q_buffer, q_wrptr>>

QMove(b, writes) == IF writes THEN PutByte(b) ELSE GetByte

\* Mutant: no waiting thread is woken for the byte or the room.
WakeOne_None(k1) == k1

\* One waiting thread is woken, the first to have come.
WakeOne(k1) ==
    IF k1.queue[qp] = <<>> THEN k1
    ELSE LET t == Head(k1.queue[qp])
         IN  chSchReadyI([fifo_remove(k1, qp) EXCEPT !.u[t] = RDY_OK], t)

\* The handler's side: chIQPutI and chOQGetI, which give up on a queue that
\* is full or empty.
HandlerMove(b) ==
    /\ InIsr
    /\ q_counter < QSize
    /\ q_counter' = q_counter + 1
    /\ QMove(b, dir = "in")
    /\ k' = IsrExit(WakeOne(k))
    /\ UNCHANGED <<pc, irq, loop, dir, todo>>

chIQPutI(b) == dir = "in" /\ HandlerMove(b)
chOQGetI    == dir = "out" /\ HandlerMove("none")

\* chIQResetI, chOQResetI: every waiting thread is woken with Q_RESET, in the
\* order of the queue.
WakeAll ==
    FoldLeft(LAMBDA k1, t : chSchReadyI([fifo_remove(k1, qp)
                                             EXCEPT !.u[t] = RDY_RESET], t),
             k, k.queue[qp])

QReset ==
    /\ InIsr
    /\ q_rdptr' = 0 /\ q_wrptr' = 0
    /\ q_counter' = IF dir = "in" THEN 0 ELSE QSize
    /\ k' = IsrExit(WakeAll)
    /\ UNCHANGED <<pc, irq, loop, dir, q_buffer, todo>>
-----------------------------------------------------------------------------
(* The threads' side: chIQGetTimeout and chIQReadTimeout of an input queue, *)
(* chOQPutTimeout and chOQWriteTimeout of an output queue.                 *)

\* qwait
qwait(k1, time) ==
    LET k2 == queue_insert([k1 EXCEPT !.u[k1.cur] = qp], k1.cur, qp)
    IN  IF time = TIME_INFINITE THEN chSchGoSleepS(k2, "WTQUEUE")
                                ELSE chSchGoSleepTimeoutS(k2, "WTQUEUE")

\* One round of the call c, from the test of the queue on: the thread moves a
\* byte, sleeps for one, or gives up.
Round(c, b, k1) ==
    \/ /\ q_counter > 0
       /\ q_counter' = q_counter - 1
       /\ QMove(b, dir = "out")
       /\ k' = k1
       /\ pc' = [pc EXCEPT ![k.cur] = "run"]
       /\ todo' = [todo EXCEPT ![k.cur] =
                      IF c.n = 1 THEN Idling ELSE [c EXCEPT !.n = @ - 1]]
    \/ /\ q_counter = 0 /\ c.time # TIME_IMMEDIATE
       /\ k' = qwait(k1, c.time)
       /\ pc' = [pc EXCEPT ![k.cur] =
                    IF c.time = TIME_INFINITE THEN "wait" ELSE "timed"]
       /\ todo' = [todo EXCEPT ![k.cur] = c]
       /\ UNCHANGED queue
    \/ /\ q_counter = 0 /\ c.time = TIME_IMMEDIATE
       /\ k' = k1
       /\ pc' = [pc EXCEPT ![k.cur] = "run"]
       /\ todo' = [todo EXCEPT ![k.cur] = Idling]
       /\ UNCHANGED queue

ThreadBytes == IF dir = "out" THEN Bytes ELSE {"none"}

QCall(n, time) ==
    /\ InThread
    /\ todo[k.cur] = Idling
    /\ \E b \in ThreadBytes : Round([n |-> n, time |-> time], b, k)
    /\ UNCHANGED <<irq, loop, dir>>

\* The next byte, in a critical zone of its own.
QNextByte ==
    /\ InThread
    /\ todo[k.cur] # Idling
    /\ \E b \in ThreadBytes : Round(todo[k.cur], b, k)
    /\ UNCHANGED <<irq, loop, dir>>

\* A thread switched in looks at the queue again: another thread may have been
\* faster.
QResume ==
    /\ SwitchedIn
    /\ LET k1 == IF pc[k.cur] = "timed" THEN SleepTimeoutEnd(k) ELSE k
       IN  \/ /\ k.u[k.cur] = RDY_OK
              /\ \E b \in ThreadBytes : Round(todo[k.cur], b, k1)
           \/ /\ k.u[k.cur] # RDY_OK
              /\ k' = k1
              /\ pc' = [pc EXCEPT ![k.cur] = "run"]
              /\ todo' = [todo EXCEPT ![k.cur] = Idling]
              /\ UNCHANGED queue
    /\ UNCHANGED <<irq, loop, dir>>

-----------------------------------------------------------------------------
QTick ==
    /\ \/ EnterTick
       \/ \E t \in Threads : TakeTimer(t)
       \/ CallTimer
       \/ LeaveTick
    /\ UNCHANGED <<dir, queue, todo>>

QNext ==
    \/ \E t \in Threads : StartThread(t) /\ UNCHANGED <<dir, queue, todo>>
    \/ \E n \in 1 .. MaxN, time \in Times : QCall(n, time)
    \/ QNextByte
    \/ \E b \in Bytes : chIQPutI(b)
    \/ chOQGetI
    \/ QReset
    \/ QResume
    \/ QTick

-----------------------------------------------------------------------------
(* Properties. *)

QTypeOK ==
    /\ k \in Kernel(Msgs \cup Queues)
    /\ pc \in [Threads -> {"run", "wait", "timed"}]
    /\ irq \in {"none", "tick"} \cup Threads /\ loop = <<>>
    /\ dir \in {"in", "out"}
    /\ q_counter \in 0 .. QSize
    /\ q_buffer \in [0 .. QSize - 1 -> Bytes \cup {"none"}]
    /\ q_rdptr \in 0 .. QSize - 1 /\ q_wrptr \in 0 .. QSize - 1
    /\ todo \in [Threads -> [n : 0 .. MaxN, time : Times]]

\* Threads woken for a byte, or for room, that have not run yet.
Woken == {t \in Threads : /\ pc[t] # "run" /\ todo[t] # Idling
                          /\ k.state[t] \in {"READY", "CURRENT"}
                          /\ k.u[t] = RDY_OK}

\* No thread sleeps beside a byte, or beside room, that no other thread has
\* been woken for: the handler wakes one thread for each, and a thread that
\* finds its byte taken sleeps again.
QNoLostWakeup ==
    \A t \in Range(k.queue[qp]) :
        k.state[t] = "WTQUEUE" => q_counter <= Cardinality(Woken)

\* The bytes in the queue, from the one to be read next.
Filled    == IF dir = "in" THEN q_counter ELSE QSize - q_counter
QContents == [i \in 1 .. Filled |-> q_buffer[(q_rdptr + i - 1) % QSize]]

\* Whichever way the calls, the handler, timeouts and resets interleave, the
\* queue is the bounded queue of AbsQueue.
QAbs == INSTANCE AbsQueue WITH Size <- QSize, q <- QContents
ImplementsAbsQueue == QAbs!Spec
=============================================================================
