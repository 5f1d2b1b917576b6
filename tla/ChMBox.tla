------------------------------- MODULE ChMBox ------------------------------
(***************************************************************************)
(* A mailbox (chmboxes.c): a circular buffer, a semaphore that counts its  *)
(* empty slots and one that counts its messages.  A thread that waited for *)
(* a slot or a message moves the data only when it runs again, so between  *)
(* its wake-up and that moment the buffer and the counters disagree by the *)
(* unit the thread has been promised.                                      *)
(***************************************************************************)
EXTENDS ChSys, FiniteSets

CONSTANTS emptysem, fullsem,  \* mb_emptysem, mb_fullsem
          Data,               \* what can be posted
          Size,               \* mb_top - mb_buffer
          None,
          ResetAnyTime        \* whether chMBReset may be called while a
                              \* thread has been promised a slot or a message

ASSUME MBoxAssumption ==
    /\ Queues = {emptysem, fullsem} /\ emptysem # fullsem
    /\ Queues \cap Msgs = {}
    /\ Size \in Nat \ {0}
    /\ ResetAnyTime \in BOOLEAN

VARIABLES cnt,      \* s_cnt of the two semaphores
          buffer, wrptr, rdptr,
          call      \* the call a sleeping thread is inside of

mbox == <<cnt, buffer, wrptr, rdptr, call>>
mbvars == <<k, pc, irq, loop, mbox>>

Sem == INSTANCE ChSem WITH Sems <- Queues, BinSems <- {}, MaxCnt <- Size

MBCalls == [op : {"post", "ahead", "fetch"}, msg : Data \cup {None}]

\* chMBInit
MBInit ==
    /\ cnt = [s \in Queues |-> IF s = emptysem THEN Size ELSE 0]
    /\ buffer = [i \in 0 .. Size - 1 |-> None]
    /\ wrptr = 0 /\ rdptr = 0
    /\ call = [t \in Threads |-> None]

-----------------------------------------------------------------------------
(* Moving a message. *)

Put(msg) ==
    /\ buffer' = [buffer EXCEPT ![wrptr] = msg]
    /\ wrptr'  = (wrptr + 1) % Size
    /\ UNCHANGED rdptr

\* Mutant: the read pointer does not go back to the last slot.
PutAhead_NoWrap(msg) ==
    /\ rdptr'  = IF rdptr = 0 THEN 0 ELSE rdptr - 1
    /\ buffer' = [buffer EXCEPT ![rdptr'] = msg]
    /\ UNCHANGED wrptr

PutAhead(msg) ==
    /\ rdptr'  = (rdptr + Size - 1) % Size
    /\ buffer' = [buffer EXCEPT ![rdptr'] = msg]
    /\ UNCHANGED wrptr

Get ==
    /\ rdptr' = (rdptr + 1) % Size
    /\ UNCHANGED <<buffer, wrptr>>

Move(c) ==
    \/ c.op = "post"  /\ Put(c.msg)
    \/ c.op = "ahead" /\ PutAhead(c.msg)
    \/ c.op = "fetch" /\ Get

\* The semaphore a call waits on, and the one it signals once it has moved
\* its message.
Awaited(c)  == IF c.op = "fetch" THEN fullsem ELSE emptysem
Signaled(c) == IF c.op = "fetch" THEN emptysem ELSE fullsem

Signal(c, k1, cnt1) ==
    Sem!chSemSignalI(k1, Signaled(c), cnt1[Signaled(c)] + 1)

\* The part of chMBPostS, chMBPostAheadS and chMBFetchS after a successful
\* wait.
Complete(c, k1, cnt1) ==
    /\ Move(c)
    /\ cnt' = [cnt1 EXCEPT ![Signaled(c)] = @ + 1]
    /\ k' = chSchRescheduleS(Signal(c, k1, cnt1))

-----------------------------------------------------------------------------
(* The calls. *)

\* chSemWaitTimeoutS on the awaited semaphore, and the rest of the call if
\* there is a unit.  (With none, TIME_IMMEDIATE returns and changes nothing.)
CallS(c, time) ==
    /\ InThread
    /\ LET s == Awaited(c)
           less == [cnt EXCEPT ![s] = @ - 1]
       IN  \/ /\ cnt[s] > 0
              /\ Complete(c, k, less)
              /\ UNCHANGED <<pc, call>>
           \/ /\ cnt[s] <= 0 /\ time # TIME_IMMEDIATE
              /\ cnt' = less
              /\ IF time = TIME_INFINITE
                 THEN /\ k'  = chSchGoSleepS(Sem!Enqueue(k, s), "WTSEM")
                      /\ pc' = [pc EXCEPT ![k.cur] = "wait"]
                 ELSE /\ k'  = chSchGoSleepTimeoutS(Sem!Enqueue(k, s), "WTSEM")
                      /\ pc' = [pc EXCEPT ![k.cur] = "timed"]
              /\ call' = [call EXCEPT ![k.cur] = c]
              /\ UNCHANGED <<buffer, wrptr, rdptr>>
    /\ UNCHANGED <<irq, loop>>

chMBPost(msg, time)      == CallS([op |-> "post", msg |-> msg], time)
chMBPostAhead(msg, time) == CallS([op |-> "ahead", msg |-> msg], time)
chMBFetch(time)          == CallS([op |-> "fetch", msg |-> None], time)

\* Mutant: the message is moved whatever ended the wait.
MBResume_NoTest ==
    /\ SwitchedIn
    /\ Complete(call[k.cur], SleepTimeoutEnd(k), cnt)
    /\ pc'   = [pc EXCEPT ![k.cur] = "run"]
    /\ call' = [call EXCEPT ![k.cur] = None]
    /\ UNCHANGED <<irq, loop>>

\* A thread switched in goes on with its call if its wait was successful.
MBResume ==
    /\ SwitchedIn
    /\ LET k1 == IF pc[k.cur] = "timed" THEN SleepTimeoutEnd(k) ELSE k
       IN  \/ /\ k.u[k.cur] = RDY_OK
              /\ Complete(call[k.cur], k1, cnt)
           \/ /\ k.u[k.cur] # RDY_OK
              /\ k' = k1
              /\ UNCHANGED <<cnt, buffer, wrptr, rdptr>>
    /\ pc'   = [pc EXCEPT ![k.cur] = "run"]
    /\ call' = [call EXCEPT ![k.cur] = None]
    /\ UNCHANGED <<irq, loop>>

\* The calls of interrupt handlers give up if there is no unit.
CallI(c) ==
    /\ InIsr
    /\ cnt[Awaited(c)] > 0
    /\ LET less == [cnt EXCEPT ![Awaited(c)] = @ - 1]
       IN  /\ Move(c)
           /\ cnt' = [less EXCEPT ![Signaled(c)] = @ + 1]
           /\ k' = IsrExit(Signal(c, k, less))
    /\ UNCHANGED <<pc, irq, loop, call>>

chMBPostI(msg)      == CallI([op |-> "post", msg |-> msg])
chMBPostAheadI(msg) == CallI([op |-> "ahead", msg |-> msg])
chMBFetchI          == CallI([op |-> "fetch", msg |-> None])

-----------------------------------------------------------------------------
(* Reset: the two loops of chSemResetI, one after the other. *)

\* The threads that have been promised a slot or a message.
Promised == {t \in Threads : /\ call[t] # None /\ k.u[t] = RDY_OK
                             /\ k.state[t] \in {"READY", "CURRENT"}}

\* ResetAnyTime is a bound on the callers, see the constant.
chMBReset ==
    /\ InThread
    /\ ResetAnyTime \/ Promised = {}
    /\ wrptr' = 0 /\ rdptr' = 0
    /\ cnt'  = [cnt EXCEPT ![emptysem] = Size]
    /\ loop' = <<[kind |-> "reset", s |-> emptysem, n |-> cnt[emptysem],
                  isr |-> FALSE]>>
    /\ UNCHANGED <<k, pc, irq, buffer, call>>

ResetRound == Sem!chSemResetI /\ UNCHANGED <<buffer, wrptr, rdptr, call>>

ResetFullsem ==
    /\ loop # <<>> /\ loop[1].s = emptysem
    /\ loop[1].n + 1 > 0
    /\ cnt'  = [cnt EXCEPT ![fullsem] = 0]
    /\ loop' = <<[kind |-> "reset", s |-> fullsem, n |-> cnt[fullsem],
                  isr |-> FALSE]>>
    /\ UNCHANGED <<k, pc, irq, buffer, wrptr, rdptr, call>>

ResetEnd ==
    /\ loop # <<>> /\ loop[1].s = fullsem
    /\ Sem!LoopEnd
    /\ UNCHANGED <<buffer, wrptr, rdptr, call>>

-----------------------------------------------------------------------------
(* Threads and the tick. *)

MBTick ==
    \/ EnterTick /\ UNCHANGED mbox
    \/ \E t \in Threads : TakeTimer(t) /\ UNCHANGED mbox
    \/ Sem!TimeoutCallback /\ UNCHANGED <<buffer, wrptr, rdptr, call>>
    \/ LeaveTick /\ UNCHANGED mbox

MBThread ==
    \/ \E t \in Threads : StartThread(t) /\ UNCHANGED mbox
    \/ \E msg \in Data, time \in Times :
           chMBPost(msg, time) \/ chMBPostAhead(msg, time)
    \/ \E time \in Times : chMBFetch(time)
    \/ chMBReset

MBHandler ==
    \/ \E msg \in Data : chMBPostI(msg) \/ chMBPostAheadI(msg)
    \/ chMBFetchI
    \/ MBTick

MBNext ==
    \/ MBThread
    \/ MBHandler
    \/ MBResume
    \/ ResetRound \/ ResetFullsem \/ ResetEnd

-----------------------------------------------------------------------------
(* Properties. *)

MBTypeOK ==
    /\ k \in Kernel(Queues \cup Msgs)
    /\ pc \in [Threads -> {"run", "wait", "timed"}]
    /\ irq \in {"none", "tick"} \cup Threads
    /\ loop \in Seq(Sem!Loop) /\ Len(loop) <= 1
    /\ cnt \in [Queues -> Int]
    /\ buffer \in [0 .. Size - 1 -> Data \cup {None}]
    /\ wrptr \in 0 .. Size - 1 /\ rdptr \in 0 .. Size - 1
    /\ call \in [Threads -> MBCalls \cup {None}]

Units(s)        == IF cnt[s] > 0 THEN cnt[s] ELSE 0
PromisedFrom(s) == Cardinality({t \in Promised : Awaited(call[t]) = s})

\* Every slot is free, full, or promised to one thread that has been woken for
\* it: a signal, a timeout and a handler that race for the same slot never
\* make it two or none.
SlotsAccounted ==
    loop = <<>> =>
        Units(emptysem) + PromisedFrom(emptysem)
            + Units(fullsem) + PromisedFrom(fullsem) = Size

\* Nobody sleeps for a slot or a message while there is one nobody has been
\* promised.
NoLostWakeup ==
    loop = <<>> =>
        \A s \in Queues : \A t \in Range(k.queue[s]) :
            k.state[t] = "WTSEM" => Units(s) = 0

\* The messages in the buffer, from the one to be read next.  A reset has
\* emptied the mailbox although the counter of messages follows only later.
Stored ==
    IF loop # <<>> /\ loop[1].s = emptysem THEN 0
    ELSE Units(fullsem) + PromisedFrom(fullsem)
Contents == [i \in 1 .. Stored |-> buffer[(rdptr + i - 1) % Size]]

\* The mailbox is the bounded queue of AbsMBox: first posted first fetched,
\* the urgent ahead, none lost, none doubled, none overwritten.
MBAbs == INSTANCE AbsMBox WITH q <- Contents
ImplementsAbsMBox == MBAbs!Spec

\* chMBGetUsedCountI: "Returns the number of used message slots into a
\* mailbox", of which there are chMBSizeI.
UsedSlots == loop = <<>> => cnt[fullsem] <= Size
=============================================================================
