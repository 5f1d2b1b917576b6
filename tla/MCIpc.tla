------------------------------- MODULE MCIpc -------------------------------
(***************************************************************************)
(* Mailboxes, events and I/O queues.  They share the scheduler and no      *)
(* state of their own, so each is explored by itself: part says which.     *)
(* A thread of the lower priority waits without a timeout: t1 for the      *)
(* mailbox, t2 for events.                                                 *)
(***************************************************************************)
EXTENDS ChMBox, ChEvt, ChQueues

CONSTANTS t1, t2, t3,   \* the threads besides Idle
          l1, l2        \* the listeners

VARIABLE part

\* Two threads share a priority level, so that a woken thread has to wait.
MCPrio == [t \in Threads |-> CASE t = Idle -> 1 [] t = t3 -> 3 [] OTHER -> 2]

DataSymmetry == Permutations(Data)

\* t1 never starts in the parts about events and queues: two threads are
\* enough there.
MCOwner == [l \in Listeners |-> IF l = l1 THEN t2 ELSE t3]
MCMask  == [l \in Listeners |-> IF l = l1 THEN {0} ELSE {0, 1}]
MCUses  == [t \in Threads |-> CASE t = t2 -> {{0}}
                                [] t = t3 -> {{0}, {1}, {0, 1}}
                                [] OTHER  -> {}]

ioqvars == <<dir, queue, todo>>
vars    == <<mbvars, evt, wait, ioqvars, part>>

Init ==
    /\ SysInit /\ MBInit /\ EvtInit /\ QInit
    /\ part \in {"mbox", "evt", "queue"}
    /\ part # "mbox" => k.cur # t1
    /\ part # "queue" => dir = "in"

Next ==
    /\ UNCHANGED part
    /\ \/ part = "mbox" /\ MBNext /\ t1 \notin k'.armed
          /\ UNCHANGED <<evt, wait, ioqvars>>
       \/ part = "evt" /\ EvtNext /\ k'.state[t1] = "SUSPENDED" /\ t2 \notin k'.armed
          /\ UNCHANGED <<mbox, ioqvars>>
       \/ part = "queue" /\ QNext /\ k'.state[t1] = "SUSPENDED"
          /\ UNCHANGED <<mbox, evt, wait>>

Spec == Init /\ [][Next]_vars
-----------------------------------------------------------------------------
\* Every slot of the mailbox is free, full or promised to one thread, and
\* nobody sleeps for one that is not promised to another.
MailboxOK == part = "mbox" => MBTypeOK /\ SlotsAccounted /\ NoLostWakeup

\* A thread sleeps exactly as long as its events are not there: it is not
\* asleep when they are pending, and has them when it returns without a
\* timeout.
EventWaitsOK == part = "evt" => EvtTypeOK /\ NoEventSleptOver /\ WaitsReturnEvents

\* Nobody sleeps on an I/O queue beside a byte, or room, that is for them.
QueueWaitsOK == part = "queue" => QTypeOK /\ QNoLostWakeup
=============================================================================
