------------------------------- MODULE ChMsg -------------------------------
(***************************************************************************)
(* Synchronous messages (chmsg.c, chmsg.h).  A sender queues itself on the *)
(* thread it sends to and sleeps; the receiver takes senders off the queue *)
(* and wakes each with an answer, which comes back in p_u.                 *)
(***************************************************************************)
EXTENDS ChSys, FiniteSets

CONSTANTS Servers,    \* the threads that receive messages
          p_msgqueue, \* the queue header of each
          Words,      \* what is sent, and what is answered
          MaxHeld     \* bound: senders a server keeps without an answer

ASSUME MsgAssumption ==
    /\ Servers \subseteq Threads \ {Idle}
    /\ p_msgqueue \in [Servers -> Queues]
    /\ \A s, r \in Servers : p_msgqueue[s] = p_msgqueue[r] => s = r
    /\ Words \cap Msgs = {} /\ "none" \notin Words
    /\ MaxHeld \in Nat \ {0}

VARIABLES p_msg,      \* the message a thread carries
          held        \* the senders a server has got from chMsgWait and has
                      \* not released yet

msgvars == <<k, pc, irq, loop, p_msg, held>>

\* The senders queued on s.
Inbox(s) == k.queue[p_msgqueue[s]]

MsgInit ==
    /\ p_msg = [t \in Threads |-> "none"]
    /\ held = [s \in Servers |-> {}]

-----------------------------------------------------------------------------
\* Mutant: a receiver that sleeps for a message is not woken.
MsgQueued_NoWakeup(k1, s) == queue_insert(k1, k1.cur, p_msgqueue[s])

\* The sender in the queue of s, and s made ready if it waits for a message.
MsgQueued(k1, s) ==
    LET q  == p_msgqueue[s]
        k2 == queue_insert([k1 EXCEPT !.u[k1.cur] = q], k1.cur, q)
    IN  IF k1.state[s] = "WTMSG" THEN chSchReadyI(k2, s) ELSE k2

\* The pointer to a thread comes from its creation, so s has been started.
chMsgSend(s, m) ==
    /\ InThread /\ k.cur \notin Servers
    /\ k.state[s] # "SUSPENDED"
    /\ p_msg' = [p_msg EXCEPT ![k.cur] = m]
    /\ k'  = chSchGoSleepS(MsgQueued(k, s), "SNDMSGQ")
    /\ pc' = [pc EXCEPT ![k.cur] = "send"]
    /\ UNCHANGED <<irq, loop, held>>

\* Mutant: the newest sender is taken.
MsgTake_Last(s) ==
    LET t == LastOf(Inbox(s))
    IN  /\ k' = [lifo_remove(k, p_msgqueue[s]) EXCEPT !.state[t] = "SNDMSG"]
        /\ held' = [held EXCEPT ![s] = @ \cup {t}]

\* Mutant: the sender stays in the state of those that wait in the queue.
MsgTake_SameState(s) ==
    LET t == Head(Inbox(s))
    IN  /\ k' = fifo_remove(k, p_msgqueue[s])
        /\ held' = [held EXCEPT ![s] = @ \cup {t}]

\* The end of chMsgWait: the first sender leaves the queue.
MsgTake(s) ==
    LET t == Head(Inbox(s))
    IN  /\ k' = [fifo_remove(k, p_msgqueue[s]) EXCEPT !.state[t] = "SNDMSG"]
        /\ held' = [held EXCEPT ![s] = @ \cup {t}]

chMsgWait ==
    /\ InThread /\ k.cur \in Servers
    /\ Cardinality(held[k.cur]) < MaxHeld
    /\ IF Inbox(k.cur) # <<>>
       THEN MsgTake(k.cur) /\ UNCHANGED pc
       ELSE /\ k'  = chSchGoSleepS(k, "WTMSG")
            /\ pc' = [pc EXCEPT ![k.cur] = "msgwait"]
            /\ UNCHANGED held
    /\ UNCHANGED <<irq, loop, p_msg>>

chMsgRelease(t, m) ==
    /\ InThread /\ k.cur \in Servers
    /\ t \in held[k.cur]
    /\ k'    = chSchWakeupS(k, t, m)
    /\ held' = [held EXCEPT ![k.cur] = @ \ {t}]
    /\ UNCHANGED <<pc, irq, loop, p_msg>>

\* A thread switched in leaves chMsgSend with the answer, or goes on in
\* chMsgWait.
MsgResume ==
    /\ SwitchedIn
    /\ IF pc[k.cur] = "msgwait" THEN MsgTake(k.cur) ELSE UNCHANGED <<k, held>>
    /\ pc' = [pc EXCEPT ![k.cur] = "run"]
    /\ UNCHANGED <<irq, loop, p_msg>>

MsgServe ==
    \/ chMsgWait
    \/ \E t \in Threads, m \in Words : chMsgRelease(t, m)

MsgTick ==
    \/ EnterTick /\ UNCHANGED <<p_msg, held>>
    \/ LeaveTick /\ UNCHANGED <<p_msg, held>>

MsgNext ==
    \/ \E t \in Threads : StartThread(t) /\ UNCHANGED <<p_msg, held>>
    \/ \E s \in Servers, m \in Words : chMsgSend(s, m)
    \/ MsgServe
    \/ MsgResume
    \/ MsgTick

\* A server that gets the processor again and again goes on answering and
\* waiting; a thread that is switched in finishes its call; the tick comes, and
\* its handler returns.
MsgFairness ==
    /\ \A s \in Servers : SF_msgvars(k.cur = s /\ MsgServe)
    /\ WF_msgvars(MsgResume)
    /\ SF_msgvars(EnterTick /\ UNCHANGED <<p_msg, held>>)
    /\ WF_msgvars(LeaveTick /\ UNCHANGED <<p_msg, held>>)

MsgSpec == SysInit /\ MsgInit /\ [][MsgNext]_msgvars /\ MsgFairness

-----------------------------------------------------------------------------
(* Properties. *)

MsgTypeOK ==
    /\ k \in Kernel(Msgs \cup Words \cup Queues)
    /\ p_msg \in [Threads -> Words \cup {"none"}]
    /\ held \in [Servers -> SUBSET Threads]

\* chMsgRelease asserts that the thread it is given is in SNDMSG: a sender is
\* held by a server from the moment it is taken off the queue to its release,
\* by one server only, and it sleeps all that time, so that what its message
\* points to is stable.
HeldSleeps ==
    /\ \A s \in Servers : \A t \in held[s] : k.state[t] = "SNDMSG"
    /\ \A t \in Threads : k.state[t] = "SNDMSG" =>
           \E s \in Servers : t \in held[s]
    /\ \A s, r \in Servers : s # r => held[s] \cap held[r] = {}

\* A server never sleeps in chMsgWait while a sender is queued on it.
NoMessageUnseen ==
    \A s \in Servers : Inbox(s) # <<>> => k.state[s] # "WTMSG"

\* Server and client agree on who waits for whom: a sender sleeps from the
\* moment chMsgWait takes it to the release by the same server, and no server
\* sleeps in chMsgWait beside a sender.
MessagesOK == MsgTypeOK /\ HeldSleeps /\ NoMessageUnseen

\* The messages of the senders in a list.
Letters(q, w) == [i \in DOMAIN q |-> <<q[i], w[q[i]]>>]

\* What AbsMsg calls inbox, taken and answer.  A thread that is not started
\* has no inbox yet.
MsgInboxes ==
    [s \in Servers |-> IF k.state[s] = "SUSPENDED" THEN <<>>
                       ELSE Letters(Inbox(s), p_msg)]
MsgTaken   == [s \in Servers |-> {<<t, p_msg[t]>> : t \in held[s]}]
MsgAnswers == [t \in Threads |->
                  IF pc[t] = "send" /\ k.state[t] \in {"READY", "CURRENT"}
                  THEN k.u[t] ELSE "none"]

\* What a client sees of the queues: its message is received once, in the order
\* of arrival, and the call returns the answer given to that message (AbsMsg).
MsgAbs == INSTANCE AbsMsg WITH
    Clients <- Threads,
    inbox <- MsgInboxes, taken <- MsgTaken, answer <- MsgAnswers
ImplementsAbsMsg == MsgAbs!Spec

\* Every message sent to a server is received, if no client has a higher
\* priority: the queue, the wake-up and the turns of the server see to it.
MessagesReceived ==
    \A t \in Threads : k.state[t] = "SNDMSGQ" ~> k.state[t] # "SNDMSGQ"
=============================================================================
