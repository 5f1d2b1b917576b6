---------------------------- MODULE ChMsgProofs ----------------------------
(***************************************************************************)
(* The synchronous messages, for any number of clients and servers: who    *)
(* waits for whom.                                                         *)
(***************************************************************************)
EXTENDS ChMsg, ChSchedProofs

P == Msgs \cup Words \cup Queues

\* The queue of a server holds exactly the threads that send to it, once.
MsgLists(a) ==
    \A s \in Servers :
        /\ NoRepeat(a.queue[p_msgqueue[s]])
        /\ \A t \in Threads :
               t \in Range(a.queue[p_msgqueue[s]]) <=>
                   a.state[t] = "SNDMSGQ" /\ a.u[t] = p_msgqueue[s]

\* Thread t and the call it is in: p is pc[t], w what it has in p_msg.
MsgCall(a, t, p, w) ==
    /\ a.state[t] \in Runnable \cup {"SUSPENDED", "SNDMSGQ", "SNDMSG", "WTMSG"}
    /\ a.state[t] \in {"SNDMSGQ", "SNDMSG"} => p = "send"
    /\ a.state[t] = "SNDMSGQ" => \E s \in Servers : a.u[t] = p_msgqueue[s]
    /\ a.state[t] = "WTMSG" => p = "msgwait"
    /\ a.state[t] = "SUSPENDED" => p = "run"
    /\ p = "send" => t \notin Servers /\ w \in Words
    /\ p = "send" /\ a.state[t] \in Runnable => a.u[t] \in Words
    /\ p = "msgwait" => t \in Servers

\* Server s and its queue: it does not sleep beside a sender, it is woken only
\* for one, and nobody has sent to it before it is started.
MsgServer(a, s, p) ==
    /\ a.state[s] \in {"WTMSG", "SUSPENDED"} => a.queue[p_msgqueue[s]] = <<>>
    /\ p = "msgwait" /\ a.state[s] \in Runnable => a.queue[p_msgqueue[s]] # <<>>

MsgKernel(a) == Good(a, P) /\ MsgLists(a)

MsgTyped ==
    /\ MsgTypeOK
    /\ pc \in [Threads -> {"run", "send", "msgwait"}]
    /\ irq \in {"none", "tick"} /\ loop = <<>>

MsgIInv ==
    /\ MsgTyped
    /\ MsgKernel(k)
    /\ irq = "none" => Highest(k)
    /\ \A t \in Threads : MsgCall(k, t, pc[t], p_msg[t])
    /\ \A s \in Servers : MsgServer(k, s, pc[s])
    /\ HeldSleeps

-----------------------------------------------------------------------------
(* The functions of the messages as operators on the kernel record. *)

\* Every thread but t is as runnable as before, or in the same state.
Others(a, j, t) ==
    \A x \in Threads \ {t} : \/ j.state[x] = a.state[x]
                             \/ j.state[x] \in Runnable /\ a.state[x] \in Runnable

\* What every step starts from.
LEMMA MsgKernelParts ==
    ASSUME NEW a, MsgKernel(a)
    PROVE  /\ a \in Kernel(P) /\ a.cur \in Threads /\ a.state[a.cur] = "CURRENT"
           /\ a.queue \in [Queues -> Seq(Threads)]
           /\ a.u \in [Threads -> P] /\ a.state \in [Threads -> States]
           /\ \A s \in Servers : /\ p_msgqueue[s] \in Queues
                                 /\ p_msgqueue[s] \in P
                                 /\ a.queue[p_msgqueue[s]] \in Seq(Threads)
                                 /\ s \in Threads /\ s # Idle
<1>1. a \in Kernel(P)
  BY DEF MsgKernel, Good
<1>2. /\ a.cur \in Threads /\ a.queue \in [Queues -> Seq(Threads)]
      /\ a.u \in [Threads -> P] /\ a.state \in [Threads -> States]
  BY <1>1, KernelParts
<1>3. a.state[a.cur] = "CURRENT"
  BY <1>2 DEF MsgKernel, Good, ReadyListOK
<1>4. \A s \in Servers : p_msgqueue[s] \in Queues /\ s \in Threads /\ s # Idle
  BY MsgAssumption
<1>5. \A s \in Servers : p_msgqueue[s] \in P
  BY <1>4 DEF P
<1> QED BY <1>1, <1>2, <1>3, <1>4, <1>5

\* Rescheduling changes nothing for the messages.
LEMMA MsgSame ==
    ASSUME NEW a, MsgKernel(a), NEW j, Good(j, P), Same(a, j)
    PROVE  /\ MsgKernel(j)
           /\ \A t \in Threads : \A p, w : MsgCall(a, t, p, w) => MsgCall(j, t, p, w)
           /\ \A s \in Servers : \A p : MsgServer(a, s, p) => MsgServer(j, s, p)
<1>1. MsgLists(j)
  BY DEF MsgKernel, MsgLists, Same, Runnable
<1>2. \A t \in Threads : \A p, w : MsgCall(a, t, p, w) => MsgCall(j, t, p, w)
  BY DEF MsgCall, Same, Runnable
<1>3. \A s \in Servers : \A p : MsgServer(a, s, p) => MsgServer(j, s, p)
  BY MsgAssumption DEF MsgServer, Same, Runnable
<1> QED BY <1>1, <1>2, <1>3 DEF MsgKernel

\* What chMsgSend does: the caller is last in the queue of s and sleeps, and s
\* is runnable if it was waiting for a message.
Sent(a, j, s) ==
    /\ j.queue = [a.queue EXCEPT ![p_msgqueue[s]] = Append(@, a.cur)]
    /\ j.u = [a.u EXCEPT ![a.cur] = p_msgqueue[s]]
    /\ j.state[a.cur] = "SNDMSGQ"
    /\ a.state[s] = "WTMSG" => j.state[s] \in Runnable
    /\ \A x \in Threads \ {a.cur} :
           \/ j.state[x] = a.state[x]
           \/ j.state[x] \in Runnable /\ a.state[x] \in Runnable
           \/ x = s /\ a.state[s] = "WTMSG"

\* chMsgSend on the kernel record.
LEMMA SendDoes ==
    ASSUME NEW a, MsgKernel(a), NEW s \in Servers, a.cur # Idle, a.cur # s,
           NEW j, j = chSchGoSleepS(MsgQueued(a, s), "SNDMSGQ")
    PROVE  Good(j, P) /\ Highest(j) /\ Sent(a, j, s)
<1> DEFINE q == p_msgqueue[s]
<1>1. PICK t : t = a.cur OBVIOUS
<1>2. PICK w : w = Append(a.queue[q], t) BY Zenon
<1>3. PICK b : b = [a EXCEPT !.u = [a.u EXCEPT ![t] = q],
                             !.queue = [a.queue EXCEPT ![q] = w]]
  OBVIOUS
<1>4. /\ b \in Kernel(P)
      /\ b.u = [a.u EXCEPT ![t] = q] /\ b.queue = [a.queue EXCEPT ![q] = w]
      /\ b.cur = a.cur /\ b.ready = a.ready /\ b.state = a.state /\ b.prio = a.prio
  <2>1. [a.u EXCEPT ![t] = q] \in [Threads -> P]
    BY <1>1, MsgKernelParts
  <2>2. w \in Seq(Threads)
    BY <1>1, <1>2, MsgKernelParts
  <2>3. [a.queue EXCEPT ![q] = w] \in [Queues -> Seq(Threads)]
    BY <2>2, MsgKernelParts
  <2>4. a \in Kernel(P)
    BY MsgKernelParts
  <2> QED BY <1>3, <2>1, <2>3, <2>4, Zenon DEF Kernel
<1>5. Good(b, P)
  BY <1>4, OtherParts DEF MsgKernel
<1>6. PICK c : c = IF a.state[s] = "WTMSG" THEN chSchReadyI(b, s) ELSE b
  OBVIOUS
<1>7. MsgQueued(a, s) = c
  <2>1. a \in Kernel(P)
    BY MsgKernelParts
  <2>2. b = queue_insert([a EXCEPT !.u[a.cur] = q], a.cur, q)
    BY <1>1, <1>2, <1>3, <2>1 DEF queue_insert, Kernel
  <2> QED BY <1>6, <2>2 DEF MsgQueued
<1>8. /\ Good(c, P) /\ c.cur = a.cur /\ c.u = b.u /\ c.queue = b.queue
      /\ c.state = IF a.state[s] = "WTMSG" THEN [a.state EXCEPT ![s] = "READY"]
                   ELSE a.state
  <2>1. CASE a.state[s] = "WTMSG"
    <3>1. b.state[s] \notin Runnable /\ s \in Threads /\ c = chSchReadyI(b, s)
      BY <1>4, <1>6, <2>1, MsgKernelParts DEF Runnable
    <3> QED BY <1>4, <1>5, <2>1, <3>1, ReadyGood
  <2>2. CASE a.state[s] # "WTMSG"
    BY <1>4, <1>5, <1>6, <2>2
  <2> QED BY <2>1, <2>2
<1>9. PICK d : d = [c EXCEPT !.state[c.cur] = "SNDMSGQ"] BY Zenon
<1>10. Good(j, P) /\ Highest(j) /\ Same(d, j) /\ j.state[a.cur] = "SNDMSGQ"
  <2>1. "SNDMSGQ" \in Blocked /\ c.cur # Idle /\ j = chSchGoSleepS(c, "SNDMSGQ")
    BY <1>7, <1>8 DEF Blocked
  <2> QED BY <1>8, <1>9, <2>1, GoSleepS
<1>11. /\ d.u = b.u /\ d.queue = b.queue
       /\ \A x \in Threads \ {t} : d.state[x] =
              IF x = s /\ a.state[s] = "WTMSG" THEN "READY" ELSE a.state[x]
  <2>1. c \in Kernel(P) /\ c.state \in [Threads -> States]
    BY <1>8, KernelParts, Zenon DEF Good
  <2>2. d.u = c.u /\ d.queue = c.queue /\ d.state = [c.state EXCEPT ![t] = "SNDMSGQ"]
    BY <1>1, <1>8, <1>9, <2>1 DEF Kernel
  <2> QED BY <1>8, <2>1, <2>2, MsgKernelParts
<1>12. j.queue = [a.queue EXCEPT ![q] = Append(@, a.cur)] /\ j.u = [a.u EXCEPT ![a.cur] = q]
  BY <1>1, <1>2, <1>4, <1>10, <1>11 DEF Same
<1>13. s \in Threads \ {t}
  BY <1>1, MsgKernelParts
<1> QED BY <1>1, <1>10, <1>11, <1>12, <1>13 DEF Sent, Same, Runnable

\* What the end of chMsgWait does: t is out of the queue of s, and sleeps on.
Took(a, j, s, t) ==
    /\ t \in Threads /\ a.state[t] = "SNDMSGQ" /\ a.u[t] = p_msgqueue[s]
    /\ j.queue = [a.queue EXCEPT ![p_msgqueue[s]] = Tail(@)]
    /\ j.u = a.u /\ j.cur = a.cur
    /\ j.state = [a.state EXCEPT ![t] = "SNDMSG"]

\* The end of chMsgWait on the kernel record.
Taking(a, q, t) == [fifo_remove(a, q) EXCEPT !.state[t] = "SNDMSG"]

\* It takes the first sender.
LEMMA TakeDoes ==
    ASSUME NEW a, MsgKernel(a), NEW s \in Servers,
           a.queue[p_msgqueue[s]] # <<>>, NEW t, t = Head(a.queue[p_msgqueue[s]]),
           NEW j, j = Taking(a, p_msgqueue[s], t)
    PROVE  Good(j, P) /\ (Highest(j) <=> Highest(a)) /\ Took(a, j, s, t)
<1>1. PICK q : q = p_msgqueue[s] OBVIOUS
<1>2. PICK l : l = a.queue[q] OBVIOUS
<1>3. /\ a \in Kernel(P) /\ q \in Queues /\ l \in Seq(Threads) /\ l # <<>>
      /\ NoRepeat(l) /\ a.queue \in [Queues -> Seq(Threads)]
      /\ a.state \in [Threads -> States]
  BY <1>1, <1>2, MsgKernelParts DEF MsgKernel, MsgLists
<1>4. t \in Threads /\ t \in Range(l) /\ Tail(l) \in Seq(Threads)
  BY <1>1, <1>2, <1>3, TailList
<1>5. a.state[t] = "SNDMSGQ" /\ a.u[t] = q
  BY <1>1, <1>2, <1>4 DEF MsgKernel, MsgLists
<1>6. j = [a EXCEPT !.queue = [a.queue EXCEPT ![q] = Tail(l)],
                    !.state = [a.state EXCEPT ![t] = "SNDMSG"]]
  BY <1>1, <1>2, <1>3 DEF Taking, fifo_remove, Kernel
<1>7. /\ [a.queue EXCEPT ![q] = Tail(l)] \in [Queues -> Seq(Threads)]
      /\ [a.state EXCEPT ![t] = "SNDMSG"] \in [Threads -> States]
  BY <1>3, <1>4 DEF States, Blocked
<1>8. /\ j \in Kernel(P) /\ j.queue = [a.queue EXCEPT ![q] = Tail(l)]
      /\ j.state = [a.state EXCEPT ![t] = "SNDMSG"]
      /\ j.u = a.u /\ j.cur = a.cur /\ j.ready = a.ready /\ j.prio = a.prio
  BY <1>3, <1>6, <1>7, Zenon DEF Kernel
<1>9. \A x \in Threads : \/ j.state[x] = a.state[x]
                         \/ j.state[x] \notin Runnable /\ a.state[x] \notin Runnable
  BY <1>3, <1>4, <1>5, <1>8, Zenon DEF Runnable
<1>10. Good(j, P) /\ (Highest(j) <=> Highest(a))
  <2>1. Good(a, P)
    BY DEF MsgKernel
  <2> QED BY <1>8, <1>9, <2>1, BlockedParts, Zenon
<1> QED BY <1>1, <1>2, <1>4, <1>5, <1>8, <1>10, Zenon DEF Took

-----------------------------------------------------------------------------
(* What each of them keeps. *)

\* chMsgSend keeps the queues.
LEMMA SendLists ==
    ASSUME NEW a, MsgKernel(a), NEW s \in Servers, a.cur \notin Servers,
           NEW j, Good(j, P), Sent(a, j, s)
    PROVE  MsgKernel(j)
<1> DEFINE Q(r) == p_msgqueue[r]
<1>1. PICK t : t = a.cur OBVIOUS
<1>2. t \in Threads /\ a.state[t] = "CURRENT" /\ s # t /\ s \in Threads
  BY <1>1, MsgKernelParts
<1>3. \A r \in Servers : /\ Q(r) \in Queues /\ a.queue[Q(r)] \in Seq(Threads)
                         /\ NoRepeat(a.queue[Q(r)]) /\ t \notin Range(a.queue[Q(r)])
  BY <1>2, MsgKernelParts DEF MsgKernel, MsgLists
<1>4. \A r \in Servers \ {s} : Q(r) # Q(s)
  BY MsgAssumption
<1>5. a.queue \in [Queues -> Seq(Threads)] /\ a.u \in [Threads -> P]
  BY MsgKernelParts
<1>6. /\ j.queue[Q(s)] = Append(a.queue[Q(s)], t)
      /\ \A r \in Servers \ {s} : j.queue[Q(r)] = a.queue[Q(r)]
  BY <1>1, <1>3, <1>4, <1>5 DEF Sent
<1>7. /\ NoRepeat(j.queue[Q(s)])
      /\ \A x : x \in Range(j.queue[Q(s)]) <=> x \in Range(a.queue[Q(s)]) \/ x = t
  <2>1. /\ NoRepeat(Append(a.queue[Q(s)], t))
        /\ Range(Append(a.queue[Q(s)], t)) = Range(a.queue[Q(s)]) \cup {t}
    BY <1>2, <1>3, AppendList
  <2> QED BY <1>6, <2>1
<1>8. /\ j.state[t] = "SNDMSGQ" /\ j.u[t] = Q(s)
      /\ \A x \in Threads \ {t} : /\ j.state[x] = "SNDMSGQ" <=> a.state[x] = "SNDMSGQ"
                                  /\ j.u[x] = a.u[x]
  BY <1>1, <1>2, <1>5 DEF Sent, Runnable
<1>9. ASSUME NEW r \in Servers
      PROVE  /\ NoRepeat(j.queue[Q(r)])
             /\ \A x \in Threads : x \in Range(j.queue[Q(r)]) <=>
                                      j.state[x] = "SNDMSGQ" /\ j.u[x] = Q(r)
  <2>1. \A x \in Threads : x \in Range(a.queue[Q(r)]) <=>
                              a.state[x] = "SNDMSGQ" /\ a.u[x] = Q(r)
    BY DEF MsgKernel, MsgLists
  <2>2. CASE r = s
    BY <1>2, <1>7, <1>8, <2>1, <2>2
  <2>3. CASE r # s
    BY <1>2, <1>3, <1>4, <1>6, <1>8, <2>1, <2>3
  <2> QED BY <2>2, <2>3
<1> QED BY <1>9 DEF MsgKernel, MsgLists

\* Taking a sender keeps the queues.
LEMMA TakeLists ==
    ASSUME NEW a, MsgKernel(a), NEW s \in Servers, a.queue[p_msgqueue[s]] # <<>>,
           NEW j, Good(j, P), NEW t, t = Head(a.queue[p_msgqueue[s]]), Took(a, j, s, t)
    PROVE  MsgKernel(j)
<1> DEFINE Q(r) == p_msgqueue[r]
<1>1. \A r \in Servers : /\ Q(r) \in Queues /\ a.queue[Q(r)] \in Seq(Threads)
                         /\ NoRepeat(a.queue[Q(r)])
  BY MsgKernelParts DEF MsgKernel, MsgLists
<1>2. \A r \in Servers \ {s} : Q(r) # Q(s)
  BY MsgAssumption
<1>3. a.queue \in [Queues -> Seq(Threads)] /\ a.state \in [Threads -> States]
  BY MsgKernelParts
<1>4. /\ j.queue[Q(s)] = Tail(a.queue[Q(s)])
      /\ \A r \in Servers \ {s} : j.queue[Q(r)] = a.queue[Q(r)]
  BY <1>1, <1>2, <1>3 DEF Took
<1>5. /\ NoRepeat(j.queue[Q(s)])
      /\ \A x : x \in Range(j.queue[Q(s)]) <=> x \in Range(a.queue[Q(s)]) /\ x # t
  <2>1. /\ NoRepeat(Tail(a.queue[Q(s)]))
        /\ Range(Tail(a.queue[Q(s)])) = Range(a.queue[Q(s)]) \ {t}
    BY <1>1, TailList
  <2> QED BY <1>4, <2>1
<1>6. /\ t \in Threads /\ a.u[t] = Q(s) /\ j.state[t] = "SNDMSG" /\ j.u = a.u
      /\ \A x \in Threads \ {t} : j.state[x] = a.state[x]
  BY <1>3 DEF Took
<1>7. ASSUME NEW r \in Servers
      PROVE  /\ NoRepeat(j.queue[Q(r)])
             /\ \A x \in Threads : x \in Range(j.queue[Q(r)]) <=>
                                      j.state[x] = "SNDMSGQ" /\ j.u[x] = Q(r)
  <2>1. \A x \in Threads : x \in Range(a.queue[Q(r)]) <=>
                              a.state[x] = "SNDMSGQ" /\ a.u[x] = Q(r)
    BY DEF MsgKernel, MsgLists
  <2>2. CASE r = s
    BY <1>5, <1>6, <2>1, <2>2
  <2>3. CASE r # s
    BY <1>1, <1>2, <1>4, <1>6, <2>1, <2>3
  <2> QED BY <2>2, <2>3
<1> QED BY <1>7 DEF MsgKernel, MsgLists

-----------------------------------------------------------------------------
(* The inductive invariant. *)

\* What every action starts from.
LEMMA MsgParts ==
    ASSUME MsgIInv
    PROVE  /\ MsgKernel(k) /\ Good(k, P) /\ k \in Kernel(P)
           /\ k.cur \in Threads /\ k.state[k.cur] = "CURRENT"
           /\ k.state \in [Threads -> States] /\ k.u \in [Threads -> P]
           /\ k.queue \in [Queues -> Seq(Threads)]
           /\ Servers \subseteq Threads
           /\ \A s \in Servers : p_msgqueue[s] \in Queues
           /\ pc \in [Threads -> {"run", "send", "msgwait"}]
           /\ p_msg \in [Threads -> Words \cup {"none"}]
           /\ held \in [Servers -> SUBSET Threads]
           /\ irq \in {"none", "tick"} /\ loop = <<>>
           /\ irq = "none" => Highest(k)
<1>1. MsgKernel(k) /\ Good(k, P)
  BY DEF MsgIInv, MsgKernel
<1>2. /\ k \in Kernel(P) /\ k.cur \in Threads /\ k.state[k.cur] = "CURRENT"
      /\ k.state \in [Threads -> States] /\ k.u \in [Threads -> P]
      /\ k.queue \in [Queues -> Seq(Threads)]
      /\ \A s \in Servers : p_msgqueue[s] \in Queues
  BY <1>1, MsgKernelParts
<1>3. Servers \subseteq Threads
  BY MsgAssumption
<1> QED BY <1>1, <1>2, <1>3 DEF MsgIInv, MsgTyped, MsgTypeOK

\* The invariant, put together from its parts after a step.
LEMMA MsgAgain ==
    ASSUME MsgKernel(k'), irq' = "none" => Highest(k'),
           pc' \in [Threads -> {"run", "send", "msgwait"}],
           p_msg' \in [Threads -> Words \cup {"none"}],
           held' \in [Servers -> SUBSET Threads],
           irq' \in {"none", "tick"}, loop' = <<>>,
           \A t \in Threads : MsgCall(k', t, pc'[t], p_msg'[t]),
           \A s \in Servers : MsgServer(k', s, pc'[s]),
           HeldSleeps'
    PROVE  MsgIInv'
<1>1. k' \in Kernel(P)
  BY DEF MsgKernel, Good
<1>2. k' \in Kernel(Msgs \cup Words \cup Queues)
  BY <1>1 DEF P
<1> QED BY <1>2 DEF MsgIInv, MsgTyped, MsgTypeOK

\* chSysInit establishes the invariant.
LEMMA MsgInvariantInit == SysInit /\ MsgInit => MsgIInv
<1> SUFFICES ASSUME SysInit, MsgInit PROVE MsgIInv
  OBVIOUS
<1>1. PICK main \in Threads \ {Idle} :
         k = [cur     |-> main,
              ready   |-> <<Idle>>,
              state   |-> [t \in Threads |-> IF t = main THEN "CURRENT"
                                             ELSE IF t = Idle THEN "READY"
                                             ELSE "SUSPENDED"],
              prio    |-> BasePrio,
              preempt |-> [t \in Threads |-> Quantum],
              queue   |-> [q \in Queues |-> <<>>],
              u       |-> [t \in Threads |-> RDY_OK],
              armed   |-> {}]
  BY Zenon DEF SysInit
<1>2. /\ pc = [t \in Threads |-> "run"] /\ irq = "none" /\ loop = <<>>
      /\ p_msg = [t \in Threads |-> "none"] /\ held = [s \in Servers |-> {}]
  BY DEF SysInit, MsgInit
<1>3. Good(k, P) /\ Highest(k)
  <2>1. RDY_OK \in P
    BY DEF P, Msgs
  <2> QED BY <1>1, <2>1, BasePrioAssumption, Started, Zenon
<1>4. /\ \A t \in Threads : k.state[t] \in Runnable \cup {"SUSPENDED"}
      /\ \A s \in Servers : k.queue[p_msgqueue[s]] = <<>>
  BY <1>1, MsgAssumption DEF Runnable
<1>5. MsgKernel(k)
  <2>1. Range(<<>>) = {} /\ NoRepeat(<<>>)
    BY DEF Range, NoRepeat
  <2> QED BY <1>3, <1>4, <2>1 DEF MsgKernel, MsgLists, Runnable
<1>6. \A t \in Threads : MsgCall(k, t, pc[t], p_msg[t])
  BY <1>2, <1>4 DEF MsgCall, Runnable
<1>7. \A s \in Servers : MsgServer(k, s, pc[s])
  BY <1>2, <1>4, MsgAssumption DEF MsgServer
<1>8. HeldSleeps
  BY <1>2, <1>4 DEF HeldSleeps, Runnable
<1>9. MsgTyped
  <2>1. k \in Kernel(Msgs \cup Words \cup Queues)
    BY <1>3 DEF Good, P
  <2> QED BY <1>2, <2>1 DEF MsgTyped, MsgTypeOK
<1> QED BY <1>2, <1>3, <1>5, <1>6, <1>7, <1>8, <1>9 DEF MsgIInv

\* chMsgSend: the sender is queued and the server, if it slept, is woken.
LEMMA SendKeeps ==
    ASSUME MsgIInv, NEW s \in Servers, NEW m \in Words, chMsgSend(s, m)
    PROVE  MsgIInv' /\ Sent(k, k', s)
<1>1. /\ k.cur # Idle /\ k.cur \notin Servers /\ k.state[s] # "SUSPENDED"
      /\ irq = "none" /\ pc[k.cur] = "run"
      /\ p_msg' = [p_msg EXCEPT ![k.cur] = m]
      /\ k' = chSchGoSleepS(MsgQueued(k, s), "SNDMSGQ")
      /\ pc' = [pc EXCEPT ![k.cur] = "send"]
      /\ irq' = irq /\ loop' = loop /\ held' = held
  BY DEF chMsgSend, InThread, Unlocked
<1>2. PICK t : t = k.cur OBVIOUS
<1>3. PICK j : j = k' OBVIOUS
<1>4. Good(j, P) /\ Highest(j) /\ Sent(k, j, s)
  BY <1>1, <1>3, MsgParts, SendDoes
<1>5. MsgKernel(j)
  BY <1>1, <1>4, MsgParts, SendLists
<1>6. t \in Threads /\ k.state[t] = "CURRENT" /\ s \in Threads /\ s # t
  BY <1>1, <1>2, MsgParts
<1>7. /\ j.state[t] = "SNDMSGQ" /\ j.u[t] = p_msgqueue[s]
      /\ k.state[s] = "WTMSG" => j.state[s] \in Runnable
      /\ \A x \in Threads \ {t} : /\ j.u[x] = k.u[x]
                                  /\ \/ j.state[x] = k.state[x]
                                     \/ j.state[x] \in Runnable /\ k.state[x] \in Runnable
                                     \/ x = s /\ k.state[s] = "WTMSG"
  BY <1>2, <1>4, <1>6, MsgParts DEF Sent
<1>8. /\ pc' \in [Threads -> {"run", "send", "msgwait"}]
      /\ p_msg' \in [Threads -> Words \cup {"none"}]
      /\ pc'[t] = "send" /\ p_msg'[t] = m
      /\ \A x \in Threads \ {t} : pc'[x] = pc[x] /\ p_msg'[x] = p_msg[x]
  BY <1>1, <1>2, <1>6, MsgParts
<1>9. \A x \in Threads : MsgCall(k, x, pc[x], p_msg[x])
  BY DEF MsgIInv
<1>10. ASSUME NEW x \in Threads PROVE MsgCall(j, x, pc'[x], p_msg'[x])
  <2>1. CASE x = t
    BY <1>1, <1>2, <1>7, <1>8, <2>1 DEF MsgCall, Runnable
  <2>2. CASE x # t /\ ~(x = s /\ k.state[s] = "WTMSG")
    BY <1>7, <1>8, <1>9, <2>2 DEF MsgCall, Runnable
  <2>3. CASE x = s /\ k.state[s] = "WTMSG"
    BY <1>6, <1>7, <1>8, <1>9, <2>3 DEF MsgCall, Runnable
  <2> QED BY <2>1, <2>2, <2>3
<1>11. ASSUME NEW r \in Servers PROVE MsgServer(j, r, pc'[r])
  <2>1. r \in Threads /\ r # t /\ MsgServer(k, r, pc[r]) /\ pc'[r] = pc[r]
    BY <1>1, <1>2, <1>8, MsgParts DEF MsgIInv
  <2>2. CASE r = s
    <3>1. j.queue[p_msgqueue[s]] # <<>>
      <4>1. PICK l : l = k.queue[p_msgqueue[s]] OBVIOUS
      <4>2. l \in Seq(Threads) /\ j.queue[p_msgqueue[s]] = Append(l, t)
        BY <1>2, <1>4, <4>1, MsgParts DEF Sent
      <4> QED BY <1>6, <4>2
    <3>2. j.state[s] # "WTMSG" /\ j.state[s] # "SUSPENDED"
      BY <1>1, <1>6, <1>7 DEF Runnable
    <3> QED BY <2>2, <3>1, <3>2 DEF MsgServer
  <2>3. CASE r # s
    <3>1. p_msgqueue[r] # p_msgqueue[s]
      BY <2>3, MsgAssumption
    <3>2. j.queue[p_msgqueue[r]] = k.queue[p_msgqueue[r]]
      BY <1>4, <3>1, MsgParts DEF Sent
    <3> QED BY <1>7, <2>1, <2>3, <3>2 DEF MsgServer, Runnable
  <2> QED BY <2>2, <2>3
<1>12. HeldSleeps'
  <2>1. \A r \in Servers : \A x \in held[r] : x \in Threads /\ k.state[x] = "SNDMSG"
    BY MsgParts DEF MsgIInv, HeldSleeps
  <2>2. \A x \in Threads : j.state[x] = "SNDMSG" <=> k.state[x] = "SNDMSG"
    BY <1>6, <1>7 DEF Runnable
  <2> QED BY <1>1, <1>3, <2>1, <2>2 DEF MsgIInv, HeldSleeps
<1> QED BY <1>1, <1>3, <1>4, <1>5, <1>8, <1>10, <1>11, <1>12, MsgParts, MsgAgain

\* The end of chMsgWait, at once or after a sleep: the first sender is held.
LEMMA TakeKeeps ==
    ASSUME MsgIInv, NEW s \in Servers, s = k.cur, Inbox(s) # <<>>, MsgTake(s),
           pc' = [pc EXCEPT ![s] = "run"],
           irq' = irq, loop' = loop, p_msg' = p_msg
    PROVE  /\ MsgIInv'
           /\ Took(k, k', s, Head(Inbox(s)))
           /\ held' = [held EXCEPT ![s] = @ \cup {Head(Inbox(s))}]
<1>1. PICK t : t = Head(Inbox(s)) OBVIOUS
<1>2. PICK j : j = k' OBVIOUS
<1>3. /\ j = Taking(k, p_msgqueue[s], t)
      /\ held' = [held EXCEPT ![s] = @ \cup {t}]
      /\ k.queue[p_msgqueue[s]] # <<>> /\ t = Head(k.queue[p_msgqueue[s]])
  BY <1>1, <1>2 DEF MsgTake, Inbox, Taking
<1>4. Good(j, P) /\ (Highest(j) <=> Highest(k)) /\ Took(k, j, s, t)
  <2>1. MsgKernel(k)
    BY MsgParts
  <2> QED BY <1>3, <2>1, TakeDoes
<1>5. MsgKernel(j)
  BY <1>3, <1>4, MsgParts, TakeLists, Zenon
<1>6. /\ t \in Threads /\ k.state[t] = "SNDMSGQ" /\ t # s /\ t \notin Servers
      /\ pc[t] = "send"
  BY <1>4, MsgParts DEF Took, MsgIInv, MsgCall
<1>7. /\ j.state[t] = "SNDMSG" /\ j.u = k.u
      /\ \A x \in Threads \ {t} : j.state[x] = k.state[x]
  BY <1>4, <1>6, MsgParts DEF Took
<1>8. /\ pc' \in [Threads -> {"run", "send", "msgwait"}] /\ pc'[s] = "run"
      /\ \A x \in Threads \ {s} : pc'[x] = pc[x]
  BY MsgParts
<1>9. held' \in [Servers -> SUBSET Threads]
  BY <1>3, <1>6, MsgParts
<1>10. ASSUME NEW x \in Threads PROVE MsgCall(j, x, pc'[x], p_msg'[x])
  <2>1. MsgCall(k, x, pc[x], p_msg[x])
    BY DEF MsgIInv
  <2>2. CASE x = t
    BY <1>6, <1>7, <1>8, <2>1, <2>2 DEF MsgCall, Runnable
  <2>3. CASE x # t /\ x # s
    BY <1>7, <1>8, <2>1, <2>3 DEF MsgCall
  <2>4. CASE x = s
    <3>1. j.state[s] = "CURRENT" /\ pc'[x] = "run"
      BY <1>6, <1>7, <1>8, <2>4, MsgParts
    <3> QED BY <2>4, <3>1 DEF MsgCall, Runnable
  <2> QED BY <2>2, <2>3, <2>4
<1>11. ASSUME NEW r \in Servers PROVE MsgServer(j, r, pc'[r])
  <2>1. r \in Threads /\ MsgServer(k, r, pc[r]) /\ r # t
    BY <1>6, MsgParts DEF MsgIInv
  <2>2. CASE r = s
    BY <1>6, <1>7, <1>8, <2>2, MsgParts DEF MsgServer
  <2>3. CASE r # s
    <3>1. p_msgqueue[r] # p_msgqueue[s]
      BY <2>3, MsgAssumption
    <3>2. j.queue[p_msgqueue[r]] = k.queue[p_msgqueue[r]]
      BY <1>4, <3>1, MsgParts DEF Took
    <3> QED BY <1>7, <1>8, <2>1, <2>3, <3>2 DEF MsgServer
  <2> QED BY <2>2, <2>3
<1>12. HeldSleeps'
  <2>1. /\ \A r \in Servers : \A x \in held[r] : x \in Threads /\ k.state[x] = "SNDMSG"
        /\ \A x \in Threads : k.state[x] = "SNDMSG" => \E r \in Servers : x \in held[r]
        /\ \A r, z \in Servers : r # z => held[r] \cap held[z] = {}
    BY MsgParts DEF MsgIInv, HeldSleeps
  <2>2. /\ held'[s] = held[s] \cup {t}
        /\ \A r \in Servers \ {s} : held'[r] = held[r]
    BY <1>3, MsgParts
  <2>3. \A r \in Servers : t \notin held[r]
    BY <1>6, <2>1
  <2>4. \A r \in Servers : \A x \in held'[r] : k'.state[x] = "SNDMSG"
    BY <1>2, <1>7, <2>1, <2>2, <2>3
  <2>5. \A x \in Threads : k'.state[x] = "SNDMSG" => \E r \in Servers : x \in held'[r]
    BY <1>2, <1>7, <2>1, <2>2
  <2>6. \A r, z \in Servers : r # z => held'[r] \cap held'[z] = {}
    BY <2>1, <2>2, <2>3
  <2> QED BY <2>4, <2>5, <2>6 DEF HeldSleeps
<1>13. irq' = "none" => Highest(k')
  BY <1>2, <1>4, MsgParts
<1>14. MsgIInv'
  BY <1>2, <1>5, <1>8, <1>9, <1>10, <1>11, <1>12, <1>13, MsgParts, MsgAgain
<1> QED BY <1>1, <1>2, <1>3, <1>4, <1>14

\* chMsgWait takes a sender, or sleeps when there is none.
LEMMA WaitKeeps ==
    ASSUME MsgIInv, chMsgWait
    PROVE  /\ MsgIInv'
           /\ Inbox(k.cur) = <<>> => /\ k'.queue = k.queue /\ k'.u = k.u /\ held' = held
                                     /\ k'.state[k.cur] = "WTMSG" /\ Others(k, k', k.cur)
<1>1. /\ irq = "none" /\ loop = <<>> /\ pc[k.cur] = "run" /\ k.cur # Idle
      /\ k.cur \in Servers /\ irq' = irq /\ loop' = loop /\ p_msg' = p_msg
  BY DEF chMsgWait, InThread, Unlocked
<1>2. CASE Inbox(k.cur) # <<>>
  <2>1. MsgTake(k.cur) /\ pc' = pc
    BY <1>2 DEF chMsgWait
  <2>2. pc' = [pc EXCEPT ![k.cur] = "run"]
    BY <1>1, <2>1, MsgParts
  <2> QED BY <1>1, <1>2, <2>1, <2>2, TakeKeeps, Zenon
<1>3. CASE Inbox(k.cur) = <<>>
  <2>1. PICK s : s = k.cur OBVIOUS
  <2>2. PICK j : j = k' OBVIOUS
  <2>3. j = chSchGoSleepS(k, "WTMSG") /\ pc' = [pc EXCEPT ![s] = "msgwait"] /\ held' = held
    BY <1>3, <2>1, <2>2 DEF chMsgWait
  <2>4. PICK d : d = [k EXCEPT !.state[k.cur] = "WTMSG"] BY Zenon
  <2>5. Good(j, P) /\ Highest(j) /\ Same(d, j) /\ j.state[s] = "WTMSG"
    <3>1. "WTMSG" \in Blocked
      BY DEF Blocked
    <3>2. Good(k, P)
      BY MsgParts
    <3>3. Good(j, P) /\ Highest(j) /\ Same(d, j) /\ j.state[k.cur] = "WTMSG"
      BY <1>1, <2>3, <2>4, <3>1, <3>2, GoSleepS, Zenon
    <3> QED BY <2>1, <3>3
  <2>6. s \in Threads /\ k.state[s] = "CURRENT" /\ s \in Servers
    BY <1>1, <2>1, MsgParts
  <2>7. /\ j.queue = k.queue /\ j.u = k.u
        /\ \A x \in Threads \ {s} : \/ j.state[x] = k.state[x]
                                    \/ j.state[x] \in Runnable /\ k.state[x] \in Runnable
    <3>1. /\ d.queue = k.queue /\ d.u = k.u
          /\ \A x \in Threads \ {s} : d.state[x] = k.state[x]
      <4>1. k \in Kernel(P)
        BY MsgParts
      <4> QED BY <2>1, <2>4, <2>6, <4>1 DEF Kernel
    <3> QED BY <2>5, <3>1 DEF Same
  <2>8. /\ pc' \in [Threads -> {"run", "send", "msgwait"}] /\ pc'[s] = "msgwait"
        /\ \A x \in Threads \ {s} : pc'[x] = pc[x]
    BY <2>3, <2>6, MsgParts
  <2>9. MsgKernel(j)
    <3>1. MsgLists(j)
      BY <2>5, <2>6, <2>7 DEF MsgIInv, MsgKernel, MsgLists, Runnable
    <3> QED BY <2>5, <3>1 DEF MsgKernel
  <2>10. ASSUME NEW x \in Threads PROVE MsgCall(j, x, pc'[x], p_msg'[x])
    <3>1. MsgCall(k, x, pc[x], p_msg[x])
      BY DEF MsgIInv
    <3>2. CASE x = s
      BY <2>5, <2>6, <2>8, <3>2 DEF MsgCall, Runnable
    <3>3. CASE x # s
      BY <1>1, <2>7, <2>8, <3>1, <3>3 DEF MsgCall, Runnable
    <3> QED BY <3>2, <3>3
  <2>11. ASSUME NEW r \in Servers PROVE MsgServer(j, r, pc'[r])
    <3>1. r \in Threads /\ MsgServer(k, r, pc[r])
      BY MsgParts DEF MsgIInv
    <3>2. CASE r = s
      BY <1>3, <2>1, <2>5, <2>7, <3>2 DEF MsgServer, Inbox, Runnable
    <3>3. CASE r # s
      BY <2>7, <2>8, <3>1, <3>3 DEF MsgServer, Runnable
    <3> QED BY <3>2, <3>3
  <2>12. HeldSleeps'
    <3>1. \A x \in Threads : j.state[x] = "SNDMSG" <=> k.state[x] = "SNDMSG"
      BY <2>5, <2>6, <2>7 DEF Runnable
    <3>2. \A r \in Servers : \A x \in held[r] : x \in Threads
      BY MsgParts
    <3> QED BY <2>2, <2>3, <3>1, <3>2 DEF MsgIInv, HeldSleeps
  <2>13. MsgIInv'
    BY <1>1, <2>2, <2>3, <2>5, <2>8, <2>9, <2>10, <2>11, <2>12, MsgParts, MsgAgain
  <2> QED BY <2>1, <2>2, <2>3, <2>5, <2>7, <2>13 DEF Others
<1> QED BY <1>2, <1>3

\* chSchWakeupS on a thread that is in no queue: one that is started, or a
\* sender that is answered.
LEMMA WokenKeeps ==
    ASSUME MsgIInv, irq = "none", NEW t \in Threads, NEW m \in P,
           \/ k.state[t] = "SUSPENDED"
           \/ k.state[t] = "SNDMSG" /\ m \in Words,
           NEW j, j = chSchWakeupS(k, t, m)
    PROVE  /\ MsgKernel(j) /\ Highest(j)
           /\ \A x \in Threads : MsgCall(j, x, pc[x], p_msg[x])
           /\ \A s \in Servers : MsgServer(j, s, pc[s])
           /\ j.state[t] \in Runnable /\ Others(k, j, t)
           /\ j.queue = k.queue /\ j.u = [k.u EXCEPT ![t] = m]
<1>1. /\ Good(j, P) /\ Highest(j) /\ j.state[t] \in Runnable
      /\ \A x \in Threads \ {t} :
             \/ j.state[x] = k.state[x]
             \/ j.state[x] \in Runnable /\ k.state[x] \in Runnable
      /\ j.queue = k.queue /\ j.u = [k.u EXCEPT ![t] = m]
  <2>1. k.state[t] \notin Runnable
    BY DEF Runnable
  <2>2. Good(k, P) /\ Highest(k)
    BY MsgParts
  <2> QED BY <2>1, <2>2, WakeupS
<1>2. j.u[t] = m /\ \A x \in Threads \ {t} : j.u[x] = k.u[x]
  BY <1>1, MsgParts
<1>3. MsgLists(j)
  BY <1>1, <1>2 DEF MsgIInv, MsgKernel, MsgLists, Runnable
<1>4. ASSUME NEW x \in Threads PROVE MsgCall(j, x, pc[x], p_msg[x])
  <2>1. MsgCall(k, x, pc[x], p_msg[x])
    BY DEF MsgIInv
  <2>2. CASE x = t
    BY <1>1, <1>2, <2>1, <2>2 DEF MsgCall, Runnable
  <2>3. CASE x # t
    BY <1>1, <1>2, <2>1, <2>3 DEF MsgCall, Runnable
  <2> QED BY <2>2, <2>3
<1>5. ASSUME NEW s \in Servers PROVE MsgServer(j, s, pc[s])
  <2>1. s \in Threads /\ MsgServer(k, s, pc[s]) /\ MsgCall(k, s, pc[s], p_msg[s])
    BY MsgParts DEF MsgIInv
  <2>2. CASE s = t
    BY <1>1, <2>1, <2>2 DEF MsgServer, MsgCall, Runnable
  <2>3. CASE s # t
    BY <1>1, <2>1, <2>3 DEF MsgServer, Runnable
  <2> QED BY <2>2, <2>3
<1> QED BY <1>1, <1>3, <1>4, <1>5 DEF MsgKernel, Others

\* chMsgRelease: the sender is woken with the answer and is no longer held.
LEMMA ReleaseKeeps ==
    ASSUME MsgIInv, NEW t \in Threads, NEW m \in Words, chMsgRelease(t, m)
    PROVE  /\ MsgIInv'
           /\ k'.state[t] \in Runnable /\ Others(k, k', t)
           /\ k'.queue = k.queue /\ k'.u = [k.u EXCEPT ![t] = m]
           /\ k.state[t] = "SNDMSG"
<1>1. /\ irq = "none" /\ loop = <<>> /\ k.cur \in Servers /\ t \in held[k.cur]
      /\ k' = chSchWakeupS(k, t, m) /\ held' = [held EXCEPT ![k.cur] = @ \ {t}]
      /\ pc' = pc /\ irq' = irq /\ loop' = loop /\ p_msg' = p_msg
  BY DEF chMsgRelease, InThread, Unlocked
<1>2. k.state[t] = "SNDMSG"
  BY <1>1 DEF MsgIInv, HeldSleeps
<1>3. PICK j : j = k' OBVIOUS
<1>4. /\ MsgKernel(j) /\ Highest(j)
      /\ \A x \in Threads : MsgCall(j, x, pc[x], p_msg[x])
      /\ \A s \in Servers : MsgServer(j, s, pc[s])
      /\ j.state[t] \in Runnable /\ Others(k, j, t)
      /\ j.queue = k.queue /\ j.u = [k.u EXCEPT ![t] = m]
  <2>1. m \in P
    BY DEF P
  <2> QED BY <1>1, <1>2, <1>3, <2>1, WokenKeeps
<1>5. PICK c : c = k.cur OBVIOUS
<1>6. /\ held' \in [Servers -> SUBSET Threads] /\ held'[c] = held[c] \ {t}
      /\ c \in Servers /\ t \in held[c]
      /\ \A r \in Servers \ {c} : held'[r] = held[r]
  BY <1>1, <1>5, MsgParts
<1>7. HeldSleeps'
  <2>1. /\ \A r \in Servers : \A x \in held[r] : x \in Threads /\ k.state[x] = "SNDMSG"
        /\ \A x \in Threads : k.state[x] = "SNDMSG" => \E r \in Servers : x \in held[r]
        /\ \A r, z \in Servers : r # z => held[r] \cap held[z] = {}
    BY MsgParts DEF MsgIInv, HeldSleeps
  <2>2. \A x \in Threads : k'.state[x] = "SNDMSG" <=> k.state[x] = "SNDMSG" /\ x # t
    BY <1>3, <1>4 DEF Others, Runnable
  <2>3. \A r \in Servers : \A x : x \in held'[r] <=> x \in held[r] /\ x # t
    <3>1. ASSUME NEW r \in Servers PROVE \A x : x \in held'[r] <=> x \in held[r] /\ x # t
      <4>1. CASE r = c
        BY <1>6, <4>1
      <4>2. CASE r # c
        BY <1>6, <2>1, <4>2
      <4> QED BY <4>1, <4>2
    <3> QED BY <3>1
  <2>4. \A r \in Servers : \A x \in held'[r] : k'.state[x] = "SNDMSG"
    BY <2>1, <2>2, <2>3
  <2>5. \A x \in Threads : k'.state[x] = "SNDMSG" => \E r \in Servers : x \in held'[r]
    BY <2>1, <2>2, <2>3
  <2>6. \A r, z \in Servers : r # z => held'[r] \cap held'[z] = {}
    BY <2>1, <2>3
  <2> QED BY <2>4, <2>5, <2>6 DEF HeldSleeps
<1>8. MsgIInv'
  BY <1>1, <1>3, <1>4, <1>6, <1>7, MsgParts, MsgAgain
<1> QED BY <1>2, <1>3, <1>4, <1>8

\* A thread is started.
LEMMA StartKeeps ==
    ASSUME MsgIInv, NEW t \in Threads, StartThread(t), UNCHANGED <<p_msg, held>>
    PROVE  /\ MsgIInv'
           /\ k'.state[t] \in Runnable /\ Others(k, k', t)
           /\ k'.queue = k.queue /\ k'.u = [k.u EXCEPT ![t] = RDY_OK]
           /\ k.state[t] = "SUSPENDED"
<1>1. /\ irq = "none" /\ loop = <<>> /\ k.state[t] = "SUSPENDED"
      /\ k' = chSchWakeupS(k, t, RDY_OK)
      /\ pc' = pc /\ irq' = irq /\ loop' = loop /\ p_msg' = p_msg /\ held' = held
  BY DEF StartThread, InThread, Unlocked
<1>2. PICK j : j = k' OBVIOUS
<1>3. /\ MsgKernel(j) /\ Highest(j)
      /\ \A x \in Threads : MsgCall(j, x, pc[x], p_msg[x])
      /\ \A s \in Servers : MsgServer(j, s, pc[s])
      /\ j.state[t] \in Runnable /\ Others(k, j, t)
      /\ j.queue = k.queue /\ j.u = [k.u EXCEPT ![t] = RDY_OK]
  <2>1. RDY_OK \in P
    BY DEF P, Msgs
  <2> QED BY <1>1, <1>2, <2>1, WokenKeeps
<1>4. HeldSleeps'
  <2>1. \A x \in Threads : k'.state[x] = "SNDMSG" <=> k.state[x] = "SNDMSG"
    BY <1>1, <1>2, <1>3 DEF Others, Runnable
  <2>2. \A r \in Servers : \A x \in held[r] : x \in Threads
    BY MsgParts
  <2> QED BY <1>1, <2>1, <2>2 DEF MsgIInv, HeldSleeps
<1>5. MsgIInv'
  BY <1>1, <1>2, <1>3, <1>4, MsgParts, MsgAgain
<1> QED BY <1>1, <1>2, <1>3, <1>5

\* A sender that is switched in leaves chMsgSend with its answer.
LEMMA ReturnKeeps ==
    ASSUME MsgIInv, MsgResume, pc[k.cur] # "msgwait"
    PROVE  MsgIInv' /\ k' = k
<1>1. /\ irq = "none" /\ k' = k /\ held' = held /\ pc' = [pc EXCEPT ![k.cur] = "run"]
      /\ irq' = irq /\ loop' = loop /\ p_msg' = p_msg
  BY DEF MsgResume, SwitchedIn
<1>2. PICK c : c = k.cur OBVIOUS
<1>3. /\ c \in Threads /\ k.state[c] = "CURRENT" /\ pc'[c] = "run"
      /\ pc' \in [Threads -> {"run", "send", "msgwait"}]
      /\ \A x \in Threads \ {c} : pc'[x] = pc[x]
  BY <1>1, <1>2, MsgParts
<1>4. ASSUME NEW x \in Threads PROVE MsgCall(k, x, pc'[x], p_msg[x])
  <2>1. MsgCall(k, x, pc[x], p_msg[x])
    BY DEF MsgIInv
  <2>2. CASE x = c
    BY <1>3, <2>2 DEF MsgCall, Runnable
  <2>3. CASE x # c
    BY <1>3, <2>1, <2>3
  <2> QED BY <2>2, <2>3
<1>5. ASSUME NEW s \in Servers PROVE MsgServer(k, s, pc'[s])
  <2>1. s \in Threads /\ MsgServer(k, s, pc[s])
    BY MsgParts DEF MsgIInv
  <2> QED BY <1>3, <2>1 DEF MsgServer
<1>6. HeldSleeps'
  BY <1>1 DEF MsgIInv, HeldSleeps
<1> QED BY <1>1, <1>3, <1>4, <1>5, <1>6, MsgParts, MsgAgain

\* A server that is switched in finds the sender it was woken for.
LEMMA ResumeTakes ==
    ASSUME MsgIInv, MsgResume, pc[k.cur] = "msgwait"
    PROVE  /\ k.cur \in Servers /\ Inbox(k.cur) # <<>> /\ MsgTake(k.cur)
           /\ pc' = [pc EXCEPT ![k.cur] = "run"]
           /\ irq' = irq /\ loop' = loop /\ p_msg' = p_msg
<1>1. /\ MsgTake(k.cur) /\ pc' = [pc EXCEPT ![k.cur] = "run"]
      /\ irq' = irq /\ loop' = loop /\ p_msg' = p_msg
  BY DEF MsgResume
<1>2. PICK c : c = k.cur OBVIOUS
<1>3. c \in Threads /\ k.state[c] = "CURRENT" /\ pc[c] = "msgwait"
  BY <1>2, MsgParts
<1>4. c \in Servers
  BY <1>3 DEF MsgIInv, MsgCall
<1>5. k.queue[p_msgqueue[c]] # <<>>
  BY <1>3, <1>4 DEF MsgIInv, MsgServer, Runnable
<1> QED BY <1>1, <1>2, <1>4, <1>5 DEF Inbox

\* A step that only reschedules, or charges the tick.
LEMMA SameKeeps ==
    ASSUME MsgIInv, Good(k', P), Same(k, k'), irq' \in {"none", "tick"},
           irq' = "none" => Highest(k'),
           UNCHANGED <<pc, loop, p_msg, held>>
    PROVE  MsgIInv'
<1>1. PICK j : j = k' OBVIOUS
<1>2. /\ MsgKernel(j)
      /\ \A t \in Threads : \A p, w : MsgCall(k, t, p, w) => MsgCall(j, t, p, w)
      /\ \A s \in Servers : \A p : MsgServer(k, s, p) => MsgServer(j, s, p)
  BY <1>1, MsgParts, MsgSame
<1>3. /\ \A t \in Threads : MsgCall(j, t, pc[t], p_msg[t])
      /\ \A s \in Servers : MsgServer(j, s, pc[s])
  BY <1>2 DEF MsgIInv
<1>4. HeldSleeps'
  <2>1. \A x \in Threads : k'.state[x] = "SNDMSG" <=> k.state[x] = "SNDMSG"
    BY DEF Same, Runnable
  <2>2. \A r \in Servers : \A x \in held[r] : x \in Threads
    BY MsgParts
  <2> QED BY <2>1, <2>2 DEF MsgIInv, HeldSleeps
<1> QED BY <1>1, <1>2, <1>3, <1>4, MsgParts, MsgAgain

\* The tick interrupt, from its entry to its end.
LEMMA MsgTickKeeps ==
    ASSUME MsgIInv, MsgTick
    PROVE  MsgIInv' /\ Same(k, k') /\ UNCHANGED <<pc, p_msg, held>>
<1>1. Good(k, P)
  BY MsgParts
<1>2. UNCHANGED <<pc, loop, p_msg, held>>
  BY DEF MsgTick, EnterTick, LeaveTick
<1>3. CASE EnterTick
  <2>1. k' = ChargeTick(k) /\ irq' = "tick"
    BY <1>3 DEF EnterTick
  <2>2. Good(k', P) /\ Same(k, k')
    BY <1>1, <2>1, Charge
  <2> QED BY <1>2, <2>1, <2>2, SameKeeps
<1>4. CASE LeaveTick
  <2>1. k' = _port_irq_epilogue(k) /\ irq' = "none"
    BY <1>4 DEF LeaveTick
  <2>2. Good(k', P) /\ Highest(k') /\ Same(k, k')
    BY <1>1, <2>1, Epilogue
  <2> QED BY <1>2, <2>1, <2>2, SameKeeps
<1> QED BY <1>3, <1>4 DEF MsgTick

\* Every step keeps the invariant.
LEMMA MsgStep == MsgIInv /\ [MsgNext]_msgvars => MsgIInv'
<1> SUFFICES ASSUME MsgIInv, [MsgNext]_msgvars PROVE MsgIInv'
  OBVIOUS
<1>1. CASE \E t \in Threads : StartThread(t) /\ UNCHANGED <<p_msg, held>>
  BY <1>1, StartKeeps, Zenon
<1>2. CASE \E s \in Servers, m \in Words : chMsgSend(s, m)
  BY <1>2, SendKeeps
<1>3. CASE chMsgWait
  BY <1>3, WaitKeeps
<1>4. CASE \E t \in Threads, m \in Words : chMsgRelease(t, m)
  BY <1>4, ReleaseKeeps, Zenon
<1>5. CASE MsgResume
  <2>1. CASE pc[k.cur] = "msgwait"
    BY <1>5, <2>1, ResumeTakes, TakeKeeps
  <2>2. CASE pc[k.cur] # "msgwait"
    BY <1>5, <2>2, ReturnKeeps
  <2> QED BY <2>1, <2>2
<1>6. CASE MsgTick
  BY <1>6, MsgTickKeeps
<1>7. CASE UNCHANGED msgvars
  <2>1. /\ k' = k /\ pc' = pc /\ irq' = irq /\ loop' = loop
        /\ p_msg' = p_msg /\ held' = held
    BY <1>7 DEF msgvars
  <2>2. HeldSleeps'
    BY <2>1 DEF MsgIInv, HeldSleeps
  <2> QED BY <2>1, <2>2, MsgParts, MsgAgain DEF MsgIInv
<1> QED BY <1>1, <1>2, <1>3, <1>4, <1>5, <1>6, <1>7 DEF MsgNext, MsgServe

\* The invariant of the messages holds for any number of clients and servers.
THEOREM MsgInvariant == MsgSpec => []MsgIInv
<1>1. SysInit /\ MsgInit => MsgIInv
  BY MsgInvariantInit
<1>2. MsgIInv /\ [MsgNext]_msgvars => MsgIInv'
  BY MsgStep
<1> QED BY <1>1, <1>2, PTL DEF MsgSpec

\* Server and client agree on who waits for whom: a sender sleeps from the
\* moment chMsgWait takes it to its release by the same server, which is what
\* chMsgRelease asserts, and no server sleeps beside a sender.
THEOREM ServersCorrect == MsgSpec => []MessagesOK
<1>1. MsgIInv => MessagesOK
  <2> SUFFICES ASSUME MsgIInv PROVE MessagesOK
    OBVIOUS
  <2>1. NoMessageUnseen
    BY DEF MsgIInv, MsgServer, NoMessageUnseen, Inbox
  <2> QED BY <2>1 DEF MsgIInv, MsgTyped, MessagesOK
<1> QED BY <1>1, MsgInvariant, PTL
=============================================================================
