--------------------------- MODULE MsgRefinement ---------------------------
(***************************************************************************)
(* The synchronous messages do what AbsMsg promises, for any number of     *)
(* clients and servers: every step of ChMsg is a step of AbsMsg or hidden  *)
(* from it.                                                                *)
(***************************************************************************)
EXTENDS ChMsgProofs

W == Words \cup {"none"}

\* A list of senders with their messages is a sequence of the same length.
LEMMA LettersAre ==
    ASSUME NEW q \in Seq(Threads), NEW w \in [Threads -> W]
    PROVE  /\ Letters(q, w) \in Seq(Threads \X W)
           /\ Len(Letters(q, w)) = Len(q) /\ DOMAIN Letters(q, w) = DOMAIN q
           /\ \A i \in 1 .. Len(q) : Letters(q, w)[i] = <<q[i], w[q[i]]>>
<1>1. Len(q) \in Nat /\ DOMAIN q = 1 .. Len(q) /\ \A i \in 1 .. Len(q) : q[i] \in Threads
  BY InList
<1>2. Letters(q, w) = [i \in 1 .. Len(q) |-> <<q[i], w[q[i]]>>]
  BY <1>1 DEF Letters
<1>3. \A i \in 1 .. Len(q) : <<q[i], w[q[i]]>> \in Threads \X W
  BY <1>1
<1>4. Letters(q, w) \in [1 .. Len(q) -> Threads \X W]
  BY <1>2, <1>3
<1> QED BY <1>1, <1>2, <1>4

\* A sender joins at the end with its message.
LEMMA LettersAppend ==
    ASSUME NEW q \in Seq(Threads), NEW w \in [Threads -> W], NEW c \in Threads,
           c \notin Range(q), NEW m \in W, NEW v \in [Threads -> W],
           v[c] = m, \A t \in Threads \ {c} : v[t] = w[t]
    PROVE  Letters(Append(q, c), v) = Append(Letters(q, w), <<c, m>>)
<1>1. PICK r : r = Append(q, c) BY Zenon
<1>2. /\ r \in Seq(Threads) /\ Len(r) = Len(q) + 1 /\ Len(q) \in Nat
      /\ \A i \in 1 .. Len(q) : r[i] = q[i] /\ q[i] # c /\ q[i] \in Threads
      /\ r[Len(q) + 1] = c
  BY <1>1, InList
<1>3. v \in [Threads -> W] /\ v[c] = m /\ \A t \in Threads \ {c} : v[t] = w[t]
  OBVIOUS
<1>4. PICK a, b : a = Letters(r, v) /\ b = Letters(q, w) OBVIOUS
<1>5. /\ a \in Seq(Threads \X W) /\ Len(a) = Len(q) + 1
      /\ \A i \in 1 .. Len(q) + 1 : a[i] = <<r[i], v[r[i]]>>
  <2>1. /\ a \in Seq(Threads \X W) /\ Len(a) = Len(r)
        /\ \A i \in 1 .. Len(r) : a[i] = <<r[i], v[r[i]]>>
    BY <1>2, <1>4, LettersAre
  <2> QED BY <1>2, <2>1
<1>6. /\ b \in Seq(Threads \X W) /\ Len(b) = Len(q)
      /\ \A i \in 1 .. Len(q) : b[i] = <<q[i], w[q[i]]>>
  BY <1>4, LettersAre
<1>7. PICK d : d = Append(b, <<c, m>>) BY Zenon
<1>8. <<c, m>> \in Threads \X W
  OBVIOUS
<1>9. /\ d \in Seq(Threads \X W) /\ Len(d) = Len(q) + 1
      /\ \A i \in 1 .. Len(q) : d[i] = b[i]
      /\ d[Len(q) + 1] = <<c, m>>
  BY <1>2, <1>6, <1>7, <1>8
<1>10. \A i \in 1 .. Len(a) : a[i] = d[i]
  <2> SUFFICES ASSUME NEW i \in 1 .. Len(a) PROVE a[i] = d[i]
    OBVIOUS
  <2>1. CASE i \in 1 .. Len(q)
    <3>1. /\ a[i] = <<q[i], v[q[i]]>> /\ v[q[i]] = w[q[i]]
      BY <1>2, <1>3, <1>5, <2>1
    <3> QED BY <1>6, <1>9, <2>1, <3>1
  <2>2. CASE i = Len(q) + 1
    BY <1>2, <1>3, <1>5, <1>9, <2>2, Zenon
  <2> QED BY <1>2, <1>5, <2>1, <2>2
<1>11. a = d
  BY <1>5, <1>9, <1>10, EqualLists, Zenon
<1> QED BY <1>1, <1>4, <1>7, <1>11

\* The first sender leaves with its message.
LEMMA LettersTail ==
    ASSUME NEW q \in Seq(Threads), NEW w \in [Threads -> W], q # <<>>
    PROVE  /\ Letters(q, w) # <<>>
           /\ Head(Letters(q, w)) = <<Head(q), w[Head(q)]>>
           /\ Letters(Tail(q), w) = Tail(Letters(q, w))
<1>1. PICK r : r = Tail(q) BY Zenon
<1>2. PICK n : n = Len(q) OBVIOUS
<1>3. /\ r \in Seq(Threads) /\ Len(r) = n - 1 /\ n \in Nat /\ n > 0
      /\ \A i \in 1 .. n - 1 : r[i] = q[i + 1]
      /\ Head(q) = q[1]
  <2>1. n \in Nat /\ n > 0
    BY <1>2, InList
  <2> QED BY <1>1, <1>2, <2>1
<1>4. PICK a, b : a = Letters(r, w) /\ b = Letters(q, w) OBVIOUS
<1>5. /\ a \in Seq(Threads \X W) /\ Len(a) = n - 1
      /\ \A i \in 1 .. n - 1 : a[i] = <<r[i], w[r[i]]>>
  BY <1>3, <1>4, LettersAre, Zenon
<1>6. /\ b \in Seq(Threads \X W) /\ Len(b) = n
      /\ \A i \in 1 .. n : b[i] = <<q[i], w[q[i]]>>
  BY <1>2, <1>4, LettersAre
<1>7. b # <<>> /\ Head(b) = b[1]
  BY <1>3, <1>6
<1>8. PICK d : d = Tail(b) BY Zenon
<1>9. /\ d \in Seq(Threads \X W) /\ Len(d) = n - 1
      /\ \A i \in 1 .. n - 1 : d[i] = b[i + 1]
  BY <1>6, <1>7, <1>8
<1>10. \A i \in 1 .. Len(a) : a[i] = d[i]
  <2> SUFFICES ASSUME NEW i \in 1 .. Len(a) PROVE a[i] = d[i]
    OBVIOUS
  <2>1. i \in 1 .. n - 1 /\ i + 1 \in 1 .. n
    BY <1>3, <1>5
  <2> QED BY <1>3, <1>5, <1>6, <1>9, <2>1, Zenon
<1>11. a = d
  BY <1>5, <1>9, <1>10, EqualLists
<1>12. Head(b) = <<Head(q), w[Head(q)]>>
  BY <1>3, <1>6, <1>7
<1> QED BY <1>1, <1>4, <1>7, <1>8, <1>11, <1>12

\* The inboxes of AbsMsg are the queues, also those of servers not started.
LEMMA InboxesAre ==
    ASSUME NEW a, NEW w, \A s \in Servers : a.state[s] = "SUSPENDED"
                                               => a.queue[p_msgqueue[s]] = <<>>
    PROVE  [s \in Servers |-> IF a.state[s] = "SUSPENDED" THEN <<>>
                              ELSE Letters(a.queue[p_msgqueue[s]], w)]
               = [s \in Servers |-> Letters(a.queue[p_msgqueue[s]], w)]
<1>1. Letters(<<>>, w) = <<>>
  BY DEF Letters
<1> QED BY <1>1

\* What AbsMsg sees before and after a step.
LEMMA AbsView ==
    ASSUME MsgIInv, MsgIInv'
    PROVE  /\ MsgInboxes = [s \in Servers |-> Letters(k.queue[p_msgqueue[s]], p_msg)]
           /\ MsgInboxes' = [s \in Servers |-> Letters(k'.queue[p_msgqueue[s]], p_msg')]
<1>1. \A s \in Servers : k.state[s] = "SUSPENDED" => k.queue[p_msgqueue[s]] = <<>>
  BY DEF MsgIInv, MsgServer
<1>2. \A s \in Servers : k'.state[s] = "SUSPENDED" => k'.queue[p_msgqueue[s]] = <<>>
  BY DEF MsgIInv, MsgServer
<1>3. PICK j, w : j = k' /\ w = p_msg' OBVIOUS
<1>4. MsgInboxes = [s \in Servers |-> Letters(k.queue[p_msgqueue[s]], p_msg)]
  BY <1>1, InboxesAre, Zenon DEF MsgInboxes, Inbox
<1>5. MsgInboxes' = [s \in Servers |-> Letters(j.queue[p_msgqueue[s]], w)]
  <2>1. MsgInboxes' = [s \in Servers |-> IF j.state[s] = "SUSPENDED" THEN <<>>
                                         ELSE Letters(j.queue[p_msgqueue[s]], w)]
    BY <1>3 DEF MsgInboxes, Inbox
  <2>2. \A s \in Servers : j.state[s] = "SUSPENDED" => j.queue[p_msgqueue[s]] = <<>>
    BY <1>2, <1>3
  <2> QED BY <2>1, <2>2, InboxesAre
<1> QED BY <1>3, <1>4, <1>5

\* A step that changes no queue, no message, nobody held, and no answer.
LEMMA AbsSame ==
    ASSUME MsgIInv, MsgIInv', k'.queue = k.queue, p_msg' = p_msg, held' = held,
           \A t \in Threads : MsgAnswers'[t] = MsgAnswers[t]
    PROVE  UNCHANGED MsgAbs!vars
<1>1. MsgInboxes' = MsgInboxes
  BY AbsView
<1>2. MsgTaken' = MsgTaken
  BY DEF MsgTaken
<1>3. MsgAnswers' = MsgAnswers
  BY DEF MsgAnswers
<1> QED BY <1>1, <1>2, <1>3 DEF MsgAbs!vars

\* Who has an answer it has not seen yet, and which, is as before.
SameAnswers ==
    \A t \in Threads :
        /\ pc'[t] = "send" /\ k'.state[t] \in Runnable
               <=> pc[t] = "send" /\ k.state[t] \in Runnable
        /\ pc[t] = "send" /\ k.state[t] \in Runnable => k'.u[t] = k.u[t]

\* Then the answers of AbsMsg are.
LEMMA AnswersStay ==
    ASSUME SameAnswers
    PROVE  MsgAnswers' = MsgAnswers /\ \A t \in Threads : MsgAnswers'[t] = MsgAnswers[t]
<1>1. MsgAnswers' = MsgAnswers
  BY DEF SameAnswers, MsgAnswers, Runnable
<1> QED BY <1>1

\* chMsgSend is Send.
LEMMA SendRefines ==
    ASSUME MsgIInv, NEW s \in Servers, NEW m \in Words, chMsgSend(s, m)
    PROVE  MsgAbs!Send(k.cur, s, m)
<1>1. MsgIInv' /\ Sent(k, k', s)
  BY SendKeeps
<1>2. /\ pc[k.cur] = "run" /\ p_msg' = [p_msg EXCEPT ![k.cur] = m]
      /\ pc' = [pc EXCEPT ![k.cur] = "send"] /\ held' = held /\ k.cur \notin Servers
  BY DEF chMsgSend, InThread, Unlocked
<1>3. PICK c : c = k.cur OBVIOUS
<1>4. c \in Threads /\ k.state[c] = "CURRENT" /\ s \in Threads /\ s # c
  BY <1>2, <1>3, MsgParts
<1>5. \A r \in Servers : /\ c \notin held[r] /\ held[r] \subseteq Threads
                         /\ c \notin Range(k.queue[p_msgqueue[r]])
                         /\ k.queue[p_msgqueue[r]] \in Seq(Threads)
  BY <1>4, MsgParts, Zenon DEF MsgIInv, HeldSleeps, MsgKernel, MsgLists
<1>6. MsgInboxes = [r \in Servers |-> Letters(k.queue[p_msgqueue[r]], p_msg)]
  BY <1>1, AbsView
<1>7. p_msg \in [Threads -> W] /\ m \in W
  BY MsgParts DEF W
<1>8. ASSUME NEW r \in Servers, NEW w \in Words
      PROVE  /\ <<c, w>> \notin MsgTaken[r]
             /\ \A i \in DOMAIN MsgInboxes[r] : MsgInboxes[r][i] # <<c, w>>
  <2>1. <<c, w>> \notin MsgTaken[r]
    BY <1>5 DEF MsgTaken
  <2>2. PICK q : q = k.queue[p_msgqueue[r]] OBVIOUS
  <2>3. q \in Seq(Threads) /\ c \notin Range(q) /\ MsgInboxes[r] = Letters(q, p_msg)
    BY <1>5, <1>6, <2>2
  <2>4. /\ DOMAIN Letters(q, p_msg) = 1 .. Len(q)
        /\ \A i \in 1 .. Len(q) : q[i] # c /\ Letters(q, p_msg)[i] = <<q[i], p_msg[q[i]]>>
    BY <1>7, <2>3, InList, LettersAre
  <2> QED BY <2>1, <2>3, <2>4
<1>9. ~ MsgAbs!Waiting(c)
  BY <1>8, Zenon DEF MsgAbs!Waiting
<1>10. MsgAnswers[c] = "none"
  BY <1>2, <1>3, <1>4 DEF MsgAnswers
<1>11. MsgInboxes' = [MsgInboxes EXCEPT ![s] = Append(MsgInboxes[s], <<c, m>>)]
  <2>1. MsgInboxes' = [r \in Servers |-> Letters(k'.queue[p_msgqueue[r]], p_msg')]
    BY <1>1, AbsView
  <2>2. PICK v, g : v = p_msg' /\ g = k'.queue OBVIOUS
  <2>3. /\ g[p_msgqueue[s]] = Append(k.queue[p_msgqueue[s]], c)
        /\ \A r \in Servers \ {s} : g[p_msgqueue[r]] = k.queue[p_msgqueue[r]]
    BY <1>1, <1>3, <2>2, MsgParts, MsgAssumption, Zenon DEF Sent
  <2>4. Letters(g[p_msgqueue[s]], v) = Append(MsgInboxes[s], <<c, m>>)
    <3>1. PICK q : q = k.queue[p_msgqueue[s]] OBVIOUS
    <3>2. q \in Seq(Threads) /\ c \notin Range(q) /\ MsgInboxes[s] = Letters(q, p_msg)
      BY <1>5, <1>6, <3>1, Zenon
    <3>3. /\ v \in [Threads -> W] /\ v[c] = m
          /\ \A t \in Threads \ {c} : v[t] = p_msg[t]
      BY <1>2, <1>3, <1>4, <1>7, <2>2
    <3>4. Letters(Append(q, c), v) = Append(Letters(q, p_msg), <<c, m>>)
      BY <1>4, <1>7, <3>2, <3>3, LettersAppend
    <3> QED BY <2>3, <3>1, <3>2, <3>4, Zenon
  <2>5. ASSUME NEW r \in Servers \ {s}
        PROVE  Letters(g[p_msgqueue[r]], v) = MsgInboxes[r]
    <3>1. PICK q : q = k.queue[p_msgqueue[r]] OBVIOUS
    <3>2. /\ q \in Seq(Threads) /\ g[p_msgqueue[r]] = q
          /\ MsgInboxes[r] = Letters(q, p_msg)
          /\ \A i \in DOMAIN q : q[i] \in Threads \ {c}
      BY <1>5, <1>6, <2>3, <3>1, InList
    <3>3. \A x \in Threads \ {c} : v[x] = p_msg[x]
      BY <1>2, <1>3, <1>7, <2>2
    <3> QED BY <3>2, <3>3 DEF Letters
  <2> QED BY <1>6, <2>1, <2>2, <2>4, <2>5, Zenon
<1>12. MsgTaken' = MsgTaken
  <2>1. ASSUME NEW r \in Servers
        PROVE  {<<t, p_msg'[t]>> : t \in held'[r]} = {<<t, p_msg[t]>> : t \in held[r]}
    <3>1. \A t \in held[r] : p_msg'[t] = p_msg[t]
      BY <1>2, <1>3, <1>5, <1>7
    <3> QED BY <1>2, <3>1
  <2> QED BY <2>1 DEF MsgTaken
<1>13. MsgAnswers' = MsgAnswers
  <2>1. ASSUME NEW t \in Threads
        PROVE  /\ pc'[t] = "send" /\ k'.state[t] \in Runnable
                      <=> pc[t] = "send" /\ k.state[t] \in Runnable
               /\ pc[t] = "send" /\ k.state[t] \in Runnable => k'.u[t] = k.u[t]
    <3>1. CASE t = c
      BY <1>1, <1>2, <1>3, <3>1 DEF Sent, Runnable
    <3>2. CASE t # c
      <4>1. pc'[t] = pc[t] /\ k'.u[t] = k.u[t]
        BY <1>1, <1>2, <1>3, <1>4, <3>2, MsgParts, Zenon DEF Sent
      <4>2. t = s => pc[t] # "send"
        BY <1>4 DEF MsgIInv, MsgCall
      <4> QED BY <1>1, <1>3, <3>2, <4>1, <4>2 DEF Sent
    <3> QED BY <3>1, <3>2
  <2> QED BY <2>1, AnswersStay DEF SameAnswers
<1> QED BY <1>3, <1>9, <1>10, <1>11, <1>12, <1>13 DEF MsgAbs!Send

\* Taking a sender is Receive.
LEMMA TakeRefines ==
    ASSUME MsgIInv, NEW s \in Servers, s = k.cur, Inbox(s) # <<>>, MsgTake(s),
           pc' = [pc EXCEPT ![s] = "run"],
           irq' = irq, loop' = loop, p_msg' = p_msg
    PROVE  MsgAbs!Receive(s)
<1>1. PICK q, t : q = Inbox(s) /\ t = Head(Inbox(s)) OBVIOUS
<1>2. MsgIInv' /\ Took(k, k', s, t) /\ held' = [held EXCEPT ![s] = @ \cup {t}]
  BY <1>1, TakeKeeps, Zenon
<1>3. /\ q = k.queue[p_msgqueue[s]] /\ q \in Seq(Threads) /\ q # <<>>
      /\ p_msg \in [Threads -> W]
  BY <1>1, MsgParts DEF Inbox, W
<1>4. /\ MsgInboxes = [r \in Servers |-> Letters(k.queue[p_msgqueue[r]], p_msg)]
      /\ MsgInboxes' = [r \in Servers |-> Letters(k'.queue[p_msgqueue[r]], p_msg)]
  BY <1>2, AbsView
<1>5. /\ Letters(q, p_msg) # <<>>
      /\ Head(Letters(q, p_msg)) = <<t, p_msg[t]>>
      /\ Letters(Tail(q), p_msg) = Tail(Letters(q, p_msg))
  BY <1>1, <1>3, LettersTail
<1>6. MsgInboxes[s] = Letters(q, p_msg)
  BY <1>3, <1>4
<1>7. MsgInboxes' = [MsgInboxes EXCEPT ![s] = Tail(MsgInboxes[s])]
  <2>1. PICK g : g = k'.queue OBVIOUS
  <2>2. /\ g[p_msgqueue[s]] = Tail(q)
        /\ \A r \in Servers \ {s} : g[p_msgqueue[r]] = k.queue[p_msgqueue[r]]
    <3>1. PICK y : y = p_msgqueue[s] OBVIOUS
    <3>2. /\ k.queue \in [Queues -> Seq(Threads)] /\ y \in Queues
          /\ \A r \in Servers \ {s} : p_msgqueue[r] \in Queues \ {y}
      BY <3>1, MsgParts, MsgAssumption
    <3>3. g = [k.queue EXCEPT ![y] = Tail(q)]
      BY <1>2, <1>3, <2>1, <3>1 DEF Took
    <3> QED BY <3>1, <3>2, <3>3
  <2> QED BY <1>4, <1>5, <1>6, <2>1, <2>2, Zenon
<1>8. MsgTaken' = [MsgTaken EXCEPT ![s] = MsgTaken[s] \cup {Head(MsgInboxes[s])}]
  <2>1. PICK h : h = held' OBVIOUS
  <2>2. h[s] = held[s] \cup {t} /\ \A r \in Servers \ {s} : h[r] = held[r]
    BY <1>2, <2>1, MsgParts
  <2>3. MsgTaken' = [r \in Servers |-> {<<x, p_msg[x]>> : x \in h[r]}]
    BY <2>1 DEF MsgTaken
  <2>4. {<<x, p_msg[x]>> : x \in h[s]}
            = {<<x, p_msg[x]>> : x \in held[s]} \cup {<<t, p_msg[t]>>}
    BY <2>2
  <2> QED BY <1>5, <1>6, <2>2, <2>3, <2>4, Zenon DEF MsgTaken
<1>9. MsgAnswers' = MsgAnswers
  <2>1. ASSUME NEW x \in Threads
        PROVE  /\ pc'[x] = "send" /\ k'.state[x] \in Runnable
                      <=> pc[x] = "send" /\ k.state[x] \in Runnable
               /\ pc[x] = "send" /\ k.state[x] \in Runnable => k'.u[x] = k.u[x]
    <3>1. k'.u[x] = k.u[x]
      BY <1>2 DEF Took
    <3>2. CASE x = s
      <4>1. pc[x] # "send" /\ pc'[x] = "run"
        BY <3>2, MsgParts, Zenon DEF MsgIInv, MsgCall
      <4> QED BY <4>1
    <3>3. CASE x = t /\ x # s
      BY <1>2, <3>3, MsgParts, Zenon DEF Took, Runnable
    <3>4. CASE x # t /\ x # s
      BY <1>2, <3>1, <3>4, MsgParts DEF Took
    <3> QED BY <3>2, <3>3, <3>4
  <2> QED BY <2>1, AnswersStay DEF SameAnswers
<1> QED BY <1>5, <1>6, <1>7, <1>8, <1>9 DEF MsgAbs!Receive

\* chMsgRelease is Answer.
LEMMA ReleaseRefines ==
    ASSUME MsgIInv, NEW t \in Threads, NEW m \in Words, chMsgRelease(t, m)
    PROVE  /\ k.cur \in Servers /\ <<t, p_msg[t]>> \in MsgTaken[k.cur]
           /\ MsgAbs!Answer(k.cur, <<t, p_msg[t]>>, m)
<1>1. /\ MsgIInv' /\ k'.state[t] \in Runnable /\ Others(k, k', t)
      /\ k'.queue = k.queue /\ k'.u = [k.u EXCEPT ![t] = m]
      /\ k.state[t] = "SNDMSG"
  BY ReleaseKeeps
<1>2. /\ k.cur \in Servers /\ t \in held[k.cur] /\ held' = [held EXCEPT ![k.cur] = @ \ {t}]
      /\ pc' = pc /\ p_msg' = p_msg
  BY DEF chMsgRelease
<1>3. PICK s, e : s = k.cur /\ e = <<t, p_msg[t]>> BY Zenon
<1>4. e \in MsgTaken[s]
  BY <1>2, <1>3 DEF MsgTaken
<1>5. MsgTaken' = [MsgTaken EXCEPT ![s] = MsgTaken[s] \ {e}]
  <2>1. PICK h : h = held' OBVIOUS
  <2>2. h[s] = held[s] \ {t} /\ \A r \in Servers \ {s} : h[r] = held[r]
    BY <1>2, <1>3, <2>1, MsgParts
  <2>3. MsgTaken' = [r \in Servers |-> {<<x, p_msg[x]>> : x \in h[r]}]
    BY <1>2, <2>1 DEF MsgTaken
  <2>4. {<<x, p_msg[x]>> : x \in h[s]} = {<<x, p_msg[x]>> : x \in held[s]} \ {e}
    BY <1>3, <2>2
  <2> QED BY <2>2, <2>3, <2>4, Zenon DEF MsgTaken
<1>6. MsgAnswers' = [MsgAnswers EXCEPT ![e[1]] = m]
  <2>1. e[1] = t
    BY <1>3
  <2>2. ASSUME NEW x \in Threads
        PROVE  (IF pc'[x] = "send" /\ k'.state[x] \in {"READY", "CURRENT"}
                THEN k'.u[x] ELSE "none")
                   = IF x = t THEN m ELSE MsgAnswers[x]
    <3>1. CASE x = t
      <4>1. pc[t] = "send" /\ k'.u[t] = m
        BY <1>1, MsgParts, Zenon DEF MsgIInv, MsgCall
      <4> QED BY <1>1, <1>2, <3>1, <4>1 DEF Runnable
    <3>2. CASE x # t
      <4>1. k'.u[x] = k.u[x]
        BY <1>1, <3>2, MsgParts, Zenon
      <4> QED BY <1>1, <1>2, <3>2, <4>1, Zenon DEF Others, Runnable, MsgAnswers
    <3> QED BY <3>1, <3>2
  <2>3. MsgAnswers \in [Threads -> {MsgAnswers[x] : x \in Threads}]
    BY DEF MsgAnswers
  <2> QED BY <2>1, <2>2, <2>3, Zenon DEF MsgAnswers
<1>7. MsgInboxes' = MsgInboxes
  BY <1>1, <1>2, AbsView
<1> QED BY <1>2, <1>3, <1>4, <1>5, <1>6, <1>7 DEF MsgAbs!Answer

\* A sender that leaves chMsgSend is Return.
LEMMA ReturnRefines ==
    ASSUME MsgIInv, MsgResume, pc[k.cur] # "msgwait"
    PROVE  MsgAbs!Return(k.cur)
<1>1. MsgIInv' /\ k' = k
  BY ReturnKeeps
<1>2. /\ pc' = [pc EXCEPT ![k.cur] = "run"] /\ held' = held /\ p_msg' = p_msg
      /\ pc[k.cur] # "run"
  BY DEF MsgResume, SwitchedIn
<1>3. PICK c : c = k.cur OBVIOUS
<1>4. /\ c \in Threads /\ k.state[c] = "CURRENT" /\ pc[c] = "send"
      /\ pc'[c] = "run" /\ \A x \in Threads \ {c} : pc'[x] = pc[x]
  BY <1>2, <1>3, MsgParts
<1>5. MsgAnswers[c] # "none"
  <2>1. k.u[c] \in Words
    BY <1>4 DEF MsgIInv, MsgCall, Runnable
  <2> QED BY <1>4, <2>1, MsgAssumption DEF MsgAnswers
<1>6. MsgAnswers' = [MsgAnswers EXCEPT ![c] = "none"]
  BY <1>1, <1>4, Zenon DEF MsgAnswers
<1>7. MsgInboxes' = MsgInboxes /\ MsgTaken' = MsgTaken
  BY <1>1, <1>2, AbsView DEF MsgTaken
<1> QED BY <1>3, <1>5, <1>6, <1>7 DEF MsgAbs!Return

\* Steps that AbsMsg does not see: a start, the tick, and a server that sleeps.
LEMMA Unseen ==
    ASSUME MsgIInv, MsgIInv', p_msg' = p_msg, held' = held, k'.queue = k.queue,
           SameAnswers
    PROVE  UNCHANGED MsgAbs!vars
<1>1. \A t \in Threads : MsgAnswers'[t] = MsgAnswers[t]
  BY AnswersStay
<1> QED BY <1>1, AbsSame

\* Every step of the messages is a step of AbsMsg or changes nothing there.
LEMMA RefinementStep ==
    ASSUME MsgIInv, [MsgNext]_msgvars
    PROVE  [MsgAbs!Next]_(MsgAbs!vars)
<1>1. ASSUME NEW t \in Threads, StartThread(t), UNCHANGED <<p_msg, held>>
      PROVE  UNCHANGED MsgAbs!vars
  <2>1. /\ MsgIInv' /\ k'.state[t] \in Runnable /\ Others(k, k', t)
        /\ k'.queue = k.queue /\ k'.u = [k.u EXCEPT ![t] = RDY_OK]
        /\ k.state[t] = "SUSPENDED"
    BY <1>1, StartKeeps
  <2>2. pc' = pc /\ pc[t] = "run"
    BY <1>1, <2>1 DEF StartThread, MsgIInv, MsgCall
  <2>3. SameAnswers
    <3>1. \A x \in Threads \ {t} : k'.u[x] = k.u[x]
      BY <2>1, MsgParts
    <3> QED BY <2>1, <2>2, <3>1 DEF SameAnswers, Others
  <2> QED BY <1>1, <2>1, <2>3, Unseen
<1>2. ASSUME NEW s \in Servers, NEW m \in Words, chMsgSend(s, m)
      PROVE  MsgAbs!Next
  <2>1. MsgAbs!Send(k.cur, s, m) /\ k.cur \in Threads
    BY <1>2, SendRefines, MsgParts
  <2> QED BY <2>1 DEF MsgAbs!Next
<1>3. ASSUME chMsgWait PROVE MsgAbs!Next \/ UNCHANGED MsgAbs!vars
  <2>1. /\ k.cur \in Servers /\ pc[k.cur] = "run"
        /\ irq' = irq /\ loop' = loop /\ p_msg' = p_msg
    BY <1>3 DEF chMsgWait, InThread, Unlocked
  <2>2. CASE Inbox(k.cur) # <<>>
    <3>1. MsgTake(k.cur) /\ pc' = pc
      BY <1>3, <2>2 DEF chMsgWait
    <3>2. pc' = [pc EXCEPT ![k.cur] = "run"]
      BY <2>1, <3>1, MsgParts
    <3>3. MsgAbs!Receive(k.cur)
      BY <2>1, <2>2, <3>1, <3>2, TakeRefines, Zenon
    <3> QED BY <2>1, <3>3 DEF MsgAbs!Next
  <2>3. CASE Inbox(k.cur) = <<>>
    <3>1. /\ MsgIInv' /\ k'.queue = k.queue /\ k'.u = k.u /\ held' = held
          /\ k'.state[k.cur] = "WTMSG" /\ Others(k, k', k.cur)
      BY <1>3, <2>3, WaitKeeps
    <3>2. pc' = [pc EXCEPT ![k.cur] = "msgwait"]
      BY <1>3, <2>3 DEF chMsgWait
    <3>3. SameAnswers
      <4>1. PICK c : c = k.cur OBVIOUS
      <4>2. /\ c \in Threads /\ pc[c] = "run" /\ pc'[c] = "msgwait"
            /\ \A x \in Threads \ {c} : pc'[x] = pc[x]
        BY <2>1, <3>2, <4>1, MsgParts
      <4> QED BY <3>1, <4>1, <4>2 DEF SameAnswers, Others
    <3> QED BY <2>1, <3>1, <3>3, Unseen
  <2> QED BY <2>2, <2>3
<1>4. ASSUME NEW t \in Threads, NEW m \in Words, chMsgRelease(t, m)
      PROVE  MsgAbs!Next
  <2>1. /\ k.cur \in Servers /\ <<t, p_msg[t]>> \in MsgTaken[k.cur]
        /\ MsgAbs!Answer(k.cur, <<t, p_msg[t]>>, m)
    BY <1>4, ReleaseRefines
  <2> QED BY <2>1 DEF MsgAbs!Next
<1>5. ASSUME MsgResume PROVE MsgAbs!Next
  <2>1. CASE pc[k.cur] = "msgwait"
    <3>1. MsgAbs!Receive(k.cur) /\ k.cur \in Servers
      BY <1>5, <2>1, ResumeTakes, TakeRefines
    <3> QED BY <3>1 DEF MsgAbs!Next
  <2>2. CASE pc[k.cur] # "msgwait"
    <3>1. MsgAbs!Return(k.cur) /\ k.cur \in Threads
      BY <1>5, <2>2, ReturnRefines, MsgParts
    <3> QED BY <3>1 DEF MsgAbs!Next
  <2> QED BY <2>1, <2>2
<1>6. ASSUME MsgTick PROVE UNCHANGED MsgAbs!vars
  <2>1. MsgIInv' /\ Same(k, k') /\ UNCHANGED <<pc, p_msg, held>>
    BY <1>6, MsgTickKeeps
  <2>2. SameAnswers
    BY <2>1 DEF SameAnswers, Same
  <2>3. k'.queue = k.queue
    BY <2>1 DEF Same
  <2> QED BY <2>1, <2>2, <2>3, Unseen
<1>7. ASSUME UNCHANGED msgvars PROVE UNCHANGED MsgAbs!vars
  <2>1. k' = k /\ pc' = pc /\ p_msg' = p_msg /\ held' = held
    BY <1>7 DEF msgvars
  <2>2. MsgInboxes' = MsgInboxes /\ MsgTaken' = MsgTaken /\ MsgAnswers' = MsgAnswers
    BY <2>1 DEF MsgInboxes, Inbox, MsgTaken, MsgAnswers
  <2> QED BY <2>2 DEF MsgAbs!vars
<1> QED
  BY <1>1, <1>2, <1>3, <1>4, <1>5, <1>6, <1>7 DEF MsgNext, MsgServe

\* The state after chSysInit is the initial state of AbsMsg.
LEMMA RefinementInit ==
    ASSUME SysInit, MsgInit
    PROVE  MsgAbs!Init
<1>1. /\ pc = [t \in Threads |-> "run"] /\ held = [s \in Servers |-> {}]
      /\ k.queue = [q \in Queues |-> <<>>]
  BY DEF SysInit, MsgInit
<1>2. MsgInboxes = [s \in Servers |-> <<>>]
  <2>1. \A s \in Servers : Inbox(s) = <<>>
    BY <1>1, MsgAssumption DEF Inbox
  <2>2. Letters(<<>>, p_msg) = <<>>
    BY DEF Letters
  <2> QED BY <2>1, <2>2 DEF MsgInboxes
<1>3. MsgTaken = [s \in Servers |-> {}]
  BY <1>1 DEF MsgTaken
<1>4. MsgAnswers = [t \in Threads |-> "none"]
  BY <1>1 DEF MsgAnswers
<1> QED BY <1>2, <1>3, <1>4 DEF MsgAbs!Init

\* What a client sees of chMsgSend, chMsgWait and chMsgRelease is AbsMsg: each
\* message is received once, in the order of arrival, and the call returns the
\* answer given to that message.
THEOREM MessagesRefine == MsgSpec => ImplementsAbsMsg
<1>1. SysInit /\ MsgInit => MsgAbs!Init
  BY RefinementInit
<1>2. MsgIInv /\ [MsgNext]_msgvars => [MsgAbs!Next]_(MsgAbs!vars)
  BY RefinementStep
<1> QED BY <1>1, <1>2, MsgInvariant, PTL DEF MsgSpec, ImplementsAbsMsg, MsgAbs!Spec
=============================================================================
