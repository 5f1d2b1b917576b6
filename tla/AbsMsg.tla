------------------------------- MODULE AbsMsg ------------------------------
(***************************************************************************)
(* What synchronous messages promise: each message waits its turn in the   *)
(* inbox of its receiver, is taken once, and is answered once; its sender  *)
(* can send again only after it has seen the answer.                       *)
(***************************************************************************)
EXTENDS Naturals, Sequences

CONSTANTS Clients, Servers, Words

VARIABLES inbox,    \* messages not received yet, <<sender, word>>
          taken,    \* messages received and not answered yet
          answer    \* the answer a sender has not seen yet, or "none"

vars == <<inbox, taken, answer>>

Init ==
    /\ inbox = [s \in Servers |-> <<>>]
    /\ taken = [s \in Servers |-> {}]
    /\ answer = [c \in Clients |-> "none"]

Waiting(c) ==
    \E s \in Servers, w \in Words :
        \/ <<c, w>> \in taken[s]
        \/ \E i \in DOMAIN inbox[s] : inbox[s][i] = <<c, w>>

Send(c, s, w) ==
    /\ ~Waiting(c) /\ answer[c] = "none"
    /\ inbox' = [inbox EXCEPT ![s] = Append(@, <<c, w>>)]
    /\ UNCHANGED <<taken, answer>>

Receive(s) ==
    /\ inbox[s] # <<>>
    /\ taken' = [taken EXCEPT ![s] = @ \cup {Head(inbox[s])}]
    /\ inbox' = [inbox EXCEPT ![s] = Tail(@)]
    /\ UNCHANGED answer

Answer(s, m, w) ==
    /\ m \in taken[s]
    /\ taken'  = [taken EXCEPT ![s] = @ \ {m}]
    /\ answer' = [answer EXCEPT ![m[1]] = w]
    /\ UNCHANGED inbox

Return(c) ==
    /\ answer[c] # "none"
    /\ answer' = [answer EXCEPT ![c] = "none"]
    /\ UNCHANGED <<inbox, taken>>

Next ==
    \/ \E c \in Clients, s \in Servers, w \in Words : Send(c, s, w)
    \/ \E s \in Servers : Receive(s)
    \/ \E s \in Servers, w \in Words : \E m \in taken[s] : Answer(s, m, w)
    \/ \E c \in Clients : Return(c)

Spec == Init /\ [][Next]_vars
=============================================================================
