------------------------------ MODULE AbsMBox ------------------------------
(***************************************************************************)
(* What a mailbox promises: a queue of at most Size messages, first posted *)
(* first fetched but for the urgent ones, which go ahead; nothing is lost  *)
(* except by a reset, which empties it, and nothing is fetched twice.      *)
(***************************************************************************)
EXTENDS Naturals, Sequences

CONSTANTS Data,    \* what can be posted
          Size     \* number of slots

VARIABLE q         \* the messages in the mailbox

Init == q = <<>>

Post(m)      == Len(q) < Size /\ q' = Append(q, m)
PostAhead(m) == Len(q) < Size /\ q' = <<m>> \o q
Fetch        == q # <<>> /\ q' = Tail(q)
Reset        == q' = <<>>

Next == Fetch \/ Reset \/ \E m \in Data : Post(m) \/ PostAhead(m)

Spec == Init /\ [][Next]_q
=============================================================================
