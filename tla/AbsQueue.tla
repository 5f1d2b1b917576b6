------------------------------ MODULE AbsQueue -----------------------------
(***************************************************************************)
(* What an I/O queue promises: the bytes come out in the order they went   *)
(* in, at most Size of them are inside, and only a reset drops any.        *)
(***************************************************************************)
EXTENDS Naturals, Sequences

CONSTANTS Bytes, Size

VARIABLE q

Init == q = <<>>

Put(b) == Len(q) < Size /\ q' = Append(q, b)
Get    == q # <<>> /\ q' = Tail(q)
Reset  == q' = <<>>

Next == Get \/ Reset \/ \E b \in Bytes : Put(b)

Spec == Init /\ [][Next]_q
=============================================================================
