------------------------------- MODULE AbsVT -------------------------------
(***************************************************************************)
(* What the virtual timers promise: each timer that is set counts down by  *)
(* itself, one per tick, is called in the tick that brings it to zero and  *)
(* before the next, and is called no more once it is reset.                *)
(***************************************************************************)
EXTENDS Integers

CONSTANTS Timers, Times    \* Times: the delays a timer can be set with

VARIABLE left              \* the ticks left of each timer, or Off

Off == -1

Init == left = [t \in Timers |-> Off]

Set(t, n) == left[t] = Off /\ left' = [left EXCEPT ![t] = n]
Reset(t)  == left[t] # Off /\ left' = [left EXCEPT ![t] = Off]
Call(t)   == left[t] = 0 /\ left' = [left EXCEPT ![t] = Off]

\* No tick before every timer that is due has been called.
Tick ==
    /\ \A t \in Timers : left[t] # 0
    /\ left' = [t \in Timers |-> IF left[t] = Off THEN Off ELSE left[t] - 1]

Next == \/ Tick
        \/ \E t \in Timers : Reset(t) \/ Call(t) \/ \E n \in Times : Set(t, n)

Spec == Init /\ [][Next]_left
=============================================================================
