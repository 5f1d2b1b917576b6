------------------------------- MODULE AbsSem -------------------------------
(***************************************************************************)
(* What the semaphores promise to their users, with no scheduler and no    *)
(* timers: a value, the callers that wait in order of arrival, and how each*)
(* blocked call ends.                                                      *)
(***************************************************************************)
EXTENDS Integers, Sequences, Functions

CONSTANTS Threads, Sems

VARIABLE sem    \* value[s], waiting[s], and outcome[t]: "none", "waiting",
                \* or the message a call that had to wait is about to return

Outcomes == {"RDY_OK", "RDY_RESET", "RDY_TIMEOUT"}

Init == /\ sem.value \in [Sems -> Nat]
        /\ sem = [value   |-> sem.value,
                  waiting |-> [s \in Sems |-> <<>>],
                  outcome |-> [t \in Threads |-> "none"]]

\* The first waiter takes the unit; the value grows only if nobody waits.
Signalled(a, s) ==
    IF a.waiting[s] = <<>>
    THEN [a EXCEPT !.value[s] = @ + 1]
    ELSE [a EXCEPT !.outcome[Head(a.waiting[s])] = "RDY_OK",
                   !.waiting[s] = Tail(@)]

Waited(a, t, s) ==
    IF a.value[s] > 0
    THEN [a EXCEPT !.value[s] = @ - 1]
    ELSE [a EXCEPT !.outcome[t] = "waiting",
                   !.waiting[s] = Append(@, t)]

Wait(t, s) == sem.outcome[t] = "none" /\ sem' = Waited(sem, t, s)

Signal(s) == sem' = Signalled(sem, s)

SignalWait(t, s, w) == /\ sem.outcome[t] = "none"
                       /\ sem' = Waited(Signalled(sem, s), t, w)

\* Everyone leaves at once, and the value is the new one.
Reset(s, n) ==
    sem' = [value   |-> [sem.value EXCEPT ![s] = n],
            waiting |-> [sem.waiting EXCEPT ![s] = <<>>],
            outcome |-> [t \in Threads |->
                           IF t \in Range(sem.waiting[s]) THEN "RDY_RESET"
                           ELSE sem.outcome[t]]]

\* One waiter gives up, wherever it is in the line; nothing else changes.
Timeout(t) ==
    /\ sem.outcome[t] = "waiting"
    /\ sem' = [sem EXCEPT !.outcome[t] = "RDY_TIMEOUT",
                          !.waiting = [s \in Sems |->
                                         SelectSeq(@[s], LAMBDA x : x # t)]]

Return(t) == /\ sem.outcome[t] \in Outcomes
             /\ sem' = [sem EXCEPT !.outcome[t] = "none"]

Next == \/ \E t \in Threads, s \in Sems : Wait(t, s)
        \/ \E s \in Sems : Signal(s)
        \/ \E t \in Threads, s, w \in Sems : SignalWait(t, s, w)
        \/ \E s \in Sems : sem'.value[s] \in Nat /\ Reset(s, sem'.value[s])
        \/ \E t \in Threads : Timeout(t) \/ Return(t)

Spec == Init /\ [][Next]_sem
=============================================================================
