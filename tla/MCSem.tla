------------------------------- MODULE MCSem -------------------------------
(***************************************************************************)
(* Semaphores and, in a second setup in which the threads stand still, the *)
(* virtual timers on which their timeouts are built.  A timer knows        *)
(* nothing of a thread but the place of its timer.                         *)
(***************************************************************************)
EXTENDS ChSem, ChVT

CONSTANTS t1, t2, t3    \* the threads besides Idle

VARIABLE setup

\* Two threads share a priority level, so that round robin matters.
MCPrio == [t \in Threads |-> CASE t = Idle -> 1 [] t = t3 -> 3 [] OTHER -> 2]

TimerSymmetry == Permutations(Timers)

mcvars == <<vars, vtvars, setup>>

\* The timers run beside one of the initial states of the semaphores.
MCInit ==
    /\ Init /\ VTInit
    /\ setup \in {"semaphores", "timers"}
    /\ setup = "timers" => k.cur = t1 /\ \A s \in Sems : cnt[s] = 0

MCNext ==
    /\ UNCHANGED setup
    /\ \/ setup = "semaphores" /\ Next /\ UNCHANGED vtvars
       \/ setup = "timers" /\ VTNext /\ UNCHANGED vars

MCSpec == MCInit /\ [][MCNext]_mcvars
-----------------------------------------------------------------------------
\* The state is of its type, and a timer is in the delta list when and only
\* when it is armed, so that chVTResetI never unlinks one that is not there.
ArmedAndTyped == TypeOK /\ VTTypeOK /\ ArmedIsListed
=============================================================================
