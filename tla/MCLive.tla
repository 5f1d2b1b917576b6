------------------------------- MODULE MCLive ------------------------------
(***************************************************************************)
(* Semaphores and messages: what must happen in the end.  They share the   *)
(* scheduler and no state of their own, so each is explored by itself:     *)
(* part says which.                                                        *)
(***************************************************************************)
EXTENDS ChSem, ChMsg

CONSTANTS t1, t2, t3, t4,   \* the threads besides Idle
          s1, s2            \* the queues

VARIABLE part

\* Of t3 and t4, the servers of the messages, one outranks the clients and the
\* other has to share the processor with them, so that they queue.
MCPrio == [t \in Threads |-> CASE t = Idle -> 1 [] t = t3 -> 3 [] OTHER -> 2]

MCMsgQueue == CHOOSE f \in [Servers -> Queues] :
                  \A s, r \in Servers : f[s] = f[r] => s = r

livevars == <<vars, p_msg, held, part>>

\* In the part about semaphores the servers are not started and s2 is not
\* used.
LiveInit ==
    /\ part \in {"sem", "msg"}
    /\ Init /\ MsgInit
    /\ part = "sem" => k.cur \notin Servers /\ cnt[s2] = 0
    /\ part = "msg" => cnt = [s \in Sems |-> 0]

LiveNext ==
    /\ UNCHANGED part
    /\ \/ /\ part = "sem" /\ Next
          /\ \A s \in Servers : k'.state[s] = "SUSPENDED"
          /\ UNCHANGED cnt[s2] /\ (loop' # <<>> => loop'[1].s # s2)
          /\ UNCHANGED <<p_msg, held>>
       \/ part = "msg" /\ MsgNext /\ UNCHANGED cnt

LiveSpec ==
    /\ LiveInit /\ [][LiveNext]_livevars
    /\ \/ part = "sem" /\ Fairness
       \/ part = "msg" /\ MsgFairness

=============================================================================
