------------------------------- MODULE ChEvt -------------------------------
(***************************************************************************)
(* Event flags (chevents.c): events pending on a thread, sources and the   *)
(* listeners registered on them, and the waits for one, any or all of a    *)
(* set of events, with and without a timeout.  A mask is a set of event    *)
(* identifiers.  While a thread waits, p_u holds the mask it waits for,    *)
(* p_u.ewmask, which is wait[t].mask; u[t] then is the mark EWMASK.        *)
(***************************************************************************)
EXTENDS ChSys, SequencesExt

CONSTANTS Events,      \* event identifiers, numbers as in EVENT_MASK
          Flags,       \* the flags a broadcast may carry
          Sources,
          Listeners,   \* EventListener structures
          Owner,       \* the thread that registers a listener
          Mask,        \* and the events it registers it with
          Uses         \* the masks a thread waits for, and is signalled with

ASSUME EvtAssumption ==
    /\ Events \subseteq Nat
    /\ Owner \in [Listeners -> Threads \ {Idle}]
    /\ Mask \in [Listeners -> SUBSET Events \ {{}}]
    /\ Uses \in [Threads -> SUBSET (SUBSET Events \ {{}})]

VARIABLES p_epending,  \* events pending on a thread
          es_next,     \* the listeners of a source, the last registered first
          el_flags,
          wait,        \* how a thread inside a wait call waits, and for what
          owed         \* listeners whose event their thread has been given
                       \* since it last read their flags

evt     == <<p_epending, es_next, el_flags, owed>>
evtvars == <<k, pc, irq, loop, evt, wait>>

EWMASK == "ewmask"
NoWait == [how |-> "none", mask |-> {}]

\* chEvtInit
EvtInit ==
    /\ p_epending = [t \in Threads |-> {}]
    /\ es_next = [s \in Sources |-> <<>>]
    /\ el_flags = [l \in Listeners |-> {}]
    /\ wait = [t \in Threads |-> NoWait]
    /\ owed = {}

-----------------------------------------------------------------------------
(* Registration. *)

Registered(l) == \E s \in Sources : l \in Range(es_next[s])

\* A listener that is linked twice would close the list on itself: callers
\* register one that is not registered.
chEvtRegisterMask(s, l) ==
    /\ InThread /\ k.cur = Owner[l]
    /\ ~Registered(l)
    /\ es_next'  = [es_next EXCEPT ![s] = <<l>> \o @]
    /\ el_flags' = [el_flags EXCEPT ![l] = {}]
    /\ UNCHANGED <<k, pc, irq, loop, p_epending, wait, owed>>

chEvtUnregister(s, l) ==
    /\ InThread
    /\ es_next' = [es_next EXCEPT ![s] = Unlink(@, l)]
    /\ UNCHANGED <<k, pc, irq, loop, p_epending, el_flags, wait, owed>>

-----------------------------------------------------------------------------
(* Signals. *)

\* Whether events pend end the wait of a thread in state st for w.
Satisfied(st, pend, w) ==
    \/ st = "WTOREVT"  /\ pend \cap w # {}
    \/ st = "WTANDEVT" /\ w \subseteq pend

EvtWake(k1, t) == chSchReadyI([k1 EXCEPT !.u[t] = RDY_OK], t)

\* Mutant: only the new events are compared with what the thread waits for.
chEvtSignalI_NewOnly(ks, t, mask) ==
    [k |-> IF Satisfied(ks.k.state[t], mask, wait[t].mask)
           THEN EvtWake(ks.k, t) ELSE ks.k,
     pending |-> [ks.pending EXCEPT ![t] = @ \cup mask]]

chEvtSignalI(ks, t, mask) ==
    LET pend == ks.pending[t] \cup mask
    IN  [k |-> IF Satisfied(ks.k.state[t], pend, wait[t].mask)
               THEN EvtWake(ks.k, t) ELSE ks.k,
         pending |-> [ks.pending EXCEPT ![t] = pend]]

\* The kernel and the pending events as one value, for the operators here.
KS == [k |-> k, pending |-> p_epending]

\* Mutant: the walk over the listeners stops after the first.
chEvtBroadcastFlagsI_First(s) ==
    IF es_next[s] = <<>> THEN KS
    ELSE chEvtSignalI(KS, Owner[es_next[s][1]], Mask[es_next[s][1]])

chEvtBroadcastFlagsI(s) ==
    FoldLeft(LAMBDA ks, l : chEvtSignalI(ks, Owner[l], Mask[l]),
             KS, es_next[s])

FlagListeners(s, flags) ==
    el_flags' = [l \in Listeners |->
        IF l \in Range(es_next[s]) THEN el_flags[l] \cup flags ELSE el_flags[l]]

\* From a thread the call ends with a reschedule, from a handler with the
\* epilogue of the handler.
chEvtSignal(t, mask) ==
    /\ LET r == chEvtSignalI(KS, t, mask) IN
         /\ \/ InThread /\ k' = chSchRescheduleS(r.k)
            \/ InIsr    /\ k' = IsrExit(r.k)
         /\ p_epending' = r.pending
    /\ UNCHANGED <<pc, irq, loop, es_next, el_flags, wait, owed>>

chEvtBroadcastFlags(s, flags) ==
    /\ LET r == chEvtBroadcastFlagsI(s) IN
         /\ \/ InThread /\ k' = chSchRescheduleS(r.k)
            \/ InIsr    /\ k' = IsrExit(r.k)
         /\ p_epending' = r.pending
    /\ FlagListeners(s, flags)
    /\ UNCHANGED <<pc, irq, loop, es_next, wait, owed>>

-----------------------------------------------------------------------------
(* What a thread does with its own events and flags. *)

\* The events given to thread t: its listeners' flags are to be read now.
Given(t, mask) ==
    owed' = owed \cup {l \in Listeners : Owner[l] = t /\ Mask[l] \cap mask # {}}

chEvtGetAndClearEvents(mask) ==
    /\ InThread
    /\ p_epending' = [p_epending EXCEPT ![k.cur] = @ \ mask]
    /\ Given(k.cur, p_epending[k.cur] \cap mask)
    /\ UNCHANGED <<k, pc, irq, loop, es_next, el_flags, wait>>

chEvtAddEvents(mask) ==
    /\ InThread
    /\ p_epending' = [p_epending EXCEPT ![k.cur] = @ \cup mask]
    /\ UNCHANGED <<k, pc, irq, loop, es_next, el_flags, wait, owed>>

chEvtGetAndClearFlags(l) ==
    /\ InThread /\ k.cur = Owner[l]
    /\ el_flags' = [el_flags EXCEPT ![l] = {}]
    /\ owed' = owed \ {l}
    /\ UNCHANGED <<k, pc, irq, loop, p_epending, es_next, wait>>

-----------------------------------------------------------------------------
(* Waits. *)

\* The events a wait returns, m & -m being the lowest.
Served(w, pend) ==
    CASE w.how = "one" -> {Min(pend \cap w.mask)}
      [] w.how = "any" -> pend \cap w.mask
      [] w.how = "all" -> w.mask

Serve(w) ==
    /\ p_epending' = [p_epending EXCEPT ![k.cur] = @ \ Served(w, @)]
    /\ Given(k.cur, Served(w, p_epending[k.cur]))

Enough(w, pend) ==
    IF w.how = "all" THEN w.mask \subseteq pend ELSE w.mask \cap pend # {}

EvtWait(w, time) ==
    /\ InThread
    /\ \/ /\ Enough(w, p_epending[k.cur])
          /\ Serve(w)
          /\ UNCHANGED <<k, pc, wait>>
       \/ /\ ~Enough(w, p_epending[k.cur]) /\ time # TIME_IMMEDIATE
          /\ LET k1 == [k EXCEPT !.u[k.cur] = EWMASK]
                 st == IF w.how = "all" THEN "WTANDEVT" ELSE "WTOREVT"
             IN  IF time = TIME_INFINITE
                 THEN /\ k'  = chSchGoSleepS(k1, st)
                      /\ pc' = [pc EXCEPT ![k.cur] = "wait"]
                 ELSE /\ k'  = chSchGoSleepTimeoutS(k1, st)
                      /\ pc' = [pc EXCEPT ![k.cur] = "timed"]
          /\ wait' = [wait EXCEPT ![k.cur] = w]
          /\ UNCHANGED <<p_epending, owed>>
    /\ UNCHANGED <<irq, loop, es_next, el_flags>>

chEvtWaitOneTimeout(mask, time) == EvtWait([how |-> "one", mask |-> mask], time)
chEvtWaitAnyTimeout(mask, time) == EvtWait([how |-> "any", mask |-> mask], time)
chEvtWaitAllTimeout(mask, time) == EvtWait([how |-> "all", mask |-> mask], time)

\* Switched in again: a timeout returns no event and clears none.
EvtResume ==
    /\ SwitchedIn
    /\ k' = IF pc[k.cur] = "timed" THEN SleepTimeoutEnd(k) ELSE k
    /\ IF pc[k.cur] = "timed" /\ k.u[k.cur] # RDY_OK
       THEN UNCHANGED <<p_epending, owed>>
       ELSE Serve(wait[k.cur])
    /\ pc'   = [pc EXCEPT ![k.cur] = "run"]
    /\ wait' = [wait EXCEPT ![k.cur] = NoWait]
    /\ UNCHANGED <<irq, loop, es_next, el_flags>>

-----------------------------------------------------------------------------
EvtTick ==
    /\ \/ EnterTick
       \/ \E t \in Threads : TakeTimer(t)
       \/ CallTimer
       \/ LeaveTick
    /\ UNCHANGED <<evt, wait>>

EvtCall ==
    \/ \E t \in Threads : StartThread(t) /\ UNCHANGED <<evt, wait>>
    \/ \E s \in Sources, l \in Listeners :
           chEvtRegisterMask(s, l) \/ chEvtUnregister(s, l)
    \/ \E l \in Listeners : chEvtGetAndClearFlags(l)
    \/ \E m \in Uses[k.cur] : chEvtGetAndClearEvents(m) \/ chEvtAddEvents(m)
    \/ \E m \in Uses[k.cur], time \in Times :
           \/ chEvtWaitOneTimeout(m, time)
           \/ chEvtWaitAnyTimeout(m, time)
           \/ chEvtWaitAllTimeout(m, time)

EvtNext ==
    \/ EvtCall
    \/ \E t \in Threads : \E m \in Uses[t] : chEvtSignal(t, m)
    \/ \E s \in Sources, f \in SUBSET Flags : chEvtBroadcastFlags(s, f)
    \/ EvtResume
    \/ EvtTick

-----------------------------------------------------------------------------
(* Properties. *)

EvtTypeOK ==
    /\ k \in Kernel(Msgs \cup {EWMASK})
    /\ pc \in [Threads -> {"run", "wait", "timed"}]
    /\ irq \in {"none", "tick"} \cup Threads /\ loop = <<>>
    /\ p_epending \in [Threads -> SUBSET Events]
    /\ es_next \in [Sources -> Seq(Listeners)]
    /\ el_flags \in [Listeners -> SUBSET Flags]
    /\ wait \in [Threads -> [how : {"none", "one", "any", "all"},
                             mask : SUBSET Events]]
    /\ owed \subseteq Listeners

\* No thread sleeps on events that are already pending on it: whichever of
\* several signals completes the set ends the wait.
NoEventSleptOver ==
    \A t \in Threads : k.state[t] \in {"WTOREVT", "WTANDEVT"} =>
        ~Enough(wait[t], p_epending[t])

\* A wait that did not time out returns what it was called for, whatever
\* signals and timeouts came between the wake-up and the moment the thread
\* ran: the timeout callback leaves a thread alone that a signal has woken.
WaitsReturnEvents ==
    \A t \in Threads :
        /\ k.state[t] \in {"READY", "CURRENT"} /\ wait[t] # NoWait
        /\ k.u[t] # RDY_TIMEOUT
        => Enough(wait[t], p_epending[t])

\* Flags are never left behind: if a registered listener has flags, its event
\* is pending on its thread, or has been given to the thread, which is to read
\* the flags next.  This is what clearing the event before reading the flags
\* is for.
FlagsAnnounced ==
    \A l \in Listeners :
        Registered(l) /\ el_flags[l] # {} =>
            Mask[l] \cap p_epending[Owner[l]] # {} \/ l \in owed
=============================================================================
