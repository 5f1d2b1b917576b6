-------------------------------- MODULE ChVT --------------------------------
(***************************************************************************)
(* The virtual timers (chvt.c, chvt.h): a list in the order of expiry in   *)
(* which each timer keeps the ticks between its predecessor and itself,    *)
(* the tick that consumes it, and the sleeps of threads (chthreads.c).     *)
(*                                                                         *)
(* The tick handler releases the lock around each callback; in that window *)
(* the callback, and the handlers of higher urgency, set and reset timers. *)
(* systime_t has W values: every sum and difference is modulo W.           *)
(***************************************************************************)
EXTENDS Integers, SequencesExt

CONSTANTS W,          \* the number of values of systime_t
          Timers,     \* the timers set and reset by threads and handlers
          Sleepers,   \* the threads; each has a timer on its stack
          Pars,       \* the values a callback and its parameter come in
          None

ASSUME WAssumption == W \in Nat /\ W > 2
ASSUME TimersAssumption == Timers \cap Sleepers = {} /\ None \notin Pars

AllTimers == Timers \cup Sleepers

VARIABLES systime,    \* vtlist.vt_systime
          list,       \* the timers from vtlist.vt_next on
          time,       \* vt_time of each timer
          func,       \* vt_func, None if the timer is not armed
          par,        \* vt_par
          tick,       \* where the tick handler is: not running, in its loop,
                      \* at the call, which is unlocked, or in the callback
          vtp, fn,    \* its locals
          until       \* the argument of the chThdSleepUntil a thread is in

vtvars == <<systime, list, time, func, par, tick, vtp, fn, until>>

\* TIME_INFINITE
InfiniteTime == W - 1

\* _vt_init
VTInit ==
    /\ systime = 0
    /\ list = <<>>
    /\ time = [t \in AllTimers |-> 0]
    /\ func = [t \in AllTimers |-> None]
    /\ par  = [t \in AllTimers |-> None]
    /\ tick = "out" /\ vtp = None /\ fn = None
    /\ until = [t \in Sleepers |-> None]

-----------------------------------------------------------------------------
(* The delta list. *)

\* vt_time of the timer at place i; the list header has the largest value.
TimeAt(i) == IF i <= Len(list) THEN time[list[i]] ELSE W - 1

\* The time before the timer at place i, counted from the head of the list.
Before(i) == MapThenSumSet(LAMBDA j : time[list[j]], 1 .. i - 1)

\* Where the walk of chVTSetI stops: at the first timer whose delta is not
\* less than what is left of n there.
VTPlace(n) == Min({i \in 1 .. Len(list) + 1 : TimeAt(i) >= n - Before(i)})

\* Mutant: the delta of the next timer is left as it is.
chVTSetI_NoAdjust(t, n, v) ==
    /\ list' = InsertAt(list, VTPlace(n), t)
    /\ time' = [time EXCEPT ![t] = n - Before(VTPlace(n))]
    /\ func' = [func EXCEPT ![t] = v]
    /\ par'  = [par EXCEPT ![t] = v]

chVTSetI(t, n, v) ==
    LET i    == VTPlace(n)
        rest == n - Before(i)
        on   == [time EXCEPT ![t] = rest]
    IN  /\ list' = InsertAt(list, i, t)
        /\ time' = IF i > Len(list) THEN on
                   ELSE [on EXCEPT ![list[i]] = (@ - rest) % W]
        /\ func' = [func EXCEPT ![t] = v]
        /\ par'  = [par EXCEPT ![t] = v]

\* Mutant: the delta of the timer that goes is not passed on to the next.
chVTResetI_NoAdjust(t) ==
    /\ list' = SelectSeq(list, LAMBDA x : x # t)
    /\ func' = [func EXCEPT ![t] = None]
    /\ UNCHANGED time

chVTResetI(t) ==
    LET i == CHOOSE j \in DOMAIN list : list[j] = t
    IN  /\ list' = RemoveAt(list, i)
        /\ time' = IF i = Len(list) THEN time
                   ELSE [time EXCEPT ![list[i + 1]] = (@ + time[t]) % W]
        /\ func' = [func EXCEPT ![t] = None]

-----------------------------------------------------------------------------
(* Callers. *)

\* Threads run when the tick handler does not; other handlers, and the
\* callback, also while it has released the lock.
VTUnlocked == tick # "loop"

\* A timer that is armed may not be set again.
chVTSet(t, n, v) ==
    /\ VTUnlocked
    /\ func[t] = None
    /\ chVTSetI(t, n, v)
    /\ UNCHANGED <<systime, tick, vtp, fn, until>>

chVTReset(t) ==
    /\ VTUnlocked
    /\ func[t] # None
    /\ chVTResetI(t)
    /\ UNCHANGED <<systime, par, tick, vtp, fn, until>>

\* The thread t; chSchGoSleepTimeoutS sets no timer for TIME_INFINITE.
chThdSleepUntil(t, x) ==
    LET n == (x - systime) % W
    IN  /\ tick = "out"
        /\ until[t] = None
        /\ n > 0
        /\ until' = [until EXCEPT ![t] = x]
        /\ IF n = InfiniteTime
           THEN UNCHANGED <<list, time, func, par>>
           ELSE \E v \in Pars : chVTSetI(t, n, v)
        /\ UNCHANGED <<systime, tick, vtp, fn>>

-----------------------------------------------------------------------------
(* chVTDoTickI. *)

VTTick ==
    /\ tick = "out"
    /\ systime' = (systime + 1) % W
    /\ time' = IF list = <<>> THEN time
               ELSE [time EXCEPT ![Head(list)] = (@ - 1) % W]
    /\ tick' = "loop"
    /\ UNCHANGED <<list, func, par, vtp, fn, until>>

\* The head is due: it is unlinked and disarmed, and the lock released.
Expire ==
    /\ tick = "loop"
    /\ TimeAt(1) = 0
    /\ vtp' = Head(list) /\ fn' = func[Head(list)]
    /\ func' = [func EXCEPT ![Head(list)] = None]
    /\ list' = Tail(list)
    /\ tick' = "call"
    /\ UNCHANGED <<systime, time, par, until>>

\* The call: its argument is read now.  The callback of a sleep wakes the
\* thread.
Call ==
    /\ tick = "call"
    /\ until' = IF vtp \in Sleepers THEN [until EXCEPT ![vtp] = None] ELSE until
    /\ tick'  = "callback"
    /\ UNCHANGED <<systime, list, time, func, par, vtp, fn>>

Return ==
    /\ tick = "callback"
    /\ tick' = "loop" /\ vtp' = None /\ fn' = None
    /\ UNCHANGED <<systime, list, time, func, par, until>>

VTTickEnd ==
    /\ tick = "loop"
    /\ TimeAt(1) # 0
    /\ tick' = "out"
    /\ UNCHANGED <<systime, list, time, func, par, vtp, fn, until>>

VTNext ==
    \/ \E t \in Timers, n \in 1 .. W - 1, v \in Pars : chVTSet(t, n, v)
    \/ \E t \in Timers : chVTReset(t)
    \/ \E t \in Sleepers, x \in 0 .. W - 1 : chThdSleepUntil(t, x)
    \/ VTTick \/ Expire \/ Call \/ Return \/ VTTickEnd

VTSpec == VTInit /\ [][VTNext]_vtvars

-----------------------------------------------------------------------------
(* Properties. *)

VTTypeOK ==
    /\ systime \in 0 .. W - 1
    /\ list \in Seq(AllTimers)
    /\ time \in [AllTimers -> 0 .. W - 1]
    /\ func \in [AllTimers -> Pars \cup {None}]
    /\ par \in [AllTimers -> Pars \cup {None}]
    /\ tick \in {"out", "loop", "call", "callback"}
    /\ vtp \in AllTimers \cup {None} /\ fn \in Pars \cup {None}
    /\ until \in [Sleepers -> 0 .. W - 1 \cup {None}]

\* A timer is armed exactly while it is in the list, and is there once: the
\* test of chVTIsArmedI tells whether chVTResetI may unlink it.
ArmedIsListed ==
    /\ \A t \in AllTimers : func[t] # None <=> t \in Range(list)
    /\ \A i, j \in DOMAIN list : list[i] = list[j] => i = j

\* The ticks left of each timer: the sum of the deltas up to its own.
Left ==
    [t \in AllTimers |->
        IF func[t] = None THEN -1
        ELSE LET i == CHOOSE j \in DOMAIN list : list[j] = t
             IN  Before(i + 1)]

\* The delta list counts down each timer on its own (AbsVT), across insertions
\* and removals in the middle of it, timers set in the window of the tick
\* handler, and deltas up to the largest systime_t.
VTAbs == INSTANCE AbsVT WITH Timers <- AllTimers, Times <- 1 .. W - 1,
                           left <- Left
ImplementsAbsVT == VTAbs!Spec

\* A thread in chThdSleepUntil(x) that has a timer wakes when the system time
\* is x, before and after the counter restarts from zero.
WakesOnTime ==
    [][\A t \in Sleepers : until[t] # None /\ until'[t] = None
           => systime = until[t]]_vtvars
=============================================================================
