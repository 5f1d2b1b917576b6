------------------------------ MODULE SerialUsb ----------------------------
(***************************************************************************)
(* The serial port over USB: the queue notifications and endpoint          *)
(* callbacks of serial_usb.c, the endpoint part of usb.c, and the OTG      *)
(* driver (OTGv1/usb_lld.c), whose interrupt handler only wakes a thread,  *)
(* the pump, that moves the bytes between the queues and the FIFOs.        *)
(*                                                                         *)
(* A notification tests whether a transaction may start, releases the      *)
(* kernel lock to prepare it, and takes the lock again to start it; what   *)
(* was tested may not be so any more.  Threads interleave at every point   *)
(* where the lock is free, whatever their priorities; the handler may come *)
(* at any of these points unless the pump has masked it (gint).  The OTG   *)
(* core and the host are external: they send what has been prepared and    *)
(* pushed into the FIFO, and fill the receive FIFO up to what was prepared.*)
(*                                                                         *)
(* A circular buffer is its counter and its span, the distance from the    *)
(* read to the write pointer.                                              *)
(***************************************************************************)
EXTENDS Integers, Sequences, FiniteSetsExt, Functions

CONSTANTS Writers, Readers,   \* threads that use the port
          QLen,               \* SERIAL_USB_BUFFERS_SIZE
          MaxPkt,             \* in_maxsize and out_maxsize
          Fifo                \* size of the transmit FIFO

ASSUME SduAssumption ==
    /\ Writers \cap Readers = {}
    /\ {QLen, MaxPkt, Fifo} \subseteq Nat \ {0}
    /\ MaxPkt <= Fifo /\ QLen % MaxPkt = 0

VARIABLES ust,    \* state of the USB driver: "ready" or "active"
          sdu,    \* state of the port: "stop" or "ready"
          epc,    \* whether epc[1], the data endpoint, is configured
          oq, iq, \* the queues: counter, span
          tx,     \* the IN endpoint: transmitting, txsize, txcnt, txpending, its
                  \* bit of DIEPEMPMSK, and of the core: packets and bytes to
                  \* send, bytes in the FIFO, enabled, transfer complete
          rx,     \* the OUT endpoint: receiving, and of the core: packets to
                  \* receive, FIFO, RXFLVL unmasked, transfer complete
          gint,   \* GAHBCFG: the interrupt is not masked
          th,     \* the threads: where they are, and the n of a notification
          pump,   \* the pump, the same
          epint   \* DIEPINT as the handler has read it; {} outside of it

sduvars == <<ust, sdu, epc, oq, iq, tx, rx, gint, th, pump, epint>>

Users == Writers \cup Readers
At(p) == [pc |-> p, n |-> 0]
Full  == QLen - oq.counter
Empty == QLen - iq.counter

\* "n = (n / maxsize) * maxsize"
Whole(n) == (n \div MaxPkt) * MaxPkt

\* sduObjectInit, sduStart, usbStart: the host has not configured it yet.
SduInit ==
    /\ ust = "ready" /\ sdu = "ready" /\ epc = FALSE
    /\ oq = [counter |-> QLen, span |-> 0]
    /\ iq = [counter |-> 0, span |-> 0]
    /\ tx = [busy |-> FALSE, size |-> 0, cnt |-> 0, pend |-> FALSE,
             fem |-> FALSE, pkts |-> 0, left |-> 0, fifo |-> 0,
             ena |-> FALSE, xfrc |-> FALSE]
    /\ rx = [busy |-> FALSE, pkts |-> 0, fifo |-> <<>>, lvlm |-> TRUE,
             xfrc |-> FALSE]
    /\ gint = TRUE
    /\ th = [t \in Users |-> At("idle")]
    /\ pump = At("top")
    /\ epint = {}

-----------------------------------------------------------------------------
(* Transactions (usb.c, usb_lld.c). *)

Packets(n) == IF n = 0 THEN 1 ELSE (n + MaxPkt - 1) \div MaxPkt

usbPrepareQueuedTransmit(x, n) ==
    [x EXCEPT !.size = n, !.cnt = 0, !.pkts = Packets(n), !.left = n]

usbStartTransmitI(x) ==
    IF x.busy THEN x
    ELSE [x EXCEPT !.busy = TRUE, !.ena = TRUE, !.fem = TRUE]

usbPrepareQueuedReceive(x, n) ==
    [x EXCEPT !.pkts = (n + MaxPkt - 1) \div MaxPkt]

usbStartReceiveI(x) == IF x.busy THEN x ELSE [x EXCEPT !.busy = TRUE]

\* The waiting threads of a queue are woken, to look at it again or (reset) to
\* return.
Wake(from, to) == [t \in Users |-> IF th[t].pc = from THEN At(to) ELSE th[t]]

\* The interrupt requests of the endpoint.
InRequest  == epc /\ (tx.xfrc \/ (tx.fem /\ 2 * tx.fifo <= Fifo))
LvlRequest == rx.lvlm /\ rx.fifo # <<>>
OutRequest == epc /\ rx.xfrc

\* A thread runs when no handler does and no request waits to be served.
SduThread == epint = {} /\ ~(gint /\ (InRequest \/ LvlRequest \/ OutRequest))

-----------------------------------------------------------------------------
(* The threads: put and get of the port, through the notifications. *)

\* Mutant: a transaction is started whatever is under way.
onotify_NoTest == ust = "active" /\ sdu = "ready"

\* Whether onotify starts a transaction; the byte is in the queue by then.
onotify == ust = "active" /\ sdu = "ready" /\ ~tx.busy

\* chOQPutTimeout up to the point where onotify unlocks.
put(t) ==
    /\ SduThread
    /\ th[t].pc \in {"idle", "owoken"}
    /\ IF oq.counter = 0
       THEN th' = [th EXCEPT ![t] = At("owait")] /\ UNCHANGED oq
       ELSE /\ oq' = [counter |-> oq.counter - 1, span |-> oq.span + 1]
            /\ th' = [th EXCEPT ![t] =
                  IF onotify THEN [pc |-> "oprep", n |-> Full + 1]
                             ELSE At("idle")]
    /\ UNCHANGED <<ust, sdu, epc, iq, tx, rx, gint, pump, epint>>

onotifyPrepare(t) ==
    /\ SduThread
    /\ th[t].pc = "oprep"
    /\ tx' = usbPrepareQueuedTransmit(tx, th[t].n)
    /\ th' = [th EXCEPT ![t] = At("ostart")]
    /\ UNCHANGED <<ust, sdu, epc, oq, iq, rx, gint, pump, epint>>

onotifyStart(t) ==
    /\ SduThread
    /\ th[t].pc = "ostart"
    /\ tx' = usbStartTransmitI(tx)
    /\ th' = [th EXCEPT ![t] = At("idle")]
    /\ UNCHANGED <<ust, sdu, epc, oq, iq, rx, gint, pump, epint>>

inotify == ust = "active" /\ sdu = "ready" /\ ~rx.busy /\ Empty >= MaxPkt

\* The test of chIQGetTimeout: sleep while the queue is empty, or take a byte.
Take(t) ==
    IF iq.counter = 0
    THEN th' = [th EXCEPT ![t] = At("iwait")] /\ UNCHANGED iq
    ELSE /\ iq' = [counter |-> iq.counter - 1, span |-> iq.span - 1]
         /\ th' = [th EXCEPT ![t] = At("idle")]

\* chIQGetTimeout: first the notification, then the test, under the same lock
\* unless there is a reception to prepare.
get(t) ==
    /\ SduThread
    /\ th[t].pc = "idle"
    /\ IF inotify
       THEN th' = [th EXCEPT ![t] = [pc |-> "iprep", n |-> Whole(Empty)]]
            /\ UNCHANGED iq
       ELSE Take(t)
    /\ UNCHANGED <<ust, sdu, epc, oq, tx, rx, gint, pump, epint>>

inotifyPrepare(t) ==
    /\ SduThread
    /\ th[t].pc = "iprep"
    /\ rx' = usbPrepareQueuedReceive(rx, th[t].n)
    /\ th' = [th EXCEPT ![t] = At("istart")]
    /\ UNCHANGED <<ust, sdu, epc, oq, iq, tx, gint, pump, epint>>

\* The reception is started and the queue tested under one lock; a thread that
\* was woken tests again.
getTest(t) ==
    /\ SduThread
    /\ th[t].pc \in {"istart", "iwoken"}
    /\ rx' = IF th[t].pc = "istart" THEN usbStartReceiveI(rx) ELSE rx
    /\ Take(t)
    /\ UNCHANGED <<ust, sdu, epc, oq, tx, gint, pump, epint>>

\* The time of putt, gett, writet or readt is over.
Expires(t) ==
    /\ SduThread
    /\ th[t].pc \in {"owait", "iwait"}
    /\ th' = [th EXCEPT ![t] = At("idle")]
    /\ UNCHANGED <<ust, sdu, epc, oq, iq, tx, rx, gint, pump, epint>>

-----------------------------------------------------------------------------
(* The interrupt handler. *)

usb_lld_wakeup_pump == IF pump.pc = "asleep" THEN At("rx") ELSE pump

\* The next transfer, or the empty packet that ends one of whole packets.
sduDataTransmitted(x) ==
    CASE sdu # "ready" -> x
      [] sdu = "ready" /\ Full > 0 ->
            usbStartTransmitI(usbPrepareQueuedTransmit(x, Full))
      [] sdu = "ready" /\ Full = 0 /\ x.size > 0 /\ x.size % MaxPkt = 0 ->
            usbStartTransmitI(usbPrepareQueuedTransmit(x, 0))
      [] OTHER -> x

sduDataReceived(x) ==
    IF sdu = "ready" /\ Empty >= MaxPkt
    THEN usbStartReceiveI(usbPrepareQueuedReceive(x, Whole(Empty)))
    ELSE x

\* otg_epin_handler reads DIEPINT ...
EpInRead ==
    /\ gint /\ epint = {} /\ InRequest
    /\ epint' = {"served"} \cup (IF tx.xfrc THEN {"XFRC"} ELSE {})
                           \cup (IF 2 * tx.fifo <= Fifo THEN {"TXFE"} ELSE {})
    /\ UNCHANGED <<ust, sdu, epc, oq, iq, tx, rx, gint, th, pump>>

\* Mutant: the callback is called while the endpoint is still busy.
usb_isr_invoke_in_cb_First(x) ==
    [sduDataTransmitted(x) EXCEPT !.busy = FALSE]

usb_isr_invoke_in_cb(x) == sduDataTransmitted([x EXCEPT !.busy = FALSE])

\* ... and clears all of it, then serves what it has read.
EpInServe ==
    /\ epint # {}
    /\ LET c == [tx EXCEPT !.xfrc = FALSE]
           d == IF "XFRC" \in epint THEN usb_isr_invoke_in_cb(c) ELSE c
       IN  IF "TXFE" \in epint /\ d.fem
           THEN /\ tx' = [d EXCEPT !.pend = TRUE, !.fem = FALSE]
                /\ pump' = usb_lld_wakeup_pump
           ELSE tx' = d /\ UNCHANGED pump
    /\ epint' = {}
    /\ UNCHANGED <<ust, sdu, epc, oq, iq, rx, gint, th>>

\* RXFLVL: masked until the pump has emptied the FIFO.
RxLevel ==
    /\ gint /\ epint = {} /\ LvlRequest
    /\ rx' = [rx EXCEPT !.lvlm = FALSE]
    /\ pump' = usb_lld_wakeup_pump
    /\ UNCHANGED <<ust, sdu, epc, oq, iq, tx, gint, th, epint>>

\* otg_epout_handler: the transfer is complete.
EpOut ==
    /\ gint /\ epint = {} /\ OutRequest
    /\ rx' = sduDataReceived([rx EXCEPT !.xfrc = FALSE, !.busy = FALSE])
    /\ UNCHANGED <<ust, sdu, epc, oq, iq, tx, gint, th, pump, epint>>

\* usb_lld_serve_interrupt, USBRST: _usb_reset.  The transmit FIFO of the
\* endpoint, txpending and DIEPEMPMSK stay as they are.
usb_reset ==
    /\ gint /\ epint = {}
    /\ ust' = "ready" /\ epc' = FALSE
    /\ tx' = [tx EXCEPT !.busy = FALSE, !.ena = FALSE, !.xfrc = FALSE]
    /\ rx' = [rx EXCEPT !.busy = FALSE, !.fifo = <<>>, !.lvlm = TRUE,
                        !.xfrc = FALSE]
    /\ UNCHANGED <<sdu, oq, iq, gint, th, pump, epint>>

\* chIQResetI and chOQResetI: the waiting threads return Q_RESET.
ResetQueues ==
    /\ oq' = [counter |-> QLen, span |-> 0]
    /\ iq' = [counter |-> 0, span |-> 0]
    /\ th' = [t \in Users |-> IF th[t].pc \in {"owait", "iwait"}
                              THEN At("idle") ELSE th[t]]

\* SET_CONFIGURATION: usb_event initialises the endpoint, sduConfigureHookI
\* resets the queues and starts the first reception.
sduConfigureHookI ==
    /\ gint /\ epint = {}
    /\ ust' = "active" /\ epc' = TRUE
    /\ ResetQueues
    /\ tx' = [tx EXCEPT !.size = 0, !.cnt = 0, !.pkts = 0, !.left = 0,
                        !.fifo = 0, !.ena = FALSE]
    /\ rx' = usbStartReceiveI(usbPrepareQueuedReceive(rx, MaxPkt))
    /\ UNCHANGED <<sdu, gint, pump, epint>>

\* sduStop and sduStart, by some thread.
sduStop ==
    /\ SduThread /\ sdu = "ready"
    /\ sdu' = "stop" /\ ResetQueues
    /\ UNCHANGED <<ust, epc, tx, rx, gint, pump, epint>>

sduStart ==
    /\ SduThread /\ sdu = "stop"
    /\ sdu' = "ready"
    /\ UNCHANGED <<ust, epc, oq, iq, tx, rx, gint, th, pump, epint>>

-----------------------------------------------------------------------------
(* The pump. *)

\* It sleeps when there is nothing to do, unmasking RXFLVL.
PumpSleeps ==
    /\ SduThread /\ pump.pc = "top"
    /\ IF ~tx.pend /\ rx.fifo = <<>>
       THEN pump' = At("asleep") /\ rx' = [rx EXCEPT !.lvlm = TRUE]
       ELSE pump' = At("rx") /\ UNCHANGED rx
    /\ UNCHANGED <<ust, sdu, epc, oq, iq, tx, gint, th, epint>>

\* otg_rxfifo_handler: pops an entry; data goes into the buffer of the queue.
PumpReceives ==
    /\ SduThread /\ pump.pc = "rx" /\ rx.fifo # <<>>
    /\ LET e == Head(rx.fifo) IN
       /\ rx' = [rx EXCEPT !.fifo = Tail(@), !.xfrc = @ \/ e = 0]
       /\ iq' = [iq EXCEPT !.span = @ + e]
       /\ pump' = CASE e = 0 -> pump
                    [] e # 0 /\ epc -> [pc |-> "rxcount", n |-> e]
                    [] OTHER -> At("fault")
    /\ UNCHANGED <<ust, sdu, epc, oq, tx, gint, th, epint>>

\* otg_fifo_read_to_queue, "Updating queue".
PumpCountsRx ==
    /\ SduThread /\ pump.pc = "rxcount"
    /\ iq' = [iq EXCEPT !.counter = @ + pump.n]
    /\ th' = Wake("iwait", "iwoken")
    /\ pump' = At("rx")
    /\ UNCHANGED <<ust, sdu, epc, oq, tx, rx, gint, epint>>

\* The receive FIFO is empty: the pending transmit FIFO, if there is one.
PumpTakes ==
    /\ SduThread /\ pump.pc = "rx" /\ rx.fifo = <<>>
    /\ IF tx.pend
       THEN /\ tx' = [tx EXCEPT !.pend = FALSE]
            /\ gint' = FALSE
            /\ pump' = At(IF epc THEN "fill" ELSE "fault")
       ELSE pump' = At("top") /\ UNCHANGED <<tx, gint>>
    /\ UNCHANGED <<ust, sdu, epc, oq, iq, rx, th, epint>>

\* otg_txfifo_handler: the transfer is all in the FIFO, or its next packet
\* does not fit, or is copied from the queue.
PumpFills ==
    /\ SduThread /\ pump.pc = "fill"
    /\ LET n == Min({tx.size - tx.cnt, MaxPkt}) IN
       CASE tx.cnt >= tx.size -> pump' = At("done") /\ UNCHANGED <<oq, tx>>
         [] tx.cnt < tx.size /\ Fifo - tx.fifo < n ->
               pump' = At("more") /\ UNCHANGED <<oq, tx>>
         [] OTHER -> /\ pump' = [pc |-> "txcount", n |-> n]
                     /\ oq' = [oq EXCEPT !.span = @ - n]
                     /\ tx' = [tx EXCEPT !.fifo = @ + n]
    /\ UNCHANGED <<ust, sdu, epc, iq, rx, gint, th, epint>>

\* otg_fifo_write_from_queue, "Updating queue", and txcnt.
PumpCountsTx ==
    /\ SduThread /\ pump.pc = "txcount"
    /\ oq' = [oq EXCEPT !.counter = @ + pump.n]
    /\ th' = Wake("owait", "owoken")
    /\ tx' = [tx EXCEPT !.cnt = @ + pump.n]
    /\ pump' = At("fill")
    /\ UNCHANGED <<ust, sdu, epc, iq, rx, gint, epint>>

\* Mutant: the FIFO interrupt stays masked when there is more to send.
PumpReleases_Masked ==
    /\ SduThread /\ pump.pc \in {"done", "more"}
    /\ gint' = TRUE
    /\ pump' = At("top")
    /\ UNCHANGED <<ust, sdu, epc, oq, iq, tx, rx, th, epint>>

\* The interrupts are unmasked; that of the FIFO only if there is more to send.
PumpReleases ==
    /\ SduThread /\ pump.pc \in {"done", "more"}
    /\ gint' = TRUE
    /\ tx' = [tx EXCEPT !.fem = @ \/ pump.pc = "more"]
    /\ pump' = At("top")
    /\ UNCHANGED <<ust, sdu, epc, oq, iq, rx, th, epint>>

Pump == \/ PumpSleeps \/ PumpReceives \/ PumpCountsRx
        \/ PumpTakes \/ PumpFills \/ PumpCountsTx \/ PumpReleases

-----------------------------------------------------------------------------
(* The core and the host. *)

\* A packet is sent once all of it is in the FIFO; the last completes the
\* transfer.
CoreSends ==
    /\ tx.ena /\ tx.pkts > 0
    /\ LET n == Min({tx.left, MaxPkt}) IN
       /\ tx.fifo >= n
       /\ tx' = [tx EXCEPT !.fifo = @ - n, !.left = @ - n, !.pkts = @ - 1,
                           !.ena = tx.pkts > 1, !.xfrc = @ \/ tx.pkts = 1]
    /\ UNCHANGED <<ust, sdu, epc, oq, iq, rx, gint, th, pump, epint>>

\* A packet of n bytes is received; a short one, or the last, completes the
\* transfer (entry 0).
CoreReceives(n) ==
    /\ rx.busy /\ rx.pkts > 0
    /\ LET last == n < MaxPkt \/ rx.pkts = 1 IN
       rx' = [rx EXCEPT !.pkts = IF last THEN 0 ELSE @ - 1,
                        !.fifo = @ \o (IF last THEN <<n, 0>> ELSE <<n>>)]
    /\ UNCHANGED <<ust, sdu, epc, oq, iq, tx, gint, th, pump, epint>>

UserStep(t) ==
    \/ t \in Writers /\ (put(t) \/ onotifyPrepare(t) \/ onotifyStart(t))
    \/ t \in Readers /\ (get(t) \/ inotifyPrepare(t) \/ getTest(t))
    \/ Expires(t)

SduHandler == EpInRead \/ EpInServe \/ RxLevel \/ EpOut

\* The transfers of a port that is up, and what takes it up and down.
Traffic ==
    \/ \E t \in Users : UserStep(t)
    \/ SduHandler \/ Pump
    \/ CoreSends \/ \E n \in 1..MaxPkt : CoreReceives(n)

UpAndDown == usb_reset \/ sduConfigureHookI \/ sduStop \/ sduStart

SduNext == Traffic \/ UpAndDown

-----------------------------------------------------------------------------
(* Properties. *)

SduTypeOK ==
    /\ ust \in {"ready", "active"} /\ sdu \in {"stop", "ready"}
    /\ epc \in BOOLEAN /\ gint \in BOOLEAN
    /\ \A q \in {oq, iq} : q.counter \in 0..QLen /\ q.span \in 0..QLen
    /\ tx.size \in 0..QLen /\ tx.cnt \in 0..tx.size /\ tx.fifo \in 0..Fifo
    /\ Len(rx.fifo) <= 2 * QLen
    /\ pump.n \in 0..MaxPkt
    /\ epint \subseteq {"served", "XFRC", "TXFE"}

\* Bytes the pump has copied and not counted yet.
InHand(p) == IF pump.pc = p THEN pump.n ELSE 0

\* No transfer runs past the queue: what a transfer has still to take from the
\* output queue is there, although the size of the transfer was read before
\* the lock was released; and counters and pointers of both queues agree once
\* the pump has counted what it has in hand.
TransferBacked ==
    /\ tx.busy => tx.size - tx.cnt - InHand("txcount") <= oq.span
    /\ oq.span = Full - InHand("txcount")
    /\ iq.span = iq.counter + InHand("rxcount")

\* The room found for a reception is still there when the packets come: those
\* the core may still accept, those in the FIFO and the one in the pump's
\* hands fit in the input queue.
InputFits ==
    (IF rx.busy THEN rx.pkts * MaxPkt ELSE 0)
        + SumFunction(rx.fifo) + InHand("rxcount") <= Empty

\* Output is never left behind: while the port is up, bytes in the output
\* queue are covered by a transfer, or a writer is about to start one.
OutputMoves ==
    (ust = "active" /\ sdu = "ready" /\ Full - InHand("txcount") > 0) =>
        tx.busy \/ \E t \in Writers : th[t].pc \in {"oprep", "ostart"}

\* The endpoint is busy with a transfer that nobody will complete.
CompletionLost ==
    tx.busy /\ epc /\ ~tx.ena /\ ~tx.xfrc /\ "XFRC" \notin epint

\* otg_epin_handler clears all of DIEPINT some time after it has read it.  A
\* transfer longer than the FIFO never completes in between, since the pump
\* pushes its last packet with the FIFO interrupt masked.  (A shorter one may:
\* the empty packet that ends a transfer, and data that the pump has pushed
\* before usbStartTransmitI unmasks the FIFO interrupt.)
CompletionKept == CompletionLost => tx.size <= Fifo

\* A reader sleeps only with a reception open or bytes on their way to it.
ReaderServed ==
    (ust = "active" /\ sdu = "ready"
       /\ \E t \in Readers : th[t].pc = "iwait")
    => rx.busy

\* A blocked writer goes on: the transmit FIFO interrupt, the pump that fills
\* the FIFO as often as it empties, the masks and the restart in
\* sduDataTransmitted leave no other way to stall the output than a lost
\* completion.
WriterServed ==
    \A t \in Writers : th[t].pc = "owait" ~>
        th[t].pc # "owait" \/ ust # "active" \/ sdu # "ready" \/ CompletionLost

\* Transfers and queues agree: what a transfer still takes or brings is there,
\* or has room, although both are counted in three steps with the lock
\* released between them.  What it takes is that one notification at a time is
\* past its test of the endpoint, which the code leaves to its callers, and that
\* the port does not go down meanwhile.
TransfersFit == SduTypeOK /\ TransferBacked /\ InputFits

\* While the port is up nothing is left lying: output has a transfer, a long
\* transfer has a completion to come, and a reader an open reception.
NothingStalls == OutputMoves /\ CompletionKept /\ ReaderServed
=============================================================================
