----------------------------- MODULE MCDrivers -----------------------------
(***************************************************************************)
(* The drivers with interrupts of their own: serial over USB, the control  *)
(* endpoint, Ethernet.  No two share state, so each is explored by itself: *)
(* part says which, and the variables of the others keep their initial     *)
(* values.  The serial port is explored with users of both directions, and *)
(* for each direction with two.                                            *)
(***************************************************************************)
EXTENDS SerialUsb, UsbEp0, Mac

CONSTANT Duplex    \* a writer and a reader: the users of part "both"

VARIABLE part

drivervars == <<sduvars, ep0vars, macvars, part>>

MCInit ==
    /\ part \in {"both", "out", "in", "ep0", "mac"}
    /\ SduInit /\ Ep0Init /\ MacInit
    /\ part # "mac" => link_up /\ pool

\* Nothing is half done: no notification, no pump at work, nothing in flight.
Quiet ==
    /\ \A t \in Users : th[t].pc \in {"idle", "owait", "iwait"}
    /\ pump.pc \in {"top", "asleep"} /\ ~tx.pend
    /\ rx.fifo = <<>> /\ ~rx.xfrc

\* The port comes up and goes down between transactions: a bus reset or
\* sduStop in the window of a notification, or while the pump is at work, makes
\* the driver start a transaction on a port that is down.
OrderlyUpAndDown ==
    /\ Quiet /\ UpAndDown
    /\ ust' # "active" \/ ust # "active"
    /\ sdu' # sdu => ~epc

\* No transaction is prepared over another: the notification releases the lock
\* to prepare one, and a second thread that finds the endpoint free in that
\* window prepares its own over what the first has started, or over what the
\* pump has begun to push.
NoneOverrun ==
    /\ Cardinality({t \in Writers : th[t].pc \in {"oprep", "ostart"}}) <= 1
    /\ rx.busy => \A t \in Readers : th[t].pc # "iprep"

\* Who uses the port.
Using == CASE part = "both" -> Duplex
           [] part = "out"  -> Writers
           [] OTHER         -> Readers

\* With users of both directions the host sends single bytes, to an empty input
\* queue; with writers only it sends nothing.
MCSerial ==
    /\ Traffic \/ OrderlyUpAndDown
    /\ NoneOverrun'
    /\ \A t \in Users \ Using : th'[t] = th[t]
    /\ Len(rx'.fifo) > Len(rx.fifo) =>
          \/ part = "in"
          \/ part = "both" /\ iq.counter = 0 /\ rx'.fifo[Len(rx.fifo) + 1] = 1

\* The sides of the Ethernet driver share little: nobody sends while the pool
\* of the receiver may be empty, and all frames are good while somebody does.
MCMac ==
    /\ MacNext
    /\ IF pool THEN \A i \in Rx : rd'[i] # "bad" ELSE UNCHANGED snd

\* The host configures the device until the FIFO memory is used up.
MCEp0 == Ep0Next /\ pmnext' <= RamSize

MCNext ==
    /\ UNCHANGED part
    /\ \/ /\ part \in {"both", "out", "in"} /\ MCSerial
          /\ UNCHANGED <<ep0vars, macvars>>
       \/ part = "ep0" /\ MCEp0 /\ UNCHANGED <<sduvars, macvars>>
       \/ part = "mac" /\ MCMac /\ UNCHANGED <<sduvars, ep0vars>>

\* The fairness of each part while it is the one explored.
Serial(A) == part \in {"both", "out", "in"} /\ A
Ep0(A)    == part = "ep0" /\ A
Eth(A)    == part = "mac" /\ A

\* Serial port: the pump is a thread that nothing starves for ever and that
\* empties the receive FIFO faster than the bus fills it, the handler follows
\* its interrupt, a writer goes on with a call it has begun, and the host polls.
\* The others: Ep0Fairness and MacFairness.
MCFairness ==
    /\ SF_sduvars(Serial(Pump)) /\ SF_sduvars(Serial(PumpTakes))
    /\ WF_sduvars(Serial(SduHandler)) /\ WF_sduvars(Serial(CoreSends))
    /\ \A t \in Writers : WF_sduvars(Serial(th[t].pc # "idle" /\ UserStep(t)
                                            /\ ~Expires(t)))
    /\ WF_ep0vars(Ep0(usb_ep0in)) /\ WF_ep0vars(Ep0(usb_ep0out))
    /\ WF_ep0vars(Ep0(HostReads \/ HostWrites \/ HostStatus \/ HostEnds))
    /\ WF_macvars(Eth(DmaTransmit)) /\ WF_macvars(Eth(ETH_IRQHandler))
    /\ WF_macvars(Eth(lwip_thread)) /\ WF_macvars(Eth(~pool /\ DmaReceive))
    /\ WF_macvars(Eth(mac_lld_get_receive_descriptor \/ low_level_input))
    /\ \A s \in Senders :
           WF_macvars(Eth(mac_lld_release_transmit_descriptor(s)))

MCSpec == MCInit /\ [][MCNext]_drivervars /\ MCFairness
=============================================================================
