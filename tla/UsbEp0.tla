------------------------------- MODULE UsbEp0 ------------------------------
(***************************************************************************)
(* Endpoint zero: the control transfers of usb.c, from the SETUP packet to *)
(* the status stage, the requests that change the state of the device      *)
(* (SET_ADDRESS, SET_CONFIGURATION, a bus reset), and what usb_event and    *)
(* the OTG driver do about them: the endpoints and their FIFO memory.      *)
(*                                                                         *)
(* The core and the host are external.  The core sends a prepared and      *)
(* started transfer packet by packet; the host follows the stages of a     *)
(* transfer as it sees them and sends the next SETUP when it has come to   *)
(* its end.                                                                *)
(***************************************************************************)
EXTENDS Integers, FiniteSetsExt

CONSTANTS Sizes,        \* sizes of what a handler offers and a host asks for
          Pkt0,         \* maximum packet size of endpoint zero
          RamSize,      \* FIFO memory behind the receive FIFO
          Ram0, RamEp   \* parts of endpoint zero and of the other endpoints

ASSUME Ep0Assumption ==
    /\ Sizes \subseteq Nat /\ 0 \in Sizes /\ Pkt0 \in Nat \ {0}
    /\ {RamSize, Ram0, RamEp} \subseteq Nat

VARIABLES state,         \* USB_READY, USB_SELECTED, USB_ACTIVE
          pmnext,        \* FIFO memory allocated
          ep0state, ep0n,
          setup,         \* the request being served
          transmitting, receiving,   \* their bits of endpoint zero
          in, out,       \* the core: what is left to send, and to receive
          stalled,
          host           \* the stage the host is in, and its bytes so far

ep0vars == <<state, pmnext, ep0state, ep0n, setup, transmitting,
             receiving, in, out, stalled, host>>

\* A request: what its handler is and does, its direction, what the handler
\* offers and what the host asks for (wLength).  Every handler that answers
\* has something to say; bytes go to the device only in a request that has a
\* buffer of that size (SET_LINE_CODING).
Requests ==
    [kind : {"data"}, dir : {"in"}, n : Sizes \ {0}, max : Sizes]
    \cup [kind : {"line"}, dir : {"out"}, n : Sizes \ {0}, max : Sizes \ {0}]
    \cup [kind : {"none", "SET_ADDRESS", "SET_CONFIGURATION 0",
                  "SET_CONFIGURATION", "unknown"},
          dir : {"out"}, n : {0}, max : {0}]
    \cup [kind : {"unknown"}, dir : {"in"}, n : {0}, max : Sizes]

Idle0 == [packets |-> 0, bytes |-> 0]
NoReq == CHOOSE r \in Requests : r.kind = "unknown" /\ r.dir = "out"

Ep0Init ==
    /\ state = "ready" /\ pmnext = Ram0
    /\ ep0state = "WAITING_SETUP" /\ ep0n = 0 /\ setup = NoReq
    /\ transmitting = FALSE /\ receiving = FALSE
    /\ in = Idle0 /\ out = Idle0 /\ stalled = FALSE
    /\ host = [stage |-> "idle", bytes |-> 0]

-----------------------------------------------------------------------------
(* Transactions on endpoint zero. *)

Count(n) == IF n = 0 THEN 1 ELSE (n + Pkt0 - 1) \div Pkt0

\* usbPrepareTransmit and usbStartTransmitI: what was prepared before is lost.
Transmit(n) ==
    transmitting' = TRUE /\ in' = [packets |-> Count(n), bytes |-> n]

\* The same the other way.  For an empty reception the driver writes a packet
\* count of 0; the core takes the status packet all the same.
Receive(n) ==
    receiving' = TRUE /\ out' = [packets |-> Count(n), bytes |-> n]

Stall == stalled' = TRUE /\ ep0state' = "ERROR"

-----------------------------------------------------------------------------
(* Requests. *)

\* default_handler and sduRequestsHook, and the callback usb_event: whatever
\* the configuration, and whether or not they are set up already, it
\* initialises the endpoints and allocates their FIFOs.
Handled(r) ==
    CASE r.kind = "SET_ADDRESS" -> state' = "selected" /\ UNCHANGED pmnext
      [] r.kind \in {"SET_CONFIGURATION", "SET_CONFIGURATION 0"} ->
            /\ state' = IF r.kind = "SET_CONFIGURATION" THEN "active"
                                                        ELSE "selected"
            /\ pmnext' = pmnext + RamEp
      [] OTHER -> UNCHANGED <<state, pmnext>>

\* "The transfer size cannot exceed the specified amount."
ep0size(r) == Min({r.n, r.max})

\* _usb_ep0setup.
usb_ep0setup(r) ==
    /\ host.stage = "idle"
    /\ r.dir = "out" => r.n = r.max
    /\ setup' = r
    /\ host' = [stage |-> CASE r.dir = "in" /\ r.max > 0 -> "data_in"
                            [] r.dir = "in" /\ r.max = 0 -> "sts_out"
                            [] r.dir = "out" /\ r.max > 0 -> "data_out"
                            [] OTHER -> "sts_in", bytes |-> 0]
    /\ IF r.kind = "unknown"
       THEN Stall /\ UNCHANGED <<state, pmnext, ep0n, transmitting,
                                 receiving, in, out>>
       ELSE /\ Handled(r)
            /\ ep0n' = ep0size(r)
            /\ stalled' = FALSE
            /\ ep0state' = CASE r.dir = "in" /\ ep0n' > 0 -> "TX"
                             [] r.dir = "in" /\ ep0n' = 0 -> "WAITING_STS"
                             [] r.dir = "out" /\ ep0n' > 0 -> "RX"
                             [] OTHER -> "SENDING_STS"
            /\ IF ep0state' \in {"TX", "SENDING_STS"}
               THEN Transmit(ep0n') /\ UNCHANGED <<receiving, out>>
               ELSE Receive(ep0n') /\ UNCHANGED <<transmitting, in>>

\* Mutant: the empty packet is sent after any answer of whole packets.
EndsWithEmpty_Always == ep0n % Pkt0 = 0

\* Mutant: it is never sent.
EndsWithEmpty_Never == FALSE

\* The data ends on a packet boundary and the host expects more.
EndsWithEmpty == ep0n < setup.max /\ ep0n % Pkt0 = 0

\* _usb_ep0in: all of the transfer has been sent (bit clear, then callback).
usb_ep0in ==
    /\ transmitting /\ in.packets = 0
    /\ CASE ep0state = "TX" /\ EndsWithEmpty ->
              /\ ep0state' = "WAITING_TX0"
              /\ in' = [packets |-> 1, bytes |-> 0]
              /\ UNCHANGED <<transmitting, receiving, out, stalled>>
         [] (ep0state = "TX" /\ ~EndsWithEmpty) \/ ep0state = "WAITING_TX0" ->
              /\ ep0state' = "WAITING_STS" /\ transmitting' = FALSE
              /\ Receive(0) /\ UNCHANGED <<in, stalled>>
         [] ep0state = "SENDING_STS" ->
              /\ ep0state' = "WAITING_SETUP" /\ transmitting' = FALSE
              /\ UNCHANGED <<in, receiving, out, stalled>>
         [] OTHER -> /\ Stall /\ transmitting' = FALSE
                     /\ UNCHANGED <<in, receiving, out>>
    /\ UNCHANGED <<state, pmnext, ep0n, setup, host>>

\* _usb_ep0out: all of the transfer has been received.
usb_ep0out ==
    /\ receiving /\ out.packets = 0 /\ receiving' = FALSE
    /\ CASE ep0state = "RX" -> /\ ep0state' = "SENDING_STS"
                               /\ Transmit(0) /\ UNCHANGED stalled
         [] ep0state = "WAITING_STS" -> /\ ep0state' = "WAITING_SETUP"
                                        /\ UNCHANGED <<transmitting, in, stalled>>
         [] OTHER -> Stall /\ UNCHANGED <<transmitting, in>>
    /\ UNCHANGED <<state, pmnext, ep0n, setup, out, host>>

\* A bus reset: _usb_reset and usb_lld_reset; the host starts again.
ep0reset ==
    /\ state' = "ready" /\ pmnext' = Ram0
    /\ ep0state' = "WAITING_SETUP" /\ transmitting' = FALSE /\ receiving' = FALSE
    /\ in' = Idle0 /\ out' = Idle0 /\ stalled' = FALSE
    /\ host' = [stage |-> "idle", bytes |-> 0]
    /\ UNCHANGED <<ep0n, setup>>

-----------------------------------------------------------------------------
(* The host, and the core for it. *)

HostSees(stage, n) == host' = [stage |-> stage, bytes |-> n]

\* A data packet to the host: a short one, or all it asked for, ends the stage.
HostReads ==
    /\ host.stage = "data_in" /\ ~stalled /\ in.packets > 0
    /\ LET n == Min({in.bytes, Pkt0})
           got == host.bytes + n
       IN  /\ in' = [packets |-> in.packets - 1, bytes |-> in.bytes - n]
           /\ HostSees(IF n < Pkt0 \/ got = setup.max THEN "sts_out"
                                                      ELSE "data_in", got)
    /\ UNCHANGED <<state, pmnext, ep0state, ep0n, setup,
                   transmitting, receiving, out, stalled>>

HostWrites ==
    /\ host.stage = "data_out" /\ ~stalled /\ out.packets > 0
    /\ LET n == Min({setup.max - host.bytes, Pkt0})
           sent == host.bytes + n
       IN  /\ out' = [packets |-> IF n < Pkt0 THEN 0 ELSE out.packets - 1,
                      bytes |-> Max({out.bytes - n, 0})]
           /\ HostSees(IF sent = setup.max THEN "sts_in" ELSE "data_out", sent)
    /\ UNCHANGED <<state, pmnext, ep0state, ep0n, setup,
                   transmitting, receiving, in, stalled>>

\* The status stage: an empty packet the other way.
HostStatus ==
    /\ ~stalled
    /\ \/ /\ host.stage = "sts_in" /\ in.packets > 0
          /\ in' = Idle0 /\ UNCHANGED out
       \/ /\ host.stage = "sts_out" /\ out.packets > 0
          /\ out' = Idle0 /\ UNCHANGED in
    /\ HostSees("acked", 0)
    /\ UNCHANGED <<state, pmnext, ep0state, ep0n, setup,
                   transmitting, receiving, stalled>>

\* A stall ends the transfer, as does the status once the device is done.
HostEnds ==
    /\ \/ stalled /\ host.stage \notin {"idle", "acked"}
       \/ host.stage = "acked" /\ ~(transmitting /\ in.packets = 0)
                               /\ ~(receiving /\ out.packets = 0)
    /\ HostSees("idle", 0)
    /\ UNCHANGED <<state, pmnext, ep0state, ep0n, setup,
                   transmitting, receiving, in, out, stalled>>

Ep0Next ==
    \/ \E r \in Requests : usb_ep0setup(r)
    \/ usb_ep0in \/ usb_ep0out \/ ep0reset
    \/ HostReads \/ HostWrites \/ HostStatus \/ HostEnds

\* The handler follows its interrupt; the host goes on with its transfer.
Ep0Fairness ==
    /\ WF_ep0vars(usb_ep0in) /\ WF_ep0vars(usb_ep0out)
    /\ WF_ep0vars(HostReads \/ HostWrites \/ HostStatus \/ HostEnds)

Ep0Spec == Ep0Init /\ [][Ep0Next]_ep0vars /\ Ep0Fairness

-----------------------------------------------------------------------------
(* Properties. *)

Ep0TypeOK ==
    /\ state \in {"ready", "selected", "active"} /\ pmnext \in Nat /\ setup \in Requests /\ stalled \in BOOLEAN
    /\ ep0state \in {"WAITING_SETUP", "TX", "WAITING_TX0", "WAITING_STS", "RX",
                     "SENDING_STS", "ERROR"}
    /\ host.stage \in {"idle", "data_in", "data_out", "sts_in", "sts_out",
                       "acked"}

\* Device and host agree on the stage of a transfer: whatever the sizes, the
\* device goes to the status stage exactly when the host has seen the end of
\* the data (a short packet, an empty one, or all of wLength), and has a
\* packet ready or will have, for the stage the host is in.
StagesAgree ==
    /\ ep0state = "WAITING_STS" /\ out.packets > 0 => host.stage = "sts_out"
    /\ ep0state = "SENDING_STS" /\ in.packets > 0 => host.stage = "sts_in"
    /\ ep0state \in {"TX", "WAITING_TX0"} /\ in.packets > 0 =>
          host.stage = "data_in"
    /\ ep0state = "ERROR" => setup.kind = "unknown"

\* Every control transfer comes to an end: the device never waits for a packet
\* that the host does not send, nor the host for one the device does not have.
TransferEnds == host.stage # "idle" ~> host.stage = "idle"

\* "OTG FIFO memory overflow": the FIFOs that otg_ram_alloc hands out fit in
\* the memory of the core.  Only a bus reset gives memory back, and each
\* SET_CONFIGURATION takes some.
FifoRamFits == pmnext <= RamSize

\* Device and host agree, in states of the right type.
ControlOK == Ep0TypeOK /\ StagesAgree
=============================================================================
