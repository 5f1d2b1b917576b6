-------------------------------- MODULE Mac --------------------------------
(***************************************************************************)
(* The Ethernet driver (mac.c, STM32 mac_lld.c) and the thread that feeds  *)
(* lwIP from it (lwipthread.c): two rings of descriptors shared with the   *)
(* DMA of the controller, the interrupt, senders that wait for a           *)
(* descriptor, and the receiver that drains the ring on an event.          *)
(*                                                                         *)
(* The DMA is external: it goes around each ring, works on descriptors it  *)
(* owns, and stops at one it does not own: until the poll demand register  *)
(* is written (transmission), or another frame comes (reception).  Time is *)
(* abstract: a wait with a timeout may end at any moment.                  *)
(***************************************************************************)
EXTENDS Integers, FiniteSets

CONSTANTS Senders,
          NTx, NRx,    \* STM32_MAC_TRANSMIT_BUFFERS, STM32_MAC_RECEIVE_BUFFERS
          Links        \* what the PHY reports: the link is up

ASSUME MacAssumption ==
    NTx \in Nat \ {0} /\ NRx \in Nat \ {0} /\ Links \subseteq BOOLEAN

VARIABLES td, txptr,      \* "free", "locked", or "own" by the DMA
          txdma, txstop,  \* where the DMA is, and TPS is Suspended
          rd, rxptr,      \* "own", or the frame received: "good" or "bad"
          rxdma,
          dmasr,          \* status bits the interrupt is for: {"RS", "TS"}
          link_up,
          snd, desc,      \* where a sender is, and the descriptor it locked
          rcv, event, rdes,  \* the lwIP thread, FRAME_RECEIVED_ID, its frame
          pool            \* whether there is always a pbuf (does not change)

macvars == <<td, txptr, txdma, txstop, rd, rxptr, rxdma, dmasr, link_up,
             snd, desc, rcv, event, rdes, pool>>
txvars == <<td, txptr, txdma, txstop, snd, desc>>
rxvars == <<rd, rxptr, rxdma, rcv, event, rdes, pool>>

Tx == 0..(NTx - 1)
Rx == 0..(NRx - 1)

\* mac_lld_start, and lwip_thread up to its loop and the first poll of the
\* link; the loop begins with an event.
MacInit ==
    /\ td = [i \in Tx |-> "free"] /\ txptr = 0 /\ txdma = 0 /\ txstop = FALSE
    /\ rd = [i \in Rx |-> "own"] /\ rxptr = 0 /\ rxdma = 0
    /\ dmasr = {} /\ link_up \in Links
    /\ snd = [s \in Senders |-> "idle"] /\ desc = [s \in Senders |-> 0]
    /\ rcv = "wait" /\ event = TRUE /\ rdes = 0 /\ pool \in BOOLEAN

-----------------------------------------------------------------------------
(* Transmission. *)

\* Mutant: the descriptor is not marked while its frame is written.
Locked_Not(i) == td

\* STM32_TDES0_LOCKED is set.
Locked(i) == [td EXCEPT ![i] = "locked"]

\* There is no descriptor: the sender goes on to wait or, with no time left,
\* returns.
NoDescriptor(s) ==
    /\ \E then \in {"waiting", "idle"} : snd' = [snd EXCEPT ![s] = then]
    /\ UNCHANGED <<td, desc, txptr>>

\* link_up is read before the lock is taken.
mac_lld_get_transmit_descriptor(s) ==
    /\ snd[s] \in {"idle", "again"}
    /\ \/ ~link_up /\ NoDescriptor(s)
       \/ /\ link_up /\ snd' = [snd EXCEPT ![s] = "linked"]
          /\ UNCHANGED <<td, desc, txptr>>
    /\ UNCHANGED <<txdma, txstop, dmasr, link_up, rxvars>>

\* The section under the lock.
LockDescriptor(s) ==
    /\ snd[s] = "linked"
    /\ \/ td[txptr] # "free" /\ NoDescriptor(s)
       \/ /\ td[txptr] = "free"
          /\ td' = Locked(txptr)
          /\ desc' = [desc EXCEPT ![s] = txptr]
          /\ txptr' = (txptr + 1) % NTx
          /\ snd' = [snd EXCEPT ![s] = "filling"]
    /\ UNCHANGED <<txdma, txstop, dmasr, link_up, rxvars>>

\* chSemWaitTimeoutS, the lock taken again: the counter of tdsem is never
\* above 0.
macWaitTransmitDescriptor(s) ==
    /\ snd[s] = "waiting"
    /\ snd' = [snd EXCEPT ![s] = "queued"]
    /\ UNCHANGED <<td, txptr, txdma, txstop, desc, dmasr, link_up, rxvars>>

\* RDY_TIMEOUT: the descriptor is not looked at again.
Expired(s) ==
    /\ snd[s] = "queued"
    /\ snd' = [snd EXCEPT ![s] = "idle"]
    /\ UNCHANGED <<td, txptr, txdma, txstop, desc, dmasr, link_up, rxvars>>

\* The DMA is told to look again if it had stopped.
TxPoll == txstop' = FALSE

mac_lld_release_transmit_descriptor(s) ==
    /\ snd[s] = "filling"
    /\ td' = [td EXCEPT ![desc[s]] = "own"]
    /\ TxPoll
    /\ snd' = [snd EXCEPT ![s] = "idle"] /\ desc' = [desc EXCEPT ![s] = 0]
    /\ UNCHANGED <<txptr, txdma, dmasr, link_up, rxvars>>

DmaTransmit ==
    /\ ~txstop
    /\ \/ /\ td[txdma] = "own"
          /\ td' = [td EXCEPT ![txdma] = "free"]
          /\ txdma' = (txdma + 1) % NTx
          /\ dmasr' = dmasr \cup {"TS"}
          /\ UNCHANGED txstop
       \/ /\ td[txdma] # "own"
          /\ txstop' = TRUE
          /\ UNCHANGED <<td, txdma, dmasr>>
    /\ UNCHANGED <<txptr, snd, desc, link_up, rxvars>>

-----------------------------------------------------------------------------
(* Reception. *)

\* A frame comes; it is lost when the DMA does not own the descriptor.
DmaReceive ==
    /\ rd[rxdma] = "own"
    /\ \E frame \in {"good", "bad"} : rd' = [rd EXCEPT ![rxdma] = frame]
    /\ rxdma' = (rxdma + 1) % NRx
    /\ dmasr' = dmasr \cup {"RS"}
    /\ UNCHANGED <<rxptr, rcv, event, rdes, pool, link_up, txvars>>

\* The n descriptors from rxptr hold bad frames and go back to the DMA.
Purged(n) == [i \in Rx |-> IF (i - rxptr) % NRx < n THEN "own" ELSE rd[i]]

\* mac_lld_get_receive_descriptor: bad frames are purged up to a good one or a
\* descriptor of the DMA.  The loop ends: a purged descriptor is the DMA's.
mac_lld_get_receive_descriptor ==
    /\ rcv = "drain"
    /\ LET n == CHOOSE n \in 0..NRx :
                  /\ n = NRx \/ rd[(rxptr + n) % NRx] # "bad"
                  /\ \A k \in 0..(n - 1) : rd[(rxptr + k) % NRx] = "bad"
           at == (rxptr + n) % NRx
       IN  /\ rd' = Purged(n)
           /\ IF rd'[at] = "good"
              THEN /\ rdes' = at /\ rxptr' = (at + 1) % NRx /\ rcv' = "copy"
              ELSE /\ rxptr' = at /\ rcv' = "wait" /\ UNCHANGED rdes
    /\ UNCHANGED <<rxdma, event, pool, dmasr, link_up, txvars>>

\* low_level_input after it: the frame is copied, or dropped when there is no
\* pbuf, and then the draining ends: the caller takes NULL for an empty ring.
low_level_input ==
    /\ rcv = "copy"
    /\ rd' = [rd EXCEPT ![rdes] = "own"] /\ rdes' = 0
    /\ \/ rcv' = "drain"
       \/ ~pool /\ rcv' = "wait"
    /\ UNCHANGED <<rxptr, rxdma, event, pool, dmasr, link_up, txvars>>

\* chEvtWaitAny takes the event, the thread drains the ring.
lwip_thread ==
    /\ rcv = "wait" /\ event
    /\ event' = FALSE /\ rcv' = "drain"
    /\ UNCHANGED <<rd, rxptr, rxdma, rdes, pool, dmasr, link_up, txvars>>

\* The periodic event: mac_lld_poll_link_status.
LinkPoll ==
    /\ rcv = "wait"
    /\ link_up' \in Links
    /\ UNCHANGED <<dmasr, txvars, rxvars>>

-----------------------------------------------------------------------------

\* Mutant: a reception is announced only when nothing was sent.
Announced_Either == event' = (event \/ dmasr = {"RS"})

Announced == event' = (event \/ "RS" \in dmasr)

\* ETH_IRQHandler: the bits read are cleared, both are served; all senders in
\* the queue of tdsem are woken and try again.
ETH_IRQHandler ==
    /\ dmasr # {}
    /\ dmasr' = {}
    /\ Announced
    /\ snd' = [s \in Senders |-> IF "TS" \in dmasr /\ snd[s] = "queued"
                                 THEN "again" ELSE snd[s]]
    /\ UNCHANGED <<td, txptr, txdma, txstop, desc, rd, rxptr, rxdma, rcv,
                   rdes, pool, link_up>>

MacNext ==
    \/ \E s \in Senders : \/ mac_lld_get_transmit_descriptor(s)
                          \/ LockDescriptor(s)
                          \/ macWaitTransmitDescriptor(s)
                          \/ Expired(s)
                          \/ mac_lld_release_transmit_descriptor(s)
    \/ mac_lld_get_receive_descriptor \/ low_level_input \/ lwip_thread
    \/ LinkPoll \/ DmaTransmit \/ DmaReceive \/ ETH_IRQHandler

\* The DMA, the interrupt and the receiver go on, and a sender finishes the
\* frame it has begun.  Frames need not come, unless the pool can be empty.
MacFairness ==
    /\ WF_macvars(DmaTransmit) /\ WF_macvars(ETH_IRQHandler)
    /\ WF_macvars(lwip_thread) /\ WF_macvars(~pool /\ DmaReceive)
    /\ WF_macvars(mac_lld_get_receive_descriptor \/ low_level_input)
    /\ \A s \in Senders : WF_macvars(mac_lld_release_transmit_descriptor(s))

MacSpec == MacInit /\ [][MacNext]_macvars /\ MacFairness

-----------------------------------------------------------------------------
(* Properties. *)

MacTypeOK ==
    /\ td \in [Tx -> {"free", "locked", "own"}] /\ {txptr, txdma} \subseteq Tx
    /\ rd \in [Rx -> {"own", "good", "bad"}] /\ {rxptr, rxdma, rdes} \subseteq Rx \cup {0}
    /\ dmasr \subseteq {"RS", "TS"}
    /\ snd \in [Senders -> {"idle", "linked", "waiting", "queued", "again", "filling"}]
    /\ rcv \in {"wait", "drain", "copy"}

\* Frames leave in the order their descriptors were locked, each once: what is
\* locked or given to the DMA is the stretch of the ring from where the DMA is
\* to where the next sender locks, however senders overtake each other in
\* between, and each locked descriptor has one sender.
TxRing ==
    LET busy == {i \in Tx : td[i] # "free"} IN
    /\ \A i \in Tx : i \in busy <=> (i - txdma) % NTx < Cardinality(busy)
    /\ txptr = (txdma + Cardinality(busy)) % NTx
    /\ \A i \in Tx : td[i] = "locked" <=>
         Cardinality({s \in Senders : snd[s] = "filling" /\ desc[s] = i}) = 1

\* Frames are handed to lwIP in the order they came, each once: what the DMA
\* has filled and nobody has taken is the stretch of the ring from rxptr to
\* where the DMA is, and the frame being copied lies before it.
RxRing ==
    LET taken == IF rcv = "copy" THEN {rdes} ELSE {}
        full  == {i \in Rx : rd[i] # "own"} \ taken
    IN  /\ \A i \in taken : rd[i] = "good"
        /\ \A i \in Rx : i \in full <=> (i - rxptr) % NRx < Cardinality(full)
        /\ rxdma = (rxptr + Cardinality(full)) % NRx

\* A frame given to the DMA is sent: release writes the poll demand whenever
\* the DMA has stopped, so it never stops for good in front of a frame, also
\* when the descriptors are released in another order than they were locked.
FramesSent == \A i \in Tx : td[i] = "own" ~> td[i] # "own"

\* A frame in the ring is taken: the event is broadcast after the frame is in
\* the ring and taken before the ring is drained, so no frame is left behind.
\* When low_level_input finds no pbuf the draining ends early, and it takes
\* another frame to go on with it.
FramesTaken == \A i \in Rx : rd[i] = "good" ~> rd[i] # "good"

\* "If a descriptor is not currently available then the invoking thread is
\* queued until one is freed" (mac.c): no sender is queued while a descriptor
\* is there for it and no interrupt is to come.
QueuedUntilFreed ==
    (\E s \in Senders : snd[s] = "queued") /\ link_up /\ dmasr = {}
        => td[txptr] # "free"

\* Both rings are used in order.
RingsOK == MacTypeOK /\ TxRing /\ RxRing

\* No frame stays in a ring, on either side.
FramesMove == FramesSent /\ FramesTaken
=============================================================================
