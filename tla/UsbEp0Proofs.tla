---------------------------- MODULE UsbEp0Proofs ----------------------------
(***************************************************************************)
(* Endpoint zero, for every packet size and all sizes of answers and       *)
(* requests: device and host agree on the stage of each control transfer.  *)
(***************************************************************************)
EXTENDS UsbEp0, TLAPS

-----------------------------------------------------------------------------
(* Whole packets. *)

\* Division with a rest.
LEMMA DivMod ==
    ASSUME NEW p \in Nat \ {0}, NEW a \in Int
    PROVE  /\ a \div p \in Int /\ a % p \in 0 .. p - 1
           /\ a = p * (a \div p) + (a % p)
           /\ a >= 0 => a \div p >= 0
  OBVIOUS

\* A whole packet more leaves the rest.
LEMMA ModAdd ==
    ASSUME NEW p \in Nat \ {0}, NEW a \in Int
    PROVE  (a + p) % p = a % p /\ (a + p) \div p = (a \div p) + 1
  OBVIOUS

\* What is left over by whole packets is the length of the last one.
LEMMA ModRest ==
    ASSUME NEW p \in Nat \ {0}, NEW a \in Nat, a % p = 0, NEW b \in 1 .. p
    PROVE  (a + b) % p = 0 <=> b = p
<1>1. PICK q : q = a \div p
  OBVIOUS
<1>0. q \in Int /\ a = p * q
  BY <1>1
<1>2. CASE b = p
  <2>0. a \in Int
    OBVIOUS
  <2>1. (a + p) % p = a % p
    BY <2>0, ModAdd, Zenon
  <2> QED BY <1>2, <2>1
<1>3. CASE b # p
  <2>1. b \in 0 .. p - 1 /\ (p * q + b) % p = b
    BY <1>0, <1>3
  <2> QED BY <1>0, <1>3, <2>1
<1> QED BY <1>2, <1>3

\* The lesser of two lengths.
LEMMA MinOf ==
    ASSUME NEW a \in Int, NEW b \in Int
    PROVE  Min({a, b}) = IF a <= b THEN a ELSE b
<1>1. PICK x \in {a, b} : \A y \in {a, b} : x <= y
  <2>1. CASE a <= b
    BY <2>1
  <2>2. CASE ~ (a <= b)
    BY <2>2
  <2> QED BY <2>1, <2>2
<1>2. Min({a, b}) \in {a, b} /\ \A y \in {a, b} : Min({a, b}) <= y
  BY <1>1 DEF Min
<1> QED BY <1>2

\* The greater of two lengths.
LEMMA MaxOf ==
    ASSUME NEW a \in Int
    PROVE  Max({a, 0}) \in Nat
<1>1. PICK x \in {a, 0} : \A y \in {a, 0} : x >= y
  <2>1. CASE a <= 0
    BY <2>1
  <2>2. CASE ~ (a <= 0)
    BY <2>2
  <2> QED BY <2>1, <2>2
<1>2. Max({a, 0}) \in {a, 0} /\ \A y \in {a, 0} : Max({a, 0}) >= y
  BY <1>1 DEF Max
<1> QED BY <1>2

\* The packets of a transfer: one less for each whole packet sent.
LEMMA CountStep ==
    ASSUME NEW n \in Nat, n > 0
    PROVE  /\ Count(n) \in Nat \ {0}
           /\ n <= Pkt0 => Count(n) = 1
           /\ n > Pkt0 => Count(n - Pkt0) = Count(n) - 1
<1> DEFINE p == Pkt0
<1>1. p \in Nat \ {0}
  BY Ep0Assumption
<1>2. Count(n) = (n + p - 1) \div p
  BY DEF Count
<1>3. CASE n <= p
  <2>1. n - 1 \in 0 .. p - 1 /\ (n - 1) \div p = 0 /\ n - 1 \in Int
    BY <1>1, <1>3
  <2>2. ((n - 1) + p) \div p = ((n - 1) \div p) + 1
    BY <1>1, <2>1, ModAdd
  <2>3. n + p - 1 = (n - 1) + p
    BY <1>1
  <2> QED BY <1>1, <1>2, <1>3, <2>1, <2>2, <2>3
<1>4. CASE n > p
  <2>1. PICK a \in Nat : a = n - 1
    BY <1>1, <1>4
  <2>2. (a + p) \div p = (a \div p) + 1 /\ a \div p \in Nat
    <3>0. a \in Int
      OBVIOUS
    <3>1. (a + p) \div p = (a \div p) + 1
      BY <1>1, <3>0, ModAdd, Zenon
    <3>2. a \div p \in Int /\ a \div p >= 0
      BY <1>1, DivMod
    <3> QED BY <3>1, <3>2
  <2>3. Count(n - p) = a \div p
    <3>1. n - p \in Nat /\ n - p # 0 /\ (n - p) + p - 1 = a
      BY <1>1, <1>4, <2>1
    <3> QED BY <3>1 DEF Count
  <2>4. n + p - 1 = a + p
    BY <1>1, <2>1
  <2> QED BY <1>1, <1>2, <1>4, <2>2, <2>3, <2>4
<1> QED BY <1>1, <1>3, <1>4

-----------------------------------------------------------------------------
(* The inductive invariant. *)

Transaction == [packets : Nat, bytes : Nat]
Stages == {"idle", "data_in", "data_out", "sts_in", "sts_out", "acked"}

\* An answer on its way: what the host has and what the core has left are the
\* answer, in whole packets but for the last one.
Sending ==
    /\ ep0n > 0 /\ ep0n <= setup.max
    /\ host.bytes + in.bytes = ep0n
    /\ IF in.packets > 0
       THEN /\ host.stage = "data_in" /\ host.bytes % Pkt0 = 0
            /\ in.bytes > 0 /\ in.packets = Count(in.bytes)
       ELSE in.bytes = 0 /\ host.stage = IF EndsWithEmpty THEN "data_in"
                                                          ELSE "sts_out"

\* A buffer being filled: the core takes what the host has left to send.
Taking ==
    IF out.packets > 0
    THEN /\ host.stage = "data_out" /\ host.bytes < setup.max
         /\ out.packets = Count(setup.max - host.bytes)
    ELSE host.stage = "sts_in"

\* What the state of the device says about the transactions and the host.
Stage ==
    /\ stalled <=> ep0state = "ERROR"
    /\ ep0state = "ERROR" => setup.kind = "unknown"
    /\ transmitting <=> ep0state \in {"TX", "WAITING_TX0", "SENDING_STS"}
    /\ receiving <=> ep0state \in {"RX", "WAITING_STS"}
    /\ in.packets > 0 => transmitting
    /\ out.packets > 0 => receiving
    /\ host.stage = "idle" => ep0state \in {"WAITING_SETUP", "ERROR"}
    /\ ep0state = "WAITING_SETUP" => host.stage \in {"idle", "acked"}
    /\ ep0state = "TX" => Sending
    /\ ep0state = "WAITING_TX0" =>
          IF in.packets > 0
          THEN host.stage = "data_in" /\ in = [packets |-> 1, bytes |-> 0]
          ELSE host.stage = "sts_out"
    /\ ep0state = "RX" => Taking
    /\ ep0state = "WAITING_STS" =>
          host.stage = IF out.packets > 0 THEN "sts_out" ELSE "acked"
    /\ ep0state = "SENDING_STS" =>
          host.stage = IF in.packets > 0 THEN "sts_in" ELSE "acked"

Ep0Typed ==
    /\ Ep0TypeOK /\ ep0n \in Nat
    /\ in \in Transaction /\ out \in Transaction
    /\ transmitting \in BOOLEAN /\ receiving \in BOOLEAN
    /\ host \in [stage : Stages, bytes : Nat]

Ep0IInv == Ep0Typed /\ Stage

-----------------------------------------------------------------------------
\* The fields of a request.
LEMMA RequestParts ==
    ASSUME NEW r \in Requests
    PROVE  /\ r.n \in Nat /\ r.max \in Nat /\ r.dir \in {"in", "out"}
           /\ r.dir = "in" /\ r.kind # "unknown" => r.n > 0
<1>0. \A n \in Sizes : n \in Nat
  BY Ep0Assumption
<1>1. CASE r \in [kind : {"data"}, dir : {"in"}, n : Sizes \ {0}, max : Sizes]
  <2>1. r.n \in Sizes /\ r.n # 0 /\ r.max \in Sizes /\ r.dir = "in"
    BY <1>1
  <2> QED BY <1>0, <2>1
<1>2. CASE r \in [kind : {"line"}, dir : {"out"}, n : Sizes \ {0}, max : Sizes \ {0}]
  <2>1. r.n \in Sizes /\ r.max \in Sizes /\ r.dir = "out"
    BY <1>2
  <2> QED BY <1>0, <2>1
<1>3. CASE r \in [kind : {"none", "SET_ADDRESS", "SET_CONFIGURATION 0",
                         "SET_CONFIGURATION", "unknown"},
                 dir : {"out"}, n : {0}, max : {0}]
  <2>1. r.n = 0 /\ r.max = 0 /\ r.dir = "out"
    BY <1>3
  <2> QED BY <2>1
<1>4. CASE r \in [kind : {"unknown"}, dir : {"in"}, n : {0}, max : Sizes]
  <2>1. r.n = 0 /\ r.max \in Sizes /\ r.dir = "in" /\ r.kind = "unknown"
    BY <1>4
  <2> QED BY <1>0, <2>1
<1> QED BY <1>1, <1>2, <1>3, <1>4 DEF Requests

\* usbStart leaves the endpoint waiting for a SETUP.
LEMMA Ep0InvariantInit == Ep0Init => Ep0IInv
<1> SUFFICES ASSUME Ep0Init PROVE Ep0IInv
  OBVIOUS
<1>1. NoReq \in Requests
  <2>1. [kind |-> "unknown", dir |-> "out", n |-> 0, max |-> 0] \in Requests
    BY DEF Requests
  <2> QED BY <2>1 DEF NoReq
<1>2. Ep0Typed
  BY <1>1, Ep0Assumption
     DEF Ep0Init, Ep0Typed, Ep0TypeOK, Transaction, Stages, Idle0
<1>3. Stage
  BY DEF Ep0Init, Stage, Idle0
<1> QED BY <1>2, <1>3 DEF Ep0IInv

\* _usb_ep0setup begins the transfer the request asks for.
LEMMA SetupKeeps ==
    ASSUME Ep0IInv, NEW r \in Requests, usb_ep0setup(r)
    PROVE  Ep0IInv'
<1>1. /\ host.stage = "idle" /\ setup' = r
      /\ ep0state \in {"WAITING_SETUP", "ERROR"} /\ ~transmitting /\ ~receiving
      /\ in \in Transaction /\ out \in Transaction
      /\ in.packets = 0 /\ out.packets = 0
      /\ transmitting \in BOOLEAN /\ receiving \in BOOLEAN
  <2>1. host.stage = "idle" /\ setup' = r
    BY DEF usb_ep0setup
  <2>2. ep0state \in {"WAITING_SETUP", "ERROR"}
    BY <2>1 DEF Ep0IInv, Stage
  <2>3. ~transmitting /\ ~receiving
    BY <2>2 DEF Ep0IInv, Stage
  <2>4. /\ in \in Transaction /\ out \in Transaction
        /\ transmitting \in BOOLEAN /\ receiving \in BOOLEAN
    BY DEF Ep0IInv, Ep0Typed
  <2>5. ~(in.packets > 0) /\ ~(out.packets > 0)
    BY <2>3 DEF Ep0IInv, Stage
  <2> QED BY <2>1, <2>2, <2>3, <2>4, <2>5 DEF Transaction
<1>2. /\ host' \in [stage : Stages, bytes : Nat] /\ host'.bytes = 0
      /\ r.dir = "in" => host'.stage = IF r.max > 0 THEN "data_in" ELSE "sts_out"
      /\ r.dir = "out" => host'.stage = IF r.max > 0 THEN "data_out" ELSE "sts_in"
      /\ host'.stage # "idle"
  <2>1. r.max \in Nat /\ r.dir \in {"in", "out"}
    BY RequestParts
  <2>2. host' = [stage |-> CASE r.dir = "in" /\ r.max > 0 -> "data_in"
                             [] r.dir = "in" /\ r.max = 0 -> "sts_out"
                             [] r.dir = "out" /\ r.max > 0 -> "data_out"
                             [] OTHER -> "sts_in", bytes |-> 0]
    BY DEF usb_ep0setup
  <2> QED BY <2>1, <2>2 DEF Stages
<1>3. CASE r.kind = "unknown"
  <2>1. /\ stalled' = TRUE /\ ep0state' = "ERROR"
        /\ UNCHANGED <<state, pmnext, ep0n, transmitting, receiving,
                       in, out>>
    BY <1>3 DEF usb_ep0setup, Stall
  <2>2. Ep0Typed'
    BY <1>1, <1>2, <2>1 DEF Ep0IInv, Ep0Typed, Ep0TypeOK, Stages
  <2>3. Stage'
    BY <1>1, <1>2, <1>3, <2>1 DEF Stage
  <2> QED BY <2>1, <2>2, <2>3 DEF Ep0IInv
<1>4. CASE r.kind # "unknown"
  <2>1. /\ Handled(r) /\ ep0n' = ep0size(r) /\ stalled' = FALSE
        /\ ep0state' = CASE r.dir = "in" /\ ep0n' > 0 -> "TX"
                         [] r.dir = "in" /\ ep0n' = 0 -> "WAITING_STS"
                         [] r.dir = "out" /\ ep0n' > 0 -> "RX"
                         [] OTHER -> "SENDING_STS"
        /\ IF ep0state' \in {"TX", "SENDING_STS"}
           THEN Transmit(ep0n') /\ UNCHANGED <<receiving, out>>
           ELSE Receive(ep0n') /\ UNCHANGED <<transmitting, in>>
        /\ r.dir = "out" => r.n = r.max
    BY <1>4 DEF usb_ep0setup
  <2>2. /\ ep0n' \in Nat /\ ep0n' <= r.max
        /\ r.dir = "out" => ep0n' = r.max
        /\ r.dir = "in" => (ep0n' > 0 <=> r.max > 0)
    <3>1. /\ r.n \in Nat /\ r.max \in Nat /\ r.dir \in {"in", "out"}
          /\ r.dir = "in" => r.n > 0
      BY <1>4, RequestParts
    <3>2. r.n \in Int /\ r.max \in Int
      BY <3>1
    <3>3. ep0n' = IF r.n <= r.max THEN r.n ELSE r.max
      BY <2>1, <3>2, MinOf DEF ep0size
    <3> QED BY <2>1, <3>1, <3>3
  <2>3. PICK c \in Nat \ {0} : c = Count(ep0n') /\ (ep0n' = 0 => c = 1)
    BY <2>2, CountStep DEF Count
  <2>4. state' \in {"ready", "selected", "active"} /\ pmnext' \in Nat
    <3>1. state \in {"ready", "selected", "active"} /\ pmnext \in Nat /\ RamEp \in Nat
      BY Ep0Assumption DEF Ep0IInv, Ep0Typed, Ep0TypeOK
    <3>2. /\ state' \in {state, "selected", "active"}
          /\ pmnext' \in {pmnext, pmnext + RamEp}
      BY <2>1 DEF Handled
    <3> QED BY <3>1, <3>2
  <2>5. CASE r.dir = "in" /\ ep0n' > 0
    <3>1. /\ ep0state' = "TX" /\ transmitting' = TRUE
          /\ in' = [packets |-> c, bytes |-> ep0n'] /\ UNCHANGED <<receiving, out>>
      BY <1>1, <2>1, <2>3, <2>5 DEF Transmit
    <3>2. Sending'
      <4>1. 0 % Pkt0 = 0 /\ r.max \in Nat
        BY Ep0Assumption, RequestParts
      <4>2. /\ host'.stage = "data_in" /\ in'.packets = c /\ in'.bytes = ep0n'
            /\ host'.bytes = 0 /\ c > 0
        BY <1>2, <2>2, <2>5, <3>1
      <4>3. 0 + ep0n' = ep0n'
        <5>1. PICK e \in Nat : e = ep0n'
          BY <2>2
        <5>2. 0 + e = e
          OBVIOUS
        <5> QED BY <5>1, <5>2
      <4> QED BY <1>1, <2>2, <2>3, <2>5, <4>1, <4>2, <4>3 DEF Sending
    <3>3. Stage'
      BY <1>1, <1>2, <1>4, <2>1, <3>1, <3>2 DEF Stage
    <3>4. Ep0Typed'
      <4>1. in' \in Transaction /\ out' \in Transaction
        BY <1>1, <2>2, <3>1 DEF Transaction
      <4> QED BY <1>1, <1>2, <2>1, <2>2, <2>4, <3>1, <4>1
              DEF Ep0Typed, Ep0TypeOK, Stages
    <3> QED BY <2>4, <3>3, <3>4 DEF Ep0IInv
  <2>6. CASE r.dir = "out" /\ ep0n' = 0
    <3>1. /\ ep0state' = "SENDING_STS" /\ transmitting' = TRUE
          /\ in' = [packets |-> c, bytes |-> ep0n'] /\ UNCHANGED <<receiving, out>>
      BY <1>1, <2>1, <2>3, <2>6 DEF Transmit
    <3>2. host'.stage = "sts_in" /\ in'.packets > 0
      BY <1>2, <2>2, <2>3, <2>6, <3>1
    <3>4. Stage'
      BY <1>1, <1>4, <2>1, <3>1, <3>2 DEF Stage
    <3>3. Ep0Typed'
      <4>1. in' \in Transaction /\ out' \in Transaction
        BY <1>1, <2>2, <3>1 DEF Transaction
      <4> QED BY <1>1, <1>2, <2>1, <2>2, <2>4, <3>1, <4>1
              DEF Ep0Typed, Ep0TypeOK, Stages
    <3> QED BY <2>4, <3>3, <3>4 DEF Ep0IInv
  <2>7. CASE r.dir = "out" /\ ep0n' > 0
    <3>1. /\ ep0state' = "RX" /\ receiving' = TRUE
          /\ out' = [packets |-> c, bytes |-> ep0n'] /\ UNCHANGED <<transmitting, in>>
      BY <1>1, <2>1, <2>3, <2>7 DEF Receive
    <3>2. Taking'
      BY <1>1, <1>2, <2>2, <2>3, <2>7, <3>1 DEF Taking
    <3>3. Stage'
      BY <1>1, <1>2, <1>4, <2>1, <3>1, <3>2 DEF Stage
    <3>4. Ep0Typed'
      <4>1. in' \in Transaction /\ out' \in Transaction
        BY <1>1, <2>2, <3>1 DEF Transaction
      <4> QED BY <1>1, <1>2, <2>1, <2>2, <2>4, <3>1, <4>1
              DEF Ep0Typed, Ep0TypeOK, Stages
    <3> QED BY <2>4, <3>3, <3>4 DEF Ep0IInv
  <2>8. CASE r.dir = "in" /\ ep0n' = 0
    <3>1. /\ ep0state' = "WAITING_STS" /\ receiving' = TRUE
          /\ out' = [packets |-> c, bytes |-> ep0n'] /\ UNCHANGED <<transmitting, in>>
      BY <1>1, <2>1, <2>3, <2>8 DEF Receive
    <3>2. host'.stage = "sts_out" /\ out'.packets > 0
      <4>1. r.max \in Nat
        BY RequestParts
      <4> QED BY <1>2, <2>2, <2>3, <2>8, <3>1, <4>1
    <3>4. Stage'
      BY <1>1, <1>4, <2>1, <3>1, <3>2 DEF Stage
    <3>3. Ep0Typed'
      <4>1. in' \in Transaction /\ out' \in Transaction
        BY <1>1, <2>2, <3>1 DEF Transaction
      <4> QED BY <1>1, <1>2, <2>1, <2>2, <2>4, <3>1, <4>1
              DEF Ep0Typed, Ep0TypeOK, Stages
    <3> QED BY <2>4, <3>3, <3>4 DEF Ep0IInv
  <2> QED BY <2>2, <2>5, <2>6, <2>7, <2>8, RequestParts
<1> QED BY <1>3, <1>4

\* The typed parts of the invariant.
LEMMA Ep0Facts ==
    ASSUME Ep0IInv
    PROVE  /\ Stage /\ Ep0Typed
           /\ in \in Transaction /\ in.packets \in Nat /\ in.bytes \in Nat
           /\ out \in Transaction /\ out.packets \in Nat /\ out.bytes \in Nat
           /\ host.bytes \in Nat /\ host.stage \in Stages
           /\ ep0n \in Nat /\ setup \in Requests /\ setup.max \in Nat
           /\ transmitting \in BOOLEAN /\ receiving \in BOOLEAN
           /\ stalled \in BOOLEAN /\ Pkt0 \in Nat \ {0}
<1>1. /\ Stage /\ Ep0Typed /\ setup \in Requests
      /\ in \in Transaction /\ out \in Transaction
      /\ host \in [stage : Stages, bytes : Nat] /\ ep0n \in Nat
      /\ transmitting \in BOOLEAN /\ receiving \in BOOLEAN /\ stalled \in BOOLEAN
  BY DEF Ep0IInv, Ep0Typed, Ep0TypeOK
<1>2. setup.max \in Nat
  BY <1>1, RequestParts
<1>3. /\ in.packets \in Nat /\ in.bytes \in Nat
      /\ out.packets \in Nat /\ out.bytes \in Nat
  BY <1>1 DEF Transaction
<1> QED BY <1>1, <1>2, <1>3, Ep0Assumption

\* _usb_ep0in: the next packet, the empty packet, or the status stage.
LEMMA InKeeps ==
    ASSUME Ep0IInv, usb_ep0in
    PROVE  Ep0IInv'
<1>1. /\ transmitting /\ in.packets = 0
      /\ UNCHANGED <<state, pmnext, ep0n, setup, host>>
  BY DEF usb_ep0in
<1>2. /\ ep0state \in {"TX", "WAITING_TX0", "SENDING_STS"}
      /\ ~receiving /\ ~stalled /\ out.packets = 0
  BY <1>1, Ep0Facts DEF Stage
<1>4. CASE ep0state = "TX" /\ EndsWithEmpty
  <2>1. /\ ep0state' = "WAITING_TX0" /\ in' = [packets |-> 1, bytes |-> 0]
        /\ UNCHANGED <<transmitting, receiving, out, stalled>>
    BY <1>4 DEF usb_ep0in
  <2>2. host.stage = "data_in"
    BY <1>1, <1>4, Ep0Facts DEF Stage, Sending
  <2>3. Stage'
    BY <1>1, <1>2, <2>1, <2>2 DEF Stage
  <2>4. Ep0Typed'
    BY <1>1, <2>1, Ep0Facts DEF Ep0Typed, Ep0TypeOK, Transaction
  <2> QED BY <2>3, <2>4 DEF Ep0IInv
<1>5. CASE (ep0state = "TX" /\ ~EndsWithEmpty) \/ ep0state = "WAITING_TX0"
  <2>1. /\ ep0state' = "WAITING_STS" /\ transmitting' = FALSE
        /\ Receive(0) /\ UNCHANGED <<in, stalled>>
    BY <1>5 DEF usb_ep0in
  <2>2. receiving' = TRUE /\ out' = [packets |-> 1, bytes |-> 0]
    BY <1>2, <2>1 DEF Receive, Count
  <2>3. host.stage = "sts_out"
    BY <1>1, <1>5, Ep0Facts DEF Stage, Sending
  <2>4. Stage'
    BY <1>1, <1>2, <2>1, <2>2, <2>3 DEF Stage
  <2>5. Ep0Typed'
    BY <1>1, <2>1, <2>2, Ep0Facts DEF Ep0Typed, Ep0TypeOK, Transaction
  <2> QED BY <2>4, <2>5 DEF Ep0IInv
<1>6. CASE ep0state = "SENDING_STS"
  <2>1. /\ ep0state' = "WAITING_SETUP" /\ transmitting' = FALSE
        /\ UNCHANGED <<in, receiving, out, stalled>>
    BY <1>6 DEF usb_ep0in
  <2>2. host.stage = "acked"
    BY <1>1, <1>6, Ep0Facts DEF Stage
  <2>3. Stage'
    BY <1>1, <1>2, <2>1, <2>2 DEF Stage
  <2>4. Ep0Typed'
    BY <1>1, <2>1, Ep0Facts DEF Ep0Typed, Ep0TypeOK
  <2> QED BY <2>3, <2>4 DEF Ep0IInv
<1> QED BY <1>2, <1>4, <1>5, <1>6

\* _usb_ep0out: the status stage, or the end of the transfer.
LEMMA OutKeeps ==
    ASSUME Ep0IInv, usb_ep0out
    PROVE  Ep0IInv'
<1>1. /\ receiving /\ out.packets = 0 /\ receiving' = FALSE
      /\ UNCHANGED <<state, pmnext, ep0n, setup, out, host>>
  BY DEF usb_ep0out
<1>2. /\ ep0state \in {"RX", "WAITING_STS"}
      /\ ~transmitting /\ ~stalled /\ in.packets = 0
  BY <1>1, Ep0Facts DEF Stage
<1>4. CASE ep0state = "RX"
  <2>1. ep0state' = "SENDING_STS" /\ Transmit(0) /\ UNCHANGED stalled
    BY <1>4 DEF usb_ep0out
  <2>2. transmitting' = TRUE /\ in' = [packets |-> 1, bytes |-> 0]
    BY <1>2, <2>1 DEF Transmit, Count
  <2>3. host.stage = "sts_in"
    BY <1>1, <1>4, Ep0Facts DEF Stage, Taking
  <2>4. Stage'
    BY <1>1, <1>2, <2>1, <2>2, <2>3 DEF Stage
  <2>5. Ep0Typed'
    BY <1>1, <2>1, <2>2, Ep0Facts DEF Ep0Typed, Ep0TypeOK, Transaction
  <2> QED BY <2>4, <2>5 DEF Ep0IInv
<1>5. CASE ep0state = "WAITING_STS"
  <2>1. ep0state' = "WAITING_SETUP" /\ UNCHANGED <<transmitting, in, stalled>>
    BY <1>5 DEF usb_ep0out
  <2>2. host.stage = "acked"
    BY <1>1, <1>5, Ep0Facts DEF Stage
  <2>3. Stage'
    BY <1>1, <1>2, <2>1, <2>2 DEF Stage
  <2>4. Ep0Typed'
    BY <1>1, <2>1, Ep0Facts DEF Ep0Typed, Ep0TypeOK
  <2> QED BY <2>3, <2>4 DEF Ep0IInv
<1> QED BY <1>2, <1>4, <1>5

\* _usb_reset: the endpoint and the packet memory start anew.
LEMMA ResetKeeps ==
    ASSUME Ep0IInv, ep0reset
    PROVE  Ep0IInv'
<1>1. Ep0Typed'
  BY Ep0Facts, Ep0Assumption
     DEF ep0reset, Ep0Typed, Ep0TypeOK, Transaction, Stages, Idle0
<1>2. Stage'
  BY DEF ep0reset, Stage, Idle0
<1> QED BY <1>1, <1>2 DEF ep0reset, Ep0IInv

\* A packet of an answer: the host takes it for the last one exactly when the
\* device will not send another.
LEMMA ReadsKeeps ==
    ASSUME Ep0IInv, HostReads
    PROVE  Ep0IInv'
<1> DEFINE b == in.bytes
           n == Min({b, Pkt0})
           got == host.bytes + n
<1>1. /\ host.stage = "data_in" /\ ~stalled /\ in.packets > 0
      /\ in' = [packets |-> in.packets - 1, bytes |-> b - n]
      /\ host' = [stage |-> IF n < Pkt0 \/ got = setup.max THEN "sts_out"
                                                           ELSE "data_in",
                  bytes |-> got]
      /\ UNCHANGED <<state, pmnext, ep0state, ep0n, setup,
                     transmitting, receiving, out, stalled>>
  BY DEF HostReads, HostSees
<1>2. n = (IF b <= Pkt0 THEN b ELSE Pkt0) /\ n \in Nat /\ b - n \in Nat
      /\ in.packets - 1 \in Nat /\ got \in Nat
  <2>1. b \in Int /\ Pkt0 \in Int
    BY Ep0Facts
  <2>2. n = IF b <= Pkt0 THEN b ELSE Pkt0
    BY <2>1, MinOf
  <2> QED BY <1>1, <2>2, Ep0Facts
<1> HIDE DEF n
<1>3. Ep0Typed'
  <2>1. in' \in Transaction /\ host' \in [stage : Stages, bytes : Nat]
    BY <1>1, <1>2 DEF Transaction, Stages
  <2>2. host'.stage \in Stages
    BY <2>1
  <2> QED BY <1>1, <2>1, <2>2, Ep0Facts
          DEF Ep0Typed, Ep0TypeOK, Stages
<1>4. transmitting /\ ep0state \in {"TX", "WAITING_TX0"}
  BY <1>1, Ep0Facts DEF Stage
<1>5. CASE ep0state = "WAITING_TX0"
  <2>1. in = [packets |-> 1, bytes |-> 0]
    BY <1>1, <1>5, Ep0Facts DEF Stage
  <2>2. n = 0 /\ n < Pkt0
    BY <1>2, <2>1, Ep0Facts
  <2>3. host'.stage = "sts_out" /\ in'.packets = 0
    BY <1>1, <2>1, <2>2
  <2>4. Stage'
    BY <1>1, <1>4, <1>5, <2>3, Ep0Facts DEF Stage
  <2> QED BY <1>3, <2>4 DEF Ep0IInv
<1>6. CASE ep0state = "TX"
  <2>1. /\ ep0n > 0 /\ ep0n <= setup.max /\ host.bytes + b = ep0n
        /\ host.bytes % Pkt0 = 0 /\ b > 0 /\ in.packets = Count(b)
    BY <1>1, <1>6, Ep0Facts DEF Stage, Sending
  <2>2. /\ b <= Pkt0 => Count(b) = 1
        /\ b > Pkt0 => Count(b - Pkt0) = Count(b) - 1
        /\ b > Pkt0 => Count(b - Pkt0) \in Nat \ {0}
    <3>1. CASE b <= Pkt0
      BY <2>1, <3>1, Ep0Facts, CountStep
    <3>2. CASE b > Pkt0
      <4>1. b - Pkt0 \in Nat /\ b - Pkt0 > 0
        BY <3>2, Ep0Facts
      <4> QED BY <2>1, <3>2, <4>1, Ep0Facts, CountStep
    <3> QED BY <3>1, <3>2, Ep0Facts
  <2>3. Sending'
    <3>1. CASE b > Pkt0
      <4>1. n = Pkt0 /\ in'.bytes = b - Pkt0 /\ in'.packets = Count(b - Pkt0)
            /\ host'.bytes = host.bytes + Pkt0
        BY <1>1, <1>2, <2>1, <2>2, <3>1
      <4>2. host.bytes + Pkt0 # setup.max /\ ~(n < Pkt0)
        BY <2>1, <3>1, <4>1, Ep0Facts
      <4>3. host'.stage = "data_in"
        BY <1>1, <4>1, <4>2
      <4>4. (host.bytes + Pkt0) % Pkt0 = 0
        <5>1. host.bytes \in Int
          BY Ep0Facts
        <5>2. (host.bytes + Pkt0) % Pkt0 = host.bytes % Pkt0
          BY <5>1, Ep0Facts, ModAdd, Zenon
        <5> QED BY <2>1, <5>2
      <4>5. in'.bytes > 0 /\ in'.packets > 0 /\ host'.bytes + in'.bytes = ep0n
        BY <2>1, <2>2, <3>1, <4>1, Ep0Facts
      <4> QED BY <1>1, <2>1, <4>1, <4>3, <4>4, <4>5 DEF Sending
    <3>2. CASE b <= Pkt0
      <4>1. n = b /\ in'.bytes = 0 /\ in'.packets = 0 /\ host'.bytes = ep0n
        BY <1>1, <1>2, <2>1, <2>2, <3>2, Ep0Facts
      <4>2. ep0n % Pkt0 = 0 <=> b = Pkt0
        <5>1. b \in 1 .. Pkt0
          BY <2>1, <3>2, Ep0Facts
        <5>2. (host.bytes + b) % Pkt0 = 0 <=> b = Pkt0
          <6>1. host.bytes \in Nat /\ Pkt0 \in Nat \ {0} /\ host.bytes % Pkt0 = 0
            BY <2>1, Ep0Facts
          <6> QED BY <5>1, <6>1, ModRest, Zenon
        <5> QED BY <2>1, <5>2
      <4>3. host'.stage = IF b < Pkt0 \/ ep0n = setup.max THEN "sts_out"
                                                          ELSE "data_in"
        BY <1>1, <2>1, <4>1
      <4>4. EndsWithEmpty' <=> ~(b < Pkt0 \/ ep0n = setup.max)
        <5>1. EndsWithEmpty' <=> ep0n < setup.max /\ ep0n % Pkt0 = 0
          BY <1>1 DEF EndsWithEmpty
        <5> QED BY <2>1, <3>2, <4>2, <5>1, Ep0Facts
      <4>5. host'.bytes + in'.bytes = ep0n /\ ~(in'.packets > 0)
        BY <4>1, Ep0Facts
      <4> QED BY <1>1, <2>1, <4>1, <4>3, <4>4, <4>5 DEF Sending
    <3> QED BY <3>1, <3>2, Ep0Facts
  <2>4. Stage'
    <3>1. host'.stage # "idle"
      BY <1>1
    <3> QED BY <1>1, <1>4, <1>6, <2>3, <3>1, Ep0Facts DEF Stage
  <2> QED BY <1>3, <2>4 DEF Ep0IInv
<1> QED BY <1>4, <1>5, <1>6

\* A packet to the device: the core has room for one more exactly as long as
\* the host has one to send.
LEMMA WritesKeeps ==
    ASSUME Ep0IInv, HostWrites
    PROVE  Ep0IInv'
<1> DEFINE b == setup.max - host.bytes
           n == Min({b, Pkt0})
           sent == host.bytes + n
<1>1. /\ host.stage = "data_out" /\ ~stalled /\ out.packets > 0
      /\ out' = [packets |-> IF n < Pkt0 THEN 0 ELSE out.packets - 1,
                 bytes |-> Max({out.bytes - n, 0})]
      /\ host' = [stage |-> IF sent = setup.max THEN "sts_in" ELSE "data_out",
                  bytes |-> sent]
      /\ UNCHANGED <<state, pmnext, ep0state, ep0n, setup,
                     transmitting, receiving, in, stalled>>
  BY DEF HostWrites, HostSees
<1>2. receiving /\ ep0state = "RX"
  BY <1>1, Ep0Facts DEF Stage
<1>3. host.bytes < setup.max /\ out.packets = Count(b) /\ b \in Nat /\ b > 0
  BY <1>1, <1>2, Ep0Facts DEF Stage, Taking
<1>4. n = (IF b <= Pkt0 THEN b ELSE Pkt0) /\ n \in Nat /\ sent \in Nat
  <2>1. b \in Int /\ Pkt0 \in Int
    BY <1>3, Ep0Facts
  <2>2. n = IF b <= Pkt0 THEN b ELSE Pkt0
    BY <2>1, MinOf
  <2> QED BY <1>3, <2>2, Ep0Facts
<1>5. Max({out.bytes - n, 0}) \in Nat
  <2>1. out.bytes - n \in Int
    BY <1>4, Ep0Facts
  <2> QED BY <2>1, MaxOf
<1> HIDE DEF n
<1>6. Ep0Typed'
  <2>1. out' \in Transaction /\ host' \in [stage : Stages, bytes : Nat]
    BY <1>1, <1>4, <1>5, Ep0Facts DEF Transaction, Stages
  <2>2. host'.stage \in Stages
    BY <2>1
  <2> QED BY <1>1, <2>1, <2>2, Ep0Facts
          DEF Ep0Typed, Ep0TypeOK, Stages
<1>7. Taking'
  <2>1. CASE b > Pkt0
    <3>1. n = Pkt0 /\ sent # setup.max /\ ~(n < Pkt0) /\ sent < setup.max
          /\ setup.max - sent = b - Pkt0
      BY <1>3, <1>4, <2>1, Ep0Facts
    <3>2. Count(b - Pkt0) = Count(b) - 1 /\ Count(b - Pkt0) \in Nat \ {0}
      <4>1. b - Pkt0 \in Nat /\ b - Pkt0 > 0
        BY <1>3, <2>1, Ep0Facts
      <4> QED BY <1>3, <2>1, <4>1, CountStep
    <3>3. /\ host'.stage = "data_out" /\ host'.bytes = sent
          /\ out'.packets = Count(b - Pkt0)
      BY <1>1, <1>3, <3>1, <3>2
    <3> QED BY <1>1, <3>1, <3>2, <3>3 DEF Taking
  <2>2. CASE b <= Pkt0
    <3>1. n = b /\ sent = setup.max
      BY <1>3, <1>4, <2>2, Ep0Facts
    <3>2. Count(b) = 1
      BY <1>3, <2>2, CountStep
    <3>3. host'.stage = "sts_in" /\ out'.packets = 0
      BY <1>1, <1>3, <3>1, <3>2
    <3> QED BY <3>3 DEF Taking
  <2> QED BY <1>3, <2>1, <2>2, Ep0Facts
<1>8. Stage'
  <2>1. host'.stage # "idle"
    BY <1>1
  <2> QED BY <1>1, <1>2, <1>7, <2>1, Ep0Facts DEF Stage
<1> QED BY <1>6, <1>8 DEF Ep0IInv

\* The status stage, an empty packet in either direction.
LEMMA StatusKeeps ==
    ASSUME Ep0IInv, HostStatus
    PROVE  Ep0IInv'
<1>1. /\ ~stalled /\ host' = [stage |-> "acked", bytes |-> 0]
      /\ UNCHANGED <<state, pmnext, ep0state, ep0n, setup,
                     transmitting, receiving, stalled>>
  BY DEF HostStatus, HostSees
<1>2. CASE host.stage = "sts_in" /\ in.packets > 0 /\ in' = Idle0 /\ out' = out
  <2>1. transmitting /\ ep0state = "SENDING_STS"
    BY <1>1, <1>2, Ep0Facts DEF Stage, Sending
  <2>2. Stage'
    BY <1>1, <1>2, <2>1, Ep0Facts DEF Stage, Idle0
  <2>3. Ep0Typed'
    BY <1>1, <1>2, Ep0Facts
       DEF Ep0Typed, Ep0TypeOK, Transaction, Stages, Idle0
  <2> QED BY <2>2, <2>3 DEF Ep0IInv
<1>3. CASE host.stage = "sts_out" /\ out.packets > 0 /\ out' = Idle0 /\ in' = in
  <2>1. receiving /\ ep0state = "WAITING_STS"
    BY <1>1, <1>3, Ep0Facts DEF Stage, Taking
  <2>2. Stage'
    BY <1>1, <1>3, <2>1, Ep0Facts DEF Stage, Idle0
  <2>3. Ep0Typed'
    BY <1>1, <1>3, Ep0Facts
       DEF Ep0Typed, Ep0TypeOK, Transaction, Stages, Idle0
  <2> QED BY <2>2, <2>3 DEF Ep0IInv
<1> QED BY <1>2, <1>3 DEF HostStatus

\* The end of a transfer of data.
LEMMA EndsKeeps ==
    ASSUME Ep0IInv, HostEnds
    PROVE  Ep0IInv'
<1>1. /\ host' = [stage |-> "idle", bytes |-> 0]
      /\ UNCHANGED <<state, pmnext, ep0state, ep0n, setup,
                     transmitting, receiving, in, out, stalled>>
  BY DEF HostEnds, HostSees
<1>2. ep0state \in {"WAITING_SETUP", "ERROR"}
  <2>1. CASE stalled
    BY <2>1, Ep0Facts DEF Stage
  <2>2. CASE /\ host.stage = "acked" /\ ~(transmitting /\ in.packets = 0)
             /\ ~(receiving /\ out.packets = 0)
    <3>1. ep0state \notin {"TX", "WAITING_TX0", "RX"}
      BY <2>2, Ep0Facts DEF Stage, Sending, Taking
    <3>2. ep0state # "SENDING_STS" /\ ep0state # "WAITING_STS"
      BY <2>2, Ep0Facts DEF Stage
    <3> QED BY <3>1, <3>2, Ep0Facts DEF Ep0Typed, Ep0TypeOK
  <2> QED BY <2>1, <2>2 DEF HostEnds
<1>3. Stage'
  BY <1>1, <1>2, Ep0Facts DEF Stage
<1>4. Ep0Typed'
  BY <1>1, Ep0Facts DEF Ep0Typed, Ep0TypeOK, Stages
<1> QED BY <1>3, <1>4 DEF Ep0IInv

-----------------------------------------------------------------------------
\* The invariant holds from usbStart on.
LEMMA Ep0Invariant == Ep0Spec => []Ep0IInv
<1>1. Ep0IInv /\ [Ep0Next]_ep0vars => Ep0IInv'
  <2> SUFFICES ASSUME Ep0IInv, [Ep0Next]_ep0vars PROVE Ep0IInv'
    OBVIOUS
  <2>1. CASE UNCHANGED ep0vars
    BY <2>1 DEF ep0vars, Ep0IInv, Ep0Typed, Ep0TypeOK, Stage,
               Sending, Taking, EndsWithEmpty
  <2> QED
    BY <2>1, SetupKeeps, InKeeps, OutKeeps, ResetKeeps, ReadsKeeps, WritesKeeps,
       StatusKeeps, EndsKeeps DEF Ep0Next
<1> QED
  BY <1>1, Ep0InvariantInit, PTL DEF Ep0Spec

\* Device and host agree on the stage of every control transfer, whatever the
\* packet size, the answers of the handlers and the lengths the host asks for,
\* through stalls, bus resets and any number of configurations: _usb_ep0in
\* sends an empty packet exactly when the host waits for one.
THEOREM StagesCorrect == Ep0Spec => []ControlOK
<1>1. Ep0IInv => ControlOK
  BY Ep0Facts DEF ControlOK, StagesAgree, Stage, Sending, Ep0Typed
<1> QED
  BY <1>1, Ep0Invariant, PTL
=============================================================================
