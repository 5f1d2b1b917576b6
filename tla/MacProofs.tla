------------------------------ MODULE MacProofs -----------------------------
(***************************************************************************)
(* The rings of the Ethernet driver, for any number of descriptors and of  *)
(* senders: each ring is used in order, and each descriptor by one side.   *)
(***************************************************************************)
EXTENDS Mac, FiniteSetTheorems, FunctionTheorems, WellFoundedInduction, TLAPS

-----------------------------------------------------------------------------
(* Places of a ring of N descriptors. *)

\* Forward around the ring, by at most its size.
LEMMA RingUp ==
    ASSUME NEW N \in Nat \ {0}, NEW d \in 0 .. N - 1, NEW n \in 0 .. N
    PROVE  (d + n) % N = IF d + n < N THEN d + n ELSE d + n - N
<1>1. CASE d + n < N
  BY <1>1
<1>2. CASE d + n >= N
  <2>1. PICK e \in 0 .. N - 1 : e = d + n - N
    BY <1>2
  <2>2. (e + N) % N = e
    OBVIOUS
  <2>3. e + N = d + n
    BY <2>1
  <2> QED BY <1>2, <2>1, <2>2, <2>3
<1> QED BY <1>1, <1>2

\* The way from d to i.
LEMMA RingDown ==
    ASSUME NEW N \in Nat \ {0}, NEW d \in 0 .. N - 1, NEW i \in 0 .. N - 1
    PROVE  (i - d) % N = IF i >= d THEN i - d ELSE i - d + N
<1>1. CASE i >= d
  BY <1>1
<1>2. CASE i < d
  <2>1. PICK e \in 0 .. N - 1 : e = i - d + N
    BY <1>2
  <2>2. (N * (0 - 1) + e) % N = e
    OBVIOUS
  <2>3. N * (0 - 1) + e = i - d
    BY <2>1
  <2> QED BY <1>2, <2>1, <2>2, <2>3
<1> QED BY <1>1, <1>2

\* The c places from d on.
Stretch(N, d, c) == {i \in 0 .. N - 1 : (i - d) % N < c}

\* A stretch has as many places as it is long.
LEMMA StretchSize ==
    ASSUME NEW N \in Nat \ {0}, NEW d \in 0 .. N - 1, NEW c \in 0 .. N
    PROVE  Cardinality(Stretch(N, d, c)) = c
<1> DEFINE S == 1 .. c
           T == Stretch(N, d, c)
           F == [j \in S |-> IF d + j - 1 < N THEN d + j - 1 ELSE d + j - 1 - N]
<1>1. IsFiniteSet(S) /\ Cardinality(S) = c
  BY FS_Interval
<1>2. F \in [S -> T]
  <2>1. ASSUME NEW j \in S PROVE F[j] \in T
    <3>1. F[j] \in 0 .. N - 1
      OBVIOUS
    <3>2. (F[j] - d) % N = j - 1
      BY <3>1, RingDown
    <3> QED BY <3>1, <3>2 DEF Stretch
  <2> QED BY <2>1
<1>3. \A a, b \in S : F[a] = F[b] => a = b
  OBVIOUS
<1>4. ASSUME NEW t \in T PROVE \E s \in S : F[s] = t
  <2>1. t \in 0 .. N - 1 /\ (t - d) % N < c
    BY DEF Stretch
  <2>2. (t - d) % N = IF t >= d THEN t - d ELSE t - d + N
    BY <2>1, RingDown
  <2>3. PICK x : x = (t - d) % N
    OBVIOUS
  <2>4. x \in 0 .. c - 1 /\ x + 1 \in S
    BY <2>1, <2>2, <2>3
  <2>5. F[x + 1] = t
    BY <2>1, <2>2, <2>3, <2>4
  <2> QED BY <2>4, <2>5
<1>5. F \in Bijection(S, T)
  BY <1>2, <1>3, <1>4, Fun_IsBij
<1>6. ExistsBijection(S, T)
  BY <1>5, Fun_ExistsBij
<1> QED
  BY <1>1, <1>6, FS_Bijection

\* A stretch grows at its end and shrinks at its beginning.
LEMMA StretchGrows ==
    ASSUME NEW N \in Nat \ {0}, NEW d \in 0 .. N - 1, NEW c \in 0 .. N - 1
    PROVE  /\ (d + c) % N \in 0 .. N - 1
           /\ (d + c) % N \notin Stretch(N, d, c)
           /\ Stretch(N, d, c + 1) = Stretch(N, d, c) \cup {(d + c) % N}
           /\ (((d + c) % N) + 1) % N = (d + (c + 1)) % N
<1>0. c \in 0 .. N /\ c + 1 \in 0 .. N /\ 1 \in 0 .. N
  OBVIOUS
<1>1. (d + c) % N = IF d + c < N THEN d + c ELSE d + c - N
  BY <1>0, RingUp, Zenon
<1>2. (d + (c + 1)) % N = IF d + (c + 1) < N THEN d + (c + 1) ELSE d + (c + 1) - N
  BY <1>0, RingUp, Zenon
<1>3. PICK e \in 0 .. N - 1 : e = (d + c) % N
  BY <1>1
<1>4. (e + 1) % N = IF e + 1 < N THEN e + 1 ELSE e + 1 - N
  BY <1>0, RingUp, Zenon
<1>5. \A i \in 0 .. N - 1 : (i - d) % N = IF i >= d THEN i - d ELSE i - d + N
  BY RingDown
<1>6. \A i \in 0 .. N - 1 : (i - d) % N = c <=> i = e
  BY <1>1, <1>3, <1>5
<1>7. \A i \in 0 .. N - 1 : (i - d) % N < c + 1 <=> (i - d) % N < c \/ i = e
  BY <1>5, <1>6
<1>8. Stretch(N, d, c + 1) = Stretch(N, d, c) \cup {e} /\ e \notin Stretch(N, d, c)
  <2>1. ~((e - d) % N < c)
    BY <1>6
  <2>2. \A i \in 0 .. N - 1 : i \in Stretch(N, d, c + 1) <=> i \in Stretch(N, d, c) \cup {e}
    BY <1>7 DEF Stretch
  <2>3. Stretch(N, d, c + 1) \subseteq 0 .. N - 1 /\ Stretch(N, d, c) \subseteq 0 .. N - 1
    BY DEF Stretch
  <2> QED BY <2>1, <2>2, <2>3 DEF Stretch
<1> QED
  BY <1>1, <1>2, <1>3, <1>4, <1>8

\* The place n places on from d.
Place(N, d, n) == (d + n) % N

\* The stretch without its first n places is the one that starts behind them.
LEMMA StretchRest ==
    \A N \in Nat \ {0} : \A d \in 0 .. N - 1 : \A c \in 0 .. N : \A n \in 0 .. c :
        /\ Place(N, d, n) \in 0 .. N - 1
        /\ \A i : i \in Stretch(N, Place(N, d, n), c - n)
                      <=> i \in Stretch(N, d, c) /\ i \notin Stretch(N, d, n)
        /\ Place(N, Place(N, d, n), c - n) = Place(N, d, c)
<1> TAKE N \in Nat \ {0}
<1> TAKE d \in 0 .. N - 1
<1> TAKE c \in 0 .. N
<1> TAKE n \in 0 .. c
<1> PICK e : e = (d + n) % N
  OBVIOUS
<1>0. n \in 0 .. N /\ c - n \in 0 .. N
  OBVIOUS
<1>1. e = IF d + n < N THEN d + n ELSE d + n - N
  BY <1>0, RingUp, Zenon
<1>2. e \in 0 .. N - 1
  BY <1>1
<1>3. (d + c) % N = IF d + c < N THEN d + c ELSE d + c - N
  BY RingUp
<1>4. (e + (c - n)) % N = IF e + (c - n) < N THEN e + (c - n) ELSE e + (c - n) - N
  BY <1>0, <1>2, RingUp, Zenon
<1>5. \A i \in 0 .. N - 1 : /\ (i - d) % N = IF i >= d THEN i - d ELSE i - d + N
                            /\ (i - e) % N = IF i >= e THEN i - e ELSE i - e + N
  BY <1>2, RingDown
<1>6. ASSUME NEW i \in 0 .. N - 1
      PROVE  (i - e) % N < c - n <=> (i - d) % N < c /\ ~((i - d) % N < n)
  <2>1. PICK x, y : x = (i - d) % N /\ y = (i - e) % N
    OBVIOUS
  <2>2. /\ x = IF i >= d THEN i - d ELSE i - d + N
        /\ y = IF i >= e THEN i - e ELSE i - e + N
    BY <1>5, <2>1
  <2>3. y < c - n <=> x < c /\ ~(x < n)
    BY <1>1, <1>2, <2>2
  <2> QED BY <2>1, <2>3
<1>7. Stretch(N, e, c - n) = Stretch(N, d, c) \ Stretch(N, d, n)
  BY <1>6 DEF Stretch
<1>8. (e + (c - n)) % N = (d + c) % N
  BY <1>1, <1>2, <1>3, <1>4
<1>9. e = Place(N, d, n) /\ Place(N, e, c - n) = Place(N, d, c)
  BY <1>8 DEF Place
<1> QED
  BY <1>2, <1>7, <1>9

-----------------------------------------------------------------------------
(* The inductive invariant. *)

MacTyped ==
    /\ MacTypeOK
    /\ desc \in [Senders -> Tx] /\ rdes \in Rx /\ rxptr \in Rx /\ rxdma \in Rx

\* What is not free lies from where the DMA is to where the next sender locks.
TxOrder ==
    \E c \in 0 .. NTx : /\ {i \in Tx : td[i] # "free"} = Stretch(NTx, txdma, c)
                        /\ txptr = (txdma + c) % NTx

\* A descriptor is locked by the one sender that fills it.
Holders ==
    /\ \A s \in Senders : snd[s] = "filling" => td[desc[s]] = "locked"
    /\ \A s, r \in Senders :
          snd[s] = "filling" /\ snd[r] = "filling" /\ desc[s] = desc[r] => s = r
    /\ \A i \in Tx : td[i] = "locked" =>
          \E s \in Senders : snd[s] = "filling" /\ desc[s] = i

Taken == IF rcv = "copy" THEN {rdes} ELSE {}

\* What is filled and not taken lies from rxptr to where the DMA is.
RxOrder ==
    /\ rcv = "copy" => rd[rdes] = "good"
    /\ \E c \in 0 .. NRx :
          /\ {i \in Rx : rd[i] # "own"} \ Taken = Stretch(NRx, rxptr, c)
          /\ rxdma = (rxptr + c) % NRx

MacIInv == MacTyped /\ TxOrder /\ Holders /\ RxOrder

-----------------------------------------------------------------------------
\* The typed parts of the invariant.
LEMMA MacParts ==
    ASSUME MacIInv
    PROVE  /\ MacTyped /\ TxOrder /\ Holders /\ RxOrder
           /\ NTx \in Nat \ {0} /\ NRx \in Nat \ {0}
           /\ td \in [Tx -> {"free", "locked", "own"}] /\ txptr \in Tx /\ txdma \in Tx
           /\ rd \in [Rx -> {"own", "good", "bad"}]
           /\ rxptr \in Rx /\ rxdma \in Rx /\ rdes \in Rx
           /\ dmasr \subseteq {"RS", "TS"}
           /\ snd \in [Senders -> {"idle", "linked", "waiting", "queued", "again",
                                   "filling"}]
           /\ desc \in [Senders -> Tx]
           /\ rcv \in {"wait", "drain", "copy"}
  BY MacAssumption DEF MacIInv, MacTyped, MacTypeOK

\* mac_lld_start leaves both rings empty.
LEMMA MacInvariantInit == MacInit => MacIInv
<1> SUFFICES ASSUME MacInit PROVE MacIInv
  OBVIOUS
<1>1. /\ NTx \in Nat \ {0} /\ NRx \in Nat \ {0} /\ 0 \in 0 .. NTx - 1
      /\ 0 \in 0 .. NRx - 1 /\ 0 \in 0 .. NTx /\ 0 \in 0 .. NRx
  BY MacAssumption
<1>2. MacTyped
  BY <1>1 DEF MacInit, MacTyped, MacTypeOK, Tx, Rx
<1>3. \A N \in Nat \ {0} : Stretch(N, 0, 0) = {} /\ (0 + 0) % N = 0
  <2>1. ASSUME NEW N \in Nat \ {0} PROVE Stretch(N, 0, 0) = {} /\ (0 + 0) % N = 0
    <3>1. 0 \in 0 .. N - 1
      OBVIOUS
    <3>2. \A i \in 0 .. N - 1 : (i - 0) % N = i
      BY <3>1, RingDown
    <3> QED BY <3>1, <3>2 DEF Stretch
  <2> QED BY <2>1
<1>4. TxOrder
  <2>1. {i \in Tx : td[i] # "free"} = {}
    BY DEF MacInit
  <2> QED BY <1>1, <1>3, <2>1 DEF MacInit, TxOrder
<1>5. Holders
  BY DEF MacInit, Holders
<1>6. RxOrder
  <2>1. {i \in Rx : rd[i] # "own"} \ Taken = {} /\ rcv # "copy"
    BY DEF MacInit
  <2> QED BY <1>1, <1>3, <2>1 DEF MacInit, RxOrder
<1> QED BY <1>2, <1>4, <1>5, <1>6 DEF MacIInv

\* A step that leaves the descriptors of a side alone keeps its order.
LEMMA TxSame ==
    ASSUME TxOrder, UNCHANGED <<td, txptr, txdma>>
    PROVE  TxOrder'
  BY DEF TxOrder

\* The same for the receiving side.
LEMMA RxSame ==
    ASSUME RxOrder, UNCHANGED rxvars
    PROVE  RxOrder'
  BY DEF RxOrder, rxvars, Taken

\* A sender that is filling no descriptor goes on to something else.
LEMMA SenderMoves ==
    ASSUME MacIInv, NEW s \in Senders, snd[s] # "filling",
           NEW x \in {"idle", "linked", "waiting", "queued", "again"},
           snd' = [snd EXCEPT ![s] = x],
           UNCHANGED <<td, txptr, txdma, desc, dmasr, rxvars>>
    PROVE  MacIInv'
<1>1. Holders'
  BY MacParts DEF Holders
<1>2. MacTyped'
  BY MacParts DEF MacTyped, MacTypeOK, rxvars
<1> QED BY <1>1, <1>2, TxSame, RxSame DEF MacIInv

\* The test of link_up in mac_lld_get_transmit_descriptor.
LEMMA GetTransmitKeeps ==
    ASSUME MacIInv, NEW s \in Senders, mac_lld_get_transmit_descriptor(s)
    PROVE  MacIInv'
<1>1. PICK x \in {"waiting", "idle", "linked"} :
        snd' = [snd EXCEPT ![s] = x] /\ UNCHANGED <<td, desc, txptr>>
  BY DEF mac_lld_get_transmit_descriptor, NoDescriptor
<1>2. snd[s] # "filling" /\ UNCHANGED <<txdma, dmasr, rxvars>>
  BY DEF mac_lld_get_transmit_descriptor
<1> QED BY <1>1, <1>2, SenderMoves

\* The descriptor that is locked is the one behind the stretch.
LEMMA LockKeeps ==
    ASSUME MacIInv, NEW s \in Senders, LockDescriptor(s)
    PROVE  MacIInv'
<1>1. snd[s] = "linked" /\ UNCHANGED <<txdma, dmasr, rxvars>>
  BY DEF LockDescriptor
<1>2. CASE NoDescriptor(s)
  <2>1. PICK x \in {"waiting", "idle"} :
          snd' = [snd EXCEPT ![s] = x] /\ UNCHANGED <<td, desc, txptr>>
    BY <1>2 DEF NoDescriptor
  <2> QED BY <1>1, <2>1, SenderMoves
<1>3. CASE /\ td[txptr] = "free" /\ td' = Locked(txptr)
           /\ desc' = [desc EXCEPT ![s] = txptr]
           /\ txptr' = (txptr + 1) % NTx
           /\ snd' = [snd EXCEPT ![s] = "filling"]
  <2>1. td' = [td EXCEPT ![txptr] = "locked"]
    BY <1>3 DEF Locked
  <2>2. PICK c \in 0 .. NTx :
          /\ {i \in Tx : td[i] # "free"} = Stretch(NTx, txdma, c)
          /\ txptr = (txdma + c) % NTx
    BY MacParts DEF TxOrder
  <2>3. c # NTx
    <3>1. ASSUME c = NTx PROVE FALSE
      <4>1. (txptr - txdma) % NTx < NTx
        BY MacParts, RingDown DEF Tx
      <4>2. txptr \in Stretch(NTx, txdma, c)
        BY <3>1, <4>1, MacParts DEF Stretch, Tx
      <4> QED BY <1>3, <2>2, <4>2
    <3> QED BY <3>1
  <2>4. c \in 0 .. NTx - 1 /\ c + 1 \in 0 .. NTx
    BY <2>3, MacParts
  <2>5. /\ Stretch(NTx, txdma, c + 1) = Stretch(NTx, txdma, c) \cup {txptr}
        /\ (txptr + 1) % NTx = (txdma + (c + 1)) % NTx
    BY <2>2, <2>4, MacParts, StretchGrows DEF Tx
  <2>6. {i \in Tx : td'[i] # "free"} = {i \in Tx : td[i] # "free"} \cup {txptr}
    BY <2>1, MacParts
  <2>7. TxOrder'
    BY <1>1, <1>3, <2>2, <2>4, <2>5, <2>6 DEF TxOrder
  <2>8. txptr' \in Tx
    <3>1. txptr \in 0 .. NTx - 1 /\ 1 \in 0 .. NTx /\ NTx \in Nat \ {0}
      BY MacParts DEF Tx
    <3>2. (txptr + 1) % NTx \in 0 .. NTx - 1
      BY <3>1, RingUp
    <3> QED BY <1>3, <3>2 DEF Tx
  <2>9. MacTyped'
    BY <1>1, <1>3, <2>1, <2>8, MacParts DEF MacTyped, MacTypeOK, rxvars
  <2>10. Holders'
    BY <1>1, <1>3, <2>1, MacParts DEF Holders
  <2> QED BY <1>1, <2>7, <2>9, <2>10, MacParts, RxSame DEF MacIInv
<1> QED BY <1>2, <1>3 DEF LockDescriptor

\* A sender goes to sleep, or its time is over.
LEMMA WaitTransmitKeeps ==
    ASSUME MacIInv, NEW s \in Senders,
           macWaitTransmitDescriptor(s) \/ Expired(s)
    PROVE  MacIInv'
  BY SenderMoves DEF macWaitTransmitDescriptor, Expired

\* mac_lld_release_transmit_descriptor gives a locked descriptor to the DMA.
LEMMA ReleaseKeeps ==
    ASSUME MacIInv, NEW s \in Senders, mac_lld_release_transmit_descriptor(s)
    PROVE  MacIInv'
<1>1. /\ snd[s] = "filling" /\ td' = [td EXCEPT ![desc[s]] = "own"]
      /\ snd' = [snd EXCEPT ![s] = "idle"] /\ desc' = [desc EXCEPT ![s] = 0]
      /\ UNCHANGED <<txptr, txdma, dmasr, rxvars>>
  BY DEF mac_lld_release_transmit_descriptor
<1>2. td[desc[s]] = "locked" /\ desc[s] \in Tx /\ 0 \in Tx
  BY <1>1, MacParts DEF Holders, Tx
<1>3. {i \in Tx : td'[i] # "free"} = {i \in Tx : td[i] # "free"}
  BY <1>1, <1>2, MacParts
<1>4. TxOrder'
  BY <1>1, <1>3, MacParts DEF TxOrder
<1>5. MacTyped'
  BY <1>1, <1>2, MacParts DEF MacTyped, MacTypeOK, rxvars
<1>6. Holders'
  BY <1>1, <1>2, MacParts DEF Holders
<1> QED BY <1>1, <1>4, <1>5, <1>6, MacParts, RxSame DEF MacIInv

\* A stretch that is not empty starts with its first place.
LEMMA StretchFirst ==
    ASSUME NEW N \in Nat \ {0}, NEW d \in 0 .. N - 1
    PROVE  /\ Stretch(N, d, 1) = {d}
           /\ \A c \in 0 .. N : d \in Stretch(N, d, c) <=> c >= 1
<1>1. \A i \in 0 .. N - 1 : (i - d) % N = IF i >= d THEN i - d ELSE i - d + N
  BY RingDown
<1>2. \A i \in 0 .. N - 1 : (i - d) % N < 1 <=> i = d
  BY <1>1
<1>3. (d - d) % N = 0
  BY <1>1
<1> QED BY <1>2, <1>3 DEF Stretch

\* A frame is sent: the stretch loses its first descriptor.
LEMMA DmaTransmitKeeps ==
    ASSUME MacIInv, DmaTransmit
    PROVE  MacIInv'
<1>1. UNCHANGED <<txptr, snd, desc, rxvars>>
  BY DEF DmaTransmit
<1>2. CASE UNCHANGED <<td, txdma, dmasr>>
  <2>1. MacTyped' /\ Holders'
    BY <1>1, <1>2, MacParts DEF MacTyped, MacTypeOK, Holders, rxvars
  <2> QED BY <1>1, <1>2, <2>1, MacParts, TxSame, RxSame DEF MacIInv
<1>3. CASE /\ td[txdma] = "own" /\ td' = [td EXCEPT ![txdma] = "free"]
           /\ txdma' = (txdma + 1) % NTx /\ dmasr' = dmasr \cup {"TS"}
  <2>1. PICK c \in 0 .. NTx :
          /\ {i \in Tx : td[i] # "free"} = Stretch(NTx, txdma, c)
          /\ txptr = (txdma + c) % NTx
    BY MacParts DEF TxOrder
  <2>2. NTx \in Nat \ {0} /\ txdma \in 0 .. NTx - 1
    BY MacParts DEF Tx
  <2>3. c >= 1
    BY <1>3, <2>1, <2>2, StretchFirst, MacParts
  <2>4. 1 \in 0 .. c /\ c - 1 \in 0 .. NTx
    BY <2>2, <2>3
  <2>5. /\ txdma' \in 0 .. NTx - 1
        /\ Stretch(NTx, txdma', c - 1) = Stretch(NTx, txdma, c) \ Stretch(NTx, txdma, 1)
        /\ (txdma' + (c - 1)) % NTx = (txdma + c) % NTx
    <3>1. PICK e : e = Place(NTx, txdma, 1)
      OBVIOUS
    <3>2. /\ e \in 0 .. NTx - 1
          /\ \A i : i \in Stretch(NTx, e, c - 1)
                        <=> i \in Stretch(NTx, txdma, c) /\ i \notin Stretch(NTx, txdma, 1)
          /\ Place(NTx, e, c - 1) = Place(NTx, txdma, c)
      BY <2>2, <2>4, <3>1, StretchRest
    <3> QED BY <1>3, <3>1, <3>2 DEF Place
  <2>6. {i \in Tx : td'[i] # "free"} = {i \in Tx : td[i] # "free"} \ {txdma}
    BY <1>3, MacParts
  <2>7. TxOrder'
    BY <1>1, <2>1, <2>2, <2>4, <2>5, <2>6, StretchFirst DEF TxOrder
  <2>8. MacTyped'
    BY <1>1, <1>3, <2>5, MacParts DEF MacTyped, MacTypeOK, rxvars, Tx
  <2>9. Holders'
    BY <1>1, <1>3, MacParts DEF Holders
  <2> QED BY <1>1, <2>7, <2>8, <2>9, MacParts, RxSame DEF MacIInv
<1> QED BY <1>2, <1>3 DEF DmaTransmit

\* A step of the receiving side leaves the transmitting side alone.
LEMMA RxStep ==
    ASSUME MacIInv, UNCHANGED txvars, dmasr' \subseteq {"RS", "TS"},
           rd' \in [Rx -> {"own", "good", "bad"}], rxptr' \in Rx, rxdma' \in Rx,
           rdes' \in Rx, rcv' \in {"wait", "drain", "copy"}, RxOrder'
    PROVE  MacIInv'
<1>1. TxOrder' /\ Holders'
  BY MacParts, TxSame DEF Holders, txvars
<1>2. MacTyped'
  BY MacParts DEF MacTyped, MacTypeOK, txvars
<1> QED BY <1>1, <1>2 DEF MacIInv

\* A frame comes: the stretch grows by the descriptor behind it.
LEMMA DmaReceiveKeeps ==
    ASSUME MacIInv, DmaReceive
    PROVE  MacIInv'
<1>1. PICK frame \in {"good", "bad"} : rd' = [rd EXCEPT ![rxdma] = frame]
  BY DEF DmaReceive
<1>2. /\ rd[rxdma] = "own" /\ rxdma' = (rxdma + 1) % NRx
      /\ dmasr' = dmasr \cup {"RS"} /\ UNCHANGED <<rxptr, rcv, rdes, txvars>>
  BY DEF DmaReceive
<1>3. PICK c \in 0 .. NRx :
        /\ {i \in Rx : rd[i] # "own"} \ Taken = Stretch(NRx, rxptr, c)
        /\ rxdma = (rxptr + c) % NRx
  BY MacParts DEF RxOrder
<1>4. NRx \in Nat \ {0} /\ rxptr \in 0 .. NRx - 1 /\ rxdma \in 0 .. NRx - 1
  BY MacParts DEF Rx
<1>5. c # NRx
  <2>1. (rxdma - rxptr) % NRx < NRx
    BY <1>4, RingDown
  <2>2. ASSUME c = NRx PROVE FALSE
    BY <1>2, <1>3, <1>4, <2>1, <2>2 DEF Stretch
  <2> QED BY <2>2
<1>6. c \in 0 .. NRx - 1 /\ c + 1 \in 0 .. NRx
  BY <1>4, <1>5
<1>7. /\ Stretch(NRx, rxptr, c + 1) = Stretch(NRx, rxptr, c) \cup {rxdma}
      /\ (rxdma + 1) % NRx = (rxptr + (c + 1)) % NRx
  BY <1>3, <1>4, <1>6, StretchGrows
<1>8. rxdma' \in Rx
  <2>1. (rxdma + 1) % NRx \in 0 .. NRx - 1
    <3>1. 1 \in 0 .. NRx
      BY <1>4
    <3> QED BY <1>4, <3>1, RingUp
  <2> QED BY <1>2, <2>1 DEF Rx
<1>9. rcv = "copy" => rdes # rxdma /\ rd'[rdes] = "good"
  BY <1>1, <1>2, MacParts DEF RxOrder
<1>10. /\ Taken' = Taken /\ rxdma \notin Taken
       /\ {i \in Rx : rd'[i] # "own"} = {i \in Rx : rd[i] # "own"} \cup {rxdma}
  BY <1>1, <1>2, <1>9, MacParts DEF Taken
<1>11. RxOrder'
  BY <1>2, <1>3, <1>6, <1>7, <1>9, <1>10 DEF RxOrder
<1> QED BY <1>1, <1>2, <1>8, <1>11, MacParts, RxStep

\* The first n of a set of numbers.
LEMMA Least ==
    ASSUME NEW S \in SUBSET Nat, S # {}
    PROVE  \E x \in S : \A y \in S : x <= y
<1> DEFINE R == {ss \in Nat \X Nat : ss[1] < ss[2]}
<1>1. IsWellFoundedOn(R, Nat)
  BY NatLessThanWellFounded DEF OpToRel
<1>2. \A x, y \in Nat : y < x => <<y, x>> \in R
  OBVIOUS
<1> HIDE DEF R
<1>3. PICK x \in S : \A y \in S : ~ (<<y, x>> \in R)
  BY <1>1, WFMin
<1>4. \A y \in S : x <= y
  <2>1. ASSUME NEW y \in S PROVE x <= y
    <3>1. ~ (y < x)
      BY <1>2, <1>3
    <3> QED BY <3>1
  <2> QED BY <2>1
<1> QED BY <1>4

\* The place where mac_lld_get_receive_descriptor stops: before it are frames
\* the DMA has filled.
LEMMA GetReceiveStops ==
    ASSUME MacIInv, mac_lld_get_receive_descriptor
    PROVE  \E c \in 0 .. NRx, n \in 0 .. NRx :
             /\ n <= c
             /\ {i \in Rx : rd[i] # "own"} = Stretch(NRx, rxptr, c)
             /\ rxdma = (rxptr + c) % NRx
             /\ rd' = Purged(n)
             /\ LET at == (rxptr + n) % NRx IN
                IF rd'[at] = "good"
                THEN rdes' = at /\ rxptr' = (at + 1) % NRx /\ rcv' = "copy"
                ELSE rxptr' = at /\ rcv' = "wait" /\ UNCHANGED rdes
<1> DEFINE Stops(m) == /\ m = NRx \/ rd[(rxptr + m) % NRx] # "bad"
                       /\ \A k \in 0..(m - 1) : rd[(rxptr + k) % NRx] = "bad"
           n == CHOOSE m \in 0 .. NRx : Stops(m)
           S == {m \in 0 .. NRx : m = NRx \/ rd[(rxptr + m) % NRx] # "bad"}
<1>1. NRx \in Nat \ {0} /\ rxptr \in 0 .. NRx - 1
  BY MacParts DEF Rx
<1>2. PICK m \in S : \A y \in S : m <= y
  <2>1. S \in SUBSET Nat /\ NRx \in S
    BY <1>1
  <2> HIDE DEF S
  <2> QED BY <2>1, Least
<1>3. Stops(m)
  <2>1. ASSUME NEW k \in 0 .. (m - 1) PROVE rd[(rxptr + k) % NRx] = "bad"
    <3>1. k \notin S /\ k \in 0 .. NRx /\ k # NRx
      BY <1>1, <1>2
    <3> QED BY <3>1
  <2> QED BY <1>2, <2>1
<1>4. n \in 0 .. NRx /\ Stops(n)
  BY <1>2, <1>3
<1>5. /\ rd' = Purged(n) /\ rcv = "drain"
      /\ LET at == (rxptr + n) % NRx IN
                IF rd'[at] = "good"
                THEN rdes' = at /\ rxptr' = (at + 1) % NRx /\ rcv' = "copy"
                ELSE rxptr' = at /\ rcv' = "wait" /\ UNCHANGED rdes
  BY DEF mac_lld_get_receive_descriptor
<1> HIDE DEF n
<1>6. PICK c \in 0 .. NRx :
        /\ {i \in Rx : rd[i] # "own"} = Stretch(NRx, rxptr, c)
        /\ rxdma = (rxptr + c) % NRx
  BY <1>5, MacParts DEF RxOrder, Taken
<1>7. n <= c
  <2>1. SUFFICES ASSUME c < n PROVE FALSE
    BY <1>1, <1>4
  <2>2. c \in 0 .. (n - 1) /\ c \in 0 .. NRx - 1
    BY <1>1, <1>4, <2>1
  <2>3. rd[(rxptr + c) % NRx] = "bad"
    BY <1>4, <2>2
  <2>4. (rxptr + c) % NRx \in Rx /\ (rxptr + c) % NRx \notin Stretch(NRx, rxptr, c)
    BY <1>1, <2>2, StretchGrows DEF Rx
  <2> QED BY <1>6, <2>3, <2>4
<1> QED BY <1>4, <1>5, <1>6, <1>7

\* The bad frames and the one that is taken leave the stretch at its start.
LEMMA GetReceiveKeeps ==
    ASSUME MacIInv, mac_lld_get_receive_descriptor
    PROVE  MacIInv'
<1> DEFINE at(n) == (rxptr + n) % NRx
<1>1. PICK c \in 0 .. NRx, n \in 0 .. NRx :
        /\ n <= c
        /\ {i \in Rx : rd[i] # "own"} = Stretch(NRx, rxptr, c)
        /\ rxdma = (rxptr + c) % NRx
        /\ rd' = Purged(n)
        /\ IF rd'[at(n)] = "good"
           THEN rdes' = at(n) /\ rxptr' = (at(n) + 1) % NRx /\ rcv' = "copy"
           ELSE rxptr' = at(n) /\ rcv' = "wait" /\ UNCHANGED rdes
  BY GetReceiveStops
<1>2. PICK e : e = (rxptr + n) % NRx
  OBVIOUS
<1>3. NRx \in Nat \ {0} /\ rxptr \in 0 .. NRx - 1 /\ n \in 0 .. c
  BY <1>1, MacParts DEF Rx
<1>4. /\ e \in 0 .. NRx - 1
      /\ Stretch(NRx, e, c - n) = Stretch(NRx, rxptr, c) \ Stretch(NRx, rxptr, n)
      /\ (e + (c - n)) % NRx = rxdma
  <2>1. e = Place(NRx, rxptr, n)
    BY <1>2 DEF Place
  <2>2. /\ e \in 0 .. NRx - 1
        /\ \A i : i \in Stretch(NRx, e, c - n)
                      <=> i \in Stretch(NRx, rxptr, c) /\ i \notin Stretch(NRx, rxptr, n)
        /\ Place(NRx, e, c - n) = Place(NRx, rxptr, c)
    BY <1>3, <2>1, StretchRest
  <2> QED BY <1>1, <2>2 DEF Place
<1>5. rd' \in [Rx -> {"own", "good", "bad"}]
  BY <1>1, MacParts DEF Purged
<1>6. {i \in Rx : rd'[i] # "own"} = Stretch(NRx, e, c - n)
  <2>1. \A i \in Rx : rd'[i] = IF i \in Stretch(NRx, rxptr, n) THEN "own" ELSE rd[i]
    BY <1>1 DEF Purged, Stretch, Rx
  <2>2. {i \in Rx : rd'[i] # "own"} = {i \in Rx : rd[i] # "own"} \ Stretch(NRx, rxptr, n)
    BY <2>1
  <2> QED BY <1>1, <1>4, <2>2
<1>7. UNCHANGED <<rxdma, dmasr, txvars>>
  BY DEF mac_lld_get_receive_descriptor
<1>8. c - n \in 0 .. NRx
  BY <1>3
<1>9. CASE rd'[e] = "good"
  <2>1. rdes' = e /\ rxptr' = (e + 1) % NRx /\ rcv' = "copy"
    BY <1>1, <1>2, <1>9
  <2>2. e \in Stretch(NRx, e, c - n)
    BY <1>4, <1>6, <1>9 DEF Rx
  <2>3. c - n >= 1
    BY <1>3, <1>4, <1>8, <2>2, StretchFirst
  <2>4. 1 \in 0 .. (c - n) /\ (c - n) - 1 \in 0 .. NRx
    BY <1>3, <2>3
  <2>5. /\ rxptr' \in 0 .. NRx - 1
        /\ Stretch(NRx, rxptr', (c - n) - 1)
             = Stretch(NRx, e, c - n) \ Stretch(NRx, e, 1)
        /\ (rxptr' + ((c - n) - 1)) % NRx = (e + (c - n)) % NRx
    <3>1. PICK g : g = Place(NRx, e, 1)
      OBVIOUS
    <3>2. PICK b \in 0 .. NRx : b = c - n
      BY <1>8
    <3>3. 1 \in 0 .. b /\ NRx \in Nat \ {0} /\ e \in 0 .. NRx - 1
      BY <1>3, <1>4, <2>4, <3>2
    <3>4. /\ g \in 0 .. NRx - 1
          /\ \A i : i \in Stretch(NRx, g, b - 1)
                        <=> i \in Stretch(NRx, e, b) /\ i \notin Stretch(NRx, e, 1)
          /\ Place(NRx, g, b - 1) = Place(NRx, e, b)
      BY <3>1, <3>3, StretchRest
    <3> QED BY <2>1, <3>1, <3>2, <3>4 DEF Place
  <2>6. Stretch(NRx, e, 1) = {e}
    BY <1>3, <1>4, StretchFirst
  <2>7. Taken' = {e}
    BY <2>1 DEF Taken
  <2>8. RxOrder'
    BY <1>4, <1>6, <1>7, <1>9, <2>1, <2>4, <2>5, <2>6, <2>7 DEF RxOrder
  <2> QED BY <1>4, <1>5, <1>7, <2>1, <2>5, <2>8, MacParts, RxStep DEF Rx
<1>10. CASE rd'[e] # "good"
  <2>1. rxptr' = e /\ rcv' = "wait" /\ UNCHANGED rdes
    BY <1>1, <1>2, <1>10
  <2>2. Taken' = {}
    BY <2>1 DEF Taken
  <2>3. RxOrder'
    BY <1>4, <1>6, <1>7, <1>8, <2>1, <2>2 DEF RxOrder
  <2> QED BY <1>4, <1>5, <1>7, <2>1, <2>3, MacParts, RxStep DEF Rx
<1> QED BY <1>9, <1>10

\* The descriptor of the frame that was copied goes back to the DMA.
LEMMA LowLevelInputKeeps ==
    ASSUME MacIInv, low_level_input
    PROVE  MacIInv'
<1>1. /\ rcv = "copy" /\ rd' = [rd EXCEPT ![rdes] = "own"] /\ rdes' = 0
      /\ rcv' \in {"drain", "wait"} /\ UNCHANGED <<rxptr, rxdma, dmasr, txvars>>
  BY DEF low_level_input
<1>2. 0 \in Rx
  BY MacParts DEF Rx
<1>3. Taken = {rdes} /\ Taken' = {}
  BY <1>1 DEF Taken
<1>4. {i \in Rx : rd'[i] # "own"} = {i \in Rx : rd[i] # "own"} \ {rdes}
  BY <1>1, MacParts
<1>5. RxOrder'
  BY <1>1, <1>3, <1>4, MacParts DEF RxOrder
<1> QED BY <1>1, <1>2, <1>5, MacParts, RxStep

\* The thread takes its event, and the link is polled.
LEMMA ThreadKeeps ==
    ASSUME MacIInv, lwip_thread \/ LinkPoll
    PROVE  MacIInv'
<1>1. /\ UNCHANGED <<rd, rxptr, rxdma, rdes, dmasr, txvars>>
      /\ UNCHANGED rcv \/ (rcv = "wait" /\ rcv' = "drain")
  BY DEF lwip_thread, LinkPoll, rxvars
<1>2. RxOrder'
  BY <1>1, MacParts DEF RxOrder, Taken
<1> QED BY <1>1, <1>2, MacParts, RxStep

\* ETH_IRQHandler wakes senders that hold no descriptor.
LEMMA InterruptKeeps ==
    ASSUME MacIInv, ETH_IRQHandler
    PROVE  MacIInv'
<1>1. /\ dmasr' = {} /\ UNCHANGED <<td, txptr, txdma, desc, rd, rxptr, rxdma, rcv, rdes>>
      /\ snd' = [s \in Senders |-> IF "TS" \in dmasr /\ snd[s] = "queued"
                                   THEN "again" ELSE snd[s]]
  BY DEF ETH_IRQHandler
<1>2. snd' \in [Senders -> {"idle", "linked", "waiting", "queued", "again", "filling"}]
  BY <1>1, MacParts
<1>3. \A s \in Senders : snd'[s] = "filling" <=> snd[s] = "filling"
  BY <1>1
<1>4. Holders'
  BY <1>1, <1>3, MacParts DEF Holders
<1>5. MacTyped'
  BY <1>1, <1>2, MacParts DEF MacTyped, MacTypeOK
<1>6. TxOrder' /\ RxOrder'
  BY <1>1, MacParts, TxSame DEF RxOrder, Taken
<1> QED BY <1>4, <1>5, <1>6 DEF MacIInv

\* Every step keeps the invariant.
LEMMA MacInvariant == MacIInv /\ [MacNext]_macvars => MacIInv'
<1>1. ASSUME MacIInv, MacNext PROVE MacIInv'
  BY <1>1, GetTransmitKeeps, LockKeeps, WaitTransmitKeeps, ReleaseKeeps,
     GetReceiveKeeps, LowLevelInputKeeps, ThreadKeeps, DmaTransmitKeeps,
     DmaReceiveKeeps, InterruptKeeps DEF MacNext
<1>2. ASSUME MacIInv, UNCHANGED macvars PROVE MacIInv'
  BY <1>2 DEF macvars, MacIInv, MacTyped, MacTypeOK, TxOrder, Holders, RxOrder, Taken
<1> QED BY <1>1, <1>2

\* The invariant says how the rings are used.
LEMMA RingsFollow == MacIInv => RingsOK
<1> SUFFICES ASSUME MacIInv PROVE RingsOK
  OBVIOUS
<1>1. TxRing
  <2> DEFINE busy == {i \in Tx : td[i] # "free"}
             sending(i) == {s \in Senders : snd[s] = "filling" /\ desc[s] = i}
  <2>1. PICK c \in 0 .. NTx : busy = Stretch(NTx, txdma, c)
                              /\ txptr = (txdma + c) % NTx
    BY MacParts DEF TxOrder
  <2>2. Cardinality(busy) = c
    BY <2>1, MacParts, StretchSize DEF Tx
  <2>3. \A i \in Tx : i \in busy <=> (i - txdma) % NTx < Cardinality(busy)
    BY <2>1, <2>2 DEF Stretch, Tx
  <2>4. ASSUME NEW i \in Tx
        PROVE  td[i] = "locked" <=> Cardinality(sending(i)) = 1
    <3>1. CASE td[i] = "locked"
      <4>1. PICK s \in Senders : snd[s] = "filling" /\ desc[s] = i
        BY <3>1, MacParts DEF Holders
      <4>2. sending(i) = {s}
        BY <4>1, MacParts DEF Holders
      <4> QED BY <3>1, <4>2, FS_Singleton
    <3>2. CASE td[i] # "locked"
      <4>1. sending(i) = {}
        BY <3>2, MacParts DEF Holders
      <4> QED BY <3>2, <4>1, FS_EmptySet
    <3> QED BY <3>1, <3>2
  <2> QED BY <2>1, <2>2, <2>3, <2>4 DEF TxRing
<1>2. RxRing
  <2> DEFINE full == {i \in Rx : rd[i] # "own"} \ Taken
  <2>1. PICK c \in 0 .. NRx : full = Stretch(NRx, rxptr, c)
                              /\ rxdma = (rxptr + c) % NRx
    BY MacParts DEF RxOrder
  <2>2. Cardinality(full) = c
    BY <2>1, MacParts, StretchSize DEF Rx
  <2>3. \A i \in Rx : i \in full <=> (i - rxptr) % NRx < Cardinality(full)
    BY <2>1, <2>2 DEF Stretch, Rx
  <2>4. \A i \in Taken : rd[i] = "good"
    BY MacParts DEF RxOrder, Taken
  <2> QED BY <2>1, <2>2, <2>3, <2>4 DEF RxRing, Taken
<1> QED BY <1>1, <1>2, MacParts DEF RingsOK, MacTyped

\* Whatever the sizes of the rings and however many threads send, frames leave
\* in the order their descriptors were locked, each descriptor is filled by one
\* sender, and frames are taken in the order they came: the pointers of
\* mac_lld.c and those of the DMA never pass each other.
THEOREM RingsCorrect == MacSpec => []RingsOK
<1> QED BY MacInvariantInit, MacInvariant, RingsFollow, PTL DEF MacSpec
=============================================================================
