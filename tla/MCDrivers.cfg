CONSTANTS
  Writers = {w1, w2}
  Readers = {r1, r2}
  Duplex = {w1, r1}
  QLen = 4
  MaxPkt = 2
  Fifo = 2
  Sizes = {0, 1, 2, 3, 4, 5}
  Pkt0 = 2
  RamSize = 4
  Ram0 = 1
  RamEp = 1
  Senders = {x1, x2}
  NTx = 2
  NRx = 2
  Links = {TRUE, FALSE}
SPECIFICATION MCSpec
INVARIANTS TransfersFit NothingStalls ControlOK RingsOK
PROPERTIES WriterServed TransferEnds FramesMove
