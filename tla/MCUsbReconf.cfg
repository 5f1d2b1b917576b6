CONSTANTS
  Sizes = {0}
  Pkt0 = 64
  RamSize = 256
  Ram0 = 16
  RamEp = 36
SPECIFICATION Ep0Spec
INVARIANT FifoRamFits
