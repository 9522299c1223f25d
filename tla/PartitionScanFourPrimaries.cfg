\* One file disk whose MBR may hold four primary partitions.
CONSTANTS
  HdCnt = 2
  MaxChain = 1
  MaxPrims = 4
SPECIFICATION Spec
INVARIANT ScanNeverHalts
