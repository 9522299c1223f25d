\* The build's two disks (hd60M system disk, hd80M file disk): every MBR
\* with up to three primaries and at most one extended entry in any slot,
\* and EBR chains of up to 10, past the 8 logical slots.
CONSTANTS
  HdCnt = 2
  MaxChain = 10
  MaxPrims = 3
SPECIFICATION Spec
INVARIANT TypeOK
INVARIANT ScanMatchesReference
