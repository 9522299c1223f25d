\* Two partition slots of sdb, every size with up to three block-bitmap
\* sectors; each partition blank or already holding a used file system.
CONSTANTS
  SectorSize = 2
  InodeSize = 1
  NumParts = 2
  Sizes <- MCSizes
SPECIFICATION Spec
INVARIANT TypeOK
INVARIANT LayoutInPartition
