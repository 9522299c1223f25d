\* Partitions with at least 8 counted blocks; the block bitmap partition_format writes.
CONSTANTS
  SectorSize = 2
  InodeSize = 1
  NumParts = 2
  Sizes <- MCSizesPastByte0
SPECIFICATION Spec
INVARIANT FreeBlocksInPartition
