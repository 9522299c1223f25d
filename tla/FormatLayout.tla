---------------------------- MODULE FormatLayout ----------------------------
(***************************************************************************)
(* fs/fs.c filesys_init, partition_format and mount_partition for the one *)
(* file disk the build has (sdb).  filesys_init walks the partition slots *)
(* of the disk, reads each non-empty partition's superblock and formats   *)
(* the partition when the magic is missing; then it mounts "sdb1".  It    *)
(* runs once from init_all before any other thread touches a disk, so     *)
(* each probed partition is one step and the mount is one step.           *)
(*                                                                         *)
(* The sizes are scaled: a sector of SectorSize bytes holds               *)
(* 8 * SectorSize bitmap bits, and MAX_FILES_PER_PART equals              *)
(* BITS_PER_SECTOR as in fs.h.  Bitmaps are sets of the indices of their  *)
(* 1-bits; a partition's blocks are numbered from data_start_lba.         *)
(***************************************************************************)
EXTENDS Naturals, FiniteSets

CONSTANTS
  SectorSize,   \* SECTOR_SIZE, in bytes
  InodeSize,    \* sizeof(struct inode), in bytes
  NumParts,     \* partition slots of the disk (12 in the code)
  Sizes         \* the sector counts a non-empty partition may have

BitsPerSector == 8 * SectorSize
MaxFilesPerPart == BitsPerSector
DivRoundUp(a, b) == (a + b - 1) \div b

Parts == 0..(NumParts - 1)

(* Lines 74-80: boot sector, superblock, inode bitmap and inode table.    *)
InodeBitmapSects == DivRoundUp(MaxFilesPerPart, BitsPerSector)
InodeTableSects == DivRoundUp(InodeSize * MaxFilesPerPart, SectorSize)
UsedSects == 1 + 1 + InodeBitmapSects + InodeTableSects

ASSUME /\ NumParts \in 1..12
       /\ \A s \in Sizes : s > UsedSects

(* The partitions lie one after the other from LBA 1. *)
StartLba(p) == 1 + p * (UsedSects + 8 * BitsPerSector)
ASSUME \A s \in Sizes : s <= UsedSects + 8 * BitsPerSector

(* The bitmap sized for all free sectors, the second pass left out. *)
BlockBitmapBitLenUnadjusted(free, bbs0) == free

(* Line 85: the bits of the block bitmap, from the first estimate of its  *)
(* size.                                                                   *)
BlockBitmapBitLen(free, bbs0) == free - bbs0

(* Lines 81-106: the superblock of a partition of secCnt sectors at start. *)
Layout(start, secCnt) ==
  LET free   == secCnt - UsedSects
      bitLen == BlockBitmapBitLen(free, DivRoundUp(free, BitsPerSector))
      bbs    == DivRoundUp(bitLen, BitsPerSector)
  IN  [base |-> start, secCnt |-> secCnt, inodeCnt |-> MaxFilesPerPart,
       bbLba |-> start + 2, bbs |-> bbs,
       ibLba |-> start + 2 + bbs, ibs |-> InodeBitmapSects,
       itLba |-> start + 2 + bbs + InodeBitmapSects, its |-> InodeTableSects,
       data |-> start + 2 + bbs + InodeBitmapSects + InodeTableSects,
       bitLen |-> bitLen]

(* The bitmap with every sector up to the end of the buffer written. *)
FreshBlockBitmapUnclipped(bitLen, bbs) ==
  LET lastByte == bitLen \div 8
      lastSize == SectorSize - (lastByte % SectorSize)
  IN  ({0} \cup (8 * lastByte)..(8 * (lastByte + lastSize) - 1))
        \ {8 * lastByte + i : i \in 0..(bitLen % 8)}

(* Lines 136-150: the block bitmap as written.  buf comes zeroed from     *)
(* sys_malloc; bit 0 is set for the root directory; the bytes from        *)
(* bit_len / 8 to the end of that sector are set to 0xff; then bits 0 to *)
(* bit_len % 8 of byte bit_len / 8 are cleared; bbs sectors are written.  *)
FreshBlockBitmap(bitLen, bbs) ==
  LET lastByte == bitLen \div 8
      lastBit  == bitLen % 8
      lastSize == SectorSize - (lastByte % SectorSize)
      padding  == (8 * lastByte)..(8 * (lastByte + lastSize) - 1)
      cleared  == {8 * lastByte + i : i \in 0..lastBit}
  IN  (({0} \cup padding) \ cleared) \cap 0..(bbs * BitsPerSector - 1)

(* The on-disk state of a partition this code formatted: the superblock,  *)
(* the two bitmaps, the root inode (size of two entries, i_sectors[0] =   *)
(* data_start_lba) and the sector that holds "." and "..".               *)
NoSb == Layout(0, UsedSects + 1)
Blank == [magic |-> FALSE, sb |-> NoSb, bbm |-> {}, ibm |-> {},
          rootSector |-> 0, dotsAt |-> 0]
NotMounted == [sb |-> NoSb, bbm |-> {}, ibm |-> {}, ibmLen |-> 0,
               ibmAlloc |-> 0]

(* Lines 72-189: partition_format of partition p. *)
PartitionFormat(p, secCnt) ==
  LET sb == Layout(StartLba(p), secCnt)
  IN  [magic |-> TRUE, sb |-> sb, bbm |-> FreshBlockBitmap(sb.bitLen, sb.bbs),
       ibm |-> {0}, rootSector |-> sb.data, dotsAt |-> sb.data]

(* A file system formatted earlier and used since: one more file, in      *)
(* inode 1 and, when the bitmap counts it, block 1.                        *)
UsedFs(p, secCnt) ==
  LET f == PartitionFormat(p, secCnt)
  IN  [f EXCEPT !.bbm = @ \cup ({1} \cap 1..(f.sb.bitLen - 1)),
                !.ibm = @ \cup {1}]

VARIABLES
  sec,     \* sec_cnt of each partition slot (0: empty)
  disk,    \* the file system on each partition
  pidx,    \* part_idx of filesys_init
  mnt      \* cur_part once mounted: superblock, bitmaps, inode bitmap
           \* btmp_bytes_len and the bytes allocated for it

vars == <<sec, disk, pidx, mnt>>

-----------------------------------------------------------------------------
(* partition_scan found sdb1 (the build's disk image has it); the other   *)
(* slots may be empty; each partition is blank or already has a used     *)
(* file system.                                                            *)
Init ==
  /\ sec \in [Parts -> Sizes \cup {0}] /\ sec[0] # 0
  /\ \E hasFs \in [Parts -> BOOLEAN] :
       disk = [p \in Parts |-> IF hasFs[p] /\ sec[p] # 0 THEN UsedFs(p, sec[p])
                              ELSE Blank]
  /\ pidx = 0
  /\ mnt = NotMounted

(* Lines 215-241, a slot whose superblock has the magic, or an empty one. *)
HasFileSystem ==
  /\ pidx < NumParts
  /\ sec[pidx] = 0 \/ disk[pidx].magic
  /\ pidx' = pidx + 1
  /\ UNCHANGED <<sec, disk, mnt>>

(* Lines 215-241, a non-empty slot without the magic: partition_format. *)
FormatPartition ==
  /\ pidx < NumParts
  /\ sec[pidx] # 0 /\ ~disk[pidx].magic
  /\ disk' = [disk EXCEPT ![pidx] = PartitionFormat(pidx, sec[pidx])]
  /\ pidx' = pidx + 1
  /\ UNCHANGED <<sec, mnt>>

(* Lines 16-66 via list_traversal at 252: mount "sdb1".  The inode        *)
(* bitmap gets inode_bitmap_sects sectors of memory but the length of     *)
(* block_bitmap_sects sectors (line 60).                                   *)
MountPartition ==
  /\ pidx = NumParts /\ mnt = NotMounted
  /\ mnt' = [sb |-> disk[0].sb, bbm |-> disk[0].bbm, ibm |-> disk[0].ibm,
             ibmLen |-> disk[0].sb.bbs * SectorSize,
             ibmAlloc |-> disk[0].sb.ibs * SectorSize]
  /\ UNCHANGED <<sec, disk, pidx>>

(* filesys_init has returned. *)
Done == pidx = NumParts /\ mnt # NotMounted /\ UNCHANGED vars

Next == HasFileSystem \/ FormatPartition \/ MountPartition \/ Done

Spec == Init /\ [][Next]_vars

-----------------------------------------------------------------------------
TypeOK ==
  /\ sec \in [Parts -> Sizes \cup {0}]
  /\ pidx \in 0..NumParts
  /\ \A p \in Parts :
       /\ disk[p].bbm \subseteq 0..(disk[p].sb.bbs * BitsPerSector - 1)
       /\ disk[p].ibm \subseteq 0..(disk[p].sb.ibs * BitsPerSector - 1)
  /\ mnt.ibmLen \in Nat /\ mnt.ibmAlloc \in Nat

(* partition_format's layout (lines 74-106, with the two-pass sizing of   *)
(* the block bitmap): in every formatted partition the superblock's       *)
(* regions follow one another without overlap, the root directory's       *)
(* sector (where "." and ".." are written) lies inside the partition, and *)
(* every block the bitmap counts is a sector of the partition.            *)
LayoutInPartition ==
  \A p \in Parts : disk[p].magic =>
    LET sb == disk[p].sb IN
      /\ sb.base = StartLba(p) /\ sb.secCnt = sec[p]
      /\ sb.base + 2 <= sb.bbLba
      /\ sb.bbLba + sb.bbs <= sb.ibLba
      /\ sb.ibLba + sb.ibs <= sb.itLba
      /\ sb.itLba + sb.its <= sb.data
      /\ disk[p].rootSector = sb.data /\ disk[p].dotsAt = sb.data
      /\ sb.data < sb.base + sb.secCnt
      /\ sb.data + sb.bitLen <= sb.base + sb.secCnt

(* partition_format lines 136-150 (spec: bit 0 reserved for the root      *)
(* directory, the bits beyond the real free-sector count marked allocated *)
(* as padding): in every formatted partition block 0 is allocated, and    *)
(* every block the bitmap leaves free is a sector of the partition.       *)
FreeBlocksInPartition ==
  \A p \in Parts : disk[p].magic =>
    LET sb == disk[p].sb IN
      /\ 0 \in disk[p].bbm
      /\ \A b \in 0..(sb.bbs * BitsPerSector - 1) \ disk[p].bbm :
           sb.data + b < sb.base + sb.secCnt

=============================================================================
