-------------------------- MODULE MC_FormatLayout --------------------------
(* FormatLayout with a sector of 2 bytes (16 bitmap bits, 16 inodes) and  *)
(* an inode of 1 byte, so the metadata takes 11 sectors.                   *)
EXTENDS FormatLayout

(* Every partition size from one data sector to three bitmap sectors. *)
MCSizes == (UsedSects + 1)..(UsedSects + 40)

(* Partitions whose block bitmap counts at least 8 blocks, so that the    *)
(* padding starts past byte 0.                                             *)
MCSizesPastByte0 == (UsedSects + 10)..(UsedSects + 40)

=============================================================================
