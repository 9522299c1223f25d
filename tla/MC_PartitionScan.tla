--------------------------- MODULE MC_PartitionScan ---------------------------
(* PartitionScan needs no model values; the cfgs fix the disk count and   *)
(* the image bounds.                                                       *)
EXTENDS PartitionScan
=============================================================================
