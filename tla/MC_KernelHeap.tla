--------------------------- MODULE MC_KernelHeap ---------------------------
EXTENDS KernelHeap

(* One bitmap byte of heap pages; two descriptors of 16 and 32 bytes;     *)
(* requests for a 16-byte block, a 32-byte block, one large page, a 60- *)
(* byte block that needs a second page for its arena header, and the     *)
(* whole pool (refused).                                                   *)
MCSizes == {8, 24, 40, 60, 512}
=============================================================================
