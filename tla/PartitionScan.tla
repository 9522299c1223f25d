---------------------------- MODULE PartitionScan ----------------------------
(***************************************************************************)
(* device/ide.c ide_init and partition_scan: the disks of each channel are *)
(* identified in turn, and the second disk of a channel (the file disk) is *)
(* scanned from its MBR through the chain of EBRs.  The scan keeps its     *)
(* cursor in globals: ext_lba_base, p_no, l_no and partition_list.         *)
(*                                                                         *)
(* ide_init runs once from init_all, before any other kernel thread       *)
(* touches a disk, so each device is one step.  partition_scan itself is  *)
(* the RECURSIVE operator ScanSector.                                      *)
(*                                                                         *)
(* The disk images are built from a small shape: the kinds of the four    *)
(* MBR entries and the number of EBRs in the chain.  Each EBR holds a     *)
(* logical partition in entry 1 and the link to the next EBR in entry 2,  *)
(* as fdisk writes them.  A sector outside the image reads as zeros.      *)
(***************************************************************************)
EXTENDS Naturals, Sequences, FiniteSets

CONSTANTS
  HdCnt,      \* the BIOS disk count at 0x475
  MaxChain,   \* the longest EBR chain of an image (bound)
  MaxPrims    \* the most primary entries an MBR of an image has (bound)

ASSUME HdCnt \in {2, 4} /\ MaxChain \in 0..10 /\ MaxPrims \in 0..4

(* DIV_ROUND_UP(hd_cnt, 2) channels, two devices each; a device k is      *)
(* channels[k \div 2].devices[k % 2].                                      *)
ChannelCnt == (HdCnt + 1) \div 2
Devices == 0..(2 * ChannelCnt - 1)
FileDisks == {k \in Devices : k % 2 = 1}

(* A partition_table_entry: fs_type, start_lba, sec_cnt. *)
Ent(t, s, c) == [type |-> t, start |-> s, cnt |-> c]
NoEnt == Ent(0, 0, 0)
ZeroTable == <<NoEnt, NoEnt, NoEnt, NoEnt>>

(* The image of a disk: its extended partition starts at ExtStart(k);     *)
(* the EBR j of the chain is at ExtStart(k) + 16 * j.  Link entries are   *)
(* relative to the extended partition, logical entries to their own EBR. *)
ExtStart(k) == 32 * (k + 1)
MbrEnt(kind, i, k) ==
  CASE kind = "prim" -> Ent(131, 4 * i, 4)
    [] kind = "ext"  -> Ent(5, ExtStart(k), 16 * 8)
    [] OTHER         -> NoEnt
EbrTable(j, n) ==
  <<Ent(131, 1, 15), IF j < n - 1 THEN Ent(5, 16 * (j + 1), 16) ELSE NoEnt,
    NoEnt, NoEnt>>
Image(kinds, n, k) ==
  [lba \in {0} \cup {ExtStart(k) + 16 * j : j \in 0..(n - 1)} |->
     IF lba = 0 THEN [i \in 1..4 |-> MbrEnt(kinds[i], i, k)]
     ELSE EbrTable((lba - ExtStart(k)) \div 16, n)]

Kinds == {ks \in [1..4 -> {"none", "prim", "ext"}] :
            /\ Cardinality({i \in 1..4 : ks[i] = "ext"}) <= 1
            /\ Cardinality({i \in 1..4 : ks[i] = "prim"}) <= MaxPrims}
HasExt(ks) == \E i \in 1..4 : ks[i] = "ext"
Images(k) ==
  UNION {{Image(ks, n, k) : n \in IF HasExt(ks) THEN 0..MaxChain ELSE {0}} :
           ks \in Kinds}

(* ide_read of one sector of an image. *)
ReadSector(img, lba) == IF lba \in DOMAIN img THEN img[lba] ELSE ZeroTable

(* A discovered partition as partition_list holds it: the disk, whether   *)
(* it is primary, the number of its name (p_no + 1 or l_no + 5), start    *)
(* LBA and sector count.                                                   *)
Part(k, prim, num, s, c) ==
  [disk |-> k, prim |-> prim, num |-> num, start |-> s, cnt |-> c]

VARIABLES
  img,    \* the image of each file disk
  dev,    \* the next device ide_init identifies
  g       \* globals: ext_lba_base, p_no, l_no, partition_list, halted

vars == <<img, dev, g>>

-----------------------------------------------------------------------------
(* Lines 322-333: the sector an extended entry leads to, and the          *)
(* ext_lba_base it leaves. *)
(* Link entries taken as absolute LBAs. *)
ExtTargetNoBase(g0, p) == p.start

ExtTarget(g0, p) == IF g0.base # 0 THEN p.start + g0.base ELSE p.start

ExtBase(g0, p) == IF g0.base # 0 THEN g0.base ELSE p.start

(* The limit tested with > instead of >=. *)
LogicalLimitLate(g0) == g0.l > 8

(* Lines 354-357: the logical slots are used up. *)
LogicalLimitReached(g0) == g0.l >= 8

(* Line 344: ASSERT(p_no < 4) after the increment. *)
PrimaryAssertFails(g0) == ~(g0.p < 4)

RECURSIVE ScanSector(_, _, _, _), ScanEntries(_, _, _, _, _, _)

(* Lines 313-319: read the boot sector at ext_lba and walk its entries. *)
ScanSector(k, im, ext, g0) == ScanEntries(k, im, ext, ReadSector(im, ext), 1, g0)

(* Lines 320-361: entry i of the table read at ext.  An extended entry    *)
(* recurses; another non-zero entry is a primary at the MBR (ext = 0) or *)
(* a logical elsewhere.  The 8th logical returns from this frame only.    *)
ScanEntries(k, im, ext, tbl, i, g0) ==
  IF i > 4 \/ g0.halted THEN g0
  ELSE LET p == tbl[i] IN
    IF p.type = 5 THEN
      ScanEntries(k, im, ext, tbl, i + 1,
                  ScanSector(k, im, ExtTarget(g0, p),
                             [g0 EXCEPT !.base = ExtBase(g0, p)]))
    ELSE IF p.type = 0 THEN ScanEntries(k, im, ext, tbl, i + 1, g0)
    ELSE IF ext = 0 THEN
      LET g1 == [g0 EXCEPT !.list = Append(@, Part(k, TRUE, g0.p + 1,
                                                   ext + p.start, p.cnt)),
                           !.p = @ + 1]
      IN  IF PrimaryAssertFails(g1) THEN [g1 EXCEPT !.halted = TRUE]
          ELSE ScanEntries(k, im, ext, tbl, i + 1, g1)
    ELSE
      LET g1 == [g0 EXCEPT !.list = Append(@, Part(k, FALSE, g0.l + 5,
                                                   ext + p.start, p.cnt)),
                           !.l = @ + 1]
      IN  IF LogicalLimitReached(g1) THEN g1
          ELSE ScanEntries(k, im, ext, tbl, i + 1, g1)

-----------------------------------------------------------------------------
(* Lines 46-47 and 385: the globals before ide_init; any file disks.      *)
Init ==
  /\ img \in [FileDisks -> UNION {Images(k) : k \in FileDisks}]
  /\ \A k \in FileDisks : img[k] \in Images(k)
  /\ dev = 0
  /\ g = [base |-> 0, p |-> 0, l |-> 0, list |-> <<>>, halted |-> FALSE]

(* Lines 409-422: identify the device, scan it if it is the second of its *)
(* channel, then p_no = l_no = 0.  ext_lba_base is not reset.             *)
IdeInitDevice ==
  /\ dev \in Devices /\ ~g.halted
  /\ LET g1 == IF dev \in FileDisks THEN ScanSector(dev, img[dev], 0, g)
               ELSE g
     IN  g' = IF g1.halted THEN g1 ELSE [g1 EXCEPT !.p = 0, !.l = 0]
  /\ dev' = dev + 1
  /\ UNCHANGED img

(* ide_init has returned, or the kernel halted in panic_spin. *)
Done == (dev \notin Devices \/ g.halted) /\ UNCHANGED vars

Next == IdeInitDevice \/ Done

Spec == Init /\ [][Next]_vars

-----------------------------------------------------------------------------
(* The reference: spec.md section 4.2, read for one disk on its own.       *)
(* Primaries are the used, non-extended MBR entries in table order, named *)
(* 1, 2, ...  Logicals are found along the chain from the MBR's extended  *)
(* entry: a logical entry is relative to its EBR, a link entry to the     *)
(* extended partition's base; they are named 5, 6, ... and at most 8 are  *)
(* kept.                                                                   *)
Used(p) == p.type # 0 /\ p.type # 5

Numbered(k, prim, first, es) ==
  [j \in 1..Len(es) |-> Part(k, prim, first + j - 1, es[j].start, es[j].cnt)]

RefPrims(k, im) ==
  Numbered(k, TRUE, 1, SelectSeq(ReadSector(im, 0), Used))

RECURSIVE RefChain(_, _, _, _)
(* The logicals reached from the boot sector at lba, entries in order.    *)
RefChain(im, base, lba, i) ==
  IF i > 4 THEN <<>>
  ELSE LET p == ReadSector(im, lba)[i]
           here == IF Used(p) THEN <<Ent(p.type, lba + p.start, p.cnt)>>
                   ELSE IF p.type = 5 THEN RefChain(im, base, base + p.start, 1)
                   ELSE <<>>
       IN  here \o RefChain(im, base, lba, i + 1)

RefLogicals(k, im) ==
  LET mbr   == ReadSector(im, 0)
      exts  == {i \in 1..4 : mbr[i].type = 5}
      chain == IF exts = {} THEN <<>>
               ELSE LET e == mbr[CHOOSE i \in exts : TRUE]
                    IN  RefChain(im, e.start, e.start, 1)
  IN  Numbered(k, FALSE, 5, SubSeq(chain, 1, IF Len(chain) < 8 THEN Len(chain)
                                                ELSE 8))

(* The partitions of disk k in partition_list, primaries or logicals. *)
Listed(k, prim) == SelectSeq(g.list, LAMBDA x : x.disk = k /\ x.prim = prim)

TypeOK ==
  /\ dev \in 0..(2 * ChannelCnt)
  /\ g.base \in Nat /\ g.p \in 0..4 /\ g.l \in 0..8
  /\ g.halted \in BOOLEAN
  /\ \A j \in 1..Len(g.list) : g.list[j].num \in 1..12

(* partition_scan, with ide_init's resets between disks: every file disk  *)
(* scanned so far has in partition_list exactly the primaries and the     *)
(* logicals the spec's chain rule gives for that disk alone, named as the *)
(* spec names them.                                                        *)
ScanMatchesReference ==
  ~g.halted =>
    \A k \in FileDisks :
      k < dev => /\ Listed(k, TRUE) = RefPrims(k, img[k])
                 /\ Listed(k, FALSE) = RefLogicals(k, img[k])

(* partition_scan line 344: a disk with up to four primary partitions is  *)
(* scanned without halting the kernel (spec: up to 4 primary slots).      *)
ScanNeverHalts == ~g.halted

=============================================================================
