------------------------------ MODULE FileCreate ------------------------------
(***************************************************************************)
(* sys_open (fs/fs.c): the path resolution of search_file through the     *)
(* root directory and its "." and ".." entries, with dir_open/dir_close   *)
(* and inode_open/inode_close (fs/dir.c, fs/inode.c), and the create path *)
(* down through file_create (fs/file.c), sync_dir_entry and search_dir_entry   *)
(* (fs/dir.c), inode_sync (fs/inode.c) and bitmap_scan/bitmap_set         *)
(* (lib/kernel/bitmap.c), for a set of kernel threads on one CPU.         *)
(*                                                                         *)
(* A step holds one access to shared state: a store or load of the        *)
(* in-memory bitmaps, root inode, file_table or fd_table, or one          *)
(* ide_read/ide_write.  The timer may switch threads between any two      *)
(* steps, since none of this code disables interrupts.  A disk transfer   *)
(* is one step: IdeChannel shows a request is served atomically under the *)
(* channel lock (it refines AbstractChannel).                              *)
(*                                                                         *)
(* Blocks are named by their data-bitmap index (LBA - data_start_lba);    *)
(* NULL is the LBA 0 that marks an unused block pointer.  Block 0 is the  *)
(* root directory's first block, inode 0 the root inode.  Entry names are *)
(* model values; "." and ".." are the dots entries of block 0.  A path is *)
(* a sequence of tokens: "/" or a whole name (the characters of a name    *)
(* are abstracted).                                                        *)
(***************************************************************************)
EXTENDS Naturals, FiniteSets, Bags, BagsExt, SequencesExt

CONSTANTS
  Threads,        \* kernel threads calling sys_open
  Names,          \* file names used in paths
  Paths,          \* pathnames passed to sys_open, as token sequences
  CreatFlags,     \* values of flags & O_CREAT the callers pass (TRUE: set)
  NULL,           \* the zero block pointer / empty file_table slot
  NumCalls,       \* sys_open calls per thread (bound)
  NumInodes,      \* bits of the inode bitmap (MAX_FILES_PER_PART, scaled)
  NumBlocks,      \* bits of the block bitmap (data blocks, scaled)
  NumSlots,       \* file_table slots above the 3 reserved (MAX_FILE_OPEN-3)
  NumFds,         \* free fd_table slots of a thread (at most 5 = 8-3)
  MallocMayFail,  \* whether sys_malloc may return NULL
  NDEBUG          \* TRUE: ASSERT compiled out (kernel/debug.h)

ASSUME NumInodes \in 1..6   \* inodes 0..5 share one sector of the table
ASSUME /\ Paths \subseteq Seq(Names \cup {".", "..", "/"}) \ {<<>>}
       /\ CreatFlags \subseteq BOOLEAN /\ CreatFlags # {}
ASSUME NumBlocks \in 1..8 /\ NumSlots \in 1..29 /\ NumFds \in 0..5

InodeNos == 0..(NumInodes - 1)
Blocks   == 0..(NumBlocks - 1)
Slots    == 3..(NumSlots + 2)

(* Block contents. A fresh disk image is zero. *)
Zero       == [k |-> "zero"]
Dots       == [k |-> "dots"]
Entry(n, i) == [k |-> "entry", name |-> n, ino |-> i]
Table(p)   == [k |-> "table", ptr |-> p]
Contents   == {Zero, Dots} \cup {Entry(n, i) : n \in Names \cup {".", ".."},
                                             i \in InodeNos}
                \cup {Table(p) : p \in Blocks}

(* An on-disk inode record: i_no, i_size (in entries), i_sectors[12]. *)
Rec(no, size, tbl) == [no |-> no, size |-> size, table |-> tbl]
ZeroRec == Rec(0, 0, NULL)

VARIABLES
  ibm, ibmDisk,     \* inode bitmap: in memory, on disk (sets of set bits)
  bbm, bbmDisk,     \* block bitmap: in memory, on disk
  blk,              \* contents of each data block on disk
  rootSize,         \* root_dir.inode->i_size, in entries
  rootTable,        \* root_dir.inode->i_sectors[12]
  itab,             \* on-disk inode table
  fileTable,        \* file_table[s].fd_inode, as an inode number or NULL
  openInodes,       \* cur_part->open_inodes, a bag of inode numbers
  fds,              \* per thread: the global slots in its fd_table
  pc, calls,        \* per thread: label, sys_open calls left
  nm, cr,           \* per thread: file name and O_CREAT of the call
  ptr,              \* search_dir_entry: all_block[12] read from the table
  ino, fd, tb, db,  \* file_create's i_no, fd_idx; the two blocks allocated
  rec, ibuf,        \* inode_sync's pure_inode and inode sector buffer
  live,             \* heap objects of the current call: "iobuf", "inode"
  res,              \* outcome of the thread's last file_create
  created,          \* names whose sync_dir_entry returned true
  mbr,              \* LBA 0 of the disk still holds the MBR
  path,             \* per thread: the pathname of the call
  idx,              \* search_file: number of the name being searched
  pdir,             \* search_record.parent_dir: "root" (&root_dir), "heap"
                    \* (a dir_open-ed struct dir), "null" (dir_open's
                    \* sys_malloc returned NULL)
  ftype             \* search_record.file_type: "unknown", "regular", "dir"

svars == <<path, idx, pdir, ftype>>
lvars == <<pc, calls, nm, cr, ptr, ino, fd, tb, db, rec, ibuf, live, res,
           svars>>
gvars == <<ibm, ibmDisk, bbm, bbmDisk, blk, rootSize, rootTable, itab,
           fileTable, openInodes, fds, created, mbr>>
vars  == <<lvars, gvars>>

(* Thread t is at label l and may run: kernel/debug.h panic_spin stops   *)
(* every thread once one has halted the kernel.                            *)
At(t, l) == pc[t] = l /\ \A u \in DOMAIN pc : pc[u] # "panic"

(* Set pc of t and leave every other variable alone but those listed. *)
Goto(t, l) == pc' = [pc EXCEPT ![t] = l]

(* The data bitmap's first clear bit, as bitmap_scan(btmp, 1) finds it.   *)
FreeBits(bm, n) == (0..(n - 1)) \ bm
FirstFree(bm, n) == Min(FreeBits(bm, n))

(* all_block[12] as search_dir_entry reads it from the indirect table:    *)
(* its first pointer.  Bytes of any other content do not point at an      *)
(* entry block of a name.                                                  *)
TablePtr(c) == IF c.k = "table" THEN c.ptr ELSE NULL

-----------------------------------------------------------------------------
(* fs/fs.c path_paser, lines 263-282: skip the leading '/'s, take the     *)
(* name up to the next '/'; the rest is NULL (<<>>) when the string ends  *)
(* right after the name.                                                   *)
RECURSIVE SkipSlashes(_)
SkipSlashes(s) == IF s # <<>> /\ Head(s) = "/" THEN SkipSlashes(Tail(s)) ELSE s

PathPaser(s) ==
  LET r == SkipSlashes(s)
  IN  IF r = <<>> THEN [name |-> "", sub |-> <<>>]
      ELSE [name |-> Head(r), sub |-> Tail(r)]

(* The names path_depth_cnt (lines 285-307) and search_file's loop visit: *)
(* parse, and parse the rest while the name is not empty and rest is not  *)
(* NULL.  path_depth_cnt is their number.                                  *)
RECURSIVE PathNames(_)
PathNames(s) ==
  LET r == PathPaser(s)
  IN  IF r.name = "" THEN <<>>
      ELSE <<r.name>> \o (IF r.sub = <<>> THEN <<>> ELSE PathNames(r.sub))

PathDepthCnt(s) == Len(PathNames(s))

(* search_record.searched_path after k names: "/" and the name strcat-ed *)
(* for each (lines 339-340).                                               *)
SearchedPath(p, k) == FlattenSeq([i \in 1..k |-> <<"/", PathNames(p)[i]>>])

DotNames == {".", ".."}

-----------------------------------------------------------------------------
(* dir_close (dir.c 102-114) of search_record.parent_dir: nothing for    *)
(* &root_dir; else inode_close (inode.c 136-150: the root inode's count   *)
(* drops, never to 0 while root_dir holds it) and sys_free(dir), whose    *)
(* ASSERT(ptr != NULL) halts on the NULL dir.                              *)
DirCloseHalts(d) == d = "null" /\ ~NDEBUG
DirClosed(d) == IF d = "root" THEN openInodes ELSE BagRemove(openInodes, 0)

(* dir_open(cur_part, 0) (dir.c 20-26): sys_malloc, then inode_open       *)
(* (inode.c 83-97) finds the root inode in open_inodes and counts one     *)
(* more open.  A NULL from sys_malloc is stored through: "fault" if page  *)
(* 0 is not mapped (the page fault handler spins), else "null".           *)
DirOpenResults == IF MallocMayFail THEN {"heap", "null", "fault"} ELSE {"heap"}

(* A reopen that leaves the previous dir open. *)
DirReopenNoClose(t, next) ==
  \E d \in DirOpenResults :
    IF d = "fault" THEN Goto(t, "panic") /\ UNCHANGED <<pdir, openInodes>>
    ELSE /\ pdir' = [pdir EXCEPT ![t] = d]
         /\ openInodes' = BagAdd(openInodes, 0)
         /\ Goto(t, next)

(* search_file lines 351-357 and 370-375: dir_close(parent_dir), then     *)
(* parent_dir = dir_open of the directory entry's inode, which is always  *)
(* the root (no directory but "/" exists).                                 *)
DirReopen(t, next) ==
  \/ /\ DirCloseHalts(pdir[t])
     /\ Goto(t, "panic")
     /\ UNCHANGED <<pdir, openInodes>>
  \/ /\ ~DirCloseHalts(pdir[t])
     /\ \E d \in DirOpenResults :
          IF d = "fault" THEN Goto(t, "panic") /\ UNCHANGED <<pdir, openInodes>>
          ELSE /\ pdir' = [pdir EXCEPT ![t] = d]
               /\ openInodes' = BagAdd(DirClosed(pdir[t]), 0)
               /\ Goto(t, next)

(* sys_open's dir_close(search_record.parent_dir) before it returns. *)
SysOpenClose(t) ==
  IF DirCloseHalts(pdir[t]) THEN Goto(t, "panic") /\ UNCHANGED <<pdir, openInodes>>
  ELSE /\ openInodes' = DirClosed(pdir[t])
       /\ pdir' = [pdir EXCEPT ![t] = "root"]
       /\ Goto(t, "idle")

(* fs/fs.c sys_open, lines 379-393, with search_file's test for "/", "/." *)
(* and "/.." (lines 313-319): a path ending in '/' returns -1 at once;   *)
(* "/." and "/.." are the root directory, which sys_open refuses (lines   *)
(* 396-401, dir_close(&root_dir) does nothing).                            *)
SysOpen(t) ==
  /\ At(t, "idle") /\ calls[t] > 0
  /\ ino' = [ino EXCEPT ![t] = NULL]
  /\ res' = [res EXCEPT ![t] = "none"]
  /\ \E p \in Paths, c \in CreatFlags :
       /\ path' = [path EXCEPT ![t] = p]
       /\ nm' = [nm EXCEPT ![t] = Last(p)]
       /\ cr' = [cr EXCEPT ![t] = c]
       /\ IF Last(p) = "/" \/ p \in {<<"/", ".">>, <<"/", "..">>}
            THEN Goto(t, "idle") ELSE Goto(t, "s_tab")
  /\ idx' = [idx EXCEPT ![t] = 1]
  /\ pdir' = [pdir EXCEPT ![t] = "root"]
  /\ ftype' = [ftype EXCEPT ![t] = "unknown"]
  /\ calls' = [calls EXCEPT ![t] = @ - 1]
  /\ UNCHANGED <<ptr, fd, tb, db, rec, ibuf, live, gvars>>

(* search_dir_entry, lines 36-58: sys_malloc of all_block (NULL: return   *)
(* false, and search_file returns -1 with the type unknown), then the     *)
(* indirect table read if i_sectors[12] is not 0.                          *)
SearchTable(t) ==
  /\ At(t, "s_tab")
  /\ \/ /\ MallocMayFail
        /\ Goto(t, "decide")
        /\ UNCHANGED ptr
     \/ /\ ptr' = [ptr EXCEPT ![t] = IF rootTable = NULL THEN NULL
                                      ELSE TablePtr(blk[rootTable])]
        /\ Goto(t, "s_blk")
  /\ UNCHANGED <<calls, nm, cr, ino, fd, tb, db, rec, ibuf, live, res, svars,
                 gvars>>

(* search_dir_entry, lines 60-98: read each non-zero block in order and   *)
(* compare names.  Block 0 holds "." and ".." (directories, inode 0);     *)
(* all_block[12] is the one pointer of the table.  search_file, lines     *)
(* 342-368: a directory is opened in place of the parent, a regular file  *)
(* ends the search found, no entry ends it with -1.                        *)
SearchBlocks(t) ==
  /\ At(t, "s_blk")
  /\ LET name == PathNames(path[t])[idx[t]]
         c    == IF ptr[t] = NULL THEN Zero ELSE blk[ptr[t]]
     IN  CASE name \in DotNames ->
                Goto(t, "s_dir") /\ UNCHANGED ftype
           [] c.k = "entry" /\ c.name = name ->
                Goto(t, "decide") /\ ftype' = [ftype EXCEPT ![t] = "regular"]
           [] OTHER -> Goto(t, "decide") /\ UNCHANGED ftype
  /\ UNCHANGED <<calls, nm, cr, ptr, ino, fd, tb, db, rec, ibuf, live, res,
                 path, idx, pdir, gvars>>

(* search_file lines 346-357: the directory's dir is opened; the next     *)
(* name is searched in it, or, with none left, lines 370-375 run.          *)
SearchDirEntry(t) ==
  /\ At(t, "s_dir")
  /\ IF idx[t] < PathDepthCnt(path[t])
       THEN DirReopen(t, "s_tab") /\ idx' = [idx EXCEPT ![t] = @ + 1]
       ELSE DirReopen(t, "s_last") /\ UNCHANGED idx
  /\ UNCHANGED <<calls, nm, cr, ptr, ino, fd, tb, db, rec, ibuf, live, res,
                 path, ftype, ibm, ibmDisk, bbm, bbmDisk, blk, rootSize,
                 rootTable, itab, fileTable, fds, created, mbr>>

(* search_file lines 370-375: the last name was a directory: dir_close,   *)
(* dir_open of the parent's inode (the root), type FT_DIRECTORY.           *)
SearchLastDir(t) ==
  /\ At(t, "s_last")
  /\ DirReopen(t, "decide")
  /\ ftype' = [ftype EXCEPT ![t] = "dir"]
  /\ UNCHANGED <<calls, nm, cr, ptr, ino, fd, tb, db, rec, ibuf, live, res,
                 path, idx, ibm, ibmDisk, bbm, bbmDisk, blk, rootSize,
                 rootTable, itab, fileTable, fds, created, mbr>>

(* sys_open lines 394-438 after search_file: a directory, a path not     *)
(* searched to its end, a missing file without O_CREAT and an existing    *)
(* one with O_CREAT each dir_close and return -1; a missing file with     *)
(* O_CREAT goes to file_create; an existing file without O_CREAT falls    *)
(* through the switch and returns -1 with the parent still open.          *)
SysOpenDecide(t) ==
  /\ At(t, "decide")
  /\ LET found == ftype[t] # "unknown"
         deep  == PathDepthCnt(SearchedPath(path[t], idx[t]))
     IN  CASE ftype[t] = "dir" \/ deep # PathDepthCnt(path[t])
                \/ found = cr[t] -> SysOpenClose(t)
           [] ~found -> Goto(t, "buf") /\ UNCHANGED <<pdir, openInodes>>
           [] OTHER -> Goto(t, "idle") /\ UNCHANGED <<pdir, openInodes>>
  /\ UNCHANGED <<calls, nm, cr, ptr, ino, fd, tb, db, rec, ibuf, live, res,
                 path, idx, ftype, ibm, ibmDisk, bbm, bbmDisk, blk, rootSize,
                 rootTable, itab, fileTable, fds, created, mbr>>

(* sys_open line 435: dir_close(search_record.parent_dir) after           *)
(* file_create returns. *)
SysOpenReturn(t) ==
  /\ At(t, "close")
  /\ SysOpenClose(t)
  /\ UNCHANGED <<calls, nm, cr, ptr, ino, fd, tb, db, rec, ibuf, live, res,
                 path, idx, ftype, ibm, ibmDisk, bbm, bbmDisk, blk, rootSize,
                 rootTable, itab, fileTable, fds, created, mbr>>

-----------------------------------------------------------------------------
(* fs/file.c file_create.  Unchanged-sets for the steps below.            *)
Keep(t) == UNCHANGED <<calls, nm, cr, ptr, svars>>

(* Line 113: io_buf = sys_malloc(1024); NULL returns -1. *)
AllocIoBuf(t) ==
  /\ At(t, "buf")
  /\ \/ /\ live' = [live EXCEPT ![t] = {"iobuf"}]
        /\ Goto(t, "iscan")
        /\ UNCHANGED res
     \/ /\ MallocMayFail
        /\ res' = [res EXCEPT ![t] = "fail"]
        /\ Goto(t, "close")
        /\ UNCHANGED live
  /\ Keep(t) /\ UNCHANGED <<ino, fd, tb, db, rec, ibuf, gvars>>

(* Lines 122-127, inode_bitmap_alloc's bitmap_scan.  With the inode       *)
(* bitmap full, bitmap.c:35 ASSERT halts the kernel; without ASSERT the   *)
(* scan gives -1 and file_create returns -1 still holding io_buf.         *)
InodeBitmapScan(t) ==
  /\ At(t, "iscan")
  /\ IF FreeBits(ibm, NumInodes) = {}
       THEN /\ IF NDEBUG THEN Goto(t, "close") ELSE Goto(t, "panic")
            /\ res' = [res EXCEPT ![t] = "fail"]
            /\ UNCHANGED ino
       ELSE /\ ino' = [ino EXCEPT ![t] = FirstFree(ibm, NumInodes)]
            /\ Goto(t, "iset")
            /\ UNCHANGED res
  /\ Keep(t) /\ UNCHANGED <<fd, tb, db, rec, ibuf, live, gvars>>

(* inode_bitmap_alloc line 69: bitmap_set(&inode_bitmap, bit_idx, 1). *)
InodeBitmapSet(t) ==
  /\ At(t, "iset")
  /\ ibm' = ibm \cup {ino[t]}
  /\ Goto(t, "imalloc")
  /\ Keep(t) /\ UNCHANGED <<ino, fd, tb, db, rec, ibuf, live, res, ibmDisk,
                            bbm, bbmDisk, blk, rootSize, rootTable, itab,
                            fileTable, openInodes, fds, created, mbr>>

(* Lines 128-135: sys_malloc of the inode (NULL: rollback_step 1). *)
InodeMalloc(t) ==
  /\ At(t, "imalloc")
  /\ \/ /\ live' = [live EXCEPT ![t] = @ \cup {"inode"}]
        /\ Goto(t, "slot")
     \/ /\ MallocMayFail
        /\ Goto(t, "rb1")
        /\ UNCHANGED live
  /\ Keep(t) /\ UNCHANGED <<ino, fd, tb, db, rec, ibuf, res, gvars>>

(* Lines 138-144, get_free_slot_in_global: the lowest slot from 3 with a *)
(* NULL fd_inode; none gives rollback_step 2.                             *)
GetFreeSlot(t) ==
  /\ At(t, "slot")
  /\ LET free == {s \in Slots : fileTable[s] = NULL}
     IN  IF free = {} THEN Goto(t, "rb2") /\ UNCHANGED fd
         ELSE fd' = [fd EXCEPT ![t] = Min(free)] /\ Goto(t, "slotset")
  /\ Keep(t) /\ UNCHANGED <<ino, tb, db, rec, ibuf, live, res, gvars>>

(* Lines 145-148: file_table[fd_idx] takes the new inode. *)
FileTableSet(t) ==
  /\ At(t, "slotset")
  /\ fileTable' = [fileTable EXCEPT ![fd[t]] = ino[t]]
  /\ Goto(t, "tscan")
  /\ Keep(t) /\ UNCHANGED <<ino, fd, tb, db, rec, ibuf, live, res, ibm,
                            ibmDisk, bbm, bbmDisk, blk, rootSize, rootTable,
                            itab, openInodes, fds, created, mbr>>

-----------------------------------------------------------------------------
(* fs/dir.c sync_dir_entry.  The copy loop (140-144) leaves block_idx at *)
(* 12, so the search loop starts at slot 12 of the zeroed all_block:      *)
(* all_block[12] = 0 and the branch at 174 runs on every insert.          *)

(* Line 156 / 178: block_bitmap_alloc's bitmap_scan.  Full: ASSERT halts  *)
(* (bitmap.c:35); without it the first scan returns false (line 160) and  *)
(* the second releases the table block (181-185).                         *)
BlockScanTable(t) ==
  /\ At(t, "tscan")
  /\ IF FreeBits(bbm, NumBlocks) = {}
       THEN IF NDEBUG THEN Goto(t, "rb3") ELSE Goto(t, "panic")
       ELSE Goto(t, "tset")
  /\ tb' = [tb EXCEPT ![t] = IF FreeBits(bbm, NumBlocks) = {} THEN @
                             ELSE FirstFree(bbm, NumBlocks)]
  /\ Keep(t) /\ UNCHANGED <<ino, fd, db, rec, ibuf, live, res, gvars>>

(* A scan that runs one bit past the end of the bitmap. *)
BlockScanDataPastEnd(t) ==
  /\ At(t, "dscan")
  /\ Goto(t, "dset")
  /\ db' = [db EXCEPT ![t] = FirstFree(bbm, NumBlocks + 1)]
  /\ Keep(t) /\ UNCHANGED <<ino, fd, tb, rec, ibuf, live, res, gvars>>

BlockScanData(t) ==
  /\ At(t, "dscan")
  /\ IF FreeBits(bbm, NumBlocks) = {}
       THEN IF NDEBUG THEN Goto(t, "dundo") ELSE Goto(t, "panic")
       ELSE Goto(t, "dset")
  /\ db' = [db EXCEPT ![t] = IF FreeBits(bbm, NumBlocks) = {} THEN @
                             ELSE FirstFree(bbm, NumBlocks)]
  /\ Keep(t) /\ UNCHANGED <<ino, fd, tb, rec, ibuf, live, res, gvars>>

(* block_bitmap_alloc line 81: bitmap_set(&block_bitmap, bit_idx, 1). *)
BlockBitmapSet(t, b, next) ==
  /\ bbm' = bbm \cup {b}
  /\ Goto(t, next)
  /\ Keep(t) /\ UNCHANGED <<ino, fd, tb, db, rec, ibuf, live, res, ibm,
                            ibmDisk, bbmDisk, blk, rootSize, rootTable, itab,
                            fileTable, openInodes, fds, created, mbr>>

(* A bitmap_sync that is skipped. *)
BitmapSyncBlockSkipped(t, next) ==
  /\ Goto(t, next)
  /\ Keep(t) /\ UNCHANGED <<ino, fd, tb, db, rec, ibuf, live, res, gvars>>

(* file.c bitmap_sync(BLOCK_BITMAP): ide_write of the bitmap sector, all *)
(* of the scaled block bitmap, from memory as it is now.                  *)
BitmapSyncBlock(t, next) ==
  /\ bbmDisk' = bbm
  /\ Goto(t, next)
  /\ Keep(t) /\ UNCHANGED <<ino, fd, tb, db, rec, ibuf, live, res, ibm,
                            ibmDisk, bbm, blk, rootSize, rootTable, itab,
                            fileTable, openInodes, fds, created, mbr>>

(* Line 176: dir_inode->i_sectors[12] = block_lba. *)
LinkTable(t) ==
  /\ At(t, "tlink")
  /\ rootTable' = tb[t]
  /\ Goto(t, "dscan")
  /\ Keep(t) /\ UNCHANGED <<ino, fd, tb, db, rec, ibuf, live, res, ibm,
                            ibmDisk, bbm, bbmDisk, blk, rootSize, itab,
                            fileTable, openInodes, fds, created, mbr>>

(* Lines 181-183, second allocation failed: clear the bit of the block    *)
(* i_sectors[12] now names, in memory only.  If i_sectors[12] is 0 by now *)
(* the index is 0 - data_start_lba: ASSERT halts, or the store lands      *)
(* outside the bitmap.                                                     *)
UndoTable(t) ==
  /\ At(t, "dundo")
  /\ IF rootTable = NULL
       THEN IF NDEBUG THEN Goto(t, "dunlink") /\ UNCHANGED bbm
            ELSE Goto(t, "panic") /\ UNCHANGED bbm
       ELSE Goto(t, "dunlink") /\ bbm' = bbm \ {rootTable}
  /\ Keep(t) /\ UNCHANGED <<ino, fd, tb, db, rec, ibuf, live, res, ibm,
                            ibmDisk, bbmDisk, blk, rootSize, rootTable, itab,
                            fileTable, openInodes, fds, created, mbr>>

(* Lines 183-185: i_sectors[12] = 0; return false. *)
UnlinkTable(t) ==
  /\ At(t, "dunlink")
  /\ rootTable' = NULL
  /\ Goto(t, "rb3")
  /\ Keep(t) /\ UNCHANGED <<ino, fd, tb, db, rec, ibuf, live, res, ibm,
                            ibmDisk, bbm, bbmDisk, blk, rootSize, itab,
                            fileTable, openInodes, fds, created, mbr>>

(* Lines 192-194: ide_write of all_block[12..139] = [db, 0, ...] to the  *)
(* sector i_sectors[12] names now; 0 there is LBA 0, the MBR.            *)
WriteTable(t) ==
  /\ At(t, "twrite")
  /\ IF rootTable = NULL
       THEN mbr' = FALSE /\ UNCHANGED blk
       ELSE blk' = [blk EXCEPT ![rootTable] = Table(db[t])] /\ UNCHANGED mbr
  /\ Goto(t, "ewrite")
  /\ Keep(t) /\ UNCHANGED <<ino, fd, tb, db, rec, ibuf, live, res, ibm,
                            ibmDisk, bbm, bbmDisk, rootSize, rootTable, itab,
                            fileTable, openInodes, fds, created>>

(* Lines 204-208: the new entry alone in the zeroed io_buf, written to    *)
(* the new block. *)
WriteEntry(t) ==
  /\ At(t, "ewrite")
  /\ blk' = [blk EXCEPT ![db[t]] = Entry(nm[t], ino[t])]
  /\ Goto(t, "grow")
  /\ Keep(t) /\ UNCHANGED <<ino, fd, tb, db, rec, ibuf, live, res, ibm,
                            ibmDisk, bbm, bbmDisk, rootSize, rootTable, itab,
                            fileTable, openInodes, fds, created, mbr>>

(* Lines 209-210: i_size += dir_entry_size; return true. *)
GrowDir(t) ==
  /\ At(t, "grow")
  /\ rootSize' = rootSize + 1
  /\ created' = created \cup {nm[t]}
  /\ Goto(t, "prd")
  /\ Keep(t) /\ UNCHANGED <<ino, fd, tb, db, rec, ibuf, live, res, ibm,
                            ibmDisk, bbm, bbmDisk, blk, rootTable, itab,
                            fileTable, openInodes, fds, mbr>>

-----------------------------------------------------------------------------
(* fs/inode.c inode_sync(part, inode, io_buf): pure_inode copied from the *)
(* in-memory inode (57), the sector read (77), the record replaced (78)   *)
(* and the sector written back (79).  The root's in-memory inode is       *)
(* shared; the new file's inode is still private to its creator.          *)
InodeSyncRead(t, r, next) ==
  /\ rec' = [rec EXCEPT ![t] = r]
  /\ ibuf' = [ibuf EXCEPT ![t] = itab]
  /\ Goto(t, next)
  /\ Keep(t) /\ UNCHANGED <<ino, fd, tb, db, live, res, gvars>>

InodeSyncWrite(t, next) ==
  /\ itab' = [ibuf[t] EXCEPT ![rec[t].no] = rec[t]]
  /\ Goto(t, next)
  /\ Keep(t) /\ UNCHANGED <<ino, fd, tb, db, rec, ibuf, live, res, ibm,
                            ibmDisk, bbm, bbmDisk, blk, rootSize, rootTable,
                            fileTable, openInodes, fds, created, mbr>>

(* file.c lines 166 and 169: inode_sync of the parent, then of the file  *)
(* (inode_init: i_size 0, no blocks).                                      *)
SyncParentRead(t) == At(t, "prd") /\ InodeSyncRead(t, Rec(0, rootSize, rootTable), "pwr")
SyncParentWrite(t) == At(t, "pwr") /\ InodeSyncWrite(t, "frd")
SyncFileRead(t) == At(t, "frd") /\ InodeSyncRead(t, Rec(ino[t], 0, NULL), "fwr")
SyncFileWrite(t) == At(t, "fwr") /\ InodeSyncWrite(t, "isync")

(* Line 171: bitmap_sync(cur_part, i_no, INODE_BITMAP). *)
BitmapSyncInode(t) ==
  /\ At(t, "isync")
  /\ ibmDisk' = ibm
  /\ Goto(t, "push")
  /\ Keep(t) /\ UNCHANGED <<ino, fd, tb, db, rec, ibuf, live, res, ibm,
                            bbm, bbmDisk, blk, rootSize, rootTable, itab,
                            fileTable, openInodes, fds, created, mbr>>

(* Lines 173-176: list_push onto open_inodes with i_open_cnts 1, then    *)
(* sys_free(io_buf); the inode now belongs to the cache.                  *)
OpenInodesPush(t) ==
  /\ At(t, "push")
  /\ openInodes' = openInodes (+) SetToBag({ino[t]})
  /\ live' = [live EXCEPT ![t] = {}]
  /\ Goto(t, "install")
  /\ Keep(t) /\ UNCHANGED <<ino, fd, tb, db, rec, ibuf, res, ibm, ibmDisk,
                            bbm, bbmDisk, blk, rootSize, rootTable, itab,
                            fileTable, fds, created, mbr>>

(* Line 177, pcb_fd_install: the first -1 slot of fd_table from 3; none  *)
(* left returns -1, and nothing is undone. *)
PcbFdInstall(t) ==
  /\ At(t, "install")
  /\ IF Cardinality(fds[t]) < NumFds
       THEN fds' = [fds EXCEPT ![t] = @ \cup {fd[t]}]
            /\ res' = [res EXCEPT ![t] = "ok"]
       ELSE UNCHANGED fds /\ res' = [res EXCEPT ![t] = "fail"]
  /\ Goto(t, "close")
  /\ Keep(t) /\ UNCHANGED <<ino, fd, tb, db, rec, ibuf, live, ibm, ibmDisk,
                            bbm, bbmDisk, blk, rootSize, rootTable, itab,
                            fileTable, openInodes, created, mbr>>

(* Rollback, lines 180-192: case 3 clears the file_table slot, case 2    *)
(* frees the inode, case 1 clears the inode bit in memory; then io_buf   *)
(* is freed and -1 returned. *)
Rollback3(t) ==
  /\ At(t, "rb3")
  /\ fileTable' = [fileTable EXCEPT ![fd[t]] = NULL]
  /\ Goto(t, "rb2")
  /\ Keep(t) /\ UNCHANGED <<ino, fd, tb, db, rec, ibuf, live, res, ibm,
                            ibmDisk, bbm, bbmDisk, blk, rootSize, rootTable,
                            itab, openInodes, fds, created, mbr>>

(* Case 2 without its sys_free(new_file_inode). *)
Rollback2KeepInode(t) ==
  /\ At(t, "rb2")
  /\ Goto(t, "rb1")
  /\ Keep(t) /\ UNCHANGED <<ino, fd, tb, db, rec, ibuf, live, res, gvars>>

Rollback2(t) ==
  /\ At(t, "rb2")
  /\ live' = [live EXCEPT ![t] = @ \ {"inode"}]
  /\ Goto(t, "rb1")
  /\ Keep(t) /\ UNCHANGED <<ino, fd, tb, db, rec, ibuf, res, gvars>>

(* Case 1 without its bitmap_set(..., 0). *)
Rollback1KeepBit(t) ==
  /\ At(t, "rb1")
  /\ live' = [live EXCEPT ![t] = @ \ {"iobuf"}]
  /\ res' = [res EXCEPT ![t] = "fail"]
  /\ Goto(t, "close")
  /\ Keep(t) /\ UNCHANGED <<ino, fd, tb, db, rec, ibuf, gvars>>

Rollback1(t) ==
  /\ At(t, "rb1")
  /\ ibm' = ibm \ {ino[t]}
  /\ live' = [live EXCEPT ![t] = @ \ {"iobuf"}]
  /\ res' = [res EXCEPT ![t] = "fail"]
  /\ Goto(t, "close")
  /\ Keep(t) /\ UNCHANGED <<ino, fd, tb, db, rec, ibuf, ibmDisk, bbm,
                            bbmDisk, blk, rootSize, rootTable, itab,
                            fileTable, openInodes, fds, created, mbr>>

TableBitmapSet(t)  == At(t, "tset")  /\ BlockBitmapSet(t, tb[t], "tsync")
TableBitmapSync(t) == At(t, "tsync") /\ BitmapSyncBlock(t, "tlink")
DataBitmapSet(t)   == At(t, "dset")  /\ BlockBitmapSet(t, db[t], "dsync")
DataBitmapSync(t)  == At(t, "dsync") /\ BitmapSyncBlock(t, "twrite")

-----------------------------------------------------------------------------
(* A freshly formatted partition (fs.c partition_format) as mounted:      *)
(* inode 0 and block 0 in use, the root holding "." and "..", the root    *)
(* inode opened by open_root_dir, file_table and fd_tables empty.         *)
Init ==
  /\ ibm = {0} /\ ibmDisk = {0}
  /\ bbm = {0} /\ bbmDisk = {0}
  /\ blk = [b \in Blocks |-> IF b = 0 THEN Dots ELSE Zero]
  /\ rootSize = 2 /\ rootTable = NULL
  /\ itab = [i \in InodeNos |-> IF i = 0 THEN Rec(0, 2, NULL) ELSE ZeroRec]
  /\ fileTable = [s \in Slots |-> NULL]
  /\ openInodes = SetToBag({0})
  /\ fds = [t \in Threads |-> {}]
  /\ pc = [t \in Threads |-> "idle"]
  /\ calls = [t \in Threads |-> NumCalls]
  /\ nm = [t \in Threads |-> CHOOSE n \in Names : TRUE]
  /\ cr = [t \in Threads |-> FALSE]
  /\ ptr = [t \in Threads |-> NULL]
  /\ ino = [t \in Threads |-> NULL]
  /\ fd = [t \in Threads |-> NULL]
  /\ tb = [t \in Threads |-> NULL]
  /\ db = [t \in Threads |-> NULL]
  /\ rec = [t \in Threads |-> ZeroRec]
  /\ ibuf = [t \in Threads |-> itab]
  /\ live = [t \in Threads |-> {}]
  /\ res = [t \in Threads |-> "none"]
  /\ created = {}
  /\ mbr = TRUE
  /\ path = [t \in Threads |-> CHOOSE p \in Paths : TRUE]
  /\ idx = [t \in Threads |-> 1]
  /\ pdir = [t \in Threads |-> "root"]
  /\ ftype = [t \in Threads |-> "unknown"]

ThreadStep(t) ==
  \/ SysOpen(t) \/ SearchTable(t) \/ SearchBlocks(t)
  \/ SearchDirEntry(t) \/ SearchLastDir(t) \/ SysOpenDecide(t)
  \/ SysOpenReturn(t)
  \/ AllocIoBuf(t) \/ InodeBitmapScan(t) \/ InodeBitmapSet(t)
  \/ InodeMalloc(t) \/ GetFreeSlot(t) \/ FileTableSet(t)
  \/ BlockScanTable(t) \/ TableBitmapSet(t) \/ TableBitmapSync(t)
  \/ LinkTable(t) \/ BlockScanData(t) \/ DataBitmapSet(t)
  \/ DataBitmapSync(t) \/ UndoTable(t) \/ UnlinkTable(t)
  \/ WriteTable(t) \/ WriteEntry(t) \/ GrowDir(t)
  \/ SyncParentRead(t) \/ SyncParentWrite(t)
  \/ SyncFileRead(t) \/ SyncFileWrite(t)
  \/ BitmapSyncInode(t) \/ OpenInodesPush(t) \/ PcbFdInstall(t)
  \/ Rollback3(t) \/ Rollback2(t) \/ Rollback1(t)

(* kernel/debug.h panic_spin: interrupts off, the CPU spins for good. *)
Halted == \E t \in Threads : pc[t] = "panic"

(* Every thread made its calls, or the kernel halted. *)
Terminating ==
  /\ Halted \/ \A t \in Threads : pc[t] = "idle" /\ calls[t] = 0
  /\ UNCHANGED vars

Next == (\E t \in Threads : ThreadStep(t)) \/ Terminating

Spec == Init /\ [][Next]_vars

-----------------------------------------------------------------------------
Labels == {"idle", "s_tab", "s_blk", "s_dir", "s_last", "decide", "close",
           "buf", "iscan", "iset", "imalloc",
           "slot", "slotset", "tscan", "tset", "tsync", "tlink", "dscan",
           "dset", "dsync", "dundo", "dunlink", "twrite", "ewrite", "grow",
           "prd", "pwr", "frd", "fwr", "isync", "push", "install",
           "rb3", "rb2", "rb1", "panic"}
Recs == [no : InodeNos, size : Nat, table : Blocks \cup {NULL}]

TypeOK ==
  /\ ibm \subseteq InodeNos /\ ibmDisk \subseteq InodeNos
  /\ bbm \subseteq Blocks /\ bbmDisk \subseteq Blocks
  /\ blk \in [Blocks -> Contents]
  /\ rootSize \in Nat /\ rootTable \in Blocks \cup {NULL}
  /\ itab \in [InodeNos -> Recs]
  /\ fileTable \in [Slots -> InodeNos \cup {NULL}]
  /\ IsABag(openInodes) /\ BagToSet(openInodes) \subseteq InodeNos
  /\ fds \in [Threads -> SUBSET Slots]
  /\ pc \in [Threads -> Labels] /\ calls \in [Threads -> 0..NumCalls]
  /\ cr \in [Threads -> BOOLEAN]
  /\ ptr \in [Threads -> Blocks \cup {NULL}]
  /\ ino \in [Threads -> InodeNos \cup {NULL}]
  /\ fd \in [Threads -> Slots \cup {NULL}]
  /\ tb \in [Threads -> Blocks \cup {NULL}]
  /\ db \in [Threads -> Blocks \cup {NULL}]
  /\ rec \in [Threads -> Recs] /\ ibuf \in [Threads -> [InodeNos -> Recs]]
  /\ live \in [Threads -> SUBSET {"iobuf", "inode"}]
  /\ res \in [Threads -> {"none", "ok", "fail"}]
  /\ created \subseteq Names \cup DotNames /\ mbr \in BOOLEAN
  /\ path \in [Threads -> Paths] /\ nm \in [Threads -> Names \cup DotNames \cup {"/"}]
  /\ idx \in [Threads -> Nat \ {0}]
  /\ pdir \in [Threads -> {"root", "heap", "null"}]
  /\ ftype \in [Threads -> {"unknown", "regular", "dir"}]

(* No thread is inside sys_open. *)
Quiescent == \A t \in Threads : pc[t] = "idle"

(* What search_dir_entry finds of name n through the in-memory root inode. *)
Findable(n) ==
  /\ rootTable # NULL
  /\ LET p == TablePtr(blk[rootTable])
     IN  p # NULL /\ blk[p].k = "entry" /\ blk[p].name = n

(* The tree as a reboot would find it: the on-disk root record, its       *)
(* indirect table, the entry block it points to and the entry.            *)
DiskTable == itab[0].table
DiskEntryBlock == IF DiskTable = NULL THEN NULL ELSE TablePtr(blk[DiskTable])
DiskEntry == IF DiskEntryBlock = NULL THEN Zero ELSE blk[DiskEntryBlock]

(* file_create, bitmap_sync: once every sys_open has returned, the inode  *)
(* bitmap on disk equals the one in memory (an allocated inode was synced,*)
(* a rolled-back one was never written).                                   *)
InodeBitmapSynced == Quiescent => ibmDisk = ibm

(* sync_dir_entry, inode_sync and bitmap_sync together: once every        *)
(* sys_open has returned, every block reachable from the on-disk root     *)
(* record is allocated in the on-disk block bitmap, the inode its entry   *)
(* names is allocated on disk and its record was written, and LBA 0 still *)
(* holds the MBR.  A reboot finds a consistent tree.                       *)
DiskTreeAllocated ==
  Quiescent =>
    /\ ({0, DiskTable, DiskEntryBlock} \ {NULL}) \subseteq bbmDisk
    /\ DiskEntry.k = "entry" =>
         DiskEntry.ino \in ibmDisk /\ itab[DiskEntry.ino].no = DiskEntry.ino
    /\ mbr

(* sys_open / sync_dir_entry: every file whose directory entry was        *)
(* installed is found again by search_dir_entry once the calls return.    *)
EntriesFindable == Quiescent => \A n \in created : Findable(n)

(* file_create's rollback (lines 180-192) and pcb_fd_install: a create    *)
(* that returned -1 holds no heap object, and its inode is neither        *)
(* allocated nor in file_table.                                            *)
FailedCreateRollsBack ==
  \A t \in Threads :
    pc[t] = "idle" /\ res[t] = "fail" =>
      /\ live[t] = {}
      /\ ino[t] # NULL => ino[t] \notin ibm
                          /\ \A s \in Slots : fileTable[s] # ino[t]

(* search_file, sys_open and dir_close together: once every sys_open has *)
(* returned, each dir_open of the root that path resolution made has been *)
(* matched by a dir_close, so the root inode's open count is back to the  *)
(* one open of open_root_dir.                                              *)
RootOpenedOnce == Quiescent => CopiesIn(0, openInodes) = 1

(* inode_bitmap_alloc: between bitmap_set and the end of file_create, no *)
(* two threads hold the same inode number; get_free_slot_in_global: from  *)
(* the slot's choice at line 138 to its fill at 146 and on to the end of  *)
(* file_create, no two threads hold the same file_table slot.             *)
InodeHeld == {"imalloc", "slot", "slotset", "tscan", "tset", "tsync",
              "tlink", "dscan", "dset", "dsync", "dundo", "dunlink",
              "twrite", "ewrite", "grow", "prd", "pwr", "frd", "fwr",
              "isync", "push", "install", "rb3", "rb2", "rb1"}
SlotHeld == InodeHeld \ {"imalloc", "slot", "rb2", "rb1"}
NoHandedOutTwice ==
  \A t, u \in Threads : t # u =>
    /\ pc[t] \in InodeHeld /\ pc[u] \in InodeHeld => ino[t] # ino[u]
    /\ pc[t] \in SlotHeld /\ pc[u] \in SlotHeld => fd[t] # fd[u]

=============================================================================
