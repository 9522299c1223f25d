----------------------------- MODULE KernelHeap -----------------------------
(***************************************************************************)
(* kernel/memory.c and lib/kernel/bitmap.c: the kernel page pools and the *)
(* arena allocator behind sys_malloc and sys_free, for the kernel pool    *)
(* (running_thread()->pgdir == NULL).  Only the main thread allocates in  *)
(* this build (main.c starts no other thread and no process), so each     *)
(* call is one step; kernel_pool.lock is modelled by its holder_repeat_nr *)
(* (the holder is always main).                                            *)
(*                                                                         *)
(* Sizes are scaled: a page holds PageSize bytes, sizeof(struct arena) is *)
(* ArenaSize, the descriptors hold blocks of 16 * 2^i bytes, and a        *)
(* request above the largest block (1024 in the code) takes whole pages.  *)
(* Pages are numbered from K_HEAP_START (virtual) and from the kernel     *)
(* pool's phy_addr_start (physical); bitmaps are sets of their 1-bits.    *)
(***************************************************************************)
EXTENDS Integers, Sequences, SequencesExt, FiniteSets

CONSTANTS
  PageSize,     \* PG_SIZE
  ArenaSize,    \* sizeof(struct arena)
  DescCnt,      \* DESC_CNT
  PoolPages,    \* kernel_free_pages
  Sizes,        \* the sizes sys_malloc is asked for
  MaxCalls      \* bound on the number of sys_malloc and sys_free calls

ASSUME /\ PoolPages % 8 = 0 /\ PoolPages > 0
       /\ DescCnt >= 1 /\ ArenaSize < 16

Pages == 0..(PoolPages - 1)
PoolBytes == PoolPages \div 8          \* kbm_len
PoolSize == PoolPages * PageSize       \* kernel_pool.pool_size
DivRoundUp(a, b) == (a + b - 1) \div b

(* ASSERT failures and PANIC: the kernel spins. *)
Halt == -2
NoFrame == -1

-----------------------------------------------------------------------------
(* Lines 312-323, block_init: descriptor d (1-based) holds blocks of      *)
(* 16 * 2^(d-1) bytes, as many as fit in a page after the arena header.   *)
BlockSize(d) == 16 * 2^(d - 1)
BlockPerArena(d) == (PageSize - ArenaSize) \div BlockSize(d)
Descs == 1..DescCnt
LargeLimit == BlockSize(DescCnt)

(* arena2block without the arena header. *)
Arena2BlockNoHeader(d, idx) == idx * BlockSize(d)

(* Lines 338-341, arena2block: the byte offset of block idx in its page. *)
Arena2Block(d, idx) == ArenaSize + idx * BlockSize(d)

(* Lines 345-348, block2arena: the page a pointer lies in. *)
Block2Arena(ptr) == ptr.page

(* Lines 405-411: the first descriptor whose blocks hold size bytes. *)
DescIdx(size) == Min({d \in Descs : size <= BlockSize(d)})

-----------------------------------------------------------------------------
(* memory.h 29-40: a free block's first bytes are its list_elem, and each *)
(* descriptor's free_list is a struct list of two sentinels.  A block is  *)
(* <<page, idx>>; the sentinels and NULL are pairs no block uses.         *)
Block == Pages \X (0..(BlockPerArena(1) - 1))
NullElem == <<-1, 0>>
ListHead(d) == <<-2, d>>
ListTail(d) == <<-3, d>>
Nodes == Block \cup {ListHead(d) : d \in Descs} \cup {ListTail(d) : d \in Descs}

L == INSTANCE List WITH Null <- NullElem

(* memset(a, 0, n * PG_SIZE) (lines 390 and 420): the list_elems of the  *)
(* blocks in pages a..a+n-1 become NULL.                                  *)
Zeroed(lk, a, n) ==
  LET z(f) == [x \in Nodes |-> IF x \in Block /\ x[1] \in a..(a + n - 1)
                              THEN NullElem ELSE f[x]]
  IN  [next |-> z(lk.next), prev |-> z(lk.prev)]

(* Lines 428-436: each block of the new arena a, in order, is asserted    *)
(* not to be on the list yet and appended.                                *)
(* Lines 312-323, block_init: list_init on each descriptor's free_list. *)
RECURSIVE BlockInit(_, _)
BlockInit(lk, d) ==
  IF d > DescCnt THEN lk
  ELSE BlockInit(L!ListInit(lk, ListHead(d), ListTail(d)), d + 1)

RECURSIVE AppendArena(_, _, _, _)
AppendArena(lk, d, a, i) ==
  IF i = BlockPerArena(d) THEN lk
  ELSE AppendArena(L!ListAppend(lk, ListTail(d), <<a, i>>), d, a, i + 1)

NewArenaAsserts(lk, d, a) ==
  \E i \in 0..(BlockPerArena(d) - 1) :
    L!ElemFind(lk, ListHead(d), ListTail(d), <<a, i>>)

(* Lines 585-591: for each block of the arena in order,                  *)
(* ASSERT(elem_find) and list_remove; ok is FALSE when an ASSERT fails.  *)
RECURSIVE RemoveArena(_, _, _, _)
RemoveArena(lk, d, a, i) ==
  IF i = BlockPerArena(d) THEN [ok |-> TRUE, lk |-> lk]
  ELSE IF ~L!ElemFind(lk, ListHead(d), ListTail(d), <<a, i>>)
       THEN [ok |-> FALSE, lk |-> lk]
  ELSE RemoveArena(L!ListRemove(lk, <<a, i>>), d, a, i + 1)

-----------------------------------------------------------------------------
(* The run count of bitmap_scan with the count reset to 1 on a used bit. *)
RECURSIVE RunFromResetOne(_, _, _, _, _)
RunFromResetOne(bm, nextBit, bitLeft, count, cnt) ==
  IF bitLeft = 0 THEN -1
  ELSE IF nextBit >= 8 * PoolBytes THEN Halt
  ELSE LET c == IF nextBit \notin bm THEN count + 1 ELSE 1
       IN  IF c = cnt THEN nextBit - cnt + 1
           ELSE RunFromResetOne(bm, nextBit + 1, bitLeft - 1, c, cnt)

(* bitmap.c lines 53-75: count free bits from the one after the first     *)
(* free bit; bitmap_scan_test asserts its index is inside the bitmap       *)
(* (line 18), and the loop runs bit_left times from bit_idx_start + 1, so *)
(* when no run fits its last test is of bit 8 * btmp_bytes_len.          *)
RECURSIVE RunFrom(_, _, _, _, _)
RunFrom(bm, nextBit, bitLeft, count, cnt) ==
  IF bitLeft = 0 THEN -1
  ELSE IF nextBit >= 8 * PoolBytes THEN Halt
  ELSE LET c == IF nextBit \notin bm THEN count + 1 ELSE 0
       IN  IF c = cnt THEN nextBit - cnt + 1
           ELSE RunFrom(bm, nextBit + 1, bitLeft - 1, c, cnt)

(* bitmap.c lines 25-76, bitmap_scan: the first byte that is not 0xff     *)
(* (ASSERT at line 35 when there is none), its first 0-bit, and for more  *)
(* than one bit the run counted from there.                                *)
BitmapScan(bm, cnt) ==
  LET freeBytes == {i \in 0..(PoolBytes - 1) :
                      \E j \in 0..7 : 8 * i + j \notin bm}
  IN  IF freeBytes = {} THEN Halt
      ELSE LET byte  == Min(freeBytes)
               start == Min({8 * byte + j : j \in 0..7} \ bm)
           IN  IF cnt = 1 THEN start
               ELSE RunFrom(bm, start + 1, 8 * PoolBytes - start, 1, cnt)

(* Lines 101-112, palloc, n times in a row (the loop of malloc_page): the *)
(* frames taken, in order; Halt where bitmap_scan halted.                 *)
RECURSIVE PallocN(_, _)
PallocN(used, n) ==
  IF n = 0 THEN <<>>
  ELSE LET f == BitmapScan(used, 1)
       IN  IF f < 0 THEN <<f>> ELSE <<f>> \o PallocN(used \cup {f}, n - 1)

(* Lines 43-63 and 83, vaddr_get for the kernel pool: bitmap_scan for n  *)
(* bits, which are set; the start page, or Halt.                          *)
VaddrGet(vbm, n) ==
  LET s == BitmapScan(vbm, n)
  IN  [start |-> s, vbm |-> IF s < 0 THEN vbm ELSE vbm \cup s..(s + n - 1)]

(* Lines 115-143 (page_table_add: the kernel page directory entries      *)
(* exist from the loader, and line 124 asserts the table entry is not    *)
(* present) and 147-170 (malloc_page).  vaddr_get cannot return NULL     *)
(* here (bitmap_scan halts instead), and palloc only fails by halting,   *)
(* so the NULL paths of lines 152-155 and 162-165 are not reached.        *)
MallocPage(vbm, pbm, pte, n) ==
  LET g      == VaddrGet(vbm, n)
      s      == g.start
      vs     == s..(s + n - 1)
      frames == PallocN(pbm, n)
  IN  IF s < 0 \/ \E i \in DOMAIN frames : frames[i] < 0
         \/ \E v \in vs : pte[v] # NoFrame
      THEN [ok |-> FALSE]
      ELSE [ok |-> TRUE, start |-> s, vbm |-> g.vbm,
            pbm |-> pbm \cup Range(frames),
            pte |-> [v \in Pages |-> IF v \in vs THEN frames[v - s + 1]
                                     ELSE pte[v]]]

(* mfree_page without pfree: the frames stay taken. *)
MfreePageNoPfree(vbm, pbm, pte, a, n) ==
  LET vs == a..(a + n - 1)
  IN  [vbm |-> vbm \ vs, pbm |-> pbm,
       pte |-> [v \in Pages |-> IF v \in vs THEN NoFrame ELSE pte[v]]]

(* Lines 449-546 (pfree, page_table_pte_remove, vaddr_remove and         *)
(* mfree_page for the kernel pool): the frame of every page is cleared in *)
(* the pool bitmap and its table entry loses the present bit, then the    *)
(* virtual bits are cleared.                                               *)
MfreePage(vbm, pbm, pte, a, n) ==
  LET vs == a..(a + n - 1)
  IN  [vbm |-> vbm \ vs, pbm |-> pbm \ {pte[v] : v \in vs},
       pte |-> [v \in Pages |-> IF v \in vs THEN NoFrame ELSE pte[v]]]

-----------------------------------------------------------------------------
VARIABLES
  vbm,      \* kernel_vaddr.vaddr_bitmap
  pbm,      \* kernel_pool.pool_bitmap
  pte,      \* the present frame of each heap page's table entry
  hdr,      \* the struct arena at the start of each page
  lk,       \* the list links of the free lists: next and prev per node
  live,     \* the pointers handed out and not freed: page, offset, size
  repeat,   \* kernel_pool.lock.holder_repeat_nr (holder: main when > 0)
  calls,    \* sys_malloc and sys_free calls made
  halted    \* an ASSERT failed

vars == <<vbm, pbm, pte, hdr, lk, live, repeat, calls, halted>>

(* k_block_descs[d].free_list as its loops walk it. *)
freeList == [d \in Descs |-> L!ListElems(lk, ListHead(d), ListTail(d))]

NoArena == [desc |-> 0, large |-> FALSE, cnt |-> 0]

(* After mem_init and thread_init: the pools are empty but for the page   *)
(* get_kernel_pages(1) took for the idle thread's PCB (thread.c 111).     *)
Init ==
  /\ vbm = {0} /\ pbm = {0}
  /\ pte = [v \in Pages |-> IF v = 0 THEN 0 ELSE NoFrame]
  /\ hdr = [v \in Pages |-> NoArena]
  /\ lk = BlockInit([next |-> [x \in Nodes |-> NullElem],
                     prev |-> [x \in Nodes |-> NullElem]], 1)
  /\ live = {}
  /\ repeat = 0
  /\ calls = 0
  /\ halted = FALSE

Call == ~halted /\ calls < MaxCalls /\ calls' = calls + 1

(* Lines 373-377: a size outside (0, pool_size) returns NULL at once. *)
SysMallocRefused(size) ==
  /\ Call
  /\ ~(size > 0 /\ size < PoolSize)
  /\ UNCHANGED <<vbm, pbm, pte, hdr, lk, live, repeat, halted>>

(* The pages sys_malloc asks malloc_page for: DIV_ROUND_UP(size +         *)
(* sizeof(struct arena), PG_SIZE) for a large request (line 385), one    *)
(* for a new arena when the descriptor's free list is empty (line 414).   *)
PagesNeeded(size) ==
  IF size > LargeLimit THEN DivRoundUp(size + ArenaSize, PageSize)
  ELSE IF L!ListEmpty(lk, ListHead(DescIdx(size)), ListTail(DescIdx(size)))
       THEN 1 ELSE 0

(* Lines 381-395: the lock is taken, malloc_page succeeds, the pages are *)
(* zeroed, the header says large with cnt pages, and a + 1 is returned   *)
(* without lock_release.                                                  *)
SysMallocLarge(size) ==
  LET n == PagesNeeded(size)
      r == MallocPage(vbm, pbm, pte, n)
  IN  /\ Call
      /\ size > LargeLimit /\ size < PoolSize
      /\ r.ok
      /\ vbm' = r.vbm /\ pbm' = r.pbm /\ pte' = r.pte
      /\ hdr' = [v \in Pages |->
                   IF v = r.start THEN [desc |-> 0, large |-> TRUE, cnt |-> n]
                   ELSE IF v \in r.vbm \ vbm THEN NoArena ELSE hdr[v]]
      /\ lk' = Zeroed(lk, r.start, n)
      /\ live' = live \cup {[page |-> r.start, off |-> ArenaSize, size |-> size]}
      /\ repeat' = repeat + 1
      /\ UNCHANGED halted

(* Lines 439-444: list_pop takes the head block of the links l, memset  *)
(* with its arguments swapped writes nothing, the arena's cnt drops, the *)
(* lock is released; h is the header table before the pop.               *)
PopBlock(d, l, h, size) ==
  LET b == l.next[ListHead(d)]
  IN  /\ lk' = L!ListPop(l, ListHead(d))
      /\ hdr' = [h EXCEPT ![b[1]].cnt = @ - 1]
      /\ live' = live \cup {[page |-> b[1], off |-> Arena2Block(d, b[2]),
                             size |-> size]}
      /\ repeat' = repeat

(* Lines 402-412 and 438-445: a block from a non-empty free list. *)
SysMallocSmall(size) ==
  LET d == DescIdx(size)
  IN  /\ Call
      /\ size > 0 /\ size <= LargeLimit /\ size < PoolSize
      /\ ~L!ListEmpty(lk, ListHead(d), ListTail(d))
      /\ PopBlock(d, lk, hdr, size)
      /\ UNCHANGED <<vbm, pbm, pte, halted>>

(* A new arena whose cnt is left as the memset of line 420 wrote it. *)
SysMallocNewArenaNoCnt(size) ==
  LET d == DescIdx(size)
      r == MallocPage(vbm, pbm, pte, 1)
  IN  /\ Call
      /\ size > 0 /\ size <= LargeLimit /\ size < PoolSize
      /\ L!ListEmpty(lk, ListHead(d), ListTail(d))
      /\ r.ok
      /\ vbm' = r.vbm /\ pbm' = r.pbm /\ pte' = r.pte
      /\ LET z == Zeroed(lk, r.start, 1)
         IN  IF NewArenaAsserts(z, d, r.start)
             THEN halted' = TRUE /\ UNCHANGED <<hdr, lk, live, repeat>>
             ELSE /\ PopBlock(d, AppendArena(z, d, r.start, 0),
                              [hdr EXCEPT ![r.start] =
                                 [desc |-> d, large |-> FALSE, cnt |-> 0]],
                              size)
                  /\ UNCHANGED halted

(* Lines 412-437: an empty free list gets a new arena of one page whose  *)
(* header names the descriptor with block_per_arena free blocks, and     *)
(* every block is appended in order; then the head is popped.            *)
SysMallocNewArena(size) ==
  LET d == DescIdx(size)
      r == MallocPage(vbm, pbm, pte, 1)
  IN  /\ Call
      /\ size > 0 /\ size <= LargeLimit /\ size < PoolSize
      /\ L!ListEmpty(lk, ListHead(d), ListTail(d))
      /\ r.ok
      /\ vbm' = r.vbm /\ pbm' = r.pbm /\ pte' = r.pte
      /\ LET z == Zeroed(lk, r.start, 1)
         IN  IF NewArenaAsserts(z, d, r.start)
             THEN halted' = TRUE /\ UNCHANGED <<hdr, lk, live, repeat>>
             ELSE /\ PopBlock(d, AppendArena(z, d, r.start, 0),
                              [hdr EXCEPT ![r.start] =
                                 [desc |-> d, large |-> FALSE, cnt |-> BlockPerArena(d)]],
                              size)
                  /\ UNCHANGED halted

(* Lines 381-387 and 412-414 with malloc_page halting: no run of free    *)
(* virtual pages, a full pool bitmap, or a table entry already present.  *)
SysMallocHalts(size) ==
  /\ Call
  /\ size > 0 /\ size < PoolSize
  /\ PagesNeeded(size) > 0
  /\ ~MallocPage(vbm, pbm, pte, PagesNeeded(size)).ok
  /\ halted' = TRUE
  /\ repeat' = repeat + 1
  /\ UNCHANGED <<vbm, pbm, pte, hdr, lk, live>>

(* Lines 549-577, 595: a pointer whose arena has no descriptor or is     *)
(* large gives its a->cnt pages back through mfree_page.  The lock is    *)
(* taken and released, so holder_repeat_nr ends where it started.        *)
SysFreePages(ptr) ==
  LET a == Block2Arena(ptr)
      r == MfreePage(vbm, pbm, pte, a, hdr[a].cnt)
  IN  /\ Call
      /\ hdr[a].desc = 0 \/ hdr[a].large
      /\ vbm' = r.vbm /\ pbm' = r.pbm /\ pte' = r.pte
      /\ live' = live \ {ptr}
      /\ UNCHANGED <<hdr, lk, repeat, halted>>

(* The block of a small pointer: its index in the arena. *)
BlockOf(ptr) ==
  LET d == hdr[ptr.page].desc
  IN  <<ptr.page, (ptr.off - ArenaSize) \div BlockSize(d)>>

(* sys_free appending the block without ++a->cnt. *)
SysFreeBlockNoCount(ptr) ==
  LET a == Block2Arena(ptr)
      d == hdr[a].desc
  IN  /\ Call
      /\ d # 0 /\ ~hdr[a].large
      /\ hdr[a].cnt + 1 # BlockPerArena(d)
      /\ lk' = L!ListAppend(lk, ListTail(d), BlockOf(ptr))
      /\ live' = live \ {ptr}
      /\ UNCHANGED <<hdr, vbm, pbm, pte, repeat, halted>>

(* Lines 578-583 and 594-595: the block is appended to its descriptor's *)
(* free list and the arena's cnt grows, short of block_per_arena.        *)
SysFreeBlock(ptr) ==
  LET a == Block2Arena(ptr)
      d == hdr[a].desc
  IN  /\ Call
      /\ d # 0 /\ ~hdr[a].large
      /\ hdr[a].cnt + 1 # BlockPerArena(d)
      /\ lk' = L!ListAppend(lk, ListTail(d), BlockOf(ptr))
      /\ hdr' = [hdr EXCEPT ![a].cnt = @ + 1]
      /\ live' = live \ {ptr}
      /\ UNCHANGED <<vbm, pbm, pte, repeat, halted>>

(* Lines 578-595 when the arena's cnt reaches block_per_arena: every     *)
(* block of the arena is asserted to be on the free list (line 589) and  *)
(* removed from it, and the arena's page goes back by mfree_page.        *)
SysFreeArena(ptr) ==
  LET a  == Block2Arena(ptr)
      d  == hdr[a].desc
      l  == RemoveArena(L!ListAppend(lk, ListTail(d), BlockOf(ptr)), d, a, 0)
      r  == MfreePage(vbm, pbm, pte, a, 1)
  IN  /\ Call
      /\ d # 0 /\ ~hdr[a].large
      /\ hdr[a].cnt + 1 = BlockPerArena(d)
      /\ IF l.ok
         THEN /\ lk' = l.lk
              /\ hdr' = [hdr EXCEPT ![a].cnt = @ + 1]
              /\ vbm' = r.vbm /\ pbm' = r.pbm /\ pte' = r.pte
              /\ live' = live \ {ptr}
              /\ UNCHANGED halted
         ELSE /\ halted' = TRUE
              /\ UNCHANGED <<vbm, pbm, pte, hdr, lk, live>>
      /\ UNCHANGED repeat

(* The kernel spins after a failed ASSERT, or main has made its calls. *)
Done == (halted \/ calls = MaxCalls) /\ UNCHANGED vars

Next ==
  \/ \E size \in Sizes : SysMallocRefused(size)
  \/ \E size \in Sizes : SysMallocLarge(size)
  \/ \E size \in Sizes : SysMallocSmall(size)
  \/ \E size \in Sizes : SysMallocNewArena(size)
  \/ \E size \in Sizes : SysMallocHalts(size)
  \/ \E ptr \in live : SysFreePages(ptr)
  \/ \E ptr \in live : SysFreeBlock(ptr)
  \/ \E ptr \in live : SysFreeArena(ptr)
  \/ Done

Spec == Init /\ [][Next]_vars

-----------------------------------------------------------------------------
TypeOK ==
  /\ vbm \subseteq Pages /\ pbm \subseteq Pages
  /\ pte \in [Pages -> Pages \cup {NoFrame}]
  /\ \A v \in vbm : hdr[v].cnt \in 0..PoolPages
  /\ lk \in [next : [Nodes -> Nodes \cup {NullElem}],
            prev : [Nodes -> Nodes \cup {NullElem}]]
  /\ repeat \in Nat /\ calls \in 0..MaxCalls /\ halted \in BOOLEAN

(* The small arenas: mapped pages whose header names a descriptor. *)
SmallArenas == {a \in vbm : hdr[a].desc # 0 /\ ~hdr[a].large}

(* list_append, list_pop and the list_remove of a released arena's      *)
(* blocks (list.c 16-65, memory.c 428-436, 441, 581, 585-591) keep every *)
(* descriptor's free_list a well-formed doubly linked list: walking next *)
(* from the head reaches the tail without NULL or a repeat, and every    *)
(* prev link points back to the node before it, after any sequence of   *)
(* appends at the tail, pops at the head and removals from the middle    *)
(* that interleave the blocks of several arenas.                          *)
FreeListsLinked ==
  \A d \in Descs : L!ListWellFormed(lk, ListHead(d), ListTail(d))

(* sys_malloc lines 412-444 and sys_free lines 578-593 keep each small    *)
(* arena's cnt equal to the number of its blocks on its descriptor's free *)
(* list, and the free lists hold each block once, only blocks of live    *)
(* small arenas of that descriptor, and none that was handed out.        *)
FreeListsMatchArenas ==
  /\ \A d \in Descs : IsInjective(freeList[d])
  /\ \A d \in Descs : \A i \in DOMAIN freeList[d] :
       LET b == freeList[d][i]
       IN  /\ b[1] \in SmallArenas /\ hdr[b[1]].desc = d
           /\ b[2] < BlockPerArena(d)
           /\ \A ptr \in live : ptr.page = b[1] =>
                ptr.off # Arena2Block(d, b[2])
  /\ \A a \in SmallArenas :
       hdr[a].cnt = Cardinality({i \in DOMAIN freeList[hdr[a].desc] :
                                   freeList[hdr[a].desc][i][1] = a})

(* The mapped pages that start an arena (the others were zeroed by the   *)
(* memset of line 390 or hold the idle thread's PCB).                     *)
ArenaHeads == {a \in vbm : hdr[a] # NoArena}

(* The bytes of a pointer handed out, as heap addresses. *)
Bytes(ptr) == (ptr.page * PageSize + ptr.off)..
              (ptr.page * PageSize + ptr.off + ptr.size - 1)

(* sys_malloc (descriptor choice at lines 405-411, arena2block, the page *)
(* count at line 385) never hands out memory that overlaps another live  *)
(* allocation or an arena header, and every byte it hands out lies in a  *)
(* mapped page of the heap.                                               *)
AllocationsDisjoint ==
  \A p \in live :
    /\ \A q \in live : p # q => Bytes(p) \cap Bytes(q) = {}
    /\ \A x \in Bytes(p) : x \div PageSize \in vbm
                           /\ pte[x \div PageSize] # NoFrame
    /\ \A a \in ArenaHeads :
         (a * PageSize)..(a * PageSize + ArenaSize - 1) \cap Bytes(p) = {}

(* malloc_page and mfree_page take and give back virtual pages and frames *)
(* together: the mapped heap pages are exactly the virtual bitmap's, each *)
(* onto its own frame, and the frames in use are exactly those mapped.   *)
(* Hence palloc cannot fail after vaddr_get succeeded (line 162).        *)
PoolsInStep ==
  /\ \A v \in Pages : (v \in vbm) = (pte[v] # NoFrame)
  /\ \A v, w \in vbm : v # w => pte[v] # pte[w]
  /\ pbm = {pte[v] : v \in vbm}

(* The lowest start of cnt free bits of bm, -1 when there is none. *)
FirstFit(bm, cnt) ==
  LET starts == {s \in 0..(PoolPages - cnt) : s..(s + cnt - 1) \cap bm = {}}
  IN  IF starts = {} THEN -1 ELSE Min(starts)

(* bitmap_scan (bitmap.c 25-76) on both pool bitmaps as they are now:    *)
(* whenever cnt contiguous free bits exist, it returns the lowest such    *)
(* run.                                                                    *)
ScanFirstFit ==
  \A bm \in {vbm, pbm} : \A cnt \in 1..PoolPages :
    FirstFit(bm, cnt) # -1 => BitmapScan(bm, cnt) = FirstFit(bm, cnt)

=============================================================================
