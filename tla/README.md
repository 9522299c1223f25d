# TLA+ models of the Hongbai-os block-storage stack and keyboard input

These modules model the kernel in `src/Hongbai-os`. The focus is its
block-storage core: the IDE channel driver and the file system above it. The
scheduler and semaphores are modelled too, because the driver blocks on them. The
TLC configurations check the models. `PROJECT.json` lists every component, each
run, the mutants that show each property can fail, the source lines every
definition translates, and the hazards of the code.

## 1. The system

The kernel runs on one CPU. Kernel threads (`thread/thread.c`) are switched by
`schedule()`. `schedule()` is called from the timer interrupt when a time slice
is used up, from `thread_block` and from `thread_yield`. The idle thread runs
when the ready list is empty. The blocking primitives in `thread/sync.c` are:

- a counting semaphore with a `uint8_t` value and a FIFO waiter list;
- a reentrant lock (holder and repeat count) built on a binary semaphore.

Interrupts are disabled inside these primitives and inside `schedule()`.

The parts, from the bottom up (their names follow `spec.md`):

| Part | Source | State | Operations |
|---|---|---|---|
| Scheduler and sync | `thread/thread.c`, `thread/sync.c`, `device/timer.c` | thread status, ready list, running thread; semaphore value and waiters; lock holder and repeat count | `schedule`, `thread_block`, `thread_unblock`, `thread_yield`, `idle`, `sema_down`/`sema_up`, `lock_acquire`/`lock_release`, timer preemption, `mtime_sleep` |
| ChannelDriver | `device/ide.c` | per channel: lock, `disk_done` semaphore, `expecting_intr`; the drive's task-file registers and BSY/DRQ status | `ide_read`, `ide_write`, `busy_wait`, `cmd_out`, `intr_hd_handler`, `identify_disk` |
| PartitionScanner | `device/ide.c` | partition list, globals `ext_lba_base`, `p_no`, `l_no` | `partition_scan` (recursive over EBRs), `ide_init` |
| SpaceBitmap | `lib/kernel/bitmap.c`, `fs/file.c` | in-memory block and inode bitmaps and their on-disk sectors | `bitmap_scan`, `bitmap_set`, `inode_bitmap_alloc`, `block_bitmap_alloc`, `bitmap_sync` |
| Formatter and mount | `fs/fs.c` | superblock layout, initial bitmaps, root inode and directory | `partition_format`, `mount_partition`, `filesys_init` |
| InodeStore | `fs/inode.c` | inode table on disk; per-partition open-inode list with open counts | `inode_locate`, `inode_open`, `inode_sync`, `inode_close`, `inode_init` |
| DirectoryStore | `fs/dir.c` | directory blocks (12 direct plus one indirect table of 128) | `search_dir_entry`, `sync_dir_entry`, `dir_open`, `dir_close` |
| PathResolver and FileService | `fs/fs.c`, `fs/file.c` | global `file_table`, per-thread `fd_table` | `path_paser`, `path_depth_cnt`, `search_file`, `sys_open`, `file_create` with its rollback |
| Keyboard ring buffer | `device/keyboard.c`, `device/ioqueue.c` | decoder statics `ctrl_status`, `shift_status`, `alt_status`, `caps_lock_status`, `ext_scancode`; `kbd_buf` ring (`buf`, `head`, `tail`, `producer`, `consumer`, `lock`) | `intr_keyboard_handler`, `ioq_putchar`, `ioq_getchar`, `ioq_full`, `ioq_empty`, `ioq_wait`, `wake_up`, `keyboard_init` |
| Intrusive list | `lib/kernel/list.c` | a `struct list` of head and tail sentinels; `prev`/`next` in each `list_elem` embedded in its owner | `list_init`, `list_insert_before`, `list_append`, `list_push`, `list_remove`, `list_pop`, `elem_find`, `list_traversal`, `list_len`, `list_empty` |
| Kernel heap | `kernel/memory.c`, `lib/kernel/bitmap.c` | virtual and physical page bitmaps, page table entries, arena headers, descriptor free lists, pool lock | `sys_malloc`, `sys_free`, `malloc_page`, `mfree_page`, `vaddr_get`, `palloc`, `pfree`, `bitmap_scan` |

How the parts interact:

- `sys_open` resolves a path through the DirectoryStore. The DirectoryStore
  uses the InodeStore and the SpaceBitmap, and every disk access ends in
  `ide_read` or `ide_write`.
- Those driver calls take the channel lock, program the registers, issue the
  command and sleep on `disk_done`. The sleep is either right after the
  command (read) or after the data transfer (write).
- IRQ 14 runs `intr_hd_handler`. It posts `disk_done` only when the channel
  expects an interrupt.

Every file system operation therefore blocks at least once in the middle. While
it is blocked, other threads run and can reach the same in-memory state: the
bitmaps, the open-inode list and directory blocks read into buffers.

What makes this code hard:

- **Preemption and blocking in the middle of multi-step operations.** The
  timer can switch threads at any point where interrupts are enabled. Every
  `ide_read` and `ide_write` blocks.
- **Interrupt against sleeper.** The completion interrupt can arrive before
  the issuer reaches `sema_down`, or after it is asleep.
- **Scheduler bookkeeping.** A thread must be READY exactly when it is in the
  ready list.
- **Partial failure and rollback.** `file_create` and `sync_dir_entry` are
  multi-step and must undo earlier steps when a later one fails.
- **Numeric edges.** Examples are `uint8_t` inode numbers, `uint16_t` timeout
  arithmetic, the bitmap padding and the partition table limits.

What each part must guarantee:

- **ChannelDriver:**
  - one request at a time per channel;
  - a command's wait, poll and transfer belong to the thread that issued it;
  - `disk_done` is a binary handshake, one post per command;
  - every request completes.
- **Scheduler and sync:**
  - exactly the running thread is RUNNING;
  - READY means queued, exactly once;
  - a BLOCKED thread is queued on exactly one semaphore.
- **SpaceBitmap:** no index is handed out twice, and disk and memory bitmaps
  agree after each sync.
- **InodeStore:** at most one cached copy per inode, and the open count
  equals the number of open handles.
- **DirectoryStore:** an inserted entry is found again, and no entry is lost
  when the directory grows.
- **FileService:** a failed create leaves no bitmap bit, table slot or entry
  allocated.
- **PartitionScanner:** it finds exactly the partitions of the MBR/EBR chain.
- **Formatter:** the regions do not overlap and fit in the partition, and the
  bitmap marks exactly the real blocks free.

## 2. Modules

| Module | Models | Composition |
|---|---|---|
| `AbstractChannel` | what a channel promises: one critical section per request, granted and left | abstract spec |
| `IdeChannel` | `ide_read`/`ide_write` for a set of worker threads, with `schedule`, `thread_block`/`unblock`/`yield`, the idle thread, `sema_down`/`sema_up`, `lock_acquire`/`lock_release`, `intr_hd_handler`, timer preemption and the drive | refines `AbstractChannel` (`INSTANCE ... WITH apc <- AbsPc, left <- opsLeft`) |
| `MC_IdeChannel` | model values for threads and NULL | instantiates `IdeChannel` |
| `FileCreate` | `sys_open` with `path_paser`, `path_depth_cnt` and `search_file` over paths through `.`, `..`, `//` and subdirectories, `dir_open`/`dir_close` and the root inode's open count, `search_dir_entry`, `file_create` with its rollback, `sync_dir_entry`, `inode_sync`, `inode_bitmap_alloc`/`block_bitmap_alloc`/`bitmap_scan`/`bitmap_set`/`bitmap_sync`, `get_free_slot_in_global`, `pcb_fd_install` | treats each `ide_read`/`ide_write` as one atomic step, which `IdeChannel`'s refinement of `AbstractChannel` justifies |
| `MC_FileCreate` | model values for threads, names and NULL | instantiates `FileCreate` |
| `PartitionScan` | `ide_init`'s walk over the devices, and `partition_scan` with its globals `ext_lba_base`, `p_no`, `l_no`, `partition_list` | runs before any other thread touches a disk, so it is sequential |
| `MC_PartitionScan` | nothing beyond the constants in the cfgs | instantiates `PartitionScan` |
| `FormatLayout` | `filesys_init`'s probe over the partition slots of sdb, `partition_format` (layout and the bitmaps it writes), `mount_partition` of sdb1 | runs before any other thread touches a disk, so it is sequential; its fresh file system is `FileCreate`'s initial state |
| `MC_FormatLayout` | the ranges of partition sizes | instantiates `FormatLayout` |
| `KernelHeap` | `sys_malloc` and `sys_free` on the kernel pool, with `malloc_page`/`mfree_page` and the page-level helpers under them, `block_init`, `arena2block`/`block2arena`, and `bitmap_scan` for any count | only the main thread allocates in this build, so each call is one step |
| `List` | `list_init`, `list_insert_before`, `list_append`, `list_remove`, `list_pop`, `list_empty`, `elem_find` as operators on a link store | pure operators, composed into `KernelHeap`; each runs with interrupts off, so it is one step of its caller |
| `MC_KernelHeap` | the requested sizes | instantiates `KernelHeap` |
| `KeyboardBuffer` | what `kbd_buf` promises: a FIFO of at most `Capacity` characters that drops when full | abstract spec |
| `Keyboard` | a user pressing and releasing keys, the controller's scan codes, `intr_keyboard_handler` byte by byte, `kbd_buf` and one `ioq_getchar` consumer | refines `KeyboardBuffer` |
| `MC_Keyboard` | the key set and NULL | instantiates `Keyboard` |

### IdeChannel: how it corresponds to the code

A step is the code between two points where the timer or the disk can
interrupt. Code run with interrupts disabled is inside one step:
`sema_down`, `sema_up`, `schedule` and list operations.

Each worker has a label `pc`. The labels are:

- `start`: the top of the caller's loop;
- `acq`: in `lock_acquire`;
- `sel`: `select_disk`/`select_sector`;
- `cmd1` and `cmd2`: the two statements of `cmd_out`;
- `rwait` and `wwait`: `sema_down(&disk_done)`;
- `rpoll` and `wpoll`: `busy_wait`;
- `rxfer` and `wxfer`: `insw`/`outsw`;
- `rel`: `lock_release`.

Each label has one action, named after the function it models.

The lock state:

- `holder` and `repeat` are the lock's fields.
- `lockSema` and `diskDone` are semaphores, written as `[value, waiters]`.
- Values are `uint8_t` and computed `% 256`.

The scheduler state:

- `status`, `running` and `ready` are the thread statuses, `running_thread()`
  and `thread_ready_list`.
- `thread_unblock` pushes at the head of the list (`Cons`).
- `schedule` appends a RUNNING caller and wakes idle when the list is empty.

The drive is a small state machine (`dev.st`):

- a read goes `rbusy` → `rdrq` and raises the IRQ;
- a write goes `wbusy` → `wdrq` → (transfer) `wflush` → `idle` and raises
  the IRQ.

`dev.owner` is the thread whose register values the command was started with.
`SlowDevice` says whether the drive is still BSY when `busy_wait` first polls
after a write command.

Sector counts are one: `sec_cnt` is a `uint8_t`, so the 256-sector chunk
branch of the loop never runs. Buffers and LBAs are abstracted to the thread
that issued the command.

Fairness:

- A worker step is strongly fair. A scheduled thread runs at least until its
  next tick before the timer can take the CPU, so a worker that is scheduled
  infinitely often makes progress.
- The drive actions, the IRQ handler and the timer are weakly fair. The drive
  finishes what it started, a raised IRQ is serviced, and the PIT keeps
  ticking.

### FileCreate: how it corresponds to the code

A step holds one access to shared state:

- a load or store of the in-memory bitmaps, the root inode, `file_table` or
  a `fd_table`;
- or one disk transfer.

None of this code disables interrupts, so the timer may switch threads
between any two steps.

The state:

- `ibm`/`ibmDisk` and `bbm`/`bbmDisk` are the inode and block bitmaps, in
  memory and on disk. Each is the set of its set bits.
- `blk` holds the data blocks, named by bitmap index. A block is zero, the
  root's `.`/`..` block, one directory entry, or an indirect table.
- `rootSize` and `rootTable` are `root_dir.inode->i_size` (in entries) and
  `i_sectors[12]`.
- `itab` is the on-disk inode table. With at most 6 inodes it is one sector,
  which matters for `inode_sync`'s read-modify-write.
- `fileTable` and `fds` are `file_table` and the threads' `fd_table`.
- `openInodes` is the open-inode list, as a bag.

Each thread has a label `pc` and the locals of the call:

- `ino`, `fd`, `tb`, `db`: the inode number, the `file_table` slot, and the
  table and data blocks.
- `rec`/`ibuf`: `inode_sync`'s `pure_inode` and sector buffer.
- `live`: the heap objects it holds.

Path resolution:

- `path` is the token sequence of the `pathname` passed to `sys_open`,
  taken from the constant `Paths`; `CreatFlags` says whether `O_CREAT` is
  set. `PathPaser`, `PathNames` and `PathDepthCnt` are `path_paser`, the
  loop of `search_file` and `path_depth_cnt`, as recursive operators over
  the tokens. `SearchedPath` is `searched_path` after `k` names.
- `idx` is the name being searched, `pdir` is `search_record.parent_dir`:
  `root_dir`, a heap `struct dir`, or the NULL that an unchecked
  `sys_malloc` in `dir_open` returns. `ftype` is `search_record.file_type`.
- `.` and `..` are found in the root's block and are directories, so
  `search_file` closes the parent and `dir_open`s inode 0 again
  (`DirReopen`). Closing a heap `dir` drops the root inode's open count in
  the bag `openInodes`; closing `root_dir` does nothing.
- `SysOpenDecide` is `sys_open`'s checks after `search_file`. Each early
  return `dir_close`s the parent. The path that finds an existing file
  without `O_CREAT` (line 430) falls through without a close.

The labels follow `sys_open` → `search_dir_entry` → `file_create` →
`sync_dir_entry` → `inode_sync` ×2 → `bitmap_sync` → `list_push` →
`pcb_fd_install`. The rollback labels are `rb3`, `rb2` and `rb1`.

Two facts of the code shape the model:

- `sync_dir_entry` starts its search at `block_idx` 12, so every insert
  takes the branch that allocates a new indirect table.
- With ASSERT active (the default of `kernel/debug.h`), a full bitmap halts
  the kernel in `bitmap_scan` (`pc = "panic"`, and every thread stops).

`NDEBUG` selects the build without ASSERT. `MallocMayFail` lets `sys_malloc`
return NULL. The initial state is a freshly formatted and mounted partition,
as `partition_format` writes it.

### PartitionScan: how it corresponds to the code

`ide_init` runs once from `init_all`, before any other thread exists, so
one step `IdeInitDevice` handles one device. It scans the device if the
device is the second disk of its channel (lines 416-419), and then resets
`p_no` and `l_no` (line 420). `ext_lba_base` is never reset.

`partition_scan` is the mutually RECURSIVE pair `ScanSector` and
`ScanEntries`:

- `ScanSector` reads the boot sector (lines 315-316).
- `ScanEntries` walks its four entries (lines 320-361), with the globals
  as a record `g` that is threaded through the recursion.
- An extended entry recurses, at `start_lba + ext_lba_base` once the base is
  set, or at `start_lba` (setting the base) the first time.
- A used entry is a primary at sector 0 and a logical elsewhere.
- `ASSERT(p_no < 4)` after the increment halts the scan (`halted`).
- The 8th logical returns from the current frame only, as the code's
  `return` does.

The disk images are enumerated from a small shape: the kinds of the four MBR
entries and the length of the EBR chain. Each EBR holds one logical
partition and a link to the next EBR, the layout fdisk writes. Each file
disk's extended partition starts at a different sector. A sector outside
the image reads as zeros.

The reference `RefPrims`/`RefLogicals` reads spec section 4.2 for one disk
on its own:

- primaries are named 1, 2, ... in table order;
- logicals are found along the chain, with an EBR entry relative to its EBR
  and a link relative to the extended partition;
- logicals are named 5, 6, ..., and at most 8 are kept.

### FormatLayout: how it corresponds to the code

The sizes are scaled. A sector is `SectorSize` = 2 bytes, so it holds 16
bitmap bits, and `MAX_FILES_PER_PART` is 16 (it equals `BITS_PER_SECTOR` in
`fs.h`, as it does at full size). With an inode of 1 byte the metadata takes
1 + 1 + 1 + 8 = 11 sectors. Bitmaps are sets of the indices of their 1-bits.

- `Layout` is lines 74-106: the region sizes, `free_sects`, the two-pass
  sizing of the block bitmap (`BlockBitmapBitLen`, line 85) and the region
  LBAs of the superblock.
- `FreshBlockBitmap` is lines 129-150. The buffer comes zeroed from the
  page-sized `sys_malloc` (`kernel/memory.c:390`). Bit 0 is set. Every byte
  from `bit_len / 8` to the end of its sector is set to `0xff`. Bits 0 to
  `bit_len % 8` of that byte are cleared, and `block_bitmap_sects` sectors
  are written.
- `HasFileSystem` and `FormatPartition` are one pass of the `part_idx` loop
  (lines 215-242). It skips an empty slot or one whose superblock has the
  magic, and otherwise calls `partition_format`.
- `MountPartition` is `mount_partition` for "sdb1" (lines 16-67). It
  records both the memory the inode bitmap gets (`inode_bitmap_sects`) and
  the length it is given (`block_bitmap_sects`, line 60).
- In `Init`, each partition is blank or holds a file system this code
  formatted earlier, with one more file created on it since.

### KernelHeap: how it corresponds to the code

The sizes are scaled down. A page is 64 bytes (`PG_SIZE`) and
`sizeof(struct arena)` stays 12. There are two descriptors, of 16 and 32
bytes (`block_init` doubles from 16). A request above the largest block is
a large one (1024 bytes in the code). The kernel pool has 8 pages, so each
bitmap is one byte (`kbm_len`).

State:

- `vbm` and `pbm` are `kernel_vaddr`'s bitmap and `kernel_pool`'s bitmap.
- `pte` is the frame of each heap page's table entry, or `NoFrame` once the
  present bit is cleared.
- `hdr` is the `struct arena` at the start of each page.
- `lk` is the link store of the free lists: `next` and `prev` of every
  block's `list_elem` and of each descriptor's head and tail sentinel.
  `List` writes it through the pointers in `list.c`'s order, and a removed
  block keeps its stale links until a `memset` of its page zeroes them.
  `freeList` is the view the code's loops see: each list walked from the
  head, as a sequence of `<<page, idx>>`.
- `live` holds the pointers handed out, each with the size asked for.
- `repeat` is `kernel_pool.lock.holder_repeat_nr`; the holder is always
  `main`.
- `halted` is set when an `ASSERT` fails.

`Init` is the heap after `thread_init`: page 0 holds the idle thread's PCB,
taken by `get_kernel_pages(1)`.

Actions and operators:

- `BitmapScan` and the recursive `RunFrom` are `bitmap_scan` line by line.
  `RunFrom` counts from the bit after the first free one, and it halts where
  `bitmap_scan_test` would assert on bit `8 * btmp_bytes_len`.
- `VaddrGet`, `PallocN` and `MallocPage` are `vaddr_get`, `palloc` and
  `malloc_page` with `page_table_add`. In this build their `NULL` returns
  are never reached: a scan that finds nothing halts first.
- `MfreePage` is `mfree_page` with `pfree`, `page_table_pte_remove` and
  `vaddr_remove`.
- `SysMallocRefused` is the size check.
- `SysMallocLarge` is the large path. It zeroes the pages, writes the header
  and returns without `lock_release`, so `repeat` grows.
- `SysMallocSmall` pops a block from a non-empty free list.
- `SysMallocNewArena` first builds an arena of `block_per_arena` blocks,
  then pops. The `memset` of line 440 writes nothing, and the model writes
  nothing.
- `SysMallocHalts` is either path when `malloc_page` halts.
- `SysFreePages`, `SysFreeBlock` and `SysFreeArena` are the three outcomes
  of `sys_free`. `SysFreeArena` asserts each block is on the list, as
  line 589 does, before removing them one by one with `list_remove`
  (`RemoveArena`), in block order from the middle of the list.
- `SysMallocNewArena` zeroes the page (`Zeroed`), asserts each block is not
  on the list (line 433) and appends them (`AppendArena`).

### Keyboard: how it corresponds to the code

`intr_keyboard_handler` (IRQ 1) reads one byte from port 0x60 for each
interrupt. It keeps its decoder state in five statics. A make code of a
character key looks up `keymap[index][shift]` and puts the character into
`kbd_buf` when `ioq_full` is false. A make code of a control key sets its
flag, and Caps Lock toggles its flag. A break code clears ctrl, shift or alt.
`0xe0` sets `ext_scancode`, and the next byte is or-ed with `0xe000`.

State:

- `st` is the five statics;
- `buf`, `head`, `tail` and `waiter` are `kbd_buf`'s fields;
- `lockHeld` is `ioq->lock`;
- `rpc` is the reader's place in `ioq_getchar`;
- `pending` is the bytes the controller still has to deliver;
- `held`, `capsOn`, `want`, `decoded` and `got` are the environment and
  the history the properties need.

Actions:

- `Press(k)` and `Release(k)` are the user. They queue the scan set 1
  codes of the key, including PrtSc's fake-shift bytes `e0 2a e0 37`.
- `IntrKeyboardHandler` is one interrupt. `Decode` translates lines
  117-244. The bit tests `0x80 & scancode`, `scancode & 0xff7f`,
  `& 0x00ff` and `0xe000 | scancode` are written as exact arithmetic on the
  values that can occur. The put is `IoqPutchar` (lines 77-92). Its wait
  loop is never entered, because the handler tests `ioq_full` first.
- `IoqGetchar` and `ReaderResume` are the consumer's `ioq_getchar`. On an
  empty ring it takes the lock, registers as `consumer` and blocks. After
  `wake_up` it releases the lock and tests again. No thread of this build
  reads `kbd_buf`, so the consumer is the loop a reader would run.

`KeyMap` holds only the rows of the modelled keys. `Expected` is the US
layout, the reference the decoder is compared with: shift for digits, and
shift XOR caps for letters.

`ImplementsKeyboardBuffer` maps the ring onto `KeyboardBuffer`:
`typed <- decoded`, `fifo <- Contents`, `taken <- got` and
`Capacity <- BufSize - 1`. So the ring keeps order and never loses a
character while there is room, and its capacity is `bufsize - 1`.

`TypedAsKeymap` says that each completed scan-code sequence adds exactly the
character the layout gives, and that nothing else adds one.

Fairness:

- IRQ 1 is unmasked and `main` runs with interrupts on, so a pending byte
  is eventually taken (`WF` on `IntrKeyboardHandler`).
- The timer preempts `main`'s loop, so a ready reader eventually runs (`WF`
  on `IoqGetchar` and `ReaderResume`).
- The user is not obliged to type.

Two keymap defects make `TypedAsKeymap` fail, so the run leaves their keys
out (they are hazards in `PROJECT.json`):

- Row `0x2f` is `{'v', 'A'}` (`device/keyboard.c:99`), so shift+v types
  `A`. TLC shows it with the keys {V, LShift, Caps}.
- One `shift_status` serves both shift keys, so pressing both and
  releasing one types lowercase while the other is still held. TLC shows it
  with {A, LShift, RShift}; {A, RShift} alone passes.

The bound is a 3-byte ring holding 2 characters and 8 key events. That is
enough to fill the ring, drop a character and wrap `head` and `tail`. Eight
events also cover PrtSc's four-byte sequence, and Caps with LShift on a
letter.

## 3. Runs

| Run | Config | Bounds | What it shows |
|---|---|---|---|
| `ide_channel` | `IdeChannel.cfg` | 2 workers × 2 requests, drive never BSY at poll | all channel and scheduler invariants; every request completes; refinement of `AbstractChannel` (6,498 states) |
| `ide_channel_slow` | `IdeChannelSlow.cfg` | 3 workers × 2 requests, drive BSY after a write command | mutual exclusion, command ownership and the disk_done handshake survive the yield path, with two lock waiters at once and head-of-list wake-ups (381,402 states, about 6 s) |
| `yield_lost` | `IdeChannelYieldLost.cfg` | 2 workers × 2 requests, drive BSY after a write command | **violation**: `SchedulerConsistent` fails in 7 states |
| `file_create` | `FileCreate.cfg` | main thread, 3 calls with `O_CREAT` on 11 paths (`/n`, `/./n1`, `//n2`, `/n1/n2`, `/.`, `/./.`, `/n2/`), 4 inodes, 4 blocks, malloc may fail, no ASSERT | the inode bitmap is synced and the on-disk tree from the root record is allocated whenever no call runs; a create that fails before `pcb_fd_install` leaves nothing behind; every `dir_open` of path resolution is closed, so the root inode is open once between calls (3,066 states) |
| `entries_lost` | `FileCreateEntriesLost.cfg` | 2 creates, room for both | **violation** of `EntriesFindable` |
| `double_inode_alloc` | `FileCreateRace.cfg` | two threads, one create each | **violation** of `NoHandedOutTwice` (no two creators hold one inode number or one `file_table` slot) |
| `partition_scan` | `PartitionScan.cfg` | 2 disks (one file disk), up to 3 primaries, EBR chains of 0..10 | every image is scanned to exactly the spec's partitions, including the cut at 8 logicals (1,101 states) |
| `four_primaries` | `PartitionScanFourPrimaries.cfg` | up to 4 primaries | **violation** of `ScanNeverHalts` |
| `format_layout` | `FormatLayout.cfg` | 2 slots, every size from 12 to 51 sectors (1 to 3 bitmap sectors), blank or formatted | the layout is ordered and inside the partition, the bitmap's blocks are data sectors (25,920 states) |
| `format_padding` | `FormatLayoutPadding.cfg` | sizes with at least 8 counted blocks | **violation** of `FreeBlocksInPartition` |
| `keyboard` | `Keyboard.cfg` | 3-byte ring (2 characters), 8 key events over A, 1, LShift, Caps, RCtrl, RAlt, Up, PrtSc | the ring implements `KeyboardBuffer` (order kept, drop when full); every completed scan-code sequence types its US-layout character; the buffer always drains |
| `kernel_heap` | `KernelHeap.cfg` | 8 pages, sizes 8, 24, 40, 60 and 512 bytes, 8 calls | each small arena's `cnt` equals its blocks on the free list; live allocations are disjoint, in mapped pages and off the arena headers; virtual pages and frames are taken and given back together; `bitmap_scan` returns the lowest fitting run whenever one exists; every free list stays a well-formed doubly linked list (`FreeListsLinked`) (220,697 states, about 35 s) |

`file_create` has two `file_table` slots and four blocks, so the blocks run
out before the slots fill. The failure of `get_free_slot_in_global` takes
the same rollback actions as a failed `sys_malloc`, but no run reaches it
from a full table.

`FormatLayout`'s sizes run from one data sector to three bitmap sectors.
That covers every residue of the two-pass sizing, both when the second pass
shrinks the bitmap and when it keeps it. It also covers `bit_len` below 8,
at a multiple of 8 and at a multiple of a sector.

`FileCreate`'s bounds are small, and each run sets them so that the case it
asks about happens: the block bitmap runs out inside `sync_dir_entry`, and
`double_inode_alloc` lets two threads read the same free inode bit. The
inode bitmap (4 inodes, 3 calls) and the fd_table never fill in
`file_create`, so the returns at `file.c:126` and `file.c:177` are not
reached there (see the hazards). The allocator takes the lowest free index,
so larger bitmaps only repeat the same shapes.

`KernelHeap`'s sizes cover a 16-byte block, a 32-byte block, a large
request of one page, and a 60-byte one. With the 12-byte arena header the
60-byte request needs a second page, so a page count that forgot the header
would overlap the next allocation (`AllocationsDisjoint`). A request for the
whole pool is refused.

Why these bounds are enough:

- Two workers make every interleaving of two requests on one lock reachable.
  This covers a read against a write and a write against a write.
- Two requests per worker let a thread come back to the lock after a release
  while the other waits.
- The third worker of `ide_channel_slow` puts two threads in the lock's
  queue at once. It also gives the case where a woken thread is pushed ahead
  of a preempted one.
- `NumOps` bounds the runs. There is no other counter.

`KernelHeap`'s eight calls are enough to fill the pool, since page 0 is the
idle PCB and seven pages are left. They also fragment it so that a two-page
request finds no run, and to build and release a three-block arena. The
sizes reach both descriptors, one-page and two-page large requests, and the
refused size `pool_size`. `ScanFirstFit` is evaluated on every reachable
pair of bitmaps, for every count from 1 to 8.

`PartitionScan`'s chains of up to 10 EBRs pass the limit of 8 logicals, so
both the cut and the frames above it returning normally are checked. The
build's image has one file disk, sdb.

### Finding: a thread that yields is lost

`thread_yield` (`thread/thread.c:203-211`) sets the caller's status to
`TASK_READY` and then calls `schedule()`. `schedule()` queues the caller only
if its status is `TASK_RUNNING`, so the yielding thread is in no list and is
never scheduled again.

`busy_wait` reaches `thread_yield` through `mtime_sleep(10)` →
`ticks_to_sleep` whenever the drive reports BSY. That happens in `ide_write`,
which polls right after the write command. The lost thread still holds the
channel lock, so every later disk request blocks forever.

The `yield_lost` run shows the trace. A worker issues a write and finds the
drive BSY. After it yields, the other worker runs, the ready list is empty
and the writer's status is READY.

### Findings in file creation

- **Entries are lost** (`fs/dir.c:150`):
  - The copy loop of `sync_dir_entry` leaves `block_idx` at 12, and the
    search starts there.
  - Every create allocates a fresh indirect table, repoints
    `i_sectors[12]` and writes a table with one pointer.
  - After the two creates of `kernel/main.c`, `/file1` can no longer be
    found.
  - The reuse of a free entry slot (lines 213-229) and "directory full"
    never run.
- **A failed create is not rolled back** (`fs/file.c:177`):
  - `pcb_fd_install` fails after everything is committed.
  - The caller gets -1, but the file, its slot and its cached inode stay.
  - `FailedCreateRollsBack` fails on it with `NumFds = 0`. The `file_create`
    run keeps the `fd_table` free, so that the same property checks the
    rollback of every earlier failure (a failed `sys_malloc`, a full
    `file_table`, a full block bitmap); the mutant that drops case 2's
    `sys_free(new_file_inode)` breaks it. The leak is a hazard in
    `PROJECT.json`.
- **Opening an existing file leaks a directory** (`fs/fs.c:430`):
  - `sys_open` without `O_CREAT` on a file it finds falls through the
    `switch` and returns -1 without `dir_close(search_record.parent_dir)`.
  - When the path went through `.` (`/./n1`), that parent is a heap
    `struct dir` holding the root inode: the `dir` leaks and the root
    inode's open count stays one too high.
  - `RootOpenedOnce` fails on it when `CreatFlags` includes `FALSE`. The
    `file_create` run passes `O_CREAT` only, as `kernel/main.c` does, and
    the hazard is listed in `PROJECT.json`.
- **A failed search creates a duplicate** (`fs/dir.c:39`): when
  `search_dir_entry`'s `sys_malloc` fails it reports "not found", so
  `sys_open` with `O_CREAT` creates the name again; on `/./.` it creates a
  regular file named `.`. The `file_create` run reaches this, which is why
  entry names range over `.` and `..` too.
- **Two creators get the same inode** (`fs/file.c:63`):
  - The scan and the set are separate preemptible steps.
  - The spec requires bitmap mutation to be non-preemptible.
  - `get_free_slot_in_global` and the fill of the slot (`fs/file.c:138`
    and 146) are split the same way. `NoHandedOutTwice` covers both; TLC
    reports the inode race, which comes first in every trace, and with the
    inode conjunct dropped it finds two creators in one `file_table` slot.

The model also has these paths, which no run checks (they are listed as
hazards in `PROJECT.json`):

- `io_buf` is not freed when `inode_bitmap_alloc` fails (`fs/file.c:126`).
  This is reachable only with ASSERT compiled out.
- With ASSERT active, a full bitmap halts the kernel in `bitmap_scan`
  (`lib/kernel/bitmap.c:35`). The -1 checks after it are dead code, although
  the spec promises a failure sentinel.
- With ASSERT compiled out, the indirect-table block is released in memory
  only (`fs/dir.c:182`), after its bit was written to disk.

### Findings in partition scanning

- **The fourth primary partition halts the kernel** (`device/ide.c:344`):
  - `p_no` is incremented before `ASSERT(p_no < 4)`.
  - A disk with four primary entries therefore stops in `panic_spin`,
    although `prim_parts` has four slots.
- **`ext_lba_base` carries over to the next disk** (`device/ide.c:324`).
  This is a hazard, not a run:
  - `ide_init` resets only `p_no` and `l_no` between disks.
  - On a machine with four disks, sdd's MBR extended entry would be taken
    as relative to sdb's extended base. The wrong sector would be read, and
    sdd's logical partitions would be missed.
  - `ScanMatchesReference` would catch it with `HdCnt = 4`. The build's
    image has one file disk, which `partition_scan` covers, and the run
    list keeps no four-disk configuration.

### Findings in formatting

- **The padding frees one block past the partition** (`fs/fs.c:145`):
  - The loop clears bits 0 to `bit_len % 8` inclusive, which is one bit
    more than the `bit_len` blocks the bitmap counts.
  - When the second sizing pass keeps the first estimate, that block is the
    sector after the partition.
  - The trace uses `sec_cnt` 21: blocks 0-8 are data sectors, and bit 9 is
    free.
- A partition with fewer than 8 counted blocks also has bit 0 cleared
  (`fs/fs.c:142`), so the root directory's block is free. The same property
  fails on those sizes.

## 4. Not modelled yet, and the plan

The next modules, in order:

1. The `inode_sync` lost update isolated in a two-thread run of its own.
   The `file_table` slot race is checked with the inode race by
   `NoHandedOutTwice`.
2. The rest of the inode cache: `sys_open` of an existing file (it only
   leaks, see the findings) and `inode_close` reaching zero, which needs an
   inode other than the root to be opened and no code of this tree does.
   `dir_open`, `dir_close` and the root's open count are in `FileCreate`.
3. The thread lists on `List`'s link store. `IdeChannel` keeps the ready
   list and the semaphore waiter lists as sequences (`list_push` at the
   head, `list_append` at the tail, `list_pop`); a thread's one
   `general_tag` moves between them, and its stale links would multiply
   `ide_channel_slow`'s 381,402 states. `list_traversal` (`filesys_init`,
   the partition printer) and `list_len` (debug printers) are not modelled.
4. **BusyWait**: the polling budget of `busy_wait` in `uint16_t` arithmetic.
   Its 29999 polls cannot happen in this build: each poll's `mtime_sleep`
   yields, and the `thread_yield` bug loses the thread on the first.

`inode_open`'s duplicate-entry race (`fs/inode.c:123`) is unreachable in this
tree: with no `mkdir`, only the root inode is ever opened, and it is in the
open list from `mount_partition` on.

Left out:

- `allocate_pid` returns `next_pid` after `lock_release`
  (`thread/thread.c:53`), so a preempted creator could return another
  thread's pid. Only `thread_init` creates threads, before interrupts are
  on, so the race cannot happen in this build;
- `frequency_set` (`device/timer.c:28`) casts before shifting, so the PIT
  is loaded with 0x9b and ticks about 77 times faster than 100 Hz. This is
  arithmetic on constants; the models abstract when a time slice ends;
- `intr_enable`, `intr_disable`, `intr_set_status` and `intr_get_status`
  (`kernel/interrupt.c`): every model treats the code they bracket as one
  step, which is what they provide on one CPU;
- `string.c` and `stdio.c`: byte loops behind names and messages, which the
  models keep as model values;
- console and printing;
- IDT/PIC setup;
- user processes (`main.c` starts none);
- partitions smaller than the file system's metadata: `free_sects`
  underflows (`fs/fs.c:81`), and the sizes that follow are too large to
  enumerate;
- the user pool, per-process block descriptors, `get_a_page` and
  `get_user_page`: no process runs in this build;
- `mem_pool_init`: boot-time arithmetic on one loader-reported value. It
  has no states to explore, and TLC does not report a constant-level check
  as an invariant. Its `uint16_t` page count (`kernel/memory.c:249`) is
  listed as a hazard;
- the contents of heap blocks, and so `search_dir_entry`'s reading of stale
  words left by the no-op `memset` (`kernel/memory.c:440`);
- `filesys_init` on a second file disk (`part_idx` is never reset,
  `fs/fs.c:215`).
