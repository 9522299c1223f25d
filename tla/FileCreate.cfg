\* Sequential creates by the main thread, as kernel/main.c does, until the
\* block bitmap runs out in the middle of sync_dir_entry, with sys_malloc
\* allowed to fail and ASSERT compiled out.
CONSTANTS
  main = main
  t2 = t2
  n1 = n1
  n2 = n2
  null = null
  NULL <- null
  Threads <- MCThreads1
  Names <- MCNames
  Paths <- MCPaths
  CreatFlags <- MCCreatOnly
  NumCalls = 3
  NumInodes = 4
  NumBlocks = 4
  NumSlots = 2
  NumFds = 5
  MallocMayFail = TRUE
  NDEBUG = TRUE
SPECIFICATION Spec
INVARIANT TypeOK
INVARIANT InodeBitmapSynced
INVARIANT DiskTreeAllocated
INVARIANT FailedCreateRollsBack
INVARIANT RootOpenedOnce
