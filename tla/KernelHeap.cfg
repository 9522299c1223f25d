\* Kernel heap: sys_malloc and sys_free by the main thread.
CONSTANTS
  PageSize = 64
  ArenaSize = 12
  DescCnt = 2
  PoolPages = 8
  Sizes <- MCSizes
  MaxCalls = 8
SPECIFICATION Spec
INVARIANT TypeOK
INVARIANT FreeListsMatchArenas
INVARIANT AllocationsDisjoint
INVARIANT PoolsInStep
INVARIANT ScanFirstFit
INVARIANT FreeListsLinked
