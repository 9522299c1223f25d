\* kernel/main.c: two creates in a row with room for both; the first file must still be found after the second.
CONSTANTS
  main = main
  t2 = t2
  n1 = n1
  n2 = n2
  null = null
  NULL <- null
  Threads <- MCThreads1
  Names <- MCNames
  Paths <- MCRootPaths
  CreatFlags <- MCAnyFlags
  NumCalls = 2
  NumInodes = 4
  NumBlocks = 6
  NumSlots = 2
  NumFds = 5
  MallocMayFail = FALSE
  NDEBUG = FALSE
SPECIFICATION Spec
INVARIANT EntriesFindable
