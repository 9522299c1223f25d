\* Two threads create files at once, preempted anywhere.
CONSTANTS
  main = main
  t2 = t2
  n1 = n1
  n2 = n2
  null = null
  NULL <- null
  Threads <- MCThreads2
  Names <- MCNames
  Paths <- MCRootPaths
  CreatFlags <- MCAnyFlags
  NumCalls = 1
  NumInodes = 4
  NumBlocks = 6
  NumSlots = 2
  NumFds = 5
  MallocMayFail = FALSE
  NDEBUG = FALSE
SPECIFICATION Spec
INVARIANT NoHandedOutTwice
