\* Three workers, two requests each, the drive BSY when busy_wait polls after
\* a write command: the yield path, two lock waiters at once.
CONSTANTS
  w1 = w1
  w2 = w2
  w3 = w3
  idle = idle
  null = null
  Workers <- MCWorkers3
  Idle <- idle
  NULL <- null
  NumOps = 2
  SlowDevice = TRUE
SPECIFICATION Spec
INVARIANT TypeOK
INVARIANT ChannelMutex
INVARIANT CommandOwnership
INVARIANT DiskDoneHandshake
INVARIANT WaitersConsistent
