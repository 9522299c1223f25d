\* Two workers, two requests each, the drive never BSY when polled.
CONSTANTS
  w1 = w1
  w2 = w2
  w3 = w3
  idle = idle
  null = null
  Workers <- MCWorkers2
  Idle <- idle
  NULL <- null
  NumOps = 2
  SlowDevice = FALSE
SPECIFICATION Spec
INVARIANT TypeOK
INVARIANT ChannelMutex
INVARIANT CommandOwnership
INVARIANT DiskDoneHandshake
INVARIANT SchedulerConsistent
INVARIANT WaitersConsistent
PROPERTY RequestsComplete
PROPERTY ImplementsAbstractChannel
