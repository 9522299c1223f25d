\* The drive is BSY when busy_wait polls after a write command: the worker
\* sleeps through thread_yield, which marks it READY without queueing it.
CONSTANTS
  w1 = w1
  w2 = w2
  w3 = w3
  idle = idle
  null = null
  Workers <- MCWorkers2
  Idle <- idle
  NULL <- null
  NumOps = 2
  SlowDevice = TRUE
SPECIFICATION Spec
INVARIANT SchedulerConsistent
