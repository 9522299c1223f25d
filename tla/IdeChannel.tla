------------------------------ MODULE IdeChannel ------------------------------
(***************************************************************************)
(* One IDE channel (device/ide.c) used by several kernel threads on the    *)
(* single CPU.  The threads are switched by the scheduler of               *)
(* thread/thread.c (schedule, thread_block, thread_unblock, thread_yield), *)
(* serialise on the channel lock and wait for the disk on the channel      *)
(* semaphore disk_done (thread/sync.c).  The drive raises IRQ 14 when a    *)
(* command completes and intr_hd_handler posts disk_done.                  *)
(*                                                                         *)
(* A step of a thread is a stretch of code that runs with interrupts       *)
(* enabled between two points where the timer or the disk may interrupt;   *)
(* the code run with interrupts disabled (sema_down, sema_up, schedule,    *)
(* list operations) is inside one step.  Each worker issues NumOps         *)
(* requests of one sector (sec_cnt is a uint8_t, so the chunk loop of      *)
(* ide_read/ide_write runs exactly once).  Sector contents are abstracted: *)
(* a command is identified by the thread that programmed the registers.   *)
(***************************************************************************)
EXTENDS Naturals, Sequences, SequencesExt

CONSTANTS
  Workers,     \* kernel threads that call ide_read / ide_write
  Idle,        \* idle_thread
  NULL,        \* the NULL pointer (lock holder, register owner)
  NumOps,      \* requests each worker issues
  SlowDevice   \* TRUE: after a write command the drive is BSY before DRQ

ASSUME /\ Idle \notin Workers
       /\ NumOps \in Nat \ {0}
       /\ SlowDevice \in BOOLEAN

Threads == Workers \cup {Idle}

VARIABLES
  status,     \* task_struct.status of every thread
  running,    \* running_thread()
  ready,      \* thread_ready_list, head first
  pc,         \* where each worker is in ide_read / ide_write
  op,         \* "read" or "write": the request a worker is serving
  opsLeft,    \* requests a worker has still to issue
  holder,     \* channel->lock.holder
  repeat,     \* channel->lock.holder_repeat_nr
  lockSema,   \* channel->lock.semaphore: [value, waiters]
  diskDone,   \* channel->disk_done: [value, waiters]
  expecting,  \* channel->expecting_intr
  regs,       \* thread whose request the task-file registers hold
  dev,        \* the drive: [st |-> state, owner |-> issuer of its command]
  irq         \* IRQ 14 raised and not yet serviced

vars == <<status, running, ready, pc, op, opsLeft, holder, repeat, lockSema,
          diskDone, expecting, regs, dev, irq>>
chan == <<holder, repeat, lockSema, diskDone, expecting, regs, dev, irq>>

(* Labels of a worker.  "start" is the top of the worker loop; the others *)
(* are the preemption points inside ide_read / ide_write.                 *)
ReadPath  == {"rwait", "rpoll", "rxfer"}
WritePath == {"wpoll", "wxfer", "wwait"}
Holding   == {"sel", "cmd1", "cmd2", "rel"} \cup ReadPath \cup WritePath
Labels    == {"start", "acq"} \cup Holding

(* Drive states: BSY while executing, DRQ when data can be transferred. *)
DevStates == {"idle", "rbusy", "rdrq", "wbusy", "wdrq", "wflush"}
BSY(s) == s \in {"rbusy", "wbusy", "wflush"}
DRQ(s) == s \in {"rdrq", "wdrq"}

-----------------------------------------------------------------------------
(* Scheduler: thread/thread.c                                              *)

(* schedule(): the caller has already set its own status in st.  A        *)
(* running caller is appended to the ready list; an empty ready list wakes *)
(* the idle thread; the head of the ready list runs next.                 *)
(* Mutant: the running caller is not put back on the ready list. *)
ScheduleNoRequeue(st, rq) ==
  LET rq2 == IF rq = <<>> THEN <<Idle>> ELSE rq
      st2 == IF rq = <<>> THEN [st EXCEPT ![Idle] = "READY"] ELSE st
  IN /\ running' = Head(rq2)
     /\ ready'   = Tail(rq2)
     /\ status'  = [st2 EXCEPT ![Head(rq2)] = "RUNNING"]

Schedule(st, rq) ==
  LET cur  == running
      rq1  == IF st[cur] = "RUNNING" THEN Append(rq, cur) ELSE rq
      st1  == IF st[cur] = "RUNNING" THEN [st EXCEPT ![cur] = "READY"] ELSE st
      rq2  == IF rq1 = <<>> THEN <<Idle>> ELSE rq1
      st2  == IF rq1 = <<>> THEN [st1 EXCEPT ![Idle] = "READY"] ELSE st1
      next == Head(rq2)
  IN /\ running' = next
     /\ ready'   = Tail(rq2)
     /\ status'  = [st2 EXCEPT ![next] = "RUNNING"]

(* thread_block(stat): the running thread marks itself blocked and        *)
(* schedules another one.                                                  *)
ThreadBlock(t, rq) == Schedule([status EXCEPT ![t] = "BLOCKED"], rq)

(* thread_yield(): the running thread marks itself READY and schedules.   *)
ThreadYield(t) == Schedule([status EXCEPT ![t] = "READY"], ready)

(* thread_unblock(p): a blocked thread is pushed at the head of the ready *)
(* list (list_push).  Returns the new status table and ready list.        *)
ThreadUnblock(p, st, rq) ==
  [st |-> [st EXCEPT ![p] = "READY"], rq |-> Cons(p, rq)]

-----------------------------------------------------------------------------
(* Semaphore: thread/sync.c.  value is a uint8_t.                          *)

(* sema_up(s): wake the first waiter, then increment the value.  Returns  *)
(* the new semaphore, status table and ready list.                         *)
(* Mutant: the first waiter is dequeued but never unblocked. *)
SemaUpNoUnblock(s, st, rq) ==
  [sema |-> [value   |-> (s.value + 1) % 256,
             waiters |-> IF s.waiters = <<>> THEN <<>> ELSE Tail(s.waiters)],
   st |-> st, rq |-> rq]

SemaUp(s, st, rq) ==
  IF s.waiters = <<>>
  THEN [sema |-> [s EXCEPT !.value = (@ + 1) % 256], st |-> st, rq |-> rq]
  ELSE LET u == ThreadUnblock(Head(s.waiters), st, rq)
       IN [sema |-> [value |-> (s.value + 1) % 256, waiters |-> Tail(s.waiters)],
           st |-> u.st, rq |-> u.rq]

(* sema_down(s) blocks while the value is zero ... *)
(* Mutant: the test of a signed counter, never true of a uint8_t. *)
SemaMustWaitSigned(s) == s.value < 0
SemaMustWait(s) == s.value = 0
(* ... by appending the caller to the waiters and calling thread_block.    *)
SemaEnqueue(s, t) == [s EXCEPT !.waiters = Append(@, t)]
(* Once the value is positive, it is decremented.                          *)
SemaTake(s) == [s EXCEPT !.value = (@ + 256 - 1) % 256]

-----------------------------------------------------------------------------
(* Worker steps: device/ide.c ide_read / ide_write                         *)

Running(t) == running = t

(* Mutant: the caller's request loop has lost its bound. *)
StartUnbounded(t) ==
  /\ Running(t) /\ pc[t] = "start"
  /\ \E o \in {"read", "write"} : op' = [op EXCEPT ![t] = o]
  /\ opsLeft' = [opsLeft EXCEPT ![t] = @ - 1]
  /\ pc' = [pc EXCEPT ![t] = "acq"]
  /\ UNCHANGED <<status, running, ready, chan>>

(* The worker loop picks its next request. *)
Start(t) ==
  /\ Running(t) /\ pc[t] = "start" /\ opsLeft[t] > 0
  /\ \E o \in {"read", "write"} : op' = [op EXCEPT ![t] = o]
  /\ opsLeft' = [opsLeft EXCEPT ![t] = @ - 1]
  /\ pc' = [pc EXCEPT ![t] = "acq"]
  /\ UNCHANGED <<status, running, ready, chan>>

(* lock_acquire(&channel->lock): a holder re-entering counts the repeat;  *)
(* otherwise sema_down on the lock's semaphore; a woken waiter stays at    *)
(* "acq" and tests the value again (the while loop of sema_down).          *)
(* Mutant: any held lock is taken for a re-entry of the caller. *)
LockAcquireAnyHolder(t) ==
  /\ Running(t) /\ pc[t] = "acq"
  /\ IF holder # NULL
     THEN /\ repeat' = repeat + 1
          /\ pc' = [pc EXCEPT ![t] = "sel"]
          /\ UNCHANGED <<status, running, ready, holder, lockSema>>
     ELSE /\ lockSema' = SemaTake(lockSema)
          /\ holder' = t
          /\ repeat' = 1
          /\ pc' = [pc EXCEPT ![t] = "sel"]
          /\ UNCHANGED <<status, running, ready>>
  /\ UNCHANGED <<op, opsLeft, diskDone, expecting, regs, dev, irq>>

LockAcquire(t) ==
  /\ Running(t) /\ pc[t] = "acq"
  /\ IF holder = t
     THEN /\ repeat' = repeat + 1
          /\ pc' = [pc EXCEPT ![t] = "sel"]
          /\ UNCHANGED <<status, running, ready, holder, lockSema>>
     ELSE IF SemaMustWait(lockSema)
     THEN /\ lockSema' = SemaEnqueue(lockSema, t)
          /\ ThreadBlock(t, ready)
          /\ UNCHANGED <<pc, holder, repeat>>
     ELSE /\ lockSema' = SemaTake(lockSema)
          /\ holder' = t
          /\ repeat' = 1
          /\ pc' = [pc EXCEPT ![t] = "sel"]
          /\ UNCHANGED <<status, running, ready>>
  /\ UNCHANGED <<op, opsLeft, diskDone, expecting, regs, dev, irq>>

(* select_disk and select_sector program the drive/head, count and LBA    *)
(* registers with this thread's request.                                   *)
SelectSector(t) ==
  /\ Running(t) /\ pc[t] = "sel"
  /\ regs' = t
  /\ pc' = [pc EXCEPT ![t] = "cmd1"]
  /\ UNCHANGED <<status, running, ready, op, opsLeft, holder, repeat, lockSema,
                 diskDone, expecting, dev, irq>>

(* cmd_out, first statement: expecting_intr = true. *)
(* Mutant: cmd_out no longer announces the interrupt. *)
CmdOutFlagDropped(t) ==
  /\ Running(t) /\ pc[t] = "cmd1"
  /\ pc' = [pc EXCEPT ![t] = "cmd2"]
  /\ UNCHANGED <<status, running, ready, op, opsLeft, chan>>

CmdOutFlag(t) ==
  /\ Running(t) /\ pc[t] = "cmd1"
  /\ expecting' = TRUE
  /\ pc' = [pc EXCEPT ![t] = "cmd2"]
  /\ UNCHANGED <<status, running, ready, op, opsLeft, holder, repeat, lockSema,
                 diskDone, regs, dev, irq>>

(* cmd_out, second statement: outb of the command; the drive starts the   *)
(* command held in the registers.  ide_read then waits on disk_done,      *)
(* ide_write polls for DRQ.                                                *)
CmdOutWrite(t) ==
  /\ Running(t) /\ pc[t] = "cmd2"
  /\ dev' = [st    |-> IF op[t] = "read" THEN "rbusy"
                       ELSE IF SlowDevice THEN "wbusy" ELSE "wdrq",
             owner |-> regs]
  /\ pc' = [pc EXCEPT ![t] = IF op[t] = "read" THEN "rwait" ELSE "wpoll"]
  /\ UNCHANGED <<status, running, ready, op, opsLeft, holder, repeat, lockSema,
                 diskDone, expecting, regs, irq>>

(* sema_down(&channel->disk_done): ide_read after the command, ide_write  *)
(* after the data transfer.                                                *)
WaitDiskDone(t) ==
  /\ Running(t) /\ pc[t] \in {"rwait", "wwait"}
  /\ IF SemaMustWait(diskDone)
     THEN /\ diskDone' = SemaEnqueue(diskDone, t)
          /\ ThreadBlock(t, ready)
          /\ UNCHANGED pc
     ELSE /\ diskDone' = SemaTake(diskDone)
          /\ pc' = [pc EXCEPT ![t] = IF pc[t] = "rwait" THEN "rpoll" ELSE "rel"]
          /\ UNCHANGED <<status, running, ready>>
  /\ UNCHANGED <<op, opsLeft, holder, repeat, lockSema, expecting, regs, dev, irq>>

(* busy_wait: while the drive is BSY, mtime_sleep(10), which calls        *)
(* thread_yield until a tick has passed; once it is not BSY, the result is *)
(* its DRQ bit, and ide_read / ide_write PANIC on FALSE.  The 30000-poll   *)
(* budget is not modelled: the drive leaves BSY in every behaviour.        *)
BusyWait(t) ==
  /\ Running(t) /\ pc[t] \in {"rpoll", "wpoll"}
  /\ IF BSY(dev.st)
     THEN /\ ThreadYield(t)
          /\ UNCHANGED pc
     ELSE /\ pc' = [pc EXCEPT ![t] =
                      IF ~DRQ(dev.st) THEN "panic"
                      ELSE IF pc[t] = "rpoll" THEN "rxfer" ELSE "wxfer"]
          /\ UNCHANGED <<status, running, ready>>
  /\ UNCHANGED <<op, opsLeft, chan>>

(* read_from_sector: insw drains the drive's buffer. *)
ReadFromSector(t) ==
  /\ Running(t) /\ pc[t] = "rxfer"
  /\ dev' = [dev EXCEPT !.st = "idle"]
  /\ pc' = [pc EXCEPT ![t] = "rel"]
  /\ UNCHANGED <<status, running, ready, op, opsLeft, holder, repeat, lockSema,
                 diskDone, expecting, regs, irq>>

(* write_to_sector: outsw fills the drive's buffer, which it then writes. *)
WriteToSector(t) ==
  /\ Running(t) /\ pc[t] = "wxfer"
  /\ dev' = [dev EXCEPT !.st = "wflush"]
  /\ pc' = [pc EXCEPT ![t] = "wwait"]
  /\ UNCHANGED <<status, running, ready, op, opsLeft, holder, repeat, lockSema,
                 diskDone, expecting, regs, irq>>

(* lock_release(&channel->lock): a repeated hold is counted down;         *)
(* otherwise holder = NULL and sema_up on the lock's semaphore.            *)
LockRelease(t) ==
  /\ Running(t) /\ pc[t] = "rel"
  /\ IF repeat > 1
     THEN /\ repeat' = repeat - 1
          /\ UNCHANGED <<status, ready, holder, lockSema>>
     ELSE LET u == SemaUp(lockSema, status, ready)
          IN /\ holder' = NULL
             /\ repeat' = 0
             /\ lockSema' = u.sema
             /\ status' = u.st
             /\ ready' = u.rq
  /\ pc' = [pc EXCEPT ![t] = "start"]
  /\ UNCHANGED <<running, op, opsLeft, diskDone, expecting, regs, dev, irq>>

-----------------------------------------------------------------------------
(* Interrupts and the idle thread                                          *)

(* intr_hd_handler: runs on the interrupted thread; an interrupt the      *)
(* channel expects clears expecting_intr and posts disk_done.              *)
(* Mutant: the handler posts disk_done only when a thread already sleeps *)
(* on it, so a command that completes before its issuer reaches sema_down *)
(* loses its post.                                                        *)
IntrHdHandlerOnlyIfWaiting ==
  /\ irq
  /\ irq' = FALSE
  /\ IF expecting /\ diskDone.waiters # <<>>
     THEN LET u == SemaUp(diskDone, status, ready)
          IN /\ diskDone' = u.sema
             /\ status' = u.st
             /\ ready' = u.rq
     ELSE UNCHANGED <<diskDone, status, ready>>
  /\ expecting' = FALSE
  /\ UNCHANGED <<running, pc, op, opsLeft, holder, repeat, lockSema, regs, dev>>

IntrHdHandler ==
  /\ irq
  /\ irq' = FALSE
  /\ IF expecting
     THEN LET u == SemaUp(diskDone, status, ready)
          IN /\ expecting' = FALSE
             /\ diskDone' = u.sema
             /\ status' = u.st
             /\ ready' = u.rq
     ELSE UNCHANGED <<expecting, diskDone, status, ready>>
  /\ UNCHANGED <<running, pc, op, opsLeft, holder, repeat, lockSema, regs, dev>>

(* intr_timer_handler when the running thread's time slice is used up:    *)
(* schedule() with the thread still RUNNING.  The tick counting that       *)
(* decides when is abstracted: the slice may end at any preemption point.  *)
TimerSchedule ==
  /\ Schedule(status, ready)
  /\ UNCHANGED <<pc, op, opsLeft, chan>>

(* idle(): after hlt returns, thread_block(TASK_BLOCKED). *)
IdleStep ==
  /\ Running(Idle)
  /\ ThreadBlock(Idle, ready)
  /\ UNCHANGED <<pc, op, opsLeft, chan>>

(* The drive finishes a read: data ready (DRQ) and IRQ raised. *)
DevReadDone ==
  /\ dev.st = "rbusy"
  /\ dev' = [dev EXCEPT !.st = "rdrq"]
  /\ irq' = TRUE
  /\ UNCHANGED <<status, running, ready, pc, op, opsLeft, holder, repeat,
                 lockSema, diskDone, expecting, regs>>

(* The drive accepts a write command: it asks for the data (DRQ). *)
DevWriteReady ==
  /\ dev.st = "wbusy"
  /\ dev' = [dev EXCEPT !.st = "wdrq"]
  /\ UNCHANGED <<status, running, ready, pc, op, opsLeft, holder, repeat,
                 lockSema, diskDone, expecting, regs, irq>>

(* The drive has written the sector: IRQ raised. *)
DevWriteDone ==
  /\ dev.st = "wflush"
  /\ dev' = [dev EXCEPT !.st = "idle"]
  /\ irq' = TRUE
  /\ UNCHANGED <<status, running, ready, pc, op, opsLeft, holder, repeat,
                 lockSema, diskDone, expecting, regs>>

-----------------------------------------------------------------------------
(* thread_init, ide_init: the channel is idle, its lock free, disk_done   *)
(* 0; one worker runs, the others are in the ready list in any order, and  *)
(* the idle thread has blocked itself.                                     *)
Init ==
  /\ \E w \in Workers :
       /\ running = w
       /\ ready \in SetToSeqs(Workers \ {w})
  /\ status = [t \in Threads |-> IF t = Idle THEN "BLOCKED"
                                 ELSE IF t = running THEN "RUNNING" ELSE "READY"]
  /\ pc = [t \in Workers |-> "start"]
  /\ op = [t \in Workers |-> "read"]
  /\ opsLeft = [t \in Workers |-> NumOps]
  /\ holder = NULL
  /\ repeat = 0
  /\ lockSema = [value |-> 1, waiters |-> <<>>]
  /\ diskDone = [value |-> 0, waiters |-> <<>>]
  /\ expecting = FALSE
  /\ regs = NULL
  /\ dev = [st |-> "idle", owner |-> NULL]
  /\ irq = FALSE

WorkerStep(t) ==
  \/ Start(t) \/ LockAcquire(t) \/ SelectSector(t) \/ CmdOutFlag(t)
  \/ CmdOutWrite(t) \/ WaitDiskDone(t) \/ BusyWait(t) \/ ReadFromSector(t)
  \/ WriteToSector(t) \/ LockRelease(t)

Next ==
  \/ \E t \in Workers : WorkerStep(t)
  \/ IntrHdHandler
  \/ TimerSchedule
  \/ IdleStep
  \/ DevReadDone \/ DevWriteReady \/ DevWriteDone

(* A scheduled thread runs for at least one tick of its slice before the   *)
(* timer can take the CPU again, so a worker that is scheduled infinitely  *)
(* often takes its step (strong fairness); the drive completes what it     *)
(* started; a raised IRQ is serviced; the timer keeps ticking.             *)
Fairness ==
  /\ \A t \in Workers : SF_vars(WorkerStep(t))
  /\ WF_vars(IntrHdHandler)
  /\ WF_vars(DevReadDone) /\ WF_vars(DevWriteReady) /\ WF_vars(DevWriteDone)
  /\ WF_vars(TimerSchedule)

Spec == Init /\ [][Next]_vars /\ Fairness

-----------------------------------------------------------------------------
(* Properties                                                              *)

TypeOK ==
  /\ status \in [Threads -> {"RUNNING", "READY", "BLOCKED"}]
  /\ running \in Threads
  /\ ready \in Seq(Threads)
  /\ pc \in [Workers -> Labels \cup {"panic"}]
  /\ op \in [Workers -> {"read", "write"}]
  /\ opsLeft \in [Workers -> 0..NumOps]
  /\ holder \in Workers \cup {NULL}
  /\ repeat \in Nat
  /\ lockSema \in [value : 0..255, waiters : Seq(Workers)]
  /\ diskDone \in [value : 0..255, waiters : Seq(Workers)]
  /\ expecting \in BOOLEAN
  /\ regs \in Workers \cup {NULL}
  /\ dev \in [st : DevStates, owner : Workers \cup {NULL}]
  /\ irq \in BOOLEAN

(* The channel lock serialises ide_read and ide_write: at most one worker *)
(* is between lock_acquire and the end of lock_release, and it is the     *)
(* lock's holder (no interleaved register programming).                   *)
ChannelMutex ==
  \A t \in Workers : pc[t] \in Holding =>
     /\ holder = t
     /\ \A u \in Workers \ {t} : pc[u] \notin Holding

(* The command a worker waits for, polls and transfers is the one it      *)
(* programmed: the registers hold its request from select_sector to       *)
(* cmd_out, and the drive works for it from cmd_out to the transfer.       *)
CommandOwnership ==
  \A t \in Workers :
     /\ pc[t] \in {"cmd1", "cmd2"} => regs = t
     /\ pc[t] \in ReadPath \cup WritePath => dev.owner = t

(* disk_done is a binary handshake: it is never posted twice (the ASSERT  *)
(* in sema_up); while a command is expected it holds no stale post; a     *)
(* post belongs to the lock holder that is about to wait for it; and a     *)
(* worker asleep on it waits for a command that will still interrupt.      *)
DiskDoneHandshake ==
  /\ diskDone.value <= 1
  /\ expecting => diskDone.value = 0
  /\ diskDone.value = 1 => holder # NULL /\ pc[holder] \in {"rwait", "wwait"}
  /\ \A t \in ToSet(diskDone.waiters) :
        expecting /\ dev.owner = t /\ (dev.st # "idle" \/ irq)

(* Scheduler bookkeeping: exactly the running thread is RUNNING, and a    *)
(* thread is READY exactly when it is in the ready list, once.  A READY   *)
(* thread missing from the list would never run again.                    *)
SchedulerConsistent ==
  /\ status[running] = "RUNNING"
  /\ \A t \in Threads \ {running} : status[t] # "RUNNING"
  /\ \A t \in Threads : status[t] = "READY" <=> t \in ToSet(ready)
  /\ IsInjective(ready)

(* No lost wake-up: a blocked worker is queued on exactly one of the two  *)
(* semaphores, whose sema_up will unblock it.                              *)
WaitersConsistent ==
  \A t \in Workers :
     status[t] = "BLOCKED" <=>
        (t \in ToSet(lockSema.waiters)) # (t \in ToSet(diskDone.waiters))

(* Every request a worker starts is eventually completed: ide_read or     *)
(* ide_write returns and the worker is back at the top of its loop.       *)
RequestsComplete ==
  \A t \in Workers : pc[t] = "acq" ~> pc[t] = "start"

-----------------------------------------------------------------------------
(* Refinement of AbstractChannel: a worker is in the critical section from *)
(* the moment it takes the lock to the end of lock_release.                *)
AbsPc == [t \in Workers |-> IF pc[t] \in Holding \cup {"panic"} THEN "cs" ELSE pc[t]]

Abs == INSTANCE AbstractChannel WITH apc <- AbsPc, left <- opsLeft

(* ide_read and ide_write, with the scheduler, the semaphores and the     *)
(* drive underneath, implement the atomic channel: one request at a time, *)
(* each granted request served, each asking worker eventually granted.    *)
ImplementsAbstractChannel == Abs!ASpec

=============================================================================
