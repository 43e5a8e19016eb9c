# A TLA+ model of uCnix

uCnix is a small Unix-like kernel for ARMv8-M microcontrollers: about 5 800
lines of C and assembly next to vendored register headers. It has preemptive
processes with a parent and child tree, signals, a first-fit allocator, a
virtual file system and interrupt-driven drivers, and no tests. This
directory specifies its core in TLA+, model-checks it with TLC, and proves the
safety properties of its mutex, its process life cycle, its heap, its open files,
its path walk and reads, its serial driver and its terminal with TLAPS.

Constants are those of the shipped `.config`: `PROC_MAX_PROC` is 4, the kernel
heap has 64 descriptors and units of one byte, the page heap 8 descriptors and
units of 16 bytes. Paths below are relative to the repository (`src/`).

## 1. Inventory

| Component | State | Operations | What is hard | What makes it correct |
|---|---|---|---|---|
| **Scheduler**: `kernel/proc.c`, `arch/armv8-m/proc.c`, `context_switch.S`, `time.c` | `current_process`, the state of every process, the ring `proc_run_queue`, `proc_sched_started` | `proc_enqueue`, `proc_dequeue`, `proc_sched_new_task`, `proc_block`, `proc_unblock_process`, `proc_schedule`, SysTick and PendSV | preemption between any two instructions that run with interrupts enabled; a ring of fixed size that keeps stale entries; a BKPT when nothing is ready | nobody is lost but the process that wakes another into a full ring, the processor never runs dry, round robin starves nobody who is queued |
| **Kernel mutex**: `kernel/lock.c` | `lock`, `owner`, `count` and a wait queue | `mutex_lock` (recursive), `mutex_unlock` (hands the mutex over) | interrupts are enabled again *before* `proc_block` and before `proc_unblock_process` | mutual exclusion, FIFO order, who is woken has the mutex |
| **Wait queues**: `kernel/waiter.c` | head and tail per queue, `wait_next` and `waiting_on` in the processes | `waiter_push`, `waiter_pop`, `waiter_remove` | an intrusive list: one missed reset links a process into two queues | a queue holds exactly those that wait on it |
| **Processes and signals**: `kernel/proc.c`, `kernel/exec.c`, the loop of `kernel/init.c` | the active list, pid, ppid, `exit_code`, state, free lists of pids, stacks and records | `sys_spawn`, `sys_exit`, `sys_kill`, `sys_waitpid`, `proc_mark_zombie`, `proc_reap`, `kernel_init_process` | system calls of several processes interleave; SIGCHLD and SIGCONT unblock whatever a process is blocked on; SIGKILL kills in the middle of a call; records are used again, the free lists have no lock | the list changes only under its lock, children always have a live parent, the dead stay dead, no wake-up is missed |
| **Heap**: `kernel/alloc.c`, used by `lib/kmalloc.c` and `kernel/page.c` | an array of block descriptors in address order and a stack of unused ones | `heap_init`, `heap_alloc`, `heap_free`, `try_coalesce` | links relinked in two halves; rounding to units; running out of descriptors before memory | outstanding pointers are disjoint, descriptors are conserved, free neighbours merge |
| **Serial driver**: `drivers/usart/mcxa153_usart.c` | a transmit and a receive ring, CTRL.TIE | `writeb`, `readb`, `usart_interrupt` | handler against process on the same indices; the transmit interrupt is switched off and on | each character once and in order, and all of them sent |
| **System call entry**: `svc_call.S`, `arch/armv8-m/syscall.c` | the two contexts in `struct proc`, `kernel_mode`, `kill_pending` | `svc_handler`, `syscall_thread_main` | contexts swapped in place by field offset; a process may die while they are swapped | the kernel stack of a process goes back where it came from |
| **VFS, open files**: `fs/vfs.c`, descriptors in `kernel/proc.c` | `vfs_file_table`, its free list, `local_fd_table` of each process | open, close, dup, read, write, inheritance in `sys_spawn`, the closing in `proc_reap` | a 4-bit count in one word with the offset, changed with and without the lock; error paths that keep a reference or a lock; death in the middle of a section | a count equals its references, no file in use is handed out again |
| **VFS, names**: `fs/vfs.c` with `fs/ucfs.c`, `fs/devfs.c` | dentry ring, inode list, mount table, one scratch buffer per file system | `vfs_walk_rel`, `vfs_read_dentry`, `vfs_read_inode`, `check_mount`, `lookup` and `read_i` of both file systems | look-up and insertion in different critical sections, buffers and dentries without a lock, crossing a mount up and down | a walk ends at the inode that the path names |
| **uCFS files**: `fs/ucfs.c` | `scratch_buffer`, `indirect_buffer` | `ucfs_read` | arithmetic at block boundaries and at the end of the file; a block number of 8 bits; an offset that moves during the call | the bytes read are those of the file, and no more than asked for |
| **tty**: `drivers/tty/tty.c` | the line of a call, its index | `tty_read` with echo and editing, `tty_write` | several readers and writers character by character; backspace on an empty line; spinning on a full ring | the user sees the line that the program gets |
| **Device and interrupt registries**: `kernel/device.c`, `kernel/devtbl.c`, `fs/idapi.c`, `arch/armv8-m/interrupt.c` | tables of drivers, devices, handlers | register, look up, dispatch | filled at boot by one process | a handler gets its own device |
| **Other drivers**: i2c, gpio, hd44xxx, romdisk, lpc55s69 usart | device registers | transfers | the timeout loop of i2c | a transfer ends |
| **Rest**: boot, faults, panic, sysctl, uname, time, string helpers | constants and counters | | straight-line code | |

How they interact. Every component that allocates calls the heap, which holds
`alloc_mut`. The process list is protected by `proc_acces_lock`, the VFS by
mutexes of its own; both are kernel mutexes. A mutex uses a wait queue, and
both use the scheduler to block and unblock. Signals go around the mutexes:
`proc_send_sig` calls `proc_unblock_process` and `proc_block` itself. Drivers
share rings with interrupt handlers and disable interrupts. The terminal spins
on the rings of the serial driver. `proc_reap` closes files, and `sys_spawn`
hands descriptors to the new process. Every system call
runs on a kernel stack of the calling process and is preempted like user code.

## 2. Modules and code

| Module | Models | State and actions in terms of the code |
|---|---|---|
| `Scheduler` | scheduler | `run_queue` is the ring, oldest entry first. `NewTask` is the loop of `proc_sched_new_task`; `Block`, `Unblock`, `Schedule` are the three functions that end in a switch, `Preempt` is SysTick with PendSV. A section that runs with interrupts disabled is one step. Registers and stacks are left out. |
| `Waiter` | wait queues | the four pointers, and one operator per function. |
| `KernelMutex` | `lock.c` on the two above | one action per path of `mutex_lock` and `mutex_unlock`, cut where the code enables interrupts: `pc = "block"` is the gap between lines 30 and 31, `pc = "wake"` the one between lines 63 and 64. `depth` is a history of who came out of `mutex_lock`. Process 0 takes mutexes only until it has started process 1 (`Alone`); what it may still do then is release `proc_acces_lock`, with which `proc_kill` started it (`init.c:92`), perhaps by handing it over. Its loop runs with the scheduler stopped. |
| `FifoLock` | what a mutex promises | a recursive lock that a release hands to the longest waiting process. `KernelMutex` implements it (`ImplementsFifoLock`), with the queue read off the pointers. |
| `Iteration` | | lemmas that the proofs share: induction over the naturals stated for sets, functions that iterate a step. |
| `KernelMutexProofs` | | theorems about `KernelMutex`, among them that refinement. |
| `Lifecycle` | processes and signals on `KernelMutex` | `at` is the place in a system call; `Kill`, `Wait` and `Spawn` list the steps of their calls in order. `listed` is `proc_active_list`. A process stands for its record, pid and thread, and a freed record is used again. `MarkZombie` is one step, as the code stops the scheduler. `spurious`, `early` and `killed` are histories (section 3). SIGKILL takes a process wherever it is, since `kernel_mode` is 0 in every system call; its place in the call is forgotten only when nothing can bring it back (`KillAct`). |
| `LifecycleProofs` | | theorems about `Lifecycle`. |
| `Heap` | `alloc.c` | a step is one turn of the search loop, or one half of `try_coalesce`; a call is not interleaved with another, since it holds `alloc_mut`. `live` and `addr` are history. |
| `Allocator` | what a heap promises | allocations of fresh bytes and frees. `Heap` implements it (`ImplementsAllocator`). |
| `HeapProofs` | | theorems about `Heap`, among them that refinement. |
| `Usart` | the serial driver | one action per critical section. The LPUART is external: a data register in each direction (`ShiftOut`, `Arrive`). Characters are numbers in order of acceptance. |
| `UsartProofs` | | theorems about `Usart`. |
| `Tty` | the terminal on `Usart` | one action per character that crosses between `tty_read` or `tty_write` and the driver, and `ReadEdit` for the rest of the loop body. `out` is what a call still has to send before it goes on. `keys` and `sent` say which character each number of `Usart` stands for. `Screen` is a terminal at the other end, used only by the property. |
| `TtyProofs` | | theorems about `Tty`: that it uses the driver as `Usart` says. |
| `PathWalk` | names: `vfs_walk_rel` with both caches, `lookup` and `read_i` | `at` is the place in a walk, and `Step` lists the actions in the order of the code. A process reads a block into `scratch` in one step and uses it in another; the inode table has several blocks (`Sector`). A walk starts at a root or at whatever directory an earlier walk has found. A dentry gets its numbers in one step and its name in the next (`Torn`); an inode is in the list before it is filled (`ready`). The scan of the 16 dentries is one step, and what is done under `vfs_cache_lock` is one. |
| `Ucfs` | `ucfs_read`, composed with `PathWalk` | the reader uses the file that its walk has found. A byte is a pair of file and position, so that a wrong byte, or one too many, shows; a block that belongs to no file gives bytes of its own, and an index that is none gives numbers of any block (`Foreign`). `f->offset` is read twice, and another process may have moved it in between; a block number is cut to 8 bits (`BlockNo`). `overrun` is a copy of a negative length. |
| `ProcTable` | records, pids, kernel stacks | `active` is `proc_active_list`. Any process spawns and reaps. The free lists of pids and stacks have no lock: their top is loaded in one step and stored in another, in `sys_spawn` (`PidAlloc`, `PidTake`) as in `proc_reap` (`PidFree`, `PidPut`). `Svc` is the swap in `svc_handler`, of which the stacks are kept. `mishaps` is history (section 3). |
| `Files` | open files and descriptors | a section of `vfs_file_lock` is a step that locks, one that changes the tables and one that unlocks, and a process may be preempted or die between any two of them. Every change of the word that `refcount` shares with the offset loads it in one step and stores it in another, with the lock or without. Any process spawns and reaps. `Held` counts the references of a process. |
| `FilesProofs` | | theorems about `Files`. |
| `UcfsProofs` | | theorems about `PathWalk` and `Ucfs`. |
| `MC*` | | constants of the runs. |

Operators whose comment says what they get wrong (`EnqueueFront`,
`UnlockHandOffFrees`, ...) are not used: substituted for the operator after
them they show that the properties notice that mistake.

## 3. Runs

| Run | Checks | What it shows | Bounds, and why they are enough |
|---|---|---|---|
| `kmutex` | `TypeOK`, `MutualExclusion`, `QueueHoldsWaiters`, `LockInv`, `ImplementsFifoLock` | with a process table as large as the real one and preemption in every gap of `lock.c`, one holder per mutex, lists that hold exactly the waiters, FIFO hand-off | the init process and three others, the real number; two mutexes, so that a link could go astray between two queues; two levels of recursion. The processes other than Idle are interchangeable. |
| `kmutex_run` | `NeverHalts`, `OnlyWakerLost`, `WokenReturns`, `QueuedRuns` | with the ring as short as in the code, stale entries and all, the scheduler always finds a ready process, a step drops nobody but the process that wakes another, round robin starves nobody who is queued, and who is woken after it slept returns from `mutex_lock` | the real four processes and four entries on one mutex, two levels of recursion; two processes that keep waking each other fill the ring. No symmetry, because of the liveness |
| `kmutex_wakeup` | `UnblockedGetsLock`, **violated** | a wake-up before `proc_block` is lost | two processes and Idle suffice |
| `heap` | `TypeOK`, `NoOverlap`, `DescriptorsConserved`, `Coalesced`, `OccupiedIsLive`, `FailsOnlyIfFull`, `CallReturns`, `ImplementsAllocator` | every sequence of allocations and frees | five units and four descriptors, so that both memory and descriptors run out; sizes of one, two and three units, one of them exact and two rounded up |
| `lifecycle` | `LifeTypeOK`, `LiveParent`, `SchedulingResumes`, `DeadHoldsNoLock`, `LockUnlessSignalled`, `ListedUnderLock`, `DeadStayDead` | spawn, SIGCONT, SIGSTOP, SIGKILL, exit and waitpid of process 1 and two children, one of which may be the other's parent; a child is stopped or killed wherever it is, in `mutex_lock` too, and process 1 may exit | the real number of processes; two spawns, so that a record is used again when the first child dies early; only a parent sends SIGSTOP, and only a parent or a child SIGKILL. All but the types hold for undisturbed behaviours only (below), so a behaviour is followed until it is `early` or `killed` (`Followed`; it goes on after `spurious`). `View` leaves out the arguments of calls that have returned |
| `lifecycle_unblock` | `UnblockedHasLock`, **violated** | a SIGCHLD reaches a parent that waits for `proc_acces_lock` | |
| `terminal` | `TtyTypeOK`, `TxInOrder`, `RxExactlyOnce`, `ScreenShowsLine`, `TxDrains` | two readers, one of which also writes, on both rings and the interrupt handler | rings of two, so that every echo of a backspace (three characters) finds the ring full; two calls, three keys of four kinds, lines of two: a line can be typed, erased and typed again, and erased when empty; `MaxTx` is more than the calls can send |
| `walk` | `UcfsTypeOK`, `WalkFinds`, `DentriesTrue`, `ReadsOwnInode`, `MountsCachedOnce`, `ReadsWhatFits` | two processes walk and read, in every interleaving of their steps, while the offset of what they read moves | two dentries, so that they are replaced; an inode table of two blocks; paths into uCFS, across the mount, up from both roots, and to a device that does not exist; three walks or reads. Blocks of three bytes, block numbers of two bits, a file of two blocks and a byte, and requests at every kind of place, one of them at block 4, which wraps to block 0 |
| `walk_race` | `LookupFindsName`, **violated** | a block read by another process between a block read and its search | as `walk` |
| `files` | `FileTypeOK`, `CountsExact` | open, close, dup, read, spawn with inherited descriptors and reaping in any process, death at every step of them | process 1 and two children; two files and two descriptors, so that both tables fill; counts of two bits, so that they wrap; four calls, with which a locked section meets the unlocked ones, a death and a full table. A behaviour is followed until it is `lost` or `wrapped` (`Followed`) |
| `proc_table` | `ProcTypeOK`, `PidsConserved` | any process spawns, reaps, enters and leaves system calls and dies at any step, with the free lists loaded and stored in two steps | five records for four pids, so that pids run out; four calls of `sys_spawn`, so that a pid is used again. All four mishaps occur |
| `proc_stack` | `StacksConserved`, **violated** | one child that exits and is reaped | as `proc_table` |

Deadlock is not checked in runs where the kernel may really stop: after a
BKPT, when all characters or calls of a bound are used up, after an overrun, and
in the life cycle, where process 1 may exit and the kernel halts.

Several properties are conditional, and the condition is a history variable that
the model sets where the code does what nothing can repair afterwards. Each is
reached in its run, and each is listed as a hazard at its line. What such a property
says is that there is no *other* way to go wrong; it does not catch the hazard
that the history marks.

* `spurious` (`Lifecycle`): SIGCHLD or SIGCONT has woken a process that waited
  for `proc_acces_lock`. After that the mutex excludes nobody; `lifecycle_unblock`
  shows how.
* `early` (`Lifecycle`): process 1 has reaped a record between
  `proc_alloc_process`, which lists it as a zombie, and the end of `sys_spawn`, or
  SIGCONT has made it ready before it has a stack.
* `killed` (`Lifecycle`): SIGKILL has hit a process in the queue of
  `proc_acces_lock` (`waiter_remove` then loses the others), a record under
  construction or its builder, or the sender itself, which dies with the lock. A
  kill anywhere else does not count, also not one of a process that was handed the
  mutex and not yet woken: that this cannot happen is part of `DeadStayDead`.

  A behaviour without these three is `Undisturbed`. `LiveParent`,
  `SchedulingResumes`, `DeadHoldsNoLock`, `ListedUnderLock` and `DeadStayDead` are
  about those. `LockUnlessSignalled` is stated under `~spurious` alone.
* `overrun` (`Usart`): the receive ring was full and one more character came.
* `misread` (`PathWalk`, `Ucfs`): a process has used a scratch buffer, an index,
  a dentry or an inode that another process had changed or not yet filled, or that
  `devfs_read_i` has left half built. `walk_race` shows one such behaviour.
* `lost`, `wrapped` (`Files`): a store to the shared word has undone a change of
  `refcount`, or the count has passed its four bits. `leaked` counts, for each file,
  the references that nobody has any more: those of the dead, and those for which
  a table had no descriptor. `CountsExact` adds it.
* `mishaps` (`ProcTable`): no pid was left and the record stayed listed
  (`exhausted`), a process was killed in `proc_create` (`killed`), its record was
  reaped meanwhile (`early`), two processes were in the code of one free list at
  once (`raced`).

### Fairness

* `KernelMutex`: `Tick` is weakly fair, since SysTick keeps firing. The steps
  that finish a call or a critical section are strongly fair for each process:
  such a step is a few instructions, far less than a time slice, so a process
  that gets the processor again and again completes it. Fairness says nothing
  of processes that *start* a call. What is left for the code to get right is the
  order of the run queue (adding at the wrong end breaks `QueuedRuns`) and that
  a woken waiter does not go back to sleep (`WokenReturns`). A process that the
  full ring has dropped never runs, and neither property is about it.
* `Heap`: a call that has begun takes its steps.
* `Tty`: pending interrupts are taken, and the transmitter sends what is in its
  register. Nobody has to call anything or to go on in a call.
* `Lifecycle`, `PathWalk`, `Ucfs`, `ProcTable` and `Files`: none; only safety is checked.

## 4. Proofs

### The mutex

`KernelMutexProofs` proves, for every finite set of processes, every set of
mutexes, every length of the run queue and every recursion depth below 128
(`mutex_t.count` has seven bits):

* `Invariant`: `Spec => []LockInv`
* `TypeCorrect`: `Spec => []TypeOK`
* `MutualExclusionHolds`: `Spec => []MutualExclusion`
* `ListInvariant`: `Spec => []ListInv`
* `QueueHolds`: `Spec => []QueueHoldsWaiters`
* `MutexIsFifoLock`: `Spec => ImplementsFifoLock`

and, for a ring of three entries or more (the code has 4), however many processes
there are:

* `RunInvariant`: `Spec => []RunInv`
* `LossIsTheWakers`: `Spec => OnlyWakerLost`
* `ProcessorKeepsRunning`: `Spec => []NeverHalts`

Assumptions: `SchedulerAssumption` (Idle is a process, there are finitely many, the
run queue has an entry), `WaiterAssumption` (the null pointer is no process and no
queue) and `MutexAssumption` (`MaxDepth` below 128). No fairness is used, and
finiteness only by the theorems from `ListInvariant` on.

`MutualExclusion` alone is not inductive: `mutex_lock` returns to a waiter
without looking at the mutex again, so one must know that nobody is woken who
was not handed the mutex, which depends on the lists. `LockInv` has these parts:

* `BootInv`: before the scheduler runs only Idle exists and no mutex is taken.
* `CurrentReady`: the processor executes a ready process. Hence a process that
  is `asleep` and executes was made ready.
* `HolderOwns`, `OwnerHolds`: who came out of `mutex_lock` is the owner, with
  `count` equal to its depth; and the owner of a taken mutex came out, or is a
  waiter that was handed it.
* `WaiterInv`: a process in `mutex_lock` is on its queue, or was handed the mutex.
* `ListEnds`, `ListLinks`, `ListLast`: the intrusive list said locally, without
  reachability: its ends belong to it, links stay within a list, no two links
  lead to one process, and only head has no successor. From these the process
  `waiter_pop` takes waits on this queue, and the next tail does too.
* `WakeInv`: every pending `proc_unblock_process` is for a process that was
  handed its mutex, there is one per such process, and an `asleep` process is
  ready only after it.

`NewTaskLemma` states what a context switch does whatever the run queue holds;
`EnqueueLemma`, `DeeperLemma` and `ShallowerLemma` are the other facts used by
several actions. There is one lemma `<Action>Step` for each action, and
`NextLemma` puts them together. The proof holds also for a run queue that is
too short: lost processes and the BKPT endanger progress, not exclusion.

The local facts do not exclude a ring of waiters beside the list. That every
queue *is* a list (`QueueInv`) is an invariant of its own, stated with a witness:
some sequence agrees with the pointers (`IsQueue`), without repetition and with
exactly the waiters in it. `FollowLemma` and `QueueLemma` show that it is the
sequence which `Queue` reads off the pointers, `PushLemma` and `PopLemma` that
`waiter_push` appends to it and `waiter_pop` takes its first. With
`WaitersNotOwner` (who waits does not own) the step of `lock.c` under the mapping
is then a step of `FifoLock`: every unlock that hands over gives the mutex to the
longest waiting process, and every other step is a lock, an unlock or a stutter.

`RunInv` says why the ring is long enough for that, although entries of processes that
are no longer ready stay in it. Every switch puts at most one entry on the ring and
takes at least one off, so between two steps at most `MaxProc - 1` are there. A preempted process
and a process that is woken while the other blocks therefore always find room. A step
that wakes a process needs room for two: the one it wakes and, in the switch that
follows, itself. That one may be dropped. It is never Idle: Idle wakes somebody
only when it starts process 1 or has just handed `proc_acces_lock` to it, and until
then nobody else runs (`AloneInv`, `BusyInv`), so that the ring is nearly empty. Hence
Idle always has a place (`IdleThere`), and a switch finds it at worst. Three entries are
what the hand-over to process 1 needs.

### The lifecycle

`LifecycleProofs` proves, for every finite set of processes, every number of spawns,
every length of the run queue, with other mutexes beside `proc_acces_lock` and
whether or not SIGCONT resumes only stopped processes (`Resume`):

* `LifecycleTypesCorrect`: `LifeSpec => []LifeTypeOK`
* `LifeInvariant`: `LifeSpec => [](TypeInv /\ BaseInv /\ (Undisturbed => Live))`
* `ParentsLive`: `LifeSpec => []LiveParent`
* `SchedulerResumes`: `LifeSpec => []SchedulingResumes`
* `LockOutlivedByOwner`: `LifeSpec => []DeadHoldsNoLock`
* `LockKeptFromOthers`: `LifeSpec => [](early \/ killed \/ LockUnlessSignalled)`
* `ListChangesUnderLock`: `LifeSpec => ListedUnderLock`
* `TheDeadStayDead`: `LifeSpec => DeadStayDead`

All signals are among those sent, SIGKILL included. `Lifecycle` takes its mutex
steps from `KernelMutex`, and the lemmas proved there apply to them. `BaseInv` says
that nobody kills Idle or process 1. `Live` has these parts:

* `LockInv`: that of the mutex. Signals, deaths and new records keep it as they
  leave the mutex alone and wake nobody who waits for it (`AsideStep`).
* `sched_started`: `proc_mark_zombie` stops it, and only the SIGCHLD
  to a parent that is listed starts it again.
* `CallInv`: whoever is at a place between lock and unlock has locked
  `proc_acces_lock`, once, or waits for it, and nobody else has.
* `DeadInv`: the dead are in no system call, and only the dead are off the list.
* `BuildInv`: a record that `sys_spawn` works on is listed, does not run, and has
  one builder.
* `ParentInv`: process 1 stays until the kernel halts, and every process that is
  built has a parent that is built and lives, or is process 1.

What a kill leaves behind is the heart of it (`KillActLive`). The killer is in
`proc_kill` and owns `proc_acces_lock`. So its victim is not the owner; it was not
handed the mutex, as it would be the owner then; and it is not about to wake a
process that was handed the mutex, as that one would be. What is left is a victim
in no section at all, or one in the queue or at work on a record (`killed`).

They need one another: that a parent lives when its child dies needs that
the list does not change under `sys_spawn`, hence the lock; that the lock
excludes needs that no signal wakes or kills a waiter, and no dead process owns it.
The two action properties follow from the state before the step.

### The heap

`HeapProofs` proves, for every arena below 2^15 units, every number of descriptors
below 256, units of 1 or 16 bytes and every set of sizes:

* `HeapInvariant`: `Spec => []HeapInv`
* `HeapTypes`: `Spec => []TypeOK`
* `PointersStayApart`: `Spec => []NoOverlap`
* `NothingLeaks`: `Spec => []OccupiedIsLive`
* `DescriptorsKept`: `Spec => []DescriptorsConserved`
* `FreeBlocksMerge`: `Spec => []Coalesced`
* `SearchIsComplete`: `Spec => FailsOnlyIfFull`
* `HeapIsAllocator`: `Spec => ImplementsAllocator`

Assumption: `HeapAssumption`. The descriptors left on the stack bound the number of
blocks, and the proofs cover the requests that find none.

The history `addr` makes most of this independent of the walk along the links:
that two blocks are apart is said for every pair of blocks in use (`Apart`), not
for those a walk meets, and `BlockOK` says locally that a block ends where the next
one starts. `HeapInv` has these parts:

* `ListOK`: the stack holds nothing twice (`StackOK`), every block agrees with
  both its neighbours (`BlockOK`), any two blocks are apart.
* `NeighboursOK`: two free blocks are neighbours only where `try_coalesce` stands.
  That both halves look at one neighbour each is enough because the neighbours
  of the block absorbed first are occupied, which is what this part says of it.
* `LiveOK`, `OwnedOK`: pointers and occupied blocks correspond one to one. A block is
  known by where it starts (`AddrLemma`), so `heap_free` frees the one of its pointer.
* `CallOK`: the loop stands at a block in use and knows its start, and a search has
  passed only blocks that would not do.

`SplitLemma` and `MergeLemma` show that the list stays a list; one lemma
`<Action>Step` for each action, or group of actions, does the rest. Allocation
refines because the pointer returned is that of a free block, hence of nobody
(`FreshLemma`).

`DescriptorsConserved` speaks of the blocks that a walk from block 0 meets (`Chain`).
`WalkLemma` turns that walk into the iteration of a function; the addresses along it
grow (`WalkGrowsLemma`), so it ends (`WalkEndsLemma`), and if it missed a block
in use, the first one missed would come after one that was met
(`WalkCoversLemma`). Hence the blocks met and the stack of unused
descriptors partition the descriptors.

### Open files

`FilesProofs` proves, for every number of processes, files and descriptors, every
width of `refcount` above one bit and every number of calls:

* `FileTypesCorrect`: `FilesSpec => []FileTypeOK`
* `CountsAreExact`: `FilesSpec => []CountsExact`

Assumption: `FilesAssumption`. With `LockInv` (the mutex is free exactly when it is
locked no times) and `CallInv`, `CountsExact` is inductive. `CallInv` says what a
process knows in the middle of a call: that it owns the mutex in a section, the
file it has in hand, and that this file is in its table until it has counted its
reference, or given the descriptor back. A process that dies in a section keeps the
mutex, so no other section begins, and what it has in hand is leaked.

`CountsExact` compares `refcount` with the number of references, the cardinality of
two sets (`TableRefs`, descriptors of living processes; `CallRefs`, calls that hold
one): each action adds or removes one element of one of them or moves one from one
to the other, and a death removes those of one process, which `leaked` takes over.

### The path walk and reads

`UcfsProofs` proves, for every tree of directories and files, every set of
processes, every set of paths, every length of the dentry ring, blocks, files
and requests of every size, and whatever a block that is no index holds:

* `WalkInvariant`: `UcfsSpec => []WalkInv`
* `DentriesStayTrue`: `UcfsSpec => []DentriesTrue`
* `OwnInodesRead`: `UcfsSpec => []ReadsOwnInode`
* `MountsStayOnce`: `UcfsSpec => []MountsCachedOnce`
* `WalksFind`: `UcfsSpec => []WalkFinds`
* `UcfsTypesCorrect`: `UcfsSpec => []UcfsTypeOK`
* `ReadsOnlyWhatFits`: `UcfsSpec => []ReadsWhatFits`

Assumptions: `WalkAssumption`, which says what an image and a devfs are (the
entries of a directory are inodes of uCFS, the two file systems share no inode
number, the mountpoint is an entry of the root and its `..` is the root, a null
pointer is no name and no number, a block of a file is neither a directory nor the
inode table), and `UcfsAssumption` (blocks are not empty, a file has as many of
them as its size needs and fewer than there are block numbers, offsets and counts are
naturals). Neither bounds the number
of walks.

*The caches.* None of the first three properties is inductive alone; they need one
another. That `..` out of the mounted root asks the right file system
(`ReadsOwnInode`) holds only because the root above it is always found in the
list, so the mounts must be there, as they were made (`MountsFixed`), and in the
part of the list that a search sees (`PlaceOK`). That no mount is cached again
needs that whoever adds an inode has seen none of them in the list (`OwnOK`).
That dentries are true needs that the number which is inserted was found
in the directory that is inserted with it (`LookupOK`), by a file system whose
block is the one of that inode (`ReadyInv`), and that the entry under the lock
is the only one half written (`DentryOK`, `Torn`). That the inode a process
stands on does not change under it needs that what is written belongs to the
process that writes it (`MakingOK`) and is not ready (`StandsOK`).

A step either leaves the caches alone (`QuietLemma`) or adds or fills an inode
(`MakesLemma`): what is left to show is about the process that moves. The two
halves of a dentry insertion are proved by themselves. The part after `~misread`
holds only without a race on an unlocked buffer; the part before it holds always.

*The answer of a walk.* `FindInv` adds what the walk has done: a process stands
where the words it has taken lead (`FindOK`), looks for what the next word names
there, and has failed only at a word that names nothing, from which no longer path
recovers (`NoneStays`). An inode that is ready has the number it was made for
(`ReadyNodes`). The meaning of a path is a recursive function in the property;
`ReachedLemma` turns it into its steps, by induction from `Iteration`. That
`check_mount` compares pointers and not numbers is right since mounts are
cached once (`EnteredLemma`).

*The bytes of a read.* `TypesInv` assumes nothing about races: whatever block
another process has left in a buffer, and wherever it has moved the offset, what
`ucfs_read` copies at a time lies within one block, of the file, of another one or of none, as
the last piece is shorter than a block (`RestOK`, from the arithmetic that the
blocks and the rest are not less than what is asked for), or its length is negative. `ReadInv` says at each
place of `ucfs_read` what was copied (`ReadingOK`): bytes of the file from the
offset on, and so many that with the whole blocks still to come and the rest
`count % BlockSize` they make the count plus what is before the first whole block
(`BlocksOK`). What the tail has left to copy is therefore the rest less that first piece,
which is negative when the piece is larger: `FitsLemma` shows that `Fits` excludes
just this. For each place there is a lemma about the numbers (`CopyHeadNumbers`, `WholeNumbers`, ...) and
one about the step. Products and quotients are kept apart in lemmas of their own
(`ProductLemma`, `DivideLemma`).

### The serial driver and the terminal

`UsartProofs` proves, for rings of every length, every set of readers and every
number of characters:

* `UsartInvariant`: `Spec => []UsartInv`
* `UsartTypes`: `Spec => []TypeOK`
* `CharactersLeaveInOrder`: `Spec => []TxInOrder`
* `CharactersReadOnce`: `Spec => []RxExactlyOnce`

and `TtyProofs` carries the last two over to the terminal and adds its types and
what the user sees, for every set of texts and every length of the buffers:

* `TerminalUsesUsart`: `TtySpec => Spec`
* `TerminalSendsInOrder`: `TtySpec => []TxInOrder`
* `TerminalReadsOnce`: `TtySpec => []RxExactlyOnce`
* `TtyInvariant`: `TtySpec => []TtyInv`
* `TtyTypesCorrect`: `TtySpec => []TtyTypeOK`
* `EchoInvariant`: `TtySpec => []ShowInv`
* `ScreenIsTheLine`: `TtySpec => []ScreenShowsLine`

Assumptions: `UsartAssumption` (both rings have two slots or more, `None` is no
character) and, for the last four, `TtyAssumption` (a text is made of characters). That the lengths are powers of two, which the masks of the code need,
is not used, as `Inc` does not mask. The remainders of the properties are first turned
into cases (`RemainderLemma`), then `HeadLemma` and `TailLemma` say what moving an
index does to the ring.

`TxInv` says where every accepted character is. `RxInv` is about the gap in
`readb`: the slot of a reader that has enabled interrupts is no longer in the ring,
so the handler may reach it. As long as it has not (`overrun`), what a reader
is about to return is later than all it got and is nobody else's (`PendingOK`), and
nothing that was taken is missing (`NoneLost`).

That the terminal keeps its types depends on the ring: what it reads it uses as the
number of a character that was typed, so every slot between the indices, and the
slot that a reader is about to read, must hold the number of a key (`RxKnown`). That
also holds after an overrun, where `RxInv` says nothing of the slot. What a call
echoes is a flattened sequence of texts, and `FlattenLemma` types it with `Iteration`.

`ScreenShowsLine` compares the buffer with a fold over all that was sent. `ShownLemma`
opens the fold: there is a screen after each number of characters, and each comes
from the one before. `ShowInv` then relates the screen to the buffer
in the middle of an echo: the screen, with the characters the reader has still
to send (`Ahead`), shows the line that the edit will make of the buffer. `EchoLemma` is
why: a letter, or a backspace, a blank and a backspace, do to the line what
`Append` or `Front` does to the buffer; that needs the cursor to be on the line after any
characters at all (`ShownOK`). Once somebody else sends (`Alone`), nothing is claimed.

### What is only model-checked

* Liveness (`WokenReturns`, `QueuedRuns`, `CallReturns`, `TxDrains`): fairness and
  `ENABLED` are out of the prover's reach.
* `ProcTypeOK` and `PidsConserved` of the process table.
* `LockUnlessSignalled` in the first state that is `early` or `killed`: the
  theorem is about those before, and nobody says anything of those after.

Every other invariant and action property of a passing run is a theorem.

The induction theorems of the library cannot be used, as they take an operator for a
parameter. `Iteration` proves induction over the naturals in a form that takes a
set instead, from the well-foundedness of inclusion among finite sets, and from it
that a function can be iterated. The walks along links are proved with it.

## 5. Where code and comments disagree

1. `lock.c:33` "if we get unblocked that means that we get the lock": the
   hand-off may come between `waiter_push` and `proc_block`, and the new owner
   then sleeps for ever (`kmutex_wakeup`).
2. The same comment: SIGCHLD unblocks a parent that waits for the mutex, and it
   goes on without it (`lifecycle_unblock`).
3. `proc.c:44` "stack memory leak!" and `proc.h:37` "0 = user mode, 1 = kernel
   mode": `svc_handler` inverts the byte at offset 32, which is in
   `program_size`, and never `kernel_mode` at 24, so that `proc_reap` frees the
   wrong one of the two stacks (`proc_stack`).
4. `vfs.h:103` "lookup an inode inside a dir": with two processes in the same
   file system `ucfs_lookup` searches whatever block was read last (`walk_race`).

Met while modelling and kept as hazards, without a run of their own: `waiter_remove`
loses the other waiters (`waiter.h:15`), a SIGCHLD between the test and
`proc_block` of `sys_waitpid` wakes nobody (`proc.c:277`), and the loop of
`i2c_rx_ready` takes a timeout for success.

## 6. Not modelled

* Registers, stacks and the memory of programs: the scheduler is modelled at the level of which process runs.
* `mutex_remove`: nothing calls it. `heap_stat`: changes nothing.
* In `Lifecycle`: pids apart from records (`ProcTable`), process groups, credentials,
  `sigprocmask` (children accept all signals used here), `waitpid` for one pid,
  a full process table (the bound `SpawnCall` keeps a record free; `ProcTable` lets
  it fill), and the memory `proc_reap` releases. Nobody sends a signal to process 0,
  or SIGSTOP or SIGKILL to process 1. Processes take no mutex but `proc_acces_lock`:
  a process killed between the hand-over of another mutex and its wake-up would be
  revived.
* In `KernelMutex`: kills and signals, which `Lifecycle` adds.
* In `Usart`: baud rate, pins, ioctl. A full ring at `writeb` returns -1 and
  changes nothing; the caller tries again, which is its action being enabled later.
* In `Tty`: `tty_ioctl`. `ONLRET` is a constant.
* In `PathWalk`: reference counts of inodes (`inode_free` evicts nothing, so no
  step depends on them), names longer than the compared ten characters,
  `vfs_mount_dev` after boot, `readdir`, `fstat`, `mknod`. `idapi_blockread` is one
  step: it stores the block's offset in a `struct file` that all processes share and
  then reads; a process in between would read the wrong block, which is one
  more way to `misread`. A path through a regular file is not refused by the code
  and not among the paths here. The error return of `idapi_blockread` is left out: the
  romdisk below it does not fail.
* In `Ucfs`: the number of blocks is that of the file's size, and a number of an index
  beyond them is `BLOCK_NIL`. Offsets come from the requests.
* In `ProcTable`: once two processes were in one free list at the same time
  (`raced`), only one of the orders of their accesses is followed. Process 1 does not
  exit. What happens when more is pushed than a list holds is not followed, either.
* In `Files`: what a file names (`PathWalk` does), `lseek`, `fchdir`, `ioctl`,
  `readdir`; pids and parents (any process may reap any dead one); signals
  that bypass `vfs_file_lock`. Process 1 does not exit. A descriptor table is
  changed only by its process, or by the parent before the process runs.
* In `Heap`: arenas of 2^15 units and more, whose size does not fit `block.size`.
* Drivers that only access registers, boot, the registries filled at boot,
  faults, panic, `sysctl`, formatting: sequential code without shared state that changes.

Of the 133 000 lines of the repository about 125 000 are vendored register and
CMSIS headers, which have no behaviour; the share of the kernel itself that
is modelled is what the components in `PROJECT.json` say.

## 7. Plan

Done of the plan that the inventory led to: the core (`KernelMutex`, `Heap`,
`Lifecycle`, `Usart`), then the process table, files, names,
`ucfs_read` and the terminal. What is left, in this order:

1. Proof: `PidsConserved` of the process table.
2. `tty_ioctl` during a call, `lseek` and `readdir`, which share the word of `refcount`.
3. Other mutexes in `Lifecycle`, with a process that is killed while it is
   handed one; process groups and credentials, the check of `sys_kill` and the
   process it hits.
