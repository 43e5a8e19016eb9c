---------------------------- MODULE KernelMutex ----------------------------
(***************************************************************************)
(* The kernel mutex of kernel/lock.c on top of its wait queues and the     *)
(* scheduler.  mutex_lock and mutex_unlock disable interrupts while they   *)
(* change the mutex, and enable them again BEFORE proc_block and           *)
(* proc_unblock_process: a process can be preempted between the two, which *)
(* is what the program counters "block" and "wake" stand for.              *)
(*                                                                         *)
(* The callers are any kernel code: a process takes mutexes in any order,  *)
(* recursively up to MaxDepth times, and releases what it took.  Process 0 *)
(* only does so until it has started process 1 (kernel_init_process).      *)
(***************************************************************************)
EXTENDS Waiter

CONSTANTS ProcLock,   \* proc_acces_lock
          MaxDepth    \* bound: how often a process takes one mutex at a time

CountMod == 128       \* mutex_t.count is a 7-bit field

ASSUME MutexAssumption == ProcLock \in Waiters /\ MaxDepth \in 1..(CountMod - 1)

VARIABLES lock, owner, count,  \* the fields of mutex_t, which is also a waiter
          pc,      \* where a process is: "new", in its own code ("run"), about to call
                   \* proc_block ("block"), inside it ("asleep"), or about to
                   \* call proc_unblock_process(next) ("wake")
          wants,   \* the mutex that mutex_lock is waiting for
          next,    \* the local variable of mutex_unlock
          depth    \* history: how many mutex_lock calls of p on m returned and
                   \* were not yet followed by a mutex_unlock

Mutex == Waiters

mutexVars == <<lock, owner, count, pc, wants, next, depth>>
vars == <<schedVars, waiterVars, mutexVars>>

MutexTypeOK ==
  /\ lock \in [Mutex -> 0..1]
  /\ owner \in [Mutex -> Proc \cup {Nil}]
  /\ count \in [Mutex -> 0..(CountMod - 1)]
  /\ pc \in [Proc -> {"new", "run", "block", "asleep", "wake"}]
  /\ wants \in [Proc -> Mutex \cup {Nil}]
  /\ next \in [Proc -> Proc \cup {Nil}]
  /\ depth \in [Proc -> [Mutex -> 0..MaxDepth]]

TypeOK == SchedTypeOK /\ WaiterTypeOK /\ MutexTypeOK

\* mutex_init of every mutex
MutexInit ==
  /\ lock = [m \in Mutex |-> 0]
  /\ owner = [m \in Mutex |-> Nil]
  /\ count = [m \in Mutex |-> 0]
  /\ wants = [p \in Proc |-> Nil]
  /\ next = [p \in Proc |-> Nil]
  /\ depth = [p \in Proc |-> [m \in Mutex |-> 0]]

\* The kernel boots as the process Idle with the scheduler stopped; the other
\* processes exist, stopped, as sys_spawn leaves them
Init ==
  /\ MutexInit /\ WaiterInit
  /\ current = Idle
  /\ pc = [p \in Proc |-> IF p = Idle THEN "run" ELSE "new"]
  /\ state = [p \in Proc |-> IF p = Idle THEN "PROC_READY" ELSE "PROC_BLOCKED"]
  /\ run_queue = <<>>
  /\ sched_started = FALSE
  /\ halted = FALSE

----------------------------------------------------------------------------
Deeper(p, m) == depth' = [depth EXCEPT ![p][m] = @ + 1]
Shallower(p, m) == depth' = [depth EXCEPT ![p][m] = @ - 1]

(* p calls mutex_lock(m), or mutex_unlock(m) *)
CallLock(p, m) == Running(p) /\ pc[p] = "run" /\ depth[p][m] < MaxDepth
CallUnlock(p, m) == Running(p) /\ pc[p] = "run" /\ depth[p][m] > 0

\* mutex_lock before the scheduler runs: it returns without doing anything
LockStopped(p, m) ==
  /\ CallLock(p, m) /\ ~sched_started
  /\ Deeper(p, m)
  /\ UNCHANGED <<schedVars, waiterVars, lock, owner, count, pc, wants, next>>

\* mutex_lock by the owner
LockNested(p, m) ==
  /\ CallLock(p, m) /\ sched_started
  /\ lock[m] = 1 /\ owner[m] = p
  /\ count' = [count EXCEPT ![m] = (@ + 1) % CountMod]
  /\ Deeper(p, m)
  /\ UNCHANGED <<schedVars, waiterVars, lock, owner, pc, wants, next>>

\* mutex_lock of a mutex that another process owns: the caller joins the wait
\* queue, and interrupts are enabled before it blocks
LockWait(p, m) ==
  /\ CallLock(p, m) /\ sched_started
  /\ lock[m] = 1 /\ owner[m] # p
  /\ WaiterPush(m, p)
  /\ pc' = [pc EXCEPT ![p] = "block"]
  /\ wants' = [wants EXCEPT ![p] = m]
  /\ UNCHANGED <<schedVars, lock, owner, count, next, depth>>

\* mutex_lock that does not look at the lock
LockClaimAlways(p, m) ==
  /\ CallLock(p, m) /\ sched_started
  /\ lock' = [lock EXCEPT ![m] = 1]
  /\ owner' = [owner EXCEPT ![m] = p]
  /\ count' = [count EXCEPT ![m] = 1]
  /\ Deeper(p, m)
  /\ UNCHANGED <<schedVars, waiterVars, pc, wants, next>>

\* mutex_lock of a free mutex
LockClaim(p, m) ==
  /\ CallLock(p, m) /\ sched_started
  /\ lock[m] = 0
  /\ lock' = [lock EXCEPT ![m] = 1]
  /\ owner' = [owner EXCEPT ![m] = p]
  /\ count' = [count EXCEPT ![m] = 1]
  /\ Deeper(p, m)
  /\ UNCHANGED <<schedVars, waiterVars, pc, wants, next>>

\* mutex_lock calls proc_block
LockBlock(p) ==
  /\ Running(p) /\ pc[p] = "block"
  /\ Block(p)
  /\ pc' = [pc EXCEPT ![p] = "asleep"]
  /\ UNCHANGED <<waiterVars, lock, owner, count, wants, next, depth>>

\* mutex_lock that goes back to sleep as long as the mutex is taken
LockReturnRechecks(p) ==
  /\ Running(p) /\ pc[p] = "asleep"
  /\ lock[wants[p]] = 1
  /\ Block(p)
  /\ UNCHANGED <<waiterVars, mutexVars>>

\* the process runs again, and mutex_lock returns as if it had the lock
LockReturn(p) ==
  /\ Running(p) /\ pc[p] = "asleep"
  /\ pc' = [pc EXCEPT ![p] = "run"]
  /\ wants' = [wants EXCEPT ![p] = Nil]
  /\ Deeper(p, wants[p])
  /\ UNCHANGED <<schedVars, waiterVars, lock, owner, count, next>>

----------------------------------------------------------------------------
UnlockStopped(p, m) ==
  /\ CallUnlock(p, m) /\ ~sched_started
  /\ Shallower(p, m)
  /\ UNCHANGED <<schedVars, waiterVars, lock, owner, count, pc, wants, next>>

UnlockNested(p, m) ==
  /\ CallUnlock(p, m) /\ sched_started
  /\ owner[m] = p /\ count[m] > 1
  /\ count' = [count EXCEPT ![m] = @ - 1]
  /\ Shallower(p, m)
  /\ UNCHANGED <<schedVars, waiterVars, lock, owner, pc, wants, next>>

\* mutex_unlock that wakes the next process but stays the owner
UnlockHandOffKeepsOwner(p, m) ==
  /\ CallUnlock(p, m) /\ sched_started
  /\ owner[m] = p /\ count[m] <= 1
  /\ tail[m] # Nil
  /\ WaiterPop(m)
  /\ next' = [next EXCEPT ![p] = tail[m]]
  /\ pc' = [pc EXCEPT ![p] = "wake"]
  /\ Shallower(p, m)
  /\ UNCHANGED <<schedVars, lock, owner, count, wants>>

\* mutex_unlock that counts down although the mutex passes on
UnlockHandOffCountsDown(p, m) ==
  /\ CallUnlock(p, m) /\ sched_started
  /\ owner[m] = p /\ count[m] <= 1
  /\ tail[m] # Nil
  /\ WaiterPop(m)
  /\ count' = [count EXCEPT ![m] = @ - 1]
  /\ owner' = [owner EXCEPT ![m] = tail[m]]
  /\ next' = [next EXCEPT ![p] = tail[m]]
  /\ pc' = [pc EXCEPT ![p] = "wake"]
  /\ Shallower(p, m)
  /\ UNCHANGED <<schedVars, lock, wants>>

\* mutex_unlock that frees the mutex and leaves it to the waiter to take it
UnlockHandOffFrees(p, m) ==
  /\ CallUnlock(p, m) /\ sched_started
  /\ owner[m] = p /\ count[m] <= 1
  /\ tail[m] # Nil
  /\ WaiterPop(m)
  /\ lock' = [lock EXCEPT ![m] = 0]
  /\ next' = [next EXCEPT ![p] = tail[m]]
  /\ pc' = [pc EXCEPT ![p] = "wake"]
  /\ Shallower(p, m)
  /\ UNCHANGED <<schedVars, owner, count, wants>>

\* the mutex passes to the first waiter, which is woken in a later step
UnlockHandOff(p, m) ==
  /\ CallUnlock(p, m) /\ sched_started
  /\ owner[m] = p /\ count[m] <= 1
  /\ tail[m] # Nil
  /\ WaiterPop(m)
  /\ owner' = [owner EXCEPT ![m] = tail[m]]
  /\ next' = [next EXCEPT ![p] = tail[m]]
  /\ pc' = [pc EXCEPT ![p] = "wake"]
  /\ Shallower(p, m)
  /\ UNCHANGED <<schedVars, lock, count, wants>>

\* mutex_unlock calls proc_unblock_process(next)
UnlockWake(p) ==
  /\ Running(p) /\ pc[p] = "wake"
  /\ Unblock(next[p])
  /\ pc' = [pc EXCEPT ![p] = "run"]
  /\ next' = [next EXCEPT ![p] = Nil]
  /\ UNCHANGED <<waiterVars, lock, owner, count, wants, depth>>

\* nobody waits: the mutex becomes free, and owner keeps its last value
UnlockRelease(p, m) ==
  /\ CallUnlock(p, m) /\ sched_started
  /\ owner[m] = p /\ count[m] <= 1
  /\ tail[m] = Nil
  /\ lock' = [lock EXCEPT ![m] = 0]
  /\ Shallower(p, m)
  /\ UNCHANGED <<schedVars, waiterVars, owner, count, pc, wants, next>>

----------------------------------------------------------------------------
\* proc_start_scheduling and the first SVC; the boot code holds no mutex
StartScheduling ==
  /\ ~halted /\ ~sched_started
  /\ \A m \in Mutex : depth[Idle][m] = 0
  /\ sched_started' = TRUE
  /\ UNCHANGED <<current, state, run_queue, halted, waiterVars, mutexVars>>

\* only Idle has been started
Alone == \A q \in Proc \ {Idle} : pc[q] = "new"

\* Idle starts one process and holds no other mutex while it does
StartsFirst == Alone /\ depth[Idle] = [m \in Mutex |-> IF m = ProcLock THEN 1 ELSE 0]

\* the first SIGCONT to a spawned process q, in proc_kill, which holds
\* proc_acces_lock: proc_unblock_process(q)
StartProcess(p, q) ==
  /\ Running(p) /\ pc[p] = "run" /\ sched_started
  /\ depth[p][ProcLock] > 0
  /\ p = Idle => StartsFirst
  /\ pc[q] = "new"
  /\ Unblock(q)
  /\ pc' = [pc EXCEPT ![q] = "run"]
  /\ UNCHANGED <<waiterVars, lock, owner, count, wants, next, depth>>

Tick == Preempt /\ UNCHANGED <<waiterVars, mutexVars>>

Take(p, m) == LockStopped(p, m) \/ LockNested(p, m) \/ LockClaim(p, m)

Leave(p, m) == \/ UnlockStopped(p, m) \/ UnlockNested(p, m)
               \/ UnlockHandOff(p, m) \/ UnlockRelease(p, m)

\* Idle takes mutexes while it is alone, so it never waits for one.  What is
\* left to it then is to release proc_acces_lock, perhaps to the process that
\* it has started; its loop takes mutexes with the scheduler stopped.
Next ==
  \/ \E p \in Proc, m \in Mutex : (p = Idle => Alone) /\ Take(p, m)
  \/ \E p \in Proc, m \in Mutex : Leave(p, m)
  \/ \E p \in Proc \ {Idle}, m \in Mutex : LockWait(p, m)
  \/ \E p \in Proc : LockBlock(p) \/ LockReturn(p) \/ UnlockWake(p)
  \/ \E p, q \in Proc : StartProcess(p, q)
  \/ StartScheduling
  \/ Tick

Spec == Init /\ [][Next]_vars
----------------------------------------------------------------------------
(* Fairness: a kernel step of a process is a few instructions, far shorter *)
(* than the time slice between two SysTicks, so a process that is          *)
(* dispatched again and again finishes the call it is in, and a critical   *)
(* section ends; the SysTick keeps firing.                                 *)
Finishes(p) ==
  \/ LockBlock(p) \/ LockReturn(p) \/ UnlockWake(p)
  \/ \E m \in Mutex : Leave(p, m)

Fairness == WF_vars(Tick) /\ \A p \in Proc : SF_vars(Finishes(p))

FairSpec == Spec /\ Fairness

----------------------------------------------------------------------------
(* At most one process is between a returned mutex_lock and its            *)
(* mutex_unlock, whatever the scheduler and the wait queues do in between: *)
(* mutex_lock returns to a waiter (lock.c:34) without looking at the mutex *)
(* again, so this rests on nobody being woken who was not handed the lock. *)
MutualExclusion ==
  \A m \in Mutex : \A p, q \in Proc :
    depth[p][m] > 0 /\ depth[q][m] > 0 => p = q

\* the walk along wait_next from tail[m]
Follow(m) ==
  LET at[i \in Nat] == IF i = 0 THEN tail[m]
                       ELSE IF at[i - 1] = Nil THEN Nil ELSE wait_next[at[i - 1]]
  IN  at

\* how many processes the walk meets
QueueLen(m) ==
  CHOOSE k \in 0..Cardinality(Proc) :
    Follow(m)[k] = Nil /\ \A i \in 0..(k - 1) : Follow(m)[i] # Nil

(* The processes of wait queue m, the next to be popped first.             *)
Queue(m) == [i \in 1..QueueLen(m) |-> Follow(m)[i - 1]]

Granted(p) == lock[wants[p]] = 1 /\ owner[wants[p]] = p

(* The list of mutex m that waiter_push and waiter_pop link through the    *)
(* processes holds exactly the processes that mutex_lock left waiting for  *)
(* m and that were not handed it since: none is forgotten, none is linked  *)
(* into the list of another mutex.                                         *)
QueueHoldsWaiters ==
  \A m \in Mutex :
    {Queue(m)[i] : i \in DOMAIN Queue(m)} =
      {p \in Proc : pc[p] \in {"block", "asleep"} /\ wants[p] = m /\ ~Granted(p)}

\* p runs or has an entry in the run queue
HasPlace(p) == p = current \/ \E i \in DOMAIN run_queue : run_queue[i] = p

(* proc_enqueue drops a process when the ring is full, and nobody looks at *)
(* its -1.  The ring has as many entries as there are processes, and some  *)
(* may be stale.  Still the only process that a step can drop is the one   *)
(* that wakes another in it: not the one it wakes, not one that is         *)
(* preempted, and never Idle.                                              *)
OnlyWakerLost ==
  [][\A p \in Proc :
       HasPlace(p) /\ state[p] = "PROC_READY" /\ state'[p] = "PROC_READY" /\ ~HasPlace(p)' =>
         /\ p # Idle /\ Len(run_queue) = MaxProc - 1
         /\ UnlockWake(p) \/ \E q \in Proc : StartProcess(p, q)]_vars

(* No BKPT is reached: proc_sched_new_task always finds a ready process,   *)
(* because Idle keeps its place although the ring may be full.             *)
NeverHalts == ~halted

(***************************************************************************)
(* The inductive invariant behind MutualExclusion.                         *)
(***************************************************************************)
Waits(p) == pc[p] \in {"block", "asleep"}

\* before the scheduler runs only Idle exists, and mutexes are not used
BootInv ==
  ~sched_started =>
    /\ current = Idle
    /\ \A p \in Proc \ {Idle} : pc[p] = "new"
    /\ pc[Idle] = "run"
    /\ \A m \in Mutex : lock[m] = 0

\* the processor executes a ready process
CurrentReady == ~halted => state[current] = "PROC_READY"

\* whoever came out of mutex_lock owns the mutex, as often as it took it
HolderOwns ==
  \A p \in Proc, m \in Mutex : depth[p][m] > 0 =>
    IF sched_started THEN lock[m] = 1 /\ owner[m] = p /\ count[m] = depth[p][m]
                     ELSE p = Idle

\* the owner of a taken mutex came out of mutex_lock, or is about to
OwnerHolds ==
  \A m \in Mutex : lock[m] = 1 =>
    /\ owner[m] \in Proc
    /\ depth[owner[m]][m] > 0 \/ (Waits(owner[m]) /\ wants[owner[m]] = m)

\* a process inside mutex_lock is in the wait queue, or was handed the mutex
WaiterInv ==
  \A p \in Proc :
    /\ Waits(p) =>
         /\ wants[p] \in Mutex
         /\ depth[p][wants[p]] = 0
         /\ \/ waiting_on[p] = wants[p]
            \/ waiting_on[p] = Nil /\ Granted(p) /\ count[wants[p]] = 1
    /\ ~Waits(p) => waiting_on[p] = Nil

\* the list of a waiter, stated locally: its two ends
ListEnds ==
  \A m \in Mutex :
    /\ tail[m] # Nil => waiting_on[tail[m]] = m
    /\ head[m] # Nil => waiting_on[head[m]] = m /\ wait_next[head[m]] = Nil
    /\ (head[m] = Nil) <=> (tail[m] = Nil)

\* its links: they stay within one list, and no two lead to the same process
ListLinks ==
  \A p \in Proc : wait_next[p] # Nil =>
    /\ waiting_on[p] # Nil
    /\ waiting_on[wait_next[p]] = waiting_on[p]
    /\ \A m \in Mutex : wait_next[p] # tail[m]
    /\ \A q \in Proc : wait_next[q] = wait_next[p] => q = p

\* only the process at head has nobody after it
ListLast ==
  \A p \in Proc : waiting_on[p] # Nil /\ wait_next[p] = Nil =>
    head[waiting_on[p]] = p

\* a pending proc_unblock_process is for a process that was handed its mutex,
\* and there is one per such process; nobody else wakes a sleeping waiter
WakeInv ==
  /\ \A q \in Proc : (pc[q] = "wake") <=> (next[q] # Nil)
  /\ \A q \in Proc : next[q] # Nil =>
       /\ Waits(next[q]) /\ waiting_on[next[q]] = Nil
       /\ \A r \in Proc : next[r] = next[q] => r = q
  /\ \A p \in Proc : pc[p] = "asleep" /\ state[p] = "PROC_READY" =>
       waiting_on[p] = Nil /\ \A q \in Proc : next[q] # p

(* What every step of lock.c and waiter.c preserves, and what mutual       *)
(* exclusion rests on: depth, lock, owner and count agree, each list links *)
(* exactly the processes that wait, and each of those that was handed its  *)
(* mutex has at most one wake-up on the way.                               *)
LockInv == /\ TypeOK /\ BootInv /\ CurrentReady /\ HolderOwns /\ OwnerHolds
           /\ WaiterInv /\ ListEnds /\ ListLinks /\ ListLast
           /\ WakeInv

(* The mutex is a FIFO hand-off lock: claiming, waiting, handing over and  *)
(* releasing are the steps of FifoLock on the queue read off the pointers. *)
Fifo == INSTANCE FifoLock WITH
  holder <- [m \in Mutex |-> IF lock[m] = 1 THEN owner[m] ELSE Nil],
  level <- [m \in Mutex |-> IF lock[m] = 1 THEN count[m] ELSE 0],
  queue <- [m \in Mutex |-> Queue(m)]

ImplementsFifoLock == Fifo!Spec

(* A waiter that was woken after it went to sleep returns from mutex_lock. *)
WokenReturns ==
  \A p \in Proc : (pc[p] = "asleep" /\ state[p] = "PROC_READY") ~> pc[p] = "run"

(* Round robin starves nobody who is on the run queue.                     *)
QueuedRuns ==
  \A p \in Proc :
    (state[p] = "PROC_READY" /\ HasPlace(p)) ~> (current = p \/ state[p] # "PROC_READY")

(* lock.c:33, "if we get unblocked that means that we get the lock": a     *)
(* waiter that is handed the mutex comes to hold it.                       *)
UnblockedGetsLock ==
  \A p \in Proc, m \in Mutex :
    (pc[p] \in {"block", "asleep"} /\ wants[p] = m /\ Granted(p)) ~> depth[p][m] > 0
=============================================================================
