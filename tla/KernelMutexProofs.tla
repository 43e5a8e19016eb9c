------------------------- MODULE KernelMutexProofs -------------------------
(***************************************************************************)
(* Proofs about KernelMutex, for any set of processes and mutexes, any     *)
(* length of the run queue and any recursion depth below 128.  LockInv is  *)
(* inductive, so types are kept and mutual exclusion holds.  The pointers  *)
(* form lists, so a queue holds its waiters and the mutex implements       *)
(* FifoLock.  With three entries or more on the run queue the processor    *)
(* keeps running, and a step loses at most the process that wakes another. *)
(***************************************************************************)
EXTENDS KernelMutex, Iteration, SequenceTheorems, TLAPS

-----------------------------------------------------------------------------
\* the run queue, the running process and the BKPT flag after a context switch
\* under the process states s
SwitchOK(s) ==
  /\ current' \in Proc
  /\ run_queue' \in Seq(Proc) /\ Len(run_queue') <= MaxProc
  /\ halted' \in BOOLEAN
  /\ ~halted' => s[current'] = "PROC_READY"

(* proc_enqueue keeps the run queue within its PROC_MAX_PROC entries.      *)
LEMMA EnqueueLemma ==
  ASSUME NEW q \in Seq(Proc), Len(q) <= MaxProc, NEW p \in Proc
  PROVE  Enqueue(q, p) \in Seq(Proc) /\ Len(Enqueue(q, p)) <= MaxProc
BY SchedulerAssumption DEF Enqueue

(* What the context switch does to the scheduler: whatever the run queue   *)
(* holds, proc_sched_new_task keeps the types and ends in a ready process, *)
(* or in the BKPT.                                                         *)
LEMMA NewTaskLemma ==
  ASSUME NEW q \in Seq(Proc), Len(q) <= MaxProc, NEW s \in [Proc -> ProcState],
         SchedTypeOK, NewTask(q, s)
  PROVE  SwitchOK(s)
<1> DEFINE q1 == IF s[current] = "PROC_READY" THEN Enqueue(q, current) ELSE q
           ready == ReadyEntries(q1, s)
<1>0. MaxProc \in Nat \ {0} /\ current \in Proc /\ halted \in BOOLEAN
  BY SchedulerAssumption DEF SchedTypeOK
<1>1. q1 \in Seq(Proc) /\ Len(q1) <= MaxProc
  BY <1>0, EnqueueLemma
<1>2. CASE ready = {}
  BY <1>0, <1>2 DEF NewTask, SwitchOK
<1>3. CASE ready # {}
  <2>1. PICK i \in ready : /\ current' = q1[i]
                           /\ run_queue' = SubSeq(q1, i + 1, Len(q1))
                           /\ halted' = halted
    BY <1>3 DEF NewTask
  <2>2. i \in 1..Len(q1) /\ s[q1[i]] = "PROC_READY"
    BY <1>1 DEF ReadyEntries
  <2>3. q1[i] \in Proc
    BY <1>1, <2>2
  <2>4. run_queue' \in Seq(Proc) /\ Len(run_queue') <= MaxProc
    BY <1>0, <1>1, <2>1, <2>2
  <2> QED
    BY <1>0, <2>1, <2>2, <2>3, <2>4 DEF SwitchOK
<1> QED
  BY <1>2, <1>3 DEF SwitchOK

(* A mutex_lock that returns brings one depth up by one, within the 7 bits *)
(* of mutex_t.count, and leaves the others.                                *)
LEMMA DeeperLemma ==
  ASSUME MutexTypeOK, NEW p \in Proc, NEW m \in Mutex, depth[p][m] < MaxDepth,
         Deeper(p, m)
  PROVE  /\ depth' \in [Proc -> [Mutex -> 0..MaxDepth]]
         /\ \A q \in Proc, n \in Mutex :
              depth'[q][n] = IF q = p /\ n = m THEN depth[q][n] + 1 ELSE depth[q][n]
BY MutexAssumption DEF MutexTypeOK, Deeper, CountMod

(* A mutex_unlock brings one depth down by one and leaves the others.      *)
LEMMA ShallowerLemma ==
  ASSUME MutexTypeOK, NEW p \in Proc, NEW m \in Mutex, depth[p][m] > 0,
         Shallower(p, m)
  PROVE  /\ depth' \in [Proc -> [Mutex -> 0..MaxDepth]]
         /\ \A q \in Proc, n \in Mutex :
              depth'[q][n] = IF q = p /\ n = m THEN depth[q][n] - 1 ELSE depth[q][n]
BY MutexAssumption DEF MutexTypeOK, Shallower, CountMod

(* mutex_lock before the scheduler runs.                                   *)
LEMMA LockStoppedStep ==
  ASSUME LockInv, NEW p \in Proc, NEW m \in Mutex, LockStopped(p, m)
  PROVE  LockInv'
<1>1. /\ depth' \in [Proc -> [Mutex -> 0..MaxDepth]]
      /\ \A q \in Proc, n \in Mutex :
           depth'[q][n] = IF q = p /\ n = m THEN depth[q][n] + 1 ELSE depth[q][n]
  BY DeeperLemma DEF LockStopped, CallLock, LockInv, TypeOK
<1>2. SchedTypeOK' /\ WaiterTypeOK' /\ BootInv' /\ CurrentReady' /\ ListEnds' /\
      ListLinks' /\ ListLast'
  BY DEF LockStopped, schedVars, SchedTypeOK, TypeOK, LockInv, waiterVars,
       WaiterTypeOK, BootInv, CurrentReady, ListEnds, ListLinks, ListLast
<1>3. MutexTypeOK'
  BY <1>1 DEF LockStopped, MutexTypeOK, TypeOK, LockInv
<1>4. HolderOwns'
  BY <1>1 DEF LockStopped, CallLock, schedVars, HolderOwns, BootInv, LockInv
<1>5. OwnerHolds'
  BY DEF LockStopped, OwnerHolds, BootInv, LockInv
<1>6. WaiterInv'
  BY DEF LockStopped, waiterVars, WaiterInv, Waits, BootInv, LockInv
<1>7. WakeInv'
  BY DEF LockStopped, schedVars, waiterVars, WakeInv, Waits, LockInv
<1> QED
  BY <1>2, <1>3, <1>4, <1>5, <1>6, <1>7 DEF LockInv, TypeOK

(* mutex_lock by the owner.                                                *)
LEMMA LockNestedStep ==
  ASSUME LockInv, NEW p \in Proc, NEW m \in Mutex, LockNested(p, m)
  PROVE  LockInv'
<1>1. /\ depth' \in [Proc -> [Mutex -> 0..MaxDepth]]
      /\ \A q \in Proc, n \in Mutex :
           depth'[q][n] = IF q = p /\ n = m THEN depth[q][n] + 1 ELSE depth[q][n]
  BY DeeperLemma DEF LockNested, CallLock, LockInv, TypeOK
<1>2. count[m] = depth[p][m] /\ count[m] \in 1..(MaxDepth - 1)
  BY MutexAssumption DEF LockNested, CallLock, LockInv, OwnerHolds, HolderOwns,
       Waits, TypeOK, MutexTypeOK
<1>3. count' = [count EXCEPT ![m] = @ + 1] /\ count' \in [Mutex -> 0..(CountMod - 1)]
  <2>1. (count[m] + 1) % CountMod = count[m] + 1
    BY <1>2, MutexAssumption DEF CountMod
  <2>2. count' = [count EXCEPT ![m] = @ + 1]
    BY <2>1 DEF LockNested
  <2>3. count[m] + 1 \in 0..(CountMod - 1)
    BY <1>2, MutexAssumption DEF CountMod
  <2> QED
    BY <2>2, <2>3 DEF LockInv, TypeOK, MutexTypeOK
<1>4. SchedTypeOK' /\ WaiterTypeOK' /\ BootInv' /\ CurrentReady' /\ ListEnds' /\
      ListLinks' /\ ListLast'
  BY DEF LockNested, schedVars, SchedTypeOK, TypeOK, LockInv, waiterVars,
       WaiterTypeOK, BootInv, CurrentReady, ListEnds, ListLinks, ListLast
<1>5. MutexTypeOK'
  BY <1>3, <1>1 DEF LockNested, MutexTypeOK, TypeOK, LockInv
<1>6. HolderOwns'
  BY <1>3, <1>1 DEF LockNested, CallLock, schedVars, HolderOwns, OwnerHolds,
       WaiterInv, Waits, LockInv
<1>7. OwnerHolds'
  BY <1>1, MutexAssumption DEF LockNested, HolderOwns, OwnerHolds, Waits, MutexTypeOK,
       TypeOK, LockInv
<1>8. WaiterInv'
  BY <1>1 DEF LockNested, CallLock, waiterVars, WaiterInv, Waits, Granted, LockInv
<1>9. WakeInv'
  BY DEF LockNested, schedVars, waiterVars, WakeInv, Waits, LockInv
<1> QED
  BY <1>4, <1>5, <1>6, <1>7, <1>8, <1>9 DEF LockInv, TypeOK

(* mutex_lock of a free mutex.                                             *)
LEMMA LockClaimStep ==
  ASSUME LockInv, NEW p \in Proc, NEW m \in Mutex, LockClaim(p, m)
  PROVE  LockInv'
<1>1. /\ depth' \in [Proc -> [Mutex -> 0..MaxDepth]]
      /\ \A q \in Proc, n \in Mutex :
           depth'[q][n] = IF q = p /\ n = m THEN depth[q][n] + 1 ELSE depth[q][n]
  BY DeeperLemma DEF LockClaim, CallLock, LockInv, TypeOK
<1>2. SchedTypeOK' /\ WaiterTypeOK' /\ BootInv' /\ CurrentReady' /\ ListEnds' /\
      ListLinks' /\ ListLast'
  BY DEF LockClaim, schedVars, SchedTypeOK, TypeOK, LockInv, waiterVars, WaiterTypeOK,
       BootInv, CurrentReady, ListEnds, ListLinks, ListLast
<1>3. MutexTypeOK'
  BY <1>1 DEF LockClaim, MutexTypeOK, CountMod, TypeOK, LockInv
<1>4. HolderOwns'
  BY <1>1 DEF LockClaim, schedVars, HolderOwns, MutexTypeOK, TypeOK, LockInv
<1>5. OwnerHolds'
  BY <1>1 DEF LockClaim, OwnerHolds, Waits, MutexTypeOK, TypeOK, LockInv
<1>6. WaiterInv'
  BY <1>1 DEF LockClaim, CallLock, waiterVars, WaiterInv, Waits, Granted, LockInv
<1>7. WakeInv'
  BY DEF LockClaim, schedVars, waiterVars, WakeInv, Waits, LockInv
<1> QED
  BY <1>2, <1>3, <1>4, <1>5, <1>6, <1>7 DEF LockInv, TypeOK

(* mutex_lock of a taken mutex: the caller joins the wait queue.           *)
LEMMA LockWaitStep ==
  ASSUME LockInv, NEW p \in Proc, NEW m \in Mutex, LockWait(p, m)
  PROVE  LockInv'
<1>1. SchedTypeOK' /\ BootInv' /\ CurrentReady'
  BY DEF LockWait, schedVars, SchedTypeOK, TypeOK, LockInv, BootInv, CurrentReady
<1>2. WaiterTypeOK'
  BY DEF LockWait, WaiterPush, WaiterTypeOK, TypeOK, LockInv, Mutex
<1>3. MutexTypeOK'
  BY DEF LockWait, MutexTypeOK, TypeOK, LockInv
<1>4. HolderOwns'
  BY DEF LockWait, schedVars, HolderOwns, LockInv
<1>5. OwnerHolds'
  BY DEF LockWait, CallLock, OwnerHolds, Waits, LockInv
<1>6. WaiterInv'
  BY DEF LockWait, WaiterPush, WaiterInv, Waits, Granted, HolderOwns, MutexTypeOK,
       WaiterTypeOK, TypeOK, LockInv
<1>7. ListEnds'
  BY WaiterAssumption DEF LockWait, CallLock, WaiterPush, ListEnds, ListLinks,
       WaiterTypeOK, WaiterInv, Waits, TypeOK, LockInv, Mutex
<1>8. ListLinks'
  BY WaiterAssumption DEF LockWait, CallLock, WaiterPush, ListLinks, ListEnds,
       WaiterTypeOK, WaiterInv, Waits, TypeOK, LockInv, Mutex
<1>9. ListLast'
  BY WaiterAssumption DEF LockWait, WaiterPush, ListLast, WaiterTypeOK, TypeOK,
       LockInv, Mutex
<1>10. WakeInv'
  BY DEF LockWait, CallLock, WaiterPush, schedVars, WakeInv, Waits, LockInv
<1> QED
  BY <1>1, <1>2, <1>3, <1>4, <1>5, <1>6, <1>7, <1>8, <1>9, <1>10 DEF LockInv, TypeOK

(* mutex_lock calls proc_block.                                            *)
LEMMA LockBlockStep ==
  ASSUME LockInv, NEW p \in Proc, LockBlock(p)
  PROVE  LockInv'
<1>1. SwitchOK(state') /\ state' \in [Proc -> ProcState]
  <2>1. SchedTypeOK /\ run_queue \in Seq(Proc) /\ Len(run_queue) <= MaxProc
    BY DEF LockInv, TypeOK, SchedTypeOK
  <2>2. state' \in [Proc -> ProcState]
    BY <2>1 DEF LockBlock, Block, SchedTypeOK, ProcState
  <2>3. NewTask(run_queue, state')
    BY DEF LockBlock, Block
  <2> QED
    BY <2>1, <2>2, <2>3, NewTaskLemma
<1>2. WaiterTypeOK' /\ ListEnds' /\ ListLinks' /\ ListLast'
  BY DEF LockBlock, waiterVars, WaiterTypeOK, TypeOK, LockInv, ListEnds, ListLinks,
       ListLast
<1>3. SchedTypeOK'
  BY <1>1 DEF LockBlock, Block, SchedTypeOK, SwitchOK
<1>4. MutexTypeOK'
  BY DEF LockBlock, MutexTypeOK, TypeOK, LockInv
<1>5. BootInv'
  BY DEF LockBlock, Block, BootInv
<1>6. CurrentReady'
  BY <1>1 DEF LockBlock, CurrentReady, SwitchOK
<1>7. HolderOwns'
  BY DEF LockBlock, Block, HolderOwns, BootInv, LockInv
<1>8. OwnerHolds'
  BY DEF LockBlock, OwnerHolds, Waits, LockInv
<1>9. WaiterInv'
  BY DEF LockBlock, waiterVars, WaiterInv, Waits, Granted, LockInv
<1>10. WakeInv'
  BY DEF LockBlock, Block, waiterVars, WakeInv, Waits, SchedTypeOK, TypeOK, LockInv
<1> QED
  BY <1>2, <1>3, <1>4, <1>5, <1>6, <1>7, <1>8, <1>9, <1>10 DEF LockInv, TypeOK

(* mutex_lock returns to a waiter: it was handed the mutex before.         *)
LEMMA LockReturnStep ==
  ASSUME LockInv, NEW p \in Proc, LockReturn(p)
  PROVE  LockInv'
<1>1. /\ wants[p] \in Mutex /\ waiting_on[p] = Nil /\ Granted(p)
      /\ depth[p][wants[p]] = 0 /\ count[wants[p]] = 1
      /\ \A q \in Proc : next[q] # p
  BY WaiterAssumption DEF LockReturn, Running, LockInv, CurrentReady, WaiterInv,
       WakeInv, Waits, Mutex
<1>2. /\ depth' \in [Proc -> [Mutex -> 0..MaxDepth]]
      /\ \A q \in Proc, n \in Mutex :
           depth'[q][n] = IF q = p /\ n = wants[p] THEN depth[q][n] + 1 ELSE depth[q][n]
  BY <1>1, MutexAssumption, DeeperLemma DEF LockReturn, LockInv, TypeOK, CountMod, Mutex
<1>3. sched_started /\ \A q \in Proc : depth[q][wants[p]] = 0
  BY <1>1, WaiterAssumption DEF LockReturn, LockInv, BootInv, HolderOwns, Granted,
       TypeOK, MutexTypeOK
<1>4. SchedTypeOK' /\ WaiterTypeOK' /\ BootInv' /\ CurrentReady' /\ ListEnds' /\
      ListLinks' /\ ListLast'
  BY DEF LockReturn, schedVars, SchedTypeOK, TypeOK, LockInv, waiterVars,
       WaiterTypeOK, BootInv, CurrentReady, ListEnds, ListLinks, ListLast
<1>5. MutexTypeOK'
  BY <1>2 DEF LockReturn, MutexTypeOK, TypeOK, LockInv
<1>6. HolderOwns'
  BY <1>1, <1>1, <1>2, MutexAssumption DEF LockReturn, schedVars, HolderOwns, Granted,
       WaiterInv, BootInv, LockInv, Mutex
<1>7. OwnerHolds'
  BY <1>2 DEF LockReturn, HolderOwns, OwnerHolds, WaiterInv, Waits, BootInv, LockInv
<1>8. WaiterInv'
  BY <1>1, <1>1, <1>2 DEF LockReturn, waiterVars, WaiterInv, Waits, Granted,
       MutexTypeOK, TypeOK, LockInv
<1>9. WakeInv'
  BY DEF LockReturn, Running, schedVars, waiterVars, WakeInv, Waits, CurrentReady,
       LockInv
<1> QED
  BY <1>4, <1>5, <1>6, <1>7, <1>8, <1>9 DEF LockInv, TypeOK

(* mutex_unlock before the scheduler runs.                                 *)
LEMMA UnlockStoppedStep ==
  ASSUME LockInv, NEW p \in Proc, NEW m \in Mutex, UnlockStopped(p, m)
  PROVE  LockInv'
<1>1. /\ depth' \in [Proc -> [Mutex -> 0..MaxDepth]]
      /\ \A q \in Proc, n \in Mutex :
           depth'[q][n] = IF q = p /\ n = m THEN depth[q][n] - 1 ELSE depth[q][n]
  BY ShallowerLemma DEF UnlockStopped, CallUnlock, LockInv, TypeOK
<1>2. SchedTypeOK' /\ WaiterTypeOK' /\ BootInv' /\ CurrentReady' /\ ListEnds' /\
      ListLinks' /\ ListLast'
  BY DEF UnlockStopped, schedVars, SchedTypeOK, TypeOK, LockInv, waiterVars,
       WaiterTypeOK, BootInv, CurrentReady, ListEnds, ListLinks, ListLast
<1>3. MutexTypeOK'
  BY <1>1 DEF UnlockStopped, MutexTypeOK, TypeOK, LockInv
<1>4. HolderOwns'
  BY <1>1 DEF UnlockStopped, CallUnlock, schedVars, HolderOwns, LockInv
<1>5. OwnerHolds'
  BY DEF UnlockStopped, OwnerHolds, BootInv, LockInv
<1>6. WaiterInv'
  BY DEF UnlockStopped, waiterVars, WaiterInv, Waits, BootInv, LockInv
<1>7. WakeInv'
  BY DEF UnlockStopped, schedVars, waiterVars, WakeInv, Waits, LockInv
<1> QED
  BY <1>2, <1>3, <1>4, <1>5, <1>6, <1>7 DEF LockInv, TypeOK

(* mutex_unlock of a mutex that is taken more than once.                   *)
LEMMA UnlockNestedStep ==
  ASSUME LockInv, NEW p \in Proc, NEW m \in Mutex, UnlockNested(p, m)
  PROVE  LockInv'
<1>1. /\ depth' \in [Proc -> [Mutex -> 0..MaxDepth]]
      /\ \A q \in Proc, n \in Mutex :
           depth'[q][n] = IF q = p /\ n = m THEN depth[q][n] - 1 ELSE depth[q][n]
  BY ShallowerLemma DEF UnlockNested, CallUnlock, LockInv, TypeOK
<1>2. SchedTypeOK' /\ WaiterTypeOK' /\ BootInv' /\ CurrentReady' /\ ListEnds' /\
      ListLinks' /\ ListLast'
  BY DEF UnlockNested, schedVars, SchedTypeOK, TypeOK, LockInv, waiterVars,
       WaiterTypeOK, BootInv, CurrentReady, ListEnds, ListLinks, ListLast
<1>3. MutexTypeOK'
  BY <1>1 DEF UnlockNested, MutexTypeOK, CountMod, TypeOK, LockInv
<1>4. HolderOwns'
  BY <1>1 DEF UnlockNested, schedVars, HolderOwns, MutexTypeOK, TypeOK, LockInv
<1>5. OwnerHolds'
  BY <1>1, WaiterAssumption DEF UnlockNested, Running, HolderOwns, OwnerHolds, Waits,
       MutexTypeOK, TypeOK, LockInv
<1>6. WaiterInv'
  BY <1>1 DEF UnlockNested, waiterVars, WaiterInv, Waits, Granted, LockInv
<1>7. WakeInv'
  BY DEF UnlockNested, schedVars, waiterVars, WakeInv, Waits, LockInv
<1> QED
  BY <1>2, <1>3, <1>4, <1>5, <1>6, <1>7 DEF LockInv, TypeOK

(* mutex_unlock hands the mutex to the first waiter.                       *)
LEMMA UnlockHandOffStep ==
  ASSUME LockInv, NEW p \in Proc, NEW m \in Mutex, UnlockHandOff(p, m)
  PROVE  LockInv'
<1>1. /\ depth' \in [Proc -> [Mutex -> 0..MaxDepth]]
      /\ \A q \in Proc, n \in Mutex :
           depth'[q][n] = IF q = p /\ n = m THEN depth[q][n] - 1 ELSE depth[q][n]
  BY ShallowerLemma DEF UnlockHandOff, CallUnlock, LockInv, TypeOK
<1>2. /\ tail[m] \in Proc /\ Waits(tail[m]) /\ wants[tail[m]] = m
      /\ depth[tail[m]][m] = 0 /\ tail[m] # p
      /\ count[m] = 1 /\ depth[p][m] = 1 /\ lock[m] = 1
  BY WaiterAssumption DEF UnlockHandOff, CallUnlock, LockInv, ListEnds, WaiterInv,
       HolderOwns, Waits, TypeOK, WaiterTypeOK, MutexTypeOK, Mutex
<1>3. SchedTypeOK' /\ BootInv' /\ CurrentReady'
  BY DEF UnlockHandOff, schedVars, SchedTypeOK, TypeOK, LockInv, BootInv, CurrentReady
<1>4. WaiterTypeOK'
  BY DEF UnlockHandOff, WaiterPop, WaiterTypeOK, TypeOK, LockInv
<1>5. MutexTypeOK'
  BY <1>1 DEF UnlockHandOff, MutexTypeOK, WaiterTypeOK, TypeOK, LockInv, Mutex
<1>6. HolderOwns'
  BY <1>1 DEF UnlockHandOff, schedVars, HolderOwns, MutexTypeOK, TypeOK, LockInv
<1>7. OwnerHolds'
  BY <1>2, <1>1 DEF UnlockHandOff, CallUnlock, OwnerHolds, Waits, MutexTypeOK, TypeOK,
       LockInv
<1>8. WaiterInv'
  BY <1>1 DEF UnlockHandOff, CallUnlock, WaiterPop, WaiterInv, Waits, Granted,
       HolderOwns, MutexTypeOK, ListEnds, TypeOK, LockInv
<1>9. ListEnds'
  BY DEF UnlockHandOff, WaiterPop, ListEnds, ListLinks, WaiterTypeOK, TypeOK, LockInv
<1>10. ListLinks'
  BY DEF UnlockHandOff, WaiterPop, ListLinks, WaiterTypeOK, TypeOK, LockInv
<1>11. ListLast'
  BY DEF UnlockHandOff, WaiterPop, ListLast, ListEnds, WaiterTypeOK, TypeOK, LockInv
<1>12. WakeInv'
  BY WaiterAssumption DEF UnlockHandOff, CallUnlock, WaiterPop, schedVars, WakeInv,
       Waits, WaiterInv, MutexTypeOK, WaiterTypeOK, ListEnds, TypeOK, LockInv, Mutex
<1> QED
  BY <1>3, <1>4, <1>5, <1>6, <1>7, <1>8, <1>9, <1>10, <1>11, <1>12 DEF LockInv, TypeOK

(* mutex_unlock wakes the waiter that was handed the mutex.                *)
LEMMA UnlockWakeStep ==
  ASSUME LockInv, NEW p \in Proc, UnlockWake(p)
  PROVE  LockInv'
<1>1. next[p] \in Proc /\ Waits(next[p]) /\ waiting_on[next[p]] = Nil
  BY DEF UnlockWake, LockInv, WakeInv, TypeOK, MutexTypeOK
<1>2. SwitchOK(state') /\ state' \in [Proc -> ProcState]
  <2>1. SchedTypeOK /\ run_queue \in Seq(Proc) /\ Len(run_queue) <= MaxProc
    BY DEF LockInv, TypeOK, SchedTypeOK
  <2>2. state' \in [Proc -> ProcState]
    BY <1>1, <2>1 DEF UnlockWake, Unblock, SchedTypeOK, ProcState
  <2>3. /\ Enqueue(run_queue, next[p]) \in Seq(Proc)
        /\ Len(Enqueue(run_queue, next[p])) <= MaxProc
    BY <1>1, <2>1, EnqueueLemma
  <2>4. NewTask(Enqueue(run_queue, next[p]), state')
    BY DEF UnlockWake, Unblock
  <2> QED
    BY <2>1, <2>2, <2>3, <2>4, NewTaskLemma
<1>3. WaiterTypeOK' /\ ListEnds' /\ ListLinks' /\ ListLast'
  BY DEF UnlockWake, waiterVars, WaiterTypeOK, TypeOK, LockInv, ListEnds, ListLinks,
       ListLast
<1>4. SchedTypeOK'
  BY <1>2 DEF UnlockWake, Unblock, SchedTypeOK, SwitchOK
<1>5. MutexTypeOK'
  BY DEF UnlockWake, MutexTypeOK, TypeOK, LockInv
<1>6. BootInv'
  BY DEF UnlockWake, Unblock, BootInv
<1>7. CurrentReady'
  BY <1>2 DEF UnlockWake, CurrentReady, SwitchOK
<1>8. HolderOwns'
  BY DEF UnlockWake, Unblock, HolderOwns, BootInv, LockInv
<1>9. OwnerHolds'
  BY DEF UnlockWake, OwnerHolds, Waits, LockInv
<1>10. WaiterInv'
  BY DEF UnlockWake, waiterVars, WaiterInv, Waits, Granted, LockInv
<1>11. WakeInv'
  BY DEF UnlockWake, Unblock, waiterVars, WakeInv, Waits, MutexTypeOK, TypeOK, LockInv
<1> QED
  BY <1>3, <1>4, <1>5, <1>6, <1>7, <1>8, <1>9, <1>10, <1>11 DEF LockInv, TypeOK

(* mutex_unlock of a mutex nobody waits for.                               *)
LEMMA UnlockReleaseStep ==
  ASSUME LockInv, NEW p \in Proc, NEW m \in Mutex, UnlockRelease(p, m)
  PROVE  LockInv'
<1>1. /\ depth' \in [Proc -> [Mutex -> 0..MaxDepth]]
      /\ \A q \in Proc, n \in Mutex :
           depth'[q][n] = IF q = p /\ n = m THEN depth[q][n] - 1 ELSE depth[q][n]
  BY ShallowerLemma DEF UnlockRelease, CallUnlock, LockInv, TypeOK
<1>2. SchedTypeOK' /\ WaiterTypeOK' /\ BootInv' /\ CurrentReady' /\ ListEnds' /\
      ListLinks' /\ ListLast'
  BY DEF UnlockRelease, schedVars, SchedTypeOK, TypeOK, LockInv, waiterVars,
       WaiterTypeOK, BootInv, CurrentReady, ListEnds, ListLinks, ListLast
<1>3. MutexTypeOK'
  BY <1>1 DEF UnlockRelease, MutexTypeOK, TypeOK, LockInv
<1>4. HolderOwns'
  BY <1>1 DEF UnlockRelease, schedVars, HolderOwns, MutexTypeOK, TypeOK, LockInv
<1>5. OwnerHolds'
  BY <1>1 DEF UnlockRelease, OwnerHolds, Waits, MutexTypeOK, TypeOK, LockInv
<1>6. WaiterInv'
  BY <1>1 DEF UnlockRelease, waiterVars, WaiterInv, Waits, Granted, LockInv
<1>7. WakeInv'
  BY DEF UnlockRelease, schedVars, waiterVars, WakeInv, Waits, LockInv
<1> QED
  BY <1>2, <1>3, <1>4, <1>5, <1>6, <1>7 DEF LockInv, TypeOK

(* The scheduler starts: no mutex is in use.                               *)
LEMMA StartSchedulingStep ==
  ASSUME LockInv, StartScheduling
  PROVE  LockInv'
<1>1. SchedTypeOK' /\ WaiterTypeOK' /\ BootInv' /\ CurrentReady' /\ ListEnds' /\
      ListLinks' /\ ListLast'
  BY DEF StartScheduling, SchedTypeOK, TypeOK, LockInv, waiterVars, WaiterTypeOK,
       BootInv, CurrentReady, ListEnds, ListLinks, ListLast
<1>2. MutexTypeOK'
  BY DEF StartScheduling, mutexVars, MutexTypeOK, TypeOK, LockInv
<1>3. HolderOwns'
  BY DEF StartScheduling, mutexVars, HolderOwns, LockInv
<1>4. OwnerHolds'
  BY DEF StartScheduling, mutexVars, OwnerHolds, Waits, LockInv
<1>5. WaiterInv'
  BY DEF StartScheduling, mutexVars, waiterVars, WaiterInv, Waits, Granted, LockInv
<1>6. WakeInv'
  BY DEF StartScheduling, mutexVars, waiterVars, WakeInv, Waits, LockInv
<1> QED
  BY <1>1, <1>2, <1>3, <1>4, <1>5, <1>6 DEF LockInv, TypeOK

(* The first SIGCONT to a process.                                         *)
LEMMA StartProcessStep ==
  ASSUME LockInv, NEW p \in Proc, NEW q \in Proc, StartProcess(p, q)
  PROVE  LockInv'
<1>1. SwitchOK(state') /\ state' \in [Proc -> ProcState]
  <2>1. SchedTypeOK /\ run_queue \in Seq(Proc) /\ Len(run_queue) <= MaxProc
    BY DEF LockInv, TypeOK, SchedTypeOK
  <2>2. state' \in [Proc -> ProcState]
    BY <2>1 DEF StartProcess, Unblock, SchedTypeOK, ProcState
  <2>3. Enqueue(run_queue, q) \in Seq(Proc) /\ Len(Enqueue(run_queue, q)) <= MaxProc
    BY <2>1, EnqueueLemma
  <2>4. NewTask(Enqueue(run_queue, q), state')
    BY DEF StartProcess, Unblock
  <2> QED
    BY <2>1, <2>2, <2>3, <2>4, NewTaskLemma
<1>2. WaiterTypeOK' /\ ListEnds' /\ ListLinks' /\ ListLast'
  BY DEF StartProcess, waiterVars, WaiterTypeOK, TypeOK, LockInv, ListEnds, ListLinks,
       ListLast
<1>3. SchedTypeOK'
  BY <1>1 DEF StartProcess, Unblock, SchedTypeOK, SwitchOK
<1>4. MutexTypeOK'
  BY DEF StartProcess, MutexTypeOK, TypeOK, LockInv
<1>5. BootInv'
  BY DEF StartProcess, Unblock, BootInv
<1>6. CurrentReady'
  BY <1>1 DEF StartProcess, CurrentReady, SwitchOK
<1>7. HolderOwns'
  BY DEF StartProcess, Unblock, HolderOwns, LockInv
<1>8. OwnerHolds'
  BY DEF StartProcess, OwnerHolds, Waits, LockInv
<1>9. WaiterInv'
  BY DEF StartProcess, waiterVars, WaiterInv, Waits, Granted, LockInv
<1>10. WakeInv'
  BY DEF StartProcess, Unblock, waiterVars, WakeInv, Waits, LockInv
<1> QED
  BY <1>2, <1>3, <1>4, <1>5, <1>6, <1>7, <1>8, <1>9, <1>10 DEF LockInv, TypeOK

(* A SysTick preempts the running process.                                 *)
LEMMA TickStep ==
  ASSUME LockInv, Tick
  PROVE  LockInv'
<1>1. SwitchOK(state') /\ state' \in [Proc -> ProcState]
  <2>1. SchedTypeOK /\ run_queue \in Seq(Proc) /\ Len(run_queue) <= MaxProc
    BY DEF LockInv, TypeOK, SchedTypeOK
  <2>2. state' \in [Proc -> ProcState]
    BY <2>1 DEF Tick, Preempt, SchedTypeOK, ProcState
  <2>3. NewTask(run_queue, state')
    BY DEF Tick, Preempt
  <2> QED
    BY <2>1, <2>2, <2>3, NewTaskLemma
<1>2. WaiterTypeOK' /\ ListEnds' /\ ListLinks' /\ ListLast'
  BY DEF Tick, waiterVars, WaiterTypeOK, TypeOK, LockInv, ListEnds, ListLinks,
       ListLast
<1>3. SchedTypeOK'
  BY <1>1 DEF Tick, Preempt, SchedTypeOK, SwitchOK
<1>4. MutexTypeOK'
  BY DEF Tick, mutexVars, MutexTypeOK, TypeOK, LockInv
<1>5. BootInv'
  BY DEF Tick, Preempt, BootInv
<1>6. CurrentReady'
  BY <1>1 DEF Tick, CurrentReady, SwitchOK
<1>7. HolderOwns'
  BY DEF Tick, Preempt, mutexVars, HolderOwns, LockInv
<1>8. OwnerHolds'
  BY DEF Tick, mutexVars, OwnerHolds, Waits, LockInv
<1>9. WaiterInv'
  BY DEF Tick, mutexVars, waiterVars, WaiterInv, Waits, Granted, LockInv
<1>10. WakeInv'
  BY DEF Tick, Preempt, mutexVars, waiterVars, WakeInv, Waits, LockInv
<1> QED
  BY <1>2, <1>3, <1>4, <1>5, <1>6, <1>7, <1>8, <1>9, <1>10 DEF LockInv, TypeOK

-----------------------------------------------------------------------------
(* The kernel boots into the invariant: nothing is locked, nobody waits.   *)
LEMMA InitLemma == Init => LockInv
<1> SUFFICES ASSUME Init
             PROVE  LockInv
  OBVIOUS
<1> USE DEF Init
<1>1. TypeOK
  <2>1. SchedTypeOK
    <3>1. state \in [Proc -> ProcState]
      BY DEF ProcState
    <3>2. run_queue \in Seq(Proc) /\ Len(run_queue) <= MaxProc
      BY SchedulerAssumption
    <3>3. sched_started \in BOOLEAN /\ halted \in BOOLEAN
      BY Zenon
    <3> QED
      BY <3>1, <3>2, <3>3, SchedulerAssumption DEF SchedTypeOK
  <2>2. WaiterTypeOK
    BY DEF WaiterInit, WaiterTypeOK
  <2>3. lock \in [Mutex -> 0..1] /\ owner \in [Mutex -> Proc \cup {Nil}]
    BY DEF MutexInit
  <2>4. count \in [Mutex -> 0..(CountMod - 1)]
    BY DEF MutexInit, CountMod
  <2>5. pc \in [Proc -> {"new", "run", "block", "asleep", "wake"}]
    OBVIOUS
  <2>6. wants \in [Proc -> Mutex \cup {Nil}] /\ next \in [Proc -> Proc \cup {Nil}]
    BY DEF MutexInit
  <2>7. depth \in [Proc -> [Mutex -> 0..MaxDepth]]
    BY MutexAssumption DEF MutexInit, CountMod
  <2> QED
    BY <2>1, <2>2, <2>3, <2>4, <2>5, <2>6, <2>7 DEF TypeOK, MutexTypeOK
<1>2. BootInv /\ CurrentReady
  BY SchedulerAssumption DEF MutexInit, BootInv, CurrentReady
<1>3. HolderOwns /\ OwnerHolds /\ WaiterInv
  BY DEF MutexInit, WaiterInit, HolderOwns, OwnerHolds, WaiterInv, Waits
<1>4. ListEnds /\ ListLinks /\ ListLast
  BY DEF MutexInit, WaiterInit, ListEnds, ListLinks, ListLast, Mutex
<1>5. WakeInv
  BY DEF MutexInit, WaiterInit, WakeInv
<1> QED
  BY <1>1, <1>2, <1>3, <1>4, <1>5 DEF LockInv

(* Every step of the specification keeps the invariant.                    *)
LEMMA NextLemma == LockInv /\ [Next]_vars => LockInv'
<1> SUFFICES ASSUME LockInv, [Next]_vars
             PROVE  LockInv'
  OBVIOUS
<1>1. CASE \E p \in Proc, m \in Mutex : Take(p, m)
  BY <1>1, LockStoppedStep, LockNestedStep, LockClaimStep DEF Take
<1>2. CASE \E p \in Proc, m \in Mutex : Leave(p, m)
  BY <1>2, UnlockStoppedStep, UnlockNestedStep, UnlockHandOffStep, UnlockReleaseStep
  DEF Leave
<1>3. CASE \E p \in Proc \ {Idle}, m \in Mutex : LockWait(p, m)
  BY <1>3, LockWaitStep
<1>4. CASE \E p \in Proc : LockBlock(p) \/ LockReturn(p) \/ UnlockWake(p)
  BY <1>4, LockBlockStep, LockReturnStep, UnlockWakeStep
<1>5. CASE \E p, q \in Proc : StartProcess(p, q)
  BY <1>5, StartProcessStep
<1>6. CASE StartScheduling
  BY <1>6, StartSchedulingStep
<1>7. CASE Tick
  BY <1>7, TickStep
<1>8. CASE UNCHANGED vars
  <2>1. TypeOK'
    BY <1>8 DEF vars, schedVars, waiterVars, mutexVars, LockInv, TypeOK, SchedTypeOK,
         WaiterTypeOK, MutexTypeOK
  <2>2. BootInv' /\ CurrentReady' /\ HolderOwns' /\ OwnerHolds'
    BY <1>8 DEF vars, schedVars, waiterVars, mutexVars, LockInv, BootInv, CurrentReady,
         HolderOwns, OwnerHolds, Waits
  <2>3. WaiterInv' /\ ListEnds' /\ ListLinks' /\ ListLast' /\ WakeInv'
    BY <1>8 DEF vars, schedVars, waiterVars, mutexVars, LockInv, WaiterInv, Waits,
         Granted, ListEnds, ListLinks, ListLast, WakeInv
  <2> QED
    BY <2>1, <2>2, <2>3 DEF LockInv
<1> QED
  BY <1>1, <1>2, <1>3, <1>4, <1>5, <1>6, <1>7, <1>8 DEF Next

(* LockInv holds in every reachable state: the kernel's wait queues, owner *)
(* fields and pending wake-ups agree whatever preempts whom.               *)
THEOREM Invariant == Spec => []LockInv
<1>1. Init => LockInv
  BY InitLemma
<1>2. LockInv /\ [Next]_vars => LockInv'
  BY NextLemma
<1> QED
  BY <1>1, <1>2, PTL DEF Spec

(* Every variable keeps its type: the run queue never exceeds PROC_MAX_PROC *)
(* entries and no recursion counter leaves its 7 bits.                      *)
THEOREM TypeCorrect == Spec => []TypeOK
<1>1. LockInv => TypeOK
  BY DEF LockInv
<1> QED
  BY <1>1, Invariant, PTL

(* At most one process is between mutex_lock and mutex_unlock of a mutex.  *)
THEOREM MutualExclusionHolds == Spec => []MutualExclusion
<1>1. LockInv => MutualExclusion
  <2> SUFFICES ASSUME LockInv, NEW m \in Mutex, NEW p \in Proc, NEW q \in Proc,
                      depth[p][m] > 0, depth[q][m] > 0
               PROVE  p = q
    BY DEF MutualExclusion
  <2>1. CASE sched_started
    BY <2>1 DEF LockInv, HolderOwns
  <2>2. CASE ~sched_started
    BY <2>2 DEF LockInv, HolderOwns
  <2>3. sched_started \in BOOLEAN
    BY DEF LockInv, TypeOK, SchedTypeOK
  <2> QED
    BY <2>1, <2>2, <2>3
<1> QED
  BY <1>1, Invariant, PTL

-----------------------------------------------------------------------------
(* s lists wait queue m: tail and head are its ends, wait_next links each  *)
(* of its processes to the next, none occurs twice, and they are exactly   *)
(* the processes whose waiting_on is m.                                    *)
IsQueue(m, s) ==
  /\ s \in Seq(Proc)
  /\ tail[m] = IF Len(s) = 0 THEN Nil ELSE s[1]
  /\ head[m] = IF Len(s) = 0 THEN Nil ELSE s[Len(s)]
  /\ \A i \in 1..Len(s) :
       wait_next[s[i]] = IF i = Len(s) THEN Nil ELSE s[i + 1]
  /\ \A i, j \in 1..Len(s) : s[i] = s[j] => i = j
  /\ \A p \in Proc : waiting_on[p] = m <=> \E i \in 1..Len(s) : s[i] = p

(* The walk along wait_next is defined: it starts at tail and goes on link *)
(* by link.  It is the iteration of one function.                          *)
LEMMA FollowLemma ==
  ASSUME WaiterTypeOK, NEW m \in Mutex
  PROVE  /\ Follow(m) \in [Nat -> Proc \cup {Nil}]
         /\ Follow(m)[0] = tail[m]
         /\ \A i \in Nat : Follow(m)[i + 1] =
              IF Follow(m)[i] = Nil THEN Nil ELSE wait_next[Follow(m)[i]]
<1> DEFINE S == Proc \cup {Nil}
           step == [x \in S |-> IF x = Nil THEN Nil ELSE wait_next[x]]
           F(g) == [i \in Nat |-> IF i = 0 THEN tail[m]
                                  ELSE IF g[i - 1] = Nil THEN Nil ELSE wait_next[g[i - 1]]]
           a == tail[m]
<1>1. a \in S /\ step \in [S -> S]
  BY DEF WaiterTypeOK, Mutex
<1>2. PICK g \in [Nat -> S] : g[0] = a /\ \A n \in Nat : g[n + 1] = step[g[n]]
  <2> HIDE DEF step, S, a
  <2> QED
    BY <1>1, IterationExists
<1>3. g = F(g)
  <2>1. \A i \in Nat : g[i] = F(g)[i]
    <3> SUFFICES ASSUME NEW i \in Nat
                 PROVE  g[i] = F(g)[i]
      OBVIOUS
    <3>1. CASE i = 0
      BY <1>2, <3>1
    <3>2. CASE i # 0
      <4>1. i - 1 \in Nat /\ i = (i - 1) + 1
        BY <3>2
      <4>2. g[i] = step[g[i - 1]] /\ g[i - 1] \in S
        BY <1>2, <4>1
      <4> QED
        BY <3>2, <4>2
    <3> QED
      BY <3>1, <3>2
  <2> QED
    BY <1>2, <2>1
<1>4. Follow(m) = F(Follow(m))
  <2>1. Follow(m) = CHOOSE f : f = F(f)
    BY DEF Follow
  <2> HIDE DEF F
  <2> QED
    BY <1>3, <2>1, Zenon
<1> DEFINE A == Follow(m)
<1> HIDE DEF A
<1>5. A = F(A)
  BY <1>4 DEF A
<1>6. A[0] = tail[m]
  BY <1>5
<1>7. \A i \in Nat : A[i + 1] = IF A[i] = Nil THEN Nil ELSE wait_next[A[i]]
  BY <1>5
<1>8. \A i \in Nat : A[i] \in S
  <2> DEFINE T == {i \in Nat : A[i] \in S}
  <2>1. 0 \in T
    BY <1>1, <1>6
  <2>2. \A i \in Nat : i \in T => i + 1 \in T
    BY <1>7 DEF WaiterTypeOK
  <2>3. \A i \in Nat : i \in T
    <3> HIDE DEF T
    <3> QED
      BY <2>1, <2>2, SetInduction
  <2> QED
    BY <2>3
<1>9. A \in [Nat -> S]
  <2>1. A = [i \in Nat |-> F(A)[i]]
    BY <1>5
  <2>2. A = [i \in Nat |-> A[i]]
    BY <1>5, <2>1
  <2> QED
    BY <1>8, <2>2
<1> QED
  BY <1>6, <1>7, <1>9 DEF A

(* A queue is what the walk finds: there is one list of each queue, and    *)
(* Queue computes it.  By induction along the list the walk meets its      *)
(* processes in order, and a list without repetition is no longer than     *)
(* the number of processes.                                                *)
LEMMA QueueLemma ==
  ASSUME WaiterTypeOK, NEW m \in Mutex, NEW s, IsQueue(m, s)
  PROVE  Queue(m) = s
<1> DEFINE A == Follow(m)
           n == Len(s)
           Ends(k) == A[k] = Nil /\ \A i \in 0..(k - 1) : A[i] # Nil
<1>1. /\ A \in [Nat -> Proc \cup {Nil}]
      /\ A[0] = tail[m]
      /\ \A i \in Nat : A[i + 1] = IF A[i] = Nil THEN Nil ELSE wait_next[A[i]]
  BY FollowLemma
<1> HIDE DEF A
<1>2. s \in Seq(Proc) /\ n \in Nat /\ s \in [1..n -> Proc]
  BY DEF IsQueue
<1>3. Nil \notin Proc
  BY WaiterAssumption
<1>4. tail[m] = IF n = 0 THEN Nil ELSE s[1]
  BY DEF IsQueue
<1>5. \A i \in 1..n : wait_next[s[i]] = IF i = n THEN Nil ELSE s[i + 1]
  BY DEF IsQueue
<1>6. \A i, j \in 1..n : s[i] = s[j] => i = j
  BY DEF IsQueue
<1> HIDE DEF n
<1>7. \A i \in Nat : i < n => A[i] = s[i + 1]
  <2> DEFINE T == {i \in Nat : i < n => A[i] = s[i + 1]}
  <2>1. 0 \in T
    BY <1>1, <1>4
  <2>2. ASSUME NEW i \in Nat, i \in T
        PROVE  i + 1 \in T
    <3> SUFFICES ASSUME i + 1 < n
                 PROVE  A[i + 1] = s[(i + 1) + 1]
      OBVIOUS
    <3>1. A[i] = s[i + 1] /\ s[i + 1] \in Proc
      BY <1>2, <2>2
    <3>2. i + 1 \in 1..n /\ i + 1 # n
      BY <1>2
    <3>3. wait_next[s[i + 1]] = s[(i + 1) + 1]
      BY <3>2, <1>5
    <3> QED
      BY <1>1, <1>3, <3>1, <3>3
  <2>3. \A i \in Nat : i \in T
    <3> HIDE DEF T
    <3> QED
      BY <2>1, <2>2, SetInduction
  <2> QED
    BY <2>3
<1>8. A[n] = Nil
  <2>1. CASE n = 0
    BY <1>1, <1>4, <2>1
  <2>2. CASE n # 0
    <3>1. n - 1 \in Nat /\ n - 1 < n /\ n \in 1..n
      BY <1>2, <2>2
    <3>2. A[n - 1] = s[n] /\ s[n] \in Proc
      BY <1>2, <1>7, <3>1
    <3>3. wait_next[s[n]] = Nil
      BY <3>1, <1>5
    <3>4. A[(n - 1) + 1] = Nil
      BY <1>1, <1>3, <3>1, <3>2, <3>3
    <3> QED
      BY <1>2, <3>4
  <2> QED
    BY <2>1, <2>2
<1>9. Ends(n)
  <2>1. ASSUME NEW i \in 0..(n - 1)
        PROVE  A[i] # Nil
    <3>1. i \in Nat /\ i < n /\ i + 1 \in 1..n
      BY <1>2
    <3> QED
      BY <1>2, <1>3, <1>7, <3>1
  <2> QED
    BY <1>8, <2>1
<1>10. \A k \in Nat : Ends(k) => k = n
  <2> SUFFICES ASSUME NEW k \in Nat, Ends(k)
               PROVE  k = n
    OBVIOUS
  <2>1. ~ (k < n)
    <3>1. k < n => k \in 0..(n - 1)
      BY <1>2
    <3> QED
      BY <1>9, <3>1
  <2>2. ~ (n < k)
    <3>1. n < k => n \in 0..(k - 1)
      BY <1>2
    <3> QED
      BY <1>8, <3>1
  <2> QED
    BY <1>2, <2>1, <2>2
<1>11. n \in 0..Cardinality(Proc)
  <2>1. IsFiniteSet(Proc) /\ Cardinality(Proc) \in Nat
    BY SchedulerAssumption, FS_CardinalityType
  <2>2. s \in Injection(1..n, Proc)
    BY <1>2, <1>6 DEF Injection, IsInjective
  <2>3. Cardinality(1..n) <= Cardinality(Proc)
    BY <2>1, <2>2, FS_Injection
  <2>4. Cardinality(1..n) = n
    <3>1. 1 \in Int /\ n \in Int
      BY <1>2
    <3>2. Cardinality(1..n) = IF 1 > n THEN 0 ELSE n - 1 + 1
      BY <3>1, FS_Interval
    <3> QED
      BY <1>2, <3>2
  <2> QED
    BY <1>2, <2>1, <2>3, <2>4
<1>12. QueueLen(m) = n
  <2>1. QueueLen(m) = CHOOSE k \in 0..Cardinality(Proc) : Ends(k)
    BY DEF QueueLen, A
  <2>2. \A k \in 0..Cardinality(Proc) : Ends(k) => k = n
    BY <1>10
  <2> HIDE DEF Ends
  <2> QED
    BY <1>9, <1>11, <2>1, <2>2
<1>13. Queue(m) = [i \in 1..n |-> A[i - 1]]
  BY <1>12 DEF Queue, A
<1>14. \A i \in 1..n : A[i - 1] = s[i]
  BY <1>2, <1>7
<1> QED
  BY <1>2, <1>13, <1>14

(* waiter_push of a process that waits nowhere appends it.                 *)
LEMMA PushLemma ==
  ASSUME WaiterTypeOK, NEW m \in Mutex, NEW p \in Proc, NEW s, IsQueue(m, s),
         waiting_on[p] = Nil, wait_next[p] = Nil, WaiterPush(m, p)
  PROVE  IsQueue(m, Append(s, p))'
<1> DEFINE n == Len(s)
           t == Append(s, p)
<1>1. s \in Seq(Proc) /\ n \in Nat /\ s \in [1..n -> Proc]
  BY DEF IsQueue
<1>2. /\ t \in Seq(Proc) /\ Len(t) = n + 1 /\ t[n + 1] = p
      /\ \A i \in 1..n : t[i] = s[i]
  BY <1>1, AppendProperties
<1>3. /\ tail[m] = IF n = 0 THEN Nil ELSE s[1]
      /\ head[m] = IF n = 0 THEN Nil ELSE s[n]
      /\ \A i \in 1..n : wait_next[s[i]] = IF i = n THEN Nil ELSE s[i + 1]
      /\ \A i, j \in 1..n : s[i] = s[j] => i = j
      /\ \A q \in Proc : waiting_on[q] = m <=> \E i \in 1..n : s[i] = q
  BY DEF IsQueue
<1>4. Nil \notin Proc /\ Nil # m
  BY WaiterAssumption DEF Mutex
<1>5. \A i \in 1..n : s[i] # p
  BY <1>1, <1>3, <1>4
<1> HIDE DEF n, t
<1>6. tail'[m] = t[1]
  <2>1. CASE n = 0
    BY <1>2, <1>3, <2>1 DEF WaiterPush, WaiterTypeOK, Mutex
  <2>2. CASE n # 0
    <3>1. head[m] # Nil /\ t[1] = s[1]
      BY <1>1, <1>2, <1>3, <1>4, <2>2
    <3> QED
      BY <1>3, <2>2, <3>1 DEF WaiterPush
  <2> QED
    BY <2>1, <2>2
<1>7. head'[m] = t[n + 1]
  BY <1>2 DEF WaiterPush, WaiterTypeOK, Mutex
<1>8. \A i \in 1..(n + 1) : wait_next'[t[i]] = IF i = n + 1 THEN Nil ELSE t[i + 1]
  <2>1. CASE n = 0
    <3>1. wait_next' = wait_next
      BY <1>3, <2>1 DEF WaiterPush
    <3> QED
      BY <1>2, <2>1, <3>1
  <2>2. CASE n # 0
    <3>1. n \in 1..n /\ head[m] = s[n] /\ head[m] \in Proc /\ head[m] # Nil
      BY <1>1, <1>3, <1>4, <2>2
    <3>2. wait_next' = [wait_next EXCEPT ![s[n]] = p]
      BY <3>1 DEF WaiterPush
    <3>3. \A q \in Proc : wait_next'[q] = IF q = s[n] THEN p ELSE wait_next[q]
      BY <3>2 DEF WaiterTypeOK
    <3>4. ASSUME NEW i \in 1..(n + 1)
          PROVE  wait_next'[t[i]] = IF i = n + 1 THEN Nil ELSE t[i + 1]
      <4>1. CASE i = n + 1
        BY <1>2, <1>5, <3>1, <3>3, <4>1
      <4>2. CASE i = n
        BY <1>1, <1>2, <3>1, <3>3, <4>2
      <4>3. CASE i \in 1..(n - 1)
        <5>1. i \in 1..n /\ i + 1 \in 1..n /\ i # n
          BY <1>1, <4>3
        <5>2. s[i] # s[n] /\ s[i] \in Proc
          BY <1>1, <1>3, <3>1, <5>1
        <5>3. wait_next'[s[i]] = s[i + 1]
          BY <1>3, <3>3, <5>1, <5>2
        <5> QED
          BY <1>1, <1>2, <5>1, <5>3, <4>3
      <4> QED
        BY <1>1, <4>1, <4>2, <4>3
    <3> QED
      BY <3>4
  <2> QED
    BY <2>1, <2>2
<1>9. \A i, j \in 1..(n + 1) : t[i] = t[j] => i = j
  BY <1>1, <1>2, <1>3, <1>5
<1>10. \A q \in Proc : waiting_on'[q] = m <=> \E i \in 1..(n + 1) : t[i] = q
  <2>1. \A q \in Proc : waiting_on'[q] = IF q = p THEN m ELSE waiting_on[q]
    BY DEF WaiterPush, WaiterTypeOK
  <2> QED
    BY <1>1, <1>2, <1>3, <2>1
<1>11. n + 1 # 0
  BY <1>1
<1> QED
  BY <1>2, <1>6, <1>7, <1>8, <1>9, <1>10, <1>11 DEF IsQueue, t

(* waiter_push leaves the other queues alone: the link it writes is that of*)
(* the last process of its own queue.                                      *)
LEMMA PushOtherLemma ==
  ASSUME WaiterTypeOK, NEW m \in Mutex, NEW p \in Proc, NEW s, IsQueue(m, s),
         NEW w \in Mutex, w # m, NEW r, IsQueue(w, r), waiting_on[p] = Nil, WaiterPush(w, p)
  PROVE  IsQueue(m, s)'
<1> DEFINE n == Len(s)
<1>1. s \in Seq(Proc) /\ n \in Nat /\ s \in [1..n -> Proc]
  BY DEF IsQueue
<1>2. tail'[m] = tail[m] /\ head'[m] = head[m]
  BY DEF WaiterPush, WaiterTypeOK, Mutex
<1>3. \A q \in Proc : waiting_on'[q] = IF q = p THEN w ELSE waiting_on[q]
  BY DEF WaiterPush, WaiterTypeOK
<1>4. Nil \notin Proc /\ Nil # m
  BY WaiterAssumption DEF Mutex
<1>5. \A i \in 1..n : waiting_on[s[i]] = m
  BY <1>1 DEF IsQueue
<1>6. head[w] # Nil => head[w] \in Proc /\ waiting_on[head[w]] = w
  <2> DEFINE k == Len(r)
  <2>1. r \in Seq(Proc) /\ k \in Nat /\ r \in [1..k -> Proc]
    BY DEF IsQueue
  <2>2. head[w] = IF k = 0 THEN Nil ELSE r[k]
    BY DEF IsQueue
  <2>3. \A q \in Proc : waiting_on[q] = w <=> \E i \in 1..k : r[i] = q
    BY DEF IsQueue
  <2> HIDE DEF k
  <2>4. k # 0 => k \in 1..k
    BY <2>1
  <2> QED
    BY <2>1, <2>2, <2>3, <2>4
<1>7. \A q \in Proc : waiting_on[q] = m => wait_next'[q] = wait_next[q]
  BY <1>6 DEF WaiterPush, WaiterTypeOK
<1>8. \A i \in 1..n : wait_next'[s[i]] = wait_next[s[i]]
  BY <1>1, <1>5, <1>7
<1>9. \A q \in Proc : waiting_on'[q] = m <=> waiting_on[q] = m
  BY <1>3, <1>4
<1> QED
  BY <1>2, <1>8, <1>9 DEF IsQueue

(* waiter_pop of a queue that is not empty takes its first process.        *)
LEMMA PopLemma ==
  ASSUME WaiterTypeOK, NEW m \in Mutex, NEW s, IsQueue(m, s), tail[m] # Nil, WaiterPop(m)
  PROVE  IsQueue(m, Tail(s))' /\ tail[m] = Head(s) /\ s # <<>>
<1> DEFINE n == Len(s)
           t == Tail(s)
<1>1. s \in Seq(Proc) /\ n \in Nat /\ s \in [1..n -> Proc]
  BY DEF IsQueue
<1>2. /\ tail[m] = IF n = 0 THEN Nil ELSE s[1]
      /\ head[m] = IF n = 0 THEN Nil ELSE s[n]
      /\ \A i \in 1..n : wait_next[s[i]] = IF i = n THEN Nil ELSE s[i + 1]
      /\ \A i, j \in 1..n : s[i] = s[j] => i = j
      /\ \A q \in Proc : waiting_on[q] = m <=> \E i \in 1..n : s[i] = q
  BY DEF IsQueue
<1>3. n > 0 /\ n - 1 \in Nat /\ s # <<>> /\ tail[m] = s[1] /\ Head(s) = s[1] /\ 1 \in 1..n
  <2>1. n # 0 /\ tail[m] = s[1]
    <3> HIDE DEF n
    <3> QED
      BY <1>2
  <2> QED
    BY <1>1, <2>1
<1>4. t \in Seq(Proc) /\ Len(t) = n - 1 /\ \A i \in 1..(n - 1) : t[i] = s[i + 1]
  BY <1>1, <1>3
<1>5. Nil \notin Proc /\ Nil # m
  BY WaiterAssumption DEF Mutex
<1> DEFINE p == s[1]
<1>6. p \in Proc /\ p = tail[m]
  BY <1>1, <1>3
<1>7. wait_next[p] = IF n = 1 THEN Nil ELSE s[2]
  <2> HIDE DEF n
  <2>1. wait_next[p] = IF 1 = n THEN Nil ELSE s[1 + 1]
    BY <1>2, <1>3
  <2> QED
    BY <2>1
<1>8. /\ \A q \in Proc : wait_next'[q] = IF q = p THEN Nil ELSE wait_next[q]
      /\ \A q \in Proc : waiting_on'[q] = IF q = p THEN Nil ELSE waiting_on[q]
      /\ tail'[m] = wait_next[p]
      /\ head'[m] = IF wait_next[p] = Nil THEN Nil ELSE head[m]
  BY <1>6 DEF WaiterPop, WaiterTypeOK, Mutex
<1> HIDE DEF n, t, p
<1>9. \A i \in 2..n : s[i] \in Proc /\ s[i] # p
  BY <1>1, <1>2, <1>3 DEF p
<1>10. tail'[m] = IF n - 1 = 0 THEN Nil ELSE t[1]
  BY <1>1, <1>3, <1>4, <1>7, <1>8
<1>11. head'[m] = IF n - 1 = 0 THEN Nil ELSE t[n - 1]
  <2>1. CASE n = 1
    BY <1>7, <1>8, <2>1
  <2>2. CASE n # 1
    <3>1. n \in 2..n /\ 2 \in 2..n /\ n - 1 \in 1..(n - 1)
      BY <1>1, <1>3, <2>2
    <3>2. wait_next[p] # Nil /\ head[m] = s[n]
      BY <1>2, <1>3, <1>5, <1>7, <1>9, <2>2, <3>1
    <3>3. t[n - 1] = s[n]
      BY <1>1, <1>4, <3>1
    <3> QED
      BY <1>1, <1>8, <3>2, <3>3, <2>2
  <2> QED
    BY <2>1, <2>2
<1>12. \A i \in 1..(n - 1) : wait_next'[t[i]] = IF i = n - 1 THEN Nil ELSE t[i + 1]
  <2> SUFFICES ASSUME NEW i \in 1..(n - 1)
               PROVE  wait_next'[t[i]] = IF i = n - 1 THEN Nil ELSE t[i + 1]
    OBVIOUS
  <2>1. t[i] = s[i + 1] /\ i + 1 \in 2..n /\ i + 1 \in 1..n
    BY <1>1, <1>4
  <2>2. wait_next'[t[i]] = IF i + 1 = n THEN Nil ELSE s[(i + 1) + 1]
    BY <1>2, <1>8, <1>9, <2>1
  <2>3. i + 1 # n => i + 1 \in 1..(n - 1)
    BY <1>1
  <2>4. i + 1 # n => t[i + 1] = s[(i + 1) + 1]
    BY <1>4, <2>3
  <2> QED
    BY <1>1, <2>2, <2>4
<1>13. \A i, j \in 1..(n - 1) : t[i] = t[j] => i = j
  BY <1>1, <1>2, <1>4
<1>14. \A q \in Proc : waiting_on'[q] = m <=> \E i \in 1..(n - 1) : t[i] = q
  <2> SUFFICES ASSUME NEW q \in Proc
               PROVE  waiting_on'[q] = m <=> \E i \in 1..(n - 1) : t[i] = q
    OBVIOUS
  <2>1. ASSUME waiting_on'[q] = m
        PROVE  \E i \in 1..(n - 1) : t[i] = q
    <3>1. q # p /\ waiting_on[q] = m
      BY <1>5, <1>8, <2>1
    <3>2. PICK i \in 1..n : s[i] = q
      BY <1>2, <3>1
    <3>3. i # 1
      BY <3>1, <3>2 DEF p
    <3>4. i - 1 \in 1..(n - 1) /\ t[i - 1] = s[(i - 1) + 1]
      BY <1>1, <1>4, <3>3
    <3> QED
      BY <3>2, <3>4
  <2>2. ASSUME NEW i \in 1..(n - 1), t[i] = q
        PROVE  waiting_on'[q] = m
    <3>1. i + 1 \in 2..n /\ i + 1 \in 1..n /\ s[i + 1] = q
      BY <1>1, <1>4, <2>2
    <3> QED
      BY <1>2, <1>8, <1>9, <3>1
  <2> QED
    BY <2>1, <2>2
<1> QED
  <2>1. t \in Seq(Proc) /\ Len(t) = n - 1
    BY <1>4
  <2>2. IsQueue(m, t)'
    BY <2>1, <1>10, <1>11, <1>12, <1>13, <1>14 DEF IsQueue
  <2> QED
    BY <1>3, <2>2 DEF t

(* waiter_pop leaves the other queues alone.                               *)
LEMMA PopOtherLemma ==
  ASSUME WaiterTypeOK, NEW m \in Mutex, NEW s, IsQueue(m, s),
         NEW w \in Mutex, w # m, tail[w] \in Proc, waiting_on[tail[w]] = w, WaiterPop(w)
  PROVE  IsQueue(m, s)'
<1> DEFINE n == Len(s)
<1>1. s \in Seq(Proc) /\ n \in Nat /\ s \in [1..n -> Proc]
  BY DEF IsQueue
<1>2. tail'[m] = tail[m] /\ head'[m] = head[m]
  BY DEF WaiterPop, WaiterTypeOK, Mutex
<1>3. \A q \in Proc : waiting_on'[q] = IF q = tail[w] THEN Nil ELSE waiting_on[q]
  BY DEF WaiterPop, WaiterTypeOK
<1>4. Nil # m
  BY WaiterAssumption DEF Mutex
<1>5. \A i \in 1..n : waiting_on[s[i]] = m
  BY <1>1 DEF IsQueue
<1>6. \A q \in Proc : waiting_on[q] = m => wait_next'[q] = wait_next[q]
  BY DEF WaiterPop, WaiterTypeOK
<1>7. \A i \in 1..n : wait_next'[s[i]] = wait_next[s[i]]
  BY <1>1, <1>5, <1>6
<1>8. \A q \in Proc : waiting_on'[q] = m <=> waiting_on[q] = m
  BY <1>3, <1>4
<1> QED
  BY <1>2, <1>7, <1>8 DEF IsQueue

-----------------------------------------------------------------------------
(* Every wait queue is a list.                                             *)
QueueInv == \A m \in Mutex : \E s : IsQueue(m, s)

(* A process on a wait queue waits for a mutex that is taken, and not by   *)
(* itself.                                                                 *)
WaitersNotOwner ==
  \A p \in Proc : waiting_on[p] # Nil =>
    lock[waiting_on[p]] = 1 /\ owner[waiting_on[p]] # p

(* The invariant behind the next theorems: LockInv says of the lists only  *)
(* what can be said link by link, QueueInv what they are as a whole.       *)
ListInv == LockInv /\ QueueInv /\ WaitersNotOwner

(* A step that leaves the pointers alone keeps the lists.                  *)
LEMMA QuietQueueLemma ==
  ASSUME QueueInv, UNCHANGED waiterVars
  PROVE  QueueInv'
<1> SUFFICES ASSUME NEW m \in Mutex
             PROVE  \E s : IsQueue(m, s)'
  BY DEF QueueInv
<1>1. PICK s : IsQueue(m, s)
  BY DEF QueueInv
<1>2. IsQueue(m, s)'
  BY <1>1 DEF IsQueue, waiterVars
<1> QED
  BY <1>2

(* A queue without tail is empty, and nobody waits on it.                  *)
LEMMA EmptyQueueLemma ==
  ASSUME QueueInv, NEW m \in Mutex, tail[m] = Nil
  PROVE  IsQueue(m, <<>>) /\ \A p \in Proc : waiting_on[p] # m
<1>1. PICK s : IsQueue(m, s)
  BY DEF QueueInv
<1>2. s \in Seq(Proc)
  BY <1>1 DEF IsQueue
<1>3. Len(s) = 0
  <2> SUFFICES ASSUME Len(s) # 0
               PROVE  FALSE
    OBVIOUS
  <2>1. tail[m] = s[1]
    BY <1>1 DEF IsQueue
  <2>2. s[1] \in Proc
    BY <1>2
  <2> QED
    BY <2>1, <2>2, WaiterAssumption
<1>4. s = <<>>
  BY <1>2, <1>3
<1> QED
  BY <1>1, <1>3, <1>4 DEF IsQueue

(* mutex_lock of a taken mutex appends the caller to one queue.            *)
LEMMA LockWaitQueue ==
  ASSUME ListInv, NEW p \in Proc, NEW m \in Mutex, LockWait(p, m)
  PROVE  /\ QueueInv' /\ WaitersNotOwner'
         /\ \A s : IsQueue(m, s) => IsQueue(m, Append(s, p))'
         /\ \A w \in Mutex \ {m} : \A s : IsQueue(w, s) => IsQueue(w, s)'
<1>1. WaiterTypeOK /\ waiting_on[p] = Nil /\ wait_next[p] = Nil /\ WaiterPush(m, p)
  BY DEF ListInv, LockInv, TypeOK, LockWait, CallLock, WaiterInv, Waits, ListLinks,
       WaiterTypeOK
<1>2. \A s : IsQueue(m, s) => IsQueue(m, Append(s, p))'
  BY <1>1, PushLemma
<1>3. PICK r : IsQueue(m, r)
  BY DEF ListInv, QueueInv
<1>4. \A w \in Mutex \ {m} : \A s : IsQueue(w, s) => IsQueue(w, s)'
  BY <1>1, <1>3, PushOtherLemma
<1>5. QueueInv'
  <2> SUFFICES ASSUME NEW w \in Mutex
               PROVE  \E s : IsQueue(w, s)'
    BY DEF QueueInv
  <2>1. PICK s : IsQueue(w, s)
    BY DEF ListInv, QueueInv
  <2>2. IsQueue(w, s)' \/ IsQueue(w, Append(s, p))'
    BY <1>2, <1>4, <2>1
  <2> QED
    BY <2>2
<1>6. WaitersNotOwner'
  BY <1>1 DEF ListInv, WaitersNotOwner, LockWait, WaiterPush, WaiterTypeOK
<1> QED
  BY <1>2, <1>4, <1>5, <1>6

(* mutex_unlock with a waiter takes the first process off one queue.       *)
LEMMA UnlockHandOffQueue ==
  ASSUME ListInv, NEW p \in Proc, NEW m \in Mutex, UnlockHandOff(p, m)
  PROVE  /\ QueueInv' /\ WaitersNotOwner'
         /\ \A s : IsQueue(m, s) => /\ IsQueue(m, Tail(s))'
                                    /\ tail[m] = Head(s) /\ s # <<>>
         /\ \A w \in Mutex \ {m} : \A s : IsQueue(w, s) => IsQueue(w, s)'
<1>1. /\ WaiterTypeOK /\ tail[m] \in Proc /\ tail[m] # Nil /\ waiting_on[tail[m]] = m
      /\ WaiterPop(m)
  BY DEF ListInv, LockInv, TypeOK, UnlockHandOff, ListEnds, WaiterTypeOK, Mutex
<1>2. \A s : IsQueue(m, s) => /\ IsQueue(m, Tail(s))'
                              /\ tail[m] = Head(s) /\ s # <<>>
  BY <1>1, PopLemma
<1>3. \A w \in Mutex \ {m} : \A s : IsQueue(w, s) => IsQueue(w, s)'
  BY <1>1, PopOtherLemma
<1>4. QueueInv'
  <2> SUFFICES ASSUME NEW w \in Mutex
               PROVE  \E s : IsQueue(w, s)'
    BY DEF QueueInv
  <2>1. PICK s : IsQueue(w, s)
    BY DEF ListInv, QueueInv
  <2>2. IsQueue(w, s)' \/ IsQueue(w, Tail(s))'
    BY <1>2, <1>3, <2>1
  <2> QED
    BY <2>2
<1>5. WaitersNotOwner'
  <2>1. \A q \in Proc : waiting_on'[q] = IF q = tail[m] THEN Nil ELSE waiting_on[q]
    BY <1>1 DEF WaiterPop, WaiterTypeOK
  <2>2. \A w \in Mutex : owner'[w] = IF w = m THEN tail[m] ELSE owner[w]
    BY DEF UnlockHandOff, ListInv, LockInv, TypeOK, MutexTypeOK
  <2>3. \A q \in Proc : waiting_on[q] \in Mutex \cup {Nil}
    BY <1>1 DEF WaiterTypeOK, Mutex
  <2> QED
    BY <2>1, <2>2, <2>3 DEF ListInv, WaitersNotOwner, UnlockHandOff
<1> QED
  BY <1>2, <1>3, <1>4, <1>5

(* A step that changes neither lists nor owners keeps WaitersNotOwner.     *)
LEMMA QuietOwnerLemma ==
  ASSUME WaitersNotOwner, UNCHANGED <<waiterVars, lock, owner>>
  PROVE  WaitersNotOwner'
BY DEF WaitersNotOwner, waiterVars

(* Every step of the specification keeps the lists.                        *)
LEMMA ListNextLemma == ListInv /\ [Next]_vars => ListInv'
<1> SUFFICES ASSUME ListInv, [Next]_vars
             PROVE  QueueInv' /\ WaitersNotOwner'
  BY NextLemma DEF ListInv
<1> USE DEF ListInv
<1>1. CASE UNCHANGED <<waiterVars, lock, owner>>
  BY <1>1, QuietQueueLemma, QuietOwnerLemma
<1>2. ASSUME NEW p \in Proc, NEW m \in Mutex, LockClaim(p, m)
      PROVE  QueueInv' /\ WaitersNotOwner'
  <2>1. QueueInv'
    BY <1>2, QuietQueueLemma DEF LockClaim
  <2>2. \A q \in Proc : waiting_on[q] # m
    BY <1>2, WaiterAssumption DEF LockClaim, WaitersNotOwner, Mutex
  <2>3. WaitersNotOwner'
    BY <1>2, <2>2 DEF LockClaim, WaitersNotOwner, waiterVars, LockInv, TypeOK, MutexTypeOK
  <2> QED
    BY <2>1, <2>3
<1>3. ASSUME NEW p \in Proc, NEW m \in Mutex, UnlockRelease(p, m)
      PROVE  QueueInv' /\ WaitersNotOwner'
  <2>1. QueueInv'
    BY <1>3, QuietQueueLemma DEF UnlockRelease
  <2>2. \A q \in Proc : waiting_on[q] # m
    BY <1>3, EmptyQueueLemma DEF UnlockRelease
  <2>3. WaitersNotOwner'
    BY <1>3, <2>2 DEF UnlockRelease, WaitersNotOwner, waiterVars, LockInv, TypeOK, MutexTypeOK
  <2> QED
    BY <2>1, <2>3
<1>4. CASE \E p \in Proc, m \in Mutex : Take(p, m) \/ Leave(p, m)
  <2>1. PICK p \in Proc, m \in Mutex : Take(p, m) \/ Leave(p, m)
    BY <1>4
  <2>2. CASE LockStopped(p, m) \/ LockNested(p, m) \/ UnlockStopped(p, m) \/ UnlockNested(p, m)
    BY <1>1, <2>2 DEF LockStopped, LockNested, UnlockStopped, UnlockNested
  <2> QED
    BY <1>2, <1>3, <2>1, <2>2, UnlockHandOffQueue DEF Take, Leave
<1>5. CASE \E p \in Proc \ {Idle}, m \in Mutex : LockWait(p, m)
  BY <1>5, LockWaitQueue
<1>6. CASE \E p \in Proc : LockBlock(p) \/ LockReturn(p) \/ UnlockWake(p)
  BY <1>1, <1>6 DEF LockBlock, LockReturn, UnlockWake
<1>7. CASE \E p, q \in Proc : StartProcess(p, q)
  BY <1>1, <1>7 DEF StartProcess
<1>8. CASE StartScheduling \/ Tick \/ UNCHANGED vars
  BY <1>1, <1>8 DEF StartScheduling, Tick, vars, mutexVars
<1> QED
  BY <1>4, <1>5, <1>6, <1>7, <1>8 DEF Next

(* The kernel boots with empty lists.                                      *)
LEMMA ListInitLemma == Init => ListInv
<1> SUFFICES ASSUME Init
             PROVE  QueueInv /\ WaitersNotOwner
  BY InitLemma DEF ListInv
<1>1. \A m \in Mutex : IsQueue(m, <<>>)
  BY WaiterAssumption DEF Init, WaiterInit, IsQueue, Mutex
<1>2. WaitersNotOwner
  BY DEF Init, WaiterInit, WaitersNotOwner
<1> QED
  BY <1>1, <1>2 DEF QueueInv

(* ListInv holds in every reachable state: whatever preempts whom, the     *)
(* pointers of lock.c and waiter.c form one list for each queue.           *)
THEOREM ListInvariant == Spec => []ListInv
<1> QED
  BY ListInitLemma, ListNextLemma, PTL DEF Spec

(* Queue is the list of each queue, and the only one.                      *)
LEMMA QueueIsList ==
  ASSUME ListInv
  PROVE  \A m \in Mutex : IsQueue(m, Queue(m)) /\ \A s : IsQueue(m, s) => Queue(m) = s
<1> SUFFICES ASSUME NEW m \in Mutex
             PROVE  IsQueue(m, Queue(m)) /\ \A s : IsQueue(m, s) => Queue(m) = s
  OBVIOUS
<1>1. \A s : IsQueue(m, s) => Queue(m) = s
  BY QueueLemma DEF ListInv, LockInv, TypeOK
<1>2. PICK s : IsQueue(m, s)
  BY DEF ListInv, QueueInv
<1> QED
  BY <1>1, <1>2

(* The wait queue of a mutex holds exactly the processes that are between  *)
(* the push and the hand-off in mutex_lock of that mutex: nobody who waits *)
(* is dropped from the list, and nobody else is linked into it.            *)
THEOREM QueueHolds == Spec => []QueueHoldsWaiters
<1>1. ListInv => QueueHoldsWaiters
  <2> SUFFICES ASSUME ListInv, NEW m \in Mutex
               PROVE  {Queue(m)[i] : i \in DOMAIN Queue(m)} =
                        {p \in Proc : pc[p] \in {"block", "asleep"} /\ wants[p] = m /\ ~Granted(p)}
    BY DEF QueueHoldsWaiters
  <2> DEFINE s == Queue(m)
             n == Len(s)
  <2>1. /\ s \in Seq(Proc) /\ n \in Nat /\ DOMAIN s = 1..n /\ \A i \in 1..n : s[i] \in Proc
        /\ \A p \in Proc : waiting_on[p] = m <=> \E i \in 1..n : s[i] = p
    BY QueueIsList DEF IsQueue
  <2>2. \A p \in Proc : waiting_on[p] = m <=> Waits(p) /\ wants[p] = m /\ ~Granted(p)
    BY WaiterAssumption DEF ListInv, LockInv, WaiterInv, WaitersNotOwner, Granted, Mutex
  <2> HIDE DEF s, n
  <2>3. {s[i] : i \in DOMAIN s} = {p \in Proc : waiting_on[p] = m}
    BY <2>1
  <2>4. {s[i] : i \in DOMAIN s} =
          {p \in Proc : pc[p] \in {"block", "asleep"} /\ wants[p] = m /\ ~Granted(p)}
    BY <2>2, <2>3 DEF Waits
  <2> QED
    BY <2>4 DEF s
<1> QED
  BY <1>1, ListInvariant, PTL

-----------------------------------------------------------------------------
(* The variables of the abstract lock: who holds a mutex,                  *)
FifoHolder == [m \in Mutex |-> IF lock[m] = 1 THEN owner[m] ELSE Nil]
(* how often it was taken,                                                 *)
FifoLevel == [m \in Mutex |-> IF lock[m] = 1 THEN count[m] ELSE 0]
(* and who waits for it, in order.                                         *)
FifoQueue == [m \in Mutex |-> Queue(m)]

(* QueueIsList as a state formula, to speak about the next state.          *)
QueuesListed ==
  \A m \in Mutex : IsQueue(m, Queue(m)) /\ \A s : IsQueue(m, s) => Queue(m) = s

(* The lists are computed in every state of the invariant.                 *)
LEMMA QueuesListedLemma == ListInv => QueuesListed
BY QueueIsList DEF QueuesListed

(* They are computed in the next state too.                                *)
LEMMA QueueIsListStep ==
  ASSUME ListInv, [Next]_vars
  PROVE  QueuesListed'
<1>1. ListInv'
  BY ListNextLemma
<1> QED
  BY <1>1, QueuesListedLemma, PTL

(* A queue depends on the pointers alone.                                  *)
LEMMA QueueSame ==
  ASSUME NEW m \in Mutex, UNCHANGED waiterVars
  PROVE  Queue(m)' = Queue(m)
BY DEF Queue, QueueLen, Follow, waiterVars

(* A step that changes no pointer, owner or count is invisible to the      *)
(* abstract lock.                                                          *)
LEMMA FifoStutter ==
  ASSUME UNCHANGED <<waiterVars, lock, owner, count>>
  PROVE  UNCHANGED Fifo!vars
<1>1. FifoQueue' = FifoQueue
  <2>1. \A m \in Mutex : Queue(m)' = Queue(m)
    BY QueueSame
  <2> QED
    BY <2>1 DEF FifoQueue
<1>2. FifoHolder' = FifoHolder /\ FifoLevel' = FifoLevel
  BY DEF FifoHolder, FifoLevel
<1> QED
  BY <1>1, <1>2 DEF Fifo!vars, FifoHolder, FifoLevel, FifoQueue

(* All locks are free and nobody waits.                                    *)
LEMMA FifoInit == ListInv /\ Init => Fifo!Init
<1> SUFFICES ASSUME ListInv, Init
             PROVE  Fifo!Init
  OBVIOUS
<1>1. \A m \in Mutex : IsQueue(m, <<>>)
  BY WaiterAssumption DEF Init, WaiterInit, IsQueue, Mutex
<1>2. \A m \in Mutex : Queue(m) = <<>>
  BY <1>1, QueueIsList
<1>3. \A m \in Mutex : lock[m] = 0
  BY DEF Init, MutexInit
<1>4. FifoHolder = [m \in Mutex |-> Nil] /\ FifoLevel = [m \in Mutex |-> 0] /\ FifoQueue = [m \in Mutex |-> <<>>]
  BY <1>2, <1>3 DEF FifoHolder, FifoLevel, FifoQueue
<1> QED
  BY <1>4 DEF Fifo!Init, FifoHolder, FifoLevel, FifoQueue

(* mutex_lock of a free mutex: nobody can be waiting, so the caller passes *)
(* nobody by.                                                              *)
LEMMA FifoClaim ==
  ASSUME ListInv, NEW p \in Proc, NEW m \in Mutex, LockClaim(p, m)
  PROVE  Fifo!Acquire(p, m)
<1>1. Queue(m) = <<>>
  <2>1. \A q \in Proc : waiting_on[q] # m
    BY WaiterAssumption DEF LockClaim, ListInv, WaitersNotOwner, Mutex
  <2>2. IsQueue(m, Queue(m))
    BY QueueIsList
  <2>3. Queue(m) \in Seq(Proc)
    BY <2>2 DEF IsQueue
  <2>4. \A i \in 1..Len(Queue(m)) : FALSE
    BY <2>1, <2>2, <2>3 DEF IsQueue
  <2> QED
    BY <2>3, <2>4
<1>2. FifoQueue' = FifoQueue
  <2>1. \A w \in Mutex : Queue(w)' = Queue(w)
    BY QueueSame DEF LockClaim
  <2> QED
    BY <2>1 DEF FifoQueue
<1>3. FifoHolder[m] = Nil /\ FifoQueue[m] = <<>>
  BY <1>1 DEF LockClaim, FifoHolder, FifoQueue
<1>4. /\ \A w \in Mutex : lock'[w] = IF w = m THEN 1 ELSE lock[w]
      /\ \A w \in Mutex : owner'[w] = IF w = m THEN p ELSE owner[w]
      /\ \A w \in Mutex : count'[w] = IF w = m THEN 1 ELSE count[w]
  BY DEF LockClaim, ListInv, LockInv, TypeOK, MutexTypeOK
<1>5. FifoHolder' = [FifoHolder EXCEPT ![m] = p]
  BY <1>4 DEF FifoHolder
<1>6. FifoLevel' = [FifoLevel EXCEPT ![m] = 1]
  BY <1>4 DEF FifoLevel
<1> QED
  BY <1>2, <1>3, <1>5, <1>6 DEF Fifo!Acquire, FifoHolder, FifoLevel, FifoQueue

(* mutex_lock by the owner.  The seven bits of count do not overflow.      *)
LEMMA FifoReenter ==
  ASSUME ListInv, NEW p \in Proc, NEW m \in Mutex, LockNested(p, m)
  PROVE  Fifo!Reenter(m)
<1>1. count[m] = depth[p][m] /\ depth[p][m] \in 0..MaxDepth /\ depth[p][m] < MaxDepth
  BY MutexAssumption DEF LockNested, CallLock, ListInv, LockInv, OwnerHolds, HolderOwns,
       Waits, TypeOK, MutexTypeOK
<1>2. (count[m] + 1) % CountMod = count[m] + 1
  BY <1>1, MutexAssumption DEF CountMod
<1>3. \A w \in Mutex : count'[w] = IF w = m THEN count[w] + 1 ELSE count[w]
  BY <1>2 DEF LockNested, ListInv, LockInv, TypeOK, MutexTypeOK
<1>4. FifoLevel' = [FifoLevel EXCEPT ![m] = @ + 1]
  BY <1>3 DEF FifoLevel, LockNested
<1>5. FifoHolder' = FifoHolder /\ FifoHolder[m] # Nil
  BY WaiterAssumption DEF FifoHolder, LockNested
<1>6. FifoQueue' = FifoQueue
  <2>1. \A w \in Mutex : Queue(w)' = Queue(w)
    BY QueueSame DEF LockNested
  <2> QED
    BY <2>1 DEF FifoQueue
<1> QED
  BY <1>4, <1>5, <1>6 DEF Fifo!Reenter, FifoHolder, FifoLevel, FifoQueue

(* mutex_lock of a taken mutex: the caller becomes the last in the queue,  *)
(* and is not in it already.                                               *)
LEMMA FifoJoin ==
  ASSUME ListInv, [Next]_vars, NEW p \in Proc, NEW m \in Mutex, LockWait(p, m)
  PROVE  Fifo!Join(p, m)
<1>1. \A w \in Mutex : Queue(w)' = IF w = m THEN Append(Queue(w), p) ELSE Queue(w)
  BY QueueIsList, QueueIsListStep, LockWaitQueue DEF QueuesListed
<1>2. FifoQueue' = [FifoQueue EXCEPT ![m] = Append(@, p)]
  BY <1>1 DEF FifoQueue
<1>3. FifoHolder' = FifoHolder /\ FifoLevel' = FifoLevel /\ FifoHolder[m] \notin {p, Nil}
  BY WaiterAssumption DEF FifoHolder, FifoLevel, LockWait, ListInv, LockInv, OwnerHolds
<1>4. \A i \in DOMAIN FifoQueue[m] : FifoQueue[m][i] # p
  <2>1. IsQueue(m, Queue(m))
    BY QueueIsList
  <2>2. waiting_on[p] = Nil /\ Nil # m
    BY WaiterAssumption DEF LockWait, CallLock, ListInv, LockInv, WaiterInv, Waits, Mutex
  <2>3. \A i \in DOMAIN Queue(m) : Queue(m)[i] # p
    BY <2>1, <2>2 DEF IsQueue
  <2> QED
    BY <2>3 DEF FifoQueue
<1> QED
  BY <1>2, <1>3, <1>4 DEF Fifo!Join, FifoHolder, FifoLevel, FifoQueue

(* mutex_unlock of a mutex that was taken more than once.                  *)
LEMMA FifoLeaveOnce ==
  ASSUME ListInv, NEW p \in Proc, NEW m \in Mutex, UnlockNested(p, m)
  PROVE  Fifo!LeaveOnce(m)
<1>1. lock[m] = 1
  BY DEF UnlockNested, CallUnlock, ListInv, LockInv, HolderOwns
<1>2. \A w \in Mutex : count'[w] = IF w = m THEN count[w] - 1 ELSE count[w]
  BY DEF UnlockNested, ListInv, LockInv, TypeOK, MutexTypeOK
<1>3. FifoLevel' = [FifoLevel EXCEPT ![m] = @ - 1] /\ FifoLevel[m] > 1
  BY <1>1, <1>2 DEF FifoLevel, UnlockNested
<1>4. FifoHolder' = FifoHolder
  BY DEF FifoHolder, UnlockNested
<1>5. FifoQueue' = FifoQueue
  <2>1. \A w \in Mutex : Queue(w)' = Queue(w)
    BY QueueSame DEF UnlockNested
  <2> QED
    BY <2>1 DEF FifoQueue
<1> QED
  BY <1>3, <1>4, <1>5 DEF Fifo!LeaveOnce, FifoHolder, FifoLevel, FifoQueue

(* mutex_unlock with waiters: the new owner is the first of the queue.     *)
LEMMA FifoHandOver ==
  ASSUME ListInv, [Next]_vars, NEW p \in Proc, NEW m \in Mutex, UnlockHandOff(p, m)
  PROVE  Fifo!HandOver(m)
<1>1. lock[m] = 1 /\ count[m] = 1
  BY DEF UnlockHandOff, CallUnlock, ListInv, LockInv, HolderOwns, TypeOK, MutexTypeOK
<1>2. \A w \in Mutex : Queue(w)' = IF w = m THEN Tail(Queue(w)) ELSE Queue(w)
  BY QueueIsList, QueueIsListStep, UnlockHandOffQueue DEF QueuesListed
<1>3. tail[m] = Head(Queue(m)) /\ Queue(m) # <<>>
  BY QueueIsList, UnlockHandOffQueue
<1>4. FifoQueue' = [FifoQueue EXCEPT ![m] = Tail(@)] /\ FifoQueue[m] # <<>>
  BY <1>2, <1>3 DEF FifoQueue
<1>5. FifoLevel' = FifoLevel /\ FifoLevel[m] = 1
  BY <1>1 DEF FifoLevel, UnlockHandOff
<1>6. \A w \in Mutex : owner'[w] = IF w = m THEN Head(FifoQueue[m]) ELSE owner[w]
  BY <1>3 DEF UnlockHandOff, ListInv, LockInv, TypeOK, MutexTypeOK, FifoQueue
<1>7. FifoHolder' = [FifoHolder EXCEPT ![m] = Head(FifoQueue[m])]
  BY <1>1, <1>6 DEF FifoHolder, UnlockHandOff
<1> QED
  BY <1>4, <1>5, <1>7 DEF Fifo!HandOver, FifoHolder, FifoLevel, FifoQueue

(* mutex_unlock without waiters.                                           *)
LEMMA FifoFree ==
  ASSUME ListInv, NEW p \in Proc, NEW m \in Mutex, UnlockRelease(p, m)
  PROVE  Fifo!Free(m)
<1>1. lock[m] = 1 /\ count[m] = 1
  BY DEF UnlockRelease, CallUnlock, ListInv, LockInv, HolderOwns, TypeOK, MutexTypeOK
<1>2. Queue(m) = <<>>
  <2>1. IsQueue(m, <<>>)
    BY EmptyQueueLemma DEF UnlockRelease, ListInv
  <2> QED
    BY <2>1, QueueIsList
<1>3. FifoQueue' = FifoQueue /\ FifoQueue[m] = <<>>
  <2>1. \A w \in Mutex : Queue(w)' = Queue(w)
    BY QueueSame DEF UnlockRelease
  <2> QED
    BY <1>2, <2>1 DEF FifoQueue
<1>4. \A w \in Mutex : lock'[w] = IF w = m THEN 0 ELSE lock[w]
  BY DEF UnlockRelease, ListInv, LockInv, TypeOK, MutexTypeOK
<1>5. FifoHolder' = [FifoHolder EXCEPT ![m] = Nil]
  <2>1. owner' = owner
    BY DEF UnlockRelease
  <2>2. \A w \in Mutex : (IF lock'[w] = 1 THEN owner'[w] ELSE Nil) =
                            IF w = m THEN Nil ELSE IF lock[w] = 1 THEN owner[w] ELSE Nil
    BY <1>4, <2>1
  <2> QED
    BY <2>2 DEF FifoHolder
<1>6. FifoLevel' = [FifoLevel EXCEPT ![m] = 0] /\ FifoLevel[m] = 1
  BY <1>1, <1>4 DEF FifoLevel, UnlockRelease
<1> QED
  BY <1>3, <1>5, <1>6 DEF Fifo!Free, FifoHolder, FifoLevel, FifoQueue

(* Every step of the kernel mutex is a step of the abstract lock, or       *)
(* invisible to it.                                                        *)
LEMMA FifoStep == ListInv /\ [Next]_vars => [Fifo!Next]_(Fifo!vars)
<1> SUFFICES ASSUME ListInv, [Next]_vars
             PROVE  Fifo!Next \/ UNCHANGED Fifo!vars
  OBVIOUS
<1>1. ASSUME NEW p \in Proc, NEW m \in Mutex, Take(p, m) \/ Leave(p, m)
      PROVE  Fifo!Next \/ UNCHANGED Fifo!vars
  <2>1. CASE LockStopped(p, m) \/ UnlockStopped(p, m)
    BY <2>1, FifoStutter DEF LockStopped, UnlockStopped
  <2>2. CASE LockNested(p, m)
    BY <2>2, FifoReenter DEF Fifo!Next
  <2>3. CASE LockClaim(p, m)
    BY <2>3, FifoClaim DEF Fifo!Next
  <2>4. CASE UnlockNested(p, m)
    BY <2>4, FifoLeaveOnce DEF Fifo!Next
  <2>5. CASE UnlockHandOff(p, m)
    BY <2>5, FifoHandOver DEF Fifo!Next
  <2>6. CASE UnlockRelease(p, m)
    BY <2>6, FifoFree DEF Fifo!Next
  <2> QED
    BY <1>1, <2>1, <2>2, <2>3, <2>4, <2>5, <2>6 DEF Take, Leave
<1>2. CASE \E p \in Proc \ {Idle}, m \in Mutex : LockWait(p, m)
  BY <1>2, FifoJoin DEF Fifo!Next
<1>3. CASE \E p \in Proc : LockBlock(p) \/ LockReturn(p) \/ UnlockWake(p)
  BY <1>3, FifoStutter DEF LockBlock, LockReturn, UnlockWake
<1>4. CASE \E p, q \in Proc : StartProcess(p, q)
  BY <1>4, FifoStutter DEF StartProcess
<1>5. CASE StartScheduling \/ Tick \/ UNCHANGED vars
  BY <1>5, FifoStutter DEF StartScheduling, Tick, vars, mutexVars
<1> QED
  BY <1>1, <1>2, <1>3, <1>4, <1>5 DEF Next

(* The mutex of lock.c on the intrusive lists of waiter.c is a recursive   *)
(* lock that a release hands to the process that has waited longest.       *)
THEOREM MutexIsFifoLock == Spec => ImplementsFifoLock
<1>1. Init => Fifo!Init
  BY FifoInit, ListInitLemma
<1>2. ListInv /\ [Next]_vars => [Fifo!Next]_(Fifo!vars)
  BY FifoStep
<1> QED
  BY <1>1, <1>2, ListInvariant, PTL DEF Spec, ImplementsFifoLock, Fifo!Spec

-----------------------------------------------------------------------------
(* p is on the run queue q.                                                *)
Queued(q, p) == \E i \in 1..Len(q) : q[i] = p

(* Idle is in its own code or about to wake a process, ready, and running  *)
(* or on the run queue.                                                    *)
IdleThere ==
  state[Idle] = "PROC_READY" /\ pc[Idle] \in {"run", "wake"} /\ HasPlace(Idle)

(* As long as it is alone the run queue is empty.                          *)
AloneInv == Alone => current = Idle /\ run_queue = <<>>

(* Idle still has a mutex to release, or a process to wake.                *)
Busy == pc[Idle] = "wake" \/ \E m \in Mutex : depth[Idle][m] > 0

(* What is left to Idle once it is not alone is proc_acces_lock; until it  *)
(* has released that, nobody but the process that it has started runs.     *)
BusyInv ==
  Busy /\ ~Alone =>
    /\ Len(run_queue) <= 1
    /\ \A m \in Mutex : m # ProcLock \/ pc[Idle] = "wake" => depth[Idle][m] = 0
    /\ \A p, q \in Proc \ {Idle} : pc[p] # "new" /\ pc[q] # "new" => p = q

(* The invariant of the scheduler: every context switch takes an entry off *)
(* the run queue, so the next step finds room for one more; a step that    *)
(* wakes a process needs room for two, and Idle only wakes one while the   *)
(* run queue is nearly empty.                                              *)
RunInv ==
  /\ ~halted /\ Len(run_queue) <= MaxProc - 1
  /\ IdleThere /\ AloneInv /\ BusyInv

(* proc_enqueue of a ring that is not full.                                *)
LEMMA AppendLemma ==
  ASSUME NEW q \in Seq(Proc), NEW p \in Proc, Len(q) <= MaxProc - 1
  PROVE  /\ Enqueue(q, p) \in Seq(Proc) /\ Len(Enqueue(q, p)) = Len(q) + 1
         /\ Queued(Enqueue(q, p), p)
         /\ \A x \in Proc : Queued(q, x) => Queued(Enqueue(q, p), x)
<1>1. MaxProc \in Nat /\ Len(q) \in Nat
  BY SchedulerAssumption
<1>2. Enqueue(q, p) = Append(q, p)
  BY <1>1 DEF Enqueue
<1>3. /\ Append(q, p) \in Seq(Proc) /\ Len(Append(q, p)) = Len(q) + 1
      /\ Append(q, p)[Len(q) + 1] = p
      /\ \A i \in 1..Len(q) : Append(q, p)[i] = q[i]
  OBVIOUS
<1> QED
  BY <1>1, <1>2, <1>3 DEF Queued

(* proc_sched_new_task, where q is the run queue after the running process *)
(* was put on it: a ready process on q runs or stays on the run queue, and *)
(* at least one entry is taken off.                                        *)
LEMMA SwitchLemma ==
  ASSUME NEW r, NEW s, NEW q \in Seq(Proc),
         q = IF s[current] = "PROC_READY" THEN Enqueue(r, current) ELSE r,
         NEW x \in Proc, s[x] = "PROC_READY", Queued(q, x), NewTask(r, s)
  PROVE  /\ halted' = halted /\ Len(run_queue') <= Len(q) - 1
         /\ x = current' \/ Queued(run_queue', x)
<1> DEFINE n == Len(q)
<1>1. n \in Nat /\ q \in [1..n -> Proc]
  OBVIOUS
<1>2. ReadyEntries(q, s) = {i \in 1..n : s[q[i]] = "PROC_READY"}
  BY DEF ReadyEntries
<1>3. PICK k \in 1..n : q[k] = x
  BY DEF Queued
<1>4. k \in ReadyEntries(q, s)
  BY <1>2, <1>3
<1>5. PICK i \in ReadyEntries(q, s) :
        /\ \A j \in ReadyEntries(q, s) : i <= j
        /\ current' = q[i]
        /\ run_queue' = SubSeq(q, i + 1, n)
        /\ halted' = halted
  BY <1>4 DEF NewTask
<1>6. i \in 1..n /\ i <= k
  BY <1>2, <1>4, <1>5
<1> HIDE DEF n
<1>7. /\ Len(run_queue') = n - i
      /\ \A j \in 1..(n - i) : run_queue'[j] = q[i + j]
  <2>1. i + 1 \in 1..(Len(q) + 1) /\ n \in ((i + 1) - 1)..Len(q)
    BY <1>1, <1>6 DEF n
  <2>2. /\ Len(run_queue') = n - (i + 1) + 1
        /\ \A j \in 1..(n - (i + 1) + 1) : run_queue'[j] = q[(i + 1) + j - 1]
    BY <1>5, <2>1, SubSeqProperties
  <2>3. n - (i + 1) + 1 = n - i
    BY <1>1, <1>6
  <2>4. ASSUME NEW j \in 1..(n - i)
        PROVE  run_queue'[j] = q[i + j]
    <3>1. (i + 1) + j - 1 = i + j
      BY <1>6
    <3> QED
      BY <2>2, <2>3, <3>1
  <2> QED
    BY <2>2, <2>3, <2>4
<1>8. x = current' \/ Queued(run_queue', x)
  <2>1. CASE i = k
    BY <1>3, <1>5, <2>1
  <2>2. CASE i # k
    <3>1. k - i \in 1..(n - i) /\ i + (k - i) = k
      BY <1>1, <1>6, <2>2
    <3>2. run_queue'[k - i] = x
      BY <1>3, <1>7, <3>1
    <3> QED
      BY <1>7, <3>1, <3>2 DEF Queued
  <2> QED
    BY <2>1, <2>2
<1> QED
  BY <1>1, <1>5, <1>6, <1>7, <1>8 DEF n

(* HasPlace, with the entries of the run queue numbered from 1.            *)
LEMMA PlaceLemma ==
  ASSUME NEW x \in Proc, run_queue \in Seq(Proc)
  PROVE  HasPlace(x) <=> x = current \/ Queued(run_queue, x)
BY DEF HasPlace, Queued

LEMMA PlaceNextLemma ==
  ASSUME NEW x \in Proc, run_queue' \in Seq(Proc)
  PROVE  HasPlace(x)' <=> x = current' \/ Queued(run_queue', x)
BY DEF HasPlace, Queued

(* A context switch that puts only the running process on the run queue:   *)
(* proc_block and a SysTick.                                               *)
LEMMA SwitchPlace ==
  ASSUME LockInv, RunInv, NEW s, NewTask(run_queue, s), run_queue' \in Seq(Proc),
         NEW x \in Proc, HasPlace(x), s[x] = "PROC_READY"
  PROVE  halted' = halted /\ HasPlace(x)' /\ Len(run_queue') <= Len(run_queue)
<1> DEFINE q == IF s[current] = "PROC_READY" THEN Enqueue(run_queue, current)
                ELSE run_queue
<1>1. current \in Proc /\ run_queue \in Seq(Proc) /\ Len(run_queue) <= MaxProc - 1
  BY DEF LockInv, TypeOK, SchedTypeOK, RunInv
<1>2. q \in Seq(Proc) /\ Len(q) <= Len(run_queue) + 1 /\ Queued(q, x)
  <2>1. CASE s[current] = "PROC_READY"
    BY <1>1, <2>1, AppendLemma, PlaceLemma
  <2>2. CASE s[current] # "PROC_READY"
    BY <1>1, <2>2, PlaceLemma
  <2> QED
    BY <2>1, <2>2
<1>3. /\ halted' = halted /\ Len(run_queue') <= Len(q) - 1
      /\ x = current' \/ Queued(run_queue', x)
  <2> HIDE DEF q
  <2>1. q = IF s[current] = "PROC_READY" THEN Enqueue(run_queue, current) ELSE run_queue
    BY DEF q
  <2> QED
    BY <1>2, <2>1, SwitchLemma
<1>4. HasPlace(x)'
  BY <1>3, PlaceNextLemma
<1>5. Len(q) \in Nat /\ Len(run_queue) \in Nat /\ Len(run_queue') \in Nat
  BY <1>1, <1>2
<1> HIDE DEF q
<1> QED
  BY <1>2, <1>3, <1>4, <1>5

(* proc_unblock_process(n): n has a place then, and so has everybody who   *)
(* had one, except that the running process may be dropped.                *)
LEMMA WakePlace ==
  ASSUME LockInv, RunInv, NEW s, NEW n \in Proc, NewTask(Enqueue(run_queue, n), s),
         run_queue' \in Seq(Proc), s[current] = "PROC_READY",
         NEW x \in Proc, HasPlace(x) \/ x = n, s[x] = "PROC_READY",
         x # current \/ Len(run_queue) < MaxProc - 1
  PROVE  /\ halted' = halted /\ HasPlace(x)'
         /\ Len(run_queue') <= Len(run_queue) + 1 /\ Len(run_queue') <= MaxProc - 1
<1> DEFINE r == Enqueue(run_queue, n)
           q == Enqueue(r, current)
<1>1. /\ current \in Proc /\ run_queue \in Seq(Proc) /\ Len(run_queue) <= MaxProc - 1
      /\ MaxProc \in Nat
  BY SchedulerAssumption DEF LockInv, TypeOK, SchedTypeOK, RunInv
<1>2. /\ r \in Seq(Proc) /\ Len(r) = Len(run_queue) + 1
      /\ Queued(r, n) /\ \A y \in Proc : Queued(run_queue, y) => Queued(r, y)
  BY <1>1, AppendLemma
<1>3. NewTask(r, s)
  OBVIOUS
<1>4. Len(r) \in Nat /\ Len(run_queue) \in Nat
  BY <1>1, <1>2
<1> HIDE DEF r
<1>5. /\ q \in Seq(Proc) /\ Len(q) <= Len(r) + 1 /\ Len(q) <= MaxProc
      /\ Queued(q, x)
  <2>1. CASE Len(r) = MaxProc
    <3>1. q = r
      BY <2>1 DEF Enqueue
    <3>2. x # current
      BY <1>1, <1>2, <1>4, <2>1
    <3> QED
      BY <1>1, <1>2, <1>4, <2>1, <3>1, <3>2, PlaceLemma
  <2>2. CASE Len(r) # MaxProc
    <3>1. Len(r) <= MaxProc - 1
      BY <1>1, <1>2, <1>4, <2>2
    <3>2. /\ q \in Seq(Proc) /\ Len(q) = Len(r) + 1 /\ Queued(q, current)
          /\ \A y \in Proc : Queued(r, y) => Queued(q, y)
      BY <1>1, <1>2, <3>1, AppendLemma
    <3>3. x = current \/ Queued(r, x)
      BY <1>1, <1>2, PlaceLemma
    <3> HIDE DEF q
    <3> QED
      BY <1>1, <1>4, <3>1, <3>2, <3>3
  <2> QED
    BY <2>1, <2>2
<1>6. q = IF s[current] = "PROC_READY" THEN Enqueue(r, current) ELSE r
  OBVIOUS
<1> HIDE DEF q
<1>7. /\ halted' = halted /\ Len(run_queue') <= Len(q) - 1
      /\ x = current' \/ Queued(run_queue', x)
  BY <1>3, <1>5, <1>6, SwitchLemma
<1>8. HasPlace(x)'
  BY <1>7, PlaceNextLemma
<1>9. Len(q) \in Nat /\ Len(run_queue') \in Nat
  BY <1>5
<1> QED
  BY <1>1, <1>2, <1>4, <1>5, <1>7, <1>8, <1>9

-----------------------------------------------------------------------------
(* OnlyWakerLost of one step.                                              *)
PlacesKept ==
  \A p \in Proc :
    HasPlace(p) /\ state[p] = "PROC_READY" /\ state'[p] = "PROC_READY" /\ ~HasPlace(p)' =>
      /\ p # Idle /\ Len(run_queue) = MaxProc - 1
      /\ UnlockWake(p) \/ \E q \in Proc : StartProcess(p, q)

\* what a step has to keep besides the locks
StepKeeps == RunInv' /\ PlacesKept

(* A step that does not touch the scheduler keeps the invariant if Idle    *)
(* stays out of trouble and nobody starts.                                 *)
LEMMA QuietStep ==
  ASSUME LockInv, RunInv, UNCHANGED <<current, state, run_queue, halted>>,
         pc' \in [Proc -> {"new", "run", "block", "asleep", "wake"}],
         \A p \in Proc : pc[p] = "new" <=> pc'[p] = "new",
         pc'[Idle] \in {"run", "wake"}, BusyInv'
  PROVE  StepKeeps
<1>1. \A p \in Proc : HasPlace(p)' <=> HasPlace(p)
  BY DEF HasPlace
<1>2. IdleThere' /\ AloneInv'
  BY <1>1, SchedulerAssumption DEF RunInv, IdleThere, AloneInv, Alone
<1>3. PlacesKept
  BY <1>1 DEF PlacesKept
<1> QED
  BY <1>2, <1>3 DEF StepKeeps, RunInv

(* Nobody else runs while Idle is busy, so the others only matter to Idle  *)
(* by what they do to the run queue.                                       *)
LEMMA OthersStep ==
  ASSUME LockInv, RunInv, NEW p \in Proc \ {Idle}, pc[p] # "new",
         UNCHANGED <<current, state, run_queue, halted>>,
         pc' \in [Proc -> {"new", "run", "block", "asleep", "wake"}],
         pc'[p] # "new", \A q \in Proc : q # p => pc'[q] = pc[q],
         \A m \in Mutex : depth'[Idle][m] = depth[Idle][m]
  PROVE  StepKeeps
<1>1. ~Alone /\ pc'[Idle] = pc[Idle] /\ \A q \in Proc : pc[q] = "new" <=> pc'[q] = "new"
  BY SchedulerAssumption DEF Alone
<1>2. BusyInv'
  BY <1>1 DEF RunInv, BusyInv, Busy
<1> QED
  BY <1>1, <1>2, QuietStep DEF RunInv, IdleThere

(* mutex_lock that returns at once.                                        *)
LEMMA TakeStepRun ==
  ASSUME LockInv, RunInv, NEW p \in Proc, NEW m \in Mutex, p = Idle => Alone, Take(p, m)
  PROVE  StepKeeps
<1>1. /\ UNCHANGED <<current, state, run_queue, halted, pc>>
      /\ pc[p] = "run" /\ Deeper(p, m)
  BY DEF Take, LockStopped, LockNested, LockClaim, CallLock, schedVars
<1>2. pc \in [Proc -> {"new", "run", "block", "asleep", "wake"}]
  BY DEF LockInv, TypeOK, MutexTypeOK
<1>3. CASE p = Idle
  <2>1. Alone'
    BY <1>1, <1>3 DEF Alone
  <2>2. BusyInv' /\ pc'[Idle] = "run"
    BY <1>1, <1>3, <2>1 DEF BusyInv
  <2> QED
    BY <1>1, <1>2, <2>2, QuietStep
<1>4. CASE p # Idle
  <2>1. depth'[Idle] = depth[Idle]
    BY <1>1, <1>4, SchedulerAssumption DEF Deeper, LockInv, TypeOK, MutexTypeOK
  <2> QED
    BY <1>1, <1>2, <1>4, <2>1, OthersStep
<1> QED
  BY <1>3, <1>4

(* mutex_unlock, up to the wake-up of the process it passes the mutex to.  *)
LEMMA LeaveStepRun ==
  ASSUME LockInv, RunInv, NEW p \in Proc, NEW m \in Mutex, Leave(p, m)
  PROVE  StepKeeps
<1>1. /\ UNCHANGED <<current, state, run_queue, halted>>
      /\ pc[p] = "run" /\ depth[p][m] > 0
      /\ \A q \in Proc : pc'[q] = pc[q] \/ (q = p /\ pc'[q] = "wake")
      /\ pc' \in [Proc -> {"new", "run", "block", "asleep", "wake"}]
  BY DEF Leave, UnlockStopped, UnlockNested, UnlockHandOff, UnlockRelease, CallUnlock,
     schedVars, LockInv, TypeOK, MutexTypeOK
<1>2. Shallower(p, m)
  BY DEF Leave, UnlockStopped, UnlockNested, UnlockHandOff, UnlockRelease
<1>3. \A q \in Proc, n \in Mutex :
        depth'[q][n] = IF q = p /\ n = m THEN depth[q][n] - 1 ELSE depth[q][n]
  BY <1>1, <1>2, ShallowerLemma DEF LockInv, TypeOK
<1>4. depth \in [Proc -> [Mutex -> 0..MaxDepth]] /\ MaxDepth \in Nat
  BY MutexAssumption DEF LockInv, TypeOK, MutexTypeOK
<1>5. CASE p = Idle
  <2>1. pc[Idle] = "run" /\ Busy
    BY <1>1, <1>5 DEF Busy
  <2>2. Alone' <=> Alone
    BY <1>1, <1>5 DEF Alone
  <2>3. CASE Alone
    BY <1>1, <1>5, <2>2, <2>3, QuietStep DEF BusyInv
  <2>4. CASE ~Alone
    <3>1. /\ Len(run_queue) <= 1
          /\ \A n \in Mutex \ {ProcLock} : depth[Idle][n] = 0
          /\ \A x, y \in Proc \ {Idle} : pc[x] # "new" /\ pc[y] # "new" => x = y
      BY <2>1, <2>4 DEF RunInv, BusyInv
    <3>2. m = ProcLock
      BY <1>1, <1>5, <3>1
    <3>3. pc'[Idle] = "wake" => depth'[Idle][ProcLock] = 0
      <4> SUFFICES ASSUME pc'[Idle] = "wake"
                   PROVE  depth'[Idle][ProcLock] = 0
        OBVIOUS
      <4>1. UnlockHandOff(p, m)
        BY <1>5, <2>1 DEF Leave, UnlockStopped, UnlockNested, UnlockRelease
      <4>2. count[m] <= 1 /\ count[m] = depth[Idle][m]
        BY <1>1, <1>5, <4>1 DEF UnlockHandOff, LockInv, HolderOwns
      <4>3. depth[Idle][m] \in Nat /\ depth[Idle][m] > 0
        BY <1>1, <1>4, <1>5, SchedulerAssumption
      <4> QED
        BY <1>3, <1>5, <3>2, <4>2, <4>3, SchedulerAssumption
    <3>4. \A n \in Mutex \ {ProcLock} : depth'[Idle][n] = 0
      BY <1>3, <3>1, <3>2, SchedulerAssumption
    <3>5. \A x \in Proc \ {Idle} : pc'[x] = pc[x]
      BY <1>1, <1>5
    <3>6. BusyInv'
      BY <1>1, <3>1, <3>3, <3>4, <3>5 DEF BusyInv
    <3> QED
      BY <1>1, <1>5, <2>1, <3>6, QuietStep
  <2> QED
    BY <2>3, <2>4
<1>6. CASE p # Idle
  BY <1>1, <1>3, <1>6, OthersStep, SchedulerAssumption
<1> QED
  BY <1>5, <1>6

(* mutex_lock joins the wait queue, or returns after the caller slept.     *)
LEMMA WaitStepRun ==
  ASSUME LockInv, RunInv, NEW p \in Proc,
         (p # Idle /\ \E m \in Mutex : LockWait(p, m)) \/ LockReturn(p)
  PROVE  StepKeeps
<1>1. /\ UNCHANGED <<current, state, run_queue, halted>>
      /\ p # Idle /\ pc[p] # "new" /\ pc'[p] # "new"
      /\ \A q \in Proc : q # p => pc'[q] = pc[q]
      /\ pc' \in [Proc -> {"new", "run", "block", "asleep", "wake"}]
  BY SchedulerAssumption
  DEF LockWait, LockReturn, CallLock, schedVars, RunInv, IdleThere, LockInv, TypeOK,
      MutexTypeOK
<1>2. depth'[Idle] = depth[Idle]
  BY <1>1, SchedulerAssumption
  DEF LockWait, LockReturn, Deeper, LockInv, TypeOK, MutexTypeOK
<1> QED
  BY <1>1, <1>2, OthersStep

(* A context switch after which every ready process has a place and the    *)
(* run queue is no longer than before.                                     *)
LEMMA SwitchStepRun ==
  ASSUME LockInv, LockInv', RunInv, NewTask(run_queue, state'), state'[Idle] = "PROC_READY",
         \A p \in Proc : state'[p] = "PROC_READY" => state[p] = "PROC_READY",
         \A p \in Proc : pc'[p] = pc[p] \/ (p # Idle /\ pc[p] # "new" /\ pc'[p] # "new"),
         depth' = depth
  PROVE  StepKeeps
<1>1. run_queue' \in Seq(Proc) /\ current' \in Proc /\ run_queue \in Seq(Proc)
  BY DEF LockInv, TypeOK, SchedTypeOK
<1>2. \A x \in Proc : HasPlace(x) /\ state'[x] = "PROC_READY" =>
        halted' = halted /\ HasPlace(x)' /\ Len(run_queue') <= Len(run_queue)
  BY <1>1, SwitchPlace
<1>3. halted' = halted /\ HasPlace(Idle)' /\ Len(run_queue') <= Len(run_queue)
  BY <1>2, SchedulerAssumption DEF RunInv, IdleThere
<1>4. Len(run_queue) \in Nat /\ Len(run_queue') \in Nat /\ MaxProc \in Nat
  BY <1>1, SchedulerAssumption
<1>5. Alone' <=> Alone
  BY DEF Alone
<1>6. pc'[Idle] = pc[Idle] /\ IdleThere'
  BY <1>3, SchedulerAssumption DEF RunInv, IdleThere
<1>7. AloneInv'
  <2> SUFFICES ASSUME Alone
               PROVE  current' = Idle /\ run_queue' = <<>>
    BY <1>5 DEF AloneInv
  <2>1. Len(run_queue) = 0
    BY DEF RunInv, AloneInv
  <2>2. Len(run_queue') = 0
    BY <1>3, <1>4, <2>1
  <2>3. run_queue' = <<>>
    BY <1>1, <2>2
  <2>4. ~Queued(run_queue', Idle)
    BY <2>2 DEF Queued
  <2> QED
    BY <1>1, <1>3, <2>3, <2>4, PlaceNextLemma, SchedulerAssumption
<1>8. BusyInv'
  <2>1. Busy' <=> Busy
    BY <1>6 DEF Busy
  <2>2. \A x \in Proc \ {Idle} : pc'[x] # "new" => pc[x] # "new"
    OBVIOUS
  <2> QED
    BY <1>3, <1>4, <1>5, <1>6, <2>1, <2>2 DEF RunInv, BusyInv
<1>9. PlacesKept
  BY <1>2 DEF PlacesKept
<1> QED
  BY <1>3, <1>4, <1>6, <1>7, <1>8, <1>9 DEF StepKeeps, RunInv

(* A SysTick, and proc_block in mutex_lock.                                *)
LEMMA TickOrBlockRun ==
  ASSUME LockInv, LockInv', RunInv, Tick \/ \E p \in Proc : LockBlock(p)
  PROVE  StepKeeps
<1>1. CASE Tick
  BY <1>1, SwitchStepRun DEF Tick, Preempt, mutexVars, RunInv, IdleThere
<1>2. CASE \E p \in Proc : LockBlock(p)
  <2>1. PICK p \in Proc : LockBlock(p)
    BY <1>2
  <2>2. p # Idle /\ pc[p] = "block" /\ depth' = depth /\ NewTask(run_queue, state')
    BY <2>1 DEF LockBlock, Block, RunInv, IdleThere
  <2>3. \A q \in Proc : /\ pc'[q] = IF q = p THEN "asleep" ELSE pc[q]
                        /\ state'[q] = IF q = p THEN "PROC_BLOCKED" ELSE state[q]
    BY <2>1 DEF LockBlock, Block, LockInv, TypeOK, SchedTypeOK, MutexTypeOK
  <2>4. /\ state'[Idle] = "PROC_READY"
        /\ \A q \in Proc : state'[q] = "PROC_READY" => state[q] = "PROC_READY"
        /\ \A q \in Proc : pc'[q] = pc[q] \/ (q # Idle /\ pc[q] # "new" /\ pc'[q] # "new")
    BY <2>2, <2>3, SchedulerAssumption DEF RunInv, IdleThere
  <2> QED
    BY <2>2, <2>4, SwitchStepRun
<1> QED
  BY <1>1, <1>2

(* proc_unblock_process(n) by p, which is dropped if the ring is full.  If *)
(* p is Idle the run queue is nearly empty.                                *)
LEMMA WakeStepRun ==
  ASSUME 3 <= MaxProc, LockInv, LockInv', RunInv, NEW p \in Proc, NEW n \in Proc,
         p = current, NewTask(Enqueue(run_queue, n), state'),
         state' = [state EXCEPT ![n] = "PROC_READY"],
         p = Idle => Len(run_queue) <= 1
  PROVE  /\ halted' = halted /\ HasPlace(Idle)' /\ state'[Idle] = "PROC_READY"
         /\ Len(run_queue') <= Len(run_queue) + 1 /\ Len(run_queue') <= MaxProc - 1
         /\ \A x \in Proc :
              HasPlace(x) /\ state'[x] = "PROC_READY" /\ ~HasPlace(x)' =>
                x = p /\ p # Idle /\ Len(run_queue) = MaxProc - 1
<1>1. /\ run_queue' \in Seq(Proc) /\ run_queue \in Seq(Proc)
      /\ Len(run_queue) \in Nat /\ MaxProc \in Nat /\ Len(run_queue) <= MaxProc - 1
  BY SchedulerAssumption DEF LockInv, TypeOK, SchedTypeOK, RunInv
<1>2. \A x \in Proc : state[x] = "PROC_READY" => state'[x] = "PROC_READY"
  BY DEF LockInv, TypeOK, SchedTypeOK
<1>3. state'[current] = "PROC_READY" /\ state'[Idle] = "PROC_READY"
  BY <1>2, SchedulerAssumption DEF LockInv, CurrentReady, RunInv, IdleThere
<1>4. ASSUME NEW x \in Proc, HasPlace(x), state'[x] = "PROC_READY",
             x # p \/ p = Idle \/ Len(run_queue) # MaxProc - 1
      PROVE  /\ halted' = halted /\ HasPlace(x)'
             /\ Len(run_queue') <= Len(run_queue) + 1 /\ Len(run_queue') <= MaxProc - 1
  <2>1. x # current \/ Len(run_queue) < MaxProc - 1
    BY <1>1, <1>4
  <2> QED
    BY <1>1, <1>3, <1>4, <2>1, WakePlace
<1>5. HasPlace(Idle)
  BY DEF RunInv, IdleThere
<1>6. /\ halted' = halted /\ HasPlace(Idle)'
      /\ Len(run_queue') <= Len(run_queue) + 1 /\ Len(run_queue') <= MaxProc - 1
  BY <1>3, <1>4, <1>5, SchedulerAssumption
<1>7. \A x \in Proc : HasPlace(x) /\ state'[x] = "PROC_READY" /\ ~HasPlace(x)' =>
        x = p /\ p # Idle /\ Len(run_queue) = MaxProc - 1
  BY <1>4
<1> QED
  BY <1>3, <1>6, <1>7

(* proc_unblock_process in mutex_unlock.                                   *)
LEMMA UnlockWakeRun ==
  ASSUME 3 <= MaxProc, LockInv, LockInv', RunInv, NEW p \in Proc, UnlockWake(p)
  PROVE  StepKeeps
<1>1. PICK n \in Proc : n = next[p]
  BY DEF UnlockWake, LockInv, WakeInv, TypeOK, MutexTypeOK
<1>2. /\ p = current /\ pc[p] = "wake" /\ Waits(n) /\ n # p /\ n # Idle
      /\ depth' = depth
      /\ state' = [state EXCEPT ![n] = "PROC_READY"] /\ NewTask(Enqueue(run_queue, n), state')
  BY <1>1 DEF UnlockWake, Unblock, Running, LockInv, WakeInv, Waits, RunInv, IdleThere,
     TypeOK, MutexTypeOK
<1>3. ~Alone /\ \A q \in Proc : pc'[q] = IF q = p THEN "run" ELSE pc[q]
  BY <1>2 DEF UnlockWake, Alone, Waits, LockInv, TypeOK, MutexTypeOK
<1>4. p = Idle => Len(run_queue) <= 1 /\ \A m \in Mutex : depth[Idle][m] = 0
  BY <1>2, <1>3 DEF RunInv, BusyInv, Busy
<1>5. p # Idle => ~Busy
  BY <1>2, <1>3 DEF RunInv, BusyInv, Waits
<1>6. /\ halted' = halted /\ HasPlace(Idle)' /\ state'[Idle] = "PROC_READY"
      /\ Len(run_queue') <= MaxProc - 1
      /\ \A x \in Proc : HasPlace(x) /\ state'[x] = "PROC_READY" /\ ~HasPlace(x)' =>
           x = p /\ p # Idle /\ Len(run_queue) = MaxProc - 1
  BY <1>2, <1>4, WakeStepRun
<1>7. IdleThere' /\ AloneInv'
  BY <1>2, <1>3, <1>6, SchedulerAssumption
  DEF RunInv, IdleThere, AloneInv, Alone, Waits
<1>8. BusyInv'
  <2>1. pc'[Idle] # "wake"
    BY <1>3, <1>5, SchedulerAssumption DEF Busy
  <2>2. \A m \in Mutex : ~(depth'[Idle][m] > 0)
    BY <1>2, <1>4, <1>5 DEF Busy
  <2> QED
    BY <2>1, <2>2 DEF BusyInv, Busy
<1>9. PlacesKept
  BY <1>6 DEF PlacesKept
<1> QED
  BY <1>6, <1>7, <1>8, <1>9 DEF StepKeeps, RunInv

(* The first SIGCONT to a process.                                         *)
LEMMA StartProcessRun ==
  ASSUME 3 <= MaxProc, LockInv, LockInv', RunInv, NEW p \in Proc, NEW n \in Proc,
         StartProcess(p, n)
  PROVE  StepKeeps
<1>1. /\ p = current /\ pc[p] = "run" /\ pc[n] = "new" /\ n # p /\ n # Idle
      /\ depth' = depth /\ depth[p][ProcLock] > 0 /\ sched_started
      /\ state' = [state EXCEPT ![n] = "PROC_READY"] /\ NewTask(Enqueue(run_queue, n), state')
  BY DEF StartProcess, Unblock, Running, RunInv, IdleThere
<1>2. \A q \in Proc : pc'[q] = IF q = n THEN "run" ELSE pc[q]
  BY DEF StartProcess, LockInv, TypeOK, MutexTypeOK
<1>3. p = Idle => Alone /\ Len(run_queue) = 0 /\ \A m \in Mutex \ {ProcLock} : depth[Idle][m] = 0
  <2> SUFFICES ASSUME p = Idle
               PROVE  Alone /\ Len(run_queue) = 0 /\ \A m \in Mutex \ {ProcLock} : depth[Idle][m] = 0
    OBVIOUS
  <2>1. StartsFirst
    BY DEF StartProcess
  <2> QED
    BY <2>1 DEF StartsFirst, RunInv, AloneInv
<1>4. p # Idle => ~Busy /\ ~Alone
  <2> SUFFICES ASSUME p # Idle
               PROVE  ~Busy /\ ~Alone
    OBVIOUS
  <2>1. ~Alone
    BY <1>1 DEF Alone
  <2>2. ASSUME Busy
        PROVE  FALSE
    <3>1. /\ \A m \in Mutex : m # ProcLock \/ pc[Idle] = "wake" => depth[Idle][m] = 0
          /\ \A x, y \in Proc \ {Idle} : pc[x] # "new" /\ pc[y] # "new" => x = y
      BY <2>1, <2>2 DEF RunInv, BusyInv
    <3>2. CASE pc[Idle] = "wake"
      <4>1. next[Idle] \in Proc /\ Waits(next[Idle])
        BY <3>2, SchedulerAssumption DEF LockInv, WakeInv, TypeOK, MutexTypeOK
      <4>2. next[Idle] # Idle /\ next[Idle] # p
        BY <1>1, <3>2, <4>1 DEF Waits
      <4> QED
        BY <1>1, <3>1, <4>1, <4>2 DEF Waits
    <3>3. CASE pc[Idle] # "wake"
      <4>1. PICK m \in Mutex : depth[Idle][m] > 0
        BY <2>2, <3>3 DEF Busy
      <4>2. m = ProcLock
        BY <3>1, <4>1
      <4> QED
        BY <1>1, <4>1, <4>2, SchedulerAssumption DEF LockInv, HolderOwns
    <3> QED
      BY <3>2, <3>3
  <2> QED
    BY <2>1, <2>2
<1>5. /\ halted' = halted /\ HasPlace(Idle)' /\ state'[Idle] = "PROC_READY"
      /\ Len(run_queue') <= Len(run_queue) + 1 /\ Len(run_queue') <= MaxProc - 1
      /\ \A x \in Proc : HasPlace(x) /\ state'[x] = "PROC_READY" /\ ~HasPlace(x)' =>
           x = p /\ p # Idle /\ Len(run_queue) = MaxProc - 1
  <2>1. p = Idle => Len(run_queue) <= 1
    BY <1>3
  <2> QED
    BY <1>1, <2>1, WakeStepRun
<1>6. IdleThere' /\ AloneInv'
  BY <1>1, <1>2, <1>5, SchedulerAssumption DEF RunInv, IdleThere, AloneInv, Alone
<1>7. BusyInv'
  <2>1. CASE p = Idle
    <3>1. Len(run_queue') <= 1
      BY <1>3, <1>5, <2>1
    <3>2. \A x \in Proc \ {Idle} : pc'[x] # "new" => x = n
      BY <1>2, <1>3, <2>1 DEF Alone
    <3>3. pc'[Idle] = "run"
      BY <1>1, <1>2, <2>1
    <3> QED
      BY <1>1, <1>3, <2>1, <3>1, <3>2, <3>3 DEF BusyInv
  <2>2. CASE p # Idle
    BY <1>1, <1>2, <1>4, <2>2, SchedulerAssumption DEF BusyInv, Busy
  <2> QED
    BY <2>1, <2>2
<1>8. PlacesKept
  BY <1>5 DEF PlacesKept
<1> QED
  BY <1>5, <1>6, <1>7, <1>8 DEF StepKeeps, RunInv

(* The kernel boots with Idle running and an empty run queue.              *)
LEMMA RunInitLemma ==
  ASSUME 3 <= MaxProc, Init
  PROVE  RunInv
<1>1. /\ run_queue = <<>> /\ current = Idle /\ ~halted
      /\ pc = [p \in Proc |-> IF p = Idle THEN "run" ELSE "new"]
      /\ state = [p \in Proc |-> IF p = Idle THEN "PROC_READY" ELSE "PROC_BLOCKED"]
  BY DEF Init
<1>2. Len(run_queue) <= MaxProc - 1
  BY <1>1, SchedulerAssumption
<1>3. Alone
  BY <1>1 DEF Alone
<1> QED
  BY <1>1, <1>2, <1>3, SchedulerAssumption
  DEF RunInv, IdleThere, HasPlace, AloneInv, BusyInv

(* Every step keeps the invariant, and loses at most the process that      *)
(* wakes another.                                                          *)
LEMMA RunNextLemma ==
  ASSUME 3 <= MaxProc, LockInv, LockInv', RunInv, [Next]_vars
  PROVE  StepKeeps
<1>1. CASE \E p \in Proc, m \in Mutex : (p = Idle => Alone) /\ Take(p, m)
  BY <1>1, TakeStepRun
<1>2. CASE \E p \in Proc, m \in Mutex : Leave(p, m)
  BY <1>2, LeaveStepRun
<1>3. CASE \E p \in Proc \ {Idle}, m \in Mutex : LockWait(p, m)
  BY <1>3, WaitStepRun
<1>4. CASE \E p \in Proc : LockBlock(p) \/ LockReturn(p) \/ UnlockWake(p)
  BY <1>4, TickOrBlockRun, WaitStepRun, UnlockWakeRun
<1>5. CASE \E p, q \in Proc : StartProcess(p, q)
  BY <1>5, StartProcessRun
<1>6. CASE StartScheduling \/ UNCHANGED vars
  <2>1. UNCHANGED <<current, state, run_queue, halted, pc, depth>>
    BY <1>6 DEF StartScheduling, vars, schedVars, mutexVars
  <2>2. BusyInv' /\ pc'[Idle] \in {"run", "wake"}
    BY <2>1 DEF RunInv, BusyInv, Busy, Alone, IdleThere
  <2>3. pc' \in [Proc -> {"new", "run", "block", "asleep", "wake"}]
    BY <2>1 DEF LockInv, TypeOK, MutexTypeOK
  <2> QED
    BY <2>1, <2>2, <2>3, QuietStep
<1>7. CASE Tick
  BY <1>7, TickOrBlockRun
<1> QED
  BY <1>1, <1>2, <1>3, <1>4, <1>5, <1>6, <1>7 DEF Next

(* RunInv holds in every reachable state of a kernel whose run queue has   *)
(* at least three entries, whatever the number of processes (proc.c:61,    *)
(* PROC_MAX_PROC is four).                                                 *)
THEOREM RunInvariant ==
  ASSUME 3 <= MaxProc
  PROVE  Spec => []RunInv
<1>1. LockInv /\ LockInv' /\ RunInv /\ [Next]_vars => RunInv'
  BY RunNextLemma DEF StepKeeps
<1>2. Init => RunInv
  BY RunInitLemma
<1> QED
  BY <1>1, <1>2, Invariant, PTL DEF Spec

(* A ready process that has a place on the run queue, or runs, keeps one   *)
(* in every step but its own proc_unblock_process on a full ring.          *)
THEOREM LossIsTheWakers ==
  ASSUME 3 <= MaxProc
  PROVE  Spec => OnlyWakerLost
<1>1. LockInv /\ LockInv' /\ RunInv /\ [Next]_vars => [PlacesKept]_vars
  BY RunNextLemma DEF StepKeeps
<1> QED
  BY <1>1, Invariant, RunInvariant, PTL DEF Spec, OnlyWakerLost, PlacesKept

(* The BKPT of proc_sched_new_task is never executed: Idle is ready and    *)
(* has a place in every state.                                             *)
THEOREM ProcessorKeepsRunning ==
  ASSUME 3 <= MaxProc
  PROVE  Spec => []NeverHalts
<1>1. RunInv => NeverHalts
  BY DEF RunInv, NeverHalts
<1> QED
  BY <1>1, RunInvariant, PTL

=============================================================================
