-------------------------- MODULE LifecycleProofs --------------------------
(***************************************************************************)
(* Proofs about Lifecycle, for any set of processes, any length of the run *)
(* queue, any number of spawns and any other mutexes beside                *)
(* proc_acces_lock.                                                        *)
(***************************************************************************)
EXTENDS Lifecycle, KernelMutexProofs

-----------------------------------------------------------------------------
(* Types: what is known of a process that is inside mutex_lock or          *)
(* mutex_unlock, so that their second halves keep the types too.           *)
InsideInv ==
  \A p \in Proc :
    /\ Waits(p) => wants[p] \in Mutex /\ depth[p][wants[p]] < MaxDepth
    /\ pc[p] = "wake" => next[p] \in Proc

TypeInv == LifeTypeOK /\ InsideInv

(* mutex_lock and mutex_unlock: what they share with their second halves.  *)
MutexTypes == TypeOK /\ InsideInv

(* The types of a process record and of its place in a system call.        *)
CallTypes ==
  /\ listed \in SUBSET Proc
  /\ ppid \in [Proc -> Proc]
  /\ exit_code \in [Proc -> {"none", "SIGCHLD", "other"}]
  /\ at \in [Proc -> Labels]
  /\ arg \in [Proc -> [pid : Proc \cup {Nil}, sig : Sigs \cup {Nil}]]
  /\ children \in [Proc -> BOOLEAN]
  /\ spawned \in 0..MaxSpawn
  /\ spurious \in BOOLEAN
  /\ early \in BOOLEAN
  /\ killed \in BOOLEAN

(* The type invariant is that of the mutex and that of the system calls.   *)
LEMMA TypeParts == TypeInv <=> MutexTypes /\ CallTypes
BY DEF TypeInv, LifeTypeOK, MutexTypes, CallTypes

(* The walk of waiter_remove is defined and meets processes only.          *)
LEMMA FromHeadLemma ==
  ASSUME WaiterTypeOK, NEW w \in Waiters
  PROVE  FromHead(w) \in [Nat -> Proc \cup {Nil}]
<1> DEFINE S == Proc \cup {Nil}
           step == [x \in S |-> IF x = Nil THEN Nil ELSE wait_next[x]]
           F(g) == [i \in Nat |-> IF i = 0 THEN head[w]
                                  ELSE IF g[i - 1] = Nil THEN Nil ELSE wait_next[g[i - 1]]]
           a == head[w]
<1>1. a \in S /\ step \in [S -> S]
  BY DEF WaiterTypeOK
<1>2. PICK g \in [Nat -> S] : g[0] = a /\ \A n \in Nat : g[n + 1] = step[g[n]]
  <2> HIDE DEF step, S, a
  <2> QED
    BY <1>1, IterationExists
<1>3. g = F(g)
  <2>1. \A i \in Nat : g[i] = F(g)[i]
    <3> SUFFICES ASSUME NEW i \in Nat
                 PROVE  g[i] = F(g)[i]
      OBVIOUS
    <3>1. CASE i = 0
      BY <1>2, <3>1
    <3>2. CASE i # 0
      <4>1. i - 1 \in Nat /\ i = (i - 1) + 1
        BY <3>2
      <4>2. g[i] = step[g[i - 1]] /\ g[i - 1] \in S
        BY <1>2, <4>1
      <4> QED
        BY <3>2, <4>2
    <3> QED
      BY <3>1, <3>2
  <2> QED
    BY <1>2, <2>1
<1>4. FromHead(w) = F(FromHead(w))
  <2>1. FromHead(w) = CHOOSE f : f = F(f)
    BY DEF FromHead
  <2> HIDE DEF F
  <2> QED
    BY <1>3, <2>1, Zenon
<1> DEFINE A == FromHead(w)
<1> HIDE DEF A
<1>5. A = F(A)
  BY <1>4 DEF A
<1>6. A[0] = a
  BY <1>5
<1>7. \A i \in Nat : A[i + 1] = IF A[i] = Nil THEN Nil ELSE wait_next[A[i]]
  BY <1>5
<1>8. \A i \in Nat : A[i] \in S
  <2> DEFINE T == {i \in Nat : A[i] \in S}
  <2>1. 0 \in T
    BY <1>1, <1>6
  <2>2. \A i \in Nat : i \in T => i + 1 \in T
    BY <1>7 DEF WaiterTypeOK
  <2>3. \A i \in Nat : i \in T
    <3> HIDE DEF T
    <3> QED
      BY <2>1, <2>2, SetInduction
  <2> QED
    BY <2>3
<1> QED
  BY <1>5, <1>8 DEF A

(* waiter_remove leaves pointers to processes, whatever it unlinks.        *)
LEMMA RemoveTypes ==
  ASSUME WaiterTypeOK, NEW w \in Waiters, NEW p \in Proc, WaiterRemove(w, p)
  PROVE  WaiterTypeOK'
<1>1. FromHead(w) \in [Nat -> Proc \cup {Nil}]
  BY FromHeadLemma
<1> DEFINE walk == FromHead(w)
           Prev(i) == IF i = 0 THEN Nil ELSE walk[i - 1]
           n == Cardinality(Proc)
<1>2. n \in Nat
  BY SchedulerAssumption, FS_CardinalityType
<1>3. \A i \in 0..n : Prev(i) \in Proc \cup {Nil}
  <2> HIDE DEF n
  <2> QED
  BY <1>1, <1>2
<1>4. waiting_on' = waiting_on
  BY DEF WaiterRemove
<1>5. \/ UNCHANGED <<head, tail, wait_next>>
      \/ \E i \in 0..n :
           /\ head' = IF i = 0 THEN [head EXCEPT ![w] = wait_next[p]] ELSE head
           /\ wait_next' = IF i = 0 THEN wait_next
                           ELSE [wait_next EXCEPT ![Prev(i)] = wait_next[p]]
           /\ tail' = IF wait_next[p] = Nil THEN [tail EXCEPT ![w] = Prev(i)]
                      ELSE tail
  BY DEF WaiterRemove
<1>6. CASE UNCHANGED <<head, tail, wait_next>>
  BY <1>4, <1>6 DEF WaiterTypeOK
<1>7. ASSUME NEW i \in 0..n,
             head' = IF i = 0 THEN [head EXCEPT ![w] = wait_next[p]] ELSE head,
             wait_next' = IF i = 0 THEN wait_next
                           ELSE [wait_next EXCEPT ![Prev(i)] = wait_next[p]],
             tail' = IF wait_next[p] = Nil THEN [tail EXCEPT ![w] = Prev(i)]
                      ELSE tail
      PROVE  WaiterTypeOK'
  <2>1. Prev(i) \in Proc \cup {Nil}
    BY <1>3
  <2>2. wait_next[p] \in Proc \cup {Nil}
    BY DEF WaiterTypeOK
  <2> HIDE DEF Prev
  <2> QED
    BY <1>4, <1>7, <2>1, <2>2 DEF WaiterTypeOK
<1> QED
  BY <1>5, <1>6, <1>7

-----------------------------------------------------------------------------
(* The scheduler's part of proc_block.                                     *)
LEMMA BlockTypes ==
  ASSUME SchedTypeOK, NEW p \in Proc, Block(p)
  PROVE  SchedTypeOK' /\ SwitchOK(state') /\ sched_started'
<1>1. state' \in [Proc -> ProcState]
  BY DEF Block, SchedTypeOK, ProcState
<1>2. NewTask(run_queue, state') /\ sched_started'
  BY DEF Block
<1>3. SwitchOK(state')
  BY <1>1, <1>2, NewTaskLemma DEF SchedTypeOK
<1> QED
  BY <1>1, <1>2, <1>3 DEF SwitchOK, SchedTypeOK, Block

(* The scheduler's part of proc_unblock_process.                           *)
LEMMA UnblockTypes ==
  ASSUME SchedTypeOK, NEW p \in Proc, Unblock(p)
  PROVE  SchedTypeOK' /\ SwitchOK(state') /\ sched_started'
<1>1. state' \in [Proc -> ProcState]
  BY DEF Unblock, SchedTypeOK, ProcState
<1>2. NewTask(Enqueue(run_queue, p), state') /\ sched_started'
  BY DEF Unblock
<1>3. Enqueue(run_queue, p) \in Seq(Proc) /\ Len(Enqueue(run_queue, p)) <= MaxProc
  BY EnqueueLemma DEF SchedTypeOK
<1>4. SwitchOK(state')
  BY <1>1, <1>2, <1>3, NewTaskLemma
<1> QED
  BY <1>1, <1>2, <1>4 DEF SwitchOK, SchedTypeOK, Unblock

(* proc_schedule.                                                          *)
LEMMA ScheduleTypes ==
  ASSUME SchedTypeOK, Schedule
  PROVE  SchedTypeOK' /\ SwitchOK(state') /\ sched_started' /\ state' = state
<1>1. state' = state /\ NewTask(run_queue, state) /\ sched_started'
  BY DEF Schedule
<1>2. SwitchOK(state)
  BY <1>1, NewTaskLemma DEF SchedTypeOK
<1> QED
  BY <1>1, <1>2 DEF SwitchOK, SchedTypeOK, Schedule

(* A SysTick.                                                              *)
LEMMA PreemptTypes ==
  ASSUME SchedTypeOK, Preempt
  PROVE  SchedTypeOK' /\ SwitchOK(state')
<1>1. state' = state /\ NewTask(run_queue, state) /\ sched_started' = sched_started
  BY DEF Preempt
<1>2. SwitchOK(state)
  BY <1>1, NewTaskLemma DEF SchedTypeOK
<1> QED
  BY <1>1, <1>2 DEF SwitchOK, SchedTypeOK

(* SIGCHLD or SIGCONT: the receiver becomes ready if it was blocked, and   *)
(* whoever is ready runs next.                                             *)
LEMMA SignalTypes ==
  ASSUME SchedTypeOK, NEW q \in Proc, NEW s \in [Proc -> ProcState], NEW ec, NEW sig,
         SignalWakes(q, s, ec, sig)
  PROVE  /\ SchedTypeOK' /\ SwitchOK(state') /\ sched_started'
         /\ state' = IF s[q] = "PROC_BLOCKED" THEN [s EXCEPT ![q] = "PROC_READY"] ELSE s
         /\ exit_code' = [ec EXCEPT ![q] = sig]
         /\ spurious' = (spurious \/ (s[q] = "PROC_BLOCKED" /\ Waits(q)))
         /\ early' = (early \/ (s[q] = "PROC_BLOCKED" /\ q \in HalfBuilt))
<1>1. /\ sched_started' = TRUE
      /\ exit_code' = [ec EXCEPT ![q] = sig]
      /\ spurious' = (spurious \/ (s[q] = "PROC_BLOCKED" /\ Waits(q)))
      /\ early' = (early \/ (s[q] = "PROC_BLOCKED" /\ q \in HalfBuilt))
      /\ state' = IF s[q] = "PROC_BLOCKED" THEN [s EXCEPT ![q] = "PROC_READY"] ELSE s
      /\ NewTask(IF s[q] = "PROC_BLOCKED" THEN Enqueue(run_queue, q) ELSE run_queue, state')
  BY DEF SignalWakes
<1>2. state' \in [Proc -> ProcState]
  BY <1>1 DEF ProcState
<1> DEFINE r == IF s[q] = "PROC_BLOCKED" THEN Enqueue(run_queue, q) ELSE run_queue
<1>3. r \in Seq(Proc) /\ Len(r) <= MaxProc
  BY EnqueueLemma DEF SchedTypeOK
<1>4. NewTask(r, state')
  BY <1>1
<1> HIDE DEF r
<1>5. SwitchOK(state')
  BY <1>2, <1>3, <1>4, NewTaskLemma
<1>6. sched_started' \in BOOLEAN
  BY <1>1
<1>7. SchedTypeOK'
  BY <1>2, <1>5, <1>6 DEF SwitchOK, SchedTypeOK
<1> QED
  BY <1>1, <1>5, <1>7

-----------------------------------------------------------------------------
(* The steps of mutex_lock and mutex_unlock keep the types.                *)
LEMMA LockTypes ==
  ASSUME MutexTypes, NEW p \in Proc, Lock(p)
  PROVE  MutexTypes'
<1> DEFINE m == ProcLock
<1>0. m \in Mutex /\ TypeOK /\ InsideInv /\ MutexTypeOK
  BY MutexAssumption DEF Mutex, MutexTypes, TypeOK
<1> HIDE DEF m
<1>1. CASE LockNested(p, m)
  <2>1. /\ depth' \in [Proc -> [Mutex -> 0..MaxDepth]]
        /\ \A q \in Proc, n \in Mutex :
             depth'[q][n] = IF q = p /\ n = m THEN depth[q][n] + 1 ELSE depth[q][n]
    BY <1>0, <1>1, DeeperLemma DEF LockNested, CallLock
  <2>2. count' \in [Mutex -> 0..(CountMod - 1)]
    <3>1. count[m] \in 0..127
      BY <1>0 DEF MutexTypeOK, CountMod
    <3>2. (count[m] + 1) % 128 \in 0..127
      BY <3>1
    <3>3. count' = [count EXCEPT ![m] = (count[m] + 1) % 128]
      BY <1>1 DEF LockNested, CountMod
    <3>4. count \in [Mutex -> 0..127]
      BY <1>0 DEF MutexTypeOK, CountMod
    <3>5. CountMod - 1 = 127
      BY DEF CountMod
    <3> DEFINE k == (count[m] + 1) % 128
    <3>6. count' = [count EXCEPT ![m] = k] /\ k \in 0..127
      BY <3>2, <3>3
    <3> HIDE DEF k
    <3>7. count' \in [Mutex -> 0..127]
      BY <3>4, <3>6
    <3> QED
      BY <3>5, <3>7
  <2>3. TypeOK'
    BY <1>0, <1>1, <2>1, <2>2 DEF LockNested, TypeOK, MutexTypeOK, SchedTypeOK,
         WaiterTypeOK, schedVars, waiterVars
  <2>4. InsideInv'
    BY <1>0, <1>1, <2>1 DEF LockNested, InsideInv, Waits, CallLock, Mutex
  <2> QED
    BY <2>3, <2>4 DEF MutexTypes
<1>2. CASE LockClaim(p, m)
  <2>1. /\ depth' \in [Proc -> [Mutex -> 0..MaxDepth]]
        /\ \A q \in Proc, n \in Mutex :
             depth'[q][n] = IF q = p /\ n = m THEN depth[q][n] + 1 ELSE depth[q][n]
    BY <1>0, <1>2, DeeperLemma DEF LockClaim, CallLock
  <2>2. MutexTypeOK'
    BY <1>0, <1>2, <2>1 DEF LockClaim, CountMod, MutexTypeOK
  <2>3. TypeOK'
    BY <1>0, <1>2, <2>2 DEF LockClaim, TypeOK, SchedTypeOK,
         WaiterTypeOK, schedVars, waiterVars
  <2>4. InsideInv'
    BY <1>0, <1>2, <2>1 DEF LockClaim, InsideInv, Waits, CallLock, Mutex
  <2> QED
    BY <2>3, <2>4 DEF MutexTypes
<1>3. CASE LockWait(p, m)
  <2>1. WaiterTypeOK'
    BY <1>0, <1>3 DEF LockWait, WaiterPush, WaiterTypeOK, TypeOK, Mutex
  <2>2. MutexTypeOK'
    BY <1>0, <1>3 DEF LockWait, MutexTypeOK
  <2>3. TypeOK'
    BY <1>0, <1>3, <2>1, <2>2 DEF LockWait, TypeOK, SchedTypeOK, schedVars
  <2>4. InsideInv'
    BY <1>0, <1>3 DEF LockWait, InsideInv, Waits, CallLock, MutexTypeOK
  <2> QED
    BY <2>3, <2>4 DEF MutexTypes
<1> QED
  BY <1>1, <1>2, <1>3 DEF Lock, m

(* mutex_unlock keeps the types.                                           *)
LEMMA UnlockTypes ==
  ASSUME MutexTypes, NEW p \in Proc, Unlock(p)
  PROVE  MutexTypes'
<1> DEFINE m == ProcLock
<1>0. m \in Mutex /\ TypeOK /\ InsideInv /\ MutexTypeOK /\ WaiterTypeOK
  BY MutexAssumption DEF Mutex, MutexTypes, TypeOK
<1> HIDE DEF m
<1>1. CASE UnlockNested(p, m)
  <2>1. /\ depth' \in [Proc -> [Mutex -> 0..MaxDepth]]
        /\ \A q \in Proc, n \in Mutex :
             depth'[q][n] = IF q = p /\ n = m THEN depth[q][n] - 1 ELSE depth[q][n]
    BY <1>0, <1>1, ShallowerLemma DEF UnlockNested, CallUnlock
  <2>2. count' \in [Mutex -> 0..(CountMod - 1)]
    BY <1>0, <1>1 DEF UnlockNested, CountMod, MutexTypeOK
  <2>3. TypeOK'
    BY <1>0, <1>1, <2>1, <2>2 DEF UnlockNested, TypeOK, MutexTypeOK, SchedTypeOK,
         WaiterTypeOK, schedVars, waiterVars
  <2>4. InsideInv'
    BY <1>0, <1>1, <2>1 DEF UnlockNested, InsideInv, Waits, CallUnlock, Mutex
  <2> QED
    BY <2>3, <2>4 DEF MutexTypes
<1>2. CASE UnlockHandOff(p, m)
  <2>1. /\ depth' \in [Proc -> [Mutex -> 0..MaxDepth]]
        /\ \A q \in Proc, n \in Mutex :
             depth'[q][n] = IF q = p /\ n = m THEN depth[q][n] - 1 ELSE depth[q][n]
    BY <1>0, <1>2, ShallowerLemma DEF UnlockHandOff, CallUnlock
  <2>2. tail[m] \in Proc
    BY <1>0, <1>2 DEF UnlockHandOff, WaiterTypeOK, Mutex
  <2>3. WaiterTypeOK'
    BY <1>0, <1>2, <2>2 DEF UnlockHandOff, WaiterPop, WaiterTypeOK, Mutex
  <2>4. MutexTypeOK'
    BY <1>0, <1>2, <2>1, <2>2 DEF UnlockHandOff, MutexTypeOK
  <2>5. TypeOK'
    BY <1>0, <1>2, <2>3, <2>4 DEF UnlockHandOff, TypeOK, SchedTypeOK, schedVars
  <2>6. InsideInv'
    BY <1>0, <1>2, <2>1, <2>2 DEF UnlockHandOff, InsideInv, Waits, CallUnlock, Mutex,
         MutexTypeOK
  <2> QED
    BY <2>5, <2>6 DEF MutexTypes
<1>3. CASE UnlockRelease(p, m)
  <2>1. /\ depth' \in [Proc -> [Mutex -> 0..MaxDepth]]
        /\ \A q \in Proc, n \in Mutex :
             depth'[q][n] = IF q = p /\ n = m THEN depth[q][n] - 1 ELSE depth[q][n]
    BY <1>0, <1>3, ShallowerLemma DEF UnlockRelease, CallUnlock
  <2>2. MutexTypeOK'
    BY <1>0, <1>3, <2>1 DEF UnlockRelease, MutexTypeOK
  <2>3. TypeOK'
    BY <1>0, <1>3, <2>2 DEF UnlockRelease, TypeOK, SchedTypeOK,
         WaiterTypeOK, schedVars, waiterVars
  <2>4. InsideInv'
    BY <1>0, <1>3, <2>1 DEF UnlockRelease, InsideInv, Waits, CallUnlock, Mutex
  <2> QED
    BY <2>3, <2>4 DEF MutexTypes
<1>4. CASE UnlockForeign(p)
  BY <1>0, <1>4 DEF UnlockForeign, MutexTypes, TypeOK, SchedTypeOK, WaiterTypeOK,
     MutexTypeOK, InsideInv, Waits, waiterVars, mutexVars
<1> QED
  BY <1>1, <1>2, <1>3, <1>4 DEF Unlock, m

(* The second halves of mutex_lock and mutex_unlock keep the types.        *)
LEMMA InMutexTypes ==
  ASSUME MutexTypes, NEW p \in Proc, LockBlock(p) \/ LockReturn(p) \/ UnlockWake(p)
  PROVE  MutexTypes'
<1>0. TypeOK /\ InsideInv /\ MutexTypeOK /\ WaiterTypeOK /\ SchedTypeOK
  BY DEF MutexTypes, TypeOK
<1>1. CASE LockBlock(p)
  <2>1. SchedTypeOK'
    BY <1>0, <1>1, BlockTypes DEF LockBlock
  <2>2. MutexTypeOK' /\ WaiterTypeOK'
    BY <1>0, <1>1 DEF LockBlock, MutexTypeOK, WaiterTypeOK, waiterVars
  <2>3. InsideInv'
    BY <1>0, <1>1 DEF LockBlock, InsideInv, Waits, MutexTypeOK
  <2> QED
    BY <2>1, <2>2, <2>3 DEF MutexTypes, TypeOK
<1>2. CASE LockReturn(p)
  <2>0. wants[p] \in Mutex /\ depth[p][wants[p]] < MaxDepth
    BY <1>0, <1>2 DEF LockReturn, InsideInv, Waits
  <2>1. /\ depth' \in [Proc -> [Mutex -> 0..MaxDepth]]
        /\ \A q \in Proc, n \in Mutex :
             depth'[q][n] = IF q = p /\ n = wants[p] THEN depth[q][n] + 1 ELSE depth[q][n]
    BY <1>0, <1>2, <2>0, DeeperLemma DEF LockReturn
  <2>2. MutexTypeOK'
    BY <1>0, <1>2, <2>1 DEF LockReturn, MutexTypeOK
  <2>3. SchedTypeOK' /\ WaiterTypeOK'
    BY <1>0, <1>2 DEF LockReturn, SchedTypeOK, schedVars, WaiterTypeOK, waiterVars
  <2>4. InsideInv'
    BY <1>0, <1>2, <2>1 DEF LockReturn, InsideInv, Waits, MutexTypeOK
  <2> QED
    BY <2>2, <2>3, <2>4 DEF MutexTypes, TypeOK
<1>3. CASE UnlockWake(p)
  <2>0. next[p] \in Proc
    BY <1>0, <1>3 DEF UnlockWake, InsideInv
  <2>1. SchedTypeOK'
    BY <1>0, <1>3, <2>0, UnblockTypes DEF UnlockWake
  <2>2. MutexTypeOK' /\ WaiterTypeOK'
    BY <1>0, <1>3 DEF UnlockWake, MutexTypeOK, WaiterTypeOK, waiterVars
  <2>3. InsideInv'
    BY <1>0, <1>3 DEF UnlockWake, InsideInv, Waits, MutexTypeOK
  <2> QED
    BY <2>1, <2>2, <2>3 DEF MutexTypes, TypeOK
<1> QED
  BY <1>1, <1>2, <1>3

-----------------------------------------------------------------------------
(* A process moves to another place of its system call.                    *)
LEMMA GoToLemma ==
  ASSUME at \in [Proc -> Labels], NEW p \in Proc, NEW l \in Labels, GoTo(p, l)
  PROVE  /\ at' \in [Proc -> Labels]
         /\ \A q \in Proc : at'[q] = IF q = p THEN l ELSE at[q]
BY DEF GoTo

(* A system call that takes proc_acces_lock and moves on keeps the types.  *)
LEMMA LockThenTypes ==
  ASSUME TypeInv, NEW p \in Proc, NEW from, NEW to \in Labels, LockThen(p, from, to)
  PROVE  TypeInv'
<1>1. MutexTypes /\ CallTypes
  BY TypeParts
<1>2. MutexTypes'
  BY <1>1, LockTypes DEF LockThen
<1>3. at' \in [Proc -> Labels]
  BY <1>1, GoToLemma DEF LockThen, CallTypes
<1>4. CallTypes'
  BY <1>1, <1>3 DEF LockThen, CallTypes, disturbed
<1> QED
  BY <1>2, <1>4 DEF TypeInv, LifeTypeOK, MutexTypes, CallTypes

(* A system call that gives proc_acces_lock up and moves on keeps the      *)
(* types.                                                                  *)
LEMMA UnlockThenTypes ==
  ASSUME TypeInv, NEW p \in Proc, NEW from, NEW to \in Labels, UnlockThen(p, from, to)
  PROVE  TypeInv'
<1>1. MutexTypes /\ CallTypes
  BY TypeParts
<1>2. MutexTypes'
  BY <1>1, UnlockTypes DEF UnlockThen
<1>3. at' \in [Proc -> Labels]
  BY <1>1, GoToLemma DEF UnlockThen, CallTypes
<1>4. CallTypes'
  BY <1>1, <1>3 DEF UnlockThen, CallTypes, disturbed
<1> QED
  BY <1>2, <1>4 DEF TypeInv, LifeTypeOK, MutexTypes, CallTypes

(* A step that leaves mutexes, wait queues and scheduler alone.            *)
LEMMA QuietTypes ==
  ASSUME MutexTypes, UNCHANGED vars
  PROVE  MutexTypes'
BY DEF MutexTypes, vars, schedVars, waiterVars, mutexVars, TypeOK, SchedTypeOK,
   WaiterTypeOK, MutexTypeOK, InsideInv, Waits

(* A step that leaves mutexes and wait queues alone, but schedules.        *)
LEMMA SwitchTypes ==
  ASSUME MutexTypes, SchedTypeOK', WaiterTypeOK', UNCHANGED mutexVars
  PROVE  MutexTypes'
BY DEF MutexTypes, mutexVars, TypeOK, MutexTypeOK, InsideInv, Waits

(* proc_mark_zombie.                                                       *)
LEMMA MarkZombieTypes ==
  ASSUME SchedTypeOK, WaiterTypeOK, CallTypes, NEW q \in Proc, MarkZombie(q)
  PROVE  /\ SchedTypeOK' /\ WaiterTypeOK'
         /\ ppid' \in [Proc -> Proc]
         /\ exit_code' \in [Proc -> {"none", "SIGCHLD", "other"}]
         /\ spurious' \in BOOLEAN /\ early' \in BOOLEAN
<1> DEFINE dead == [state EXCEPT ![q] = "PROC_ZOMBIE"]
           code == [exit_code EXCEPT ![q] = "other"]
<1>1. dead \in [Proc -> ProcState] /\ code \in [Proc -> {"none", "SIGCHLD", "other"}]
  BY DEF SchedTypeOK, CallTypes, ProcState
<1>2. WaiterTypeOK'
  <2>1. CASE waiting_on[q] # Nil
    <3>1. waiting_on[q] \in Waiters
      BY <2>1 DEF WaiterTypeOK
    <3>2. WaiterRemove(waiting_on[q], q)
      BY <2>1 DEF MarkZombie
    <3> QED
      BY <3>1, <3>2, RemoveTypes
  <2>2. CASE waiting_on[q] = Nil
    BY <2>2 DEF MarkZombie, waiterVars, WaiterTypeOK
  <2> QED
    BY <2>1, <2>2
<1>3. ppid' \in [Proc -> Proc]
  BY LifecycleAssumption DEF MarkZombie, CallTypes
<1>4. \/ SignalWakes(ppid'[q], dead, code, "SIGCHLD")
      \/ /\ state' = dead /\ exit_code' = code
         /\ sched_started' = FALSE
         /\ UNCHANGED <<current, run_queue, halted, spurious, early>>
  BY DEF MarkZombie
<1>5. CASE SignalWakes(ppid'[q], dead, code, "SIGCHLD")
  <2>1. PICK k \in Proc : k = ppid'[q]
    BY <1>3
  <2>2. SignalWakes(k, dead, code, "SIGCHLD")
    BY <1>5, <2>1
  <2> HIDE DEF dead, code
  <2>3. /\ SchedTypeOK'
        /\ exit_code' = [code EXCEPT ![k] = "SIGCHLD"]
        /\ spurious' = (spurious \/ (dead[k] = "PROC_BLOCKED" /\ Waits(k)))
        /\ early' = (early \/ (dead[k] = "PROC_BLOCKED" /\ k \in HalfBuilt))
    BY <1>1, <2>2, SignalTypes
  <2>4. exit_code' \in [Proc -> {"none", "SIGCHLD", "other"}]
    BY <1>1, <2>3
  <2>5. spurious' \in BOOLEAN /\ early' \in BOOLEAN
    BY <2>3, Zenon
  <2> QED
    BY <1>2, <1>3, <2>3, <2>4, <2>5
<1>6. CASE /\ state' = dead /\ exit_code' = code
           /\ sched_started' = FALSE
           /\ UNCHANGED <<current, run_queue, halted, spurious, early>>
  <2> HIDE DEF dead, code
  <2>1. spurious' \in BOOLEAN /\ early' \in BOOLEAN
    BY <1>6 DEF CallTypes
  <2>2. SchedTypeOK'
    BY <1>1, <1>6 DEF SchedTypeOK
  <2> QED
    BY <1>1, <1>2, <1>3, <1>6, <2>1, <2>2
<1> HIDE DEF dead, code
<1> QED
  BY <1>4, <1>5, <1>6

(* sys_exit keeps the types.                                               *)
LEMMA ExitTypes ==
  ASSUME TypeInv, NEW p \in Proc, Exit(p)
  PROVE  TypeInv'
<1>1. MutexTypes /\ CallTypes
  BY TypeParts
<1>2. SchedTypeOK /\ WaiterTypeOK
  BY <1>1 DEF MutexTypes, TypeOK
<1>3. MarkZombie(p)
  BY DEF Exit, KillProcess
<1>4. /\ SchedTypeOK' /\ WaiterTypeOK'
      /\ ppid' \in [Proc -> Proc]
      /\ exit_code' \in [Proc -> {"none", "SIGCHLD", "other"}]
      /\ spurious' \in BOOLEAN /\ early' \in BOOLEAN
  BY <1>1, <1>2, <1>3, MarkZombieTypes
<1>5. MutexTypes'
  BY <1>1, <1>4, SwitchTypes DEF Exit
<1>6. CallTypes'
  BY <1>1, <1>4 DEF Exit, CallTypes
<1> QED
  BY <1>5, <1>6 DEF TypeInv, LifeTypeOK, MutexTypes, CallTypes

(* A signal, whichever it is and whomever it meets, keeps the types.       *)
LEMMA KillActTypes ==
  ASSUME TypeInv, NEW p \in Proc, KillAct(p)
  PROVE  TypeInv'
<1>1. MutexTypes /\ CallTypes
  BY TypeParts
<1>2. SchedTypeOK /\ WaiterTypeOK
  BY <1>1 DEF MutexTypes, TypeOK
<1> DEFINE q == arg[p].pid
           sig == arg[p].sig
<1>3. UNCHANGED <<mutexVars, listed, arg, children, spawned>>
  BY DEF KillAct
<1>4. at' \in [Proc -> Labels]
  <2>1. \E l \in Labels : at' = [at EXCEPT ![p] = "kill_unlock", ![q] = l] \/ GoTo(p, "kill_unlock")
    <3>1. "user" \in Labels /\ "kill_unlock" \in Labels
      BY DEF Labels
    <3> QED
      BY <1>1, <3>1 DEF KillAct, CallTypes, GoTo
  <2> QED
    BY <1>1, <2>1 DEF CallTypes, Labels, GoTo
<1> DEFINE Goal == /\ SchedTypeOK' /\ WaiterTypeOK'
                   /\ ppid' \in [Proc -> Proc]
                   /\ exit_code' \in [Proc -> {"none", "SIGCHLD", "other"}]
                   /\ spurious' \in BOOLEAN /\ early' \in BOOLEAN /\ killed' \in BOOLEAN
<1>5. SUFFICES Goal
  <2>1. ASSUME Goal PROVE MutexTypes'
    BY <1>1, <1>3, <2>1, SwitchTypes
  <2>2. ASSUME Goal PROVE CallTypes'
    BY <1>1, <1>3, <1>4, <2>2 DEF CallTypes
  <2> HIDE DEF Goal
  <2> QED
    BY <2>1, <2>2 DEF TypeInv, LifeTypeOK, MutexTypes, CallTypes
<1>6. listed \subseteq Proc
  BY <1>1 DEF CallTypes
<1>7. exit_code \in [Proc -> {"none", "SIGCHLD", "other"}] /\ ppid \in [Proc -> Proc]
      /\ spurious \in BOOLEAN /\ early \in BOOLEAN /\ killed \in BOOLEAN
  BY <1>1 DEF CallTypes
<1>8. CASE q \notin listed /\ UNCHANGED <<schedVars, waiterVars, ppid, exit_code, disturbed>>
  BY <1>2, <1>7, <1>8 DEF schedVars, waiterVars, disturbed, SchedTypeOK, WaiterTypeOK
<1>9. CASE /\ q \in listed
           /\ SignalWakes(q, state, exit_code, "other")
           /\ UNCHANGED <<waiterVars, ppid, killed>>
  <2>1. state \in [Proc -> ProcState] /\ q \in Proc
    BY <1>2, <1>6, <1>9 DEF SchedTypeOK
  <2> HIDE DEF q
  <2>2. /\ SchedTypeOK'
        /\ exit_code' = [exit_code EXCEPT ![q] = "other"]
        /\ spurious' = (spurious \/ (state[q] = "PROC_BLOCKED" /\ Waits(q)))
        /\ early' = (early \/ (state[q] = "PROC_BLOCKED" /\ q \in HalfBuilt))
    BY <1>2, <1>9, <2>1, SignalTypes
  <2>3. WaiterTypeOK' /\ ppid' \in [Proc -> Proc]
    BY <1>2, <1>7, <1>9 DEF waiterVars, WaiterTypeOK
  <2>4. spurious' \in BOOLEAN /\ early' \in BOOLEAN
    BY <2>2, Zenon
  <2>5. exit_code' \in [Proc -> {"none", "SIGCHLD", "other"}]
    BY <1>7, <2>2
  <2> QED
    BY <1>7, <1>9, <2>2, <2>3, <2>4, <2>5
<1>10. CASE /\ q \in listed
            /\ exit_code' = [exit_code EXCEPT ![q] = "other"]
            /\ Block(q) \/ Schedule
            /\ UNCHANGED <<waiterVars, ppid, disturbed>>
  <2>1. q \in Proc
    BY <1>6, <1>10
  <2> HIDE DEF q
  <2>2. SchedTypeOK'
    BY <1>2, <1>10, <2>1, BlockTypes, ScheduleTypes
  <2>3. /\ WaiterTypeOK' /\ ppid' \in [Proc -> Proc]
        /\ spurious' \in BOOLEAN /\ early' \in BOOLEAN /\ killed' \in BOOLEAN
    BY <1>2, <1>7, <1>10 DEF waiterVars, WaiterTypeOK, disturbed
  <2>5. exit_code' \in [Proc -> {"none", "SIGCHLD", "other"}]
    BY <1>7, <1>10
  <2> QED
    BY <2>2, <2>3, <2>5
<1>11. CASE q \in listed /\ KillProcess(q) /\ killed' = (killed \/ Engaged(p, q))
  <2>1. q \in Proc
    BY <1>6, <1>11
  <2>2. MarkZombie(q)
    BY <1>11 DEF KillProcess
  <2>3. killed' \in BOOLEAN
    BY <1>11, Zenon
  <2> HIDE DEF q
  <2> QED
    BY <1>1, <1>2, <2>1, <2>2, <2>3, MarkZombieTypes
<1> HIDE DEF Goal
<1> QED
  BY <1>8, <1>9, <1>10, <1>11 DEF KillAct

(* The steps that only move a process within its system call.              *)
LEMMA CallStepTypes ==
  ASSUME TypeInv, NEW p \in Proc,
         \/ \E q \in Proc, sig \in Sigs : KillCall(p, q, sig)
         \/ KillCheck(p) \/ WaitCall(p) \/ WaitTest(p)
         \/ SpawnCall(p) \/ SpawnAlloc(p) \/ SpawnParent(p)
  PROVE  TypeInv'
<1>1. MutexTypes /\ CallTypes
  BY TypeParts
<1>2. MutexTypes'
  BY <1>1, QuietTypes DEF KillCall, KillCheck, WaitCall, WaitTest, SpawnCall, SpawnAlloc,
     SpawnParent
<1>3. at' \in [Proc -> Labels]
  BY <1>1 DEF CallTypes, GoTo, Labels, KillCall, KillCheck, WaitCall, WaitTest, SpawnCall,
     SpawnAlloc, SpawnParent
<1>4. arg' \in [Proc -> [pid : Proc \cup {Nil}, sig : Sigs \cup {Nil}]]
  BY <1>1 DEF CallTypes, KillCall, KillCheck, WaitCall, WaitTest, SpawnCall, SpawnAlloc,
     SpawnParent
<1>5. spawned' \in 0..MaxSpawn
  BY <1>1, LifecycleAssumption DEF CallTypes, KillCall, KillCheck, WaitCall, WaitTest,
     SpawnCall, SpawnAlloc, SpawnParent
<1>6. listed' \in SUBSET Proc /\ ppid' \in [Proc -> Proc]
  BY <1>1 DEF CallTypes, KillCall, KillCheck, WaitCall, WaitTest, SpawnCall, SpawnAlloc,
     SpawnParent
<1>7. UNCHANGED <<exit_code, children, disturbed>>
  BY DEF KillCall, KillCheck, WaitCall, WaitTest, SpawnCall, SpawnAlloc, SpawnParent
<1>8. CallTypes'
  BY <1>1, <1>3, <1>4, <1>5, <1>6, <1>7 DEF CallTypes, disturbed
<1> QED
  BY <1>2, <1>8 DEF TypeInv, LifeTypeOK, MutexTypes, CallTypes

(* A scan of the process list, and the reaping it may do, keep the types.  *)
LEMMA ScanTypes ==
  ASSUME TypeInv, NEW p \in Proc, NEW from, NEW found \in Labels, NEW none \in Labels,
         Scan(p, from, found, none)
  PROVE  TypeInv'
<1>1. MutexTypes /\ CallTypes
  BY TypeParts
<1>2. MutexTypes'
  BY <1>1, QuietTypes DEF Scan
<1>3. at' \in [Proc -> Labels]
  BY <1>1 DEF CallTypes, GoTo, Scan
<1>4. listed' \in SUBSET Proc /\ early' \in BOOLEAN
  BY <1>1 DEF CallTypes, Scan, Reap
<1>5. children' \in [Proc -> BOOLEAN]
  <2>1. (\E c \in listed : ppid[c] = p) \in BOOLEAN
    BY Zenon
  <2> DEFINE b == \E c \in listed : ppid[c] = p
  <2> HIDE DEF b
  <2>2. b \in BOOLEAN
    BY <2>1 DEF b
  <2>3. children' = [children EXCEPT ![p] = b]
    BY DEF Scan, b
  <2> QED
    BY <1>1, <2>2, <2>3 DEF CallTypes
<1>6. CallTypes'
  BY <1>1, <1>3, <1>4, <1>5 DEF CallTypes, Scan
<1> QED
  BY <1>2, <1>6 DEF TypeInv, LifeTypeOK, MutexTypes, CallTypes

(* Clearing exit_code keeps the types.                                     *)
LEMMA ClearTypes ==
  ASSUME TypeInv, NEW p \in Proc, NEW from, NEW to \in Labels, Clear(p, from, to)
  PROVE  TypeInv'
<1>1. MutexTypes /\ CallTypes
  BY TypeParts
<1>2. MutexTypes'
  BY <1>1, QuietTypes DEF Clear
<1>3. at' \in [Proc -> Labels]
  BY <1>1 DEF CallTypes, GoTo, Clear
<1>4. CallTypes'
  BY <1>1, <1>3 DEF CallTypes, Clear, disturbed
<1> QED
  BY <1>2, <1>4 DEF TypeInv, LifeTypeOK, MutexTypes, CallTypes

(* The sleep of sys_waitpid keeps the types.                               *)
LEMMA WaitBlockTypes ==
  ASSUME TypeInv, NEW p \in Proc, WaitBlock(p)
  PROVE  TypeInv'
<1>1. MutexTypes /\ CallTypes /\ SchedTypeOK /\ WaiterTypeOK
  BY TypeParts DEF MutexTypes, TypeOK
<1>2. SchedTypeOK'
  BY <1>1, BlockTypes DEF WaitBlock
<1>3. WaiterTypeOK'
  BY <1>1 DEF WaitBlock, waiterVars, WaiterTypeOK
<1>4. MutexTypes'
  BY <1>1, <1>2, <1>3, SwitchTypes DEF WaitBlock
<1>5. at' \in [Proc -> Labels]
  BY <1>1 DEF CallTypes, GoTo, WaitBlock, Labels
<1>6. CallTypes'
  BY <1>1, <1>5 DEF CallTypes, WaitBlock, disturbed
<1> QED
  BY <1>4, <1>6 DEF TypeInv, LifeTypeOK, MutexTypes, CallTypes

(* proc_create keeps the types, in whatever record it builds.              *)
LEMMA SpawnCreateTypes ==
  ASSUME TypeInv, NEW p \in Proc, SpawnCreate(p)
  PROVE  TypeInv'
<1>1. MutexTypes /\ CallTypes /\ SchedTypeOK /\ WaiterTypeOK /\ MutexTypeOK /\ InsideInv
  BY TypeParts DEF MutexTypes, TypeOK
<1>2. PICK c : c = arg[p].pid
  OBVIOUS
<1>3. /\ at' = [at EXCEPT ![p] = "spawn_parent", ![c] = "user"]
      /\ state' = [state EXCEPT ![c] = "PROC_BLOCKED"]
      /\ pc' = [pc EXCEPT ![c] = "run"]
      /\ wants' = [wants EXCEPT ![c] = Nil]
      /\ next' = [next EXCEPT ![c] = Nil]
      /\ depth' = [depth EXCEPT ![c] = [m \in Mutex |-> 0]]
      /\ UNCHANGED <<current, run_queue, sched_started, halted, waiterVars, lock, owner,
                 count, listed, ppid, exit_code, arg, children, spawned, disturbed>>
  BY <1>2 DEF SpawnCreate
<1>4. SchedTypeOK'
  BY <1>1, <1>3 DEF SchedTypeOK, ProcState
<1>5. WaiterTypeOK'
  BY <1>1, <1>3 DEF waiterVars, WaiterTypeOK
<1>6. MutexTypeOK'
  <2>1. [m \in Mutex |-> 0] \in [Mutex -> 0..MaxDepth]
    BY MutexAssumption DEF CountMod
  <2> DEFINE z == [m \in Mutex |-> 0]
  <2>2. depth' = [depth EXCEPT ![c] = z] /\ z \in [Mutex -> 0..MaxDepth]
    BY <1>3, <2>1
  <2> HIDE DEF z
  <2>3. depth' \in [Proc -> [Mutex -> 0..MaxDepth]]
    BY <1>1, <2>2 DEF MutexTypeOK
  <2> QED
    BY <1>1, <1>3, <2>3 DEF MutexTypeOK
<1>7. InsideInv'
  <2>1. \A q \in Proc : q # c => /\ pc'[q] = pc[q] /\ wants'[q] = wants[q]
                                 /\ depth'[q] = depth[q] /\ next'[q] = next[q]
    BY <1>1, <1>3 DEF MutexTypeOK
  <2>2. \A q \in Proc : q = c => pc'[q] = "run"
    BY <1>1, <1>3 DEF MutexTypeOK
  <2> QED
    BY <1>1, <2>1, <2>2 DEF InsideInv, Waits
<1>8. MutexTypes'
  BY <1>4, <1>5, <1>6, <1>7 DEF MutexTypes, TypeOK
<1>9. at' \in [Proc -> Labels]
  BY <1>1, <1>3 DEF CallTypes, Labels
<1>10. CallTypes'
  BY <1>1, <1>3, <1>9 DEF CallTypes, disturbed
<1> QED
  BY <1>8, <1>10 DEF TypeInv, LifeTypeOK, MutexTypes, CallTypes

(* The same second halves as steps of the lifecycle.                       *)
LEMMA InMutexStepTypes ==
  ASSUME TypeInv, NEW p \in Proc, InMutex(p)
  PROVE  TypeInv'
<1>1. MutexTypes /\ CallTypes
  BY TypeParts
<1>2. MutexTypes'
  BY <1>1, InMutexTypes DEF InMutex
<1>3. CallTypes'
  BY <1>1 DEF CallTypes, InMutex, lifeVars, disturbed
<1> QED
  BY <1>2, <1>3 DEF TypeInv, LifeTypeOK, MutexTypes, CallTypes

(* The kernel's init loop keeps the types.                                 *)
LEMMA IdleLoopTypes ==
  ASSUME TypeInv, IdleLoop
  PROVE  TypeInv'
<1>1. MutexTypes /\ CallTypes /\ SchedTypeOK /\ WaiterTypeOK
  BY TypeParts DEF MutexTypes, TypeOK
<1>2. halted' \in BOOLEAN
  <2>1. halted' = halted \/ \E c \in ZombieChildren(Idle) : halted' = (c = InitProc)
    BY DEF IdleLoop
  <2> QED
    BY <1>1, <2>1, Zenon DEF SchedTypeOK
<1>3. SchedTypeOK' /\ WaiterTypeOK'
  BY <1>1, <1>2 DEF IdleLoop, SchedTypeOK, WaiterTypeOK, waiterVars
<1>4. MutexTypes'
  BY <1>1, <1>3, SwitchTypes DEF IdleLoop
<1>5. listed' \in SUBSET Proc /\ early' \in BOOLEAN
  BY <1>1 DEF IdleLoop, CallTypes, Reap
<1>6. CallTypes'
  BY <1>1, <1>5 DEF CallTypes, IdleLoop
<1> QED
  BY <1>4, <1>6 DEF TypeInv, LifeTypeOK, MutexTypes, CallTypes

(* A SysTick keeps the types.                                              *)
LEMMA TickTypes ==
  ASSUME TypeInv, LifeTick
  PROVE  TypeInv'
<1>1. MutexTypes /\ CallTypes /\ SchedTypeOK /\ WaiterTypeOK
  BY TypeParts DEF MutexTypes, TypeOK
<1>2. SchedTypeOK'
  BY <1>1, PreemptTypes DEF LifeTick, Tick
<1>3. WaiterTypeOK'
  BY <1>1 DEF LifeTick, Tick, waiterVars, WaiterTypeOK
<1>4. MutexTypes'
  BY <1>1, <1>2, <1>3, SwitchTypes DEF LifeTick, Tick
<1>5. CallTypes'
  BY <1>1 DEF CallTypes, LifeTick, lifeVars, disturbed
<1> QED
  BY <1>4, <1>5 DEF TypeInv, LifeTypeOK, MutexTypes, CallTypes

(* The start has the types.                                                *)
LEMMA InitTypes == LifeInit => TypeInv
<1> SUFFICES ASSUME LifeInit PROVE TypeInv
  OBVIOUS
<1> USE DEF LifeInit
<1>1. SchedTypeOK
  <2>1. state \in [Proc -> ProcState]
    BY DEF ProcState
  <2>2. run_queue \in Seq(Proc) /\ Len(run_queue) <= MaxProc
    BY SchedulerAssumption
  <2>3. sched_started \in BOOLEAN /\ halted \in BOOLEAN
    BY Zenon
  <2> QED
    BY <2>1, <2>2, <2>3, LifecycleAssumption DEF SchedTypeOK
<1>2. WaiterTypeOK
  BY DEF WaiterInit, WaiterTypeOK
<1>3. MutexTypeOK
  <2>1. lock \in [Mutex -> 0..1] /\ owner \in [Mutex -> Proc \cup {Nil}]
    BY DEF MutexInit
  <2>2. count \in [Mutex -> 0..(CountMod - 1)]
    BY DEF MutexInit, CountMod
  <2>3. pc \in [Proc -> {"new", "run", "block", "asleep", "wake"}]
    OBVIOUS
  <2>4. wants \in [Proc -> Mutex \cup {Nil}] /\ next \in [Proc -> Proc \cup {Nil}]
    BY DEF MutexInit
  <2>5. depth \in [Proc -> [Mutex -> 0..MaxDepth]]
    BY MutexAssumption DEF MutexInit, CountMod
  <2> QED
    BY <2>1, <2>2, <2>3, <2>4, <2>5 DEF MutexTypeOK
<1>4. InsideInv
  BY DEF InsideInv, Waits
<1>5. CallTypes
  <2>1. listed \in SUBSET Proc /\ ppid \in [Proc -> Proc]
    BY SchedulerAssumption, LifecycleAssumption
  <2>2. at \in [Proc -> Labels]
    BY DEF Labels
  <2>3. children \in [Proc -> BOOLEAN] /\ spurious \in BOOLEAN /\ early \in BOOLEAN
        /\ killed \in BOOLEAN
    BY Zenon
  <2>4. spawned \in 0..MaxSpawn
    BY LifecycleAssumption
  <2>5. arg \in [Proc -> [pid : Proc \cup {Nil}, sig : Sigs \cup {Nil}]]
    OBVIOUS
  <2>6. exit_code \in [Proc -> {"none", "SIGCHLD", "other"}]
    OBVIOUS
  <2> QED
    BY <2>1, <2>2, <2>3, <2>4, <2>5, <2>6 DEF CallTypes
<1> QED
  BY <1>1, <1>2, <1>3, <1>4, <1>5 DEF TypeInv, LifeTypeOK, CallTypes, TypeOK

(* Every step of the lifecycle keeps the types.                            *)
LEMMA TypeNext == TypeInv /\ [LifeNext]_allVars => TypeInv'
<1> SUFFICES ASSUME TypeInv, [LifeNext]_allVars
             PROVE  TypeInv'
  OBVIOUS
<1>0. {"kill_check", "kill_relock", "kill_act", "user", "wait_scan", "wait_found",
       "wait_none", "wait_clear", "wait_test", "wait_relock", "wait_rescan",
       "wait_unlock", "spawn_alloc", "spawn_create"} \subseteq Labels
  BY DEF Labels
<1>1. ASSUME NEW p \in Proc, Exit(p) \/ InMutex(p)
      PROVE  TypeInv'
  BY <1>1, ExitTypes, InMutexStepTypes
<1>2. ASSUME NEW p \in Proc, Kill(p)
      PROVE  TypeInv'
  BY <1>0, <1>2, LockThenTypes, UnlockThenTypes, CallStepTypes, KillActTypes DEF Kill
<1>3. ASSUME NEW p \in Proc, Wait(p)
      PROVE  TypeInv'
  BY <1>0, <1>3, LockThenTypes, UnlockThenTypes, CallStepTypes, ScanTypes, ClearTypes,
     WaitBlockTypes DEF Wait
<1>4. ASSUME NEW p \in Proc, Spawn(p)
      PROVE  TypeInv'
  BY <1>0, <1>4, LockThenTypes, UnlockThenTypes, CallStepTypes, SpawnCreateTypes DEF Spawn
<1>5. CASE IdleLoop
  BY <1>5, IdleLoopTypes
<1>6. CASE LifeTick
  BY <1>6, TickTypes
<1>7. CASE UNCHANGED allVars
  <2>1. MutexTypes /\ CallTypes
    BY TypeParts
  <2>2. MutexTypes'
    BY <1>7, <2>1, QuietTypes DEF allVars
  <2>3. CallTypes'
    BY <1>7, <2>1 DEF allVars, lifeVars, disturbed, CallTypes
  <2> QED
    BY <2>2, <2>3 DEF TypeInv, LifeTypeOK, MutexTypes, CallTypes
<1> QED
  BY <1>1, <1>2, <1>3, <1>4, <1>5, <1>6, <1>7 DEF LifeNext

(* Whatever signals, exits and recycled records do, every variable keeps   *)
(* its type: the run queue stays within PROC_MAX_PROC entries, and no      *)
(* recursion counter of a mutex leaves its 7 bits.                         *)
THEOREM LifecycleTypesCorrect == LifeSpec => []LifeTypeOK
<1>1. LifeInit => TypeInv
  BY InitTypes
<1>2. TypeInv /\ [LifeNext]_allVars => TypeInv'
  BY TypeNext
<1>3. TypeInv => LifeTypeOK
  BY DEF TypeInv
<1> QED
  BY <1>1, <1>2, <1>3, PTL DEF LifeSpec

-----------------------------------------------------------------------------
(* The system calls: an invariant of the lifecycle that lasts until a      *)
(* signal disturbs a waiter of the mutex or a record under construction.   *)

\* the places of a system call between mutex_lock and mutex_unlock
Holding == {"kill_check", "kill_checked", "kill_act", "kill_unlock", "wait_scan",
            "wait_found", "wait_none", "wait_rescan", "wait_unlock", "spawn_alloc",
            "spawn_unlock"}

\* the places of sys_spawn at which a record is half built
Building == {"spawn_unlock", "spawn_create", "spawn_parent"}

\* whoever is in such a place holds proc_acces_lock or waits for it, nobody
\* else does, and no other mutex is used
CallInv ==
  \A p \in Proc :
    /\ at[p] \in Holding => IF Waits(p) THEN wants[p] = ProcLock
                            ELSE pc[p] = "run" /\ depth[p][ProcLock] = 1
    /\ at[p] \notin Holding => ~Waits(p) /\ depth[p][ProcLock] = 0
    /\ \A m \in Mutex : m # ProcLock => depth[p][m] = 0

\* the dead are in no system call, and only the dead are off the list
DeadInv ==
  /\ \A p \in Proc :
       /\ state[p] = "PROC_ZOMBIE" => at[p] = "user" /\ pc[p] = "run"
       /\ p \notin listed => state[p] = "PROC_ZOMBIE"
  /\ at[Idle] = "user" /\ state[Idle] # "PROC_ZOMBIE"

\* a record under construction is on the list, does not run, and has one builder
BuildInv ==
  \A p \in Proc : at[p] \in Building =>
    /\ arg[p].pid \in listed /\ arg[p].pid # Idle /\ arg[p].pid # InitProc
    /\ at[p] # "spawn_parent" => state[arg[p].pid] = "PROC_ZOMBIE"
    /\ state[arg[p].pid] # "PROC_READY"
    /\ at[arg[p].pid] = "user"
    /\ \A q \in Proc : at[q] \in Building /\ arg[q].pid = arg[p].pid => q = p

\* process 1 is there until the kernel halts, and every process that is built
\* has a parent that is built and lives, or is process 1
ParentInv ==
  /\ InitProc \in listed \/ halted
  /\ ppid[InitProc] = Idle
  /\ InitProc \in listed =>
       \A q \in listed : q \notin HalfBuilt /\ q # Idle =>
         /\ ppid[q] \in listed /\ ppid[q] \notin HalfBuilt
         /\ ppid[q] = InitProc \/ state[ppid[q]] # "PROC_ZOMBIE"

Live == LockInv /\ sched_started /\ CallInv /\ DeadInv /\ BuildInv /\ ParentInv

\* nobody kills Idle or process 1, and nobody is left over from the boot
BaseInv ==
  \A p \in Proc :
    /\ arg[p].sig = "SIGKILL" => arg[p].pid \notin {Idle, InitProc}
    /\ pc[p] # "new"

(* Who builds a record.                                                    *)
LEMMA BuilderLemma ==
  /\ \A c : c \in HalfBuilt <=> \E p \in Proc : at[p] \in Building /\ arg[p].pid = c
  /\ \A c : c \in HalfBuilt' <=> \E p \in Proc : at'[p] \in Building /\ arg'[p].pid = c
BY DEF HalfBuilt, Building

(* A record under construction is neither running nor one of the kernel's. *)
LEMMA HalfBuiltLemma ==
  ASSUME BuildInv, NEW c \in HalfBuilt
  PROVE  c \in listed /\ c # Idle /\ c # InitProc /\ state[c] # "PROC_READY"
         /\ at[c] = "user"
BY BuilderLemma DEF BuildInv

(* A step that neither touches mutexes and wait queues nor wakes a waiter  *)
(* keeps the invariant of the mutex.                                       *)
LEMMA AsideStep ==
  ASSUME LockInv, sched_started, sched_started', SchedTypeOK', CurrentReady', MutexTypeOK',
         UNCHANGED <<waiterVars, lock, owner, count, pc, next, depth>>,
         \A p \in Proc : Waits(p) => wants'[p] = wants[p],
         \A p \in Proc : Waits(p) /\ state'[p] = "PROC_READY" => state[p] = "PROC_READY"
  PROVE  LockInv'
<1>1. TypeOK'
  BY DEF LockInv, TypeOK, WaiterTypeOK, waiterVars
<1>2. BootInv'
  BY DEF BootInv
<1>3. HolderOwns'
  BY DEF LockInv, HolderOwns
<1>4. OwnerHolds'
  BY DEF LockInv, OwnerHolds, Waits
<1>5. WaiterInv'
  BY DEF LockInv, WaiterInv, Waits, Granted, waiterVars
<1>6. ListEnds' /\ ListLinks' /\ ListLast'
  BY DEF LockInv, ListEnds, ListLinks, ListLast, waiterVars
<1>7. WakeInv'
  BY DEF LockInv, WakeInv, Waits, waiterVars
<1> QED
  BY <1>1, <1>2, <1>3, <1>4, <1>5, <1>6, <1>7 DEF LockInv

(* The system call a process p is in, while p takes a step of its own: it  *)
(* may move on, but nobody starts or ends building.                        *)
Onward(p) ==
  /\ \A q \in Proc : q # p => at'[q] = at[q] /\ arg'[q] = arg[q]
  /\ at[p] \in Building <=> at'[p] \in Building
  /\ at[p] \in Building => arg'[p] = arg[p]
  /\ at'[p] = "spawn_parent" <=> at[p] = "spawn_parent"
  /\ p = Idle => at'[p] = "user"

(* A step that moves p on, and stops or wakes processes, but kills none,   *)
(* and leaves the process list alone.                                      *)
LEMMA StageLemma ==
  ASSUME Live, SchedTypeOK, NEW p \in Proc, Running(p), Onward(p), UNCHANGED <<listed, ppid>>,
         \A q \in Proc : state'[q] = "PROC_ZOMBIE" <=> state[q] = "PROC_ZOMBIE",
         \A q \in HalfBuilt : state'[q] # "PROC_READY",
         \A q \in Proc : state[q] = "PROC_ZOMBIE" => pc'[q] = pc[q],
         listed \subseteq Proc
  PROVE  DeadInv' /\ BuildInv' /\ ParentInv'
<1>1. state[p] = "PROC_READY" /\ ~halted
  BY DEF Live, LockInv, CurrentReady, Running
<1>2. \A c \in HalfBuilt : c # p
  BY <1>1, HalfBuiltLemma DEF Live
<1>3. \A q \in Proc : at'[q] \in Building => at[q] \in Building /\ arg'[q] = arg[q]
  BY DEF Onward
<1>4. DeadInv'
  BY <1>1, SchedulerAssumption DEF Live, DeadInv, Onward
<1>5. BuildInv'
  <2> SUFFICES ASSUME NEW q \in Proc, at'[q] \in Building
               PROVE  /\ arg'[q].pid \in listed' /\ arg'[q].pid # Idle
                      /\ arg'[q].pid # InitProc
                      /\ at'[q] # "spawn_parent" => state'[arg'[q].pid] = "PROC_ZOMBIE"
                      /\ state'[arg'[q].pid] # "PROC_READY"
                      /\ at'[arg'[q].pid] = "user"
                      /\ \A r \in Proc : at'[r] \in Building /\ arg'[r].pid = arg'[q].pid
                           => r = q
    BY DEF BuildInv
  <2>1. at[q] \in Building /\ arg'[q] = arg[q]
    BY <1>3
  <2>2. PICK c : c = arg[q].pid
    OBVIOUS
  <2>3. c \in HalfBuilt
    BY <2>1, <2>2, BuilderLemma
  <2>4. c \in listed /\ c # Idle /\ c # InitProc /\ at[c] = "user" /\ c # p /\ c \in Proc
    BY <1>2, <2>3, HalfBuiltLemma DEF Live
  <2>5. state'[c] # "PROC_READY" /\ at'[c] = "user"
    BY <2>3, <2>4 DEF Onward
  <2>6. at'[q] # "spawn_parent" => at[q] # "spawn_parent"
    BY DEF Onward
  <2>7. at'[q] # "spawn_parent" => state'[c] = "PROC_ZOMBIE"
    BY <2>1, <2>2, <2>4, <2>6 DEF Live, BuildInv
  <2>8. \A r \in Proc : at'[r] \in Building /\ arg'[r].pid = c => r = q
    BY <1>3, <2>1, <2>2 DEF Live, BuildInv
  <2> QED
    BY <2>1, <2>2, <2>4, <2>5, <2>7, <2>8
<1>6. \A c : c \in HalfBuilt' <=> c \in HalfBuilt
  <2>1. \A q \in Proc : at[q] \in Building => at'[q] \in Building /\ arg'[q] = arg[q]
    BY DEF Onward
  <2> QED
    BY <1>3, <2>1, BuilderLemma
<1>7. ParentInv'
  BY <1>1, <1>6 DEF Live, ParentInv
<1> QED
  BY <1>4, <1>5, <1>7

(* A step that leaves pc, wants and depth alone, and takes nobody into or  *)
(* out of a section that holds proc_acces_lock.                            *)
LEMMA CallFrame ==
  ASSUME CallInv, UNCHANGED <<pc, wants, depth>>,
         \A q \in Proc : at'[q] \in Holding <=> at[q] \in Holding
  PROVE  CallInv'
BY DEF CallInv, Waits

\* where mutex_lock(&proc_acces_lock) is called, and where it returns to
LockFrom == {"kill_lock", "kill_relock", "wait_lock", "wait_relock", "spawn_lock"}
LockTo == {"kill_check", "kill_act", "wait_scan", "wait_rescan", "spawn_alloc"}

\* the same for mutex_unlock(&proc_acces_lock)
UnlockFrom == {"kill_checked", "kill_unlock", "wait_found", "wait_none", "wait_unlock",
               "spawn_unlock"}
UnlockTo == {"kill_relock", "user", "wait_clear", "wait_test", "spawn_create"}

(* mutex_lock(&proc_acces_lock) in a system call: the caller does not own  *)
(* it yet, so it claims it or waits.                                       *)
LEMMA LockThenLive ==
  ASSUME TypeInv, Live, NEW p \in Proc, NEW from \in LockFrom, NEW to \in LockTo,
         LockThen(p, from, to)
  PROVE  Live' /\ sched_started' /\ UNCHANGED <<listed, state>>
<1>1. MutexTypes /\ CallTypes /\ SchedTypeOK /\ MutexTypeOK
  BY TypeParts DEF MutexTypes, TypeOK
<1>2. /\ At(p, from) /\ Lock(p) /\ GoTo(p, to)
      /\ UNCHANGED <<listed, ppid, exit_code, arg, children, spawned, disturbed>>
  BY DEF LockThen
<1>3. /\ from \notin Holding /\ to \in Holding
      /\ from \notin Building /\ to \notin Building /\ from # "user"
      /\ to # "user" /\ to \in Labels
  BY DEF LockFrom, LockTo, Holding, Building, Labels
<1>4. /\ Running(p) /\ pc[p] = "run" /\ at[p] = from
      /\ \A q \in Proc : at'[q] = IF q = p THEN to ELSE at[q]
  BY <1>1, <1>2, <1>3, GoToLemma DEF At, CallTypes
<1>5. depth[p][ProcLock] = 0 /\ ~Waits(p)
  BY <1>3, <1>4 DEF Live, CallInv
<1>6. ProcLock \in Mutex
  BY MutexAssumption DEF Mutex
<1>7. ~LockNested(p, ProcLock)
  BY <1>5, <1>6 DEF LockNested, Live, LockInv, OwnerHolds
<1>8. LockClaim(p, ProcLock) \/ LockWait(p, ProcLock)
  BY <1>2, <1>7 DEF Lock
<1>9. LockInv'
  BY <1>6, <1>8, LockClaimStep, LockWaitStep DEF Live
<1>10. /\ UNCHANGED schedVars
       /\ \A q \in Proc : q # p => /\ pc'[q] = pc[q] /\ wants'[q] = wants[q]
                                   /\ depth'[q] = depth[q]
       /\ IF pc'[p] = "run" THEN depth'[p][ProcLock] = 1
                            ELSE pc'[p] = "block" /\ wants'[p] = ProcLock
       /\ \A m \in Mutex : m # ProcLock => depth'[p][m] = depth[p][m]
  BY <1>1, <1>4, <1>5, <1>6, <1>8 DEF LockClaim, LockWait, MutexTypeOK, Deeper
<1>11. CallInv'
  BY <1>3, <1>4, <1>10 DEF Live, CallInv, Waits
<1>12. Onward(p)
  BY <1>2, <1>3, <1>4 DEF Onward, Live, DeadInv, Building
<1>13. state[p] # "PROC_ZOMBIE" /\ UNCHANGED <<state, sched_started>>
  BY <1>4, <1>10 DEF Live, LockInv, CurrentReady, Running, schedVars
<1>14. \A q \in HalfBuilt : state'[q] # "PROC_READY"
  BY <1>13, HalfBuiltLemma DEF Live
<1>15. listed \subseteq Proc
  BY <1>1 DEF CallTypes
<1>16. DeadInv' /\ BuildInv' /\ ParentInv'
  BY <1>1, <1>2, <1>4, <1>10, <1>12, <1>13, <1>14, <1>15, StageLemma
<1> QED
  BY <1>2, <1>9, <1>11, <1>13, <1>16 DEF Live

(* mutex_unlock(&proc_acces_lock) in a system call: the caller owns it,    *)
(* and gives it up.                                                        *)
LEMMA UnlockThenLive ==
  ASSUME TypeInv, Live, NEW p \in Proc, NEW from \in UnlockFrom, NEW to \in UnlockTo,
         UnlockThen(p, from, to), from = "spawn_unlock" <=> to = "spawn_create"
  PROVE  Live' /\ sched_started' /\ UNCHANGED <<listed, state>>
<1>1. MutexTypes /\ CallTypes /\ SchedTypeOK /\ MutexTypeOK
  BY TypeParts DEF MutexTypes, TypeOK
<1>2. /\ At(p, from) /\ Unlock(p) /\ GoTo(p, to)
      /\ UNCHANGED <<listed, ppid, exit_code, arg, children, spawned, disturbed>>
  BY DEF UnlockThen
<1>3. /\ from \in Holding /\ to \notin Holding
      /\ from \in Building <=> to \in Building
      /\ from # "spawn_parent" /\ to # "spawn_parent" /\ from # "user"
      /\ to \in Labels
  BY DEF UnlockFrom, UnlockTo, Holding, Building, Labels
<1>4. /\ Running(p) /\ pc[p] = "run" /\ at[p] = from
      /\ \A q \in Proc : at'[q] = IF q = p THEN to ELSE at[q]
  BY <1>1, <1>2, <1>3, GoToLemma DEF At, CallTypes
<1>5. depth[p][ProcLock] = 1
  BY <1>3, <1>4 DEF Live, CallInv, Waits
<1>6. ProcLock \in Mutex
  BY MutexAssumption DEF Mutex
<1>7. owner[ProcLock] = p /\ count[ProcLock] = 1
  BY <1>5, <1>6 DEF Live, LockInv, HolderOwns
<1>8. UnlockHandOff(p, ProcLock) \/ UnlockRelease(p, ProcLock)
  BY <1>2, <1>7 DEF Unlock, UnlockForeign, UnlockNested
<1>9. LockInv'
  BY <1>6, <1>8, UnlockHandOffStep, UnlockReleaseStep DEF Live
<1>10. /\ UNCHANGED schedVars
       /\ \A q \in Proc : q # p => /\ pc'[q] = pc[q] /\ wants'[q] = wants[q]
                                   /\ depth'[q] = depth[q]
       /\ pc'[p] \in {"run", "wake"} /\ depth'[p][ProcLock] = 0
       /\ \A m \in Mutex : m # ProcLock => depth'[p][m] = depth[p][m]
  BY <1>1, <1>4, <1>5, <1>6, <1>8 DEF UnlockHandOff, UnlockRelease, MutexTypeOK, Shallower
<1>11. CallInv'
  BY <1>3, <1>4, <1>10 DEF Live, CallInv, Waits
<1>12. Onward(p)
  BY <1>2, <1>3, <1>4 DEF Onward, Live, DeadInv
<1>13. state[p] # "PROC_ZOMBIE" /\ UNCHANGED <<state, sched_started>>
  BY <1>4, <1>10 DEF Live, LockInv, CurrentReady, Running, schedVars
<1>14. \A q \in HalfBuilt : state'[q] # "PROC_READY"
  BY <1>13, HalfBuiltLemma DEF Live
<1>15. listed \subseteq Proc
  BY <1>1 DEF CallTypes
<1>16. DeadInv' /\ BuildInv' /\ ParentInv'
  BY <1>1, <1>2, <1>4, <1>10, <1>12, <1>13, <1>14, <1>15, StageLemma
<1> QED
  BY <1>2, <1>9, <1>11, <1>13, <1>16 DEF Live

(* The second halves of mutex_lock and mutex_unlock.                       *)
LEMMA InMutexLive ==
  ASSUME TypeInv, Live, NEW p \in Proc, InMutex(p)
  PROVE  /\ Live' /\ UNCHANGED listed
         /\ \A q \in Proc : state'[q] = "PROC_ZOMBIE" <=> state[q] = "PROC_ZOMBIE"
<1>1. MutexTypes /\ CallTypes /\ SchedTypeOK /\ MutexTypeOK
  BY TypeParts DEF MutexTypes, TypeOK
<1>2. UNCHANGED <<listed, ppid, at, arg>>
  BY DEF InMutex, lifeVars
<1>3. LockInv'
  BY LockBlockStep, LockReturnStep, UnlockWakeStep DEF InMutex, Live
<1>4. Running(p) /\ state[p] = "PROC_READY"
  BY DEF InMutex, LockBlock, LockReturn, UnlockWake, Running, Live, LockInv, CurrentReady
<1>5. Onward(p)
  BY <1>2 DEF Onward, Live, DeadInv
<1> DEFINE Moved ==
             /\ sched_started' /\ CallInv'
             /\ \A q \in Proc : state'[q] = "PROC_ZOMBIE" <=> state[q] = "PROC_ZOMBIE"
             /\ \A q \in Proc : state'[q] = "PROC_READY" =>
                  state[q] = "PROC_READY" \/ at[q] # "user"
<1>7. \A q \in Proc : q # p => /\ pc'[q] = pc[q] /\ wants'[q] = wants[q]
                               /\ depth'[q] = depth[q]
  BY <1>1 DEF InMutex, LockBlock, LockReturn, UnlockWake, MutexTypeOK, Deeper
<1>8. ASSUME LockBlock(p) PROVE Moved
  <2>1. /\ state' = [state EXCEPT ![p] = "PROC_BLOCKED"] /\ sched_started'
        /\ pc'[p] = "asleep" /\ pc[p] = "block"
        /\ UNCHANGED <<wants, depth>>
    BY <1>1, <1>8 DEF LockBlock, Block, MutexTypeOK
  <2>2. CallInv'
    BY <1>2, <1>7, <2>1 DEF Live, CallInv, Waits
  <2>3. /\ \A q \in Proc : state'[q] = "PROC_ZOMBIE" <=> state[q] = "PROC_ZOMBIE"
        /\ \A q \in Proc : state'[q] = "PROC_READY" => state[q] = "PROC_READY"
    BY <1>1, <1>4, <2>1 DEF SchedTypeOK
  <2> QED
    BY <2>1, <2>2, <2>3
<1>9. ASSUME LockReturn(p) PROVE Moved
  <2>1. /\ UNCHANGED <<state, sched_started>>
        /\ pc'[p] = "run" /\ Waits(p)
        /\ Deeper(p, wants[p])
    BY <1>1, <1>9 DEF LockReturn, Waits, MutexTypeOK, schedVars
  <2>2. wants[p] = ProcLock /\ depth[p][ProcLock] = 0 /\ at[p] \in Holding
    BY <2>1 DEF Live, CallInv, LockInv, WaiterInv
  <2>3. /\ depth'[p][ProcLock] = 1
        /\ \A m \in Mutex : m # ProcLock => depth'[p][m] = depth[p][m]
    BY <1>1, <2>1, <2>2, MutexAssumption DEF Deeper, MutexTypeOK, Mutex
  <2>4. CallInv'
    BY <1>2, <1>7, <2>1, <2>2, <2>3 DEF Live, CallInv, Waits
  <2> QED
    BY <2>1, <2>4 DEF Live
<1>10. ASSUME UnlockWake(p) PROVE Moved
  <2>1. /\ state' = [state EXCEPT ![next[p]] = "PROC_READY"] /\ sched_started'
        /\ pc'[p] = "run" /\ pc[p] = "wake"
        /\ UNCHANGED <<wants, depth>>
    BY <1>1, <1>10 DEF UnlockWake, Unblock, MutexTypeOK
  <2>2. CallInv'
    BY <1>2, <1>7, <2>1 DEF Live, CallInv, Waits
  <2>3. next[p] \in Proc /\ Waits(next[p])
    BY <1>1, <2>1 DEF Live, LockInv, WakeInv, MutexTypeOK
  <2>4. at[next[p]] # "user"
    BY <2>3 DEF Live, CallInv, Holding
  <2>5. \A q \in Proc : state'[q] = "PROC_ZOMBIE" <=> state[q] = "PROC_ZOMBIE"
    BY <1>1, <2>1, <2>3, <2>4 DEF SchedTypeOK, Live, DeadInv
  <2>6. \A q \in Proc : state'[q] = "PROC_READY" => state[q] = "PROC_READY" \/ at[q] # "user"
    BY <1>1, <2>1, <2>4 DEF SchedTypeOK
  <2> QED
    BY <2>1, <2>2, <2>5, <2>6
<1>11. Moved
  <2> HIDE DEF Moved
  <2> QED
    BY <1>8, <1>9, <1>10 DEF InMutex
<1>12. \A q \in HalfBuilt : q \in listed /\ state'[q] # "PROC_READY"
  <2>1. listed \subseteq Proc
    BY <1>1 DEF CallTypes
  <2> QED
    BY <1>11, <2>1, HalfBuiltLemma DEF Live
<1>13. \A q \in Proc : state[q] = "PROC_ZOMBIE" => pc'[q] = pc[q]
  BY <1>4, <1>7
<1>14. listed \subseteq Proc
  BY <1>1 DEF CallTypes
<1>15. DeadInv' /\ BuildInv' /\ ParentInv'
  BY <1>1, <1>2, <1>4, <1>5, <1>11, <1>12, <1>13, <1>14, StageLemma
<1> QED
  BY <1>2, <1>3, <1>11, <1>15 DEF Live

-----------------------------------------------------------------------------
(* A process p takes a step that leaves mutexes and wait queues alone: it  *)
(* may move on in its call and switch to another process, but it kills     *)
(* nobody, and wakes no waiter of the mutex and no half-built process.     *)
LEMMA SwitchLive ==
  ASSUME TypeInv, TypeInv', Live, NEW p \in Proc, Running(p), Onward(p),
         UNCHANGED <<listed, ppid, waiterVars, mutexVars>>, sched_started', CurrentReady',
         \A q \in Proc : state'[q] = "PROC_ZOMBIE" <=> state[q] = "PROC_ZOMBIE",
         \A q \in HalfBuilt : state'[q] # "PROC_READY",
         \A q \in Proc : Waits(q) /\ state'[q] = "PROC_READY" => state[q] = "PROC_READY",
         at'[p] \in Holding <=> at[p] \in Holding
  PROVE  Live'
<1>1. SchedTypeOK /\ SchedTypeOK' /\ MutexTypeOK' /\ listed \subseteq Proc
  BY DEF TypeInv, LifeTypeOK, TypeOK
<1>2. UNCHANGED <<lock, owner, count, pc, wants, next, depth>>
  BY DEF mutexVars
<1>3. LockInv'
  BY <1>1, <1>2, AsideStep DEF Live
<1>4. \A q \in Proc : at'[q] \in Holding <=> at[q] \in Holding
  BY DEF Onward
<1>5. CallInv'
  BY <1>2, <1>4, CallFrame DEF Live
<1>6. DeadInv' /\ BuildInv' /\ ParentInv'
  BY <1>1, <1>2, StageLemma
<1> QED
  BY <1>3, <1>5, <1>6 DEF Live

(* A step that only moves p on.                                            *)
LEMMA MoveLive ==
  ASSUME TypeInv, TypeInv', Live, NEW p \in Proc, Running(p), Onward(p),
         UNCHANGED <<listed, ppid, vars>>, at'[p] \in Holding <=> at[p] \in Holding
  PROVE  Live'
<1>1. UNCHANGED <<current, state, sched_started, halted, waiterVars, mutexVars>>
  BY DEF vars, schedVars
<1>2. sched_started' /\ CurrentReady'
  BY <1>1 DEF Live, LockInv, CurrentReady
<1>3. \A q \in HalfBuilt : state'[q] # "PROC_READY"
  BY <1>1, HalfBuiltLemma DEF Live
<1> QED
  BY <1>1, <1>2, <1>3, SwitchLive

(* The steps of kill, waitpid and spawn that only move on.                 *)
LEMMA CallStepLive ==
  ASSUME TypeInv, TypeInv', Live, NEW p \in Proc,
         \/ \E q \in Proc, sig \in Sigs : KillCall(p, q, sig)
         \/ KillCheck(p) \/ WaitCall(p) \/ WaitTest(p) \/ SpawnCall(p)
  PROVE  Live' /\ UNCHANGED <<listed, state>>
<1>1. /\ Running(p) /\ pc[p] = "run"
      /\ UNCHANGED <<vars, listed, ppid>>
      /\ \A q \in Proc : q # p => arg'[q] = arg[q]
  BY DEF KillCall, KillCheck, WaitCall, WaitTest, SpawnCall, At, TypeInv, LifeTypeOK
<1>2. p # Idle
  BY DEF KillCall, KillCheck, WaitCall, WaitTest, SpawnCall, At, Live, DeadInv
<1>3. /\ \A q \in Proc : q # p => at'[q] = at[q]
      /\ \/ at[p] = "user" /\ at'[p] \in {"kill_lock", "wait_lock", "spawn_lock"}
         \/ at[p] = "kill_check" /\ at'[p] \in {"kill_checked", "kill_unlock"}
         \/ at[p] = "wait_test" /\ at'[p] \in {"user", "wait_relock", "wait_block"}
  BY DEF KillCall, KillCheck, WaitCall, WaitTest, SpawnCall, At, GoTo, TypeInv, LifeTypeOK
<1>4. at'[p] \in Holding <=> at[p] \in Holding
  BY <1>3 DEF Holding
<1>5. at'[p] \notin Building /\ at[p] \notin Building
  BY <1>3 DEF Building
<1>6. Onward(p)
  BY <1>1, <1>2, <1>3, <1>5 DEF Onward, Building
<1> QED
  BY <1>1, <1>4, <1>6, MoveLive DEF vars, schedVars

(* current_process->exit_code = 0.                                         *)
LEMMA ClearLive ==
  ASSUME TypeInv, TypeInv', Live, NEW p \in Proc,
         Clear(p, "wait_clear", "user") \/ Clear(p, "wait_woken", "wait_relock")
  PROVE  Live' /\ UNCHANGED <<listed, state>>
<1>1. /\ Running(p) /\ pc[p] = "run"
      /\ UNCHANGED <<vars, listed, ppid, arg>>
  BY DEF Clear, At
<1>2. p # Idle
  BY DEF Clear, At, Live, DeadInv
<1>3. /\ \A q \in Proc : q # p => at'[q] = at[q]
      /\ at[p] \in {"wait_clear", "wait_woken"} /\ at'[p] \in {"user", "wait_relock"}
  BY DEF Clear, At, GoTo, TypeInv, LifeTypeOK
<1>4. at'[p] \in Holding <=> at[p] \in Holding
  BY <1>3 DEF Holding
<1>5. at'[p] \notin Building /\ at[p] \notin Building
  BY <1>3 DEF Building
<1>6. Onward(p)
  BY <1>1, <1>2, <1>3, <1>5 DEF Onward, Building
<1> QED
  BY <1>1, <1>4, <1>6, MoveLive DEF vars, schedVars

(* sys_waitpid goes to sleep.                                              *)
LEMMA WaitBlockLive ==
  ASSUME TypeInv, TypeInv', Live, NEW p \in Proc, WaitBlock(p)
  PROVE  /\ Live' /\ UNCHANGED listed
         /\ \A q \in Proc : state'[q] = "PROC_ZOMBIE" <=> state[q] = "PROC_ZOMBIE"
<1>1. /\ Running(p) /\ pc[p] = "run" /\ at[p] = "wait_block"
      /\ UNCHANGED <<waiterVars, mutexVars, listed, ppid, arg>>
      /\ state' = [state EXCEPT ![p] = "PROC_BLOCKED"]
  BY DEF WaitBlock, At, Block
<1>2. p # Idle
  BY <1>1 DEF Live, DeadInv
<1>3. (\A q \in Proc : q # p => at'[q] = at[q]) /\ at'[p] = "wait_woken"
  BY DEF WaitBlock, GoTo, TypeInv, LifeTypeOK
<1>4. at'[p] \in Holding <=> at[p] \in Holding
  BY <1>1, <1>3 DEF Holding
<1>5. Onward(p)
  BY <1>1, <1>2, <1>3 DEF Onward, Building
<1>6. SchedTypeOK
  BY DEF TypeInv, LifeTypeOK, TypeOK
<1>7. sched_started' /\ CurrentReady'
  BY <1>6, BlockTypes DEF WaitBlock, SwitchOK, CurrentReady
<1>8. state[p] = "PROC_READY"
  BY <1>1 DEF Live, LockInv, CurrentReady, Running
<1>9. /\ \A q \in Proc : state'[q] = "PROC_ZOMBIE" <=> state[q] = "PROC_ZOMBIE"
      /\ \A q \in Proc : state'[q] = "PROC_READY" => state[q] = "PROC_READY"
  BY <1>1, <1>6, <1>8 DEF SchedTypeOK
<1>10. \A q \in HalfBuilt : q \in Proc /\ state'[q] # "PROC_READY"
  BY <1>9, HalfBuiltLemma DEF Live, TypeInv, LifeTypeOK
<1> QED
  BY <1>1, <1>4, <1>5, <1>7, <1>9, <1>10, SwitchLive

(* A SysTick.                                                              *)
LEMMA TickLive ==
  ASSUME TypeInv, TypeInv', Live, LifeTick
  PROVE  Live' /\ UNCHANGED <<listed, state>>
<1>1. /\ Running(current) /\ UNCHANGED <<state, sched_started, waiterVars, mutexVars>>
      /\ UNCHANGED <<listed, ppid, at, arg>>
  BY DEF LifeTick, Tick, Preempt, lifeVars, Running
<1>2. PICK p \in Proc : p = current
  BY DEF TypeInv, LifeTypeOK, TypeOK, SchedTypeOK
<1>3. Running(p) /\ Onward(p)
  BY <1>1, <1>2 DEF Onward, Live, DeadInv
<1>4. SchedTypeOK
  BY DEF TypeInv, LifeTypeOK, TypeOK
<1>5. sched_started' /\ CurrentReady'
  BY <1>1, <1>4, PreemptTypes DEF LifeTick, Tick, SwitchOK, CurrentReady, Live
<1>6. \A q \in HalfBuilt : state'[q] # "PROC_READY"
  BY <1>1, HalfBuiltLemma DEF Live
<1> QED
  BY <1>1, <1>3, <1>5, <1>6, SwitchLive

(* proc_mark_zombie(d), in a step of p: whoever dies holds nothing, waits  *)
(* for nothing and builds nothing; its children get process 1 as their     *)
(* parent, and its own parent, which is on the list, a SIGCHLD, which      *)
(* starts the scheduler again.                                             *)
LEMMA DeathLive ==
  ASSUME TypeInv, TypeInv', Live, Undisturbed',
         NEW p \in Proc, Running(p), NEW d \in Proc, MarkZombie(d),
         UNCHANGED <<mutexVars, listed, arg>>,
         d # Idle, d \in listed, d \notin HalfBuilt, pc[d] = "run",
         at[d] \notin Holding, at[d] \notin Building, at'[d] = "user",
         \A q \in Proc : q # d => /\ at'[q] \in Holding <=> at[q] \in Holding
                                  /\ at'[q] \in Building <=> at[q] \in Building
                                  /\ at'[q] = "spawn_parent" <=> at[q] = "spawn_parent"
                                  /\ at[q] = "user" => at'[q] = "user"
  PROVE  /\ Live'
         /\ \A q \in Proc : state[q] = "PROC_ZOMBIE" => state'[q] = "PROC_ZOMBIE"
<1>1. "user" \notin Holding /\ "user" \notin Building /\ "spawn_parent" \in Building
  BY DEF Holding, Building
<1>2. /\ SchedTypeOK /\ SchedTypeOK' /\ MutexTypeOK' /\ CallTypes
      /\ state \in [Proc -> ProcState] /\ listed \subseteq Proc /\ ppid \in [Proc -> Proc]
  BY DEF TypeInv, LifeTypeOK, TypeOK, SchedTypeOK, CallTypes
<1>3. ~halted /\ InitProc \in listed
  BY DEF Live, Running, ParentInv
<1>4. /\ \A q \in Proc : at'[q] \in Holding <=> at[q] \in Holding
      /\ \A q \in Proc : at'[q] \in Building <=> at[q] \in Building
      /\ \A q \in Proc : at'[q] = "spawn_parent" <=> at[q] = "spawn_parent"
      /\ \A q \in Proc : at[q] = "user" => at'[q] = "user"
  BY <1>1
<1>5. waiting_on[d] = Nil
  BY DEF Live, LockInv, WaiterInv, Waits
<1> DEFINE dead == [state EXCEPT ![d] = "PROC_ZOMBIE"]
           code == [exit_code EXCEPT ![d] = "other"]
<1>6. UNCHANGED waiterVars
  BY <1>5 DEF MarkZombie
<1>7. \A x \in Proc : ppid'[x] = IF x \in listed /\ ppid[x] = d THEN InitProc ELSE ppid[x]
  BY DEF MarkZombie
<1>8. PICK r \in Proc : r = ppid'[d]
  BY <1>2, <1>7, LifecycleAssumption
<1>9. r \in listed /\ r \notin HalfBuilt /\ r # d
  <2>1. InitProc \notin HalfBuilt
    BY HalfBuiltLemma DEF Live
  <2>2. CASE ppid[d] = d
    <3>1. r = InitProc
      BY <1>7, <1>8, <2>2
    <3>2. d # InitProc
      BY <2>2 DEF Live, ParentInv
    <3> QED
      BY <1>3, <2>1, <3>1, <3>2
  <2>3. CASE ppid[d] # d
    <3>1. r = ppid[d]
      BY <1>7, <1>8, <2>3
    <3> QED
      BY <1>3, <2>3, <3>1 DEF Live, ParentInv
  <2> QED
    BY <2>2, <2>3
<1>10. SignalWakes(r, dead, code, "SIGCHLD")
  BY <1>8, <1>9 DEF MarkZombie
<1>11. dead \in [Proc -> ProcState]
  BY <1>2 DEF ProcState
<1>12. \A q \in Proc : dead[q] = IF q = d THEN "PROC_ZOMBIE" ELSE state[q]
  BY <1>2
<1> HIDE DEF dead, code
<1>13. /\ SwitchOK(state') /\ sched_started'
       /\ state' = IF dead[r] = "PROC_BLOCKED" THEN [dead EXCEPT ![r] = "PROC_READY"] ELSE dead
       /\ spurious' = (spurious \/ (dead[r] = "PROC_BLOCKED" /\ Waits(r)))
  BY <1>2, <1>10, <1>11, SignalTypes
<1>14. /\ state'[d] = "PROC_ZOMBIE"
       /\ \A q \in Proc : q # d => \/ state'[q] = state[q]
                                   \/ q = r /\ state[q] = "PROC_BLOCKED" /\ ~Waits(q)
                                        /\ state'[q] = "PROC_READY"
  BY <1>9, <1>11, <1>12, <1>13 DEF Undisturbed
<1>15. LockInv'
  <2>1. CurrentReady'
    BY <1>13 DEF SwitchOK, CurrentReady
  <2>2. UNCHANGED <<lock, owner, count, pc, wants, next, depth>>
    BY DEF mutexVars
  <2>3. \A q \in Proc : Waits(q) /\ state'[q] = "PROC_READY" => state[q] = "PROC_READY"
    BY <1>14
  <2> QED
    BY <1>2, <1>6, <1>13, <2>1, <2>2, <2>3, AsideStep DEF Live
<1>16. CallInv'
  BY <1>4, CallFrame DEF Live, mutexVars
<1>17. DeadInv'
  BY <1>4, <1>14, SchedulerAssumption DEF Live, DeadInv, mutexVars
<1>18. \A q \in HalfBuilt : q \in Proc /\ state'[q] = state[q]
  BY <1>2, <1>9, <1>14, HalfBuiltLemma DEF Live
<1>19. BuildInv'
  <2>1. \A q \in Proc : at[q] \in Building => state'[arg[q].pid] = state[arg[q].pid]
    BY <1>18, BuilderLemma
  <2> QED
    BY <1>2, <1>4, <2>1 DEF Live, BuildInv
<1>20. ParentInv'
  <2>1. \A c : c \in HalfBuilt' <=> c \in HalfBuilt
    BY <1>4, BuilderLemma
  <2>2. ppid'[InitProc] = Idle
    BY <1>7, LifecycleAssumption DEF Live, ParentInv
  <2>3. ASSUME NEW q \in listed, q \notin HalfBuilt, q # Idle
        PROVE  /\ ppid'[q] \in listed /\ ppid'[q] \notin HalfBuilt
               /\ ppid'[q] = InitProc \/ state'[ppid'[q]] # "PROC_ZOMBIE"
    <3>1. InitProc \notin HalfBuilt
      BY HalfBuiltLemma DEF Live
    <3>2. CASE ppid[q] = d
      BY <1>2, <1>3, <1>7, <3>1, <3>2
    <3>3. CASE ppid[q] # d
      <4>1. ppid'[q] = ppid[q] /\ ppid[q] \in Proc
        BY <1>2, <1>7, <3>3
      <4>2. /\ ppid[q] \in listed /\ ppid[q] \notin HalfBuilt
            /\ ppid[q] = InitProc \/ state[ppid[q]] # "PROC_ZOMBIE"
        BY <1>3, <2>3 DEF Live, ParentInv
      <4> QED
        BY <1>14, <3>3, <4>1, <4>2
    <3> QED
      BY <3>2, <3>3
  <2> QED
    BY <1>3, <2>1, <2>2, <2>3 DEF ParentInv
<1> QED
  BY <1>13, <1>14, <1>15, <1>16, <1>17, <1>19, <1>20 DEF Live

(* sys_exit: the dying process is in no other system call.                 *)
LEMMA ExitLive ==
  ASSUME TypeInv, TypeInv', Live, NEW p \in Proc, Exit(p), Undisturbed'
  PROVE  /\ Live' /\ UNCHANGED listed
         /\ \A q \in Proc : state[q] = "PROC_ZOMBIE" => state'[q] = "PROC_ZOMBIE"
<1>1. /\ Running(p) /\ pc[p] = "run" /\ at[p] = "user" /\ p # Idle
      /\ UNCHANGED <<mutexVars, listed, at, arg>>
      /\ MarkZombie(p)
  BY DEF Exit, At, KillProcess
<1>2. state[p] = "PROC_READY"
  BY <1>1 DEF Live, LockInv, CurrentReady, Running
<1>3. p \in listed /\ p \notin HalfBuilt
  BY <1>2, HalfBuiltLemma DEF Live, DeadInv
<1>4. ~Waits(p) /\ at[p] \notin Holding /\ at[p] \notin Building
  BY <1>1 DEF Holding, Building, Waits
<1> QED
  BY <1>1, <1>3, <1>4, DeathLive

(* A signal is sent.  It stops a process, or wakes one that waits for no   *)
(* mutex and is not half built (or it disturbs), or kills one that has     *)
(* nothing to leave behind (or it disturbs): not the killer, who owns the  *)
(* mutex, hence not a process that was handed it either, nor the one that  *)
(* has handed it on and is about to wake that process.                     *)
LEMMA KillActLive ==
  ASSUME BaseInv, TypeInv, TypeInv', Live, NEW p \in Proc, KillAct(p), Undisturbed'
  PROVE  Live' /\ UNCHANGED listed
<1> DEFINE q == arg[p].pid
           sig == arg[p].sig
           Dies == q \in listed /\ sig = "SIGKILL" /\ state[q] # "PROC_ZOMBIE"
<1>1. /\ Running(p) /\ pc[p] = "run" /\ at[p] = "kill_act"
      /\ UNCHANGED <<mutexVars, listed, arg>>
  BY DEF KillAct, At
<1>2. p # Idle
  BY <1>1 DEF Live, DeadInv
<1>3. at' = [at EXCEPT ![p] = "kill_unlock",
                      ![q] = IF Dies /\ ~Engaged(p, q) /\ ~Waits(q) THEN "user" ELSE @]
  BY DEF KillAct
<1>4. at \in [Proc -> Labels] /\ "kill_unlock" \in Holding /\ at[p] \in Holding
  BY <1>1 DEF Holding, TypeInv, LifeTypeOK
<1>5. ASSUME ~Dies
      PROVE  Onward(p) /\ (at'[p] \in Holding <=> at[p] \in Holding)
  <2>1. (\A r \in Proc : r # p => at'[r] = at[r]) /\ at'[p] = "kill_unlock"
    BY <1>3, <1>4, <1>5
  <2> QED
    BY <1>1, <1>2, <1>4, <2>1 DEF Onward, Building
<1>6. SchedTypeOK /\ state \in [Proc -> ProcState] /\ listed \subseteq Proc
  BY DEF TypeInv, LifeTypeOK, TypeOK, SchedTypeOK
<1>7. CASE Dies
  <2>1. q \in listed /\ q \in Proc /\ state[q] # "PROC_ZOMBIE" /\ q # Idle
    BY <1>6, <1>7 DEF BaseInv
  <2>2. MarkZombie(q) /\ ~Engaged(p, q)
    <3>1. sig \notin {"SIGCONT", "SIGSTOP"}
      BY <1>7
    <3> QED
      BY <1>7, <3>1 DEF KillAct, KillProcess, Undisturbed
  <2> HIDE DEF q
  <2>10. waiting_on[q] = Nil /\ q \notin HalfBuilt /\ at[q] \notin Building /\ q # p
    BY <2>2 DEF Engaged, Building
  <2>4. owner[ProcLock] = p /\ lock[ProcLock] = 1 /\ ~Waits(p)
    BY <1>1, <1>4, MutexAssumption DEF Live, CallInv, LockInv, HolderOwns, Mutex, Waits
  <2>3. ~Waits(q) /\ q \notin HalfBuilt /\ at[q] \notin Building /\ q # p
    <3>1. SUFFICES ASSUME Waits(q) PROVE FALSE
      BY <2>10
    <3>2. wants[q] = ProcLock
      BY <2>1, <3>1 DEF Live, CallInv
    <3>3. owner[ProcLock] = q
      BY <2>1, <2>10, <3>1, <3>2, MutexAssumption, WaiterAssumption
         DEF Live, LockInv, WaiterInv, Granted, Mutex
    <3> QED
      BY <2>4, <2>10, <3>3
  <2>5. at[q] \notin Holding
    BY <2>1, <2>3, <2>4, MutexAssumption DEF Live, CallInv, LockInv, HolderOwns, Mutex
  <2>6. pc[q] # "wake"
    <3>1. SUFFICES ASSUME pc[q] = "wake" PROVE FALSE
      OBVIOUS
    <3>2. PICK w \in Proc : w = next[q]
      BY <2>1, <3>1 DEF TypeInv, InsideInv
    <3>3. Waits(w) /\ waiting_on[w] = Nil
      BY <2>1, <3>1, <3>2 DEF Live, LockInv, WakeInv
    <3>4. wants[w] = ProcLock
      BY <3>3 DEF Live, CallInv
    <3>5. owner[ProcLock] = w
      BY <3>3, <3>4, WaiterAssumption DEF Live, LockInv, WaiterInv, Granted, Mutex
    <3> QED
      BY <2>4, <3>3, <3>5
  <2>7. pc[q] = "run"
    BY <2>1, <2>3, <2>6 DEF BaseInv, Waits, TypeInv, LifeTypeOK, TypeOK, MutexTypeOK
  <2>8. \A r \in Proc : at'[r] = IF r = q THEN "user" ELSE IF r = p THEN "kill_unlock" ELSE at[r]
    BY <1>3, <1>4, <1>7, <2>1, <2>2, <2>3
  <2>9. \A r \in Proc : r # q => /\ at'[r] \in Holding <=> at[r] \in Holding
                                 /\ at'[r] \in Building <=> at[r] \in Building
                                 /\ at'[r] = "spawn_parent" <=> at[r] = "spawn_parent"
                                 /\ at[r] = "user" => at'[r] = "user"
    BY <1>1, <1>4, <2>8 DEF Building
  <2> QED
    BY <1>1, <2>1, <2>2, <2>3, <2>5, <2>7, <2>8, <2>9, DeathLive
<1>8. sched_started /\ CurrentReady
  BY DEF Live, LockInv
<1> DEFINE Gentle ==
             /\ UNCHANGED <<waiterVars, ppid>>
             /\ sched_started' /\ CurrentReady'
             /\ \A r \in Proc : state'[r] = "PROC_ZOMBIE" <=> state[r] = "PROC_ZOMBIE"
             /\ \A r \in Proc : state'[r] = "PROC_READY" =>
                  state[r] = "PROC_READY" \/ (~Waits(r) /\ r \notin HalfBuilt)
<1>9. ASSUME q \notin listed, UNCHANGED <<schedVars, waiterVars, ppid, exit_code, disturbed>>
      PROVE  Gentle
  <2>1. Gentle
    BY <1>8, <1>9 DEF schedVars, CurrentReady
  <2> QED
    BY <2>1
<1>10. ASSUME q \in listed, SignalWakes(q, state, exit_code, "other"),
              UNCHANGED <<waiterVars, ppid>>
       PROVE  Gentle
  <2>1. q \in Proc
    BY <1>6, <1>10
  <2> HIDE DEF q
  <2>2. /\ SwitchOK(state') /\ sched_started'
        /\ state' = IF state[q] = "PROC_BLOCKED" THEN [state EXCEPT ![q] = "PROC_READY"]
                                                 ELSE state
        /\ spurious' = (spurious \/ (state[q] = "PROC_BLOCKED" /\ Waits(q)))
        /\ early' = (early \/ (state[q] = "PROC_BLOCKED" /\ q \in HalfBuilt))
    BY <1>6, <1>10, <2>1, SignalTypes
  <2>3. state[q] = "PROC_BLOCKED" => ~Waits(q) /\ q \notin HalfBuilt
    BY <2>2 DEF Undisturbed
  <2>4. Gentle
    BY <1>6, <1>10, <2>1, <2>2, <2>3 DEF SwitchOK, CurrentReady
  <2> QED
    BY <2>4
<1>11. ASSUME q \in listed, (Block(q) /\ state[q] = "PROC_READY") \/ Schedule,
              UNCHANGED <<waiterVars, ppid, disturbed>>
       PROVE  Gentle
  <2>1. q \in Proc
    BY <1>6, <1>11
  <2> HIDE DEF q
  <2>2. CASE Block(q) /\ state[q] = "PROC_READY"
    <3>1. SwitchOK(state') /\ sched_started'
      BY <1>6, <2>1, <2>2, BlockTypes
    <3>2. state' = [state EXCEPT ![q] = "PROC_BLOCKED"]
      BY <2>2 DEF Block
    <3> QED
      BY <1>6, <1>11, <2>1, <2>2, <3>1, <3>2 DEF SwitchOK, CurrentReady
  <2>3. CASE Schedule
    <3>1. SwitchOK(state') /\ sched_started' /\ state' = state
      BY <1>6, <2>3, ScheduleTypes
    <3> QED
      BY <1>11, <3>1 DEF SwitchOK, CurrentReady
  <2>4. Gentle
    BY <1>11, <2>2, <2>3
  <2> QED
    BY <2>4
<1>12. CASE ~Dies
  <2>1. Gentle
    <3> HIDE DEF Gentle
    <3> QED
      BY <1>9, <1>10, <1>11, <1>12 DEF KillAct
  <2>2. \A r \in HalfBuilt : r \in Proc /\ state'[r] # "PROC_READY"
    BY <1>6, <2>1, HalfBuiltLemma DEF Live
  <2> QED
    BY <1>1, <1>5, <1>12, <2>1, <2>2, SwitchLive
<1> QED
  BY <1>7, <1>12

(* A zombie child that is not half built leaves the list: nobody's parent  *)
(* is lost.                                                                *)
LEMMA ReapLemma ==
  ASSUME Live, SchedTypeOK, listed \subseteq Proc, NEW c \in listed,
         state[c] = "PROC_ZOMBIE", c \notin HalfBuilt,
         listed' = listed \ {c}, UNCHANGED <<state, ppid, pc, arg>>,
         \A q : q \in HalfBuilt' <=> q \in HalfBuilt,
         \A q \in Proc : at'[q] \in Building \/ at[q] \in Building \/ state[q] # "PROC_READY"
           => at'[q] = at[q],
         at'[Idle] = at[Idle],
         c = InitProc => halted', ~halted
  PROVE  DeadInv' /\ BuildInv' /\ ParentInv'
<1>1. DeadInv'
  BY DEF Live, DeadInv
<1>2. BuildInv'
  <2> SUFFICES ASSUME NEW q \in Proc, at'[q] \in Building
               PROVE  /\ arg'[q].pid \in listed' /\ arg'[q].pid # Idle
                      /\ arg'[q].pid # InitProc
                      /\ at'[q] # "spawn_parent" => state'[arg'[q].pid] = "PROC_ZOMBIE"
                      /\ state'[arg'[q].pid] # "PROC_READY"
                      /\ at'[arg'[q].pid] = "user"
                      /\ \A r \in Proc : at'[r] \in Building /\ arg'[r].pid = arg'[q].pid
                           => r = q
    BY DEF BuildInv
  <2>1. at[q] \in Building /\ arg'[q] = arg[q] /\ at'[q] = at[q]
    OBVIOUS
  <2>2. PICK d : d = arg[q].pid
    OBVIOUS
  <2>3. d \in HalfBuilt
    BY <2>1, <2>2, BuilderLemma
  <2>4. d \in listed /\ d # Idle /\ d # InitProc /\ at[d] = "user" /\ d # c /\ d \in Proc
        /\ state[d] # "PROC_READY"
    BY <2>3, HalfBuiltLemma DEF Live
  <2>5. at[q] # "spawn_parent" => state[d] = "PROC_ZOMBIE"
    BY <2>1, <2>2 DEF Live, BuildInv
  <2>6. \A r \in Proc : at'[r] \in Building /\ arg'[r].pid = d => r = q
    BY <2>1, <2>2 DEF Live, BuildInv
  <2> QED
    BY <2>1, <2>2, <2>4, <2>5, <2>6
<1>3. ParentInv'
  <2>1. InitProc \in listed
    BY DEF Live, ParentInv
  <2> QED
    BY <2>1 DEF Live, ParentInv
<1> QED
  BY <1>1, <1>2, <1>3

(* waitpid looks at the process list, and reaps from it, as the owner of   *)
(* proc_acces_lock.                                                        *)
LEMMA ScanHolds ==
  ASSUME TypeInv, Live, NEW p \in Proc,
         \/ Scan(p, "wait_scan", "wait_found", "wait_none")
         \/ Scan(p, "wait_rescan", "wait_unlock", "wait_unlock")
  PROVE  UNCHANGED state /\ current = p /\ lock[ProcLock] = 1 /\ owner[ProcLock] = p
<1>1. /\ current = p /\ pc[p] = "run" /\ at[p] \in {"wait_scan", "wait_rescan"}
      /\ UNCHANGED state
  BY DEF Scan, At, Running, vars, schedVars
<1>2. depth[p][ProcLock] = 1
  BY <1>1 DEF Live, CallInv, Waits, Holding
<1> QED
  BY <1>1, <1>2, MutexAssumption DEF Live, LockInv, HolderOwns, Mutex

(* A scan of the process list by waitpid.                                  *)
LEMMA ScanLive ==
  ASSUME TypeInv, TypeInv', Live, NEW p \in Proc, Undisturbed',
         \/ Scan(p, "wait_scan", "wait_found", "wait_none")
         \/ Scan(p, "wait_rescan", "wait_unlock", "wait_unlock")
  PROVE  Live'
<1>1. /\ Running(p) /\ pc[p] = "run" /\ UNCHANGED <<vars, ppid, arg>>
      /\ at[p] \in {"wait_scan", "wait_rescan"}
  BY DEF Scan, At
<1>2. /\ at'[p] \in {"wait_found", "wait_none", "wait_unlock"}
      /\ \A q \in Proc : q # p => at'[q] = at[q]
  BY DEF Scan, GoTo, TypeInv, LifeTypeOK
<1>3. SchedTypeOK /\ listed \subseteq Proc
  BY DEF TypeInv, LifeTypeOK, TypeOK
<1>4. p # Idle /\ state[p] = "PROC_READY" /\ ~halted
  BY <1>1 DEF Live, DeadInv, LockInv, CurrentReady, Running
<1>5. at'[p] \in Holding /\ at[p] \in Holding /\ at'[p] \notin Building /\ at[p] \notin Building
  BY <1>1, <1>2 DEF Holding, Building
<1>6. Onward(p)
  BY <1>1, <1>2, <1>4, <1>5 DEF Onward, Building
<1>7. CASE UNCHANGED listed
  BY <1>1, <1>4, <1>5, <1>6, <1>7, MoveLive DEF vars, schedVars
<1>8. CASE \E c \in ZombieChildren(p) : Reap(c)
  <2>1. PICK c \in ZombieChildren(p) : listed' = listed \ {c} /\ c \notin HalfBuilt
    BY <1>8 DEF Reap, Undisturbed
  <2>2. c \in listed /\ ppid[c] = p /\ state[c] = "PROC_ZOMBIE"
    BY <2>1 DEF ZombieChildren
  <2>3. c # InitProc
    BY <1>4, <2>2 DEF Live, ParentInv
  <2>4. UNCHANGED <<state, sched_started, current, halted, waiterVars, pc, lock, owner, count,
                    wants, next, depth>>
    BY <1>1 DEF vars, schedVars, mutexVars
  <2>5. \A q : q \in HalfBuilt' <=> q \in HalfBuilt
    BY <1>1, <1>2, <1>5, BuilderLemma
  <2>6. \A q \in Proc : at'[q] \in Building \/ at[q] \in Building \/ state[q] # "PROC_READY"
           => at'[q] = at[q]
    BY <1>2, <1>4, <1>5
  <2>7. at'[Idle] = at[Idle]
    BY <1>2, <1>4, SchedulerAssumption
  <2>8. DeadInv' /\ BuildInv' /\ ParentInv'
    BY <1>1, <1>3, <1>4, <2>1, <2>2, <2>3, <2>4, <2>5, <2>6, <2>7, ReapLemma
  <2>9. SchedTypeOK' /\ MutexTypeOK'
    BY DEF TypeInv, LifeTypeOK, TypeOK
  <2>10. CurrentReady' /\ sched_started /\ sched_started'
    BY <2>4 DEF Live, LockInv, CurrentReady
  <2>11. LockInv'
    BY <2>4, <2>9, <2>10, AsideStep DEF Live
  <2>12. CallInv'
    BY <1>2, <1>5, <2>4, CallFrame DEF Live
  <2> QED
    BY <1>4, <2>4, <2>8, <2>10, <2>11, <2>12 DEF Live
<1> QED
  BY <1>7, <1>8 DEF Scan

(* The kernel's init loop.                                                 *)
LEMMA IdleLoopLive ==
  ASSUME TypeInv, TypeInv', Live, IdleLoop, Undisturbed'
  PROVE  Live'
<1>1. /\ Running(Idle) /\ at[Idle] = "user"
      /\ UNCHANGED <<current, state, run_queue, sched_started, waiterVars, mutexVars, ppid,
                     at, arg>>
  BY DEF IdleLoop, At
<1>2. /\ SchedTypeOK /\ SchedTypeOK' /\ MutexTypeOK' /\ listed \subseteq Proc /\ Idle \in Proc
      /\ ~halted /\ current = Idle
  BY <1>1, SchedulerAssumption DEF TypeInv, LifeTypeOK, TypeOK, Running
<1>3. CurrentReady' /\ sched_started /\ sched_started'
  BY <1>1, <1>2 DEF Live, LockInv, CurrentReady
<1>4. UNCHANGED <<waiterVars, pc, lock, owner, count, wants, next, depth>>
  BY <1>1 DEF mutexVars
<1>5. LockInv'
  BY <1>1, <1>2, <1>3, <1>4, AsideStep DEF Live
<1>6. CallInv'
  BY <1>1, <1>4, CallFrame DEF Live
<1>7. \A q : q \in HalfBuilt' <=> q \in HalfBuilt
  BY <1>1, BuilderLemma
<1>8. ASSUME NEW c \in ZombieChildren(Idle), Reap(c), halted' = (c = InitProc)
      PROVE  DeadInv' /\ BuildInv' /\ ParentInv'
  <2>1. listed' = listed \ {c} /\ c \notin HalfBuilt /\ c \in listed
        /\ state[c] = "PROC_ZOMBIE"
    BY <1>8 DEF Reap, Undisturbed, ZombieChildren
  <2>2. c = InitProc => halted'
    BY <1>8
  <2> QED
    BY <1>1, <1>2, <1>4, <1>7, <2>1, <2>2, ReapLemma
<1>9. DeadInv' /\ BuildInv' /\ ParentInv'
  <2>1. CASE UNCHANGED <<listed, halted, early>>
    BY <1>1, <1>4, <1>7, <2>1 DEF Live, DeadInv, BuildInv, ParentInv
  <2>2. CASE \E c \in ZombieChildren(Idle) : Reap(c) /\ halted' = (c = InitProc)
    BY <1>8, <2>2
  <2> QED
    BY <2>1, <2>2 DEF IdleLoop
<1> QED
  BY <1>1, <1>2, <1>3, <1>5, <1>6, <1>9 DEF Live

(* proc_alloc_process: a record that is off the list, so of a dead process *)
(* that nobody has as a parent, becomes half built.                        *)
LEMMA SpawnAllocLive ==
  ASSUME TypeInv, TypeInv', Live, NEW p \in Proc, SpawnAlloc(p)
  PROVE  /\ Live' /\ UNCHANGED state
         /\ current = p /\ lock[ProcLock] = 1 /\ owner[ProcLock] = p
<1>1. /\ Running(p) /\ pc[p] = "run" /\ UNCHANGED <<vars, ppid>>
      /\ at[p] = "spawn_alloc"
  BY DEF SpawnAlloc, At
<1>2. /\ at'[p] = "spawn_unlock"
      /\ \A q \in Proc : q # p => at'[q] = at[q]
  BY DEF SpawnAlloc, GoTo, TypeInv, LifeTypeOK
<1>3. /\ SchedTypeOK /\ SchedTypeOK' /\ MutexTypeOK' /\ listed \subseteq Proc
      /\ arg \in [Proc -> [pid : Proc \cup {Nil}, sig : Sigs \cup {Nil}]]
  BY DEF TypeInv, LifeTypeOK, TypeOK
<1>4. p # Idle /\ state[p] = "PROC_READY" /\ ~halted /\ current = p /\ InitProc \in listed
  BY <1>1 DEF Live, DeadInv, LockInv, CurrentReady, Running, ParentInv
<1>5. lock[ProcLock] = 1 /\ owner[ProcLock] = p
  <2>1. depth[p][ProcLock] = 1
    BY <1>1 DEF Live, CallInv, Waits, Holding
  <2> QED
    BY <2>1, MutexAssumption DEF Live, LockInv, HolderOwns, Mutex
<1>6. at'[p] \in Holding /\ at[p] \in Holding /\ at'[p] \in Building /\ at[p] \notin Building
  BY <1>1, <1>2 DEF Holding, Building
<1>7. PICK c \in Proc : /\ c \notin listed /\ listed' = listed \cup {c}
                        /\ arg'[p].pid = c /\ \A q \in Proc : q # p => arg'[q] = arg[q]
  BY <1>3 DEF SpawnAlloc
<1>8. UNCHANGED <<state, sched_started, current, halted, waiterVars, pc, lock, owner, count,
                  wants, next, depth>>
  BY <1>1 DEF vars, schedVars, mutexVars
<1>9. LockInv' /\ sched_started'
  <2>1. CurrentReady' /\ sched_started /\ sched_started'
    BY <1>8 DEF Live, LockInv, CurrentReady
  <2> QED
    BY <1>3, <1>8, <2>1, AsideStep DEF Live
<1>10. CallInv'
  BY <1>2, <1>6, <1>8, CallFrame DEF Live
<1>11. /\ state[c] = "PROC_ZOMBIE" /\ at[c] = "user" /\ c # p /\ c # Idle /\ c # InitProc
       /\ c \notin HalfBuilt
  BY <1>4, <1>7, HalfBuiltLemma DEF Live, DeadInv
<1>12. \A q \in Proc : at'[q] \in Building => q = p \/ (at[q] \in Building /\ at'[q] = at[q]
                                                       /\ arg'[q] = arg[q])
  BY <1>2, <1>7
<1>13. \A q \in Proc : at[q] \in Building => q # p /\ at'[q] = at[q] /\ arg'[q] = arg[q]
  BY <1>2, <1>6, <1>7
<1>14. \A x : x \in HalfBuilt' <=> x \in HalfBuilt \/ x = c
  BY <1>6, <1>7, <1>12, <1>13, BuilderLemma
<1>15. DeadInv'
  BY <1>2, <1>4, <1>7, <1>8, SchedulerAssumption DEF Live, DeadInv
<1>16. BuildInv'
  <2> SUFFICES ASSUME NEW q \in Proc, at'[q] \in Building
               PROVE  /\ arg'[q].pid \in listed' /\ arg'[q].pid # Idle
                      /\ arg'[q].pid # InitProc
                      /\ at'[q] # "spawn_parent" => state'[arg'[q].pid] = "PROC_ZOMBIE"
                      /\ state'[arg'[q].pid] # "PROC_READY"
                      /\ at'[arg'[q].pid] = "user"
                      /\ \A r \in Proc : at'[r] \in Building /\ arg'[r].pid = arg'[q].pid
                           => r = q
    BY DEF BuildInv
  <2>1. CASE q = p
    <3>1. \A r \in Proc : at'[r] \in Building /\ arg'[r].pid = c => r = p
      BY <1>11, <1>12, BuilderLemma
    <3>2. at'[c] = "user"
      BY <1>2, <1>11
    <3> QED
      BY <1>7, <1>8, <1>11, <2>1, <3>1, <3>2
  <2>2. CASE q # p
    <3>1. at[q] \in Building /\ at'[q] = at[q] /\ arg'[q] = arg[q]
      BY <1>12, <2>2
    <3>2. PICK d : d = arg[q].pid
      OBVIOUS
    <3>3. d \in HalfBuilt
      BY <3>1, <3>2, BuilderLemma
    <3>4. d \in listed /\ d # Idle /\ d # InitProc /\ at[d] = "user" /\ d # c /\ d \in Proc
          /\ d # p /\ state[d] # "PROC_READY"
      BY <1>3, <1>4, <1>11, <3>3, HalfBuiltLemma DEF Live
    <3>5. at[q] # "spawn_parent" => state[d] = "PROC_ZOMBIE"
      BY <3>1, <3>2 DEF Live, BuildInv
    <3>6. \A r \in Proc : at'[r] \in Building /\ arg'[r].pid = d => r = q
      BY <1>7, <1>12, <3>1, <3>2, <3>4 DEF Live, BuildInv
    <3>7. at'[d] = "user"
      BY <1>2, <3>4
    <3> QED
      BY <1>7, <1>8, <3>1, <3>2, <3>4, <3>5, <3>6, <3>7
  <2> QED
    BY <2>1, <2>2
<1>17. ParentInv'
  <2>1. InitProc \in listed' /\ ppid'[InitProc] = Idle
    BY <1>1, <1>4, <1>7 DEF Live, ParentInv
  <2>2. ASSUME NEW q \in listed', q \notin HalfBuilt', q # Idle
        PROVE  /\ ppid'[q] \in listed' /\ ppid'[q] \notin HalfBuilt'
               /\ ppid'[q] = InitProc \/ state'[ppid'[q]] # "PROC_ZOMBIE"
    <3>1. q \in listed /\ q \notin HalfBuilt
      BY <1>7, <1>14, <2>2
    <3>2. /\ ppid[q] \in listed /\ ppid[q] \notin HalfBuilt
          /\ ppid[q] = InitProc \/ state[ppid[q]] # "PROC_ZOMBIE"
      BY <1>4, <2>2, <3>1 DEF Live, ParentInv
    <3> QED
      BY <1>1, <1>7, <1>8, <1>14, <3>2
  <2> QED
    BY <2>1, <2>2 DEF ParentInv
<1> QED
  BY <1>4, <1>5, <1>8, <1>9, <1>10, <1>15, <1>16, <1>17 DEF Live

(* proc_create builds a new process in the record of a dead one: it holds  *)
(* no mutex and waits for none.                                            *)
LEMMA SpawnCreateLive ==
  ASSUME TypeInv, TypeInv', Live, NEW p \in Proc, SpawnCreate(p)
  PROVE  Live' /\ UNCHANGED listed /\ at[current] = "spawn_create"
<1>1. PICK c : c = arg[p].pid
  OBVIOUS
<1>2. /\ Running(p) /\ pc[p] = "run" /\ at[p] = "spawn_create"
      /\ at' = [at EXCEPT ![p] = "spawn_parent", ![c] = "user"]
      /\ state' = [state EXCEPT ![c] = "PROC_BLOCKED"]
      /\ pc' = [pc EXCEPT ![c] = "run"]
      /\ wants' = [wants EXCEPT ![c] = Nil]
      /\ next' = [next EXCEPT ![c] = Nil]
      /\ depth' = [depth EXCEPT ![c] = [m \in Mutex |-> 0]]
      /\ UNCHANGED <<current, run_queue, sched_started, halted, waiterVars, lock, owner,
                     count, listed, ppid, arg>>
  BY <1>1 DEF SpawnCreate, At
<1>3. /\ SchedTypeOK /\ SchedTypeOK' /\ MutexTypeOK /\ MutexTypeOK' /\ listed \subseteq Proc
      /\ at \in [Proc -> Labels]
  BY DEF TypeInv, LifeTypeOK, TypeOK
<1>4. state[p] = "PROC_READY" /\ ~halted /\ current = p
  BY <1>2 DEF Live, LockInv, CurrentReady, Running
<1>5. at[p] \in Building /\ at[p] \notin Holding /\ p # Idle
  BY <1>2 DEF Building, Holding, Live, DeadInv
<1>6. /\ c \in listed /\ c # Idle /\ c # InitProc /\ state[c] = "PROC_ZOMBIE"
      /\ at[c] = "user" /\ c \in Proc /\ c # p /\ c # current
      /\ \A q \in Proc : at[q] \in Building /\ arg[q].pid = c => q = p
  BY <1>1, <1>2, <1>3, <1>4, <1>5 DEF Live, BuildInv
<1>7. /\ pc[c] = "run" /\ ~Waits(c) /\ next[c] = Nil
      /\ \A m \in Mutex : depth[c][m] = 0
  BY <1>6 DEF Live, DeadInv, CallInv, LockInv, WakeInv, Waits, Holding
<1>8. UNCHANGED <<pc, next, depth>>
  <2>1. pc' = pc
    BY <1>2, <1>3, <1>6, <1>7 DEF MutexTypeOK
  <2>2. next' = next
    BY <1>2, <1>3, <1>6, <1>7 DEF MutexTypeOK
  <2>3. depth[c] = [m \in Mutex |-> 0]
    BY <1>3, <1>6, <1>7 DEF MutexTypeOK
  <2>4. depth' = depth
    <3> DEFINE z == [m \in Mutex |-> 0]
    <3>1. depth' = [depth EXCEPT ![c] = z] /\ depth[c] = z
      BY <1>2, <2>3
    <3> HIDE DEF z
    <3> QED
      BY <1>3, <3>1 DEF MutexTypeOK
  <2> QED
    BY <2>1, <2>2, <2>4
<1>9. \A q \in Proc : q # c => wants'[q] = wants[q] /\ state'[q] = state[q]
  BY <1>2, <1>3 DEF SchedTypeOK, MutexTypeOK
<1>10. state'[c] = "PROC_BLOCKED"
  BY <1>2, <1>3, <1>6 DEF SchedTypeOK
<1>11. LockInv' /\ sched_started'
  <2>1. CurrentReady' /\ sched_started /\ sched_started'
    BY <1>2, <1>3, <1>6, <1>9 DEF Live, LockInv, CurrentReady, SchedTypeOK
  <2>2. /\ \A q \in Proc : Waits(q) => wants'[q] = wants[q]
        /\ \A q \in Proc : Waits(q) /\ state'[q] = "PROC_READY" => state[q] = "PROC_READY"
    BY <1>7, <1>9
  <2> QED
    BY <1>2, <1>3, <1>8, <2>1, <2>2, AsideStep DEF Live
<1>12. /\ at'[p] = "spawn_parent" /\ at'[c] = "user"
       /\ \A q \in Proc : q # p => at'[q] = at[q]
  BY <1>2, <1>3, <1>6
<1>13. CallInv'
  <2>1. at'[p] \notin Holding
    BY <1>12 DEF Holding
  <2>2. \A q \in Proc : at'[q] \in Holding <=> at[q] \in Holding
    BY <1>5, <1>12, <2>1
  <2>3. \A q \in Proc : Waits(q) => wants'[q] = wants[q]
    BY <1>7, <1>9
  <2> QED
    BY <1>8, <2>2, <2>3 DEF Live, CallInv, Waits
<1>14. DeadInv'
  <2>1. \A q \in Proc : state'[q] = "PROC_ZOMBIE" =>
          q # c /\ q # p /\ state[q] = "PROC_ZOMBIE" /\ at'[q] = at[q] /\ pc'[q] = pc[q]
    BY <1>4, <1>6, <1>8, <1>9, <1>10, <1>12
  <2>2. \A q \in Proc : q \notin listed => q # c /\ state'[q] = state[q]
    BY <1>6, <1>9
  <2>3. at'[Idle] = at[Idle] /\ state'[Idle] = state[Idle]
    BY <1>5, <1>6, <1>9, <1>12, SchedulerAssumption
  <2> QED
    BY <1>2, <2>1, <2>2, <2>3 DEF Live, DeadInv
<1>15. \A q \in Proc : at'[q] \in Building <=> at[q] \in Building
  BY <1>5, <1>12 DEF Building
<1>16. \A x : x \in HalfBuilt' <=> x \in HalfBuilt
  BY <1>2, <1>15, BuilderLemma
<1>17. BuildInv'
  <2> SUFFICES ASSUME NEW q \in Proc, at'[q] \in Building
               PROVE  /\ arg[q].pid \in listed /\ arg[q].pid # Idle
                      /\ arg[q].pid # InitProc
                      /\ at'[q] # "spawn_parent" => state'[arg[q].pid] = "PROC_ZOMBIE"
                      /\ state'[arg[q].pid] # "PROC_READY"
                      /\ at'[arg[q].pid] = "user"
                      /\ \A r \in Proc : at'[r] \in Building /\ arg[r].pid = arg[q].pid
                           => r = q
    BY <1>2 DEF BuildInv
  <2>1. PICK d : d = arg[q].pid
    OBVIOUS
  <2>2. at[q] \in Building /\ d \in HalfBuilt
    BY <1>15, <2>1, BuilderLemma
  <2>3. d \in listed /\ d # Idle /\ d # InitProc /\ at[d] = "user" /\ d \in Proc
        /\ d # p /\ state[d] # "PROC_READY"
    BY <1>3, <1>4, <2>2, HalfBuiltLemma DEF Live
  <2>4. \A r \in Proc : at'[r] \in Building /\ arg[r].pid = d => r = q
    BY <1>15, <2>1, <2>2 DEF Live, BuildInv
  <2>5. at'[d] = "user" /\ state'[d] # "PROC_READY"
    BY <1>9, <1>10, <1>12, <2>3
  <2>6. at'[q] # "spawn_parent" => state'[d] = "PROC_ZOMBIE"
    <3> SUFFICES ASSUME at'[q] # "spawn_parent" PROVE state'[d] = "PROC_ZOMBIE"
      OBVIOUS
    <3>1. q # p /\ at[q] # "spawn_parent"
      BY <1>12
    <3>2. d # c
      BY <1>6, <2>1, <2>2, <3>1
    <3> QED
      BY <1>9, <2>1, <2>2, <2>3, <3>1, <3>2 DEF Live, BuildInv
  <2> QED
    BY <2>1, <2>3, <2>4, <2>5, <2>6
<1>18. ParentInv'
  <2>1. \A q \in Proc : state'[q] = "PROC_ZOMBIE" => state[q] = "PROC_ZOMBIE"
    BY <1>9, <1>10
  <2> QED
    BY <1>2, <1>3, <1>4, <1>16, <2>1 DEF Live, ParentInv
<1> QED
  BY <1>2, <1>4, <1>11, <1>13, <1>14, <1>17, <1>18 DEF Live

(* The last step of sys_spawn: the new process gets its parent.            *)
LEMMA SpawnParentLive ==
  ASSUME TypeInv, TypeInv', Live, NEW p \in Proc, SpawnParent(p)
  PROVE  Live' /\ UNCHANGED <<listed, state>>
<1>1. PICK c : c = arg[p].pid
  OBVIOUS
<1>2. /\ Running(p) /\ pc[p] = "run" /\ at[p] = "spawn_parent"
      /\ UNCHANGED <<vars, listed, arg>>
      /\ ppid' = [ppid EXCEPT ![c] = p]
  BY <1>1 DEF SpawnParent, At
<1>3. at'[p] = "user" /\ \A q \in Proc : q # p => at'[q] = at[q]
  BY DEF SpawnParent, GoTo, TypeInv, LifeTypeOK
<1>4. /\ SchedTypeOK /\ SchedTypeOK' /\ MutexTypeOK' /\ listed \subseteq Proc
      /\ ppid \in [Proc -> Proc]
  BY DEF TypeInv, LifeTypeOK, TypeOK
<1>5. state[p] = "PROC_READY" /\ ~halted /\ InitProc \in listed /\ p # Idle
  BY <1>2 DEF Live, LockInv, CurrentReady, Running, ParentInv, DeadInv
<1>6. /\ at[p] \in Building /\ at[p] \notin Holding
      /\ at'[p] \notin Building /\ at'[p] \notin Holding
  BY <1>2, <1>3 DEF Building, Holding
<1>7. /\ c \in listed /\ c # Idle /\ c # InitProc /\ c \in Proc /\ c # p
      /\ \A q \in Proc : at[q] \in Building /\ arg[q].pid = c => q = p
  BY <1>1, <1>4, <1>5, <1>6 DEF Live, BuildInv
<1>8. p \in listed /\ p \notin HalfBuilt
  BY <1>5, HalfBuiltLemma DEF Live, DeadInv
<1>9. UNCHANGED <<state, sched_started, current, halted, waiterVars, pc, lock, owner, count,
                  wants, next, depth>>
  BY <1>2 DEF vars, schedVars, mutexVars
<1>10. LockInv' /\ sched_started'
  <2>1. CurrentReady' /\ sched_started /\ sched_started'
    BY <1>9 DEF Live, LockInv, CurrentReady
  <2> QED
    BY <1>4, <1>9, <2>1, AsideStep DEF Live
<1>11. CallInv'
  BY <1>3, <1>6, <1>9, CallFrame DEF Live
<1>12. \A q \in Proc : at'[q] \in Building <=> at[q] \in Building /\ q # p
  BY <1>3, <1>6
<1>13. \A x : x \in HalfBuilt' <=> x \in HalfBuilt /\ x # c
  BY <1>1, <1>2, <1>7, <1>12, BuilderLemma
<1>14. DeadInv'
  BY <1>2, <1>3, <1>5, <1>9, SchedulerAssumption DEF Live, DeadInv
<1>15. BuildInv'
  <2> SUFFICES ASSUME NEW q \in Proc, at'[q] \in Building
               PROVE  /\ arg[q].pid \in listed /\ arg[q].pid # Idle
                      /\ arg[q].pid # InitProc
                      /\ at'[q] # "spawn_parent" => state[arg[q].pid] = "PROC_ZOMBIE"
                      /\ state[arg[q].pid] # "PROC_READY"
                      /\ at'[arg[q].pid] = "user"
                      /\ \A r \in Proc : at'[r] \in Building /\ arg[r].pid = arg[q].pid
                           => r = q
    BY <1>2, <1>9 DEF BuildInv
  <2>1. PICK d : d = arg[q].pid
    OBVIOUS
  <2>2. at[q] \in Building /\ at'[q] = at[q] /\ d \in HalfBuilt
    BY <1>3, <1>12, <2>1, BuilderLemma
  <2>3. d \in listed /\ d # Idle /\ d # InitProc /\ at[d] = "user" /\ d \in Proc
        /\ d # p /\ state[d] # "PROC_READY"
    BY <1>4, <1>5, <2>2, HalfBuiltLemma DEF Live
  <2>4. \A r \in Proc : at'[r] \in Building /\ arg[r].pid = d => r = q
    BY <1>12, <2>1, <2>2 DEF Live, BuildInv
  <2>5. at'[d] = "user"
    BY <1>3, <2>3
  <2>6. at'[q] # "spawn_parent" => state[d] = "PROC_ZOMBIE"
    BY <2>1, <2>2 DEF Live, BuildInv
  <2> QED
    BY <2>1, <2>3, <2>4, <2>5, <2>6
<1>16. ParentInv'
  <2>1. InitProc \in listed' /\ ppid'[InitProc] = Idle
    BY <1>2, <1>4, <1>5, <1>7, LifecycleAssumption DEF Live, ParentInv
  <2>2. ASSUME NEW q \in listed, q \notin HalfBuilt', q # Idle
        PROVE  /\ ppid'[q] \in listed /\ ppid'[q] \notin HalfBuilt'
               /\ ppid'[q] = InitProc \/ state[ppid'[q]] # "PROC_ZOMBIE"
    <3>1. CASE q = c
      <4>1. ppid'[q] = p
        BY <1>2, <1>4, <1>7, <3>1
      <4> QED
        BY <1>5, <1>8, <1>13, <4>1
    <3>2. CASE q # c
      <4>1. ppid'[q] = ppid[q] /\ q \notin HalfBuilt
        BY <1>2, <1>4, <1>13, <2>2, <3>2
      <4> QED
        BY <1>5, <1>13, <2>2, <4>1 DEF Live, ParentInv
    <3> QED
      BY <3>1, <3>2
  <2> QED
    BY <1>2, <1>9, <2>1, <2>2 DEF ParentInv
<1> QED
  BY <1>2, <1>9, <1>10, <1>11, <1>14, <1>15, <1>16 DEF Live

(* The start: process 1 runs, nobody waits, and nobody is under            *)
(* construction.                                                           *)
LEMMA LiveInit == LifeInit => Live
<1> SUFFICES ASSUME LifeInit PROVE Live
  OBVIOUS
<1>1. TypeOK
  BY InitTypes DEF TypeInv, LifeTypeOK
<1>2. BootInv /\ CurrentReady /\ sched_started
  BY LifecycleAssumption DEF LifeInit, MutexInit, BootInv, CurrentReady
<1>3. HolderOwns /\ OwnerHolds /\ WaiterInv
  BY DEF LifeInit, MutexInit, WaiterInit, HolderOwns, OwnerHolds, WaiterInv, Waits
<1>4. ListEnds /\ ListLinks /\ ListLast
  BY DEF LifeInit, MutexInit, WaiterInit, ListEnds, ListLinks, ListLast, Mutex
<1>5. WakeInv
  BY DEF LifeInit, MutexInit, WaiterInit, WakeInv
<1>6. CallInv
  BY LifecycleAssumption, MutexAssumption DEF LifeInit, MutexInit, CallInv, Waits, Holding, Mutex
<1>7. DeadInv
  BY SchedulerAssumption, LifecycleAssumption DEF LifeInit, DeadInv
<1>8. \A q \in Proc : at[q] \notin Building
  BY DEF LifeInit, Building
<1>9. BuildInv
  BY <1>8 DEF BuildInv
<1>10. ParentInv
  BY <1>8, BuilderLemma, SchedulerAssumption, LifecycleAssumption DEF LifeInit, ParentInv
<1> QED
  BY <1>1, <1>2, <1>3, <1>4, <1>5, <1>6, <1>7, <1>9, <1>10 DEF Live, LockInv

(* What has disturbed the processes once is not forgotten.                 *)
LEMMA DisturbedStays == [LifeNext]_allVars /\ Undisturbed' => Undisturbed
<1> SUFFICES ASSUME [LifeNext]_allVars, Undisturbed' PROVE Undisturbed
  OBVIOUS
<1>1. ASSUME UNCHANGED disturbed PROVE Undisturbed
  BY <1>1 DEF disturbed, Undisturbed
<1>2. ASSUME NEW q, NEW s, NEW ec, NEW sig, SignalWakes(q, s, ec, sig) PROVE ~spurious /\ ~early
  BY <1>2 DEF SignalWakes, Undisturbed
<1>3. ASSUME NEW q, MarkZombie(q) PROVE ~spurious /\ ~early
  BY <1>2, <1>3 DEF MarkZombie, Undisturbed
<1>4. ASSUME NEW p \in Proc, Exit(p) \/ InMutex(p) PROVE Undisturbed
  BY <1>1, <1>3, <1>4 DEF Exit, KillProcess, InMutex, lifeVars, Undisturbed
<1>5. ASSUME NEW p \in Proc, NEW from, NEW to, LockThen(p, from, to) \/ UnlockThen(p, from, to)
      PROVE  Undisturbed
  BY <1>1, <1>5 DEF LockThen, UnlockThen
<1>6. ASSUME NEW p \in Proc, KillAct(p) PROVE Undisturbed
  <2>1. ~killed
    BY <1>6 DEF KillAct, disturbed, Undisturbed
  <2>2. ~spurious /\ ~early
    BY <1>2, <1>3, <1>6 DEF KillAct, KillProcess, disturbed, Undisturbed
  <2> QED
    BY <2>1, <2>2 DEF Undisturbed
<1>7. ASSUME NEW p \in Proc, NEW from, NEW found, NEW none, Scan(p, from, found, none)
      PROVE  Undisturbed
  BY <1>7 DEF Scan, Reap, Undisturbed
<1>8. ASSUME NEW p \in Proc,
             \/ \E q \in Proc, sig \in Sigs : KillCall(p, q, sig)
             \/ KillCheck(p) \/ WaitCall(p) \/ WaitTest(p) \/ WaitBlock(p)
             \/ Clear(p, "wait_clear", "user") \/ Clear(p, "wait_woken", "wait_relock")
             \/ SpawnCall(p) \/ SpawnAlloc(p) \/ SpawnCreate(p) \/ SpawnParent(p)
      PROVE  Undisturbed
  <2>1. UNCHANGED disturbed
    BY <1>8 DEF KillCall, KillCheck, WaitCall, WaitTest, WaitBlock, Clear, SpawnCall,
       SpawnAlloc, SpawnCreate, SpawnParent
  <2> QED
    BY <1>1, <2>1
<1>9. ASSUME NEW p \in Proc, Kill(p) \/ Wait(p) \/ Spawn(p) PROVE Undisturbed
  BY <1>5, <1>6, <1>7, <1>8, <1>9 DEF Kill, Wait, Spawn
<1>10. CASE IdleLoop
  <2>1. early => early'
    BY <1>10, Zenon DEF IdleLoop, Reap
  <2>2. spurious' = spurious /\ killed' = killed
    BY <1>10 DEF IdleLoop
  <2> QED
    BY <2>1, <2>2 DEF Undisturbed
<1>11. CASE LifeTick \/ UNCHANGED allVars
  BY <1>1, <1>11 DEF LifeTick, allVars, lifeVars
<1> QED
  BY <1>4, <1>9, <1>10, <1>11 DEF LifeNext

(* The target of a signal is chosen once, and processes never go back to   *)
(* the boot.                                                               *)
LEMMA BaseNext == TypeInv /\ BaseInv /\ [LifeNext]_allVars => BaseInv'
<1> SUFFICES ASSUME TypeInv, BaseInv, [LifeNext]_allVars PROVE BaseInv'
  OBVIOUS
<1>1. /\ arg \in [Proc -> [pid : Proc \cup {Nil}, sig : Sigs \cup {Nil}]]
      /\ pc \in [Proc -> {"new", "run", "block", "asleep", "wake"}]
  BY DEF TypeInv, LifeTypeOK, TypeOK, MutexTypeOK
<1> DEFINE Kept == \A p \in Proc : pc'[p] # "new"
<1>2. ASSUME UNCHANGED arg, Kept PROVE BaseInv'
  BY <1>2 DEF BaseInv
<1>3. UNCHANGED pc => Kept
  BY DEF BaseInv
<1>4. ASSUME NEW p \in Proc, NEW l \in {"run", "block", "asleep", "wake"},
             pc' = [pc EXCEPT ![p] = l]
      PROVE  Kept
  BY <1>1, <1>4 DEF BaseInv
<1>5. ASSUME NEW p \in Proc, NEW q \in Proc, NEW sig \in Sigs, Sends(p, q, sig),
             KillCall(p, q, sig)
      PROVE  BaseInv'
  <2>1. arg' = [arg EXCEPT ![p] = [pid |-> q, sig |-> sig]] /\ UNCHANGED pc
    BY <1>5 DEF KillCall, vars, mutexVars
  <2>2. sig = "SIGKILL" => q \notin {Idle, InitProc}
    BY <1>5 DEF Sends
  <2> QED
    BY <1>1, <2>1, <2>2 DEF BaseInv
<1>6. ASSUME NEW p \in Proc, SpawnAlloc(p) PROVE BaseInv'
  <2>1. PICK c : arg' = [arg EXCEPT ![p] = [pid |-> c, sig |-> Nil]]
    BY <1>6 DEF SpawnAlloc
  <2>2. UNCHANGED pc
    BY <1>6 DEF SpawnAlloc, vars, mutexVars
  <2> QED
    BY <1>1, <2>1, <2>2, LifecycleAssumption DEF BaseInv
<1>7. ASSUME NEW p \in Proc, SpawnCreate(p) PROVE BaseInv'
  <2>1. PICK c : pc' = [pc EXCEPT ![c] = "run"] /\ UNCHANGED arg
    BY <1>7 DEF SpawnCreate
  <2> QED
    BY <1>1, <2>1 DEF BaseInv
<1>8. ASSUME NEW p \in Proc, Lock(p) \/ Unlock(p) PROVE Kept
  <2>1. UNCHANGED pc \/ \E l \in {"block", "wake"} : pc' = [pc EXCEPT ![p] = l]
    BY <1>8 DEF Lock, Unlock, LockNested, LockClaim, LockWait, UnlockNested, UnlockHandOff,
       UnlockRelease, UnlockForeign, mutexVars
  <2> HIDE DEF Kept
  <2> QED
    BY <1>3, <1>4, <2>1
<1>9. ASSUME NEW p \in Proc, InMutex(p) PROVE BaseInv'
  <2>1. UNCHANGED arg /\ \E l \in {"run", "asleep"} : pc' = [pc EXCEPT ![p] = l]
    BY <1>9 DEF InMutex, LockBlock, LockReturn, UnlockWake, lifeVars
  <2> HIDE DEF Kept
  <2> QED
    BY <1>2, <1>4, <2>1
<1> HIDE DEF Kept
<1>10. ASSUME NEW p \in Proc, NEW from, NEW to, LockThen(p, from, to) \/ UnlockThen(p, from, to)
       PROVE  BaseInv'
  BY <1>2, <1>8, <1>10 DEF LockThen, UnlockThen
<1>11. ASSUME UNCHANGED arg, UNCHANGED mutexVars PROVE BaseInv'
  BY <1>2, <1>3, <1>11 DEF mutexVars
<1>12. ASSUME NEW p \in Proc, Kill(p) PROVE BaseInv'
  BY <1>5, <1>10, <1>11, <1>12 DEF Kill, KillCheck, KillAct, vars
<1>13. ASSUME NEW p \in Proc, Wait(p) PROVE BaseInv'
  BY <1>10, <1>11, <1>13 DEF Wait, WaitCall, Scan, Clear, WaitTest, WaitBlock, vars
<1>14. ASSUME NEW p \in Proc, Spawn(p) PROVE BaseInv'
  BY <1>6, <1>7, <1>10, <1>11, <1>14 DEF Spawn, SpawnCall, SpawnParent, vars
<1>15. ASSUME NEW p \in Proc, Exit(p) PROVE BaseInv'
  BY <1>11, <1>15 DEF Exit
<1>16. CASE IdleLoop \/ LifeTick \/ UNCHANGED allVars
  BY <1>11, <1>16 DEF IdleLoop, LifeTick, Tick, allVars, vars, lifeVars
<1> QED
  BY <1>9, <1>12, <1>13, <1>14, <1>15, <1>16 DEF LifeNext

(* Every step that disturbs nobody keeps the invariant.                    *)
LEMMA LiveNext ==
  ASSUME BaseInv, TypeInv, Live, [LifeNext]_allVars, Undisturbed'
  PROVE  Live'
<1>0. /\ {"kill_lock", "kill_relock", "wait_lock", "wait_relock", "spawn_lock"}
           \subseteq LockFrom
      /\ {"kill_check", "kill_act", "wait_scan", "wait_rescan", "spawn_alloc"} \subseteq LockTo
      /\ {"kill_checked", "kill_unlock", "wait_found", "wait_none", "wait_unlock",
          "spawn_unlock"} \subseteq UnlockFrom
      /\ {"kill_relock", "user", "wait_clear", "wait_test", "spawn_create"} \subseteq UnlockTo
  BY DEF LockFrom, LockTo, UnlockFrom, UnlockTo
<1>1. TypeInv'
  BY TypeNext
<1>2. ASSUME NEW p \in Proc, Exit(p) \/ InMutex(p)
      PROVE  Live'
  BY <1>1, <1>2, ExitLive, InMutexLive
<1>3. ASSUME NEW p \in Proc, Kill(p)
      PROVE  Live'
  BY <1>0, <1>1, <1>3, LockThenLive, UnlockThenLive, CallStepLive, KillActLive DEF Kill
<1>4. ASSUME NEW p \in Proc, Wait(p)
      PROVE  Live'
  BY <1>0, <1>1, <1>4, LockThenLive, UnlockThenLive, CallStepLive, ScanLive, ClearLive,
     WaitBlockLive DEF Wait
<1>5. ASSUME NEW p \in Proc, Spawn(p)
      PROVE  Live'
  BY <1>0, <1>1, <1>5, LockThenLive, UnlockThenLive, CallStepLive, SpawnAllocLive,
     SpawnCreateLive, SpawnParentLive DEF Spawn
<1>6. CASE IdleLoop
  BY <1>1, <1>6, IdleLoopLive
<1>7. CASE LifeTick
  BY <1>1, <1>7, TickLive
<1>8. CASE UNCHANGED allVars
  <2>1. UNCHANGED <<current, state, sched_started, halted, waiterVars, lock, owner, count, pc,
                    wants, next, depth, listed, ppid, at, arg>>
    BY <1>8 DEF allVars, vars, schedVars, mutexVars, lifeVars
  <2>2. SchedTypeOK' /\ MutexTypeOK'
    BY <1>1 DEF TypeInv, LifeTypeOK, TypeOK
  <2>3. CurrentReady' /\ sched_started /\ sched_started'
    BY <2>1 DEF Live, LockInv, CurrentReady
  <2>4. LockInv'
    BY <2>1, <2>2, <2>3, AsideStep DEF Live
  <2>5. CallInv'
    BY <2>1, CallFrame DEF Live
  <2>6. HalfBuilt' = HalfBuilt
    BY <2>1 DEF HalfBuilt
  <2>7. DeadInv' /\ BuildInv' /\ ParentInv'
    BY <2>1, <2>6 DEF Live, DeadInv, BuildInv, ParentInv
  <2> QED
    BY <2>3, <2>4, <2>5, <2>7 DEF Live
<1> QED
  BY <1>2, <1>3, <1>4, <1>5, <1>6, <1>7, <1>8 DEF LifeNext

(* As long as nobody is disturbed, Live holds, whatever the number of      *)
(* processes, of spawns and of signals, SIGKILL included.                  *)
THEOREM LifeInvariant == LifeSpec => [](TypeInv /\ BaseInv /\ (Undisturbed => Live))
<1>1. LifeInit => TypeInv /\ BaseInv /\ (Undisturbed => Live)
  <2>1. LifeInit => BaseInv
    BY LifecycleAssumption DEF LifeInit, BaseInv
  <2> QED
    BY <2>1, InitTypes, LiveInit
<1>2. TypeInv /\ BaseInv /\ (Undisturbed => Live) /\ [LifeNext]_allVars
        => (TypeInv /\ BaseInv /\ (Undisturbed => Live))'
  BY TypeNext, BaseNext, LiveNext, DisturbedStays
<1> QED
  BY <1>1, <1>2, PTL DEF LifeSpec

(* Every process has a living parent that can collect it.                  *)
THEOREM ParentsLive == LifeSpec => []LiveParent
<1>1. TypeInv /\ (Undisturbed => Live) => LiveParent
  BY DEF Live, ParentInv, LiveParent
<1> QED
  BY <1>1, LifeInvariant, PTL

(* proc_mark_zombie finds a parent to signal, so that the scheduler is     *)
(* started again.                                                          *)
THEOREM SchedulerResumes == LifeSpec => []SchedulingResumes
<1>1. TypeInv /\ (Undisturbed => Live) => SchedulingResumes
  BY DEF Live, SchedulingResumes
<1> QED
  BY <1>1, LifeInvariant, PTL

(* Nobody dies with the process list locked, unless by a SIGKILL of its    *)
(* own.                                                                    *)
THEOREM LockOutlivedByOwner == LifeSpec => []DeadHoldsNoLock
<1>1. ASSUME TypeInv, Live, lock[ProcLock] = 1
      PROVE  owner[ProcLock] \in listed /\ state[owner[ProcLock]] # "PROC_ZOMBIE"
  <2>1. PICK p : p = owner[ProcLock]
    OBVIOUS
  <2>2. p \in Proc /\ (depth[p][ProcLock] > 0 \/ Waits(p))
    BY <1>1, <2>1, MutexAssumption DEF Live, LockInv, OwnerHolds, Mutex
  <2>3. at[p] \in Holding
    BY <1>1, <2>2 DEF Live, CallInv
  <2>4. state[p] # "PROC_ZOMBIE"
    BY <1>1, <2>2, <2>3 DEF Live, DeadInv, Holding
  <2>5. p \in listed
    BY <1>1, <2>2, <2>4 DEF Live, DeadInv
  <2> QED
    BY <2>1, <2>4, <2>5
<1>2. TypeInv /\ (Undisturbed => Live) => DeadHoldsNoLock
  BY <1>1 DEF DeadHoldsNoLock
<1> QED
  BY <1>2, LifeInvariant, PTL

(* Whoever came out of mutex_lock(&proc_acces_lock) owns it, until a       *)
(* signal has woken or killed a waiter of it, or met a record under        *)
(* construction.                                                           *)
THEOREM LockKeptFromOthers == LifeSpec => [](early \/ killed \/ LockUnlessSignalled)
<1>1. TypeInv /\ (Undisturbed => Live) => early \/ killed \/ LockUnlessSignalled
  BY MutexAssumption
     DEF Undisturbed, Live, LockInv, HolderOwns, Mutex, LockUnlessSignalled, UnblockedHasLock
<1> QED
  BY <1>1, LifeInvariant, PTL

-----------------------------------------------------------------------------
(* What a step may never do.  Both action properties speak of the state    *)
(* before the step, so they cover the step that disturbs.                  *)

(* A signal wakes the blocked, never the dead, and nobody revives the      *)
(* dying.                                                                  *)
LEMMA SignalDead ==
  ASSUME TypeInv, NEW p \in Proc, KillAct(p) \/ Exit(p),
         NEW q \in Proc, state[q] = "PROC_ZOMBIE"
  PROVE  state'[q] = "PROC_ZOMBIE"
<1>1. state \in [Proc -> ProcState] /\ SchedTypeOK
      /\ listed \subseteq Proc /\ ppid \in [Proc -> Proc]
  BY DEF TypeInv, LifeTypeOK, TypeOK, SchedTypeOK
<1>2. ASSUME NEW r \in Proc, NEW s \in [Proc -> ProcState], s[q] = "PROC_ZOMBIE", NEW ec,
             NEW sig, SignalWakes(r, s, ec, sig)
      PROVE  state'[q] = "PROC_ZOMBIE"
  BY <1>1, <1>2, SignalTypes
<1>3. ASSUME NEW d, MarkZombie(d)
      PROVE  state'[q] = "PROC_ZOMBIE"
  <2> DEFINE dead == [state EXCEPT ![d] = "PROC_ZOMBIE"]
             code == [exit_code EXCEPT ![d] = "other"]
  <2>1. dead \in [Proc -> ProcState] /\ dead[q] = "PROC_ZOMBIE"
    BY <1>1 DEF ProcState
  <2>2. \/ ppid'[d] \in listed /\ SignalWakes(ppid'[d], dead, code, "SIGCHLD")
        \/ state' = dead
    BY <1>3 DEF MarkZombie
  <2> HIDE DEF dead, code
  <2> QED
    BY <1>1, <1>2, <2>1, <2>2
<1>4. CASE KillAct(p)
  <2>1. CASE SignalWakes(arg[p].pid, state, exit_code, "other") /\ arg[p].pid \in listed
    BY <1>1, <1>2, <2>1
  <2>2. CASE state[arg[p].pid] = "PROC_READY" /\ Block(arg[p].pid)
    BY <1>1, <2>2 DEF Block
  <2>3. CASE UNCHANGED state
    BY <2>3
  <2>4. CASE KillProcess(arg[p].pid)
    BY <1>3, <2>4 DEF KillProcess
  <2> QED
    BY <1>4, <2>1, <2>2, <2>3, <2>4 DEF KillAct, Schedule, schedVars
<1>5. CASE Exit(p)
  BY <1>3, <1>5 DEF Exit, KillProcess
<1> QED
  BY <1>4, <1>5

(* No step but sys_spawn's makes a zombie anything else.                   *)
LEMMA DeadStep ==
  ASSUME TypeInv, Live, [LifeNext]_allVars,
         NEW q \in Proc, state[q] = "PROC_ZOMBIE", state'[q] # "PROC_ZOMBIE"
  PROVE  at[current] = "spawn_create"
<1>1. TypeInv'
  BY TypeNext
<1>2. UNCHANGED state => at[current] = "spawn_create"
  OBVIOUS
<1>3. ASSUME NEW p \in Proc, Exit(p) \/ InMutex(p) \/ KillAct(p) \/ WaitBlock(p)
      PROVE  at[current] = "spawn_create"
  BY <1>1, <1>3, InMutexLive, SignalDead, WaitBlockLive
<1>4. ASSUME NEW p \in Proc, NEW from \in LockFrom, NEW to \in LockTo, LockThen(p, from, to)
      PROVE  at[current] = "spawn_create"
  BY <1>2, <1>4, LockThenLive
<1>5. ASSUME NEW p \in Proc, NEW from \in UnlockFrom, NEW to \in UnlockTo,
             UnlockThen(p, from, to), from = "spawn_unlock" <=> to = "spawn_create"
      PROVE  at[current] = "spawn_create"
  BY <1>2, <1>5, UnlockThenLive
<1>6. ASSUME NEW p \in Proc, SpawnCreate(p)
      PROVE  at[current] = "spawn_create"
  BY <1>6 DEF SpawnCreate, At, Running
<1>7. ASSUME NEW p \in Proc, Kill(p)
      PROVE  at[current] = "spawn_create"
  BY <1>1, <1>2, <1>3, <1>4, <1>5, <1>7, CallStepLive DEF Kill, LockFrom, LockTo, UnlockFrom,
     UnlockTo
<1>8. ASSUME NEW p \in Proc, Wait(p)
      PROVE  at[current] = "spawn_create"
  BY <1>1, <1>2, <1>3, <1>4, <1>5, <1>8, CallStepLive, ClearLive, ScanHolds
     DEF Wait, LockFrom, LockTo, UnlockFrom, UnlockTo
<1>9. ASSUME NEW p \in Proc, Spawn(p)
      PROVE  at[current] = "spawn_create"
  BY <1>1, <1>2, <1>4, <1>5, <1>6, <1>9, CallStepLive, SpawnAllocLive, SpawnParentLive
     DEF Spawn, LockFrom, LockTo, UnlockFrom, UnlockTo
<1>10. CASE LifeTick
  BY <1>1, <1>2, <1>10, TickLive
<1>11. CASE IdleLoop \/ UNCHANGED allVars
  BY <1>2, <1>11 DEF IdleLoop, allVars, vars, schedVars
<1> QED
  BY <1>3, <1>7, <1>8, <1>9, <1>10, <1>11 DEF LifeNext

(* Only the owner of proc_acces_lock and the kernel's init loop change the *)
(* process list.                                                           *)
LEMMA ListedStep ==
  ASSUME TypeInv, Live, [LifeNext]_allVars, listed' # listed
  PROVE  current = Idle \/ (lock[ProcLock] = 1 /\ owner[ProcLock] = current)
<1> DEFINE Allowed == current = Idle \/ (lock[ProcLock] = 1 /\ owner[ProcLock] = current)
<1>1. ASSUME NEW p \in Proc, Exit(p) \/ InMutex(p)
      PROVE  Allowed
  BY <1>1 DEF Exit, InMutex, lifeVars
<1>2. ASSUME NEW p \in Proc, Kill(p)
      PROVE  Allowed
  BY <1>2 DEF Kill, KillCall, LockThen, UnlockThen, KillCheck, KillAct
<1>3. ASSUME NEW p \in Proc, Wait(p)
      PROVE  Allowed
  BY <1>3, ScanHolds DEF Wait, WaitCall, LockThen, UnlockThen, Clear, WaitTest, WaitBlock
<1>4. ASSUME NEW p \in Proc, Spawn(p)
      PROVE  Allowed
  <2>1. TypeInv'
    BY TypeNext
  <2> QED
    BY <1>4, <2>1, SpawnAllocLive DEF Spawn, SpawnCall, LockThen, UnlockThen, SpawnCreate,
       SpawnParent
<1>5. CASE IdleLoop
  BY <1>5 DEF IdleLoop, At, Running
<1>6. CASE LifeTick \/ UNCHANGED allVars
  BY <1>6 DEF LifeTick, allVars, lifeVars
<1> QED
  BY <1>1, <1>2, <1>3, <1>4, <1>5, <1>6 DEF LifeNext

(* The process list changes only under proc_acces_lock, or in the kernel's *)
(* init loop.                                                              *)
THEOREM ListChangesUnderLock == LifeSpec => ListedUnderLock
<1>1. TypeInv /\ BaseInv /\ (Undisturbed => Live) /\ [LifeNext]_allVars =>
        [Undisturbed /\ listed' # listed =>
           current = Idle \/ (lock[ProcLock] = 1 /\ owner[ProcLock] = current)]_allVars
  BY ListedStep
<1> QED
  BY <1>1, LifeInvariant, PTL DEF LifeSpec, ListedUnderLock

(* The dead stay dead, until sys_spawn uses their record again.            *)
THEOREM TheDeadStayDead == LifeSpec => DeadStayDead
<1>1. TypeInv /\ BaseInv /\ (Undisturbed => Live) /\ [LifeNext]_allVars =>
        [Undisturbed => \A q \in Proc : state[q] = "PROC_ZOMBIE" /\ state'[q] # "PROC_ZOMBIE"
                          => at[current] = "spawn_create"]_allVars
  BY DeadStep
<1> QED
  BY <1>1, LifeInvariant, PTL DEF LifeSpec, DeadStayDead

=============================================================================
