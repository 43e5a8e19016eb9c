------------------------------ MODULE FifoLock ------------------------------
(***************************************************************************)
(* What a kernel mutex promises, without pointers, scheduler or program    *)
(* counters: a recursive lock that a release hands to the process that has *)
(* waited longest.  KernelMutex implements it.                             *)
(***************************************************************************)
EXTENDS Naturals, Sequences

CONSTANTS Proc, Mutex, Nil

VARIABLES holder,   \* who has the mutex, Nil if nobody has
          level,    \* how often the holder has taken it
          queue     \* who waits for it, the longest waiting first

vars == <<holder, level, queue>>

Init ==
  /\ holder = [m \in Mutex |-> Nil]
  /\ level = [m \in Mutex |-> 0]
  /\ queue = [m \in Mutex |-> <<>>]

Acquire(p, m) ==
  /\ holder[m] = Nil /\ queue[m] = <<>>
  /\ holder' = [holder EXCEPT ![m] = p]
  /\ level' = [level EXCEPT ![m] = 1]
  /\ UNCHANGED queue

Reenter(m) ==
  /\ holder[m] # Nil
  /\ level' = [level EXCEPT ![m] = @ + 1]
  /\ UNCHANGED <<holder, queue>>

Join(p, m) ==
  /\ holder[m] \notin {p, Nil}
  /\ \A i \in DOMAIN queue[m] : queue[m][i] # p
  /\ queue' = [queue EXCEPT ![m] = Append(@, p)]
  /\ UNCHANGED <<holder, level>>

LeaveOnce(m) ==
  /\ level[m] > 1
  /\ level' = [level EXCEPT ![m] = @ - 1]
  /\ UNCHANGED <<holder, queue>>

HandOver(m) ==
  /\ level[m] = 1 /\ queue[m] # <<>>
  /\ holder' = [holder EXCEPT ![m] = Head(queue[m])]
  /\ queue' = [queue EXCEPT ![m] = Tail(@)]
  /\ UNCHANGED level

Free(m) ==
  /\ level[m] = 1 /\ queue[m] = <<>>
  /\ holder' = [holder EXCEPT ![m] = Nil]
  /\ level' = [level EXCEPT ![m] = 0]
  /\ UNCHANGED queue

Next ==
  \E m \in Mutex :
    \/ \E p \in Proc : Acquire(p, m) \/ Join(p, m)
    \/ Reenter(m) \/ LeaveOnce(m) \/ HandOver(m) \/ Free(m)

Spec == Init /\ [][Next]_vars
=============================================================================
