----------------------------- MODULE Scheduler -----------------------------
(***************************************************************************)
(* The scheduler of kernel/proc.c and arch/armv8-m/proc.c: one current     *)
(* process, a run queue of at most MaxProc (PROC_MAX_PROC) entries, and    *)
(* PendSV, which runs proc_sched_new_task.  A section of the code that     *)
(* runs with interrupts disabled is one atomic step; the pending PendSV    *)
(* fires the moment interrupts are enabled again, so a section that ends   *)
(* in proc_restart_scheduling() ends in the switch to another process.     *)
(***************************************************************************)
EXTENDS Naturals, Sequences, FiniteSets

CONSTANTS Proc,     \* the processes (struct proc)
          Idle,     \* process 0, the kernel's init loop, which never blocks
          MaxProc   \* PROC_MAX_PROC, the length of the run queue

ASSUME SchedulerAssumption ==
  IsFiniteSet(Proc) /\ Idle \in Proc /\ MaxProc \in Nat \ {0}

VARIABLES current,        \* current_process
          state,          \* proc->state
          run_queue,      \* the ring proc_run_queue, oldest entry first
          sched_started,  \* proc_sched_started
          halted          \* a BKPT was executed: the processor has stopped

schedVars == <<current, state, run_queue, sched_started, halted>>

ProcState == {"PROC_READY", "PROC_BLOCKED", "PROC_ZOMBIE"}

SchedTypeOK ==
  /\ current \in Proc
  /\ state \in [Proc -> ProcState]
  /\ run_queue \in Seq(Proc)
  /\ Len(run_queue) <= MaxProc
  /\ sched_started \in BOOLEAN
  /\ halted \in BOOLEAN

(* p executes its next instruction *)
Running(p) == ~halted /\ current = p

----------------------------------------------------------------------------
\* proc_enqueue that forgets that the ring may be full
EnqueueUnbounded(q, p) == Append(q, p)

\* proc_enqueue that adds at the end proc_dequeue takes from
EnqueueFront(q, p) == IF Len(q) = MaxProc THEN q ELSE <<p>> \o q

\* proc_enqueue that overwrites the oldest entry of a full ring
EnqueueOverwrites(q, p) == Append(IF Len(q) = MaxProc THEN Tail(q) ELSE q, p)

\* proc_enqueue: a full queue drops the process (no caller looks at the -1)
Enqueue(q, p) == IF Len(q) = MaxProc THEN q ELSE Append(q, p)

\* the entries of q that the loop of proc_sched_new_task can stop at
ReadyEntries(q, s) == {i \in DOMAIN q : s[q[i]] = "PROC_READY"}

\* proc_sched_new_task that forgets to keep the running process
NewTaskDropsCurrent(q, s) ==
  LET ready == ReadyEntries(q, s)
  IN  IF ready = {}
      THEN halted' = TRUE /\ run_queue' = <<>> /\ UNCHANGED current
      ELSE \E i \in ready :
             /\ \A j \in ready : i <= j
             /\ current' = q[i]
             /\ run_queue' = SubSeq(q, i + 1, Len(q))
             /\ UNCHANGED halted

\* proc_sched_new_task, on the run queue q and the process states s: the
\* running process goes to the back, and entries that are not ready are
\* dropped until a ready one is found; an empty queue ends in a BKPT
NewTask(q, s) ==
  LET q1 == IF s[current] = "PROC_READY" THEN Enqueue(q, current) ELSE q
      ready == ReadyEntries(q1, s)
  IN  IF ready = {}
      THEN halted' = TRUE /\ run_queue' = <<>> /\ UNCHANGED current
      ELSE \E i \in ready :
             /\ \A j \in ready : i <= j
             /\ current' = q1[i]
             /\ run_queue' = SubSeq(q1, i + 1, Len(q1))
             /\ UNCHANGED halted

\* proc_block(p)
Block(p) ==
  /\ state' = [state EXCEPT ![p] = "PROC_BLOCKED"]
  /\ sched_started' = TRUE
  /\ NewTask(run_queue, state')

\* proc_unblock_process(p)
Unblock(p) ==
  /\ state' = [state EXCEPT ![p] = "PROC_READY"]
  /\ sched_started' = TRUE
  /\ NewTask(Enqueue(run_queue, p), state')

\* proc_schedule()
Schedule ==
  /\ sched_started' = TRUE
  /\ NewTask(run_queue, state)
  /\ UNCHANGED state

\* systick_handler and pendsv_handler preempt the running process
Preempt ==
  /\ ~halted /\ sched_started
  /\ NewTask(run_queue, state)
  /\ UNCHANGED <<state, sched_started>>
=============================================================================
