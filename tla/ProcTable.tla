----------------------------- MODULE ProcTable -----------------------------
(***************************************************************************)
(* The process table of kernel/proc.c: records, pids and kernel stacks, and *)
(* how sys_spawn (proc_create), svc_handler and sys_waitpid (proc_reap)    *)
(* take them, swap them and give them back, in any number of processes at  *)
(* once.                                                                   *)
(*                                                                         *)
(* proc_acces_lock is held while a record is taken, in one step, and from  *)
(* the scan of sys_waitpid to the end of proc_reap.  The free lists of     *)
(* pids and stacks have no lock: their top is loaded in one step and       *)
(* stored in another.  After two processes were between the two at once    *)
(* (history: mishaps) only one of the orders of their accesses is modelled. *)
(*                                                                         *)
(* A user process has two contexts: the one that runs, and the saved one.  *)
(* svc_handler swaps them on the way into a system call and on the way     *)
(* out.  Of a context only the stack it runs on is modelled.               *)
(***************************************************************************)
EXTENDS Naturals, FiniteSets

CONSTANTS Rec,       \* the process records (struct proc)
          Idle,      \* the record of the kernel's init loop, pid 0
          Parent,    \* the record of process 1
          NumProc,   \* PROC_MAX_PROC: how many pids and kernel stacks there are
          UserStack, \* the stack in a process's own memory
          None,
          MaxSpawns  \* bound: how many calls of sys_spawn there are

ASSUME ProcTableAssumption ==
  /\ IsFiniteSet(Rec) /\ Idle \in Rec /\ Parent \in Rec \ {Idle} /\ None \notin Rec
  /\ NumProc \in Nat /\ NumProc >= 2
  /\ UserStack \notin Nat
  /\ MaxSpawns \in Nat

VARIABLES active,       \* the records in proc_active_list
          pid_list, pid_top,       \* proc_pid_free_list and its top
          stack_list, stack_top,   \* stack_free_list and its top
          access_lock,  \* proc_acces_lock: its owner, or None
          pid, ppid, state,        \* fields of the records
          splim,        \* the stack of the context that runs
          save_splim,   \* the stack of the saved context
          at,           \* where in a system call a process is
          child,        \* the record it builds or reaps
          top,          \* the top of a free list that it has loaded
          spawns,       \* history: how many calls of sys_spawn there were
          mishaps       \* history: what went wrong (see Mishap)

lists == <<pid_list, pid_top, stack_list, stack_top>>
fields == <<pid, ppid, state, splim, save_splim>>
procVars == <<active, lists, access_lock, fields, at, child, top, spawns, mishaps>>

Pid == 0..(NumProc - 1)
Stack == 0..(NumProc - 1)
States == {"PROC_BLOCKED", "PROC_READY", "PROC_ZOMBIE"}

\* a process is in proc_create, and in the code of a free list without a lock
Building == {"pid_alloc", "pid_take", "stack_alloc", "stack_take"}
InPids == {"pid_take", "pid_put"}
InStacks == {"stack_take", "stack_put"}

Places == Building \cup {"user", "kernel", "parent", "stack_free", "stack_put", "pid_free",
                         "pid_put", "free"}

\* what the code does not prevent
Mishap == {"exhausted",  \* proc_create has found no pid and left the record listed
           "killed",     \* a process was killed in proc_create
           "early",      \* a record was reaped while proc_create was building it
           "raced"}      \* two processes changed a free list at once

ProcTypeOK ==
  /\ active \in SUBSET Rec
  /\ pid_list \in [Pid -> Pid] /\ pid_top \in 0..NumProc
  /\ stack_list \in [Stack -> Stack \cup {UserStack}] /\ stack_top \in 0..NumProc
  /\ access_lock \in Rec \cup {None}
  /\ pid \in [Rec -> Pid] /\ ppid \in [Rec -> Pid]
  /\ state \in [Rec -> States]
  /\ splim \in [Rec -> Stack \cup {UserStack}]
  /\ save_splim \in [Rec -> Stack \cup {UserStack}]
  /\ at \in [Rec -> Places]
  /\ child \in [Rec -> Rec \cup {None}]
  /\ top \in [Rec -> 0..NumProc]
  /\ spawns \in 0..MaxSpawns
  /\ mishaps \in SUBSET Mishap

\* proc_init, and the creation of the processes 0 and 1; what kzalloc returns
\* is a zombie with pid 0 and parent 0
ProcInit ==
  /\ active = {Idle, Parent}
  /\ pid_list = [k \in Pid |-> NumProc - k - 1] /\ pid_top = NumProc - 2
  /\ stack_list = [k \in Stack |-> k] /\ stack_top = NumProc - 2
  /\ access_lock = None
  /\ pid = [r \in Rec |-> IF r = Parent THEN 1 ELSE 0]
  /\ ppid = [r \in Rec |-> 0]
  /\ state = [r \in Rec |-> IF r \in {Idle, Parent} THEN "PROC_READY" ELSE "PROC_ZOMBIE"]
  /\ splim = [r \in Rec |-> IF r = Idle THEN NumProc - 1 ELSE UserStack]
  /\ save_splim = [r \in Rec |-> IF r = Parent THEN NumProc - 2 ELSE UserStack]
  /\ at = [r \in Rec |-> "user"]
  /\ child = [r \in Rec |-> None]
  /\ top = [r \in Rec |-> 0]
  /\ spawns = 0
  /\ mishaps = {}

----------------------------------------------------------------------------
Live(r) == r \in active /\ state[r] # "PROC_ZOMBIE"
At(p, place) == Live(p) /\ state[p] = "PROC_READY" /\ p # Idle /\ at[p] = place
Go(p, place) == at' = [at EXCEPT ![p] = place]

\* the records that proc_create is working on
HalfBuilt == {child[p] : p \in {q \in Rec : at[q] \in Building}}

Happens(mishap, when) == mishaps' = IF when THEN mishaps \cup {mishap} ELSE mishaps

\* svc_handler of a process; the byte it inverts, 32, is in program_size and
\* not kernel_mode
Svc(p) ==
  /\ \/ At(p, "user") /\ Go(p, "kernel")
     \/ At(p, "kernel") /\ Go(p, "user")
  /\ splim' = [splim EXCEPT ![p] = save_splim[p]]
  /\ save_splim' = [save_splim EXCEPT ![p] = splim[p]]
  /\ UNCHANGED <<active, lists, access_lock, pid, ppid, state, child, top, spawns, mishaps>>

----------------------------------------------------------------------------
(* sys_spawn, from proc_create on *)

\* proc_alloc_process: a record that was freed, or a new one; it is listed as
\* it is
TakeRecord(p) ==
  /\ At(p, "kernel") /\ spawns < MaxSpawns
  /\ access_lock = None
  /\ \E r \in Rec \ active :
       /\ active' = active \cup {r}
       /\ child' = [child EXCEPT ![p] = r]
  /\ spawns' = spawns + 1
  /\ Go(p, "pid_alloc")
  /\ UNCHANGED <<lists, access_lock, fields, top, mishaps>>

\* proc_pid_alloc
PidAlloc(p) ==
  /\ At(p, "pid_alloc") /\ pid_top # 0
  /\ top' = [top EXCEPT ![p] = pid_top]
  /\ Happens("raced", \E q \in Rec : at[q] \in InPids)
  /\ Go(p, "pid_take")
  /\ UNCHANGED <<active, lists, access_lock, fields, child, spawns>>

\* there is no pid left: proc_create returns, and the record stays listed
PidAllocFails(p) ==
  /\ At(p, "pid_alloc") /\ pid_top = 0
  /\ Happens("exhausted", TRUE)
  /\ child' = [child EXCEPT ![p] = None]
  /\ Go(p, "kernel")
  /\ UNCHANGED <<active, lists, access_lock, fields, top, spawns>>

PidTake(p) ==
  /\ At(p, "pid_take")
  /\ pid_top' = top[p] - 1
  /\ pid' = [pid EXCEPT ![child[p]] = pid_list[top[p] - 1]]
  /\ splim' = [splim EXCEPT ![child[p]] = UserStack]
  /\ Go(p, "stack_alloc")
  /\ UNCHANGED <<active, pid_list, stack_list, stack_top, access_lock, ppid, state, save_splim,
                 child, top, spawns, mishaps>>

\* proc_stack_alloc; without a stack the kernel panics
StackAlloc(p) ==
  /\ At(p, "stack_alloc") /\ stack_top # 0
  /\ top' = [top EXCEPT ![p] = stack_top]
  /\ Happens("raced", \E q \in Rec : at[q] \in InStacks)
  /\ Go(p, "stack_take")
  /\ UNCHANGED <<active, lists, access_lock, fields, child, spawns>>

\* the rest of proc_create: the new process starts in its own program, stopped
StackTake(p) ==
  LET r == child[p] IN
  /\ At(p, "stack_take")
  /\ stack_top' = top[p] - 1
  /\ save_splim' = [save_splim EXCEPT ![r] = stack_list[top[p] - 1]]
  /\ state' = [state EXCEPT ![r] = "PROC_BLOCKED"]
  /\ at' = [at EXCEPT ![p] = "parent", ![r] = "user"]
  /\ UNCHANGED <<active, pid_list, pid_top, stack_list, access_lock, pid, ppid, splim, child, top,
                 spawns, mishaps>>

SetParent(p) ==
  /\ At(p, "parent")
  /\ ppid' = [ppid EXCEPT ![child[p]] = pid[p]]
  /\ child' = [child EXCEPT ![p] = None]
  /\ Go(p, "kernel")
  /\ UNCHANGED <<active, lists, access_lock, pid, state, splim, save_splim, top, spawns, mishaps>>

Spawn(p) == \/ TakeRecord(p) \/ PidAlloc(p) \/ PidAllocFails(p) \/ PidTake(p)
            \/ StackAlloc(p) \/ StackTake(p) \/ SetParent(p)

----------------------------------------------------------------------------
(* Signals and death *)

\* kill(pid, SIGCONT) from the parent to a new process
Start(p, r) ==
  /\ At(p, "kernel") /\ access_lock = None
  /\ r \in active /\ state[r] = "PROC_BLOCKED" /\ ppid[r] = pid[p]
  /\ state' = [state EXCEPT ![r] = "PROC_READY"]
  /\ UNCHANGED <<active, lists, access_lock, pid, ppid, splim, save_splim, at, child, top, spawns,
                 mishaps>>

\* proc_mark_zombie: in sys_exit, or by a signal from a process that holds
\* proc_acces_lock, wherever its victim is.  proc_kill_process defers the death
\* of a process with kernel_mode 1 only.  A bound: process 1 does not exit,
\* which would halt the kernel.
Die(r) ==
  /\ Live(r) /\ r \notin {Idle, Parent}
  /\ access_lock = None \/ at[r] = "kernel"
  /\ state' = [state EXCEPT ![r] = "PROC_ZOMBIE"]
  /\ ppid' = [c \in Rec |-> IF c \in active /\ ppid[c] = pid[r] THEN 1 ELSE ppid[c]]
  /\ Happens("killed", at[r] \in Building)
  /\ at' = [at EXCEPT ![r] = "user"]
  /\ child' = [child EXCEPT ![r] = None]
  /\ UNCHANGED <<active, lists, access_lock, pid, splim, save_splim, top, spawns>>

----------------------------------------------------------------------------
(* sys_waitpid and proc_reap; Files has the descriptors that it closes *)

\* a waitpid that gives proc_acces_lock back before it reaps what it has found
WaitPidUnlocks(p) ==
  /\ At(p, "kernel") /\ access_lock = None
  /\ \E r \in active :
       /\ state[r] = "PROC_ZOMBIE" /\ ppid[r] = pid[p]
       /\ child' = [child EXCEPT ![p] = r]
       /\ Happens("early", r \in HalfBuilt)
  /\ Go(p, "stack_free")
  /\ UNCHANGED <<active, lists, access_lock, fields, top, spawns>>

\* a zombie child is found; the lock is kept
WaitPid(p) ==
  /\ At(p, "kernel") /\ access_lock = None
  /\ access_lock' = p
  /\ \E r \in active :
       /\ state[r] = "PROC_ZOMBIE" /\ ppid[r] = pid[p]
       /\ child' = [child EXCEPT ![p] = r]
       /\ Happens("early", r \in HalfBuilt)
  /\ Go(p, "stack_free")
  /\ UNCHANGED <<active, lists, fields, top, spawns>>

\* proc_stack_free, and proc_pid_free below.  A bound: nothing is pushed behind
\* the end of a list.
StackFree(p) ==
  /\ At(p, "stack_free") /\ stack_top < NumProc
  /\ top' = [top EXCEPT ![p] = stack_top]
  /\ Happens("raced", \E q \in Rec : at[q] \in InStacks)
  /\ Go(p, "stack_put")
  /\ UNCHANGED <<active, lists, access_lock, fields, child, spawns>>

\* kernel_mode of the dead process is 0, so its saved stack is taken
StackPut(p) ==
  /\ At(p, "stack_put")
  /\ stack_list' = [stack_list EXCEPT ![top[p]] = save_splim[child[p]]]
  /\ stack_top' = top[p] + 1
  /\ Go(p, "pid_free")
  /\ UNCHANGED <<active, pid_list, pid_top, access_lock, fields, child, top, spawns, mishaps>>

PidFree(p) ==
  /\ At(p, "pid_free") /\ pid_top < NumProc
  /\ top' = [top EXCEPT ![p] = pid_top]
  /\ Happens("raced", \E q \in Rec : at[q] \in InPids)
  /\ Go(p, "pid_put")
  /\ UNCHANGED <<active, lists, access_lock, fields, child, spawns>>

\* a pid that is given back twice
PidPutTwice(p) ==
  /\ At(p, "pid_put")
  /\ pid_list' = [k \in Pid |-> IF k \in {top[p], top[p] + 1} THEN pid[child[p]] ELSE pid_list[k]]
  /\ pid_top' = top[p] + 2
  /\ Go(p, "free")
  /\ UNCHANGED <<active, stack_list, stack_top, access_lock, fields, child, top, spawns, mishaps>>

PidPut(p) ==
  /\ At(p, "pid_put")
  /\ pid_list' = [pid_list EXCEPT ![top[p]] = pid[child[p]]]
  /\ pid_top' = top[p] + 1
  /\ Go(p, "free")
  /\ UNCHANGED <<active, stack_list, stack_top, access_lock, fields, child, top, spawns, mishaps>>

\* proc_free_process, and the mutex_unlock of sys_waitpid
FreeRecord(p) ==
  /\ At(p, "free")
  /\ active' = active \ {child[p]}
  /\ access_lock' = None
  /\ child' = [child EXCEPT ![p] = None]
  /\ Go(p, "kernel")
  /\ UNCHANGED <<lists, fields, top, spawns, mishaps>>

Wait(p) == WaitPid(p) \/ StackFree(p) \/ StackPut(p) \/ PidFree(p) \/ PidPut(p) \/ FreeRecord(p)

----------------------------------------------------------------------------
ProcNext ==
  \E p \in Rec :
    \/ Svc(p) \/ Spawn(p) \/ Wait(p) \/ Die(p)
    \/ \E r \in Rec : Start(p, r)

ProcSpec == ProcInit /\ [][ProcNext]_procVars

----------------------------------------------------------------------------
\* the listed records that have a pid of their own: not yet, while proc_create
\* looks for one, and no longer, once proc_reap has given it back
HasPid ==
  active \ {child[p] : p \in {q \in Rec : at[q] \in {"pid_alloc", "pid_take", "free"}}}

(* However many processes spawn, die and reap at once: every pid is on the *)
(* free list once, or belongs to one record.  So no two processes have the *)
(* same pid and none is lost, until one of the mishaps that nothing in the *)
(* code prevents.  proc_reap runs with proc_acces_lock held, proc_create   *)
(* only takes its record under it, and for a moment both leave a listed    *)
(* record with a pid it does not own.                                      *)
PidsConserved ==
  mishaps = {} =>
    \A n \in Pid : Cardinality({k \in 0..(pid_top - 1) : pid_list[k] = n})
                     + Cardinality({r \in HasPid : pid[r] = n}) = 1

\* the listed records that have a kernel stack
HasStack ==
  active \ {child[p] : p \in {q \in Rec : at[q] \in Building \cup {"pid_free", "pid_put", "free"}}}

(* proc.c: proc_stack_free panics with "stack memory leak!": every kernel  *)
(* stack is on the free list once, or a process has it.                    *)
StacksConserved ==
  mishaps = {} =>
    \A s \in Stack :
      Cardinality({k \in 0..(stack_top - 1) : stack_list[k] = s})
        + Cardinality({r \in HasStack : s \in {splim[r], save_splim[r]}}) = 1
=============================================================================
