----------------------------- MODULE Lifecycle -----------------------------
(***************************************************************************)
(* Process lifecycle and signals: spawn, SIGCONT, exit, kill, waitpid      *)
(* (kernel/exec.c, kernel/proc.c) on top of the mutex proc_acces_lock, the *)
(* wait queues and the scheduler.  A system call is a sequence of steps,   *)
(* cut where the code enables interrupts: a process can be preempted       *)
(* between any two of them.                                                *)
(*                                                                         *)
(* A process stands for its record, its pid and its thread; a record that  *)
(* was freed is used again.  The mutex is not taken a second time within a *)
(* section that holds it (proc_get_process).                               *)
(***************************************************************************)
EXTENDS KernelMutex

CONSTANTS InitProc,   \* process 1
          Sigs,       \* the signals that sys_kill is called with
          Resume,     \* whether SIGCONT is sent to any process, or only by a
                      \* parent to start a child
          MaxSpawn    \* bound: how many processes are spawned

ASSUME LifecycleAssumption ==
  /\ InitProc \in Proc \ {Idle}
  /\ Sigs \subseteq {"SIGCONT", "SIGSTOP", "SIGKILL"}
  /\ Nil \notin {"SIGCONT", "SIGSTOP", "SIGKILL"}
  /\ Resume \in BOOLEAN
  /\ MaxSpawn \in Nat

VARIABLES listed,      \* the processes in proc_active_list
          ppid,        \* proc->ppid
          exit_code,   \* proc->exit_code: the last signal, or the exit status
          at,          \* where in a system call a process is
          arg,         \* kill: its arguments; spawn: the record of the new process
          children,    \* waitpid: child_count # 0
          spawned,     \* history: how many processes were spawned
          spurious,    \* history: a signal has unblocked a process that
                       \* waited for the mutex
          early,       \* history: a record was reaped, or woken by a signal,
                       \* before sys_spawn was done with it
          killed       \* history: a process has sent SIGKILL to itself, or to
                       \* one in the queue of the mutex, or to the builder of a
                       \* record or the record, before sys_spawn was done with it

disturbed == <<spurious, early, killed>>
lifeVars == <<listed, ppid, exit_code, at, arg, children, spawned, disturbed>>
allVars == <<vars, lifeVars>>

Labels == {"user",
           "kill_lock", "kill_check", "kill_checked", "kill_relock", "kill_act",
           "kill_unlock",
           "wait_lock", "wait_scan", "wait_found", "wait_clear", "wait_none",
           "wait_test", "wait_block", "wait_woken", "wait_relock", "wait_rescan",
           "wait_unlock",
           "spawn_lock", "spawn_alloc", "spawn_unlock", "spawn_create",
           "spawn_parent"}

LifeTypeOK ==
  /\ TypeOK
  /\ listed \in SUBSET Proc
  /\ ppid \in [Proc -> Proc]
  /\ exit_code \in [Proc -> {"none", "SIGCHLD", "other"}]
  /\ at \in [Proc -> Labels]
  /\ arg \in [Proc -> [pid : Proc \cup {Nil}, sig : Sigs \cup {Nil}]]
  /\ children \in [Proc -> BOOLEAN]
  /\ spawned \in 0..MaxSpawn
  /\ spurious \in BOOLEAN
  /\ early \in BOOLEAN
  /\ killed \in BOOLEAN

\* The kernel's init loop runs as Idle and has started process 1.  The other
\* records are as kzalloc returns them: state 0 is PROC_ZOMBIE, ppid 0 is Idle.
LifeInit ==
  /\ MutexInit /\ WaiterInit
  /\ current = InitProc
  /\ state = [p \in Proc |-> IF p \in {Idle, InitProc} THEN "PROC_READY" ELSE "PROC_ZOMBIE"]
  /\ pc = [p \in Proc |-> "run"]
  /\ run_queue = <<Idle>>
  /\ sched_started = TRUE
  /\ halted = FALSE
  /\ listed = {Idle, InitProc}
  /\ ppid = [p \in Proc |-> Idle]
  /\ exit_code = [p \in Proc |-> "none"]
  /\ at = [p \in Proc |-> "user"]
  /\ arg = [p \in Proc |-> [pid |-> Nil, sig |-> Nil]]
  /\ children = [p \in Proc |-> FALSE]
  /\ spawned = 0
  /\ spurious = FALSE
  /\ early = FALSE
  /\ killed = FALSE

----------------------------------------------------------------------------
\* p runs its own code at label l, outside mutex_lock and mutex_unlock
At(p, l) == Running(p) /\ pc[p] = "run" /\ at[p] = l
GoTo(p, l) == at' = [at EXCEPT ![p] = l]

Lock(p) == LockNested(p, ProcLock) \/ LockClaim(p, ProcLock) \/ LockWait(p, ProcLock)

\* the BKPT of mutex_unlock: the caller does not own the mutex
UnlockForeign(p) ==
  /\ CallUnlock(p, ProcLock) /\ sched_started
  /\ owner[ProcLock] # p
  /\ halted' = TRUE
  /\ UNCHANGED <<current, state, run_queue, sched_started, waiterVars, mutexVars>>

Unlock(p) == \/ UnlockNested(p, ProcLock) \/ UnlockHandOff(p, ProcLock)
             \/ UnlockRelease(p, ProcLock) \/ UnlockForeign(p)

LockThen(p, from, to) ==
  /\ At(p, from) /\ Lock(p) /\ GoTo(p, to)
  /\ UNCHANGED <<listed, ppid, exit_code, arg, children, spawned, disturbed>>

UnlockThen(p, from, to) ==
  /\ At(p, from) /\ Unlock(p) /\ GoTo(p, to)
  /\ UNCHANGED <<listed, ppid, exit_code, arg, children, spawned, disturbed>>

----------------------------------------------------------------------------
(* Signals *)

\* the records between proc_alloc_process and the end of sys_spawn
HalfBuilt == {arg[p].pid : p \in {q \in Proc : at[q] \in {"spawn_unlock", "spawn_create",
                                                          "spawn_parent"}}}

\* SIGCHLD or SIGCONT to q under the process states s and exit codes ec: it is
\* noted in exit_code, and it unblocks q whatever q is blocked on
SignalWakes(q, s, ec, sig) ==
  /\ exit_code' = [ec EXCEPT ![q] = sig]
  /\ spurious' = (spurious \/ (s[q] = "PROC_BLOCKED" /\ Waits(q)))
  /\ early' = (early \/ (s[q] = "PROC_BLOCKED" /\ q \in HalfBuilt))
  /\ sched_started' = TRUE
  /\ IF s[q] = "PROC_BLOCKED"
     THEN /\ state' = [s EXCEPT ![q] = "PROC_READY"]
          /\ NewTask(Enqueue(run_queue, q), state')
     ELSE /\ state' = s
          /\ NewTask(run_queue, s)

\* proc_mark_zombie that leaves the children of q alone
MarkZombieOrphans(q) ==
  LET dead == [state EXCEPT ![q] = "PROC_ZOMBIE"]
      code == [exit_code EXCEPT ![q] = "other"]
  IN  /\ IF waiting_on[q] # Nil THEN WaiterRemove(waiting_on[q], q)
                                ELSE UNCHANGED waiterVars
      /\ ppid' = ppid
      /\ \/ /\ ppid[q] \in listed
            /\ SignalWakes(ppid[q], dead, code, "SIGCHLD")
         \/ /\ ppid[q] \notin listed
            /\ state' = dead /\ exit_code' = code
            /\ sched_started' = FALSE
            /\ UNCHANGED <<current, run_queue, halted, spurious, early>>

\* proc_mark_zombie that signals the parent only if it is blocked
MarkZombieWakesOnly(q) ==
  LET dead == [state EXCEPT ![q] = "PROC_ZOMBIE"]
      code == [exit_code EXCEPT ![q] = "other"]
  IN  /\ UNCHANGED waiterVars
      /\ ppid' = [r \in Proc |-> IF r \in listed /\ ppid[r] = q THEN InitProc ELSE ppid[r]]
      /\ \/ /\ state[ppid'[q]] = "PROC_BLOCKED"
            /\ SignalWakes(ppid'[q], dead, code, "SIGCHLD")
         \/ /\ state[ppid'[q]] # "PROC_BLOCKED"
            /\ state' = dead /\ exit_code' = code
            /\ sched_started' = FALSE
            /\ UNCHANGED <<current, run_queue, halted, spurious, early>>

\* proc_mark_zombie(q): the scheduler is stopped, so it is one step, which
\* ends in the switch inside the SIGCHLD to the parent
MarkZombie(q) ==
  LET dead == [state EXCEPT ![q] = "PROC_ZOMBIE"]
      code == [exit_code EXCEPT ![q] = "other"]
  IN  /\ IF waiting_on[q] # Nil THEN WaiterRemove(waiting_on[q], q)
                                ELSE UNCHANGED waiterVars
      /\ ppid' = [r \in Proc |-> IF r \in listed /\ ppid[r] = q THEN InitProc ELSE ppid[r]]
      /\ \/ /\ ppid'[q] \in listed
            /\ SignalWakes(ppid'[q], dead, code, "SIGCHLD")
         \/ /\ ppid'[q] \notin listed
            /\ state' = dead /\ exit_code' = code
            /\ sched_started' = FALSE
            /\ UNCHANGED <<current, run_queue, halted, spurious, early>>

\* proc->kernel_mode: only proc_create sets it, to 1 for Idle alone.  On the
\* way into and out of a system call svc_handler means to invert it, but it
\* writes to the byte at offset 32 of struct proc, and the field is at 24.
KernelMode(q) == q = Idle

\* proc_kill_process(q).  Nobody signals Idle, the one process for which the
\* code would only set kill_pending.
KillProcess(q) ==
  /\ state[q] = "PROC_BLOCKED" \/ ~KernelMode(q)
  /\ MarkZombie(q)

\* sys_exit
Exit(p) ==
  /\ At(p, "user") /\ p # Idle
  /\ KillProcess(p)
  /\ UNCHANGED <<mutexVars, listed, at, arg, children, spawned, killed>>

KillCall(p, q, sig) ==
  /\ At(p, "user") /\ p # Idle
  /\ arg' = [arg EXCEPT ![p] = [pid |-> q, sig |-> sig]]
  /\ GoTo(p, "kill_lock")
  /\ UNCHANGED <<vars, listed, ppid, exit_code, children, spawned, disturbed>>

\* sys_kill looks the process up to check its owner
KillCheck(p) ==
  /\ At(p, "kill_check")
  /\ GoTo(p, IF arg[p].pid \in listed THEN "kill_checked" ELSE "kill_unlock")
  /\ UNCHANGED <<vars, listed, ppid, exit_code, arg, children, spawned, disturbed>>

\* what q leaves behind if p kills it now: the mutex, which p owns itself, a
\* place in the queue of the mutex, or a record under construction
Engaged(p, q) == \/ q = p
                 \/ waiting_on[q] # Nil
                 \/ q \in HalfBuilt
                 \/ at[q] \in {"spawn_unlock", "spawn_create", "spawn_parent"}

\* proc_send_sig, which proc_kill calls with the lock held.  A victim that is
\* not engaged is in no system call any more, unless it was handed the mutex:
\* then the wake-up that is on its way makes it go on.
KillAct(p) ==
  LET q == arg[p].pid
      sig == arg[p].sig
      Dies == q \in listed /\ sig = "SIGKILL" /\ state[q] # "PROC_ZOMBIE"
      Noted == exit_code' = [exit_code EXCEPT ![q] = "other"] /\ Schedule
  IN  /\ At(p, "kill_act")
      /\ at' = [at EXCEPT ![p] = "kill_unlock",
                          ![q] = IF Dies /\ ~Engaged(p, q) /\ ~Waits(q) THEN "user" ELSE @]
      /\ UNCHANGED <<mutexVars, listed, arg, children, spawned>>
      /\ \/ /\ q \notin listed
            /\ UNCHANGED <<schedVars, waiterVars, ppid, exit_code, disturbed>>
         \/ /\ q \in listed /\ sig = "SIGCONT"
            /\ SignalWakes(q, state, exit_code, "other")
            /\ UNCHANGED <<waiterVars, ppid, killed>>
         \/ /\ q \in listed /\ sig = "SIGSTOP" /\ state[q] = "PROC_READY"
            /\ exit_code' = [exit_code EXCEPT ![q] = "other"]
            /\ Block(q)
            /\ UNCHANGED <<waiterVars, ppid, disturbed>>
         \/ /\ Dies /\ KillProcess(q)
            /\ killed' = (killed \/ Engaged(p, q))
         \/ /\ q \in listed
            /\ \/ sig = "SIGSTOP" /\ state[q] # "PROC_READY"
               \/ sig = "SIGKILL" /\ state[q] = "PROC_ZOMBIE"
            /\ Noted
            /\ UNCHANGED <<waiterVars, ppid, disturbed>>

\* p may send sig to q: nobody signals Idle, or stops or kills process 1; a
\* bound: only a parent stops a process, and only its parent or a child kills it
Sends(p, q, sig) ==
  /\ q \in listed \ {Idle}
  /\ q = InitProc => sig = "SIGCONT"
  /\ sig = "SIGSTOP" => ppid[q] = p
  /\ sig = "SIGKILL" => ppid[q] = p \/ ppid[p] = q
  /\ ~Resume /\ sig = "SIGCONT" =>
       ppid[q] = p /\ state[q] = "PROC_BLOCKED" /\ at[q] = "user"

Kill(p) ==
  \/ \E q \in Proc, sig \in Sigs : Sends(p, q, sig) /\ KillCall(p, q, sig)
  \/ LockThen(p, "kill_lock", "kill_check")
  \/ KillCheck(p)
  \/ UnlockThen(p, "kill_checked", "kill_relock")
  \/ LockThen(p, "kill_relock", "kill_act")
  \/ KillAct(p)
  \/ UnlockThen(p, "kill_unlock", "user")

----------------------------------------------------------------------------
(* sys_waitpid(-1, wstatus, 0) *)
ZombieChildren(p) == {c \in listed : ppid[c] = p /\ state[c] = "PROC_ZOMBIE"}

\* proc_reap
Reap(c) ==
  /\ listed' = listed \ {c}
  /\ early' = (early \/ c \in HalfBuilt)

\* sys_waitpid that looks at the process list without the lock
WaitCallUnlocked(p) ==
  /\ At(p, "user") /\ p # Idle
  /\ GoTo(p, "wait_scan")
  /\ UNCHANGED <<vars, listed, ppid, exit_code, arg, children, spawned, disturbed>>

WaitCall(p) ==
  /\ At(p, "user") /\ p # Idle
  /\ GoTo(p, "wait_lock")
  /\ UNCHANGED <<vars, listed, ppid, exit_code, arg, children, spawned, disturbed>>

\* a scan that returns with the list still locked when it finds a zombie
ScanKeepsLock(p, from, found, none) ==
  /\ At(p, from)
  /\ children' = [children EXCEPT ![p] = \E c \in listed : ppid[c] = p]
  /\ IF ZombieChildren(p) = {}
     THEN GoTo(p, none) /\ UNCHANGED <<listed, early>>
     ELSE GoTo(p, "wait_clear") /\ \E c \in ZombieChildren(p) : Reap(c)
  /\ UNCHANGED <<vars, ppid, exit_code, arg, spawned, spurious, killed>>

\* a scan of the process list reaps a zombie child (proc_reap) if there is one
Scan(p, from, found, none) ==
  /\ At(p, from)
  /\ children' = [children EXCEPT ![p] = \E c \in listed : ppid[c] = p]
  /\ IF ZombieChildren(p) = {}
     THEN GoTo(p, none) /\ UNCHANGED <<listed, early>>
     ELSE GoTo(p, found) /\ \E c \in ZombieChildren(p) : Reap(c)
  /\ UNCHANGED <<vars, ppid, exit_code, arg, spawned, spurious, killed>>

\* current_process->exit_code = 0
Clear(p, from, to) ==
  /\ At(p, from)
  /\ exit_code' = [exit_code EXCEPT ![p] = "none"]
  /\ GoTo(p, to)
  /\ UNCHANGED <<vars, listed, ppid, arg, children, spawned, disturbed>>

\* no zombie yet: without children there is nothing to wait for, and after a
\* SIGCHLD the list is scanned again at once
WaitTest(p) ==
  /\ At(p, "wait_test")
  /\ \/ GoTo(p, "user")    \* WNOHANG, or no children
     \/ children[p] /\ GoTo(p, IF exit_code[p] = "SIGCHLD" THEN "wait_relock"
                                                          ELSE "wait_block")
  /\ UNCHANGED <<vars, listed, ppid, exit_code, arg, children, spawned, disturbed>>

\* proc_block(current_process)
WaitBlock(p) ==
  /\ At(p, "wait_block")
  /\ Block(p)
  /\ GoTo(p, "wait_woken")
  /\ UNCHANGED <<waiterVars, mutexVars, listed, ppid, exit_code, arg,
                 children, spawned, disturbed>>

Wait(p) ==
  \/ WaitCall(p)
  \/ LockThen(p, "wait_lock", "wait_scan")
  \/ Scan(p, "wait_scan", "wait_found", "wait_none")
  \/ UnlockThen(p, "wait_found", "wait_clear")
  \/ Clear(p, "wait_clear", "user")
  \/ UnlockThen(p, "wait_none", "wait_test")
  \/ WaitTest(p)
  \/ WaitBlock(p)
  \/ Clear(p, "wait_woken", "wait_relock")
  \/ LockThen(p, "wait_relock", "wait_rescan")
  \/ Scan(p, "wait_rescan", "wait_unlock", "wait_unlock")
  \/ UnlockThen(p, "wait_unlock", "user")

----------------------------------------------------------------------------
(* sys_spawn: the new process is stopped until it gets a SIGCONT.  In a     *)
(* record that is used again ppid, exit_code, wait_next and waiting_on keep *)
(* what they held, until (if ever) they are set.                            *)

\* bound: nobody spawns when the process table may be full
SpawnCall(p) ==
  /\ At(p, "user") /\ p # Idle
  /\ spawned < MaxSpawn
  /\ Cardinality(listed) + Cardinality({q \in Proc : at[q] \in {"spawn_lock", "spawn_alloc"}})
       < Cardinality(Proc)
  /\ GoTo(p, "spawn_lock")
  /\ spawned' = spawned + 1
  /\ UNCHANGED <<vars, listed, ppid, exit_code, arg, children, disturbed>>

\* proc_alloc_process: the record is on the list before any of it is set
SpawnAlloc(p) ==
  /\ At(p, "spawn_alloc")
  /\ GoTo(p, "spawn_unlock")
  /\ \E c \in Proc \ listed :
       /\ listed' = listed \cup {c}
       /\ arg' = [arg EXCEPT ![p] = [pid |-> c, sig |-> Nil]]
  /\ UNCHANGED <<vars, ppid, exit_code, children, spawned, disturbed>>

\* the rest of proc_create: pid, stack, an initial context, the state
SpawnCreate(p) ==
  LET c == arg[p].pid IN
  /\ At(p, "spawn_create")
  /\ at' = [at EXCEPT ![p] = "spawn_parent", ![c] = "user"]
  /\ state' = [state EXCEPT ![c] = "PROC_BLOCKED"]
  /\ pc' = [pc EXCEPT ![c] = "run"]
  /\ wants' = [wants EXCEPT ![c] = Nil]
  /\ next' = [next EXCEPT ![c] = Nil]
  /\ depth' = [depth EXCEPT ![c] = [m \in Mutex |-> 0]]
  /\ UNCHANGED <<current, run_queue, sched_started, halted, waiterVars, lock, owner,
                 count, listed, ppid, exit_code, arg, children, spawned, disturbed>>

SpawnParent(p) ==
  /\ At(p, "spawn_parent")
  /\ GoTo(p, "user")
  /\ ppid' = [ppid EXCEPT ![arg[p].pid] = p]
  /\ UNCHANGED <<vars, listed, exit_code, arg, children, spawned, disturbed>>

Spawn(p) ==
  \/ SpawnCall(p)
  \/ LockThen(p, "spawn_lock", "spawn_alloc")
  \/ SpawnAlloc(p)
  \/ UnlockThen(p, "spawn_unlock", "spawn_create")
  \/ SpawnCreate(p)
  \/ SpawnParent(p)

----------------------------------------------------------------------------
\* the loop of kernel_init_process: after a signal it reaps a zombie child
\* with the scheduler stopped; if that is process 1 the kernel halts
IdleLoop ==
  /\ At(Idle, "user") /\ exit_code[Idle] # "none"
  /\ \/ /\ ZombieChildren(Idle) = {}
        /\ UNCHANGED <<listed, halted, early>>
     \/ \E c \in ZombieChildren(Idle) :
          /\ Reap(c)
          /\ halted' = (c = InitProc)
  /\ exit_code' = [exit_code EXCEPT ![Idle] = "none"]
  /\ UNCHANGED <<current, state, run_queue, sched_started, waiterVars, mutexVars, ppid,
                 at, arg, children, spawned, spurious, killed>>

\* the parts of mutex_lock and mutex_unlock with interrupts enabled
InMutex(p) ==
  /\ LockBlock(p) \/ LockReturn(p) \/ UnlockWake(p)
  /\ UNCHANGED lifeVars

LifeTick == Tick /\ UNCHANGED lifeVars

LifeNext ==
  \/ \E p \in Proc : Exit(p) \/ Kill(p) \/ Wait(p) \/ Spawn(p) \/ InMutex(p)
  \/ IdleLoop
  \/ LifeTick

LifeSpec == LifeInit /\ [][LifeNext]_allVars

----------------------------------------------------------------------------
\* none has happened: what the properties below rest on.  The code prevents
\* none of them (see the variables), and after one of them they fail.
Undisturbed == ~spurious /\ ~early /\ ~killed

(* As long as process 1 lives, every process has a parent that lives and   *)
(* can collect it: proc_mark_zombie hands the children of a dying process  *)
(* to process 1 before anybody can run.                                    *)
LiveParent ==
  Undisturbed /\ InitProc \in listed /\ state[InitProc] # "PROC_ZOMBIE" =>
    \A q \in listed \ (HalfBuilt \cup {Idle}) :
      ppid[q] \in listed /\ state[ppid[q]] # "PROC_ZOMBIE"

(* Whoever exits finds a parent to signal: proc_mark_zombie stops the      *)
(* scheduler, and only the switch of that signal starts it again.          *)
SchedulingResumes == Undisturbed => sched_started

(* A process does not die with the process list locked: no system call     *)
(* returns with proc_acces_lock taken, and SIGKILL, which kills in the     *)
(* middle of a call, is sent with the lock held and so meets no other      *)
(* owner.  Only a process that kills itself dies with the list locked.     *)
DeadHoldsNoLock ==
  Undisturbed /\ lock[ProcLock] = 1 =>
    owner[ProcLock] \in listed /\ state[owner[ProcLock]] # "PROC_ZOMBIE"

(* lock.c:33, "if we get unblocked that means that we get the lock":       *)
(* whoever came out of mutex_lock(&proc_acces_lock) owns it, although      *)
(* SIGCHLD and SIGCONT also unblock processes.                             *)
UnblockedHasLock ==
  \A p \in Proc : depth[p][ProcLock] > 0 => lock[ProcLock] = 1 /\ owner[ProcLock] = p

(* The signals that bypass the mutex are the only way past it: until one   *)
(* of them has unblocked a process that waited for proc_acces_lock,        *)
(* whoever came out of mutex_lock owns it, through every order of spawn,   *)
(* exit, stop and wait of two children and their parent.                   *)
LockUnlessSignalled == spurious \/ UnblockedHasLock

(* The process list changes only in the hands of the owner of              *)
(* proc_acces_lock, or of the kernel's init loop, which stops the          *)
(* scheduler instead.                                                      *)
ListedUnderLock ==
  [][Undisturbed /\ listed' # listed =>
       current = Idle \/ (lock[ProcLock] = 1 /\ owner[ProcLock] = current)]_allVars

(* The dead stay dead: only sys_spawn, which builds a new process in the   *)
(* record, makes a zombie anything else.  A wake-up that mutex_unlock has  *)
(* still to do does not find its waiter dead: whoever could kill it in     *)
(* between needs proc_acces_lock, the mutex that it was just handed,       *)
(* unless a signal has let someone past that mutex before.  (Of a waiter   *)
(* for another mutex this would not be true.)                              *)
DeadStayDead ==
  [][Undisturbed => \A q \in Proc : state[q] = "PROC_ZOMBIE" /\ state'[q] # "PROC_ZOMBIE" =>
       at[current] = "spawn_create"]_allVars
=============================================================================
