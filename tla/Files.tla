------------------------------- MODULE Files -------------------------------
(***************************************************************************)
(* Open files (fs/vfs.c) and descriptors (kernel/proc.c): open, close, dup *)
(* and read or write of several processes, inheritance in sys_spawn, death  *)
(* at any point, and proc_reap in waitpid.                                 *)
(*                                                                         *)
(* A section that holds vfs_file_lock is a step that locks, one that       *)
(* changes the tables and one that unlocks.  refcount shares a word with   *)
(* the offset and the flags of the file; sys_spawn increments it, and      *)
(* vfs_read and vfs_write move the offset, without the lock: every change  *)
(* of the word loads it in one step and stores it in another.  What a file *)
(* names is not modelled: the inode was found by the walk of PathWalk.     *)
(* Nor are pids and proc_acces_lock, which are in ProcTable and Lifecycle: *)
(* here any process may start or reap a child.  sys_spawn opens and closes  *)
(* the program as an open and a close of the parent do.                    *)
(***************************************************************************)
EXTENDS Naturals, Sequences, FiniteSets, SequencesExt, FiniteSetsExt

CONSTANTS Rec,        \* the process records (struct proc)
          Idle,       \* the record of the kernel's init loop
          Parent,     \* the record of process 1
          File,       \* vfs_file_table
          MaxFd,      \* PROC_MAXFILES
          RefMod,     \* 2^4: refcount has 4 bits
          MaxCalls,   \* bound: calls of open, dup, read, and spawn in a behaviour
          None

ASSUME FilesAssumption ==
  /\ IsFiniteSet(Rec) /\ Idle \in Rec /\ Parent \in Rec \ {Idle}
  /\ IsFiniteSet(File) /\ File # {}
  /\ MaxFd \in Nat \ {0} /\ RefMod \in Nat /\ RefMod > 2 /\ MaxCalls \in Nat
  /\ None \notin File \cup Rec \cup Nat

VARIABLES listed,          \* the records in proc_active_list
          state,           \* of each record
          refcount,        \* file->refcount
          file_free,       \* file_table_free, the top at the end
          file_lock,       \* vfs_file_lock: its owner, or None
          lock_count,      \* how often the owner has locked it
          local_fd_table,  \* of each process
          at,              \* where a process is in a call; "user" is between two calls
          f,               \* the file that is being opened, closed or read
          fd,              \* close: the descriptor
          loaded,          \* the refcount in the word that was loaded
          child,           \* spawn, waitpid: the record of the child
          fd_list,         \* spawn: the descriptors that are left to inherit
          calls,           \* history: how many calls were made
          leaked,          \* history: references of each file that nobody has any more
          lost,            \* history: a store has undone a change of refcount
          wrapped          \* history: a refcount has exceeded its 4 bits

procs == <<listed, state>>
lock == <<file_lock, lock_count>>
local == <<f, fd, loaded, child, fd_list>>
history == <<calls, leaked, lost, wrapped>>
filesVars == <<procs, refcount, file_free, lock, local_fd_table, at, local, history>>

Fd == 0..(MaxFd - 1)
Counts == 0..(RefMod - 1)
States == {"PROC_BLOCKED", "PROC_READY", "PROC_ZOMBIE"}

FileTypeOK ==
  /\ listed \in SUBSET Rec
  /\ state \in [Rec -> States]
  /\ refcount \in [File -> Counts]
  /\ file_free \in Seq(File)
  /\ file_lock \in Rec \cup {None} /\ lock_count \in Nat
  /\ local_fd_table \in [Rec -> [Fd -> File \cup {None}]]
  /\ at \in [Rec -> {"user", "alloc", "free", "dup", "unlock", "fd_add", "fd_free", "store",
                     "create", "inherit", "inherit_store", "inherit_add", "reap"}]
  /\ f \in [Rec -> File \cup {None}]
  /\ fd \in [Rec -> Fd \cup {None}]
  /\ loaded \in [Rec -> Counts]
  /\ child \in [Rec -> Rec \cup {None}]
  /\ fd_list \in [Rec -> SUBSET Fd]
  /\ calls \in 0..MaxCalls
  /\ leaked \in [File -> Nat]
  /\ lost \in BOOLEAN /\ wrapped \in BOOLEAN

NoFiles == [i \in Fd |-> None]

Console == CHOOSE g \in File : TRUE

\* vfs_init; kernel_init_process has opened the console and process 1 has
\* inherited it (one descriptor each stands for the three)
FilesInit ==
  /\ listed = {Idle, Parent}
  /\ state = [r \in Rec |-> IF r \in {Idle, Parent} THEN "PROC_READY" ELSE "PROC_ZOMBIE"]
  /\ refcount = [g \in File |-> IF g = Console THEN 2 ELSE 0]
  /\ file_free = SetToSeq(File \ {Console})
  /\ file_lock = None /\ lock_count = 0
  /\ local_fd_table = [p \in Rec |->
       IF p \in {Idle, Parent} THEN [NoFiles EXCEPT ![0] = Console] ELSE NoFiles]
  /\ at = [p \in Rec |-> "user"]
  /\ f = [p \in Rec |-> None]
  /\ fd = [p \in Rec |-> None]
  /\ loaded = [p \in Rec |-> 0]
  /\ child = [p \in Rec |-> None]
  /\ fd_list = [p \in Rec |-> {}]
  /\ calls = 0
  /\ leaked = [g \in File |-> 0]
  /\ lost = FALSE /\ wrapped = FALSE

----------------------------------------------------------------------------
\* A record that proc_reap has freed stays a zombie.
Live(r) == state[r] # "PROC_ZOMBIE"

At(p, place) == state[p] = "PROC_READY" /\ p # Idle /\ at[p] = place
Go(p, place) == at' = [at EXCEPT ![p] = place]
Call == calls < MaxCalls /\ calls' = calls + 1

\* a mutex_lock that does not look whether the mutex is taken
LockUnchecked(p) ==
  /\ file_lock' = p
  /\ lock_count' = lock_count + 1

\* mutex_lock(&vfs_file_lock), which nests
Lock(p) ==
  /\ file_lock \in {None, p}
  /\ file_lock' = p
  /\ lock_count' = lock_count + 1

\* mutex_unlock(&vfs_file_lock)
Unlock(p) ==
  /\ lock_count' = lock_count - 1
  /\ file_lock' = IF lock_count = 1 THEN None ELSE p

\* p has the file g in hand, and its word in a register
Load(p, g) ==
  /\ f' = [f EXCEPT ![p] = g]
  /\ loaded' = [loaded EXCEPT ![p] = refcount[g]]

\* The word of f[p] is stored: a change since it was loaded is undone.
Store(p, n) ==
  /\ refcount' = [refcount EXCEPT ![f[p]] = n]
  /\ lost' = (lost \/ refcount[f[p]] # loaded[p])
  /\ loaded' = [loaded EXCEPT ![p] = 0]

\* a refcount as wide as it needs to be
NextRefWide(n) == n + 1

\* refcount++
NextRef(n) == (n + 1) % RefMod

\* a section is left: the new reference f[p] is stored in a descriptor, or the
\* descriptor fd[p] is cleared
UnlockFile(p) ==
  /\ At(p, "unlock")
  /\ Unlock(p)
  /\ Go(p, IF fd[p] = None THEN "fd_add" ELSE "fd_free")
  /\ UNCHANGED <<procs, refcount, file_free, local_fd_table, local, history>>

\* vfs_open and vfs_openat after the walk: file_alloc
Open(p) ==
  /\ At(p, "user") /\ Call
  /\ Lock(p) /\ file_free # <<>>
  /\ f' = [f EXCEPT ![p] = Last(file_free)]
  /\ Go(p, "alloc")
  /\ UNCHANGED <<procs, refcount, file_free, local_fd_table, fd, loaded, child, fd_list, leaked, lost,
                 wrapped>>

\* the table is full: file_alloc returns with the lock held
OpenFull(p) ==
  /\ At(p, "user") /\ Call
  /\ Lock(p) /\ file_free = <<>>
  /\ UNCHANGED <<procs, refcount, file_free, local_fd_table, at, local, leaked, lost, wrapped>>

Alloc(p) ==
  /\ At(p, "alloc")
  /\ file_free' = Front(file_free)
  /\ refcount' = [refcount EXCEPT ![f[p]] = 1]
  /\ Go(p, "unlock")
  /\ UNCHANGED <<procs, lock, local_fd_table, local, history>>

FreeFds(p) == {i \in Fd : local_fd_table[p][i] = None}

\* proc_fd_add of the file f[p] to the table of q.  Without a free descriptor
\* it fails, and its callers keep the reference they have counted; so does the
\* table of a process that has been killed.
FdAddTo(p, q) ==
  /\ local_fd_table' = IF FreeFds(q) = {} THEN local_fd_table
                       ELSE [local_fd_table EXCEPT ![q][Min(FreeFds(q))] = f[p]]
  /\ leaked' = IF FreeFds(q) # {} /\ Live(q) THEN leaked
               ELSE [leaked EXCEPT ![f[p]] = @ + 1]
  /\ f' = [f EXCEPT ![p] = None]

FdAdd(p) ==
  /\ At(p, "fd_add") /\ FdAddTo(p, p)
  /\ Go(p, "user")
  /\ UNCHANGED <<procs, refcount, file_free, lock, fd, loaded, child, fd_list, calls, lost, wrapped>>

\* file_free of descriptor i of p begins
FileFreeBegin(p, i) ==
  /\ local_fd_table[p][i] # None
  /\ Lock(p)
  /\ Load(p, local_fd_table[p][i])
  /\ fd' = [fd EXCEPT ![p] = i]
  /\ Go(p, "free")
  /\ UNCHANGED <<procs, refcount, file_free, local_fd_table, child, fd_list, history>>

\* file_free.  With a full free list the kernel panics.
FileFree(p) ==
  /\ At(p, "free")
  /\ \/ loaded[p] > 1 /\ Store(p, loaded[p] - 1) /\ UNCHANGED file_free
     \/ /\ loaded[p] <= 1 /\ Len(file_free) < Cardinality(File)
        /\ Store(p, 0)
        /\ file_free' = Append(file_free, f[p])
  /\ f' = [f EXCEPT ![p] = None]
  /\ Go(p, "unlock")
  /\ UNCHANGED <<procs, lock, local_fd_table, fd, child, fd_list, calls, leaked, wrapped>>

\* vfs_close: file_free, then proc_fd_free
Close(p, i) == At(p, "user") /\ FileFreeBegin(p, i)

FdFree(p) ==
  /\ At(p, "fd_free")
  /\ local_fd_table' = [local_fd_table EXCEPT ![p][fd[p]] = None]
  /\ fd' = [fd EXCEPT ![p] = None]
  /\ Go(p, IF child[p] = None THEN "user" ELSE "reap")
  /\ UNCHANGED <<procs, refcount, file_free, lock, f, loaded, child, fd_list, history>>

\* vfs_fcntl(fd, F_DUPFD)
Dup(p, i) ==
  /\ At(p, "user") /\ Call /\ local_fd_table[p][i] # None
  /\ Lock(p)
  /\ Load(p, local_fd_table[p][i])
  /\ Go(p, "dup")
  /\ UNCHANGED <<procs, refcount, file_free, local_fd_table, fd, child, fd_list, leaked, lost,
                 wrapped>>

\* refcount++ of f[p]
Increment(p) ==
  /\ Store(p, NextRef(loaded[p]))
  /\ wrapped' = (wrapped \/ NextRef(loaded[p]) = 0)

DupStore(p) ==
  /\ At(p, "dup")
  /\ Increment(p)
  /\ Go(p, "unlock")
  /\ UNCHANGED <<procs, file_free, lock, local_fd_table, f, fd, child, fd_list, calls, leaked>>

\* vfs_read and vfs_write: f->offset += n
Access(p, i) ==
  /\ At(p, "user") /\ Call /\ local_fd_table[p][i] # None
  /\ Load(p, local_fd_table[p][i])
  /\ Go(p, "store")
  /\ UNCHANGED <<procs, refcount, file_free, lock, local_fd_table, fd, child, fd_list, leaked, lost,
                 wrapped>>

AccessStore(p) ==
  /\ At(p, "store")
  /\ Store(p, loaded[p])
  /\ f' = [f EXCEPT ![p] = None]
  /\ Go(p, "user")
  /\ UNCHANGED <<procs, file_free, lock, local_fd_table, fd, child, fd_list, calls, leaked,
                 wrapped>>

----------------------------------------------------------------------------
\* A process has a reference of g in a descriptor; the one that file_free has
\* given back is still in the table.
InTable(p, i, g) == local_fd_table[p][i] = g /\ ~(at[p] \in {"unlock", "fd_free"} /\ fd[p] = i)

\* It has one in the call that is about to store it in a descriptor.
InCall(p, g) == at[p] \in {"unlock", "fd_add", "inherit_add"} /\ f[p] = g

\* how many references of g a process has
Held(p, g) == Cardinality({i \in Fd : InTable(p, i, g)}) + (IF InCall(p, g) THEN 1 ELSE 0)

\* the record r is emptied; what a process had there is lost
Forget(r) ==
  leaked' = [g \in File |-> leaked[g] + IF Live(r) THEN Held(r, g) ELSE 0]

\* sys_spawn, in any process: proc_create takes a record
Spawn(p, r, fds) ==
  /\ At(p, "user") /\ Call
  /\ r \notin listed /\ listed' = listed \cup {r}
  /\ child' = [child EXCEPT ![p] = r]
  /\ fd_list' = [fd_list EXCEPT ![p] = fds]
  /\ Go(p, "create")
  /\ UNCHANGED <<state, refcount, file_free, lock, local_fd_table, f, fd, loaded, leaked, lost,
                 wrapped>>

\* and fills it: an empty descriptor table, stopped
Create(p) ==
  LET r == child[p] IN
  /\ At(p, "create")
  /\ Forget(r)
  /\ state' = [state EXCEPT ![r] = "PROC_BLOCKED"]
  /\ local_fd_table' = [local_fd_table EXCEPT ![r] = NoFiles]
  /\ f' = [f EXCEPT ![r] = None] /\ fd' = [fd EXCEPT ![r] = None]
  /\ child' = [child EXCEPT ![r] = None]
  /\ at' = [at EXCEPT ![p] = "inherit", ![r] = "user"]
  /\ UNCHANGED <<listed, refcount, file_free, lock, loaded, fd_list, calls, lost, wrapped>>

\* there is no pid left: the record stays in the list as it is
SpawnFails(p) ==
  /\ At(p, "create")
  /\ fd_list' = [fd_list EXCEPT ![p] = {}]
  /\ child' = [child EXCEPT ![p] = None]
  /\ Go(p, "user")
  /\ UNCHANGED <<procs, refcount, file_free, lock, local_fd_table, f, fd, loaded, history>>

\* f->refcount++ of the next descriptor in fd_list
Inherit(p) ==
  /\ At(p, "inherit") /\ fd_list[p] # {}
  /\ LET i == Min(fd_list[p]) IN
     /\ fd_list' = [fd_list EXCEPT ![p] = @ \ {i}]
     /\ IF local_fd_table[p][i] = None THEN UNCHANGED <<at, f, loaded>>
        ELSE Load(p, local_fd_table[p][i]) /\ Go(p, "inherit_store")
  /\ UNCHANGED <<procs, refcount, file_free, lock, local_fd_table, fd, child, history>>

InheritStore(p) ==
  /\ At(p, "inherit_store")
  /\ Increment(p)
  /\ Go(p, "inherit_add")
  /\ UNCHANGED <<procs, file_free, lock, local_fd_table, f, fd, child, fd_list, calls, leaked>>

InheritAdd(p) ==
  /\ At(p, "inherit_add") /\ FdAddTo(p, child[p])
  /\ Go(p, "inherit")
  /\ UNCHANGED <<procs, refcount, file_free, lock, fd, loaded, child, fd_list, calls, lost, wrapped>>

SpawnReturns(p) ==
  /\ At(p, "inherit") /\ fd_list[p] = {}
  /\ child' = [child EXCEPT ![p] = None]
  /\ Go(p, "user")
  /\ UNCHANGED <<procs, refcount, file_free, lock, local_fd_table, f, fd, loaded, fd_list, history>>

\* kill(pid, SIGCONT) to a child that is complete
Start(r) ==
  /\ r \in listed /\ state[r] = "PROC_BLOCKED"
  /\ \A q \in Rec : child[q] # r
  /\ state' = [state EXCEPT ![r] = "PROC_READY"]
  /\ UNCHANGED <<listed, refcount, file_free, lock, local_fd_table, at, local, history>>

\* A process exits, or is killed, at whatever point of a call; a mutex that it
\* owns stays locked.  proc_reap closes none of its files.
Die(r) ==
  /\ r \in listed /\ Live(r) /\ r \notin {Idle, Parent}
  /\ state' = [state EXCEPT ![r] = "PROC_ZOMBIE"]
  /\ Forget(r)
  /\ f' = [f EXCEPT ![r] = None] /\ fd' = [fd EXCEPT ![r] = None]
  /\ child' = [child EXCEPT ![r] = None]
  /\ fd_list' = [fd_list EXCEPT ![r] = {}]
  /\ loaded' = [loaded EXCEPT ![r] = 0]
  /\ Go(r, "user")
  /\ UNCHANGED <<listed, refcount, file_free, lock, local_fd_table, calls, lost, wrapped>>

\* waitpid finds a zombie
WaitPid(p, r) ==
  /\ At(p, "user")
  /\ r \in listed /\ ~Live(r)
  /\ child' = [child EXCEPT ![p] = r]
  /\ Go(p, "reap")
  /\ UNCHANGED <<procs, refcount, file_free, lock, local_fd_table, f, fd, loaded, fd_list, history>>

OpenFds(p) == {i \in Fd : local_fd_table[p][i] # None}

\* proc_reap: vfs_close closes the descriptors of the process that reaps
ReapClose(p) ==
  /\ At(p, "reap") /\ OpenFds(p) # {}
  /\ FileFreeBegin(p, Min(OpenFds(p)))

\* the rest of proc_reap
ReapReturns(p) ==
  /\ At(p, "reap") /\ OpenFds(p) = {}
  /\ listed' = listed \ {child[p]}
  /\ child' = [child EXCEPT ![p] = None]
  /\ Go(p, "user")
  /\ UNCHANGED <<state, refcount, file_free, lock, local_fd_table, f, fd, loaded, fd_list, history>>

----------------------------------------------------------------------------
\* a call goes on by itself
Continue(p) ==
  \/ Alloc(p) \/ FileFree(p) \/ UnlockFile(p) \/ FdAdd(p) \/ FdFree(p)
  \/ DupStore(p) \/ AccessStore(p)
  \/ Create(p) \/ SpawnFails(p)
  \/ Inherit(p) \/ InheritStore(p) \/ InheritAdd(p) \/ SpawnReturns(p)
  \/ ReapClose(p) \/ ReapReturns(p)

FilesNext ==
  \E p \in Rec :
    \/ Continue(p)
    \/ Open(p) \/ OpenFull(p)
    \/ \E i \in Fd : Close(p, i) \/ Dup(p, i) \/ Access(p, i)
    \/ \E r \in Rec : WaitPid(p, r) \/ \E fds \in SUBSET Fd : Spawn(p, r, fds)
    \/ Start(p) \/ Die(p)

FilesSpec == FilesInit /\ [][FilesNext]_filesVars

----------------------------------------------------------------------------
\* the references of g that live processes have
TableRefs(g) == {r \in Rec \X Fd : Live(r[1]) /\ InTable(r[1], r[2], g)}
CallRefs(g) == {p \in Rec : Live(p) /\ InCall(p, g)}

(* The reference counts are exact: refcount is the number of references    *)
(* that live processes hold and of those that have leaked, and the free    *)
(* list holds the files without one, each once.  So no file in use is      *)
(* handed out again and file_free never meets a full free list, unless a   *)
(* store has undone a change of refcount or the 4 bits were not enough:    *)
(* not when a process dies in the middle of a section, and not when        *)
(* several processes open, close, duplicate and spawn at once.  A          *)
(* reference leaks when a table has no free descriptor and when a process  *)
(* dies.                                                                   *)
CountsExact ==
  ~lost /\ ~wrapped =>
    /\ \A g \in File : refcount[g] = Cardinality(TableRefs(g)) + Cardinality(CallRefs(g)) + leaked[g]
    /\ IsInjective(file_free)
    /\ Range(file_free) = {g \in File : refcount[g] = 0}
=============================================================================
