----------------------------- MODULE FilesProofs -----------------------------
(***************************************************************************)
(* Proofs about the open files of Files: the types, and that the reference *)
(* counts are exact.                                                       *)
(*                                                                         *)
(* CallInv says what a process knows in the middle of a call; its first    *)
(* part is that vfs_file_lock excludes: a process in a section owns it.    *)
(* With it CountsExact is inductive: each action moves at most one         *)
(* reference, so each adds or removes one element of the sets that         *)
(* CountsExact counts, and a death removes those of one process.           *)
(***************************************************************************)
EXTENDS Files, Iteration, SequenceTheorems, TLAPS

\* The places where a process is between mutex_lock and mutex_unlock.
Section == {"alloc", "free", "dup", "unlock"}

\* The lock is taken exactly as often as it is given back.
LockInv == file_lock = None <=> lock_count = 0

\* What a process knows in a call: that it owns the lock in a section, the
\* file it has in hand, and until it has given the descriptor back, or counted
\* its reference, that the file is in its table.
CallOf(p) ==
  /\ at[p] \in Section => file_lock = p
  /\ at[p] = "alloc" => file_free # <<>> /\ f[p] = Last(file_free)
  /\ at[p] \in {"free", "dup", "fd_add", "store", "inherit_store", "inherit_add"} => f[p] \in File
  /\ at[p] \in {"dup", "inherit_store"} => \E i \in Fd : local_fd_table[p][i] = f[p]
  /\ at[p] = "free" => fd[p] \in Fd /\ local_fd_table[p][fd[p]] = f[p]
  /\ at[p] = "unlock" => (fd[p] = None <=> f[p] # None)
  /\ at[p] = "fd_free" => fd[p] # None
  /\ at[p] \in {"unlock", "fd_free"} /\ fd[p] # None => local_fd_table[p][fd[p]] # None
  /\ at[p] \notin {"free", "unlock", "fd_free"} => fd[p] = None
  /\ at[p] \in {"create", "inherit", "inherit_store", "inherit_add", "reap"} => child[p] \in Rec
  /\ ~Live(p) => at[p] = "user"
CallInv == \A p \in Rec : CallOf(p)

(* What is left of a free list when its top is taken.                      *)
LEMMA FrontLemma ==
  ASSUME NEW S, NEW s \in Seq(S), Len(s) # 0
  PROVE  /\ Front(s) \in Seq(S) /\ Last(s) \in S /\ Last(s) = s[Len(s)]
         /\ Len(Front(s)) = Len(s) - 1
         /\ \A k \in 1..(Len(s) - 1) : Front(s)[k] = s[k]
<1>1. Len(s) \in Nat /\ \A k \in 1..Len(s) : s[k] \in S
  BY ElementOfSeq, LenProperties
<1> DEFINE n == Len(s) - 1
           t == SubSeq(s, 1, n)
<1>2. n \in Nat /\ \A k \in 1..n : s[k] \in S
  BY <1>1
<1>3. /\ t \in Seq(S) /\ Len(t) = IF 1 <= n THEN n - 1 + 1 ELSE 0
      /\ \A k \in 1..(n - 1 + 1) : t[k] = s[1 + k - 1]
  <2> HIDE DEF n, t
  <2>1. 1 \in Int /\ n \in Int
    BY <1>2
  <2> QED
    BY <1>2, <2>1, SubSeqProperties DEF t
<1>4. Front(s) = t /\ Last(s) = s[Len(s)]
  BY DEF Front, Last
<1>5. Last(s) \in S
  BY <1>1, <1>4
<1> HIDE DEF t
<1> QED
  BY <1>1, <1>2, <1>3, <1>4, <1>5

(* The smallest of some descriptors is one of them.                        *)
LEMMA MinLemma ==
  ASSUME NEW S, S \subseteq Nat, S # {}
  PROVE  Min(S) \in S
<1>1. \E n \in S : \A m \in S : n <= m
  BY LeastNatural
<1> QED
  BY <1>1 DEF Min

----------------------------------------------------------------------------
(* The descriptors are finitely many naturals.                             *)
LEMMA FdFinite ==
  /\ Fd \subseteq Nat /\ IsFiniteSet(Fd) /\ 0 \in Fd
<1>1. MaxFd \in Nat /\ MaxFd # 0
  BY FilesAssumption
<1>2. IsFiniteSet(0..(MaxFd - 1))
  <2> DEFINE m == MaxFd - 1
  <2>1. m \in Int /\ 0 \in Int
    BY <1>1
  <2> HIDE DEF m
  <2>2. IsFiniteSet(0..m)
    BY <2>1, FS_Interval
  <2> QED
    BY <2>2 DEF m
<1> QED
  BY <1>1, <1>2 DEF Fd

(* How many references a process has is a number.                          *)
LEMMA HeldNat ==
  ASSUME NEW q, NEW g
  PROVE  Held(q, g) \in Nat
<1> DEFINE S == {i \in Fd : InTable(q, i, g)}
<1>1. IsFiniteSet(S)
  <2>1. S \in SUBSET Fd
    OBVIOUS
  <2> HIDE DEF S
  <2> QED
    BY <2>1, FdFinite, FS_Subset
<1>2. Cardinality(S) \in Nat
  <2> HIDE DEF S
  <2> QED
    BY <1>1, FS_CardinalityType
<1>3. Held(q, g) = Cardinality(S) + (IF InCall(q, g) THEN 1 ELSE 0)
  BY DEF Held
<1> HIDE DEF S
<1> QED
  BY <1>2, <1>3

(* proc_fd_add preserves the types.                                        *)
LEMMA FdAddToType ==
  ASSUME FileTypeOK, NEW p \in Rec, NEW q, FdAddTo(p, q)
  PROVE  /\ local_fd_table' \in [Rec -> [Fd -> File \cup {None}]]
         /\ leaked' \in [File -> Nat] /\ f' \in [Rec -> File \cup {None}]
<1>1. f[p] \in File \cup {None}
  BY DEF FileTypeOK
<1>2. local_fd_table' \in [Rec -> [Fd -> File \cup {None}]]
  BY <1>1 DEF FileTypeOK, FdAddTo
<1>3. leaked' \in [File -> Nat]
  <2>1. leaked \in [File -> Nat] /\ (leaked' = leaked \/ leaked' = [leaked EXCEPT ![f[p]] = @ + 1])
    BY DEF FileTypeOK, FdAddTo
  <2>2. \A g \in File : leaked[g] + 1 \in Nat
    BY <2>1
  <2> QED
    BY <2>1, <2>2
<1> QED
  BY <1>2, <1>3 DEF FileTypeOK, FdAddTo

(* file_free begins with the types in order.                               *)
LEMMA BeginType ==
  ASSUME FileTypeOK, NEW p \in Rec, NEW i \in Fd, FileFreeBegin(p, i)
  PROVE  FileTypeOK'
<1>1. local_fd_table[p][i] \in File
  BY DEF FileTypeOK, FileFreeBegin
<1>2. refcount[local_fd_table[p][i]] \in Counts
  BY <1>1 DEF FileTypeOK
<1>3. lock_count' \in Nat /\ file_lock' \in Rec \cup {None}
  BY DEF FileTypeOK, FileFreeBegin, Lock
<1> QED
  BY <1>1, <1>2, <1>3 DEF FileTypeOK, FileFreeBegin, Load, Go, procs, history

(* Every step preserves the types.                                         *)
LEMMA FileTypeNext == FileTypeOK /\ LockInv /\ CallInv /\ [FilesNext]_filesVars => FileTypeOK'
<1> SUFFICES ASSUME FileTypeOK, LockInv, CallInv, [FilesNext]_filesVars
             PROVE  FileTypeOK'
  OBVIOUS
<1>0. RefMod \in Nat /\ RefMod > 2 /\ 0 \in Counts /\ 1 \in Counts
      /\ \A n \in Counts : NextRef(n) \in Counts
  BY FilesAssumption DEF Counts, NextRef
<1>00. Call => calls' \in 0..MaxCalls
  BY FilesAssumption DEF FileTypeOK, Call
<1>000. \A p \in Rec : Lock(p) => lock_count' \in Nat /\ file_lock' \in Rec \cup {None}
  BY DEF FileTypeOK, Lock
<1>1. CASE UNCHANGED filesVars
  BY <1>1 DEF FileTypeOK, filesVars, procs, lock, local, history
<1>2. ASSUME NEW p \in Rec, UnlockFile(p)
      PROVE  FileTypeOK'
  <2>1. file_lock = p /\ p # None
    BY <1>2, FilesAssumption DEF UnlockFile, At, CallInv, CallOf, Section
  <2>2. lock_count \in Nat /\ lock_count # 0
    BY <2>1 DEF LockInv, FileTypeOK
  <2>3. lock_count' \in Nat /\ file_lock' \in Rec \cup {None}
    BY <1>2, <2>2 DEF UnlockFile, Unlock
  <2>4. at' \in [Rec -> {"user", "alloc", "free", "dup", "unlock", "fd_add", "fd_free", "store",
                         "create", "inherit", "inherit_store", "inherit_add", "reap"}]
    BY <1>2 DEF FileTypeOK, UnlockFile, Go
  <2> QED
    BY <1>2, <2>3, <2>4 DEF FileTypeOK, UnlockFile, procs, local, history
<1>3. ASSUME NEW p \in Rec, Open(p)
      PROVE  FileTypeOK'
  <2>1. Last(file_free) \in File
    <3>1. file_free \in Seq(File) /\ file_free # <<>>
      BY <1>3 DEF FileTypeOK, Open
    <3>2. Len(file_free) # 0
      BY <3>1, EmptySeq
    <3> QED
      BY <3>1, <3>2, FrontLemma
  <2> QED
    BY <1>3, <2>1, <1>00, <1>000 DEF FileTypeOK, Open, Go, procs
<1>4. ASSUME NEW p \in Rec, OpenFull(p)
      PROVE  FileTypeOK'
  BY <1>4, <1>00, <1>000 DEF FileTypeOK, OpenFull, procs, local
<1>5. ASSUME NEW p \in Rec, Alloc(p)
      PROVE  FileTypeOK'
  <2>1. file_free \in Seq(File) /\ file_free # <<>> /\ f[p] = Last(file_free)
    BY <1>5 DEF FileTypeOK, Alloc, At, CallInv, CallOf
  <2>2. Len(file_free) # 0
    BY <2>1, EmptySeq
  <2>3. file_free' \in Seq(File) /\ f[p] \in File
    BY <1>5, <2>1, <2>2, FrontLemma DEF Alloc
  <2>4. refcount' \in [File -> Counts]
    BY <1>5, <2>3, <1>0 DEF FileTypeOK, Alloc
  <2> QED
    BY <1>5, <2>3, <2>4 DEF FileTypeOK, Alloc, Go, procs, lock, local, history
<1>6. ASSUME NEW p \in Rec, FdAdd(p)
      PROVE  FileTypeOK'
  <2>1. /\ local_fd_table' \in [Rec -> [Fd -> File \cup {None}]]
        /\ leaked' \in [File -> Nat] /\ f' \in [Rec -> File \cup {None}]
    BY <1>6, FdAddToType DEF FdAdd
  <2> QED
    BY <1>6, <2>1 DEF FileTypeOK, FdAdd, Go, procs, lock
<1>7. ASSUME NEW p \in Rec, NEW i \in Fd, Close(p, i)
      PROVE  FileTypeOK'
  BY <1>7, BeginType DEF Close
<1>8. ASSUME NEW p \in Rec, FileFree(p)
      PROVE  FileTypeOK'
  <2>1. f[p] \in File
    BY <1>8 DEF FileFree, At, CallInv, CallOf
  <2>0. loaded[p] > 1 => ~ (loaded[p] <= 1)
    BY DEF FileTypeOK, Counts
  <2>2. refcount' \in [File -> Counts] /\ file_free' \in Seq(File) /\ lost' \in BOOLEAN
        /\ loaded' \in [Rec -> Counts]
    <3>1. CASE loaded[p] > 1
      <4>1. loaded[p] - 1 \in Counts
        BY <1>0, <3>1 DEF FileTypeOK, Counts
      <4>2. Store(p, loaded[p] - 1) /\ UNCHANGED file_free
        BY <1>8, <2>0, <3>1 DEF FileFree
      <4> QED
        BY <4>1, <4>2, <2>1, <1>0 DEF FileTypeOK, Store
    <3>2. CASE ~ (loaded[p] > 1)
      <4>1. Store(p, 0) /\ file_free' = Append(file_free, f[p])
        BY <1>8, <3>2 DEF FileFree
      <4>2. Append(file_free, f[p]) \in Seq(File)
        BY <2>1, AppendProperties DEF FileTypeOK
      <4> QED
        BY <4>1, <4>2, <2>1, <1>0 DEF FileTypeOK, Store
    <3> QED
      BY <3>1, <3>2
  <2> QED
    BY <1>8, <2>2 DEF FileTypeOK, FileFree, Go, procs, lock
<1>9. ASSUME NEW p \in Rec, FdFree(p)
      PROVE  FileTypeOK'
  <2>1. local_fd_table' \in [Rec -> [Fd -> File \cup {None}]]
    BY <1>9 DEF FileTypeOK, FdFree
  <2>2. at' \in [Rec -> {"user", "alloc", "free", "dup", "unlock", "fd_add", "fd_free", "store",
                         "create", "inherit", "inherit_store", "inherit_add", "reap"}]
    BY <1>9 DEF FileTypeOK, FdFree, Go
  <2> QED
    BY <1>9, <2>1, <2>2 DEF FileTypeOK, FdFree, procs, lock, history
<1>10. ASSUME NEW p \in Rec, NEW i \in Fd, Dup(p, i)
       PROVE  FileTypeOK'
  <2>1. local_fd_table[p][i] \in File
    BY <1>10 DEF FileTypeOK, Dup
  <2>2. refcount[local_fd_table[p][i]] \in Counts
    BY <2>1 DEF FileTypeOK
  <2> QED
    BY <1>10, <2>1, <2>2, <1>00, <1>000 DEF FileTypeOK, Dup, Load, Go, procs
<1>11. ASSUME NEW p \in Rec, DupStore(p)
       PROVE  FileTypeOK'
  <2>1. NextRef(loaded[p]) \in Counts /\ f[p] \in File
    BY <1>11, <1>0 DEF FileTypeOK, DupStore, At, CallInv, CallOf
  <2> QED
    BY <1>11, <2>1, <1>0 DEF FileTypeOK, DupStore, Increment, Store, Go, procs, lock
<1>12. ASSUME NEW p \in Rec, NEW i \in Fd, Access(p, i)
       PROVE  FileTypeOK'
  <2>1. local_fd_table[p][i] \in File
    BY <1>12 DEF FileTypeOK, Access
  <2>2. refcount[local_fd_table[p][i]] \in Counts
    BY <2>1 DEF FileTypeOK
  <2> QED
    BY <1>12, <2>1, <2>2, <1>00 DEF FileTypeOK, Access, Load, Go, procs, lock
<1>13. ASSUME NEW p \in Rec, AccessStore(p)
       PROVE  FileTypeOK'
  <2>1. f[p] \in File
    BY <1>13 DEF AccessStore, At, CallInv, CallOf
  <2> QED
    BY <1>13, <2>1, <1>0 DEF FileTypeOK, AccessStore, Store, Go, procs, lock
<1>14. ASSUME NEW p \in Rec, NEW r \in Rec, NEW fds \in SUBSET Fd, Spawn(p, r, fds)
       PROVE  FileTypeOK'
  BY <1>14, <1>00 DEF FileTypeOK, Spawn, Go, lock
<1>15. ASSUME NEW p \in Rec, Create(p)
       PROVE  FileTypeOK'
  <2>1. child[p] \in Rec
    BY <1>15 DEF Create, At, CallInv, CallOf
  <2>2. NoFiles \in [Fd -> File \cup {None}]
    BY DEF NoFiles
  <2>3. leaked' \in [File -> Nat]
    BY <1>15, HeldNat DEF FileTypeOK, Create, Forget
  <2>4. /\ state' \in [Rec -> States]
        /\ local_fd_table' \in [Rec -> [Fd -> File \cup {None}]]
        /\ f' \in [Rec -> File \cup {None}] /\ fd' \in [Rec -> Fd \cup {None}]
        /\ child' \in [Rec -> Rec \cup {None}]
    BY <1>15, <2>1, <2>2 DEF FileTypeOK, Create, States
  <2>5. at' \in [Rec -> {"user", "alloc", "free", "dup", "unlock", "fd_add", "fd_free", "store",
                         "create", "inherit", "inherit_store", "inherit_add", "reap"}]
    BY <1>15, <2>1 DEF FileTypeOK, Create
  <2> QED
    BY <1>15, <2>3, <2>4, <2>5 DEF FileTypeOK, Create, lock
<1>16. ASSUME NEW p \in Rec, SpawnFails(p)
       PROVE  FileTypeOK'
  BY <1>16 DEF FileTypeOK, SpawnFails, Go, procs, lock, history
<1>17. ASSUME NEW p \in Rec, Inherit(p)
       PROVE  FileTypeOK'
  <2> DEFINE i == Min(fd_list[p])
             g == local_fd_table[p][i]
  <2>1. fd_list[p] \subseteq Fd /\ fd_list[p] # {}
    BY <1>17 DEF FileTypeOK, Inherit
  <2>2. i \in Fd
    BY <2>1, FdFinite, MinLemma
  <2>3. g \in File \cup {None}
    BY <2>2 DEF FileTypeOK
  <2>4. /\ fd_list' = [fd_list EXCEPT ![p] = @ \ {i}]
        /\ IF g = None THEN UNCHANGED <<at, f, loaded>>
           ELSE /\ f' = [f EXCEPT ![p] = g]
                /\ loaded' = [loaded EXCEPT ![p] = refcount[g]]
                /\ Go(p, "inherit_store")
        /\ UNCHANGED <<procs, refcount, file_free, lock, local_fd_table, fd, child, history>>
    BY <1>17 DEF Inherit, Load
  <2> HIDE DEF i, g
  <2>5. fd_list' \in [Rec -> SUBSET Fd]
    BY <2>1, <2>4 DEF FileTypeOK
  <2>6. CASE g = None
    BY <2>4, <2>5, <2>6 DEF FileTypeOK, procs, lock, history
  <2>7. CASE g # None
    <3>1. g \in File /\ refcount[g] \in Counts
      BY <2>3, <2>7 DEF FileTypeOK
    <3>2. /\ f' \in [Rec -> File \cup {None}] /\ loaded' \in [Rec -> Counts]
          /\ at' = [at EXCEPT ![p] = "inherit_store"]
      BY <3>1, <2>4, <2>7 DEF FileTypeOK, Go
    <3> QED
      BY <3>2, <2>4, <2>5 DEF FileTypeOK, procs, lock, history
  <2> QED
    BY <2>6, <2>7
<1>18. ASSUME NEW p \in Rec, InheritStore(p)
       PROVE  FileTypeOK'
  <2>1. NextRef(loaded[p]) \in Counts /\ f[p] \in File
    BY <1>18, <1>0 DEF FileTypeOK, InheritStore, At, CallInv, CallOf
  <2> QED
    BY <1>18, <2>1, <1>0 DEF FileTypeOK, InheritStore, Increment, Store, Go, procs, lock
<1>19. ASSUME NEW p \in Rec, InheritAdd(p)
       PROVE  FileTypeOK'
  <2>1. /\ local_fd_table' \in [Rec -> [Fd -> File \cup {None}]]
        /\ leaked' \in [File -> Nat] /\ f' \in [Rec -> File \cup {None}]
    BY <1>19, FdAddToType DEF InheritAdd
  <2> QED
    BY <1>19, <2>1 DEF FileTypeOK, InheritAdd, Go, procs, lock
<1>20. ASSUME NEW p \in Rec, SpawnReturns(p)
       PROVE  FileTypeOK'
  BY <1>20 DEF FileTypeOK, SpawnReturns, Go, procs, lock, history
<1>21. ASSUME NEW p \in Rec, Start(p)
       PROVE  FileTypeOK'
  BY <1>21 DEF FileTypeOK, Start, States, lock, local, history
<1>22. ASSUME NEW p \in Rec, Die(p)
       PROVE  FileTypeOK'
  <2>1. leaked' \in [File -> Nat]
    BY <1>22, HeldNat DEF FileTypeOK, Die, Forget
  <2> QED
    BY <1>22, <2>1, <1>0 DEF FileTypeOK, Die, Go, States, lock
<1>23. ASSUME NEW p \in Rec, NEW r \in Rec, WaitPid(p, r)
       PROVE  FileTypeOK'
  BY <1>23 DEF FileTypeOK, WaitPid, Go, procs, lock, history
<1>24. ASSUME NEW p \in Rec, ReapClose(p)
       PROVE  FileTypeOK'
  <2>1. OpenFds(p) \subseteq Fd /\ OpenFds(p) # {}
    BY <1>24 DEF ReapClose, OpenFds
  <2>2. Min(OpenFds(p)) \in Fd
    BY <2>1, FdFinite, MinLemma
  <2> QED
    BY <1>24, <2>2, BeginType DEF ReapClose
<1>25. ASSUME NEW p \in Rec, ReapReturns(p)
       PROVE  FileTypeOK'
  BY <1>25 DEF FileTypeOK, ReapReturns, Go, lock, history
<1> QED
  BY <1>1, <1>2, <1>3, <1>4, <1>5, <1>6, <1>7, <1>8, <1>9, <1>10, <1>11, <1>12, <1>13, <1>14,
     <1>15, <1>16, <1>17, <1>18, <1>19, <1>20, <1>21, <1>22, <1>23, <1>24, <1>25
     DEF FilesNext, Continue

(* mutex_lock and mutex_unlock balance.                                    *)
LEMMA LockNext == FileTypeOK /\ LockInv /\ CallInv /\ [FilesNext]_filesVars => LockInv'
<1> SUFFICES ASSUME FileTypeOK, LockInv, CallInv, [FilesNext]_filesVars
             PROVE  LockInv'
  OBVIOUS
<1>0. None \notin Rec /\ lock_count \in Nat
  BY FilesAssumption DEF FileTypeOK
<1>1. UNCHANGED <<file_lock, lock_count>> => LockInv'
  BY DEF LockInv
<1>2. ASSUME NEW p \in Rec, Lock(p)
      PROVE  LockInv'
  <2>1. file_lock' = p /\ lock_count' = lock_count + 1
    BY <1>2 DEF Lock
  <2> QED
    BY <1>0, <2>1 DEF LockInv
<1>3. ASSUME NEW p \in Rec, UnlockFile(p)
      PROVE  LockInv'
  <2>1. file_lock = p /\ p # None
    BY <1>0, <1>3 DEF UnlockFile, At, CallInv, CallOf, Section
  <2>2. lock_count # 0
    BY <2>1 DEF LockInv
  <2>3. lock_count' = lock_count - 1 /\ file_lock' = IF lock_count = 1 THEN None ELSE p
    BY <1>3 DEF UnlockFile, Unlock
  <2> QED
    BY <1>0, <2>1, <2>2, <2>3 DEF LockInv
<1>4. CASE UNCHANGED filesVars
  BY <1>1, <1>4 DEF filesVars, lock
<1>5. ASSUME NEW p \in Rec, Continue(p)
      PROVE  LockInv'
  BY <1>1, <1>2, <1>3, <1>5
     DEF Continue, Alloc, FileFree, FdAdd, FdFree, DupStore, AccessStore, Create, SpawnFails, Inherit,
         InheritStore, InheritAdd, SpawnReturns, ReapClose, FileFreeBegin, ReapReturns, lock
<1>6. ASSUME NEW p \in Rec, NEW i \in Fd, Close(p, i) \/ Dup(p, i) \/ Access(p, i)
      PROVE  LockInv'
  BY <1>1, <1>2, <1>6 DEF Close, FileFreeBegin, Dup, Access, lock
<1>7. ASSUME NEW p \in Rec, Open(p) \/ OpenFull(p) \/ Start(p) \/ Die(p)
      PROVE  LockInv'
  BY <1>1, <1>2, <1>7 DEF Open, OpenFull, Start, Die, lock
<1>8. ASSUME NEW p \in Rec, NEW r \in Rec, WaitPid(p, r) \/ \E fds \in SUBSET Fd : Spawn(p, r, fds)
      PROVE  LockInv'
  BY <1>1, <1>8 DEF WaitPid, Spawn, lock
<1> QED
  BY <1>4, <1>5, <1>6, <1>7, <1>8 DEF FilesNext


(* SetToSeq lists the elements of a finite set, each once.                 *)
LEMMA SetToSeqLemma ==
  ASSUME NEW S, IsFiniteSet(S)
  PROVE  /\ SetToSeq(S) \in Seq(S) /\ IsInjective(SetToSeq(S))
         /\ Range(SetToSeq(S)) = S
<1> DEFINE n == Cardinality(S)
           D == 1..n
<1>1. n \in Nat /\ ExistsBijection(D, S)
  BY FS_CardinalityType
<1>2. \E g \in [D -> S] : IsInjective(g)
  <2> HIDE DEF D
  <2> QED
    BY <1>1 DEF ExistsBijection, Bijection, Injection
<1> DEFINE s == SetToSeq(S)
<1>3. s \in [D -> S] /\ IsInjective(s)
  BY <1>2 DEF SetToSeq
<1>4. IsFiniteSet(D) /\ Cardinality(D) = n
  <2>1. 1 \in Int /\ n \in Int
    BY <1>1
  <2> HIDE DEF n
  <2>2. IsFiniteSet(1..n) /\ Cardinality(1..n) = IF 1 > n THEN 0 ELSE n - 1 + 1
    BY <2>1, FS_Interval
  <2> QED
    BY <2>2, <1>1
<1>5. s \in Surjection(D, S)
  <2> HIDE DEF D, s
  <2>1. s \in Injection(D, S)
    BY <1>3 DEF Injection
  <2> QED
    BY <2>1, <1>4, FS_Injection DEF n
<1> HIDE DEF n, s
<1>6. \A x \in S : \E k \in D : s[k] = x
  BY <1>5 DEF Surjection
<1>7. s \in Seq(S)
  BY <1>1, <1>3
<1>8. Range(s) = S
  BY <1>3, <1>6 DEF Range
<1> QED
  BY <1>3, <1>7, <1>8 DEF s

----------------------------------------------------------------------------
\* Descriptor i of the live process q is a reference of g, or its call is.
Ref(q, i, g) == Live(q) /\ InTable(q, i, g)
CallRef(q, g) == Live(q) /\ InCall(q, g)

(* The references of a file are finitely many.                             *)
LEMMA RefsFinite ==
  ASSUME NEW g
  PROVE  /\ IsFiniteSet(TableRefs(g)) /\ Cardinality(TableRefs(g)) \in Nat
         /\ IsFiniteSet(CallRefs(g)) /\ Cardinality(CallRefs(g)) \in Nat
         /\ TableRefs(g) \subseteq Rec \X Fd /\ CallRefs(g) \subseteq Rec
         /\ \A q \in Rec, i \in Fd : <<q, i>> \in TableRefs(g) <=> Ref(q, i, g)
         /\ \A q \in Rec : q \in CallRefs(g) <=> CallRef(q, g)
<1>1. IsFiniteSet(Rec) /\ IsFiniteSet(Fd)
  BY FilesAssumption, FdFinite
<1>2. IsFiniteSet(Rec \X Fd)
  BY <1>1, FS_Product
<1>3. TableRefs(g) \in SUBSET (Rec \X Fd) /\ CallRefs(g) \in SUBSET Rec
  BY DEF TableRefs, CallRefs
<1>4. IsFiniteSet(TableRefs(g)) /\ IsFiniteSet(CallRefs(g))
  BY <1>1, <1>2, <1>3, FS_Subset
<1>5. Cardinality(TableRefs(g)) \in Nat /\ Cardinality(CallRefs(g)) \in Nat
  BY <1>4, FS_CardinalityType
<1> QED
  BY <1>3, <1>4, <1>5 DEF TableRefs, CallRefs, Ref, CallRef

\* What RefsFinite says, of every file.
RefsFacts == \A g \in File :
  /\ IsFiniteSet(TableRefs(g)) /\ Cardinality(TableRefs(g)) \in Nat
  /\ IsFiniteSet(CallRefs(g)) /\ Cardinality(CallRefs(g)) \in Nat
  /\ TableRefs(g) \subseteq Rec \X Fd /\ CallRefs(g) \subseteq Rec
  /\ \A q \in Rec, i \in Fd : <<q, i>> \in TableRefs(g) <=> Ref(q, i, g)
  /\ \A q \in Rec : q \in CallRefs(g) <=> CallRef(q, g)

(* It holds of a state and of the next one.                                *)
LEMMA RefsFactsHold == RefsFacts /\ RefsFacts'
<1>1. RefsFacts
  BY RefsFinite DEF RefsFacts
<1> QED
  BY <1>1, PTL

(* Sets of pairs with the same pairs are equal.                            *)
LEMMA PairSets ==
  ASSUME NEW S, NEW T, NEW A, A \subseteq S \X T, NEW B, B \subseteq S \X T,
         \A x \in S, y \in T : <<x, y>> \in A <=> <<x, y>> \in B
  PROVE  A = B
OBVIOUS

(* The number of references that are descriptors stays the same.           *)
LEMMA TableSame ==
  ASSUME NEW g \in File, \A q \in Rec, i \in Fd : Ref(q, i, g)' <=> Ref(q, i, g)
  PROVE  Cardinality(TableRefs(g))' = Cardinality(TableRefs(g))
<1>1. /\ TableRefs(g) \subseteq Rec \X Fd /\ TableRefs(g)' \subseteq Rec \X Fd
      /\ \A q \in Rec, i \in Fd : <<q, i>> \in TableRefs(g) <=> <<q, i>> \in TableRefs(g)'
  BY RefsFactsHold DEF RefsFacts
<1>2. TableRefs(g)' = TableRefs(g)
  BY <1>1, PairSets
<1> QED
  BY <1>2

(* A descriptor that becomes a reference adds one.                         *)
LEMMA TableMore ==
  ASSUME NEW g \in File, NEW p \in Rec, NEW k \in Fd, ~Ref(p, k, g),
         \A q \in Rec, i \in Fd : Ref(q, i, g)' <=> Ref(q, i, g) \/ (q = p /\ i = k)
  PROVE  Cardinality(TableRefs(g))' = Cardinality(TableRefs(g)) + 1
<1> DEFINE A == TableRefs(g)
           B == TableRefs(g)'
           x == <<p, k>>
<1>1. /\ A \subseteq Rec \X Fd /\ B \subseteq Rec \X Fd /\ IsFiniteSet(A)
      /\ \A q \in Rec, i \in Fd : <<q, i>> \in A <=> Ref(q, i, g)
      /\ \A q \in Rec, i \in Fd : <<q, i>> \in B <=> Ref(q, i, g)'
  BY RefsFactsHold DEF RefsFacts
<1> HIDE DEF A, B
<1>2. A \cup {x} \subseteq Rec \X Fd /\ x \notin A
  BY <1>1
<1>3. \A q \in Rec, i \in Fd : <<q, i>> \in B <=> <<q, i>> \in A \cup {x}
  BY <1>1
<1> HIDE DEF x
<1>4. B = A \cup {x}
  BY <1>1, <1>2, <1>3, PairSets
<1>5. Cardinality(A \cup {x}) = Cardinality(A) + 1
  BY <1>1, <1>2, FS_AddElement
<1> QED
  BY <1>4, <1>5 DEF A, B

(* A descriptor that is no reference any more takes one away.              *)
LEMMA TableLess ==
  ASSUME NEW g \in File, NEW p \in Rec, NEW k \in Fd, Ref(p, k, g),
         \A q \in Rec, i \in Fd : Ref(q, i, g)' <=> Ref(q, i, g) /\ ~ (q = p /\ i = k)
  PROVE  Cardinality(TableRefs(g))' = Cardinality(TableRefs(g)) - 1
<1> DEFINE A == TableRefs(g)
           B == TableRefs(g)'
           x == <<p, k>>
<1>1. /\ A \subseteq Rec \X Fd /\ B \subseteq Rec \X Fd /\ IsFiniteSet(A)
      /\ \A q \in Rec, i \in Fd : <<q, i>> \in A <=> Ref(q, i, g)
      /\ \A q \in Rec, i \in Fd : <<q, i>> \in B <=> Ref(q, i, g)'
  BY RefsFactsHold DEF RefsFacts
<1> HIDE DEF A, B
<1>2. A \ {x} \subseteq Rec \X Fd /\ x \in A
  BY <1>1
<1>3. \A q \in Rec, i \in Fd : <<q, i>> \in B <=> <<q, i>> \in A \ {x}
  BY <1>1
<1> HIDE DEF x
<1>4. B = A \ {x}
  BY <1>1, <1>2, <1>3, PairSets
<1>5. Cardinality(A \ {x}) = Cardinality(A) - 1
  BY <1>1, <1>2, FS_RemoveElement
<1> QED
  BY <1>4, <1>5 DEF A, B

(* The number of references of calls stays the same.                       *)
LEMMA CallsSame ==
  ASSUME NEW g \in File, \A q \in Rec : CallRef(q, g)' <=> CallRef(q, g)
  PROVE  Cardinality(CallRefs(g))' = Cardinality(CallRefs(g))
<1>1. CallRefs(g)' = CallRefs(g)
  BY RefsFactsHold DEF RefsFacts
<1> QED
  BY <1>1

(* A call that takes a reference adds one.                                 *)
LEMMA CallsMore ==
  ASSUME NEW g \in File, NEW p \in Rec, ~CallRef(p, g),
         \A q \in Rec : CallRef(q, g)' <=> CallRef(q, g) \/ q = p
  PROVE  Cardinality(CallRefs(g))' = Cardinality(CallRefs(g)) + 1
<1>1. CallRefs(g)' = CallRefs(g) \cup {p} /\ p \notin CallRefs(g) /\ IsFiniteSet(CallRefs(g))
  BY RefsFactsHold DEF RefsFacts
<1>2. Cardinality(CallRefs(g) \cup {p}) = Cardinality(CallRefs(g)) + 1
  BY <1>1, FS_AddElement
<1> QED
  BY <1>1, <1>2

(* A call that ends takes one away.                                        *)
LEMMA CallsLess ==
  ASSUME NEW g \in File, NEW p \in Rec, CallRef(p, g),
         \A q \in Rec : CallRef(q, g)' <=> CallRef(q, g) /\ q # p
  PROVE  Cardinality(CallRefs(g))' = Cardinality(CallRefs(g)) - 1
<1>1. CallRefs(g)' = CallRefs(g) \ {p} /\ p \in CallRefs(g) /\ IsFiniteSet(CallRefs(g))
  BY RefsFactsHold DEF RefsFacts
<1>2. Cardinality(CallRefs(g) \ {p}) = Cardinality(CallRefs(g)) - 1
  BY <1>1, FS_RemoveElement
<1> QED
  BY <1>1, <1>2

(* The death of a process takes away all its references.                   *)
LEMMA RefsOfDead ==
  ASSUME NEW g \in File, NEW p \in Rec,
         \A q \in Rec, i \in Fd : Ref(q, i, g)' <=> Ref(q, i, g) /\ q # p,
         \A q \in Rec : CallRef(q, g)' <=> CallRef(q, g) /\ q # p,
         Live(p)
  PROVE  Cardinality(TableRefs(g))' + Cardinality(CallRefs(g))' + Held(p, g)
           = Cardinality(TableRefs(g)) + Cardinality(CallRefs(g))
<1> DEFINE A == TableRefs(g)
           B == TableRefs(g)'
           I == {i \in Fd : InTable(p, i, g)}
           D == {<<p, i>> : i \in I}
<1>1. /\ A \subseteq Rec \X Fd /\ B \subseteq Rec \X Fd /\ IsFiniteSet(A)
      /\ Cardinality(A) \in Nat /\ Cardinality(B) \in Nat
      /\ \A q \in Rec, i \in Fd : <<q, i>> \in A <=> Ref(q, i, g)
      /\ \A q \in Rec, i \in Fd : <<q, i>> \in B <=> Ref(q, i, g)'
  BY RefsFactsHold DEF RefsFacts
<1>2. I \subseteq Fd /\ \A i \in Fd : i \in I <=> Ref(p, i, g)
  BY DEF Ref
<1> HIDE DEF A, B, I
<1>3. \A q \in Rec, i \in Fd : <<q, i>> \in D <=> q = p /\ i \in I
  OBVIOUS
<1>4. D \subseteq Rec \X Fd
  BY <1>2
<1>5. IsFiniteSet(D) /\ Cardinality(D) = Cardinality(I)
  <2> DEFINE h == [i \in I |-> <<p, i>>]
  <2>1. h \in [I -> D] /\ (\A a, b \in I : h[a] = h[b] => a = b) /\ \A x \in D : \E i \in I : h[i] = x
    OBVIOUS
  <2>2. IsFiniteSet(I)
    BY <1>2, FdFinite, FS_Subset
  <2> HIDE DEF h, D
  <2>3. h \in Injection(I, D) /\ h \in Surjection(I, D)
    BY <2>1 DEF Injection, IsInjective, Surjection
  <2>4. ExistsBijection(I, D)
    BY <2>3 DEF ExistsBijection, Bijection
  <2> QED
    BY <2>2, <2>4, FS_Bijection
<1> HIDE DEF D
<1>6. \A q \in Rec, i \in Fd : <<q, i>> \in B <=> <<q, i>> \in A \ D
  BY <1>1, <1>2, <1>3
<1>7. B = A \ D
  <2>1. A \ D \subseteq Rec \X Fd
    BY <1>1
  <2> QED
    BY <1>1, <1>6, <2>1, PairSets
<1>8. A \cap D = D
  <2>1. \A q \in Rec, i \in Fd : <<q, i>> \in A \cap D <=> <<q, i>> \in D
    BY <1>1, <1>2, <1>3
  <2>2. A \cap D \subseteq Rec \X Fd
    BY <1>4
  <2> QED
    BY <1>4, <2>1, <2>2, PairSets
<1>9. Cardinality(B) = Cardinality(A) - Cardinality(I)
  BY <1>1, <1>5, <1>7, <1>8, FS_Difference
<1>10. Cardinality(I) \in Nat
  BY <1>2, FdFinite, FS_Subset, FS_CardinalityType
<1> DEFINE c == Cardinality(CallRefs(g))
           c2 == Cardinality(CallRefs(g))'
           n == IF InCall(p, g) THEN 1 ELSE 0
<1>11. c2 + n = c /\ c \in Nat /\ c2 \in Nat
  <2>0. c \in Nat /\ c2 \in Nat
    BY RefsFactsHold DEF RefsFacts
  <2>1. CASE InCall(p, g)
    <3>1. CallRef(p, g)
      BY <2>1 DEF CallRef
    <3>2. c2 = c - 1
      BY <3>1, CallsLess
    <3> HIDE DEF c, c2
    <3> QED
      BY <2>0, <2>1, <3>2
  <2>2. CASE ~InCall(p, g)
    <3>1. \A q \in Rec : CallRef(q, g)' <=> CallRef(q, g)
      BY <2>2 DEF CallRef
    <3>2. c2 = c
      BY <3>1, CallsSame
    <3> HIDE DEF c, c2
    <3> QED
      BY <2>0, <2>2, <3>2
  <2> QED
    BY <2>1, <2>2
<1>12. Held(p, g) = Cardinality(I) + n
  BY DEF Held, I
<1>13. Cardinality(TableRefs(g)) = Cardinality(A) /\ Cardinality(TableRefs(g))' = Cardinality(B)
  BY DEF A, B
<1> HIDE DEF c, c2
<1>14. n \in Nat
  OBVIOUS
<1> HIDE DEF n
<1> QED
  BY <1>1, <1>9, <1>10, <1>11, <1>12, <1>13, <1>14 DEF c, c2

(* What CountsExact says of one file, where the numbers are naturals.      *)
LEMMA CountFacts ==
  ASSUME FileTypeOK, CountsExact, ~lost, ~wrapped, NEW g \in File
  PROVE  /\ refcount[g] = Cardinality(TableRefs(g)) + Cardinality(CallRefs(g)) + leaked[g]
         /\ refcount[g] \in Nat /\ leaked[g] \in Nat
         /\ Cardinality(TableRefs(g)) \in Nat /\ Cardinality(CallRefs(g)) \in Nat
         /\ Cardinality(TableRefs(g))' \in Nat /\ Cardinality(CallRefs(g))' \in Nat
         /\ (\E q \in Rec, i \in Fd : Ref(q, i, g)) => refcount[g] > 0
<1>1. refcount[g] = Cardinality(TableRefs(g)) + Cardinality(CallRefs(g)) + leaked[g]
  BY DEF CountsExact
<1>2. refcount[g] \in Nat /\ leaked[g] \in Nat
  BY DEF FileTypeOK, Counts
<1>3. /\ Cardinality(TableRefs(g)) \in Nat /\ Cardinality(CallRefs(g)) \in Nat
      /\ Cardinality(TableRefs(g))' \in Nat /\ Cardinality(CallRefs(g))' \in Nat
  BY RefsFactsHold DEF RefsFacts
<1>4. ASSUME NEW q \in Rec, NEW i \in Fd, Ref(q, i, g)
      PROVE  Cardinality(TableRefs(g)) # 0
  <2>1. <<q, i>> \in TableRefs(g) /\ IsFiniteSet(TableRefs(g))
    BY <1>4, RefsFactsHold DEF RefsFacts
  <2>2. TableRefs(g) # {}
    BY <2>1
  <2> QED
    BY <2>1, <2>2, FS_EmptySet
<1> QED
  BY <1>1, <1>2, <1>3, <1>4

(* A count of 4 bits that is not 0 after refcount++ has gone up by one.     *)
LEMMA NextRefLemma ==
  ASSUME NEW n \in Counts, NextRef(n) # 0
  PROVE  NextRef(n) = n + 1
<1>1. RefMod \in Nat /\ RefMod > 2 /\ n \in Nat /\ n + 1 <= RefMod
  BY FilesAssumption DEF Counts
<1>2. CASE n + 1 = RefMod
  BY <1>1, <1>2 DEF NextRef
<1>3. CASE n + 1 < RefMod
  BY <1>1, <1>3 DEF NextRef
<1> QED
  BY <1>1, <1>2, <1>3

(* A step that changes no reference keeps the counts exact.                *)
LEMMA Uncounted ==
  ASSUME CountsExact,
         \A q \in Rec, i \in Fd, g \in File : Ref(q, i, g)' <=> Ref(q, i, g),
         \A q \in Rec, g \in File : CallRef(q, g)' <=> CallRef(q, g),
         UNCHANGED <<leaked, file_free>>,
         ~lost' /\ ~wrapped' => ~lost /\ ~wrapped /\ refcount' = refcount
  PROVE  CountsExact'
<1> SUFFICES ASSUME ~lost', ~wrapped'
             PROVE  CountsExact'
  BY DEF CountsExact
<1>1. ASSUME NEW g \in File
      PROVE  refcount'[g] = Cardinality(TableRefs(g))' + Cardinality(CallRefs(g))' + leaked'[g]
  BY <1>1, TableSame, CallsSame DEF CountsExact
<1>2. IsInjective(file_free') /\ Range(file_free') = {g \in File : refcount'[g] = 0}
  BY DEF CountsExact
<1> QED
  BY <1>1, <1>2 DEF CountsExact

(* A call of p takes one more reference of k, and its count goes up.       *)
LEMMA Counted ==
  ASSUME FileTypeOK, CountsExact, ~lost, ~wrapped,
         NEW p \in Rec, NEW k \in File, ~CallRef(p, k),
         \A q \in Rec, i \in Fd, g \in File : Ref(q, i, g)' <=> Ref(q, i, g),
         \A q \in Rec, g \in File : CallRef(q, g)' <=> CallRef(q, g) \/ (q = p /\ g = k),
         UNCHANGED leaked, refcount'[k] = refcount[k] + 1,
         \A g \in File : g # k => refcount'[g] = refcount[g],
         IsInjective(file_free'), Range(file_free') = {g \in File : refcount'[g] = 0}
  PROVE  CountsExact'
<1>1. ASSUME NEW g \in File, g # k
      PROVE  refcount'[g] = Cardinality(TableRefs(g))' + Cardinality(CallRefs(g))' + leaked'[g]
  <2>1. \A q \in Rec : CallRef(q, g)' <=> CallRef(q, g)
    BY <1>1
  <2> QED
    BY <1>1, <2>1, TableSame, CallsSame DEF CountsExact
<1>2. refcount'[k] = Cardinality(TableRefs(k))' + Cardinality(CallRefs(k))' + leaked'[k]
  <2>1. Cardinality(CallRefs(k))' = Cardinality(CallRefs(k)) + 1
    <3>1. \A q \in Rec : CallRef(q, k)' <=> CallRef(q, k) \/ q = p
      OBVIOUS
    <3> QED
      BY <3>1, CallsMore
  <2>2. Cardinality(TableRefs(k))' = Cardinality(TableRefs(k))
    BY TableSame
  <2> QED
    BY <2>1, <2>2, CountFacts
<1> QED
  BY <1>1, <1>2 DEF CountsExact

(* Descriptor i of p gives its reference of k back with file_free.         *)
(* Descriptor d of p gives its reference of k back with file_free.         *)
LEMMA GivenBack ==
  ASSUME FileTypeOK, CountsExact,
         NEW p \in Rec, NEW d \in Fd, NEW k \in File, Ref(p, d, k), FileFree(p), k = f[p],
         \A q \in Rec, i \in Fd, g \in File :
           Ref(q, i, g)' <=> Ref(q, i, g) /\ ~ (q = p /\ i = d /\ g = k),
         \A q \in Rec, g \in File : CallRef(q, g)' <=> CallRef(q, g),
         UNCHANGED <<leaked, wrapped>>
  PROVE  CountsExact'
<1> SUFFICES ASSUME ~lost', ~wrapped'
             PROVE  CountsExact'
  BY DEF CountsExact
<1>00. ~lost /\ ~wrapped /\ loaded[p] = refcount[k]
  <2>1. \E n : Store(p, n)
    BY DEF FileFree
  <2>2. ~lost' <=> ~lost /\ refcount[k] = loaded[p]
    BY <2>1 DEF Store
  <2>3. ~wrapped' <=> ~wrapped
    OBVIOUS
  <2> QED
    BY <2>2, <2>3
<1>0. refcount[k] > 0 /\ refcount[k] \in Nat
  BY <1>00, CountFacts
<1>1. /\ refcount'[k] = refcount[k] - 1
      /\ \A g \in File : g # k => refcount'[g] = refcount[g]
      /\ refcount[k] > 1 => UNCHANGED file_free
      /\ ~ (refcount[k] > 1) => file_free' = Append(file_free, k)
  <2>1. CASE refcount[k] > 1
    <3>1. Store(p, refcount[k] - 1) /\ UNCHANGED file_free
      BY <1>00, <1>0, <2>1 DEF FileFree
    <3> QED
      BY <2>1, <3>1 DEF Store, FileTypeOK
  <2>2. CASE ~ (refcount[k] > 1)
    <3>1. Store(p, 0) /\ file_free' = Append(file_free, k)
      BY <1>00, <2>2 DEF FileFree
    <3>2. refcount[k] - 1 = 0
      BY <1>0, <2>2
    <3> QED
      BY <2>2, <3>1, <3>2 DEF Store, FileTypeOK
  <2> QED
    BY <2>1, <2>2
<1>2. ASSUME NEW g \in File, g # k
      PROVE  refcount'[g] = Cardinality(TableRefs(g))' + Cardinality(CallRefs(g))' + leaked'[g]
  <2>1. \A q \in Rec, i \in Fd : Ref(q, i, g)' <=> Ref(q, i, g)
    BY <1>2
  <2> QED
    BY <1>00, <1>1, <1>2, <2>1, TableSame, CallsSame DEF CountsExact
<1>3. refcount'[k] = Cardinality(TableRefs(k))' + Cardinality(CallRefs(k))' + leaked'[k]
  <2>1. Cardinality(TableRefs(k))' = Cardinality(TableRefs(k)) - 1
    <3>1. \A q \in Rec, i \in Fd : Ref(q, i, k)' <=> Ref(q, i, k) /\ ~ (q = p /\ i = d)
      OBVIOUS
    <3> QED
      BY <3>1, TableLess
  <2>2. Cardinality(CallRefs(k))' = Cardinality(CallRefs(k))
    BY CallsSame
  <2> QED
    BY <1>00, <1>1, <2>1, <2>2, CountFacts
<1>4. IsInjective(file_free) /\ Range(file_free) = {g \in File : refcount[g] = 0}
  BY <1>00 DEF CountsExact
<1>5. IsInjective(file_free') /\ Range(file_free') = {g \in File : refcount'[g] = 0}
  <2>1. CASE refcount[k] > 1
    BY <2>1, <1>0, <1>1, <1>4
  <2>2. CASE ~ (refcount[k] > 1)
    <3>1. refcount[k] = 1 /\ refcount'[k] = 0
      BY <2>2, <1>0, <1>1
    <3>2. file_free' = Append(file_free, k)
      BY <2>2, <1>1
    <3> DEFINE n == Len(file_free)
    <3>3. /\ file_free' \in Seq(File) /\ Len(file_free') = n + 1
          /\ \A i \in 1..n : file_free'[i] = file_free[i]
          /\ file_free'[n + 1] = k
      BY <3>2, AppendProperties DEF FileTypeOK
    <3>4. DOMAIN file_free = 1..n /\ DOMAIN file_free' = 1..(n + 1) /\ n \in Nat
      BY <3>3, LenProperties DEF FileTypeOK
    <3> HIDE DEF n
    <3>5. \A i \in DOMAIN file_free' :
            (i = n + 1 /\ file_free'[i] = k) \/ (i \in DOMAIN file_free /\ file_free'[i] = file_free[i])
      BY <3>3, <3>4
    <3>6. \A i \in DOMAIN file_free : file_free[i] # k
      BY <1>4, <3>1 DEF Range
    <3>7. IsInjective(file_free')
      BY <1>4, <3>5, <3>6 DEF IsInjective
    <3>8. Range(file_free') = Range(file_free) \cup {k}
      <4>1. n + 1 \in DOMAIN file_free' /\ DOMAIN file_free \subseteq DOMAIN file_free'
        BY <3>4
      <4>2. \A i \in DOMAIN file_free : file_free'[i] = file_free[i]
        BY <3>3, <3>4
      <4> QED
        BY <3>3, <3>5, <4>1, <4>2 DEF Range
    <3> QED
      BY <1>1, <1>4, <3>1, <3>7, <3>8
  <2> QED
    BY <2>1, <2>2
<1> QED
  BY <1>2, <1>3, <1>5 DEF CountsExact

(* proc_fd_add for p into the table of q: the reference of the call is now *)
(* one of a descriptor, or nobody's.                                       *)
(* one of a descriptor, or nobody's.                                       *)
LEMMA Stored ==
  ASSUME FileTypeOK, CountsExact, NEW p \in Rec, NEW q \in Rec, CallRef(p, f[p]), CallOf(q),
         FdAddTo(p, q),
         UNCHANGED <<state, refcount, file_free, lost, wrapped, fd>>,
         at'[p] \notin {"fd_add", "fd_free", "unlock", "inherit_add"},
         \A x \in Rec : x # p => at'[x] = at[x],
         at[p] \in {"fd_add", "inherit_add"}, f[p] \in File
  PROVE  CountsExact'
<1> SUFFICES ASSUME ~lost, ~wrapped
             PROVE  CountsExact'
  BY DEF CountsExact
<1>0. PICK k \in File : k = f[p]
  OBVIOUS
<1>1. \A x : Live(x)' <=> Live(x)
  BY DEF Live
<1>2. f' = [f EXCEPT ![p] = None] /\ None \notin File /\ CallRef(p, k)
  BY <1>0, FilesAssumption DEF FdAddTo
<1>3. \A x \in Rec, g \in File : CallRef(x, g)' <=> CallRef(x, g) /\ ~ (x = p /\ g = k)
  <2> SUFFICES ASSUME NEW x \in Rec, NEW g \in File
               PROVE  CallRef(x, g)' <=> CallRef(x, g) /\ ~ (x = p /\ g = k)
    OBVIOUS
  <2>1. CASE x = p
    BY <2>1, <1>0, <1>1, <1>2 DEF CallRef, InCall
  <2>2. CASE x # p
    BY <2>2, <1>1, <1>2 DEF CallRef, InCall, FileTypeOK
  <2> QED
    BY <2>1, <2>2
<1>4. \A g \in File : /\ g # k => Cardinality(CallRefs(g))' = Cardinality(CallRefs(g))
                      /\ g = k => Cardinality(CallRefs(g))' = Cardinality(CallRefs(g)) - 1
  <2>1. ASSUME NEW g \in File, g # k
        PROVE  Cardinality(CallRefs(g))' = Cardinality(CallRefs(g))
    <3>1. \A x \in Rec : CallRef(x, g)' <=> CallRef(x, g)
      BY <1>3, <2>1
    <3> QED
      BY <3>1, CallsSame
  <2>2. Cardinality(CallRefs(k))' = Cardinality(CallRefs(k)) - 1
    <3>1. CallRef(p, k) /\ \A x \in Rec : CallRef(x, k)' <=> CallRef(x, k) /\ x # p
      BY <1>2, <1>3
    <3> QED
      BY <3>1, CallsLess
  <2> QED
    BY <2>1, <2>2
\* the table: the same references, and one more if a descriptor was free
<1>5. CASE FreeFds(q) # {} /\ Live(q)
  <2> DEFINE d == Min(FreeFds(q))
  <2>1. d \in Fd /\ local_fd_table[q][d] = None
    <3>1. FreeFds(q) \subseteq Nat
      BY FdFinite DEF FreeFds
    <3>2. d \in FreeFds(q)
      BY <3>1, <1>5, MinLemma
    <3> QED
      BY <3>2 DEF FreeFds
  <2>2. local_fd_table' = [local_fd_table EXCEPT ![q][d] = k] /\ leaked' = leaked
    BY <1>0, <1>5 DEF FdAddTo
  <2> HIDE DEF d
  <2>3. /\ ~ (at'[q] \in {"unlock", "fd_free"} /\ fd'[q] = d)
        /\ ~ (at[q] \in {"unlock", "fd_free"} /\ fd[q] = d)
    <3>1. at[q] \in {"unlock", "fd_free"} /\ fd[q] # None => local_fd_table[q][fd[q]] # None
      BY DEF CallOf
    <3>2. at'[q] \in {"unlock", "fd_free"} => at[q] \in {"unlock", "fd_free"}
      OBVIOUS
    <3>3. d # None
      BY <2>1, FilesAssumption, FdFinite
    <3> QED
      BY <3>1, <3>2, <3>3, <2>1
  <2>4. \A x \in Rec, i \in Fd, g \in File :
          Ref(x, i, g)' <=> Ref(x, i, g) \/ (x = q /\ i = d /\ g = k)
    <3> SUFFICES ASSUME NEW x \in Rec, NEW i \in Fd, NEW g \in File
                 PROVE  Ref(x, i, g)' <=> Ref(x, i, g) \/ (x = q /\ i = d /\ g = k)
      OBVIOUS
    <3>1. at[x] \in {"unlock", "fd_free"} <=> at'[x] \in {"unlock", "fd_free"}
      OBVIOUS
    <3>2. CASE x = q /\ i = d
      <4>1. local_fd_table'[x][i] = k /\ local_fd_table[x][i] # g
        BY <3>2, <2>1, <2>2, <1>2 DEF FileTypeOK
      <4> QED
        BY <4>1, <3>2, <2>3, <1>1, <1>5 DEF Ref, InTable
    <3>3. CASE ~ (x = q /\ i = d)
      <4>1. local_fd_table'[x][i] = local_fd_table[x][i]
        BY <3>3, <2>1, <2>2 DEF FileTypeOK
      <4> QED
        BY <4>1, <3>1, <3>3, <1>1 DEF Ref, InTable
    <3> QED
      BY <3>2, <3>3
  <2>5. ~Ref(q, d, k)
    BY <2>1, <1>2 DEF Ref, InTable
  <2>6. ASSUME NEW g \in File
        PROVE  refcount'[g] = Cardinality(TableRefs(g))' + Cardinality(CallRefs(g))' + leaked'[g]
    <3>1. CASE g # k
      <4>1. \A x \in Rec, i \in Fd : Ref(x, i, g)' <=> Ref(x, i, g)
        BY <2>4, <3>1
      <4> QED
        BY <4>1, <3>1, <1>4, <2>2, TableSame DEF CountsExact
    <3>2. CASE g = k
      <4>1. \A x \in Rec, i \in Fd : Ref(x, i, g)' <=> Ref(x, i, g) \/ (x = q /\ i = d)
        BY <2>4, <3>2
      <4>2. Cardinality(TableRefs(g))' = Cardinality(TableRefs(g)) + 1
        BY <4>1, <2>1, <2>5, <3>2, TableMore
      <4>3. Cardinality(CallRefs(g))' = Cardinality(CallRefs(g)) - 1
        BY <3>2, <1>4
      <4> QED
        BY <4>2, <4>3, <2>2, CountFacts
    <3> QED
      BY <3>1, <3>2
  <2> QED
    BY <2>6 DEF CountsExact
<1>6. CASE ~ (FreeFds(q) # {} /\ Live(q))
  <2>1. leaked' = [leaked EXCEPT ![k] = @ + 1]
    BY <1>0, <1>6 DEF FdAddTo
  <2>2. \A x \in Rec, i \in Fd, g \in File : Ref(x, i, g)' <=> Ref(x, i, g)
    <3> SUFFICES ASSUME NEW x \in Rec, NEW i \in Fd, NEW g \in File
                 PROVE  Ref(x, i, g)' <=> Ref(x, i, g)
      OBVIOUS
    <3>1. at[x] \in {"unlock", "fd_free"} <=> at'[x] \in {"unlock", "fd_free"}
      OBVIOUS
    <3>2. CASE x = q /\ ~Live(q)
      BY <3>2, <1>1 DEF Ref
    <3>3. CASE x # q \/ Live(q)
      <4>1. local_fd_table'[x] = local_fd_table[x]
        BY <3>3, <1>6 DEF FdAddTo, FileTypeOK
      <4> QED
        BY <4>1, <3>1, <1>1 DEF Ref, InTable
    <3> QED
      BY <3>2, <3>3
  <2>3. ASSUME NEW g \in File
        PROVE  refcount'[g] = Cardinality(TableRefs(g))' + Cardinality(CallRefs(g))' + leaked'[g]
    <3>1. Cardinality(TableRefs(g))' = Cardinality(TableRefs(g))
      BY <2>2, TableSame
    <3>2. CASE g # k
      <4>1. leaked'[g] = leaked[g]
        BY <2>1, <3>2 DEF FileTypeOK
      <4> QED
        BY <3>1, <3>2, <4>1, <1>4 DEF CountsExact
    <3>3. CASE g = k
      <4>1. leaked'[g] = leaked[g] + 1
        BY <2>1, <3>3 DEF FileTypeOK
      <4>2. Cardinality(CallRefs(g))' = Cardinality(CallRefs(g)) - 1
        BY <3>3, <1>4
      <4> QED
        BY <3>1, <4>1, <4>2, CountFacts
    <3> QED
      BY <3>2, <3>3
  <2> QED
    BY <2>3 DEF CountsExact
<1> QED
  BY <1>5, <1>6

\* A step of p that leaves the calls and the tables of the others alone.
(* The record p is emptied: its references are gone, and are counted as    *)
(* leaked.                                                                 *)
LEMMA Emptied ==
  ASSUME FileTypeOK, CountsExact, NEW p \in Rec, Forget(p),
         \A q \in Rec, i \in Fd, g \in File : Ref(q, i, g)' <=> Ref(q, i, g) /\ q # p,
         \A q \in Rec, g \in File : CallRef(q, g)' <=> CallRef(q, g) /\ q # p,
         UNCHANGED <<refcount, file_free, lost, wrapped>>
  PROVE  CountsExact'
<1> SUFFICES ASSUME ~lost, ~wrapped
             PROVE  CountsExact'
  BY DEF CountsExact
<1>1. ASSUME NEW g \in File
      PROVE  refcount'[g] = Cardinality(TableRefs(g))' + Cardinality(CallRefs(g))' + leaked'[g]
  <2>1. CASE Live(p)
    <3>1. Cardinality(TableRefs(g))' + Cardinality(CallRefs(g))' + Held(p, g)
            = Cardinality(TableRefs(g)) + Cardinality(CallRefs(g))
      BY <2>1, RefsOfDead
    <3>2. leaked'[g] = leaked[g] + Held(p, g) /\ Held(p, g) \in Nat
      BY <2>1, HeldNat DEF Forget
    <3> QED
      BY <3>1, <3>2, CountFacts
  <2>2. CASE ~Live(p)
    <3>1. \A q \in Rec, i \in Fd : Ref(q, i, g)' <=> Ref(q, i, g)
      BY <2>2 DEF Ref
    <3>2. \A q \in Rec : CallRef(q, g)' <=> CallRef(q, g)
      BY <2>2 DEF CallRef
    <3>3. leaked'[g] = leaked[g]
      BY <2>2, CountFacts DEF Forget
    <3> QED
      BY <3>1, <3>2, <3>3, TableSame, CallsSame DEF CountsExact
  <2> QED
    BY <2>1, <2>2
<1>2. IsInjective(file_free') /\ Range(file_free') = {g \in File : refcount'[g] = 0}
  BY DEF CountsExact
<1> QED
  BY <1>1, <1>2 DEF CountsExact

\* A step of p that leaves the calls and the tables of the others alone, and
\* what a section of another is about.
OnlyCall(p) ==
  /\ \A q \in Rec : q # p =>
       /\ Live(q)' <=> Live(q)
       /\ at'[q] = at[q] /\ f'[q] = f[q] /\ fd'[q] = fd[q] /\ child'[q] = child[q]
       /\ local_fd_table'[q] = local_fd_table[q]
       /\ file_lock = q => UNCHANGED <<file_lock, file_free>>

\* Where in a call a process is whose references are those of its table.
Plain == {"user", "alloc", "free", "dup", "store", "create", "inherit", "inherit_store", "reap"}

(* What such a step leaves to show.                                        *)
LEMMA OnlyCallKeeps ==
  ASSUME NEW p \in Rec, OnlyCall(p), CallInv, CallOf(p)'
  PROVE  /\ CallInv'
         /\ \A q \in Rec, i \in Fd, g \in File : q # p => (Ref(q, i, g)' <=> Ref(q, i, g))
         /\ \A q \in Rec, g \in File : q # p => (CallRef(q, g)' <=> CallRef(q, g))
<1>1. \A q \in Rec : q # p => CallOf(q)'
  <2> SUFFICES ASSUME NEW q \in Rec, q # p
               PROVE  CallOf(q)'
    OBVIOUS
  <2>1. CallOf(q)
    BY DEF CallInv
  <2>2. /\ Live(q)' <=> Live(q)
        /\ at'[q] = at[q] /\ f'[q] = f[q] /\ fd'[q] = fd[q] /\ child'[q] = child[q]
        /\ local_fd_table'[q] = local_fd_table[q]
        /\ at[q] \in Section => file_lock' = q /\ file_free' = file_free
    BY <2>1 DEF OnlyCall, CallOf
  <2> QED
    BY <2>1, <2>2 DEF CallOf, Section
<1>2. \A q \in Rec, i \in Fd, g \in File : q # p => (Ref(q, i, g)' <=> Ref(q, i, g))
  BY DEF OnlyCall, Ref, InTable
<1>3. \A q \in Rec, g \in File : q # p => (CallRef(q, g)' <=> CallRef(q, g))
  BY DEF OnlyCall, CallRef, InCall
<1> QED
  BY <1>1, <1>2, <1>3 DEF CallInv

(* A step of p between two plain places with the table as it is.           *)
LEMMA PlainStep ==
  ASSUME CallInv, CountsExact, NEW p \in Rec, OnlyCall(p), CallOf(p)', Live(p)' <=> Live(p),
         at[p] \in Plain, at'[p] \in Plain, local_fd_table'[p] = local_fd_table[p],
         UNCHANGED <<leaked, file_free>>,
         ~lost' /\ ~wrapped' => ~lost /\ ~wrapped /\ refcount' = refcount
  PROVE  CallInv' /\ CountsExact'
<1>1. /\ CallInv'
      /\ \A q \in Rec, i \in Fd, g \in File : q # p => (Ref(q, i, g)' <=> Ref(q, i, g))
      /\ \A q \in Rec, g \in File : q # p => (CallRef(q, g)' <=> CallRef(q, g))
  BY OnlyCallKeeps
<1>2. \A i \in Fd, g \in File : Ref(p, i, g)' <=> Ref(p, i, g)
  BY DEF Ref, InTable, Plain
<1>3. \A g \in File : CallRef(p, g)' <=> CallRef(p, g)
  BY DEF CallRef, InCall, Plain
<1>4. CountsExact'
  <2>1. \A q \in Rec, i \in Fd, g \in File : Ref(q, i, g)' <=> Ref(q, i, g)
    BY <1>1, <1>2
  <2>2. \A q \in Rec, g \in File : CallRef(q, g)' <=> CallRef(q, g)
    BY <1>1, <1>3
  <2> QED
    BY <2>1, <2>2, Uncounted
<1> QED
  BY <1>1, <1>4

(* A step of p that takes a reference of k for a call.                     *)
LEMMA CallStep ==
  ASSUME FileTypeOK, CallInv, CountsExact, NEW p \in Rec, NEW k \in File, OnlyCall(p), Live(p),
         Live(p)', CallOf(p)', at[p] \in Plain, at'[p] \in {"unlock", "inherit_add"}, f'[p] = k,
         fd'[p] = None, local_fd_table'[p] = local_fd_table[p], UNCHANGED leaked,
         ~lost' /\ ~wrapped' =>
           /\ ~lost /\ ~wrapped /\ refcount'[k] = refcount[k] + 1
           /\ \A g \in File : g # k => refcount'[g] = refcount[g]
           /\ IsInjective(file_free') /\ Range(file_free') = {g \in File : refcount'[g] = 0}
  PROVE  CallInv' /\ CountsExact'
<1>0. None \notin Fd
  BY FilesAssumption, FdFinite
<1>1. /\ CallInv'
      /\ \A q \in Rec, i \in Fd, g \in File : q # p => (Ref(q, i, g)' <=> Ref(q, i, g))
      /\ \A q \in Rec, g \in File : q # p => (CallRef(q, g)' <=> CallRef(q, g))
  BY OnlyCallKeeps
<1>2. \A i \in Fd, g \in File : Ref(p, i, g)' <=> Ref(p, i, g)
  BY <1>0 DEF Ref, InTable, Plain
<1>3. \A g \in File : (CallRef(p, g)' <=> g = k) /\ ~CallRef(p, g)
  BY DEF CallRef, InCall, Plain
<1>4. CountsExact'
  <2> SUFFICES ASSUME ~lost', ~wrapped'
               PROVE  CountsExact'
    BY DEF CountsExact
  <2>1. \A q \in Rec, i \in Fd, g \in File : Ref(q, i, g)' <=> Ref(q, i, g)
    BY <1>1, <1>2
  <2>2. \A q \in Rec, g \in File : CallRef(q, g)' <=> CallRef(q, g) \/ (q = p /\ g = k)
    BY <1>1, <1>3
  <2>3. ~CallRef(p, k)
    BY <1>3
  <2> QED
    BY <2>1, <2>2, <2>3, Counted
<1> QED
  BY <1>1, <1>4

(* refcount++ of k by p, which has a reference of it in its table.         *)
LEMMA Incremented ==
  ASSUME FileTypeOK, CountsExact, NEW p \in Rec, NEW i \in Fd, NEW k \in File,
         k = f[p], Ref(p, i, k), Increment(p), UNCHANGED file_free, ~lost', ~wrapped'
  PROVE  /\ ~lost /\ ~wrapped /\ refcount'[k] = refcount[k] + 1
         /\ \A g \in File : g # k => refcount'[g] = refcount[g]
         /\ IsInjective(file_free') /\ Range(file_free') = {g \in File : refcount'[g] = 0}
<1>1. ~lost /\ loaded[p] = refcount[k]
  BY DEF Increment, Store
<1>2. ~wrapped /\ NextRef(loaded[p]) # 0
  BY DEF Increment
<1>3. refcount[k] \in Counts /\ refcount \in [File -> Counts]
  BY DEF FileTypeOK
<1>4. refcount'[k] = NextRef(refcount[k]) /\ \A g \in File : g # k => refcount'[g] = refcount[g]
  BY <1>1, <1>3 DEF Increment, Store
<1>5. refcount'[k] = refcount[k] + 1
  BY <1>1, <1>2, <1>3, <1>4, NextRefLemma
<1>6. refcount[k] > 0
  BY <1>1, <1>2, CountFacts
<1>7. IsInjective(file_free) /\ Range(file_free) = {g \in File : refcount[g] = 0}
  BY <1>1, <1>2 DEF CountsExact
<1>8. {g \in File : refcount'[g] = 0} = {g \in File : refcount[g] = 0}
  <2>1. refcount[k] # 0 /\ refcount'[k] # 0
    BY <1>1, <1>2, <1>4, <1>6
  <2> QED
    BY <2>1, <1>4
<1> QED
  BY <1>1, <1>2, <1>4, <1>5, <1>7, <1>8

(* file_free begins: nothing has changed yet.                              *)
LEMMA BeginStep ==
  ASSUME FileTypeOK, CallInv, CountsExact, NEW p \in Rec, NEW i \in Fd, FileFreeBegin(p, i),
         at[p] \in {"user", "reap"}, Live(p)
  PROVE  CallInv' /\ CountsExact'
<1>1. PICK k \in File : k = local_fd_table[p][i]
  BY DEF FileTypeOK, FileFreeBegin
<1>2. /\ file_lock \in {None, p} /\ file_lock' = p
      /\ f' = [f EXCEPT ![p] = k] /\ fd' = [fd EXCEPT ![p] = i] /\ at' = [at EXCEPT ![p] = "free"]
      /\ UNCHANGED <<state, refcount, file_free, local_fd_table, child, leaked, lost, wrapped>>
  BY <1>1 DEF FileFreeBegin, Lock, Load, Go, procs, history
<1>3. /\ at'[p] = "free" /\ f'[p] = k /\ fd'[p] = i
      /\ \A q \in Rec : q # p => at'[q] = at[q] /\ f'[q] = f[q] /\ fd'[q] = fd[q]
  BY <1>2 DEF FileTypeOK
<1>4. \A q : Live(q)' <=> Live(q)
  BY <1>2 DEF Live
<1>5. OnlyCall(p)
  BY <1>2, <1>3, <1>4, FilesAssumption DEF OnlyCall
<1>6. CallOf(p)'
  BY <1>1, <1>2, <1>3, <1>4 DEF CallOf, Section
<1>7. at[p] \in Plain /\ at'[p] \in Plain
  BY <1>3 DEF Plain
<1> QED
  BY <1>2, <1>4, <1>5, <1>6, <1>7, PlainStep

(* Every step keeps the calls in order and the counts exact.               *)
LEMMA CountNext ==
  FileTypeOK /\ CallInv /\ CountsExact /\ [FilesNext]_filesVars => CallInv' /\ CountsExact'
<1> SUFFICES ASSUME FileTypeOK, CallInv, CountsExact, [FilesNext]_filesVars
             PROVE  CallInv' /\ CountsExact'
  OBVIOUS
<1>0. /\ at \in [Rec -> {"user", "alloc", "free", "dup", "unlock", "fd_add", "fd_free", "store",
                         "create", "inherit", "inherit_store", "inherit_add", "reap"}]
      /\ f \in [Rec -> File \cup {None}] /\ fd \in [Rec -> Fd \cup {None}]
      /\ child \in [Rec -> Rec \cup {None}]
      /\ local_fd_table \in [Rec -> [Fd -> File \cup {None}]]
      /\ refcount \in [File -> Counts] /\ loaded \in [Rec -> Counts]
  BY DEF FileTypeOK
<1>00. None \notin File /\ None \notin Fd /\ None \notin Rec /\ RefMod \in Nat /\ RefMod > 2
  BY FilesAssumption, FdFinite
<1>01. UNCHANGED state => \A q : Live(q)' <=> Live(q)
  BY DEF Live
<1>02. \A p, q \in Rec : Lock(p) /\ q # p => file_lock # q
  BY <1>00 DEF Lock
<1>03. \A p, q \in Rec : at[p] \in Section /\ q # p => file_lock # q /\ file_lock = p
  BY DEF CallInv, CallOf
<1>04. \A p \in Rec : p # Idle /\ state[p] = "PROC_READY" => Live(p)
  BY DEF Live
<1>1. CASE UNCHANGED filesVars
  <2>1. \A q \in Rec : CallOf(q)' <=> CallOf(q)
    BY <1>1 DEF CallOf, Live, filesVars, procs, lock, local, history
  <2>2. CountsExact'
    <3>1. \A q \in Rec, i \in Fd, g \in File : Ref(q, i, g)' <=> Ref(q, i, g)
      BY <1>1 DEF Ref, InTable, Live, filesVars, procs, local
    <3>2. \A q \in Rec, g \in File : CallRef(q, g)' <=> CallRef(q, g)
      BY <1>1 DEF CallRef, InCall, Live, filesVars, procs, local
    <3>3. UNCHANGED <<leaked, file_free, lost, wrapped, refcount>>
      BY <1>1 DEF filesVars, history
    <3> QED
      BY <3>1, <3>2, <3>3, Uncounted
  <2> QED
    BY <2>1, <2>2 DEF CallInv
<1>2. ASSUME NEW p \in Rec, UnlockFile(p)
      PROVE  CallInv' /\ CountsExact'
  <2>1. /\ at[p] = "unlock" /\ Live(p)
        /\ at' = [at EXCEPT ![p] = IF fd[p] = None THEN "fd_add" ELSE "fd_free"]
        /\ UNCHANGED <<state, f, fd, child, local_fd_table, leaked, file_free, refcount, lost, wrapped>>
    BY <1>2 DEF UnlockFile, At, Go, procs, local, history, Live
  <2>2. /\ at'[p] = IF fd[p] = None THEN "fd_add" ELSE "fd_free"
        /\ \A q \in Rec : q # p => at'[q] = at[q]
    BY <1>0, <2>1
  <2>3. \A q \in Rec : q # p => file_lock # q
    BY <2>1, <1>03 DEF Section
  <2>4. OnlyCall(p)
    BY <1>01, <2>1, <2>2, <2>3 DEF OnlyCall
  <2>5. (fd[p] = None <=> f[p] # None) /\ (fd[p] # None => local_fd_table[p][fd[p]] # None)
    BY <2>1 DEF CallInv, CallOf
  <2>6. CallOf(p)'
    BY <1>0, <1>01, <2>1, <2>2, <2>5 DEF CallOf, Section
  <2>7. /\ CallInv'
        /\ \A q \in Rec, j \in Fd, g \in File : q # p => (Ref(q, j, g)' <=> Ref(q, j, g))
        /\ \A q \in Rec, g \in File : q # p => (CallRef(q, g)' <=> CallRef(q, g))
    BY <2>4, <2>6, OnlyCallKeeps
  <2>8. \A j \in Fd, g \in File : Ref(p, j, g)' <=> Ref(p, j, g)
    BY <1>00, <1>01, <2>1, <2>2 DEF Ref, InTable
  <2>9. \A g \in File : CallRef(p, g)' <=> CallRef(p, g)
    BY <1>00, <1>01, <2>1, <2>2, <2>5 DEF CallRef, InCall
  <2>10. CountsExact'
    <3>1. \A q \in Rec, j \in Fd, g \in File : Ref(q, j, g)' <=> Ref(q, j, g)
      BY <2>7, <2>8
    <3>2. \A q \in Rec, g \in File : CallRef(q, g)' <=> CallRef(q, g)
      BY <2>7, <2>9
    <3> QED
      BY <2>1, <3>1, <3>2, Uncounted
  <2> QED
    BY <2>7, <2>10
<1>3. ASSUME NEW p \in Rec, Open(p)
      PROVE  CallInv' /\ CountsExact'
  <2>1. /\ at[p] = "user" /\ Live(p) /\ Lock(p) /\ file_lock' = p /\ file_free # <<>>
        /\ f' = [f EXCEPT ![p] = Last(file_free)] /\ at' = [at EXCEPT ![p] = "alloc"]
        /\ UNCHANGED <<state, refcount, file_free, local_fd_table, fd, child, leaked, lost, wrapped>>
    BY <1>3 DEF Open, Lock, At, Go, procs, Live
  <2>2. file_free \in Seq(File) /\ Len(file_free) # 0
    BY <2>1, EmptySeq DEF FileTypeOK
  <2>3. Last(file_free) \in File
    BY <2>2, FrontLemma
  <2>4. /\ at'[p] = "alloc" /\ f'[p] = Last(file_free) /\ fd'[p] = fd[p]
        /\ \A q \in Rec : q # p => at'[q] = at[q] /\ f'[q] = f[q]
    BY <1>0, <2>1
  <2>5. OnlyCall(p)
    BY <1>01, <1>02, <2>1, <2>4 DEF OnlyCall
  <2>6. fd[p] = None
    BY <2>1 DEF CallInv, CallOf
  <2>7. CallOf(p)' /\ at[p] \in Plain /\ at'[p] \in Plain
    BY <1>01, <2>1, <2>3, <2>4, <2>6 DEF CallOf, Section, Plain
  <2> QED
    BY <1>01, <2>1, <2>5, <2>7, PlainStep
<1>4. ASSUME NEW p \in Rec, OpenFull(p)
      PROVE  CallInv' /\ CountsExact'
  <2>1. /\ at[p] = "user" /\ Lock(p)
        /\ UNCHANGED <<state, at, f, fd, child, local_fd_table, leaked, file_free, lost, wrapped,
                       refcount>>
    BY <1>4 DEF OpenFull, At, procs, local
  <2>2. OnlyCall(p)
    BY <1>01, <1>02, <2>1 DEF OnlyCall
  <2>3. fd[p] = None
    BY <2>1 DEF CallInv, CallOf
  <2>4. CallOf(p)' /\ at[p] \in Plain /\ at'[p] \in Plain
    BY <2>1, <2>3 DEF CallOf, Section, Plain
  <2> QED
    BY <1>01, <2>1, <2>2, <2>4, PlainStep
<1>5. ASSUME NEW p \in Rec, Alloc(p)
      PROVE  CallInv' /\ CountsExact'
  <2> DEFINE n == Len(file_free)
  <2>1. /\ at[p] = "alloc" /\ Live(p) /\ file_free' = Front(file_free)
        /\ refcount' = [refcount EXCEPT ![f[p]] = 1]
        /\ at' = [at EXCEPT ![p] = "unlock"]
        /\ UNCHANGED <<state, file_lock, f, fd, child, local_fd_table, leaked, lost, wrapped>>
    BY <1>5 DEF Alloc, At, Go, procs, lock, local, history, Live
  <2>2. file_free # <<>> /\ f[p] = Last(file_free) /\ fd[p] = None
    BY <2>1 DEF CallInv, CallOf
  <2>3. n # 0 /\ n \in Nat
    BY <2>2, EmptySeq DEF FileTypeOK
  <2>4. /\ file_free' \in Seq(File) /\ Last(file_free) \in File /\ Last(file_free) = file_free[n]
        /\ Len(file_free') = n - 1
        /\ \A i \in 1..(n - 1) : file_free'[i] = file_free[i]
    BY <2>1, <2>3, FrontLemma DEF FileTypeOK
  <2>5. PICK k \in File : k = f[p]
    BY <2>2, <2>4
  <2>6. DOMAIN file_free = 1..n /\ DOMAIN file_free' = 1..(n - 1)
    BY <2>4, LenProperties DEF FileTypeOK
  <2>7. k = file_free[n]
    BY <2>2, <2>4, <2>5
  <2> HIDE DEF n
  <2>8. \A q \in Rec : q # p => at'[q] = at[q] /\ file_lock # q
    BY <1>0, <1>03, <2>1 DEF Section
  <2>9. OnlyCall(p)
    BY <1>01, <2>1, <2>8 DEF OnlyCall
  <2>10. at'[p] = "unlock" /\ f'[p] = k /\ fd'[p] = None /\ at[p] \in Plain
    BY <1>0, <2>1, <2>2, <2>5 DEF Plain
  <2>11. file_lock' = p
    BY <1>03, <2>1 DEF Section, CallInv, CallOf
  <2>12. CallOf(p)'
    BY <1>00, <1>01, <2>1, <2>10, <2>11 DEF CallOf
  <2>13. ASSUME ~lost, ~wrapped
        PROVE  /\ refcount'[k] = refcount[k] + 1
               /\ \A g \in File : g # k => refcount'[g] = refcount[g]
               /\ IsInjective(file_free') /\ Range(file_free') = {g \in File : refcount'[g] = 0}
    <3>1. IsInjective(file_free) /\ Range(file_free) = {g \in File : refcount[g] = 0}
      BY <2>13 DEF CountsExact
    <3>2. n \in DOMAIN file_free /\ file_free[n] = k
      BY <2>3, <2>6, <2>7
    <3>3. k \in Range(file_free)
      BY <3>2 DEF Range
    <3>4. refcount'[k] = 1 /\ refcount[k] = 0 /\ \A g \in File : g # k => refcount'[g] = refcount[g]
      BY <1>0, <2>1, <2>5, <3>1, <3>3
    <3>5. \A i \in DOMAIN file_free' : i \in DOMAIN file_free /\ i # n /\ file_free'[i] = file_free[i]
      BY <2>3, <2>4, <2>6
    <3>6. \A i \in DOMAIN file_free : i # n => i \in DOMAIN file_free'
      BY <2>3, <2>6
    <3>7. IsInjective(file_free')
      BY <3>1, <3>5 DEF IsInjective
    <3>8. Range(file_free') = Range(file_free) \ {k}
      <4>1. \A x : x \in Range(file_free') => x \in Range(file_free) \ {k}
        BY <3>1, <3>2, <3>5 DEF Range, IsInjective
      <4>2. \A x : x \in Range(file_free) \ {k} => x \in Range(file_free')
        BY <3>2, <3>5, <3>6 DEF Range
      <4> QED
        BY <4>1, <4>2
    <3>9. Range(file_free') = {g \in File : refcount'[g] = 0}
      BY <3>1, <3>4, <3>8
    <3> QED
      BY <3>4, <3>7, <3>9
  <2>14. Live(p)' /\ local_fd_table'[p] = local_fd_table[p]
    BY <1>01, <2>1
  <2> QED
    BY <2>1, <2>9, <2>10, <2>12, <2>13, <2>14, CallStep
<1>6. ASSUME NEW p \in Rec, FdAdd(p)
      PROVE  CallInv' /\ CountsExact'
  <2>1. /\ at[p] = "fd_add" /\ Live(p) /\ FdAddTo(p, p) /\ at' = [at EXCEPT ![p] = "user"]
        /\ UNCHANGED <<state, file_lock, refcount, file_free, lost, wrapped, fd, child>>
    BY <1>6 DEF FdAdd, At, Go, procs, lock, Live
  <2>2. f[p] \in File /\ CallOf(p) /\ fd[p] = None
    BY <2>1 DEF CallInv, CallOf
  <2>3. CallRef(p, f[p])
    BY <2>1 DEF CallRef, InCall
  <2>4. at'[p] = "user" /\ \A x \in Rec : x # p => at'[x] = at[x]
    BY <1>0, <2>1
  <2>5. CountsExact'
    BY <2>1, <2>2, <2>3, <2>4, Stored
  <2>6. OnlyCall(p)
    BY <1>0, <1>01, <2>1, <2>4 DEF OnlyCall, FdAddTo
  <2>7. CallOf(p)'
    BY <2>1, <2>2, <2>4 DEF CallOf, Section
  <2> QED
    BY <2>5, <2>6, <2>7, OnlyCallKeeps
<1>7. ASSUME NEW p \in Rec, NEW i \in Fd, Close(p, i)
      PROVE  CallInv' /\ CountsExact'
  BY <1>7, BeginStep DEF Close, At, Live
<1>8. ASSUME NEW p \in Rec, FileFree(p)
      PROVE  CallInv' /\ CountsExact'
  <2>1. /\ at[p] = "free" /\ Live(p)
        /\ f' = [f EXCEPT ![p] = None] /\ at' = [at EXCEPT ![p] = "unlock"]
        /\ UNCHANGED <<state, file_lock, fd, child, local_fd_table, leaked, wrapped>>
    BY <1>8 DEF FileFree, At, Go, procs, lock, Live
  <2>2. f[p] \in File /\ fd[p] \in Fd /\ local_fd_table[p][fd[p]] = f[p] /\ file_lock = p
    BY <2>1 DEF CallInv, CallOf, Section
  <2>3. PICK k \in File, i \in Fd : k = f[p] /\ i = fd[p] /\ local_fd_table[p][i] = k
    BY <2>2
  <2>4. /\ at'[p] = "unlock" /\ f'[p] = None /\ fd'[p] = i
        /\ \A q \in Rec : q # p => at'[q] = at[q] /\ f'[q] = f[q] /\ file_lock # q
    BY <1>0, <2>1, <2>2, <2>3
  <2>5. OnlyCall(p)
    BY <1>01, <2>1, <2>4 DEF OnlyCall
  <2>6. CallOf(p)'
    BY <1>00, <1>01, <2>1, <2>2, <2>3, <2>4 DEF CallOf
  <2>7. /\ CallInv'
        /\ \A q \in Rec, j \in Fd, g \in File : q # p => (Ref(q, j, g)' <=> Ref(q, j, g))
        /\ \A q \in Rec, g \in File : q # p => (CallRef(q, g)' <=> CallRef(q, g))
    BY <2>5, <2>6, OnlyCallKeeps
  <2>8. \A j \in Fd, g \in File : Ref(p, j, g)' <=> Ref(p, j, g) /\ ~ (j = i /\ g = k)
    BY <1>01, <2>1, <2>3, <2>4 DEF Ref, InTable
  <2>9. \A q \in Rec, j \in Fd, g \in File :
          Ref(q, j, g)' <=> Ref(q, j, g) /\ ~ (q = p /\ j = i /\ g = k)
    BY <2>7, <2>8
  <2>10. \A q \in Rec, g \in File : CallRef(q, g)' <=> CallRef(q, g)
    <3>1. \A g \in File : CallRef(p, g)' <=> CallRef(p, g)
      BY <1>00, <2>1, <2>4 DEF CallRef, InCall
    <3> QED
      BY <2>7, <3>1
  <2>11. Ref(p, i, k)
    BY <2>1, <2>3 DEF Ref, InTable
  <2>12. CountsExact'
    BY <1>8, <2>1, <2>3, <2>9, <2>10, <2>11, GivenBack
  <2> QED
    BY <2>7, <2>12
<1>9. ASSUME NEW p \in Rec, FdFree(p)
      PROVE  CallInv' /\ CountsExact'
  <2>1. /\ at[p] = "fd_free" /\ Live(p)
        /\ local_fd_table' = [local_fd_table EXCEPT ![p][fd[p]] = None]
        /\ fd' = [fd EXCEPT ![p] = None]
        /\ at' = [at EXCEPT ![p] = IF child[p] = None THEN "user" ELSE "reap"]
        /\ UNCHANGED <<state, file_lock, f, child, leaked, file_free, refcount, lost, wrapped>>
    BY <1>9 DEF FdFree, At, Go, procs, lock, history, Live
  <2>2. /\ at'[p] = IF child[p] = None THEN "user" ELSE "reap"
        /\ fd'[p] = None /\ (child[p] # None => child[p] \in Rec)
        /\ \A q \in Rec : q # p => at'[q] = at[q] /\ fd'[q] = fd[q]
                                   /\ local_fd_table'[q] = local_fd_table[q]
    BY <1>0, <2>1
  <2>3. OnlyCall(p)
    BY <1>01, <2>1, <2>2 DEF OnlyCall
  <2>4. fd[p] \in Fd
    BY <1>0, <2>1 DEF CallInv, CallOf
  <2>5. CallOf(p)'
    BY <1>01, <2>1, <2>2 DEF CallOf, Section
  <2>6. /\ CallInv'
        /\ \A q \in Rec, j \in Fd, g \in File : q # p => (Ref(q, j, g)' <=> Ref(q, j, g))
        /\ \A q \in Rec, g \in File : q # p => (CallRef(q, g)' <=> CallRef(q, g))
    BY <2>3, <2>5, OnlyCallKeeps
  <2>7. \A j \in Fd : local_fd_table'[p][j] = IF j = fd[p] THEN None ELSE local_fd_table[p][j]
    BY <1>0, <2>1, <2>4
  <2>8. \A j \in Fd, g \in File : Ref(p, j, g)' <=> Ref(p, j, g)
    BY <1>00, <1>01, <2>1, <2>2, <2>4, <2>7 DEF Ref, InTable
  <2>9. \A g \in File : CallRef(p, g)' <=> CallRef(p, g)
    BY <2>1, <2>2 DEF CallRef, InCall
  <2>10. CountsExact'
    <3>1. \A q \in Rec, j \in Fd, g \in File : Ref(q, j, g)' <=> Ref(q, j, g)
      BY <2>6, <2>8
    <3>2. \A q \in Rec, g \in File : CallRef(q, g)' <=> CallRef(q, g)
      BY <2>6, <2>9
    <3> QED
      BY <2>1, <3>1, <3>2, Uncounted
  <2> QED
    BY <2>6, <2>10
<1>10. ASSUME NEW p \in Rec, NEW i \in Fd, Dup(p, i)
       PROVE  CallInv' /\ CountsExact'
  <2>1. PICK k \in File : k = local_fd_table[p][i]
    BY <1>0, <1>10 DEF Dup
  <2>2. /\ at[p] = "user" /\ Live(p) /\ Lock(p) /\ file_lock' = p
        /\ f' = [f EXCEPT ![p] = k] /\ at' = [at EXCEPT ![p] = "dup"]
        /\ UNCHANGED <<state, refcount, file_free, local_fd_table, fd, child, leaked, lost, wrapped>>
    BY <1>10, <2>1 DEF Dup, Lock, Load, At, Go, procs, Live
  <2>3. /\ at'[p] = "dup" /\ f'[p] = k
        /\ \A q \in Rec : q # p => at'[q] = at[q] /\ f'[q] = f[q]
    BY <1>0, <2>2
  <2>4. OnlyCall(p)
    BY <1>01, <1>02, <2>2, <2>3 DEF OnlyCall
  <2>5. fd[p] = None
    BY <2>2 DEF CallInv, CallOf
  <2>6. CallOf(p)' /\ at[p] \in Plain /\ at'[p] \in Plain
    BY <1>01, <2>1, <2>2, <2>3, <2>5 DEF CallOf, Section, Plain
  <2> QED
    BY <1>01, <2>2, <2>4, <2>6, PlainStep
<1>11. ASSUME NEW p \in Rec, DupStore(p)
       PROVE  CallInv' /\ CountsExact'
  <2>1. /\ at[p] = "dup" /\ Live(p) /\ Increment(p) /\ at' = [at EXCEPT ![p] = "unlock"]
        /\ UNCHANGED <<state, file_lock, file_free, local_fd_table, f, fd, child, leaked>>
    BY <1>11 DEF DupStore, At, Go, procs, lock, Live
  <2>2. /\ f[p] \in File /\ fd[p] = None /\ file_lock = p
        /\ \E i \in Fd : local_fd_table[p][i] = f[p]
    BY <2>1 DEF CallInv, CallOf, Section
  <2>3. PICK k \in File : k = f[p]
    BY <2>2
  <2>4. PICK i \in Fd : local_fd_table[p][i] = k
    BY <2>2, <2>3
  <2>5. at'[p] = "unlock" /\ \A q \in Rec : q # p => at'[q] = at[q]
    BY <1>0, <2>1
  <2>6. OnlyCall(p)
    BY <1>01, <2>1, <2>5 DEF OnlyCall
  <2>7. CallOf(p)'
    BY <1>00, <1>01, <2>1, <2>2, <2>5 DEF CallOf
  <2>8. Ref(p, i, k)
    BY <2>1, <2>4 DEF Ref, InTable
  <2>9. f'[p] = k /\ fd'[p] = None /\ at[p] \in Plain /\ Live(p)'
        /\ local_fd_table'[p] = local_fd_table[p]
    BY <1>01, <2>1, <2>2, <2>3 DEF Plain
  <2>10. ASSUME ~lost', ~wrapped'
         PROVE  /\ ~lost /\ ~wrapped /\ refcount'[k] = refcount[k] + 1
                /\ \A g \in File : g # k => refcount'[g] = refcount[g]
                /\ IsInjective(file_free') /\ Range(file_free') = {g \in File : refcount'[g] = 0}
    BY <2>1, <2>3, <2>8, <2>10, Incremented
  <2> QED
    BY <2>1, <2>5, <2>6, <2>7, <2>9, <2>10, CallStep
<1>12. ASSUME NEW p \in Rec, NEW i \in Fd, Access(p, i)
       PROVE  CallInv' /\ CountsExact'
  <2>1. PICK k \in File : k = local_fd_table[p][i]
    BY <1>0, <1>12 DEF Access
  <2>2. /\ at[p] = "user" /\ Live(p)
        /\ f' = [f EXCEPT ![p] = k] /\ at' = [at EXCEPT ![p] = "store"]
        /\ UNCHANGED <<state, file_lock, file_free, local_fd_table, fd, child, leaked, lost, refcount,
                       wrapped>>
    BY <1>12, <2>1 DEF Access, Load, At, Go, procs, lock, Live
  <2>3. /\ at'[p] = "store" /\ f'[p] = k
        /\ \A q \in Rec : q # p => at'[q] = at[q] /\ f'[q] = f[q]
    BY <1>0, <2>2
  <2>4. OnlyCall(p)
    BY <1>01, <2>2, <2>3 DEF OnlyCall
  <2>5. fd[p] = None
    BY <2>2 DEF CallInv, CallOf
  <2>6. CallOf(p)' /\ at[p] \in Plain /\ at'[p] \in Plain
    BY <1>01, <2>1, <2>2, <2>3, <2>5 DEF CallOf, Section, Plain
  <2> QED
    BY <1>01, <2>2, <2>4, <2>6, PlainStep
<1>13. ASSUME NEW p \in Rec, AccessStore(p)
       PROVE  CallInv' /\ CountsExact'
  <2>1. /\ at[p] = "store" /\ Live(p) /\ refcount' = [refcount EXCEPT ![f[p]] = loaded[p]]
        /\ lost' = (lost \/ refcount[f[p]] # loaded[p])
        /\ f' = [f EXCEPT ![p] = None] /\ at' = [at EXCEPT ![p] = "user"]
        /\ UNCHANGED <<state, file_lock, file_free, local_fd_table, fd, child, leaked, wrapped>>
    BY <1>13 DEF AccessStore, Store, At, Go, procs, lock, Live
  <2>2. /\ at'[p] = "user" /\ \A q \in Rec : q # p => at'[q] = at[q] /\ f'[q] = f[q]
    BY <1>0, <2>1
  <2>3. OnlyCall(p)
    BY <1>01, <2>1, <2>2 DEF OnlyCall
  <2>4. fd[p] = None /\ f[p] \in File
    BY <2>1 DEF CallInv, CallOf
  <2>5. CallOf(p)' /\ at[p] \in Plain /\ at'[p] \in Plain
    BY <2>1, <2>2, <2>4 DEF CallOf, Section, Plain
  <2>6. ~lost' => ~lost /\ refcount' = refcount
    BY <1>0, <2>1, <2>4
  <2> QED
    BY <1>01, <2>1, <2>3, <2>5, <2>6, PlainStep
<1>14. ASSUME NEW p \in Rec, NEW r \in Rec, NEW fds \in SUBSET Fd, Spawn(p, r, fds)
       PROVE  CallInv' /\ CountsExact'
  <2>1. /\ at[p] = "user" /\ Live(p)
        /\ child' = [child EXCEPT ![p] = r] /\ at' = [at EXCEPT ![p] = "create"]
        /\ UNCHANGED <<state, file_lock, refcount, file_free, local_fd_table, f, fd, leaked, lost,
                       wrapped>>
    BY <1>14 DEF Spawn, At, Go, lock, Live
  <2>2. /\ at'[p] = "create" /\ child'[p] = r
        /\ \A q \in Rec : q # p => at'[q] = at[q] /\ child'[q] = child[q]
    BY <1>0, <2>1
  <2>3. OnlyCall(p)
    BY <1>01, <2>1, <2>2 DEF OnlyCall
  <2>4. fd[p] = None
    BY <2>1 DEF CallInv, CallOf
  <2>5. CallOf(p)' /\ at[p] \in Plain /\ at'[p] \in Plain
    BY <1>01, <2>1, <2>2, <2>4 DEF CallOf, Section, Plain
  <2> QED
    BY <1>01, <2>1, <2>3, <2>5, PlainStep
<1>15. ASSUME NEW p \in Rec, Create(p)
       PROVE  CallInv' /\ CountsExact'
  <2>1. PICK r \in Rec : r = child[p]
    BY <1>15 DEF Create, At, CallInv, CallOf
  <2>2. /\ at[p] = "create" /\ Live(p) /\ Forget(r)
        /\ state' = [state EXCEPT ![r] = "PROC_BLOCKED"]
        /\ local_fd_table' = [local_fd_table EXCEPT ![r] = NoFiles]
        /\ f' = [f EXCEPT ![r] = None] /\ fd' = [fd EXCEPT ![r] = None]
        /\ child' = [child EXCEPT ![r] = None]
        /\ at' = [at EXCEPT ![p] = "inherit", ![r] = "user"]
        /\ UNCHANGED <<refcount, file_free, file_lock, lost, wrapped>>
    BY <1>15, <2>1 DEF Create, At, lock, Live
  <2>3. /\ at'[r] = "user" /\ fd'[r] = None /\ \A i \in Fd : local_fd_table'[r][i] = None
        /\ \A x \in Rec : x # r =>
             /\ f'[x] = f[x] /\ fd'[x] = fd[x] /\ child'[x] = child[x]
             /\ local_fd_table'[x] = local_fd_table[x]
             /\ at'[x] = IF x = p THEN "inherit" ELSE at[x]
    BY <1>0, <2>2 DEF NoFiles
  <2>4. \A x \in Rec : (x # r => (Live(x)' <=> Live(x))) /\ (x = r => Live(x)')
    BY <2>2 DEF Live, FileTypeOK
  <2>5. fd[p] = None
    BY <2>2 DEF CallInv, CallOf
  <2>6. CallInv'
    <3> SUFFICES ASSUME NEW x \in Rec
                 PROVE  CallOf(x)'
      BY DEF CallInv
    <3>1. CASE x = r
      BY <2>3, <2>4, <3>1 DEF CallOf, Section
    <3>2. CASE x = p /\ x # r
      <4>1. at'[x] = "inherit" /\ fd'[x] = None /\ child'[x] = child[p] /\ Live(x)'
        BY <2>2, <2>3, <2>4, <2>5, <3>2
      <4>2. child'[x] \in Rec
        BY <2>1, <4>1
      <4> QED
        BY <4>1, <4>2 DEF CallOf, Section
    <3>3. CASE x # p /\ x # r
      <4>1. CallOf(x) /\ (Live(x)' <=> Live(x))
        BY <2>4, <3>3 DEF CallInv
      <4>2. /\ at'[x] = at[x] /\ f'[x] = f[x] /\ fd'[x] = fd[x] /\ child'[x] = child[x]
            /\ local_fd_table'[x] = local_fd_table[x]
            /\ file_lock' = file_lock /\ file_free' = file_free
        BY <2>2, <2>3, <3>3
      <4> QED
        BY <4>1, <4>2 DEF CallOf
    <3> QED
      BY <3>1, <3>2, <3>3
  <2>7. \A q \in Rec, i \in Fd, g \in File : Ref(q, i, g)' <=> Ref(q, i, g) /\ q # r
    <3> SUFFICES ASSUME NEW q \in Rec, NEW i \in Fd, NEW g \in File
                 PROVE  Ref(q, i, g)' <=> Ref(q, i, g) /\ q # r
      OBVIOUS
    <3>1. CASE q = r
      BY <1>00, <2>3, <3>1 DEF Ref, InTable
    <3>2. CASE q # r
      <4>1. at'[q] \in {"unlock", "fd_free"} <=> at[q] \in {"unlock", "fd_free"}
        <5>1. q = p => at[q] = "create" /\ at'[q] = "inherit"
          BY <2>2, <2>3, <3>2
        <5>2. q # p => at'[q] = at[q]
          BY <2>3, <3>2
        <5> QED
          BY <5>1, <5>2
      <4> QED
        BY <2>3, <2>4, <3>2, <4>1 DEF Ref, InTable
    <3> QED
      BY <3>1, <3>2
  <2>8. \A q \in Rec, g \in File : CallRef(q, g)' <=> CallRef(q, g) /\ q # r
    <3> SUFFICES ASSUME NEW q \in Rec, NEW g \in File
                 PROVE  CallRef(q, g)' <=> CallRef(q, g) /\ q # r
      OBVIOUS
    <3>1. CASE q = r
      BY <2>3, <3>1 DEF CallRef, InCall
    <3>2. CASE q # r
      <4>1. at'[q] \in {"unlock", "fd_add", "inherit_add"} <=> at[q] \in {"unlock", "fd_add", "inherit_add"}
        <5>1. q = p => at[q] = "create" /\ at'[q] = "inherit"
          BY <2>2, <2>3, <3>2
        <5>2. q # p => at'[q] = at[q]
          BY <2>3, <3>2
        <5> QED
          BY <5>1, <5>2
      <4> QED
        BY <2>3, <2>4, <3>2, <4>1 DEF CallRef, InCall
    <3> QED
      BY <3>1, <3>2
  <2>9. CountsExact'
    BY <2>2, <2>7, <2>8, Emptied
  <2> QED
    BY <2>6, <2>9
<1>16. ASSUME NEW p \in Rec, SpawnFails(p)
       PROVE  CallInv' /\ CountsExact'
  <2>1. /\ at[p] = "create" /\ Live(p)
        /\ child' = [child EXCEPT ![p] = None] /\ at' = [at EXCEPT ![p] = "user"]
        /\ UNCHANGED <<state, file_lock, refcount, file_free, local_fd_table, f, fd, leaked, lost,
                       wrapped>>
    BY <1>16 DEF SpawnFails, At, Go, procs, lock, history, Live
  <2>2. at'[p] = "user" /\ \A q \in Rec : q # p => at'[q] = at[q] /\ child'[q] = child[q]
    BY <1>0, <2>1
  <2>3. OnlyCall(p)
    BY <1>01, <2>1, <2>2 DEF OnlyCall
  <2>4. fd[p] = None
    BY <2>1 DEF CallInv, CallOf
  <2>5. CallOf(p)' /\ at[p] \in Plain /\ at'[p] \in Plain
    BY <2>1, <2>2, <2>4 DEF CallOf, Section, Plain
  <2> QED
    BY <1>01, <2>1, <2>3, <2>5, PlainStep
<1>17. ASSUME NEW p \in Rec, Inherit(p)
       PROVE  CallInv' /\ CountsExact'
  <2> DEFINE i == Min(fd_list[p])
             g == local_fd_table[p][i]
  <2>1. i \in Fd
    <3>1. fd_list[p] \subseteq Fd /\ fd_list[p] # {}
      BY <1>17 DEF FileTypeOK, Inherit
    <3> QED
      BY <3>1, FdFinite, MinLemma
  <2>2. /\ at[p] = "inherit" /\ Live(p)
        /\ IF g = None THEN UNCHANGED <<at, f>>
           ELSE f' = [f EXCEPT ![p] = g] /\ at' = [at EXCEPT ![p] = "inherit_store"]
        /\ UNCHANGED <<state, file_lock, refcount, file_free, local_fd_table, fd, child, leaked, lost,
                       wrapped>>
    BY <1>17 DEF Inherit, Load, At, Go, procs, lock, history, Live
  <2>3. g \in File \cup {None} /\ g = local_fd_table[p][i]
    BY <1>0, <2>1
  <2>4. fd[p] = None /\ child[p] \in Rec
    BY <2>2 DEF CallInv, CallOf
  <2> HIDE DEF i, g
  <2>5. /\ \A q \in Rec : q # p => at'[q] = at[q] /\ f'[q] = f[q]
        /\ IF g = None THEN at'[p] = "inherit" ELSE at'[p] = "inherit_store" /\ f'[p] = g
    BY <1>0, <2>2
  <2>6. OnlyCall(p)
    BY <1>01, <2>2, <2>5 DEF OnlyCall
  <2>7. CallOf(p)'
    <3>1. CASE g = None
      BY <1>01, <2>2, <2>4, <2>5, <3>1 DEF CallOf, Section
    <3>2. CASE g # None
      <4>1. f'[p] \in File /\ \E j \in Fd : local_fd_table'[p][j] = f'[p]
        BY <2>1, <2>2, <2>3, <2>5, <3>2
      <4> QED
        BY <1>01, <2>2, <2>4, <2>5, <3>2, <4>1 DEF CallOf, Section
    <3> QED
      BY <3>1, <3>2
  <2>8. at[p] \in Plain /\ at'[p] \in Plain
    BY <2>2, <2>5 DEF Plain
  <2> QED
    BY <1>01, <2>2, <2>6, <2>7, <2>8, PlainStep
<1>18. ASSUME NEW p \in Rec, InheritStore(p)
       PROVE  CallInv' /\ CountsExact'
  <2>1. /\ at[p] = "inherit_store" /\ Live(p) /\ Increment(p)
        /\ at' = [at EXCEPT ![p] = "inherit_add"]
        /\ UNCHANGED <<state, file_lock, file_free, local_fd_table, f, fd, child, leaked>>
    BY <1>18 DEF InheritStore, At, Go, procs, lock, Live
  <2>2. /\ f[p] \in File /\ fd[p] = None /\ child[p] \in Rec
        /\ \E i \in Fd : local_fd_table[p][i] = f[p]
    BY <2>1 DEF CallInv, CallOf
  <2>3. PICK k \in File : k = f[p]
    BY <2>2
  <2>4. PICK i \in Fd : local_fd_table[p][i] = k
    BY <2>2, <2>3
  <2>5. at'[p] = "inherit_add" /\ \A q \in Rec : q # p => at'[q] = at[q]
    BY <1>0, <2>1
  <2>6. OnlyCall(p)
    BY <1>01, <2>1, <2>5 DEF OnlyCall
  <2>7. CallOf(p)'
    BY <1>01, <2>1, <2>2, <2>5 DEF CallOf, Section
  <2>8. Ref(p, i, k)
    BY <2>1, <2>4 DEF Ref, InTable
  <2>9. f'[p] = k /\ fd'[p] = None /\ at[p] \in Plain /\ Live(p)'
        /\ local_fd_table'[p] = local_fd_table[p]
    BY <1>01, <2>1, <2>2, <2>3 DEF Plain
  <2>10. ASSUME ~lost', ~wrapped'
         PROVE  /\ ~lost /\ ~wrapped /\ refcount'[k] = refcount[k] + 1
                /\ \A g \in File : g # k => refcount'[g] = refcount[g]
                /\ IsInjective(file_free') /\ Range(file_free') = {g \in File : refcount'[g] = 0}
    BY <2>1, <2>3, <2>8, <2>10, Incremented
  <2> QED
    BY <2>1, <2>5, <2>6, <2>7, <2>9, <2>10, CallStep
<1>19. ASSUME NEW p \in Rec, InheritAdd(p)
       PROVE  CallInv' /\ CountsExact'
  <2>1. /\ at[p] = "inherit_add" /\ Live(p) /\ FdAddTo(p, child[p])
        /\ at' = [at EXCEPT ![p] = "inherit"]
        /\ UNCHANGED <<state, file_lock, refcount, file_free, lost, wrapped, fd, child>>
    BY <1>19 DEF InheritAdd, At, Go, procs, lock, Live
  <2>2. f[p] \in File /\ child[p] \in Rec /\ fd[p] = None
    BY <2>1 DEF CallInv, CallOf
  <2>3. PICK q \in Rec : q = child[p]
    BY <2>2
  <2>4. FdAddTo(p, q) /\ CallOf(q) /\ CallRef(p, f[p])
    BY <2>1, <2>3 DEF CallInv, CallRef, InCall
  <2>5. at'[p] = "inherit" /\ \A x \in Rec : x # p => at'[x] = at[x]
    BY <1>0, <2>1
  <2>6. CountsExact'
    BY <2>1, <2>2, <2>4, <2>5, Stored
  <2>7. \A x \in Rec : (Live(x)' <=> Live(x)) /\ (x # p => f'[x] = f[x])
    BY <1>0, <1>01, <2>1 DEF FdAddTo
  <2>8. \A x \in Rec, i \in Fd : local_fd_table[x][i] # None => local_fd_table'[x][i] = local_fd_table[x][i]
    <3>1. CASE FreeFds(q) = {}
      BY <2>4, <3>1 DEF FdAddTo
    <3>2. CASE FreeFds(q) # {}
      <4> DEFINE d == Min(FreeFds(q))
      <4>1. FreeFds(q) \subseteq Nat
        BY FdFinite DEF FreeFds
      <4>2. d \in FreeFds(q)
        BY <3>2, <4>1, MinLemma
      <4>3. d \in Fd /\ local_fd_table[q][d] = None
        BY <4>2 DEF FreeFds
      <4>4. local_fd_table' = [local_fd_table EXCEPT ![q][d] = f[p]]
        BY <2>4, <3>2 DEF FdAddTo
      <4> HIDE DEF d
      <4> QED
        BY <1>0, <4>3, <4>4
    <3> QED
      BY <3>1, <3>2
  <2>9. CallInv'
    <3> SUFFICES ASSUME NEW x \in Rec
                 PROVE  CallOf(x)'
      BY DEF CallInv
    <3>1. CASE x = p
      BY <2>1, <2>2, <2>5, <2>7, <3>1 DEF CallOf, Section
    <3>2. CASE x # p
      <4>1. /\ at'[x] = at[x] /\ f'[x] = f[x] /\ fd'[x] = fd[x] /\ child'[x] = child[x]
            /\ (Live(x)' <=> Live(x)) /\ file_lock' = file_lock /\ file_free' = file_free
        BY <2>1, <2>5, <2>7, <3>2
      <4>2. CallOf(x)
        BY DEF CallInv
      <4>3. at[x] = "free" => fd[x] \in Fd /\ local_fd_table'[x][fd[x]] = f[x]
        BY <4>2, <2>8, <1>00 DEF CallOf
      <4>4. at[x] \in {"dup", "inherit_store"} => \E i \in Fd : local_fd_table'[x][i] = f[x]
        BY <4>2, <2>8, <1>00 DEF CallOf
      <4>5. at[x] \in {"unlock", "fd_free"} /\ fd[x] # None => local_fd_table'[x][fd[x]] # None
        BY <4>2, <2>8, <1>0 DEF CallOf
      <4> QED
        BY <4>1, <4>2, <4>3, <4>4, <4>5 DEF CallOf
    <3> QED
      BY <3>1, <3>2
  <2> QED
    BY <2>6, <2>9
<1>20. ASSUME NEW p \in Rec, SpawnReturns(p)
       PROVE  CallInv' /\ CountsExact'
  <2>1. /\ at[p] = "inherit" /\ Live(p) /\ child' = [child EXCEPT ![p] = None]
        /\ at' = [at EXCEPT ![p] = "user"]
        /\ UNCHANGED <<state, file_lock, refcount, file_free, local_fd_table, f, fd, leaked, lost,
                       wrapped>>
    BY <1>20 DEF SpawnReturns, At, Go, procs, lock, history, Live
  <2>2. at'[p] = "user" /\ \A q \in Rec : q # p => at'[q] = at[q] /\ child'[q] = child[q]
    BY <1>0, <2>1
  <2>3. OnlyCall(p)
    BY <1>01, <2>1, <2>2 DEF OnlyCall
  <2>4. fd[p] = None
    BY <2>1 DEF CallInv, CallOf
  <2>5. CallOf(p)' /\ at[p] \in Plain /\ at'[p] \in Plain
    BY <2>1, <2>2, <2>4 DEF CallOf, Section, Plain
  <2> QED
    BY <1>01, <2>1, <2>3, <2>5, PlainStep
<1>21. ASSUME NEW p \in Rec, Start(p)
       PROVE  CallInv' /\ CountsExact'
  <2>1. /\ state[p] = "PROC_BLOCKED" /\ state' = [state EXCEPT ![p] = "PROC_READY"]
        /\ UNCHANGED <<file_lock, at, refcount, file_free, local_fd_table, f, fd, child, leaked, lost,
                       wrapped>>
    BY <1>21 DEF Start, lock, local, history
  <2>2. \A q \in Rec : Live(q)' <=> Live(q)
    BY <2>1 DEF Live, FileTypeOK
  <2>3. \A q \in Rec : CallOf(q)' <=> CallOf(q)
    BY <2>1, <2>2 DEF CallOf
  <2>4. \A q \in Rec, i \in Fd, g \in File : Ref(q, i, g)' <=> Ref(q, i, g)
    BY <2>1, <2>2 DEF Ref, InTable
  <2>5. \A q \in Rec, g \in File : CallRef(q, g)' <=> CallRef(q, g)
    BY <2>1, <2>2 DEF CallRef, InCall
  <2>6. CountsExact'
    BY <2>1, <2>4, <2>5, Uncounted
  <2> QED
    BY <2>3, <2>6 DEF CallInv
<1>22. ASSUME NEW p \in Rec, Die(p)
       PROVE  CallInv' /\ CountsExact'
  <2>1. /\ Live(p) /\ state' = [state EXCEPT ![p] = "PROC_ZOMBIE"] /\ Forget(p)
        /\ f' = [f EXCEPT ![p] = None] /\ fd' = [fd EXCEPT ![p] = None]
        /\ child' = [child EXCEPT ![p] = None] /\ at' = [at EXCEPT ![p] = "user"]
        /\ UNCHANGED <<file_lock, refcount, file_free, local_fd_table, lost, wrapped>>
    BY <1>22 DEF Die, Go, lock
  <2>2. \A q \in Rec : Live(q)' <=> Live(q) /\ q # p
    BY <2>1 DEF Live, FileTypeOK
  <2>3. /\ at'[p] = "user" /\ fd'[p] = None
        /\ \A q \in Rec : q # p => at'[q] = at[q] /\ f'[q] = f[q] /\ fd'[q] = fd[q] /\ child'[q] = child[q]
    BY <1>0, <2>1
  <2>4. OnlyCall(p)
    BY <2>1, <2>2, <2>3 DEF OnlyCall
  <2>5. CallOf(p)'
    BY <2>3 DEF CallOf, Section
  <2>6. /\ CallInv'
        /\ \A q \in Rec, j \in Fd, g \in File : q # p => (Ref(q, j, g)' <=> Ref(q, j, g))
        /\ \A q \in Rec, g \in File : q # p => (CallRef(q, g)' <=> CallRef(q, g))
    BY <2>4, <2>5, OnlyCallKeeps
  <2>7. \A q \in Rec, i \in Fd, g \in File : Ref(q, i, g)' <=> Ref(q, i, g) /\ q # p
    BY <2>2, <2>6 DEF Ref
  <2>8. \A q \in Rec, g \in File : CallRef(q, g)' <=> CallRef(q, g) /\ q # p
    BY <2>2, <2>6 DEF CallRef
  <2>9. CountsExact'
    BY <2>1, <2>7, <2>8, Emptied
  <2> QED
    BY <2>6, <2>9
<1>23. ASSUME NEW p \in Rec, NEW r \in Rec, WaitPid(p, r)
       PROVE  CallInv' /\ CountsExact'
  <2>1. /\ at[p] = "user" /\ Live(p) /\ child' = [child EXCEPT ![p] = r]
        /\ at' = [at EXCEPT ![p] = "reap"]
        /\ UNCHANGED <<state, file_lock, refcount, file_free, local_fd_table, f, fd, leaked, lost,
                       wrapped>>
    BY <1>23 DEF WaitPid, At, Go, procs, lock, history, Live
  <2>2. at'[p] = "reap" /\ child'[p] = r
        /\ \A q \in Rec : q # p => at'[q] = at[q] /\ child'[q] = child[q]
    BY <1>0, <2>1
  <2>3. OnlyCall(p)
    BY <1>01, <2>1, <2>2 DEF OnlyCall
  <2>4. fd[p] = None
    BY <2>1 DEF CallInv, CallOf
  <2>5. CallOf(p)' /\ at[p] \in Plain /\ at'[p] \in Plain
    BY <1>01, <2>1, <2>2, <2>4 DEF CallOf, Section, Plain
  <2> QED
    BY <1>01, <2>1, <2>3, <2>5, PlainStep
<1>24. ASSUME NEW p \in Rec, ReapClose(p)
       PROVE  CallInv' /\ CountsExact'
  <2>1. OpenFds(p) \subseteq Fd /\ OpenFds(p) # {}
    BY <1>24 DEF ReapClose, OpenFds
  <2>2. Min(OpenFds(p)) \in Fd
    BY <2>1, FdFinite, MinLemma
  <2> QED
    BY <1>24, <2>2, BeginStep DEF ReapClose, At, Live
<1>25. ASSUME NEW p \in Rec, ReapReturns(p)
       PROVE  CallInv' /\ CountsExact'
  <2>1. /\ at[p] = "reap" /\ Live(p) /\ child' = [child EXCEPT ![p] = None]
        /\ at' = [at EXCEPT ![p] = "user"]
        /\ UNCHANGED <<state, file_lock, refcount, file_free, local_fd_table, f, fd, leaked, lost,
                       wrapped>>
    BY <1>25 DEF ReapReturns, At, Go, lock, history, Live
  <2>2. at'[p] = "user" /\ \A q \in Rec : q # p => at'[q] = at[q] /\ child'[q] = child[q]
    BY <1>0, <2>1
  <2>3. OnlyCall(p)
    BY <1>01, <2>1, <2>2 DEF OnlyCall
  <2>4. fd[p] = None
    BY <2>1 DEF CallInv, CallOf
  <2>5. CallOf(p)' /\ at[p] \in Plain /\ at'[p] \in Plain
    BY <2>1, <2>2, <2>4 DEF CallOf, Section, Plain
  <2> QED
    BY <1>01, <2>1, <2>3, <2>5, PlainStep
<1> QED
  BY <1>1, <1>2, <1>3, <1>4, <1>5, <1>6, <1>7, <1>8, <1>9, <1>10, <1>11, <1>12, <1>13, <1>14,
     <1>15, <1>16, <1>17, <1>18, <1>19, <1>20, <1>21, <1>22, <1>23, <1>24, <1>25
     DEF FilesNext, Continue

(* The initial state has the types.                                        *)
LEMMA FileTypeInit == FilesInit => FileTypeOK /\ LockInv
<1> SUFFICES ASSUME FilesInit
             PROVE  FileTypeOK /\ LockInv
  OBVIOUS
<1>1. IsFiniteSet(File) /\ Console \in File /\ RefMod \in Nat /\ RefMod > 2 /\ MaxCalls \in Nat
      /\ Idle \in Rec /\ Parent \in Rec
  BY FilesAssumption DEF Console
<1>2. file_free \in Seq(File)
  <2> DEFINE S == File \ {Console}
  <2>1. IsFiniteSet(S) /\ S \subseteq File /\ file_free = SetToSeq(S)
    BY <1>1, FS_RemoveElement DEF FilesInit
  <2> HIDE DEF S
  <2>2. file_free \in Seq(S)
    BY <2>1, SetToSeqLemma
  <2> QED
    BY <2>1, <2>2
<1>3. 0 \in Counts /\ 2 \in Counts /\ 0 \in Fd /\ 0 \in 0..MaxCalls
  BY <1>1, FdFinite DEF Counts
<1>4. /\ NoFiles \in [Fd -> File \cup {None}]
      /\ [NoFiles EXCEPT ![0] = Console] \in [Fd -> File \cup {None}]
  BY <1>1, <1>3 DEF NoFiles
<1>5. local_fd_table \in [Rec -> [Fd -> File \cup {None}]]
  BY <1>4 DEF FilesInit
<1>6. refcount \in [File -> Counts] /\ leaked \in [File -> Nat] /\ loaded \in [Rec -> Counts]
  BY <1>3 DEF FilesInit
<1>7. state \in [Rec -> States] /\ listed \in SUBSET Rec
  BY <1>1 DEF FilesInit, States
<1>8. /\ file_lock \in Rec \cup {None} /\ lock_count \in Nat
      /\ f \in [Rec -> File \cup {None}] /\ fd \in [Rec -> Fd \cup {None}]
      /\ child \in [Rec -> Rec \cup {None}] /\ fd_list \in [Rec -> SUBSET Fd]
      /\ calls \in 0..MaxCalls /\ lost \in BOOLEAN /\ wrapped \in BOOLEAN
  BY <1>3 DEF FilesInit
<1>9. LockInv
  BY DEF FilesInit, LockInv
<1> QED
  BY <1>2, <1>5, <1>6, <1>7, <1>8, <1>9 DEF FileTypeOK, FilesInit

(* At first the console has its two descriptors, and the other files are   *)
(* free.                                                                   *)
LEMMA CountInit == FilesInit => CallInv /\ CountsExact
<1> SUFFICES ASSUME FilesInit
             PROVE  CallInv /\ CountsExact
  OBVIOUS
<1>0. Idle \in Rec /\ Parent \in Rec /\ Idle # Parent /\ None \notin File
  BY FilesAssumption
<1>2. /\ refcount = [g \in File |-> IF g = Console THEN 2 ELSE 0]
      /\ file_free = SetToSeq(File \ {Console})
      /\ local_fd_table = [p \in Rec |->
           IF p \in {Idle, Parent} THEN [NoFiles EXCEPT ![0] = Console] ELSE NoFiles]
      /\ at = [p \in Rec |-> "user"] /\ fd = [p \in Rec |-> None] /\ leaked = [g \in File |-> 0]
      /\ state = [r \in Rec |-> IF r \in {Idle, Parent} THEN "PROC_READY" ELSE "PROC_ZOMBIE"]
  BY DEF FilesInit
<1>3. \A p \in Rec : Live(p) <=> p \in {Idle, Parent}
  BY <1>2 DEF Live
<1>4. CallInv
  BY <1>2 DEF CallInv, CallOf, Section
<1>5. Console \in File
  BY FilesAssumption DEF Console
<1>6. \A p \in Rec, i \in Fd, g \in File :
        Ref(p, i, g) <=> p \in {Idle, Parent} /\ i = 0 /\ g = Console
  <2> SUFFICES ASSUME NEW p \in Rec, NEW i \in Fd, NEW g \in File
               PROVE  Ref(p, i, g) <=> p \in {Idle, Parent} /\ i = 0 /\ g = Console
    OBVIOUS
  <2>1. NoFiles[i] = None /\ [NoFiles EXCEPT ![0] = Console][i] = IF i = 0 THEN Console ELSE None
    BY DEF NoFiles
  <2> QED
    BY <1>0, <1>2, <1>3, <2>1 DEF Ref, InTable
<1>7. \A p \in Rec, g \in File : ~CallRef(p, g)
  BY <1>2 DEF CallRef, InCall
<1>8. ASSUME NEW g \in File
      PROVE  Cardinality(CallRefs(g)) = 0
  <2>1. CallRefs(g) = {}
    BY <1>7, RefsFactsHold DEF RefsFacts
  <2> QED
    BY <2>1, FS_EmptySet
<1>9. ASSUME NEW g \in File, g # Console
      PROVE  Cardinality(TableRefs(g)) = 0
  <2>1. /\ TableRefs(g) \subseteq Rec \X Fd
        /\ \A q \in Rec, i \in Fd : <<q, i>> \notin TableRefs(g)
    BY <1>6, <1>9, RefsFactsHold DEF RefsFacts
  <2>2. TableRefs(g) = {}
    BY <2>1
  <2> QED
    BY <2>2, FS_EmptySet
<1>10. Cardinality(TableRefs(Console)) = 2
  <2> DEFINE A == TableRefs(Console)
             x == <<Idle, 0>>
             y == <<Parent, 0>>
  <2>1. A \subseteq Rec \X Fd /\ \A q \in Rec, i \in Fd : <<q, i>> \in A <=> Ref(q, i, Console)
    BY <1>5, RefsFactsHold DEF RefsFacts
  <2> HIDE DEF A
  <2>2. ({x} \cup {y}) \subseteq Rec \X Fd /\ x # y
    BY <1>0, FdFinite
  <2>3. \A q \in Rec, i \in Fd : <<q, i>> \in A <=> <<q, i>> \in {x} \cup {y}
    BY <2>1, <1>5, <1>6
  <2> HIDE DEF x, y
  <2>4. A = {x} \cup {y}
    BY <2>1, <2>2, <2>3, PairSets
  <2>5. IsFiniteSet({x}) /\ Cardinality({x}) = 1
    BY FS_Singleton
  <2>6. Cardinality({x} \cup {y}) = Cardinality({x}) + 1
    BY <2>2, <2>5, FS_AddElement
  <2> QED
    BY <2>4, <2>5, <2>6 DEF A
<1>11. IsInjective(file_free) /\ Range(file_free) = {g \in File : refcount[g] = 0}
  <2> DEFINE S == File \ {Console}
  <2>1. IsFiniteSet(S) /\ file_free = SetToSeq(S)
    BY <1>2, FilesAssumption, FS_RemoveElement
  <2>2. S = {g \in File : refcount[g] = 0}
    BY <1>2
  <2> HIDE DEF S
  <2> QED
    BY <2>1, <2>2, SetToSeqLemma
<1> QED
  BY <1>2, <1>4, <1>8, <1>9, <1>10, <1>11 DEF CountsExact

\* The inductive invariant.
FilesInv == FileTypeOK /\ LockInv /\ CallInv /\ CountsExact

(* It holds in every state.                                                *)
LEMMA FilesInvariant == FilesSpec => []FilesInv
<1>1. FilesInit => FilesInv
  BY FileTypeInit, CountInit DEF FilesInv
<1>2. FilesInv /\ [FilesNext]_filesVars => FilesInv'
  BY FileTypeNext, LockNext, CountNext DEF FilesInv
<1> QED
  BY <1>1, <1>2, PTL DEF FilesSpec

(* The types are right (file_alloc, file_free, proc_fd_add, sys_spawn,     *)
(* proc_reap): the free list always is a sequence of files, a count that   *)
(* is taken down was not 0, and mutex_unlock finds the lock taken.  This   *)
(* rests on vfs_file_lock: a process in a section owns it.                 *)
THEOREM FileTypesCorrect == FilesSpec => []FileTypeOK
<1>1. FilesInv => FileTypeOK
  BY DEF FilesInv
<1> QED
  BY <1>1, FilesInvariant, PTL

(* The reference counts are exact (file_alloc, file_free, vfs_fcntl,       *)
(* sys_spawn, proc_fd_add): for any number of processes, files and         *)
(* descriptors, refcount is the number of references that are held or have *)
(* leaked and the free list holds the files without one, each once, until  *)
(* an unlocked store undoes a change or a count exceeds its 4 bits;        *)
(* wherever a process dies, and whoever spawns and reaps.                  *)
THEOREM CountsAreExact == FilesSpec => []CountsExact
<1>1. FilesInv => CountsExact
  BY DEF FilesInv
<1> QED
  BY <1>1, FilesInvariant, PTL

=============================================================================
