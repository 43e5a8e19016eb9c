----------------------------- MODULE UcfsProofs -----------------------------
(***************************************************************************)
(* Proofs about walks and reads, for any tree, any number of processes and *)
(* any length of the dentry ring.  WalkInv is inductive, so the dentries   *)
(* are true, an inode is read by its own file system, and a mount is       *)
(* cached once.  With TypesInv every variable keeps its type, with ReadInv *)
(* a read returns the right bytes for the requests that fit, and with      *)
(* FindInv a walk finds what its path names.                               *)
(***************************************************************************)
EXTENDS Ucfs, Iteration, SequenceTheorems, TLAPS

-----------------------------------------------------------------------------
(* The parts of the inductive invariant.                                   *)
WalkTypes ==
  /\ cache \in Seq(Inode) /\ Len(cache) >= 3
  /\ dentries \in [0..(Len_Dentry - 1) -> Dentry] /\ index \in 0..(Len_Dentry - 1)
  /\ at \in [Proc -> Places] /\ words \in [Proc -> Seq(Name)]
  /\ base \in [Proc -> 1..Len(cache)] /\ dir \in [Proc -> 1..Len(cache)]
  /\ ino \in [Proc -> Ino \cup {None}] /\ aux \in [Proc -> Nat]

\* the mounts are the first objects of the list, as they were made
MountsFixed ==
  /\ cache[RootObject] = Object(Root)
  /\ cache[MountPointObject] = Object(MountPoint)
  /\ cache[MountRootObject] = Object(MountRoot)

\* what the local variables of a process are for at each place
PlaceOK(p) ==
  /\ at[p] \notin {"user", "done", "failed"} => words[p] # <<>>
  /\ at[p] = "hit" => aux[p] \in DOMAIN dentries
  /\ at[p] = "search" => aux[p] \in 3..Len(cache)
  /\ at[p] = "rename" <=> lock = p

\* an inode that is being made belongs to one process, and is not ready
Making(p) == at[p] \in {"fill", "finish"}
MakingOK(p) ==
  Making(p) =>
    /\ aux[p] \in 4..Len(cache)
    /\ ~cache[aux[p]].ready /\ cache[aux[p]].block = None
    /\ at[p] = "finish" => cache[aux[p]].ino = ino[p]
    /\ \A q \in Proc \ {p} : Making(q) => aux[q] # aux[p]

\* a walk stands on inodes that are ready
StandsOK(p) == cache[base[p]].ready /\ cache[dir[p]].ready

\* a look-up is in the right directory and brings back the right number; the
\* dentry that is being written has its numbers
LookupOK(p) ==
  /\ at[p] \in {"hit", "block", "scan", "insert", "rename"} =>
       dir[p] = DirFor(p) /\ Head(words[p]) # "."
  /\ at[p] \in {"block", "scan"} => ~IsDevfs(cache[dir[p]].ino)
  /\ at[p] \in {"insert", "rename"} =>
       ino[p] # None /\ ino[p] = Found(cache[dir[p]].ino, Head(words[p]))
  /\ at[p] = "rename" =>
       dentries[LastDentry].ino = ino[p] /\ dentries[LastDentry].parent = cache[dir[p]].ino

\* the inode that is looked for belongs to the file system of the one the walk
\* stands on; the root, above the mount, is the only other, and it is cached
OwnOK(p) ==
  LET same == IsDevfs(ino[p]) <=> IsDevfs(cache[base[p]].ino) IN
  /\ at[p] \in {"snap", "search"} => same \/ ino[p] = Root
  /\ at[p] \in {"inodes", "alloc", "fill", "finish"} =>
       same /\ ino[p] \notin {Root, MountPoint, MountRoot}
  /\ at[p] = "finish" => IsDevfs(ino[p])

\* an inode that is ready is what is on the disk
ReadyInv == \A k \in DOMAIN cache : cache[k].ready => cache[k].block = BlockOf(cache[k].ino)

DentryOK(i) ==
  LET d == dentries[i] IN
  d.name # None /\ ~Torn(i) => d.ino # None /\ d.ino = Found(d.parent, d.name)

MountsInv ==
  \A k \in DOMAIN cache \ {RootObject, MountPointObject, MountRootObject} :
    cache[k].ino \notin {Root, MountPoint, MountRoot}

(* What every step of a walk preserves, and what its answers rest on: the  *)
(* mounts stay where kernel_init_process put them, an inode is written by  *)
(* the process that made it, and, without a race, walks stand on inodes    *)
(* that are filled, look names up in the right directory, insert true      *)
(* dentries and read an inode in its own file system.                      *)
WalkInv ==
  /\ WalkTypes /\ MountsFixed
  /\ \A p \in Proc : PlaceOK(p) /\ MakingOK(p)
  /\ ~misread =>
       /\ ReadyInv /\ MountsInv
       /\ \A i \in DOMAIN dentries : DentryOK(i)
       /\ \A p \in Proc : StandsOK(p) /\ LookupOK(p) /\ OwnOK(p)

-----------------------------------------------------------------------------
(* What lookup finds is an inode number, of the same file system.          *)
LEMMA FoundLemma ==
  ASSUME NEW n \in Ino \cup {None}, NEW name \in Name, Found(n, name) # None
  PROVE  Found(n, name) \in Ino /\ (IsDevfs(Found(n, name)) <=> IsDevfs(n))
<1>1. CASE IsDevfs(n)
  BY <1>1 DEF Found, NodeOf, IsDevfs, DevIno, Ino
<1>2. CASE ~IsDevfs(n)
  <2>1. n \in Dir /\ name \in DOMAIN Entries[n] /\ Found(n, name) = Entries[n][name]
    BY <1>2 DEF Found, EntryOf
  <2>2. Found(n, name) \in Dir \cup Files
    BY <2>1, WalkAssumption
  <2> QED
    BY <1>2, <2>2, WalkAssumption DEF IsDevfs, Ino
<1> QED
  BY <1>1, <1>2

(* The block of a uCFS inode holds the entries of a directory, or none.    *)
LEMMA BlockLemma ==
  ASSUME NEW n \in Ino \cup {None}, NEW name, ~IsDevfs(n)
  PROVE  EntryOf(BlockOf(n), name) = Found(n, name)
<1>1. CASE n \in Dir
  BY <1>1, WalkAssumption DEF BlockOf, Found
<1>2. CASE n \in Files
  <2>1. n \notin Dir /\ BlockOf(n) = <<n, 0>> /\ <<n, 0>> \notin Dir
    BY <1>2, WalkAssumption DEF BlockOf, IndexBlock
  <2>2. EntryOf(BlockOf(n), name) = None
    BY <2>1 DEF EntryOf
  <2> QED
    BY <2>1, <2>2 DEF Found, EntryOf
<1>3. CASE n = None
  BY <1>3, WalkAssumption DEF BlockOf, Found, EntryOf, Ino
<1> QED
  BY <1>1, <1>2, <1>3 DEF Ino, IsDevfs

(* A word of a path is a name, and what is left is a path again.           *)
LEMMA WordsLemma ==
  ASSUME WalkTypes, NEW p \in Proc, words[p] # <<>>
  PROVE  /\ Head(words[p]) \in Name /\ Tail(words[p]) \in Seq(Name)
         /\ Len(words[p]) # 1 => Tail(words[p]) # <<>>
<1> DEFINE w == words[p]
<1>1. w \in Seq(Name) /\ w # <<>>
  BY DEF WalkTypes
<1> HIDE DEF w
<1>2. Head(w) \in Name /\ Tail(w) \in Seq(Name) /\ Len(Tail(w)) = Len(w) - 1
  BY <1>1, HeadTailProperties
<1>3. Len(w) # 1 => Tail(w) # <<>>
  BY <1>1, <1>2
<1> QED
  BY <1>2, <1>3 DEF w

(* A step of p that leaves the caches and the lock alone: what is said of  *)
(* the others and of the caches stays true.                                *)
Quiet(p) ==
  /\ UNCHANGED <<cache, dentries, index, lock>>
  /\ at[p] # "rename" /\ at'[p] \notin {"fill", "finish", "rename"}
  /\ WalkTypes'
  /\ \A q \in Proc \ {p} :
       /\ at'[q] = at[q] /\ words'[q] = words[q] /\ base'[q] = base[q]
       /\ dir'[q] = dir[q] /\ ino'[q] = ino[q] /\ aux'[q] = aux[q]

(* What is left to show of such a step is about p alone.                   *)
LEMMA QuietLemma ==
  ASSUME WalkInv, NEW p \in Proc, Quiet(p), PlaceOK(p)',
         ~misread' => ~misread /\ StandsOK(p)' /\ LookupOK(p)' /\ OwnOK(p)'
  PROVE  WalkInv'
<1>0. WalkTypes /\ MountsFixed /\ \A q \in Proc : PlaceOK(q) /\ MakingOK(q)
  BY DEF WalkInv
<1>1. MountsFixed'
  BY <1>0 DEF MountsFixed, Quiet
<1>2. ASSUME NEW q \in Proc
      PROVE  PlaceOK(q)' /\ MakingOK(q)'
  <2>1. CASE q = p
    BY <2>1 DEF Quiet, MakingOK, Making
  <2>2. CASE q # p
    <3>1. PlaceOK(q)'
      BY <1>0, <2>2 DEF Quiet, PlaceOK
    <3>2. MakingOK(q)'
      BY <1>0, <2>2 DEF Quiet, MakingOK, Making
    <3> QED
      BY <3>1, <3>2
  <2> QED
    BY <2>1, <2>2
<1>3. ASSUME ~misread'
      PROVE  /\ ReadyInv' /\ MountsInv'
             /\ \A i \in DOMAIN dentries' : DentryOK(i)'
             /\ \A q \in Proc : StandsOK(q)' /\ LookupOK(q)' /\ OwnOK(q)'
  <2>0. /\ ReadyInv /\ MountsInv /\ \A i \in DOMAIN dentries : DentryOK(i)
        /\ \A q \in Proc : StandsOK(q) /\ LookupOK(q) /\ OwnOK(q)
    BY <1>3 DEF WalkInv
  <2>1. ReadyInv' /\ MountsInv'
    BY <2>0 DEF Quiet, ReadyInv, MountsInv
  <2>2. \A i \in DOMAIN dentries' : DentryOK(i)'
    BY <2>0 DEF Quiet, DentryOK, Torn, LastDentry
  <2>3. ASSUME NEW q \in Proc
        PROVE  StandsOK(q)' /\ LookupOK(q)' /\ OwnOK(q)'
    <3>1. CASE q = p
      BY <3>1, <1>3
    <3>2. CASE q # p
      <4>1. StandsOK(q)' /\ OwnOK(q)'
        BY <2>0, <3>2 DEF Quiet, StandsOK, OwnOK
      <4>2. LookupOK(q)'
        BY <2>0, <3>2 DEF Quiet, LookupOK, DirFor, LastDentry
      <4> QED
        BY <4>1, <4>2
    <3> QED
      BY <3>1, <3>2
  <2> QED
    BY <2>1, <2>2, <2>3
<1> QED
  BY <1>1, <1>2, <1>3 DEF WalkInv, Quiet

(* The inodes that a walk stands on are in the list.                       *)
LEMMA StandsLemma ==
  ASSUME WalkTypes, NEW p \in Proc
  PROVE  /\ DirFor(p) \in 1..Len(cache)
         /\ \A k \in {base[p], dir[p], DirFor(p)} :
              k \in 1..Len(cache) /\ cache[k] \in Inode /\ cache[k].ino \in Ino \cup {None}
<1>1. DirFor(p) \in 1..Len(cache)
  BY DEF DirFor, WalkTypes, MountPointObject
<1>2. base[p] \in 1..Len(cache) /\ dir[p] \in 1..Len(cache)
  BY DEF WalkTypes
<1>3. \A k \in 1..Len(cache) : cache[k] \in Inode
  BY DEF WalkTypes
<1> QED
  BY <1>1, <1>2, <1>3 DEF Inode

(* In the mountpoint and in the inode itself the walk looks on inodes that *)
(* are ready.                                                              *)
LEMMA DirReadyLemma ==
  ASSUME MountsFixed, NEW p \in Proc, StandsOK(p)
  PROVE  cache[DirFor(p)].ready
BY DEF MountsFixed, StandsOK, DirFor, Object

(* What a look-up brings back belongs to the file system of the walk, or   *)
(* is the root: .. of the mounted root asks the mountpoint.                *)
LEMMA OwnLemma ==
  ASSUME WalkTypes, MountsFixed, NEW p \in Proc, words[p] # <<>>,
         NEW n, n # None, n = Found(cache[DirFor(p)].ino, Head(words[p]))
  PROVE  n \in Ino /\ ((IsDevfs(n) <=> IsDevfs(cache[base[p]].ino)) \/ n = Root)
<1>1. Head(words[p]) \in Name /\ cache[DirFor(p)].ino \in Ino \cup {None}
  BY WordsLemma, StandsLemma
<1>2. n \in Ino /\ (IsDevfs(n) <=> IsDevfs(cache[DirFor(p)].ino))
  BY <1>1, FoundLemma
<1>3. CASE DirFor(p) = base[p]
  BY <1>2, <1>3
<1>4. CASE DirFor(p) # base[p]
  <2>1. Head(words[p]) = ".." /\ cache[DirFor(p)].ino = MountPoint
    BY <1>4 DEF DirFor, MountsFixed, Object
  <2>2. MountPoint \in Dir /\ ~IsDevfs(MountPoint)
    BY WalkAssumption DEF IsDevfs
  <2>3. n = Root
    BY <2>1, <2>2, WalkAssumption DEF Found, EntryOf
  <2> QED
    BY <1>2, <2>3
<1> QED
  BY <1>3, <1>4

(* vfs_read_dentry, up to the call of lookup.                              *)
LEMMA ReadDentryStep ==
  ASSUME WalkInv, NEW p \in Proc, ReadDentry(p)
  PROVE  WalkInv'
<1> DEFINE name == Head(words[p])
           parent == cache[DirFor(p)].ino
           hits == Match(name, parent)
<1>1. /\ WalkTypes /\ MountsFixed /\ PlaceOK(p) /\ at[p] = "name" /\ words[p] # <<>>
      /\ UNCHANGED <<cache, dentries, index, lock, words, base>>
  BY DEF WalkInv, ReadDentry, shared, PlaceOK
<1>2. ~misread => StandsOK(p)
  BY DEF WalkInv
<1>3. /\ base[p] \in 1..Len(cache) /\ DirFor(p) \in 1..Len(cache)
      /\ cache[base[p]].ino \in Ino \cup {None} /\ parent \in Ino \cup {None}
  BY <1>1, StandsLemma
<1>4. DirFor(p)' = DirFor(p)
  BY <1>1 DEF DirFor
<1>5. CASE name = "."
  <2>1. /\ at' = [at EXCEPT ![p] = "snap"] /\ ino' = [ino EXCEPT ![p] = cache[base[p]].ino]
        /\ UNCHANGED <<dir, aux, misread>>
    BY <1>5 DEF ReadDentry, Go
  <2>2. Quiet(p)
    BY <1>1, <1>3, <2>1 DEF Quiet, WalkTypes, Places
  <2>3. PlaceOK(p)' /\ OwnOK(p)' /\ LookupOK(p)'
    BY <1>1, <2>1 DEF PlaceOK, OwnOK, LookupOK, WalkTypes
  <2>4. ~misread' => ~misread /\ StandsOK(p)'
    BY <1>1, <1>2, <2>1 DEF StandsOK
  <2> QED
    BY <2>2, <2>3, <2>4, QuietLemma
<1>6. CASE name # "."
  <2>0. dir' = [dir EXCEPT ![p] = DirFor(p)] /\ dir'[p] = DirFor(p)'
    BY <1>1, <1>4, <1>6 DEF ReadDentry, WalkTypes
  <2>1. ~misread => StandsOK(p)'
    BY <1>1, <1>2, <1>4, <2>0, DirReadyLemma DEF StandsOK
  <2>2. CASE hits # {}
    <3>1. PICK i \in hits : /\ at' = [at EXCEPT ![p] = "hit"] /\ aux' = [aux EXCEPT ![p] = i]
                            /\ misread' = (misread \/ Torn(i)) /\ UNCHANGED ino
      BY <1>6, <2>2 DEF ReadDentry, Go
    <3>2. i \in DOMAIN dentries /\ i \in Nat
      BY <1>1 DEF Match, WalkTypes
    <3>3. Quiet(p)
      BY <1>1, <1>3, <2>0, <3>1, <3>2 DEF Quiet, WalkTypes, Places
    <3>4. PlaceOK(p)' /\ OwnOK(p)'
      BY <1>1, <3>1, <3>2 DEF PlaceOK, OwnOK, WalkTypes
    <3>5. LookupOK(p)'
      BY <1>1, <1>6, <2>0, <3>1 DEF LookupOK, WalkTypes
    <3>6. ~misread' => ~misread
      BY <3>1
    <3> QED
      BY <2>1, <3>3, <3>4, <3>5, <3>6, QuietLemma
  <2>3. CASE hits = {} /\ IsDevfs(parent)
    <3>1. /\ at' = [at EXCEPT ![p] = IF NodeOf(name) = None THEN "failed" ELSE "insert"]
          /\ ino' = [ino EXCEPT ![p] = NodeOf(name)] /\ UNCHANGED <<aux, misread>>
      BY <1>6, <2>3 DEF ReadDentry, Go
    <3>2. NodeOf(name) \in Ino \cup {None} /\ NodeOf(name) = Found(parent, name)
      BY <2>3 DEF NodeOf, Ino, DevIno, Found
    <3>3. Quiet(p)
      BY <1>1, <1>3, <2>0, <3>1, <3>2 DEF Quiet, WalkTypes, Places
    <3>4. PlaceOK(p)' /\ OwnOK(p)'
      BY <1>1, <3>1 DEF PlaceOK, OwnOK, WalkTypes
    <3>5. LookupOK(p)'
      BY <1>1, <1>4, <1>6, <2>0, <3>1, <3>2 DEF LookupOK, WalkTypes
    <3> QED
      BY <2>1, <3>1, <3>3, <3>4, <3>5, QuietLemma
  <2>4. CASE hits = {} /\ ~IsDevfs(parent)
    <3>1. at' = [at EXCEPT ![p] = "block"] /\ UNCHANGED <<aux, ino, misread>>
      BY <1>6, <2>4 DEF ReadDentry, Go
    <3>3. Quiet(p)
      BY <1>1, <1>3, <2>0, <3>1 DEF Quiet, WalkTypes, Places
    <3>4. PlaceOK(p)' /\ OwnOK(p)'
      BY <1>1, <3>1 DEF PlaceOK, OwnOK, WalkTypes
    <3>5. LookupOK(p)'
      BY <1>1, <1>4, <1>6, <2>0, <2>4, <3>1 DEF LookupOK, WalkTypes
    <3> QED
      BY <2>1, <3>1, <3>3, <3>4, <3>5, QuietLemma
  <2> QED
    BY <2>2, <2>3, <2>4
<1> QED
  BY <1>5, <1>6

(* A dentry that matched, and was not written meanwhile, is true.          *)
LEMMA ReadHitStep ==
  ASSUME WalkInv, NEW p \in Proc, ReadHit(p)
  PROVE  WalkInv'
<1> DEFINE d == dentries[aux[p]]
<1>1. /\ WalkTypes /\ MountsFixed /\ PlaceOK(p) /\ at[p] = "hit" /\ words[p] # <<>>
      /\ UNCHANGED <<cache, dentries, index, lock, words, base, dir, aux>>
      /\ at' = [at EXCEPT ![p] = "snap"] /\ ino' = [ino EXCEPT ![p] = d.ino]
  BY DEF WalkInv, ReadHit, shared, PlaceOK, Go
<1>2. aux[p] \in DOMAIN dentries /\ d \in Dentry
  BY <1>1 DEF PlaceOK, WalkTypes
<1>3. Quiet(p)
  BY <1>1, <1>2 DEF Quiet, WalkTypes, Places, Dentry
<1>4. PlaceOK(p)' /\ LookupOK(p)'
  BY <1>1 DEF PlaceOK, LookupOK, WalkTypes
<1>5. ASSUME ~misread'
      PROVE  ~misread /\ StandsOK(p)' /\ OwnOK(p)'
  <2>1. ~misread /\ ~Torn(aux[p]) /\ d.name = Head(words[p]) /\ d.parent = cache[dir[p]].ino
    BY <1>5 DEF ReadHit, Match
  <2>2. DentryOK(aux[p]) /\ LookupOK(p) /\ StandsOK(p)
    BY <1>2, <2>1 DEF WalkInv
  <2>3. d.name # None
    BY <1>1, <2>1, WordsLemma, WalkAssumption
  <2>4. d.ino # None /\ d.ino = Found(cache[DirFor(p)].ino, Head(words[p]))
    BY <1>1, <2>1, <2>2, <2>3 DEF DentryOK, LookupOK
  <2>5. (IsDevfs(d.ino) <=> IsDevfs(cache[base[p]].ino)) \/ d.ino = Root
    BY <1>1, <2>4, OwnLemma
  <2> QED
    BY <1>1, <2>1, <2>2, <2>5 DEF OwnOK, StandsOK, WalkTypes
<1> QED
  BY <1>3, <1>4, <1>5, QuietLemma

(* ucfs_lookup reads the directory's block ...                             *)
LEMMA ReadBlockStep ==
  ASSUME WalkInv, NEW p \in Proc, ReadBlock(p)
  PROVE  WalkInv'
<1>1. /\ WalkTypes /\ PlaceOK(p) /\ at[p] = "block"
      /\ UNCHANGED <<cache, dentries, index, lock, words, base, dir, ino, aux, misread>>
      /\ at' = [at EXCEPT ![p] = "scan"]
  BY DEF WalkInv, ReadBlock, Go
<1>2. Quiet(p)
  BY <1>1 DEF Quiet, WalkTypes, Places
<1>3. PlaceOK(p)' /\ OwnOK(p)'
  BY <1>1 DEF PlaceOK, OwnOK, WalkTypes
<1>4. ~misread => StandsOK(p)' /\ LookupOK(p)'
  <2>1. ~misread => StandsOK(p) /\ LookupOK(p)
    BY DEF WalkInv
  <2> QED
    BY <1>1, <2>1 DEF StandsOK, LookupOK, DirFor, WalkTypes
<1> QED
  BY <1>1, <1>2, <1>3, <1>4, QuietLemma

(* ... and searches it: if the buffer still holds it, what is found is     *)
(* the entry.                                                              *)
LEMMA ScanBlockStep ==
  ASSUME WalkInv, NEW p \in Proc, ScanBlock(p)
  PROVE  WalkInv'
<1> DEFINE name == Head(words[p])
           found == EntryOf(scratch, name)
           n == cache[dir[p]].ino
<1>1. /\ WalkTypes /\ PlaceOK(p) /\ at[p] = "scan" /\ words[p] # <<>>
      /\ UNCHANGED <<cache, dentries, index, lock, words, base, dir, aux>>
      /\ at' = [at EXCEPT ![p] = IF found = None THEN "failed" ELSE "insert"]
      /\ ino' = [ino EXCEPT ![p] = found]
  BY DEF WalkInv, ScanBlock, shared, PlaceOK, Go
<1>2. name \in Name /\ dir[p] \in DOMAIN cache /\ n \in Ino \cup {None}
  BY <1>1, WordsLemma, StandsLemma DEF WalkTypes
<1>3. found \in Ino \cup {None}
  BY <1>2, WalkAssumption DEF EntryOf, Ino
<1>4. Quiet(p)
  BY <1>1, <1>3 DEF Quiet, WalkTypes, Places
<1>5. PlaceOK(p)' /\ OwnOK(p)'
  BY <1>1 DEF PlaceOK, OwnOK, WalkTypes
<1>6. ASSUME ~misread'
      PROVE  ~misread /\ StandsOK(p)' /\ LookupOK(p)'
  <2>1. ~misread /\ scratch = cache[dir[p]].block
    BY <1>6 DEF ScanBlock
  <2>2. StandsOK(p) /\ LookupOK(p) /\ ReadyInv
    BY <2>1 DEF WalkInv
  <2>3. scratch = BlockOf(n) /\ ~IsDevfs(n)
    BY <1>1, <1>2, <2>1, <2>2 DEF ReadyInv, StandsOK, LookupOK
  <2>4. found = Found(n, name)
    BY <1>2, <2>3, BlockLemma
  <2>5. StandsOK(p)'
    BY <1>1, <2>2 DEF StandsOK
  <2>6. LookupOK(p)'
    BY <1>1, <2>2, <2>4 DEF LookupOK, DirFor, WalkTypes
  <2> QED
    BY <2>1, <2>5, <2>6
<1> QED
  BY <1>4, <1>5, <1>6, QuietLemma

(* The head of the list is taken: it is no older than the mounts.          *)
LEMMA SnapCacheStep ==
  ASSUME WalkInv, NEW p \in Proc, SnapCache(p)
  PROVE  WalkInv'
<1>1. /\ WalkTypes /\ PlaceOK(p) /\ at[p] = "snap"
      /\ UNCHANGED <<cache, dentries, index, lock, words, base, dir, ino, misread>>
      /\ at' = [at EXCEPT ![p] = "search"] /\ aux' = [aux EXCEPT ![p] = Len(cache)]
  BY DEF WalkInv, SnapCache, shared, Go
<1>2. Len(cache) \in Nat /\ Len(cache) >= 3
  BY <1>1 DEF WalkTypes
<1>3. Quiet(p)
  BY <1>1, <1>2 DEF Quiet, WalkTypes, Places
<1>4. PlaceOK(p)' /\ LookupOK(p)'
  BY <1>1, <1>2 DEF PlaceOK, LookupOK, WalkTypes
<1>5. ~misread => StandsOK(p)' /\ OwnOK(p)'
  <2>1. ~misread => StandsOK(p) /\ OwnOK(p)
    BY DEF WalkInv
  <2> QED
    BY <1>1, <2>1 DEF StandsOK, OwnOK, WalkTypes
<1> QED
  BY <1>1, <1>3, <1>4, <1>5, QuietLemma

(* The end of the loop body: the walk stands on an object, or on the root  *)
(* that is mounted on it, and has one word less.                           *)
LEMMA ArriveLemma ==
  ASSUME WalkTypes, NEW p \in Proc, words[p] # <<>>, NEW k \in 1..Len(cache), Arrive(p, k)
  PROVE  /\ base' = [base EXCEPT ![p] = IF k = MountPointObject THEN MountRootObject ELSE k]
         /\ base' \in [Proc -> 1..Len(cache)] /\ base'[p] \in {k, MountRootObject}
         /\ at' \in [Proc -> Places] /\ at'[p] \in {"done", "name"}
         /\ words' \in [Proc -> Seq(Name)] /\ (at'[p] = "name" => words'[p] # <<>>)
         /\ \A q \in Proc \ {p} :
              at'[q] = at[q] /\ words'[q] = words[q] /\ base'[q] = base[q]
<1>1. /\ base' = [base EXCEPT ![p] = IF k = MountPointObject THEN MountRootObject ELSE k]
      /\ words' = [words EXCEPT ![p] = Tail(words[p])]
      /\ at' = [at EXCEPT ![p] = IF Len(words[p]) = 1 THEN "done" ELSE "name"]
  BY DEF Arrive, Go
<1>2. Tail(words[p]) \in Seq(Name) /\ (Len(words[p]) # 1 => Tail(words[p]) # <<>>)
  BY WordsLemma
<1> QED
  BY <1>1, <1>2 DEF WalkTypes, Places, MountRootObject

(* An inode is found in the list.                                          *)
LEMMA SearchHitsStep ==
  ASSUME WalkInv, NEW p \in Proc, SearchHits(p)
  PROVE  WalkInv'
<1>1. /\ WalkTypes /\ MountsFixed /\ PlaceOK(p) /\ at[p] = "search" /\ words[p] # <<>>
      /\ UNCHANGED <<cache, dentries, index, lock, dir, ino, aux>>
  BY DEF WalkInv, SearchHits, shared, PlaceOK
<1>2. PICK k \in Cached(p) : Arrive(p, k) /\ misread' = (misread \/ ~cache[k].ready)
  BY DEF SearchHits
<1>3. k \in 1..Len(cache)
  BY <1>1, <1>2 DEF Cached, PlaceOK, WalkTypes
<1>4. /\ base' \in [Proc -> 1..Len(cache)] /\ base'[p] \in {k, MountRootObject}
      /\ at' \in [Proc -> Places] /\ at'[p] \in {"done", "name"}
      /\ words' \in [Proc -> Seq(Name)] /\ (at'[p] = "name" => words'[p] # <<>>)
      /\ \A q \in Proc \ {p} : at'[q] = at[q] /\ words'[q] = words[q] /\ base'[q] = base[q]
  BY <1>1, <1>2, <1>3, ArriveLemma
<1>5. Quiet(p)
  BY <1>1, <1>4 DEF Quiet, WalkTypes
<1>6. PlaceOK(p)' /\ LookupOK(p)' /\ OwnOK(p)'
  BY <1>1, <1>4 DEF PlaceOK, LookupOK, OwnOK
<1>7. ASSUME ~misread'
      PROVE  ~misread /\ StandsOK(p)'
  <2>1. ~misread /\ cache[k].ready
    BY <1>2, <1>7
  <2>2. cache[MountRootObject].ready
    BY <1>1 DEF MountsFixed, Object
  <2> QED
    BY <1>1, <1>4, <2>1, <2>2 DEF StandsOK, WalkInv
<1> QED
  BY <1>5, <1>6, <1>7, QuietLemma

(* An inode that is not in the list is none of the mounts, which are, and  *)
(* so belongs to the file system that is asked for it.                     *)
LEMMA SearchMissesStep ==
  ASSUME WalkInv, NEW p \in Proc, SearchMisses(p)
  PROVE  WalkInv'
<1>1. /\ WalkTypes /\ MountsFixed /\ PlaceOK(p) /\ at[p] = "search" /\ Cached(p) = {}
      /\ UNCHANGED <<cache, dentries, index, lock, words, base, dir, ino, aux, misread>>
      /\ at' = [at EXCEPT ![p] = IF IsDevfs(cache[base[p]].ino) THEN "alloc" ELSE "inodes"]
  BY DEF WalkInv, SearchMisses, shared, Go
<1>2. ino[p] \notin {Root, MountPoint, MountRoot}
  <2>1. aux[p] \in 3..Len(cache) /\ \A k \in 1..aux[p] : cache[k].ino # ino[p]
    BY <1>1 DEF PlaceOK, Cached
  <2>2. \A k \in 1..3 : cache[k].ino # ino[p]
    BY <2>1
  <2> QED
    BY <1>1, <2>2 DEF MountsFixed, RootObject, MountPointObject, MountRootObject, Object
<1>3. Quiet(p)
  BY <1>1 DEF Quiet, WalkTypes, Places
<1>4. PlaceOK(p)' /\ LookupOK(p)'
  BY <1>1 DEF PlaceOK, LookupOK, WalkTypes
<1>5. ~misread => StandsOK(p)' /\ OwnOK(p)'
  <2>1. ~misread => StandsOK(p) /\ OwnOK(p)
    BY DEF WalkInv
  <2> QED
    BY <1>1, <1>2, <2>1 DEF StandsOK, OwnOK, WalkTypes
<1> QED
  BY <1>1, <1>3, <1>4, <1>5, QuietLemma

(* ucfs_read_i reads the block of the inode.                               *)
LEMMA ReadInodesStep ==
  ASSUME WalkInv, NEW p \in Proc, ReadInodes(p)
  PROVE  WalkInv'
<1>1. /\ WalkTypes /\ PlaceOK(p) /\ at[p] = "inodes"
      /\ UNCHANGED <<cache, dentries, index, lock, words, base, dir, ino, aux, misread>>
      /\ at' = [at EXCEPT ![p] = "alloc"]
  BY DEF WalkInv, ReadInodes, Go
<1>2. Quiet(p)
  BY <1>1 DEF Quiet, WalkTypes, Places
<1>3. PlaceOK(p)' /\ LookupOK(p)'
  BY <1>1 DEF PlaceOK, LookupOK, WalkTypes
<1>4. ~misread => StandsOK(p)' /\ OwnOK(p)'
  <2>1. ~misread => StandsOK(p) /\ OwnOK(p)
    BY DEF WalkInv
  <2> QED
    BY <1>1, <2>1 DEF StandsOK, OwnOK, WalkTypes
<1> QED
  BY <1>1, <1>2, <1>3, <1>4, QuietLemma

(* A walk that fails stands where it stood.                                *)
LEMMA FailsStep ==
  ASSUME WalkInv, NEW p \in Proc, AllocFails(p) \/ FailDevfs(p)
  PROVE  WalkInv'
<1>1. /\ WalkTypes /\ PlaceOK(p) /\ at[p] \in {"alloc", "finish"}
      /\ UNCHANGED <<cache, dentries, index, lock, words, base, dir, ino, aux, misread>>
      /\ at' = [at EXCEPT ![p] = "failed"]
  BY DEF WalkInv, AllocFails, FailDevfs, shared, Go
<1>2. Quiet(p)
  BY <1>1 DEF Quiet, WalkTypes, Places
<1>3. PlaceOK(p)' /\ LookupOK(p)' /\ OwnOK(p)'
  BY <1>1 DEF PlaceOK, LookupOK, OwnOK, WalkTypes
<1>4. ~misread => StandsOK(p)'
  BY <1>1 DEF WalkInv, StandsOK
<1> QED
  BY <1>1, <1>2, <1>3, <1>4, QuietLemma

(* A walk begins at one of the roots, or where the last one ended.         *)
LEMMA BeginStep ==
  ASSUME WalkInv, NEW p \in Proc, Begin(p)
  PROVE  WalkInv'
<1>1. PICK way \in Paths, object \in Known(p) : Walk(p, object, way)
  BY DEF Begin
<1>2. /\ WalkTypes /\ MountsFixed /\ PlaceOK(p) /\ at[p] \in {"user", "done", "failed"}
      /\ UNCHANGED <<cache, dentries, index, lock, misread>>
      /\ at' = [at EXCEPT ![p] = IF way = <<>> THEN "done" ELSE "name"]
      /\ words' = [words EXCEPT ![p] = way]
      /\ base' = [base EXCEPT ![p] = object] /\ dir' = [dir EXCEPT ![p] = object]
      /\ ino' = [ino EXCEPT ![p] = None] /\ aux' = [aux EXCEPT ![p] = 0]
  BY <1>1 DEF WalkInv, Walk, shared, Go
<1>3. way \in Seq(Name) /\ object \in 1..Len(cache) /\ (~misread => cache[object].ready)
  <2>1. CASE object = base[p]
    BY <1>2, <2>1, WalkAssumption DEF WalkTypes, WalkInv, StandsOK
  <2>2. CASE object \in {RootObject, MountRootObject}
    BY <1>2, <2>2, WalkAssumption DEF WalkTypes, MountsFixed, Object, RootObject, MountRootObject
  <2> QED
    BY <1>1, <2>1, <2>2 DEF Known
<1>4. Quiet(p)
  BY <1>2, <1>3 DEF Quiet, WalkTypes, Places
<1>5. PlaceOK(p)' /\ LookupOK(p)' /\ OwnOK(p)' /\ (~misread => StandsOK(p)')
  BY <1>2, <1>3 DEF PlaceOK, LookupOK, OwnOK, StandsOK, WalkTypes
<1> QED
  BY <1>2, <1>4, <1>5, QuietLemma

(* A step of p that adds an inode to the list or writes the one it is      *)
(* making: no other process stands on that one or makes it.                *)
Makes(p) ==
  /\ UNCHANGED <<dentries, index, lock>>
  /\ at[p] # "rename" /\ at'[p] # "rename"
  /\ WalkTypes' /\ Len(cache') >= Len(cache)
  /\ \A k \in 1..Len(cache) : (Making(p) /\ k = aux[p]) \/ cache'[k] = cache[k]
  /\ (aux'[p] = aux[p] /\ Making(p)) \/ aux'[p] > Len(cache)
  /\ \A q \in Proc \ {p} :
       /\ at'[q] = at[q] /\ words'[q] = words[q] /\ base'[q] = base[q]
       /\ dir'[q] = dir[q] /\ ino'[q] = ino[q] /\ aux'[q] = aux[q]

(* What is left to show of such a step is about p and about that inode.    *)
LEMMA MakesLemma ==
  ASSUME WalkInv, NEW p \in Proc, Makes(p), PlaceOK(p)', MakingOK(p)',
         ~misread' =>
           /\ ~misread /\ ReadyInv' /\ MountsInv'
           /\ StandsOK(p)' /\ LookupOK(p)' /\ OwnOK(p)'
  PROVE  WalkInv'
<1>0. WalkTypes /\ MountsFixed /\ \A q \in Proc : PlaceOK(q) /\ MakingOK(q)
  BY DEF WalkInv
<1>1. Making(p) => aux[p] \in 4..Len(cache) /\ ~cache[aux[p]].ready
  BY <1>0 DEF MakingOK
<1>2. MountsFixed'
  <2>1. \A k \in 1..3 : k \in 1..Len(cache) /\ k \notin 4..Len(cache)
    BY <1>0 DEF WalkTypes
  <2>2. \A k \in 1..3 : cache'[k] = cache[k]
    BY <1>1, <2>1 DEF Makes
  <2> QED
    BY <1>0, <2>2 DEF MountsFixed, RootObject, MountPointObject, MountRootObject
<1>3. ASSUME NEW q \in Proc \ {p}
      PROVE  PlaceOK(q)' /\ MakingOK(q)'
  <2>1. PlaceOK(q)'
    BY <1>0 DEF Makes, PlaceOK, WalkTypes
  <2>2. ASSUME Making(q)
        PROVE  MakingOK(q)'
    <3>1. /\ aux[q] \in 4..Len(cache) /\ ~cache[aux[q]].ready /\ cache[aux[q]].block = None
          /\ at[q] = "finish" => cache[aux[q]].ino = ino[q]
          /\ \A r \in Proc \ {q} : Making(r) => aux[r] # aux[q]
      BY <1>0, <2>2 DEF MakingOK
    <3>2. cache'[aux[q]] = cache[aux[q]]
      BY <3>1 DEF Makes
    <3>3. \A r \in Proc \ {q} : Making(r)' => aux'[r] # aux'[q]
      <4>1. ASSUME NEW r \in Proc \ {q}, Making(r)'
            PROVE  aux'[r] # aux'[q]
        <5>1. CASE r = p
          BY <3>1, <4>1, <5>1, <1>0 DEF Makes, WalkTypes
        <5>2. CASE r # p
          BY <3>1, <4>1, <5>2 DEF Makes, Making
        <5> QED
          BY <5>1, <5>2
      <4> QED
        BY <4>1
    <3>4. /\ at'[q] = at[q] /\ ino'[q] = ino[q] /\ aux'[q] = aux[q]
          /\ aux[q] \in 4..Len(cache')
      BY <3>1, <1>0 DEF Makes, WalkTypes
    <3> QED
      BY <3>1, <3>2, <3>3, <3>4 DEF MakingOK
  <2> QED
    BY <2>1, <2>2 DEF Makes, MakingOK, Making
<1>4. ASSUME ~misread'
      PROVE  /\ \A i \in DOMAIN dentries' : DentryOK(i)'
             /\ \A q \in Proc \ {p} : StandsOK(q)' /\ LookupOK(q)' /\ OwnOK(q)'
  <2>0. /\ \A i \in DOMAIN dentries : DentryOK(i)
        /\ \A q \in Proc : StandsOK(q) /\ LookupOK(q) /\ OwnOK(q)
    BY <1>4 DEF WalkInv
  <2>1. \A i \in DOMAIN dentries' : DentryOK(i)'
    BY <2>0 DEF Makes, DentryOK, Torn, LastDentry
  <2>2. ASSUME NEW q \in Proc \ {p}
        PROVE  StandsOK(q)' /\ LookupOK(q)' /\ OwnOK(q)'
    <3>1. base[q] \in 1..Len(cache) /\ dir[q] \in 1..Len(cache)
      BY <1>0 DEF WalkTypes
    <3>2. cache'[base[q]] = cache[base[q]] /\ cache'[dir[q]] = cache[dir[q]]
      BY <1>1, <2>0, <3>1 DEF StandsOK, Makes
    <3>3. base'[q] = base[q] /\ dir'[q] = dir[q]
      BY DEF Makes
    <3>4. StandsOK(q)'
      BY <2>0, <3>2, <3>3 DEF StandsOK
    <3>5. OwnOK(q)'
      BY <2>0, <3>2, <3>3 DEF Makes, OwnOK
    <3>6. LookupOK(q)'
      BY <2>0, <3>2, <3>3 DEF Makes, LookupOK, DirFor, LastDentry
    <3> QED
      BY <3>4, <3>5, <3>6
  <2> QED
    BY <2>1, <2>2
<1> QED
  BY <1>2, <1>3, <1>4 DEF WalkInv, Makes

(* inode_alloc adds an inode of nobody at the end of the list.             *)
LEMMA AllocStep ==
  ASSUME WalkInv, NEW p \in Proc, Alloc(p)
  PROVE  WalkInv'
<1> DEFINE new == [ino |-> None, block |-> None, ready |-> FALSE]
<1>1. /\ WalkTypes /\ PlaceOK(p) /\ at[p] = "alloc" /\ words[p] # <<>>
      /\ UNCHANGED <<dentries, index, lock, words, base, dir, ino, misread>>
      /\ at' = [at EXCEPT ![p] = "fill"] /\ aux' = [aux EXCEPT ![p] = Len(cache')]
      /\ cache' = Append(cache, new)
  BY DEF WalkInv, Alloc, PlaceOK, Go
<1>2. new \in Inode
  BY DEF Inode, FirstBlock
<1>3. /\ cache \in Seq(Inode) /\ cache' \in Seq(Inode) /\ Len(cache) >= 3
      /\ Len(cache') = Len(cache) + 1 /\ cache'[Len(cache) + 1] = new
      /\ \A k \in 1..Len(cache) : cache'[k] = cache[k]
  BY <1>1, <1>2, AppendProperties DEF WalkTypes
<1>4. aux'[p] = Len(cache) + 1
  BY <1>1, <1>3 DEF WalkTypes
<1>5. Makes(p)
  <2>1. WalkTypes'
    BY <1>1, <1>3 DEF WalkTypes, Places
  <2> QED
    BY <1>1, <1>3, <1>4, <2>1 DEF Makes, WalkTypes
<1>6. PlaceOK(p)'
  BY <1>1 DEF PlaceOK, WalkTypes
<1>7. MakingOK(p)'
  <2>1. \A q \in Proc \ {p} : Making(q)' => aux'[q] # aux'[p]
    <3>1. \A q \in Proc \ {p} : Making(q)' => aux[q] \in 4..Len(cache)
      BY <1>5 DEF WalkInv, MakingOK, Making, Makes
    <3> QED
      BY <1>3, <1>4, <1>5, <3>1 DEF Makes
  <2> QED
    BY <1>1, <1>3, <1>4, <2>1 DEF MakingOK, WalkTypes
<1>8. ASSUME ~misread'
      PROVE  /\ ~misread /\ ReadyInv' /\ MountsInv'
             /\ StandsOK(p)' /\ LookupOK(p)' /\ OwnOK(p)'
  <2>1. ~misread /\ ReadyInv /\ MountsInv /\ StandsOK(p) /\ OwnOK(p)
    BY <1>1, <1>8 DEF WalkInv
  <2>2. \A k \in DOMAIN cache' : k \in 1..Len(cache) \/ k = Len(cache) + 1
    BY <1>3
  <2>3. ReadyInv'
    BY <1>3, <2>1, <2>2 DEF ReadyInv
  <2>4. MountsInv'
    <3>1. None \notin {Root, MountPoint, MountRoot}
      BY WalkAssumption DEF Ino, DevIno
    <3> QED
      BY <1>3, <2>1, <2>2, <3>1 DEF MountsInv
  <2>5. StandsOK(p)' /\ OwnOK(p)'
    BY <1>1, <1>3, <2>1 DEF StandsOK, OwnOK, WalkTypes
  <2>6. LookupOK(p)'
    BY <1>1 DEF LookupOK, WalkTypes
  <2> QED
    BY <2>1, <2>3, <2>4, <2>5, <2>6
<1> QED
  BY <1>5, <1>6, <1>7, <1>8, MakesLemma

(* Writing the inode that is being made keeps the list.                    *)
LEMMA FillLemma ==
  ASSUME WalkTypes, NEW k \in 1..Len(cache), NEW i \in Inode, cache' = [cache EXCEPT ![k] = i]
  PROVE  /\ cache' \in Seq(Inode) /\ Len(cache') = Len(cache) /\ cache'[k] = i
         /\ DOMAIN cache = 1..Len(cache) /\ DOMAIN cache' = 1..Len(cache)
         /\ \A j \in 1..Len(cache) : j # k => cache'[j] = cache[j]
BY ExceptSeq DEF WalkTypes

(* ucfs_read_i fills the inode from the block, if the buffer still holds it. *)
LEMMA FillUcfsStep ==
  ASSUME WalkInv, NEW p \in Proc, FillUcfs(p)
  PROVE  WalkInv'
<1> DEFINE k == aux[p]
<1>1. /\ WalkTypes /\ MountsFixed /\ PlaceOK(p) /\ MakingOK(p) /\ at[p] = "fill"
      /\ words[p] # <<>>
      /\ UNCHANGED <<dentries, index, lock, dir, ino, aux>>
      /\ misread' = (misread \/ scratch # Sector[ino[p]])
      /\ Arrive(p, k)
  BY DEF WalkInv, FillUcfs, PlaceOK
<1>2. PICK block \in IF scratch = Sector[ino[p]] THEN {BlockOf(ino[p])} ELSE FirstBlock :
        cache' = [cache EXCEPT ![k] = [ino |-> ino[p], block |-> block, ready |-> TRUE]]
  BY DEF FillUcfs
<1> DEFINE new == [ino |-> ino[p], block |-> block, ready |-> TRUE]
<1>3. new \in Inode
  BY <1>1, <1>2 DEF WalkTypes, Inode, FirstBlock, BlockOf, Ino
<1>3a. new.ino = ino[p] /\ new.block = block /\ new.ready
  OBVIOUS
<1> HIDE DEF new
<1>4. k \in 4..Len(cache) /\ k \in 1..Len(cache)
  BY <1>1 DEF MakingOK, Making, WalkTypes
<1>5. /\ cache' \in Seq(Inode) /\ Len(cache') = Len(cache) /\ cache'[k] = new
      /\ DOMAIN cache = 1..Len(cache) /\ DOMAIN cache' = 1..Len(cache)
      /\ \A j \in 1..Len(cache) : j # k => cache'[j] = cache[j]
  BY <1>1, <1>2, <1>3, <1>4, FillLemma DEF new
<1>6. /\ base' \in [Proc -> 1..Len(cache)] /\ base'[p] \in {k, MountRootObject}
      /\ at' \in [Proc -> Places] /\ at'[p] \in {"done", "name"}
      /\ words' \in [Proc -> Seq(Name)] /\ (at'[p] = "name" => words'[p] # <<>>)
      /\ \A q \in Proc \ {p} : at'[q] = at[q] /\ words'[q] = words[q] /\ base'[q] = base[q]
  BY <1>1, <1>4, ArriveLemma
<1>7. Makes(p)
  <2>1. WalkTypes'
    BY <1>1, <1>5, <1>6 DEF WalkTypes
  <2>2. Len(cache') >= Len(cache) /\ \A j \in 1..Len(cache) : j = k \/ cache'[j] = cache[j]
    BY <1>1, <1>5 DEF WalkTypes
  <2>3. Making(p) /\ at[p] # "rename" /\ at'[p] # "rename"
    BY <1>1, <1>6 DEF Making
  <2> QED
    BY <1>1, <1>6, <2>1, <2>2, <2>3 DEF Makes
<1>8. PlaceOK(p)' /\ MakingOK(p)' /\ LookupOK(p)' /\ OwnOK(p)'
  BY <1>1, <1>6 DEF PlaceOK, MakingOK, Making, LookupOK, OwnOK
<1>9. ASSUME ~misread'
      PROVE  ~misread /\ ReadyInv' /\ MountsInv' /\ StandsOK(p)'
  <2>1. ~misread /\ scratch = Sector[ino[p]]
    BY <1>1, <1>9
  <2>2. ReadyInv /\ MountsInv /\ StandsOK(p) /\ OwnOK(p)
    BY <2>1 DEF WalkInv
  <2>3. new.block = BlockOf(new.ino)
    BY <1>2, <1>3a, <2>1
  <2>4. ReadyInv'
    BY <1>5, <2>2, <2>3 DEF ReadyInv
  <2>5. MountsInv'
    BY <1>1, <1>5, <1>3a, <2>2 DEF MountsInv, OwnOK
  <2>6. cache'[k].ready
    BY <1>5, <1>3a
  <2>7. cache'[MountRootObject].ready
    <3>1. MountRootObject \in 1..Len(cache) /\ MountRootObject # k
      BY <1>1, <1>4 DEF MountRootObject, WalkTypes
    <3>2. cache[MountRootObject].ready
      BY <1>1 DEF MountsFixed, Object
    <3> QED
      BY <1>5, <3>1, <3>2
  <2>8. cache'[dir[p]].ready
    <3>1. dir[p] \in 1..Len(cache) /\ cache[dir[p]].ready
      BY <1>1, <2>2 DEF StandsOK, WalkTypes
    <3> QED
      BY <1>5, <2>6, <3>1
  <2> QED
    BY <1>1, <1>6, <2>1, <2>4, <2>5, <2>6, <2>7, <2>8 DEF StandsOK
<1> QED
  BY <1>7, <1>8, <1>9, MakesLemma

(* devfs_read_i sets the number first: the inode is not ready yet.         *)
LEMMA FillDevfsStep ==
  ASSUME WalkInv, NEW p \in Proc, FillDevfs(p)
  PROVE  WalkInv'
<1> DEFINE k == aux[p]
           new == [cache[k] EXCEPT !.ino = ino[p]]
<1>1. /\ WalkTypes /\ PlaceOK(p) /\ MakingOK(p) /\ at[p] = "fill"
      /\ words[p] # <<>> /\ IsDevfs(cache[base[p]].ino)
      /\ UNCHANGED <<dentries, index, lock, words, base, dir, ino, aux, misread>>
      /\ at' = [at EXCEPT ![p] = "finish"]
      /\ cache' = [cache EXCEPT ![k].ino = ino[p]]
  BY DEF WalkInv, FillDevfs, PlaceOK, Go
<1>2. k \in 4..Len(cache) /\ k \in 1..Len(cache) /\ cache[k] \in Inode
      /\ ~cache[k].ready /\ cache[k].block = None /\ ino[p] \in Ino \cup {None}
  BY <1>1 DEF MakingOK, Making, WalkTypes
<1>3. new \in Inode /\ new.ino = ino[p] /\ new.block = None /\ ~new.ready
  BY <1>2 DEF Inode
<1>4. cache' = [cache EXCEPT ![k] = new]
  BY <1>1
<1> HIDE DEF new
<1>5. /\ cache' \in Seq(Inode) /\ Len(cache') = Len(cache) /\ cache'[k] = new
      /\ DOMAIN cache = 1..Len(cache) /\ DOMAIN cache' = 1..Len(cache)
      /\ \A j \in 1..Len(cache) : j # k => cache'[j] = cache[j]
  BY <1>1, <1>2, <1>3, <1>4, FillLemma
<1>6. at' \in [Proc -> Places] /\ at'[p] = "finish" /\ \A q \in Proc \ {p} : at'[q] = at[q]
  BY <1>1 DEF WalkTypes, Places
<1>7. Makes(p)
  <2>1. WalkTypes'
    BY <1>1, <1>5, <1>6 DEF WalkTypes
  <2>2. Len(cache') >= Len(cache) /\ \A j \in 1..Len(cache) : j = k \/ cache'[j] = cache[j]
    BY <1>1, <1>5 DEF WalkTypes
  <2>3. Making(p) /\ at[p] # "rename" /\ at'[p] # "rename"
    BY <1>1, <1>6 DEF Making
  <2> QED
    BY <1>1, <1>6, <2>1, <2>2, <2>3 DEF Makes
<1>8. PlaceOK(p)' /\ LookupOK(p)'
  BY <1>1, <1>6 DEF PlaceOK, LookupOK
<1>9. MakingOK(p)'
  BY <1>1, <1>2, <1>3, <1>5, <1>6 DEF MakingOK, Making
<1>10. ASSUME ~misread'
       PROVE  ~misread /\ ReadyInv' /\ MountsInv' /\ StandsOK(p)' /\ OwnOK(p)'
  <2>1. ~misread /\ ReadyInv /\ MountsInv /\ StandsOK(p) /\ OwnOK(p)
    BY <1>1, <1>10 DEF WalkInv
  <2>2. ReadyInv'
    BY <1>3, <1>5, <2>1 DEF ReadyInv
  <2>3. MountsInv'
    BY <1>1, <1>3, <1>5, <2>1 DEF MountsInv, OwnOK
  <2>4. cache'[base[p]] = cache[base[p]] /\ cache'[dir[p]] = cache[dir[p]]
    BY <1>1, <1>2, <1>5, <2>1 DEF StandsOK, WalkTypes
  <2>5. StandsOK(p)' /\ OwnOK(p)'
    BY <1>1, <1>6, <2>1, <2>4 DEF StandsOK, OwnOK
  <2> QED
    BY <2>1, <2>2, <2>3, <2>5
<1> QED
  BY <1>7, <1>8, <1>9, <1>10, MakesLemma

(* Then it is ready: an inode of devfs has no block.                       *)
LEMMA FinishDevfsStep ==
  ASSUME WalkInv, NEW p \in Proc, FinishDevfs(p)
  PROVE  WalkInv'
<1> DEFINE k == aux[p]
           new == [cache[k] EXCEPT !.ready = TRUE]
<1>1. /\ WalkTypes /\ MountsFixed /\ PlaceOK(p) /\ MakingOK(p) /\ at[p] = "finish"
      /\ words[p] # <<>>
      /\ UNCHANGED <<dentries, index, lock, dir, ino, aux, misread>>
      /\ cache' = [cache EXCEPT ![k].ready = TRUE] /\ Arrive(p, k)
  BY DEF WalkInv, FinishDevfs, PlaceOK
<1>2. k \in 4..Len(cache) /\ k \in 1..Len(cache) /\ cache[k] \in Inode
      /\ cache[k].ino = ino[p] /\ cache[k].block = None
  BY <1>1 DEF MakingOK, Making, WalkTypes
<1>3. new \in Inode /\ new.ino = ino[p] /\ new.block = None /\ new.ready
  BY <1>2 DEF Inode
<1>4. cache' = [cache EXCEPT ![k] = new]
  BY <1>1
<1> HIDE DEF new
<1>5. /\ cache' \in Seq(Inode) /\ Len(cache') = Len(cache) /\ cache'[k] = new
      /\ DOMAIN cache = 1..Len(cache) /\ DOMAIN cache' = 1..Len(cache)
      /\ \A j \in 1..Len(cache) : j # k => cache'[j] = cache[j]
  BY <1>1, <1>2, <1>3, <1>4, FillLemma
<1>6. /\ base' \in [Proc -> 1..Len(cache)] /\ base'[p] \in {k, MountRootObject}
      /\ at' \in [Proc -> Places] /\ at'[p] \in {"done", "name"}
      /\ words' \in [Proc -> Seq(Name)] /\ (at'[p] = "name" => words'[p] # <<>>)
      /\ \A q \in Proc \ {p} : at'[q] = at[q] /\ words'[q] = words[q] /\ base'[q] = base[q]
  BY <1>1, <1>2, ArriveLemma
<1>7. Makes(p)
  <2>1. WalkTypes'
    BY <1>1, <1>5, <1>6 DEF WalkTypes
  <2>2. Len(cache') >= Len(cache) /\ \A j \in 1..Len(cache) : j = k \/ cache'[j] = cache[j]
    BY <1>1, <1>5 DEF WalkTypes
  <2>3. Making(p) /\ at[p] # "rename" /\ at'[p] # "rename"
    BY <1>1, <1>6 DEF Making
  <2> QED
    BY <1>1, <1>6, <2>1, <2>2, <2>3 DEF Makes
<1>8. PlaceOK(p)' /\ MakingOK(p)' /\ LookupOK(p)' /\ OwnOK(p)'
  BY <1>1, <1>6 DEF PlaceOK, MakingOK, Making, LookupOK, OwnOK
<1>9. ASSUME ~misread'
      PROVE  ~misread /\ ReadyInv' /\ MountsInv' /\ StandsOK(p)'
  <2>1. ~misread /\ ReadyInv /\ MountsInv /\ StandsOK(p) /\ OwnOK(p)
    BY <1>1, <1>9 DEF WalkInv
  <2>2. BlockOf(ino[p]) = None
    BY <1>1, <2>1, WalkAssumption DEF OwnOK, IsDevfs, BlockOf
  <2>3. ReadyInv'
    BY <1>3, <1>5, <2>1, <2>2 DEF ReadyInv
  <2>4. MountsInv'
    BY <1>1, <1>3, <1>5, <2>1 DEF MountsInv, OwnOK
  <2>5. cache'[k].ready /\ cache'[MountRootObject].ready /\ cache'[dir[p]].ready
    <3>1. /\ MountRootObject \in 1..Len(cache) /\ MountRootObject # k
          /\ dir[p] \in 1..Len(cache) /\ cache[dir[p]].ready
      BY <1>1, <1>2, <2>1 DEF MountRootObject, StandsOK, WalkTypes
    <3>2. cache[MountRootObject].ready
      BY <1>1 DEF MountsFixed, Object
    <3> QED
      BY <1>3, <1>5, <3>1, <3>2
  <2> QED
    BY <1>1, <1>6, <2>1, <2>3, <2>4, <2>5 DEF StandsOK
<1> QED
  BY <1>7, <1>8, <1>9, MakesLemma

(* The ring of dentries: the last one is the one before the next.          *)
LEMMA RingLemma ==
  ASSUME index \in 0..(Len_Dentry - 1)
  PROVE  /\ NextDentry(index) \in 0..(Len_Dentry - 1) /\ LastDentry \in 0..(Len_Dentry - 1)
         /\ index' = NextDentry(index) => LastDentry' = index
BY WalkAssumption DEF NextDentry, LastDentry

(* A new dentry gets its numbers under the lock; until it has its name it  *)
(* is the torn one.                                                        *)
LEMMA InsertKeysStep ==
  ASSUME WalkInv, NEW p \in Proc, InsertKeys(p)
  PROVE  WalkInv'
<1> DEFINE n == cache[dir[p]].ino
<1>0. /\ WalkTypes /\ MountsFixed /\ \A q \in Proc : PlaceOK(q) /\ MakingOK(q)
      /\ at[p] = "insert" /\ lock = None /\ lock' = p
      /\ UNCHANGED <<cache, words, base, dir, ino, aux, misread>>
      /\ at' = [at EXCEPT ![p] = "rename"] /\ index' = NextDentry(index)
      /\ dentries' = [dentries EXCEPT ![index].ino = ino[p], ![index].parent = n]
  BY DEF WalkInv, InsertKeys, Go
<1>1. /\ at' \in [Proc -> Places] /\ at'[p] = "rename" /\ \A q \in Proc \ {p} : at'[q] = at[q]
      /\ p # None /\ \A q \in Proc : at[q] # "rename"
  BY <1>0, WalkAssumption DEF WalkTypes, Places, PlaceOK
<1>2. /\ index \in 0..(Len_Dentry - 1) /\ index' \in 0..(Len_Dentry - 1) /\ LastDentry' = index
      /\ ino[p] \in Ino \cup {None} /\ n \in Ino \cup {None} /\ dentries[index] \in Dentry
  BY <1>0, RingLemma, StandsLemma DEF WalkTypes
<1>3. /\ dentries' \in [0..(Len_Dentry - 1) -> Dentry] /\ DOMAIN dentries' = DOMAIN dentries
      /\ dentries'[index].ino = ino[p] /\ dentries'[index].parent = n
      /\ \A i \in DOMAIN dentries : i # index => dentries'[i] = dentries[i]
  BY <1>0, <1>2 DEF WalkTypes, Dentry
<1>4. WalkTypes' /\ MountsFixed'
  BY <1>0, <1>1, <1>2, <1>3 DEF WalkTypes, MountsFixed
<1>5. \A q \in Proc : PlaceOK(q)' /\ MakingOK(q)'
  <2>1. ASSUME NEW q \in Proc
        PROVE  PlaceOK(q)'
    BY <1>0, <1>1, <1>3 DEF PlaceOK
  <2>2. ASSUME NEW q \in Proc
        PROVE  MakingOK(q)'
    BY <1>0, <1>1 DEF MakingOK, Making
  <2> QED
    BY <2>1, <2>2
<1>6. ASSUME ~misread'
      PROVE  /\ ReadyInv' /\ MountsInv'
             /\ \A i \in DOMAIN dentries' : DentryOK(i)'
             /\ \A q \in Proc : StandsOK(q)' /\ LookupOK(q)' /\ OwnOK(q)'
  <2>0. /\ ReadyInv /\ MountsInv /\ \A i \in DOMAIN dentries : DentryOK(i)
        /\ \A q \in Proc : StandsOK(q) /\ LookupOK(q) /\ OwnOK(q)
    BY <1>0, <1>6 DEF WalkInv
  <2>1. ReadyInv' /\ MountsInv'
    BY <1>0, <2>0 DEF ReadyInv, MountsInv
  <2>2. ASSUME NEW i \in DOMAIN dentries'
        PROVE  DentryOK(i)'
    <3>1. CASE i = index
      BY <1>0, <1>1, <1>2, <3>1 DEF DentryOK, Torn
    <3>2. CASE i # index
      BY <1>0, <1>3, <2>0, <3>2 DEF DentryOK, Torn
    <3> QED
      BY <3>1, <3>2
  <2>3. ASSUME NEW q \in Proc
        PROVE  StandsOK(q)' /\ LookupOK(q)' /\ OwnOK(q)'
    <3>1. StandsOK(q)' /\ OwnOK(q)'
      BY <1>0, <1>1, <2>0 DEF StandsOK, OwnOK
    <3>2. LookupOK(q)'
      BY <1>0, <1>1, <1>2, <1>3, <2>0 DEF LookupOK, DirFor
    <3> QED
      BY <3>1, <3>2
  <2> QED
    BY <2>1, <2>2, <2>3
<1> QED
  BY <1>4, <1>5, <1>6 DEF WalkInv

(* With its name the dentry is complete, and true.                         *)
LEMMA InsertNameStep ==
  ASSUME WalkInv, NEW p \in Proc, InsertName(p)
  PROVE  WalkInv'
<1> DEFINE name == Head(words[p])
           last == LastDentry
<1>0. /\ WalkTypes /\ MountsFixed /\ \A q \in Proc : PlaceOK(q) /\ MakingOK(q)
      /\ at[p] = "rename" /\ lock' = None
      /\ UNCHANGED <<cache, index, words, base, dir, ino, aux, misread>>
      /\ at' = [at EXCEPT ![p] = "snap"]
      /\ dentries' = [dentries EXCEPT ![last].name = name]
  BY DEF WalkInv, InsertName, Go
<1>1. /\ at' \in [Proc -> Places] /\ at'[p] = "snap" /\ \A q \in Proc \ {p} : at'[q] = at[q]
      /\ lock = p /\ None \notin Proc /\ words[p] # <<>>
      /\ \A q \in Proc \ {p} : at[q] # "rename"
  <2>1. at' \in [Proc -> Places] /\ at'[p] = "snap" /\ \A q \in Proc \ {p} : at'[q] = at[q]
    BY <1>0 DEF WalkTypes, Places
  <2>2. PlaceOK(p) /\ \A q \in Proc : at[q] = "rename" <=> lock = q
    BY <1>0 DEF PlaceOK
  <2>3. lock = p /\ words[p] # <<>>
    BY <1>0, <2>2 DEF PlaceOK
  <2> QED
    BY <2>1, <2>2, <2>3, WalkAssumption
<1>2. last \in 0..(Len_Dentry - 1) /\ name \in Name /\ dentries[last] \in Dentry
  BY <1>0, <1>1, RingLemma, WordsLemma DEF WalkTypes
<1>3. /\ dentries' \in [0..(Len_Dentry - 1) -> Dentry] /\ DOMAIN dentries' = DOMAIN dentries
      /\ dentries'[last].name = name /\ dentries'[last].ino = dentries[last].ino
      /\ dentries'[last].parent = dentries[last].parent
      /\ \A i \in DOMAIN dentries : i # last => dentries'[i] = dentries[i]
  BY <1>0, <1>2 DEF WalkTypes, Dentry
<1> HIDE DEF last
<1>4. WalkTypes' /\ MountsFixed'
  BY <1>0, <1>1, <1>3 DEF WalkTypes, MountsFixed
<1>5. \A q \in Proc : PlaceOK(q)' /\ MakingOK(q)'
  <2>1. ASSUME NEW q \in Proc
        PROVE  PlaceOK(q)'
    BY <1>0, <1>1, <1>3 DEF PlaceOK
  <2>2. ASSUME NEW q \in Proc
        PROVE  MakingOK(q)'
    BY <1>0, <1>1 DEF MakingOK, Making
  <2> QED
    BY <2>1, <2>2
<1>6. ASSUME ~misread'
      PROVE  /\ ReadyInv' /\ MountsInv'
             /\ \A i \in DOMAIN dentries' : DentryOK(i)'
             /\ \A q \in Proc : StandsOK(q)' /\ LookupOK(q)' /\ OwnOK(q)'
  <2>0. /\ ReadyInv /\ MountsInv /\ \A i \in DOMAIN dentries : DentryOK(i)
        /\ \A q \in Proc : StandsOK(q) /\ LookupOK(q) /\ OwnOK(q)
    BY <1>0, <1>6 DEF WalkInv
  <2>1. ReadyInv' /\ MountsInv'
    BY <1>0, <2>0 DEF ReadyInv, MountsInv
  <2>2. /\ ino[p] # None /\ ino[p] = Found(cache[dir[p]].ino, name) /\ dir[p] = DirFor(p)
        /\ dentries[last].ino = ino[p] /\ dentries[last].parent = cache[dir[p]].ino
    BY <1>0, <2>0 DEF LookupOK, last
  <2>3. ASSUME NEW i \in DOMAIN dentries'
        PROVE  DentryOK(i)'
    <3>1. CASE i = last
      BY <1>3, <2>2, <3>1 DEF DentryOK
    <3>2. CASE i # last
      BY <1>0, <1>3, <2>0, <3>2 DEF DentryOK, Torn, last
    <3> QED
      BY <3>1, <3>2
  <2>4. (IsDevfs(ino[p]) <=> IsDevfs(cache[base[p]].ino)) \/ ino[p] = Root
    BY <1>0, <1>1, <2>2, OwnLemma
  <2>5. ASSUME NEW q \in Proc
        PROVE  StandsOK(q)' /\ LookupOK(q)' /\ OwnOK(q)'
    <3>1. StandsOK(q)'
      BY <1>0, <2>0 DEF StandsOK
    <3>2. OwnOK(q)'
      BY <1>0, <1>1, <2>0, <2>4 DEF OwnOK
    <3>3. LookupOK(q)'
      BY <1>0, <1>1, <2>0 DEF LookupOK, DirFor
    <3> QED
      BY <3>1, <3>2, <3>3
  <2> QED
    BY <2>1, <2>3, <2>5
<1> QED
  BY <1>4, <1>5, <1>6 DEF WalkInv

-----------------------------------------------------------------------------
(* After the mounts nobody walks, and the one dentry is that of the        *)
(* mountpoint.                                                             *)
LEMMA WalkInitLemma ==
  ASSUME WalkInit
  PROVE  WalkInv
<1> DEFINE w0 == CHOOSE w \in DOMAIN Entries[Root] : Entries[Root][w] = MountPoint
           d0 == [name |-> w0, parent |-> Root, ino |-> MountPoint]
<1>1. /\ Root \in Dir /\ MountPoint \in Dir /\ MountRoot \in DevIno
      /\ {Root, MountPoint, MountRoot} \subseteq Ino /\ ~IsDevfs(Root)
      /\ None \notin Ino \cup Name \cup Proc /\ Len_Dentry \in Nat \ {0}
  BY WalkAssumption DEF Ino, DevIno, IsDevfs
<1>2. w0 \in DOMAIN Entries[Root] /\ Entries[Root][w0] = MountPoint
  BY WalkAssumption
<1> HIDE DEF w0
<1>3. w0 \in Name
  BY <1>1, <1>2 DEF Name
<1>4. d0 \in Dentry /\ NoDentry \in Dentry
  BY <1>1, <1>3 DEF Dentry, NoDentry
<1>5. MountPoint # None /\ MountPoint = Found(Root, w0)
  BY <1>1, <1>2 DEF Found, EntryOf
<1>6. \A n \in Ino : Object(n) \in Inode /\ Object(n).ready /\ Object(n).block = BlockOf(n)
                     /\ Object(n).ino = n
  <2>1. \A n \in Ino : BlockOf(n) \in FirstBlock
    BY DEF FirstBlock, BlockOf, Ino
  <2> QED
    BY <2>1 DEF Object, Inode
<1>7. /\ cache \in Seq(Inode) /\ Len(cache) = 3 /\ DOMAIN cache = 1..3
      /\ cache[1] = Object(Root) /\ cache[2] = Object(MountPoint) /\ cache[3] = Object(MountRoot)
  BY <1>1, <1>6 DEF WalkInit
<1>8. /\ dentries \in [0..(Len_Dentry - 1) -> Dentry]
      /\ \A i \in DOMAIN dentries : dentries[i] = d0 \/ dentries[i] = NoDentry
  BY <1>4 DEF WalkInit, w0
<1>9. index \in 0..(Len_Dentry - 1)
  BY <1>1 DEF WalkInit, NextDentry
<1>10. /\ lock = None /\ \A p \in Proc : /\ at[p] = "user"
                                         /\ base[p] = 1 /\ dir[p] = 1
  BY DEF WalkInit, RootObject
<1>11. WalkTypes
  <2>1. /\ at \in [Proc -> Places] /\ words \in [Proc -> Seq(Name)]
        /\ base \in [Proc -> 1..3] /\ dir \in [Proc -> 1..3]
        /\ ino \in [Proc -> Ino \cup {None}] /\ aux \in [Proc -> Nat]
    BY DEF WalkInit, Places, RootObject
  <2> QED
    BY <1>7, <1>8, <1>9, <2>1 DEF WalkTypes
<1>12. MountsFixed
  BY <1>7 DEF MountsFixed, RootObject, MountPointObject, MountRootObject
<1>13. \A p \in Proc : PlaceOK(p) /\ MakingOK(p)
  BY <1>1, <1>10 DEF PlaceOK, MakingOK, Making
<1>14. ReadyInv /\ MountsInv
  BY <1>1, <1>6, <1>7 DEF ReadyInv, MountsInv, RootObject, MountPointObject, MountRootObject
<1>15. \A i \in DOMAIN dentries : DentryOK(i)
  BY <1>5, <1>8 DEF DentryOK, NoDentry
<1>16. \A p \in Proc : StandsOK(p) /\ LookupOK(p) /\ OwnOK(p)
  BY <1>1, <1>6, <1>7, <1>10 DEF StandsOK, LookupOK, OwnOK
<1> QED
  BY <1>11, <1>12, <1>13, <1>14, <1>15, <1>16 DEF WalkInv

(* Every step of a walk.                                                   *)
LEMMA WalkStep ==
  ASSUME WalkInv, NEW p \in Proc, Begin(p) \/ Step(p)
  PROVE  WalkInv'
BY BeginStep, ReadDentryStep, ReadHitStep, ReadBlockStep, ScanBlockStep, InsertKeysStep,
   InsertNameStep, SnapCacheStep, SearchHitsStep, SearchMissesStep, ReadInodesStep, AllocStep,
   FailsStep, FillUcfsStep, FillDevfsStep, FinishDevfsStep DEF Step

(* A step of a read changes the buffers, but neither the caches nor a      *)
(* walk, and a misread is never forgotten.                                 *)
LEMMA ReadLemma ==
  ASSUME WalkInv, UNCHANGED <<cache, dentries, index, lock, local>>, misread => misread'
  PROVE  WalkInv'
<1>1. WalkTypes' /\ MountsFixed' /\ \A p \in Proc : PlaceOK(p)' /\ MakingOK(p)'
  BY DEF WalkInv, WalkTypes, MountsFixed, PlaceOK, MakingOK, Making, local
<1>2. ASSUME ~misread'
      PROVE  /\ ReadyInv' /\ MountsInv'
             /\ \A i \in DOMAIN dentries' : DentryOK(i)'
             /\ \A p \in Proc : StandsOK(p)' /\ LookupOK(p)' /\ OwnOK(p)'
  <2>1. /\ ReadyInv /\ MountsInv
        /\ \A i \in DOMAIN dentries : DentryOK(i)
        /\ \A p \in Proc : StandsOK(p) /\ LookupOK(p) /\ OwnOK(p)
    BY <1>2 DEF WalkInv
  <2> QED
    BY <2>1 DEF ReadyInv, MountsInv, DentryOK, Torn, LastDentry, StandsOK, LookupOK, DirFor, OwnOK,
         local
<1> QED
  BY <1>1, <1>2 DEF WalkInv

(* No step of ucfs_read does more than that.                               *)
LEMMA ReadStepLemma ==
  ASSUME WalkInv, NEW p \in Proc, ReadStep(p) \/ \E req \in Requests : Read(p, req)
  PROVE  WalkInv'
<1>1. UNCHANGED <<cache, dentries, index, lock, local>>
  BY DEF ReadStep, Read, ReadIndex, CopyIndex, ReadHead, CopyHead, ReadWhole, ReadTail, CopyTail,
       shared
<1>2. misread => misread'
  BY DEF ReadStep, Read, ReadIndex, CopyIndex, ReadHead, CopyHead, ReadWhole, ReadTail, CopyTail,
       UseIndex
<1> QED
  BY <1>1, <1>2, ReadLemma

(* WalkInv is inductive.                                                   *)
THEOREM WalkInvariant == UcfsSpec => []WalkInv
<1>1. UcfsInit => WalkInv
  BY WalkInitLemma DEF UcfsInit
<1>2. WalkInv /\ [UcfsNext]_ucfsVars => WalkInv'
  <2> SUFFICES ASSUME WalkInv, [UcfsNext]_ucfsVars
               PROVE  WalkInv'
    OBVIOUS
  <2>1. CASE UcfsNext
    BY <2>1, WalkStep, ReadStepLemma DEF UcfsNext
  <2>2. CASE UNCHANGED ucfsVars
    BY <2>2, ReadLemma DEF ucfsVars, walkVars, shared
  <2> QED
    BY <2>1, <2>2
<1> QED
  BY <1>1, <1>2, PTL DEF UcfsSpec

(* Without a race no process can make the dentry cache lie, however many   *)
(* walk and whatever it replaces.                                          *)
THEOREM DentriesStayTrue == UcfsSpec => []DentriesTrue
<1>1. WalkInv => DentriesTrue
  BY DEF WalkInv, DentriesTrue, DentryOK
<1> QED
  BY <1>1, WalkInvariant, PTL

(* Without a race an inode is read by the file system it belongs to.       *)
THEOREM OwnInodesRead == UcfsSpec => []ReadsOwnInode
<1>1. WalkInv => ReadsOwnInode
  BY DEF WalkInv, ReadsOwnInode, OwnOK
<1> QED
  BY <1>1, WalkInvariant, PTL

(* Without a race the mountpoint and both roots stay in the cache once, so *)
(* that the comparison of pointers in check_mount is right.                *)
THEOREM MountsStayOnce == UcfsSpec => []MountsCachedOnce
<1>1. WalkInv => MountsCachedOnce
  BY DEF WalkInv, MountsCachedOnce, MountsInv
<1> QED
  BY <1>1, WalkInvariant, PTL

-----------------------------------------------------------------------------
(* Types.  What ucfs_read appends are bytes of blocks because it never     *)
(* takes more from a block than is left in it: the rest that is copied     *)
(* last is less than a block, whatever blocks were missing before.         *)
WalkRest ==
  /\ lock \in Proc \cup {None} /\ scratch \in Blocks \cup {None}
  /\ path \in [Proc -> Seq(Name)] /\ start \in [Proc -> Ino \cup {None}]
  /\ nomem \in [Proc -> BOOLEAN] /\ misread \in BOOLEAN /\ walks \in 0..MaxWalks

ReadTypes ==
  /\ indirect \in Blocks \cup {None}
  /\ reading \in [Proc -> ReadPlaces]
  /\ request \in [Proc -> Requests \cup {None}]
  /\ begun \in [Proc -> Nat] /\ count \in [Proc -> Int]
  /\ current \in [Proc -> 0..(BlockMod - 1)] /\ whole \in [Proc -> Int]
  /\ buff \in [Proc -> Seq(Byte)]

RestOK(p) ==
  /\ reading[p] # "no" => request[p] \in Requests
  /\ reading[p] \in {"head", "copy_head"} => whole[p] = count[p] \div BlockSize
  /\ reading[p] \in {"blocks", "copy_tail"} =>
       Len(buff[p]) + whole[p] * BlockSize + (count[p] % BlockSize) >= count[p]
  /\ reading[p] = "copy_tail" => whole[p] <= 0

TypesInv == WalkTypes /\ WalkRest /\ ReadTypes /\ \A p \in Proc : RestOK(p)

(* The first block of an inode is a block.                                 *)
LEMMA FirstBlockLemma == FirstBlock \subseteq Blocks \cup {None}
<1> SUFFICES ASSUME NEW n \in Dir \cup Files
             PROVE  BlockOf(n) \in Blocks \cup {None}
  BY DEF FirstBlock
<1>1. CASE n \in Dir
  BY <1>1, WalkAssumption DEF BlockOf, Blocks
<1>2. CASE n \in Files
  <2>1. BlockOf(n) = <<n, 0>>
    BY <1>2, WalkAssumption DEF BlockOf, IndexBlock
  <2>2. 0 \in 0..NumBlocks[n]
    BY <1>2, WalkAssumption
  <2> QED
    BY <1>2, <2>1, <2>2 DEF Blocks
<1> QED
  BY <1>1, <1>2

(* The block of an inode of the list.                                      *)
LEMMA ObjectBlockLemma ==
  ASSUME WalkTypes, NEW k \in 1..Len(cache)
  PROVE  cache[k].block \in Blocks \cup {None}
<1>1. cache[k] \in Inode
  BY DEF WalkTypes
<1> QED
  BY <1>1, FirstBlockLemma DEF Inode

(* A step of a walk keeps the types of what WalkInv does not speak of.     *)
LEMMA RestStep ==
  ASSUME WalkTypes, WalkRest, NEW p \in Proc, Begin(p) \/ Step(p)
  PROVE  WalkRest'
<1>1. CASE Begin(p)
  <2>1. PICK way \in Paths, object \in Known(p) : Walk(p, object, way)
    BY <1>1 DEF Begin
  <2>2. way \in Seq(Name) /\ MaxWalks \in Nat
    BY WalkAssumption
  <2>3. object \in 1..Len(cache) /\ cache[object].ino \in Ino \cup {None}
    <3>1. object \in 1..Len(cache)
      BY DEF WalkTypes, Known, RootObject, MountRootObject
    <3>2. cache[object] \in Inode
      BY <3>1 DEF WalkTypes
    <3> QED
      BY <3>1, <3>2 DEF Inode
  <2> QED
    BY <2>1, <2>2, <2>3 DEF Walk, WalkRest, shared
<1>2. CASE ReadBlock(p)
  <2>1. cache[dir[p]].block \in Blocks \cup {None}
    BY ObjectBlockLemma DEF WalkTypes
  <2> QED
    BY <1>2, <2>1 DEF ReadBlock, WalkRest
<1>3. CASE ReadInodes(p)
  <2>1. ino[p] \in Ino \cup {None}
    BY DEF WalkTypes
  <2>2. Sector[ino[p]] \in Blocks
    BY <2>1, WalkAssumption DEF Blocks, InodeTable
  <2> QED
    BY <1>3, <2>2 DEF ReadInodes, WalkRest
<1>4. CASE AllocFails(p)
  BY <1>4 DEF AllocFails, WalkRest, shared
<1>5. CASE InsertKeys(p) \/ InsertName(p)
  BY <1>5 DEF InsertKeys, InsertName, WalkRest
<1>6. CASE SnapCache(p) \/ SearchMisses(p) \/ Alloc(p) \/ FillDevfs(p) \/ FinishDevfs(p)
           \/ FailDevfs(p)
  BY <1>6 DEF SnapCache, SearchMisses, Alloc, FillDevfs, FinishDevfs, FailDevfs, WalkRest, shared
<1>7. CASE ReadDentry(p) \/ ReadHit(p) \/ ScanBlock(p) \/ SearchHits(p) \/ FillUcfs(p)
  <2>1. UNCHANGED <<lock, scratch, path, start, nomem, walks>>
    BY <1>7 DEF ReadDentry, ReadHit, ScanBlock, SearchHits, FillUcfs, shared
  <2>2. misread' \in BOOLEAN
    <3>1. misread \in BOOLEAN
      BY DEF WalkRest
    <3>2. CASE ReadDentry(p)
      BY <3>1, <3>2 DEF ReadDentry
    <3>3. CASE ReadHit(p)
      BY <3>1, <3>3 DEF ReadHit
    <3>4. CASE ScanBlock(p)
      BY <3>1, <3>4 DEF ScanBlock
    <3>5. CASE SearchHits(p)
      BY <3>1, <3>5 DEF SearchHits
    <3>6. CASE FillUcfs(p)
      BY <3>1, <3>6 DEF FillUcfs
    <3> QED
      BY <1>7, <3>2, <3>3, <3>4, <3>5, <3>6
  <2> QED
    BY <2>1, <2>2 DEF WalkRest
<1> QED
  BY <1>1, <1>2, <1>3, <1>4, <1>5, <1>6, <1>7 DEF Step

(* What a block that is taken for an index leads to is a block, and the    *)
(* number of a block is one of 8 bits.                                     *)
LEMMA EntryLemma ==
  ASSUME NEW ix \in Blocks \cup {None}, NEW k \in 0..(BlockMod - 1)
  PROVE  Entry(ix, k) \in Blocks \cup {None} /\ NextNo(k) \in 0..(BlockMod - 1)
<1>1. NextNo(k) \in 0..(BlockMod - 1)
  BY UcfsAssumption DEF NextNo
<1>2. CASE ix \notin IndexBlocks
  <2>1. ix \in NoIndex
    BY <1>2 DEF NoIndex
  <2>2. Foreign[ix] \in [0..(BlockMod - 1) -> Blocks \cup {None}]
    BY <2>1, UcfsAssumption
  <2>3. Foreign[ix][k] \in Blocks \cup {None}
    BY <2>2
  <2>4. Entry(ix, k) = Foreign[ix][k]
    BY <1>2 DEF Entry
  <2> QED
    BY <1>1, <2>3, <2>4
<1>3. CASE ix \in IndexBlocks
  <2>1. PICK n \in Files : ix = IndexBlock(n) /\ ix[1] = n
    BY <1>3 DEF IndexBlocks, IndexBlock
  <2>2. CASE k < NumBlocks[n]
    <3>1. k + 1 \in 0..NumBlocks[n] /\ Entry(ix, k) = <<n, k + 1>>
      BY <1>3, <2>1, <2>2, WalkAssumption DEF Entry
    <3> QED
      BY <1>1, <3>1 DEF Blocks
  <2>3. CASE ~(k < NumBlocks[n])
    BY <1>1, <1>3, <2>1, <2>3 DEF Entry
  <2> QED
    BY <2>2, <2>3
<1> QED
  BY <1>2, <1>3

(* A block of a file is the file and a number.                             *)
LEMMA DataBlockLemma ==
  ASSUME NEW block \in DataBlocks
  PROVE  \E f \in Files : \E k \in 1..NumBlocks[f] : block = <<f, k>>
<1>1. PICK f \in Files : block \in {<<f, k>> : k \in 0..NumBlocks[f]}
  <2>1. ASSUME NEW d \in Dir
        PROVE  d \in FirstBlock
    <3>1. d = BlockOf(d)
      BY WalkAssumption DEF BlockOf
    <3> QED
      BY <3>1 DEF FirstBlock
  <2> QED
    BY <2>1 DEF DataBlocks, Blocks
<1>2. PICK k \in 0..NumBlocks[f] : block = <<f, k>>
  BY <1>1
<1>3. k # 0
  <2>1. BlockOf(f) = <<f, 0>>
    BY WalkAssumption DEF BlockOf, IndexBlock
  <2>2. BlockOf(f) \in FirstBlock
    BY DEF FirstBlock
  <2> QED
    BY <1>2, <2>1, <2>2 DEF DataBlocks
<1>4. NumBlocks[f] \in Nat
  BY WalkAssumption
<1> QED
  BY <1>2, <1>3, <1>4

(* A function on 1..n is a sequence of length n.                           *)
LEMMA SequenceLemma ==
  ASSUME NEW S, NEW n \in Nat, NEW s \in [1..n -> S]
  PROVE  s \in Seq(S) /\ Len(s) = n
OBVIOUS

(* What is copied from a block is as long as was asked for, and lies       *)
(* within the block.                                                       *)
LEMMA BytesLemma ==
  ASSUME NEW block \in Blocks \cup {None}, NEW i \in Nat, NEW n \in Nat, i + n <= BlockSize
  PROVE  Bytes(block, i, n) \in Seq(Byte) /\ Len(Bytes(block, i, n)) = n
<1>0. BlockSize \in Nat \ {0}
  BY UcfsAssumption
<1>1. CASE block \notin DataBlocks
  <2>1. Bytes(block, i, n) = [j \in 1..n |-> <<block, i + j - 1>>]
    BY <1>1 DEF Bytes
  <2>2. ASSUME NEW j \in 1..n
        PROVE  <<block, i + j - 1>> \in Byte
    <3>1. i + j - 1 \in 0..(BlockSize - 1)
      BY <1>0
    <3>2. <<block, i + j - 1>> \in (Blocks \cup {None}) \X (0..(BlockSize - 1))
      BY <3>1
    <3> DEFINE P == (Blocks \cup {None}) \X (0..(BlockSize - 1))
               U == UNION {{<<m, x>> : x \in 0..((NumBlocks[m] * BlockSize) - 1)} : m \in Files}
    <3>3. Byte = U \cup P
      BY Zenon DEF Byte
    <3>4. <<block, i + j - 1>> \in P
      BY <3>2
    <3> HIDE DEF U, P
    <3> QED
      BY <3>3, <3>4
  <2>3. Bytes(block, i, n) \in [1..n -> Byte]
    BY <2>1, <2>2, Zenon
  <2> QED
    BY <2>3, SequenceLemma
<1>2. CASE block \in DataBlocks
  <2>1. PICK f \in Files : \E k \in 1..NumBlocks[f] : block = <<f, k>>
    BY <1>2, DataBlockLemma
  <2>2. PICK k \in 1..NumBlocks[f] : block = <<f, k>>
    BY <2>1
  <2>3. NumBlocks[f] \in Nat /\ BlockSize \in Nat \ {0}
    BY WalkAssumption, UcfsAssumption
  <2>4. Bytes(block, i, n) = [j \in 1..n |-> <<f, (k - 1) * BlockSize + i + j - 1>>]
    BY <1>2, <2>2 DEF Bytes
  <2>5. ASSUME NEW j \in 1..n
        PROVE  <<f, (k - 1) * BlockSize + i + j - 1>> \in Byte
    <3>1. (k - 1) * BlockSize \in Nat /\ NumBlocks[f] * BlockSize \in Nat
          /\ (k - 1) * BlockSize + BlockSize <= NumBlocks[f] * BlockSize
      BY <2>3
    <3>2. (k - 1) * BlockSize + i + j - 1 \in 0..(NumBlocks[f] * BlockSize - 1)
      BY <3>1, <2>3
    <3>3. <<f, (k - 1) * BlockSize + i + j - 1>>
            \in {<<f, x>> : x \in 0..(NumBlocks[f] * BlockSize - 1)}
      BY <3>2, Zenon
    <3> QED
      BY <3>3, Zenon DEF Byte
  <2>6. Bytes(block, i, n) \in [1..n -> Byte]
    BY <2>4, <2>5, Zenon
  <2> QED
    BY <2>6, SequenceLemma
<1> QED
  BY <1>1, <1>2

(* Division of integers, as ucfs_read uses it.                             *)
LEMMA DivideLemma ==
  ASSUME NEW a \in Int
  PROVE  /\ a % BlockSize \in 0..(BlockSize - 1) /\ a \div BlockSize \in Int
         /\ a = (a \div BlockSize) * BlockSize + (a % BlockSize)
         /\ a \in Nat => a \div BlockSize \in Nat
BY UcfsAssumption

(* What is left for the last block.                                        *)
LEMMA RestLemma ==
  ASSUME NEW w \in Int
  PROVE  /\ w * BlockSize \in Int /\ (w - 1) * BlockSize = w * BlockSize - BlockSize
         /\ w <= 0 => w * BlockSize <= 0
BY UcfsAssumption

(* A step of ucfs_read is a step of one process.                           *)
LEMMA OthersRestLemma ==
  ASSUME NEW p \in Proc, \A q \in Proc : RestOK(q),
         \A q \in Proc \ {p} :
           /\ reading'[q] = reading[q] /\ request'[q] = request[q] /\ count'[q] = count[q]
           /\ whole'[q] = whole[q] /\ buff'[q] = buff[q],
         RestOK(p)'
  PROVE  \A q \in Proc : RestOK(q)'
<1> SUFFICES ASSUME NEW q \in Proc, q # p
             PROVE  RestOK(q)'
  OBVIOUS
<1> QED
  BY DEF RestOK

(* A call begins, and reads the index.                                     *)
LEMMA ReadTypesStep ==
  ASSUME TypesInv, NEW p \in Proc, NEW req \in Requests, Read(p, req)
  PROVE  TypesInv'
<1>1. /\ WalkTypes /\ WalkRest /\ ReadTypes /\ \A q \in Proc : RestOK(q)
      /\ FileOf(p) \in Files /\ reading' = [reading EXCEPT ![p] = "index"]
      /\ request' = [request EXCEPT ![p] = req]
      /\ count' = [count EXCEPT ![p] = Cut(req.count, req.offset, Size[FileOf(p)])]
      /\ begun' = [begun EXCEPT ![p] = req.offset] /\ current' = [current EXCEPT ![p] = 0]
      /\ whole' = [whole EXCEPT ![p] = 0] /\ buff' = [buff EXCEPT ![p] = <<>>]
      /\ walks < MaxWalks /\ walks' = walks + 1 /\ UNCHANGED <<shared, local, misread, indirect>>
  BY DEF TypesInv, Read, Goto
<1>2. WalkTypes'
  BY <1>1 DEF WalkTypes, shared, local
<1>3. WalkRest'
  BY <1>1, WalkAssumption DEF WalkRest, shared, local
<1>4. ReadTypes'
  <2>1. req.offset \in Nat /\ req.count \in Nat /\ Size[FileOf(p)] \in Nat
    BY <1>1, UcfsAssumption
  <2>2. Cut(req.count, req.offset, Size[FileOf(p)]) \in Int /\ 0 \in 0..(BlockMod - 1)
    BY <2>1, UcfsAssumption DEF Cut
  <2> QED
    BY <1>1, <2>1, <2>2 DEF ReadTypes, ReadPlaces
<1>5. RestOK(p)'
  BY <1>1 DEF RestOK, ReadTypes
<1>6. \A q \in Proc : RestOK(q)'
  BY <1>1, <1>5, OthersRestLemma DEF ReadTypes
<1> QED
  BY <1>2, <1>3, <1>4, <1>6 DEF TypesInv

(* What the other steps of ucfs_read leave alone.                          *)
LEMMA ReadStepWalk ==
  ASSUME WalkTypes, UNCHANGED <<cache, dentries, index, lock, local>>
  PROVE  WalkTypes'
BY DEF WalkTypes, local

LEMMA IndexTypesStep ==
  ASSUME TypesInv, NEW p \in Proc, ReadIndex(p) \/ CopyIndex(p)
  PROVE  TypesInv'
<1>1. /\ WalkTypes /\ WalkRest /\ ReadTypes /\ \A q \in Proc : RestOK(q)
      /\ UNCHANGED <<cache, dentries, index, lock, local, walks, request, count, buff>>
  BY DEF TypesInv, ReadIndex, CopyIndex, shared
<1>2. WalkTypes'
  BY <1>1, ReadStepWalk
<1>3. CASE ReadIndex(p)
  <2>1. scratch' \in Blocks \cup {None}
    BY <1>1, <1>3, ObjectBlockLemma DEF ReadIndex, WalkTypes
  <2>2. WalkRest'
    BY <1>1, <1>3, <2>1 DEF ReadIndex, WalkRest, local
  <2>3. reading[p] = "index" /\ reading' = [reading EXCEPT ![p] = "copy"]
        /\ UNCHANGED <<indirect, begun, current, whole>>
    BY <1>3 DEF ReadIndex, Goto
  <2>4. ReadTypes' /\ RestOK(p)'
    BY <1>1, <2>3 DEF ReadTypes, ReadPlaces, RestOK
  <2>5. \A q \in Proc : RestOK(q)'
    BY <1>1, <2>3, <2>4, OthersRestLemma DEF ReadTypes
  <2> QED
    BY <1>2, <2>2, <2>4, <2>5 DEF TypesInv
<1>4. CASE CopyIndex(p)
  <2> DEFINE w == count[p] \div BlockSize
  <2>1. reading[p] = "copy" /\ whole' = [whole EXCEPT ![p] = w]
        /\ indirect' = scratch /\ UNCHANGED scratch
    BY <1>4 DEF CopyIndex, shared
  <2>2. PICK place \in {"returned", "head", "blocks"}, offset \in Offsets :
          /\ reading' = [reading EXCEPT ![p] = place]
          /\ begun' = [begun EXCEPT ![p] = offset]
          /\ current' = [current EXCEPT ![p] = BlockNo(offset)]
    BY <1>4 DEF CopyIndex, Goto
  <2>2a. offset \in Nat /\ BlockNo(offset) \in 0..(BlockMod - 1)
    <3>1. offset \in Nat
      BY UcfsAssumption DEF Offsets
    <3>2. offset \div BlockSize \in Nat
      BY <3>1, DivideLemma
    <3> QED
      BY <3>1, <3>2, UcfsAssumption DEF BlockNo
  <2>3. misread' \in BOOLEAN
    BY <1>1, <1>4 DEF CopyIndex, WalkRest
  <2>4. WalkRest'
    BY <1>1, <2>1, <2>3 DEF WalkRest, local
  <2>5. w \in Int /\ count[p] \in Int
        /\ w * BlockSize + (count[p] % BlockSize) = count[p]
    BY <1>1, DivideLemma DEF ReadTypes
  <2> HIDE DEF w
  <2>6. ReadTypes'
    BY <1>1, <2>1, <2>2, <2>2a, <2>5 DEF ReadTypes, ReadPlaces, WalkRest
  <2>7. /\ reading'[p] = place /\ whole'[p] = w /\ count'[p] = count[p]
        /\ Len(buff'[p]) \in Nat /\ request'[p] = request[p]
    BY <1>1, <2>1, <2>2, <2>6 DEF ReadTypes
  <2>8. Len(buff'[p]) + w * BlockSize + (count[p] % BlockSize) >= count[p]
    BY <2>5, <2>7, RestLemma, DivideLemma
  <2>9. RestOK(p)'
    BY <1>1, <2>1, <2>7, <2>8 DEF RestOK, w
  <2>10. \A q \in Proc : RestOK(q)'
    BY <1>1, <2>1, <2>2, <2>9, OthersRestLemma DEF ReadTypes
  <2> QED
    BY <1>2, <2>4, <2>6, <2>10 DEF TypesInv
<1> QED
  BY <1>3, <1>4

(* The first block, from the offset on: not more than is left of it.       *)
LEMMA HeadTypesStep ==
  ASSUME TypesInv, NEW p \in Proc, ReadHead(p) \/ CopyHead(p)
  PROVE  TypesInv'
<1>1. /\ WalkTypes /\ WalkRest /\ ReadTypes /\ RestOK(p) /\ \A q \in Proc : RestOK(q)
      /\ UNCHANGED <<cache, dentries, index, lock, local, walks, indirect, request, begun, count, whole>>
  BY DEF TypesInv, ReadHead, CopyHead, shared
<1>2. WalkTypes'
  BY <1>1, ReadStepWalk
<1>3. CASE ReadHead(p)
  <2>1. /\ reading[p] = "head" /\ reading' = [reading EXCEPT ![p] = "copy_head"]
        /\ scratch' = DataBlock(current[p]) /\ current' = [current EXCEPT ![p] = NextNo(current[p])]
        /\ UNCHANGED buff
    BY <1>3 DEF ReadHead, Goto
  <2>2. current[p] \in 0..(BlockMod - 1) /\ indirect \in Blocks \cup {None}
    BY <1>1 DEF ReadTypes
  <2>3. scratch' \in Blocks \cup {None} /\ NextNo(current[p]) \in 0..(BlockMod - 1)
    BY <2>1, <2>2, EntryLemma DEF DataBlock
  <2>4. misread' \in BOOLEAN
    BY <1>1, <1>3 DEF ReadHead, UseIndex, WalkRest
  <2>5. WalkRest'
    BY <1>1, <2>3, <2>4 DEF WalkRest, local
  <2>6. ReadTypes' /\ RestOK(p)'
    BY <1>1, <2>1, <2>3 DEF ReadTypes, ReadPlaces, RestOK
  <2>7. \A q \in Proc : RestOK(q)'
    BY <1>1, <2>1, <2>6, OthersRestLemma DEF ReadTypes
  <2> QED
    BY <1>2, <2>5, <2>6, <2>7 DEF TypesInv
<1>4. CASE CopyHead(p)
  <2> DEFINE i == ByteOffset(p)
             rest == BlockSize - i
             n == IF rest > count[p] THEN count[p] ELSE rest
             more == Bytes(scratch, i, n)
  <2>1. reading[p] = "copy_head" /\ UNCHANGED <<scratch, current>>
    BY <1>4 DEF CopyHead, shared
  <2>2. /\ n < 0 => reading' = [reading EXCEPT ![p] = "overrun"] /\ UNCHANGED buff
        /\ ~(n < 0) => /\ buff' = [buff EXCEPT ![p] = buff[p] \o more]
                       /\ \E place \in {"returned", "blocks"} :
                            reading' = [reading EXCEPT ![p] = place]
    BY <1>4 DEF CopyHead, Goto
  <2>3. misread' \in BOOLEAN
    BY <1>1, <1>4 DEF CopyHead, WalkRest
  <2>4. WalkRest'
    BY <1>1, <2>1, <2>3 DEF WalkRest, local
  <2>5. i \in Nat /\ i < BlockSize /\ BlockSize \in Nat /\ count[p] \in Int /\ n \in Int
    <3>1. begun[p] \in Int
      BY <1>1 DEF ReadTypes
    <3>2. begun[p] % BlockSize \in 0..(BlockSize - 1) /\ BlockSize \in Nat
      BY <3>1, DivideLemma, UcfsAssumption
    <3>3. count[p] \in Int
      BY <1>1 DEF ReadTypes
    <3>4. i \in 0..(BlockSize - 1)
      BY <3>2 DEF ByteOffset
    <3> HIDE DEF i
    <3> QED
      BY <3>2, <3>3, <3>4
  <2> HIDE DEF i
  <2>6. ~(n < 0) => more \in Seq(Byte)
    <3>1. ~(n < 0) => n \in Nat /\ i + n <= BlockSize
      BY <2>5
    <3>2. scratch \in Blocks \cup {None}
      BY <1>1 DEF WalkRest
    <3> HIDE DEF n
    <3> QED
      BY <2>5, <3>1, <3>2, BytesLemma
  <2> HIDE DEF n, more
  <2>7. PICK place \in {"returned", "blocks", "overrun"} :
          reading' = [reading EXCEPT ![p] = place]
    BY <2>2
  <2>8. buff' = buff \/ (buff' = [buff EXCEPT ![p] = buff[p] \o more] /\ more \in Seq(Byte))
    BY <2>2, <2>6
  <2>9. buff' \in [Proc -> Seq(Byte)] /\ \A q \in Proc \ {p} : buff'[q] = buff[q]
    <3> DEFINE S == Seq(Byte)
    <3>1. buff \in [Proc -> S] /\ \A s, t \in S : s \o t \in S
      BY <1>1 DEF ReadTypes
    <3> HIDE DEF S
    <3>2. buff[p] \in S
      BY <3>1
    <3>3. CASE buff' = buff
      BY <3>1, <3>3 DEF S
    <3>4. CASE buff' = [buff EXCEPT ![p] = buff[p] \o more] /\ more \in S
      <4>1. buff[p] \o more \in S
        BY <3>1, <3>2, <3>4
      <4> QED
        BY <3>1, <3>4, <4>1 DEF S
    <3> QED
      BY <2>8, <3>3, <3>4 DEF S
  <2>10. ReadTypes'
    BY <1>1, <2>1, <2>7, <2>9 DEF ReadTypes, ReadPlaces
  <2>11. /\ whole[p] = count[p] \div BlockSize /\ Len(buff'[p]) \in Nat /\ reading'[p] = place
         /\ count[p] \in Int
    BY <1>1, <2>1, <2>7, <2>10 DEF ReadTypes, RestOK
  <2>12. Len(buff'[p]) + whole[p] * BlockSize + (count[p] % BlockSize) >= count[p]
    <3> DEFINE c == count[p]
               w == whole[p]
    <3>1. c \in Int /\ w = c \div BlockSize
      BY <2>11
    <3> HIDE DEF c, w
    <3>2. w \in Int /\ c = w * BlockSize + (c % BlockSize) /\ c % BlockSize \in Int
      BY <3>1, DivideLemma
    <3>3. w * BlockSize \in Int
      BY <3>2, RestLemma
    <3>4. Len(buff'[p]) + w * BlockSize + (c % BlockSize) >= c
      BY <2>11, <3>1, <3>2, <3>3
    <3> QED
      BY <3>4 DEF c, w
  <2>13. RestOK(p)'
    BY <1>1, <2>1, <2>11, <2>12 DEF RestOK
  <2>14. \A q \in Proc : RestOK(q)'
    BY <1>1, <2>7, <2>9, <2>13, OthersRestLemma DEF ReadTypes
  <2> QED
    BY <1>2, <2>4, <2>10, <2>14 DEF TypesInv
<1> QED
  BY <1>3, <1>4

(* A whole block; at the end of what the index knows the call returns.     *)
LEMMA WholeTypesStep ==
  ASSUME TypesInv, NEW p \in Proc, ReadWhole(p)
  PROVE  TypesInv'
<1> DEFINE block == DataBlock(current[p])
           more == Bytes(block, 0, BlockSize)
           place == IF DataBlock(NextNo(current[p])) = None THEN "returned" ELSE "blocks"
<1>1. /\ WalkTypes /\ WalkRest /\ ReadTypes /\ RestOK(p) /\ \A q \in Proc : RestOK(q)
      /\ reading[p] = "blocks"
      /\ UNCHANGED <<shared, local, walks, indirect, request, begun, count>>
      /\ buff' = [buff EXCEPT ![p] = buff[p] \o more]
      /\ current' = [current EXCEPT ![p] = NextNo(current[p])]
      /\ whole' = [whole EXCEPT ![p] = whole[p] - 1]
      /\ reading' = [reading EXCEPT ![p] = place]
      /\ misread' = (misread \/ indirect # cache[base[p]].block)
  BY DEF TypesInv, ReadWhole, UseIndex, Goto
<1>2. WalkTypes' /\ WalkRest'
  BY <1>1, ReadStepWalk DEF WalkRest, local, shared
<1>3. /\ current[p] \in 0..(BlockMod - 1) /\ whole[p] \in Int /\ buff[p] \in Seq(Byte)
      /\ count[p] \in Int /\ BlockSize \in Nat
  BY <1>1, UcfsAssumption DEF ReadTypes
<1>3a. block \in Blocks \cup {None} /\ NextNo(current[p]) \in 0..(BlockMod - 1)
  <2>1. indirect \in Blocks \cup {None}
    BY <1>1 DEF ReadTypes
  <2> QED
    BY <1>3, <2>1, EntryLemma DEF DataBlock
<1>4. more \in Seq(Byte) /\ Len(more) = BlockSize
  <2>1. 0 \in Nat /\ 0 + BlockSize <= BlockSize
    BY <1>3
  <2> HIDE DEF block
  <2> QED
    BY <1>3, <1>3a, <2>1, BytesLemma
<1> HIDE DEF more
<1>5. /\ buff[p] \o more \in Seq(Byte) /\ Len(buff[p] \o more) = Len(buff[p]) + Len(more)
      /\ Len(buff[p]) \in Nat
  BY <1>3, <1>4
<1>6. ReadTypes'
  <2>1. place \in ReadPlaces
    BY DEF ReadPlaces
  <2> HIDE DEF place
  <2> QED
    BY <1>1, <1>3, <1>3a, <1>5, <2>1 DEF ReadTypes
<1>7. /\ reading'[p] = place /\ whole'[p] = whole[p] - 1 /\ buff'[p] = buff[p] \o more
      /\ count'[p] = count[p] /\ request'[p] = request[p]
  BY <1>1 DEF ReadTypes
<1>8. RestOK(p)'
  <2> DEFINE b == Len(buff[p])
             w == whole[p]
             c == count[p]
  <2>1. CASE place = "returned"
    BY <1>1, <1>7, <2>1 DEF RestOK
  <2>2. CASE place = "blocks"
    <3>1. b + w * BlockSize + (c % BlockSize) >= c /\ Len(buff'[p]) = b + BlockSize
      BY <1>1, <1>4, <1>5, <1>7, <2>2 DEF RestOK
    <3>2. b \in Nat /\ w \in Int /\ c \in Int
      BY <1>3, <1>5
    <3> HIDE DEF b, w, c
    <3>3. /\ (w - 1) * BlockSize = w * BlockSize - BlockSize /\ w * BlockSize \in Int
          /\ c % BlockSize \in Int
      BY <3>2, RestLemma, DivideLemma
    <3>4. b + BlockSize + (w - 1) * BlockSize + (c % BlockSize) >= c
      BY <1>3, <3>1, <3>2, <3>3
    <3>5. Len(buff'[p]) + whole'[p] * BlockSize + (count'[p] % BlockSize) >= count'[p]
      BY <1>7, <3>1, <3>4 DEF w, c
    <3> QED
      BY <1>1, <1>7, <2>2, <3>5 DEF RestOK
  <2> QED
    BY <2>1, <2>2
<1>9. \A q \in Proc : RestOK(q)'
  BY <1>1, <1>8, OthersRestLemma DEF ReadTypes
<1> QED
  BY <1>2, <1>6, <1>9 DEF TypesInv

(* The rest: what is still to copy is less than a block.                   *)
LEMMA TailTypesStep ==
  ASSUME TypesInv, NEW p \in Proc, ReadTail(p) \/ CopyTail(p)
  PROVE  TypesInv'
<1>1. /\ WalkTypes /\ WalkRest /\ ReadTypes /\ RestOK(p) /\ \A q \in Proc : RestOK(q)
      /\ UNCHANGED <<cache, dentries, index, lock, local, walks, indirect, request, begun, count, whole>>
  BY DEF TypesInv, ReadTail, CopyTail, shared
<1>2. WalkTypes'
  BY <1>1, ReadStepWalk
<1>3. /\ current[p] \in 0..(BlockMod - 1) /\ whole[p] \in Int /\ buff[p] \in Seq(Byte)
      /\ count[p] \in Int /\ Len(buff[p]) \in Nat /\ indirect \in Blocks \cup {None}
      /\ scratch \in Blocks \cup {None}
  BY <1>1 DEF ReadTypes, WalkRest
<1>4. CASE ReadTail(p)
  <2>1. reading[p] = "blocks" /\ whole[p] <= 0 /\ UNCHANGED buff
    BY <1>4 DEF ReadTail
  <2>2. /\ scratch' \in Blocks \cup {None} /\ current' \in [Proc -> 0..(BlockMod - 1)]
        /\ reading' \in [Proc -> ReadPlaces] /\ reading'[p] \in {"returned", "copy_tail"}
        /\ \A q \in Proc \ {p} : reading'[q] = reading[q]
    <3>1. CASE count[p] = Len(buff[p])
      BY <1>1, <1>4, <3>1 DEF ReadTail, Goto, ReadTypes, ReadPlaces, WalkRest
    <3>2. CASE count[p] # Len(buff[p])
      <4>1. DataBlock(current[p]) \in Blocks \cup {None} /\ NextNo(current[p]) \in 0..(BlockMod - 1)
        BY <1>3, EntryLemma DEF DataBlock
      <4>2. /\ scratch' = DataBlock(current[p])
            /\ current' = [current EXCEPT ![p] = NextNo(current[p])]
            /\ reading' = [reading EXCEPT ![p] = "copy_tail"]
        BY <1>4, <3>2 DEF ReadTail, Goto
      <4> QED
        BY <1>1, <1>3, <4>1, <4>2 DEF ReadTypes, ReadPlaces
    <3> QED
      BY <3>1, <3>2
  <2>3. misread' \in BOOLEAN
    BY <1>1, <1>4 DEF ReadTail, UseIndex, WalkRest
  <2>4. WalkRest' /\ ReadTypes'
    BY <1>1, <2>1, <2>2, <2>3 DEF WalkRest, ReadTypes, local
  <2>5. RestOK(p)'
    BY <1>1, <2>1, <2>2 DEF RestOK
  <2>6. \A q \in Proc : RestOK(q)'
    BY <1>1, <2>1, <2>2, <2>5, OthersRestLemma
  <2> QED
    BY <1>2, <2>4, <2>6 DEF TypesInv
<1>5. CASE CopyTail(p)
  <2> DEFINE n == count[p] - Len(buff[p])
             more == Bytes(scratch, 0, n)
  <2>1. reading[p] = "copy_tail" /\ UNCHANGED <<scratch, current>>
    BY <1>5 DEF CopyTail, shared
  <2>2. /\ n < 0 => reading' = [reading EXCEPT ![p] = "overrun"] /\ UNCHANGED buff
        /\ ~(n < 0) => /\ buff' = [buff EXCEPT ![p] = buff[p] \o more]
                       /\ reading' = [reading EXCEPT ![p] = "returned"]
    BY <1>5 DEF CopyTail, Goto
  <2>3. n <= BlockSize /\ n \in Int
    <3> DEFINE b == Len(buff[p])
               w == whole[p]
               c == count[p]
    <3>1. /\ b + w * BlockSize + (c % BlockSize) >= c /\ w <= 0
          /\ b \in Nat /\ w \in Int /\ c \in Int
      BY <1>1, <1>3, <2>1 DEF RestOK
    <3> HIDE DEF b, w, c
    <3>2. w * BlockSize \in Int /\ w * BlockSize <= 0 /\ c % BlockSize \in 0..(BlockSize - 1)
      BY <3>1, RestLemma, DivideLemma
    <3> DEFINE x == w * BlockSize
               y == c % BlockSize
               z == BlockSize
    <3>2a. x \in Int /\ x <= 0 /\ y \in 0..(z - 1) /\ b + x + y >= c /\ z \in Nat
      BY <3>1, <3>2, UcfsAssumption
    <3> HIDE DEF x, y, z
    <3>3. c - b <= BlockSize /\ c - b \in Int
      BY <3>1, <3>2a DEF z
    <3> QED
      BY <3>3 DEF b, c
  <2>4. ~(n < 0) => more \in Seq(Byte)
    <3>1. ~(n < 0) => n \in Nat /\ 0 + n <= BlockSize
      BY <2>3, UcfsAssumption
    <3>2. 0 \in Nat
      OBVIOUS
    <3> HIDE DEF n
    <3> QED
      BY <1>3, <3>1, <3>2, BytesLemma
  <2> HIDE DEF n, more
  <2>5. /\ reading' \in [Proc -> ReadPlaces] /\ reading'[p] \in {"returned", "overrun"}
        /\ \A q \in Proc \ {p} : reading'[q] = reading[q] /\ buff'[q] = buff[q]
    BY <1>1, <2>2 DEF ReadTypes, ReadPlaces
  <2>6. buff' \in [Proc -> Seq(Byte)]
    <3> DEFINE S == Seq(Byte)
    <3>1. buff \in [Proc -> S] /\ \A s, t \in S : s \o t \in S
      BY <1>1 DEF ReadTypes
    <3> HIDE DEF S
    <3>2. buff[p] \in S /\ (~(n < 0) => more \in S)
      BY <2>4, <3>1 DEF S
    <3>3. CASE n < 0
      BY <2>2, <3>1, <3>3 DEF S
    <3>4. CASE ~(n < 0)
      <4>1. buff[p] \o more \in S
        BY <3>1, <3>2, <3>4
      <4> QED
        BY <2>2, <3>1, <3>4, <4>1 DEF S
    <3> QED
      BY <3>3, <3>4 DEF S
  <2>7. misread' \in BOOLEAN
    BY <1>1, <1>5 DEF CopyTail, WalkRest
  <2>8. WalkRest' /\ ReadTypes'
    BY <1>1, <2>1, <2>5, <2>6, <2>7 DEF WalkRest, ReadTypes, local
  <2>9. RestOK(p)'
    BY <1>1, <2>1, <2>5 DEF RestOK
  <2>10. \A q \in Proc : RestOK(q)'
    BY <1>1, <2>5, <2>9, OthersRestLemma
  <2> QED
    BY <1>2, <2>8, <2>10 DEF TypesInv
<1> QED
  BY <1>4, <1>5

(* Every step of ucfs_read.                                                *)
LEMMA ReadStepTypes ==
  ASSUME TypesInv, NEW p \in Proc, ReadStep(p) \/ \E req \in Requests : Read(p, req)
  PROVE  TypesInv'
BY ReadTypesStep, IndexTypesStep, HeadTypesStep, WholeTypesStep, TailTypesStep DEF ReadStep

(* The types of walks and reads are inductive together with WalkInv.       *)
LEMMA TypesInductive == WalkInv /\ TypesInv /\ [UcfsNext]_ucfsVars => WalkInv' /\ TypesInv'
<1> SUFFICES ASSUME WalkInv, TypesInv, [UcfsNext]_ucfsVars
             PROVE  WalkInv' /\ TypesInv'
  OBVIOUS
<1>1. WalkInv'
  <2>1. CASE UcfsNext
    BY <2>1, WalkStep, ReadStepLemma DEF UcfsNext
  <2>2. CASE UNCHANGED ucfsVars
    BY <2>2, ReadLemma DEF ucfsVars, walkVars, shared
  <2> QED
    BY <2>1, <2>2
<1>2. WalkTypes'
  BY <1>1 DEF WalkInv
<1>3. WalkTypes /\ WalkRest /\ ReadTypes /\ \A q \in Proc : RestOK(q)
  BY DEF TypesInv
<1>4. ASSUME NEW p \in Proc, Step(p), UNCHANGED readVars
      PROVE  TypesInv'
  <2>1. WalkRest'
    BY <1>3, <1>4, RestStep
  <2>2. ReadTypes' /\ \A q \in Proc : RestOK(q)'
    BY <1>3, <1>4 DEF ReadTypes, RestOK, readVars
  <2> QED
    BY <1>2, <2>1, <2>2 DEF TypesInv
<1>5. ASSUME NEW p \in Proc, Begin(p), Goto(p, "no"), buff' = [buff EXCEPT ![p] = <<>>],
             UNCHANGED <<indirect, request, begun, count, current, whole>>
      PROVE  TypesInv'
  <2>1. WalkRest'
    BY <1>3, <1>5, RestStep
  <2>2. ReadTypes' /\ RestOK(p)'
    BY <1>3, <1>5 DEF ReadTypes, ReadPlaces, RestOK, Goto
  <2>3. \A q \in Proc : RestOK(q)'
    BY <1>3, <1>5, <2>2, OthersRestLemma DEF ReadTypes, Goto
  <2> QED
    BY <1>2, <2>1, <2>2, <2>3 DEF TypesInv
<1>6. CASE UNCHANGED ucfsVars
  <2>1. WalkRest' /\ ReadTypes' /\ \A q \in Proc : RestOK(q)'
    BY <1>3, <1>6 DEF WalkRest, ReadTypes, RestOK, ucfsVars, walkVars, readVars, shared, local
  <2> QED
    BY <1>1, <1>2, <2>1 DEF TypesInv
<1>7. CASE UcfsNext
  <2>1. PICK p \in Proc :
          \/ /\ Begin(p) /\ Goto(p, "no") /\ buff' = [buff EXCEPT ![p] = <<>>]
             /\ UNCHANGED <<indirect, request, begun, count, current, whole>>
          \/ Step(p) /\ UNCHANGED readVars
          \/ ReadStep(p) \/ \E req \in Requests : Read(p, req)
    BY <1>7 DEF UcfsNext
  <2> QED
    BY <1>1, <1>4, <1>5, <2>1, ReadStepTypes
<1> QED
  BY <1>1, <1>6, <1>7

LEMMA TypesInitLemma ==
  ASSUME UcfsInit
  PROVE  TypesInv
<1>1. WalkTypes
  BY WalkInitLemma DEF UcfsInit, WalkInv
<1>2. WalkRest
  <2>1. lock \in Proc \cup {None} /\ scratch \in Blocks \cup {None} /\ walks \in 0..MaxWalks
    <3>1. Sector[MountPoint] \in InodeTable
      BY WalkAssumption DEF InodeTable, Ino
    <3>2. scratch = Sector[MountPoint]
      BY DEF UcfsInit, WalkInit
    <3>3. scratch \in Blocks \cup {None}
      BY <3>1, <3>2 DEF Blocks
    <3> QED
      BY <3>3, WalkAssumption DEF UcfsInit, WalkInit
  <2>2. path \in [Proc -> Seq(Name)] /\ start \in [Proc -> Ino \cup {None}]
    BY WalkAssumption DEF UcfsInit, WalkInit, Ino
  <2>3. nomem \in [Proc -> BOOLEAN] /\ misread \in BOOLEAN
    BY DEF UcfsInit, WalkInit
  <2> QED
    BY <2>1, <2>2, <2>3 DEF WalkRest
<1>3. ReadTypes /\ \A p \in Proc : RestOK(p)
  <2>1. 0 \in 0..(BlockMod - 1)
    BY UcfsAssumption
  <2> QED
    BY <2>1 DEF UcfsInit, ReadTypes, ReadPlaces, RestOK
<1> QED
  BY <1>1, <1>2, <1>3 DEF TypesInv

(* The state of walks and reads keeps its types: what a read copies always *)
(* lies within one block, even when the index or the buffer is another's,  *)
(* except where it copies a negative count (ucfs.c:50, 69).                *)
THEOREM UcfsTypesCorrect == UcfsSpec => []UcfsTypeOK
<1>1. UcfsInit => WalkInv /\ TypesInv
  BY WalkInitLemma, TypesInitLemma DEF UcfsInit
<1>2. WalkInv /\ TypesInv => UcfsTypeOK
  <2> SUFFICES ASSUME TypesInv
               PROVE  UcfsTypeOK
    OBVIOUS
  <2>2. WalkTypeOK
    BY DEF TypesInv, WalkTypes, WalkRest, WalkTypeOK
  <2> QED
    BY <2>2 DEF TypesInv, ReadTypes, UcfsTypeOK
<1> QED
  BY <1>1, <1>2, TypesInductive, PTL DEF UcfsSpec

-----------------------------------------------------------------------------
(* Reading.  ReadingOK is about the numbers of one call: n is the file, c  *)
(* the count after the cut, cur and w are current_block and the blocks     *)
(* left, b is what was copied.  WithinOK is the part for an offset within  *)
(* the file, BeyondOK the one for an offset beyond its end: then count is  *)
(* negative and nothing is copied.                                         *)
FileBytes(n, o, len) == [j \in 1..len |-> <<n, o + j - 1>>]

\* what is in the caller's buffer are the bytes of the file from the offset on
FromOffset(n, o, b) == Len(b) \in Nat /\ b = FileBytes(n, o, Len(b))

\* the bytes before the next block
HeadOf(o) == IF o % BlockSize = 0 THEN 0 ELSE BlockSize - (o % BlockSize)

BlocksOK(n, o, c, cur, w, b) ==
  /\ c \in Nat /\ cur \in 0..(NumBlocks[n] - 1) /\ w \in Nat
  /\ FromOffset(n, o, b)
  /\ \/ Len(b) = c /\ w = 0 /\ c < BlockSize
     \/ /\ HeadOf(o) <= c /\ o + Len(b) = cur * BlockSize
        /\ Len(b) + w * BlockSize + (c % BlockSize) = HeadOf(o) + c

TailOK(n, o, c, cur, b) ==
  /\ c \in Nat /\ cur \in 1..NumBlocks[n]
  /\ FromOffset(n, o, b) /\ Len(b) # c
  /\ HeadOf(o) <= c /\ o + Len(b) = (cur - 1) * BlockSize
  /\ Len(b) + (c % BlockSize) = HeadOf(o) + c

WithinOK(n, req, place, c, cur, w, b) ==
  LET o == req.offset
      k == o \div BlockSize
  IN  /\ n \in Files /\ c = Cut(req.count, o, Size[n]) /\ o <= Size[n]
      /\ place \in {"head", "copy_head"} =>
           k < NumBlocks[n] /\ o % BlockSize # 0 /\ w = c \div BlockSize /\ b = <<>>
      /\ place = "head" => cur = k
      /\ place = "copy_head" => cur = k + 1
      /\ place = "blocks" => BlocksOK(n, o, c, cur, w, b)
      /\ place = "copy_tail" => TailOK(n, o, c, cur, b)
      /\ place \in {"returned", "overrun"} =>
           ((place = "returned" /\ b = Wanted(n, req)) <=> Fits(n, req))

BeyondOK(n, req, place, w, b) ==
  /\ b = <<>>
  /\ place \notin {"returned", "overrun"} => ~Fits(n, req)
  /\ place = "blocks" => w < 0
  /\ place \in {"returned", "overrun"} => (place = "returned" <=> Fits(n, req))

ReadingOK(n, req, place, c, cur, w, b) ==
  /\ n \in Files /\ c = Cut(req.count, req.offset, Size[n])
  /\ IF place \in {"index", "copy"} THEN b = <<>>
     ELSE IF req.offset > Size[n] THEN BeyondOK(n, req, place, w, b)
     ELSE WithinOK(n, req, place, c, cur, w, b)

ReadOK(p) ==
  reading[p] # "no" =>
    /\ at[p] = "done"
    /\ reading[p] \in {"index", "copy"} => begun[p] = request[p].offset
    /\ ~misread /\ begun[p] = request[p].offset =>
         ReadingOK(FileOf(p), request[p], reading[p], count[p], current[p], whole[p], buff[p])

ReadInv == \A p \in Proc : ReadOK(p)

-----------------------------------------------------------------------------
(* The smaller of two numbers.                                             *)
LEMMA MinLemma ==
  ASSUME NEW a \in Nat, NEW b \in Nat
  PROVE  Min({a, b}) = IF a <= b THEN a ELSE b
<1> DEFINE S == {a, b}
           P(x) == x \in S /\ \A y \in S : x <= y
           m == IF a <= b THEN a ELSE b
<1>1. P(m)
  OBVIOUS
<1>2. \A x : P(x) => x = m
  OBVIOUS
<1>3. Min(S) = CHOOSE x \in S : \A y \in S : x <= y
  BY DEF Min
<1> QED
  BY <1>1, <1>2, <1>3

(* What was copied is what is wanted if it is as long.                     *)
LEMMA FileBytesLemma ==
  ASSUME NEW n, NEW o \in Nat, NEW k \in Nat
  PROVE  /\ Len(FileBytes(n, o, k)) = k
         /\ \A l \in Nat : FileBytes(n, o, k) = FileBytes(n, o, l) <=> k = l
         /\ FileBytes(n, o, 0) = <<>>
<1>1. \A l \in Nat : Len(FileBytes(n, o, l)) = l
  BY DEF FileBytes
<1>2. FileBytes(n, o, 0) = <<>>
  BY DEF FileBytes
<1> QED
  BY <1>1, <1>2

LEMMA MoreBytesLemma ==
  ASSUME NEW n, NEW o \in Nat, NEW k \in Nat, NEW l \in Nat
  PROVE  FileBytes(n, o, k) \o FileBytes(n, o + k, l) = FileBytes(n, o, k + l)
<1> DEFINE s == FileBytes(n, o, k)
           t == FileBytes(n, o + k, l)
           u == FileBytes(n, o, k + l)
           S == {<<n, i>> : i \in Nat}
<1>1. s \in Seq(S) /\ t \in Seq(S) /\ u \in Seq(S) /\ Len(s) = k /\ Len(t) = l /\ Len(u) = k + l
  BY DEF FileBytes
<1>2. \A j \in 1..k : s[j] = <<n, o + j - 1>>
  BY DEF FileBytes
<1>3. \A j \in 1..l : t[j] = <<n, o + k + j - 1>>
  BY DEF FileBytes
<1>4. \A j \in 1..(k + l) : u[j] = <<n, o + j - 1>>
  BY DEF FileBytes
<1> HIDE DEF s, t, u, S
<1>5. s \o t \in Seq(S) /\ Len(s \o t) = k + l
  BY <1>1
<1>6. ASSUME NEW j \in 1..(k + l)
      PROVE  (s \o t)[j] = u[j]
  <2>1. CASE j \in 1..k
    <3>1. (s \o t)[j] = s[j]
      BY <1>1, <2>1
    <3> QED
      BY <1>2, <1>4, <2>1, <3>1
  <2>2. CASE j \notin 1..k
    <3>1. j - k \in 1..l /\ (s \o t)[j] = t[j - k]
      BY <1>1, <2>2
    <3>2. o + k + (j - k) - 1 = o + j - 1
      OBVIOUS
    <3> QED
      BY <1>3, <1>4, <3>1, <3>2
  <2> QED
    BY <2>1, <2>2
<1>7. s \o t = u
  BY <1>1, <1>5, <1>6
<1> QED
  BY <1>7 DEF s, t, u

(* What was copied, and more from where it ends.                           *)
LEMMA LongerBytesLemma ==
  ASSUME NEW n, NEW o \in Nat, NEW b, FromOffset(n, o, b), NEW t \in Nat
  PROVE  b \o FileBytes(n, o + Len(b), t) = FileBytes(n, o, Len(b) + t)
<1>1. \A k \in Nat : FileBytes(n, o, k) \o FileBytes(n, o + k, t) = FileBytes(n, o, k + t)
  BY MoreBytesLemma
<1> QED
  BY <1>1 DEF FromOffset

(* What should be read, and when the code is right.                        *)
LEMMA WantedLemma ==
  ASSUME NEW n \in Files, NEW req \in Requests, NEW c, c = Cut(req.count, req.offset, Size[n])
  PROVE  /\ req.offset \in Nat /\ Size[n] \in Nat
         /\ req.offset > Size[n] =>
              c \in Int /\ c < 0 /\ Wanted(n, req) = <<>>
              /\ (Fits(n, req) <=> BlockNo(req.offset) >= NumBlocks[n])
         /\ req.offset <= Size[n] =>
              /\ c \in Nat /\ c <= Size[n] - req.offset
              /\ Wanted(n, req) = FileBytes(n, req.offset, c)
              /\ Fits(n, req) <=> \/ req.offset % BlockSize = 0 \/ c < BlockSize
                                  \/ BlockSize - (req.offset % BlockSize) <= c % BlockSize
<1> DEFINE o == req.offset
           left == IF o < Size[n] THEN Size[n] - o ELSE 0
           m == Min({req.count, left})
<1>1. o \in Nat /\ req.count \in Nat /\ Size[n] \in Nat
  BY UcfsAssumption
<1>2. left \in Nat /\ m = IF req.count <= left THEN req.count ELSE left
  BY <1>1, MinLemma
<1>3. m \in Nat
  BY <1>1, <1>2
<1>4. Wanted(n, req) = FileBytes(n, o, m)
  BY DEF Wanted, FileBytes
<1> HIDE DEF m
<1>5. Len(Wanted(n, req)) = m
  <2> HIDE DEF o
  <2>1. Len(FileBytes(n, o, m)) = m
    BY <1>1, <1>3, FileBytesLemma
  <2> QED
    BY <1>4, <2>1
<1>6. o > Size[n] => c \in Int /\ c < 0 /\ m = 0
  BY <1>1, <1>2 DEF Cut
<1>7. o <= Size[n] => c \in Nat /\ c <= Size[n] - o /\ c = m
  BY <1>1, <1>2 DEF Cut
<1>8. o > Size[n] => Wanted(n, req) = <<>> /\ (Fits(n, req) <=> BlockNo(o) >= NumBlocks[n])
  BY <1>1, <1>4, <1>6, FileBytesLemma DEF Fits, BlockNo
<1>9. o <= Size[n] =>
        (Fits(n, req) <=> \/ o % BlockSize = 0 \/ c < BlockSize
                          \/ BlockSize - (o % BlockSize) <= c % BlockSize)
  <2> SUFFICES ASSUME o <= Size[n]
               PROVE  Fits(n, req) <=> \/ o % BlockSize = 0 \/ c < BlockSize
                                       \/ BlockSize - (o % BlockSize) <= c % BlockSize
    OBVIOUS
  <2>1. ~(o > Size[n])
    BY <1>1
  <2>2. Len(Wanted(n, req)) = c
    BY <1>5, <1>7
  <2> QED
    BY <2>1, <2>2 DEF Fits
<1> QED
  BY <1>1, <1>4, <1>6, <1>7, <1>8, <1>9

(* There is a block at the offset unless it is beyond the last one.        *)
LEMMA OffsetLemma ==
  ASSUME NEW n \in Files, NEW o \in Nat
  PROVE  /\ o \div BlockSize < NumBlocks[n] <=> o < NumBlocks[n] * BlockSize
         /\ o \div BlockSize \in Nat /\ NumBlocks[n] \in Nat
         /\ NumBlocks[n] * BlockSize \in Nat
         /\ o = (o \div BlockSize) * BlockSize + (o % BlockSize)
         /\ o % BlockSize \in 0..(BlockSize - 1)
         /\ Size[n] \in Nat /\ Size[n] <= NumBlocks[n] * BlockSize
         /\ Size[n] > (NumBlocks[n] - 1) * BlockSize
<1> DEFINE k == o \div BlockSize
           r == o % BlockSize
           m == NumBlocks[n]
<1>1. k \in Nat /\ r \in 0..(BlockSize - 1) /\ o = k * BlockSize + r /\ m \in Nat
      /\ BlockSize \in Nat \ {0}
  <2>1. o \in Int
    OBVIOUS
  <2>2. k \in Nat /\ r \in 0..(BlockSize - 1) /\ o = k * BlockSize + r
    BY <2>1, DivideLemma
  <2> QED
    BY <2>2, UcfsAssumption, WalkAssumption
<1> HIDE DEF k, r, m
<1>2. k < m => o < m * BlockSize
  <2>1. k < m => k * BlockSize + BlockSize <= m * BlockSize
    BY <1>1
  <2> QED
    BY <1>1, <2>1
<1>3. ~(k < m) => ~(o < m * BlockSize)
  <2>1. ~(k < m) => m * BlockSize <= k * BlockSize /\ m * BlockSize \in Nat
        /\ k * BlockSize \in Nat
    BY <1>1
  <2> QED
    BY <1>1, <2>1
<1>4. m * BlockSize \in Nat
  BY <1>1
<1> QED
  BY <1>1, <1>2, <1>3, <1>4, UcfsAssumption DEF k, r, m

(* The entry of an index, and its block.                                   *)
LEMMA IndexEntryLemma ==
  ASSUME NEW n \in Files, NEW k \in Nat
  PROVE  /\ Entry(IndexBlock(n), k) = None <=> ~(k < NumBlocks[n])
         /\ k < NumBlocks[n] => Entry(IndexBlock(n), k) = <<n, k + 1>>
<1>1. IndexBlock(n) \in IndexBlocks /\ IndexBlock(n)[1] = n
  BY DEF IndexBlock, IndexBlocks
<1>2. k < NumBlocks[n] => <<n, k + 1>> # None
  <2>1. k < NumBlocks[n] => k + 1 \in 0..NumBlocks[n]
    BY WalkAssumption
  <2> QED
    BY <2>1, WalkAssumption
<1>3. Entry(IndexBlock(n), k) = IF k < NumBlocks[n] THEN <<n, k + 1>> ELSE None
  BY <1>1 DEF Entry
<1> QED
  BY <1>2, <1>3

(* The number of a block of a file, or of the one after the last, is not   *)
(* cut to 8 bits.                                                          *)
LEMMA NumberLemma ==
  ASSUME NEW n \in Files, NEW k \in 0..NumBlocks[n]
  PROVE  /\ k % BlockMod = k
         /\ k < NumBlocks[n] => NextNo(k) = k + 1
<1>1. NumBlocks[n] \in Nat /\ NumBlocks[n] < BlockMod /\ BlockMod \in Nat \ {0}
  BY WalkAssumption, UcfsAssumption
<1>2. \A x \in 0..(BlockMod - 1) : x % BlockMod = x
  BY <1>1
<1>3. k \in 0..(BlockMod - 1) /\ (k < NumBlocks[n] => k + 1 \in 0..(BlockMod - 1))
  BY <1>1
<1> QED
  BY <1>2, <1>3 DEF NextNo

(* A part of a block of the file, by its place in the file.               *)
LEMMA DataBytesLemma ==
  ASSUME NEW n \in Files, NEW k \in 1..NumBlocks[n], NEW i \in Nat, NEW t \in Nat, NEW s \in Nat,
         s - i = (k - 1) * BlockSize
  PROVE  Bytes(<<n, k>>, i, t) = FileBytes(n, s, t)
<1>1. <<n, k>> \in DataBlocks
  <2>1. k \in 0..NumBlocks[n] /\ k # 0
    BY WalkAssumption
  <2>2. <<n, k>> \in Blocks /\ <<n, k>> \notin InodeTable /\ <<n, k>> \notin Dir /\ <<n, k>> # None
    BY <2>1, WalkAssumption DEF Blocks
  <2>3. ASSUME NEW f \in Dir \cup Files
        PROVE  BlockOf(f) # <<n, k>>
    <3>1. BlockOf(f) = f \/ BlockOf(f) = <<f, 0>>
      BY DEF BlockOf, IndexBlock
    <3>2. f \in Dir => BlockOf(f) = f
      BY WalkAssumption DEF BlockOf
    <3>3. f \notin Dir => BlockOf(f) = <<f, 0>>
      BY DEF BlockOf, IndexBlock
    <3> QED
      BY <2>1, <2>2, <3>2, <3>3
  <2> QED
    BY <2>2, <2>3 DEF DataBlocks, FirstBlock
<1>2. Bytes(<<n, k>>, i, t) = [j \in 1..t |-> <<n, (k - 1) * BlockSize + i + j - 1>>]
  BY <1>1 DEF Bytes, DataBlocks
<1>3. \A j \in 1..t : (k - 1) * BlockSize + i + j - 1 = s + j - 1
  <2> DEFINE x == (k - 1) * BlockSize
  <2>1. x \in Int /\ s - i = x
    BY UcfsAssumption
  <2> HIDE DEF x
  <2>2. \A j \in 1..t : x + i + j - 1 = s + j - 1
    BY <2>1
  <2> QED
    BY <2>2 DEF x
<1> QED
  BY <1>2, <1>3 DEF FileBytes

(* A block of the file is appended where the last one ended.               *)
LEMMA AppendBlockLemma ==
  ASSUME NEW n \in Files, NEW k \in 1..NumBlocks[n], NEW i \in Nat, NEW t \in Nat, NEW o \in Nat,
         NEW b, FromOffset(n, o, b), o + Len(b) - i = (k - 1) * BlockSize
  PROVE  /\ b \o Bytes(<<n, k>>, i, t) = FileBytes(n, o, Len(b) + t)
         /\ FromOffset(n, o, b \o Bytes(<<n, k>>, i, t))
<1> DEFINE more == Bytes(<<n, k>>, i, t)
<1>1. o + Len(b) \in Nat
  BY DEF FromOffset
<1>2. more = FileBytes(n, o + Len(b), t)
  BY <1>1, DataBytesLemma
<1>3. b \o FileBytes(n, o + Len(b), t) = FileBytes(n, o, Len(b) + t)
  BY LongerBytesLemma
<1> DEFINE x == Len(b) + t
<1>4. x \in Nat
  BY DEF FromOffset
<1>5. b \o more = FileBytes(n, o, x)
  BY <1>2, <1>3
<1> HIDE DEF x, more
<1>6. Len(FileBytes(n, o, x)) = x
  BY <1>4, FileBytesLemma
<1>7. FromOffset(n, o, b \o more)
  <2> DEFINE y == b \o more
  <2>1. y = FileBytes(n, o, x)
    BY <1>5
  <2> HIDE DEF y
  <2>2. FromOffset(n, o, y)
    BY <1>4, <1>6, <2>1 DEF FromOffset
  <2> QED
    BY <2>2 DEF y
<1> QED
  BY <1>5, <1>7 DEF more, x

\* what was copied are t bytes of the file from the offset on
Copied(n, o, t, b) == b = FileBytes(n, o, t) /\ FromOffset(n, o, b) /\ Len(b) = t

(* What is copied first are the bytes from the offset on.                  *)
LEMMA FirstBytesLemma ==
  ASSUME NEW n \in Files, NEW k \in 1..NumBlocks[n], NEW i \in Nat, NEW t \in Nat, NEW o \in Nat,
         o - i = (k - 1) * BlockSize, NEW b \in {<<>>}
  PROVE  Copied(n, o, t, b \o Bytes(<<n, k>>, i, t))
<1> DEFINE s == FileBytes(n, o, t)
           S == {<<n, j>> : j \in Nat}
<1>1. Bytes(<<n, k>>, i, t) = s
  BY DataBytesLemma
<1>2. s \in Seq(S)
  BY DEF FileBytes
<1>3. Len(s) = t
  BY FileBytesLemma
<1> HIDE DEF s, S
<1>4. <<>> \o s = s
  BY <1>2
<1>5. FromOffset(n, o, s)
  BY <1>3 DEF FromOffset, s
<1>6. Copied(n, o, t, s)
  BY <1>3, <1>5 DEF Copied, s
<1> QED
  BY <1>1, <1>4, <1>6

(* The index is copied: there is no block at the offset, or the call goes  *)
(* on with the first block, or with whole blocks.                          *)
LEMMA CopyIndexNumbers ==
  ASSUME NEW n, NEW req \in Requests, NEW c, NEW cur, NEW b,
         n \in Files, c = Cut(req.count, req.offset, Size[n]), req.offset <= Size[n],
         cur = req.offset \div BlockSize, b = <<>>, NEW place,
         place = IF Entry(IndexBlock(n), cur) = None THEN "returned"
                 ELSE IF req.offset % BlockSize # 0 THEN "head" ELSE "blocks"
  PROVE  WithinOK(n, req, place, c, cur, c \div BlockSize, b)
<1> DEFINE o == req.offset
           k == o \div BlockSize
           bo == o % BlockSize
           m == NumBlocks[n]
           B == BlockSize
           v == c \div BlockSize
<1>1. n \in Files /\ c = Cut(req.count, o, Size[n]) /\ cur = k /\ b = <<>> /\ o <= Size[n]
  OBVIOUS
<1>2. /\ o \in Nat /\ Size[n] \in Nat
      /\ o <= Size[n] => /\ c \in Nat /\ c <= Size[n] - o /\ Wanted(n, req) = FileBytes(n, o, c)
                         /\ Fits(n, req) <=> bo = 0 \/ c < B \/ B - bo <= c % B
  BY <1>1, WantedLemma
<1>3. /\ (k < m <=> o < m * B) /\ k \in Nat /\ m \in Nat /\ m * B \in Nat /\ o = k * B + bo
      /\ bo \in 0..(B - 1) /\ Size[n] <= m * B /\ Size[n] > (m - 1) * B /\ B \in Nat \ {0}
  BY <1>1, <1>2, OffsetLemma, UcfsAssumption
<1>4. c \in Int
  BY <1>2
<1>5. v \in Int /\ c % B \in 0..(B - 1) /\ c = v * B + (c % B) /\ (c \in Nat => v \in Nat)
  BY <1>4, DivideLemma
<1>6. Entry(IndexBlock(n), cur) = None <=> ~(k < m)
  BY <1>1, <1>3, IndexEntryLemma
<1> HIDE DEF o, k, bo, m, v
<1>7. CASE ~(k < m)
  <2>1. place = "returned" /\ o >= m * B
    BY <1>2, <1>3, <1>6, <1>7
  <2>2. Wanted(n, req) = <<>> /\ Fits(n, req)
    <3>1. c = 0 /\ B > 0
      BY <1>1, <1>2, <1>3, <2>1
    <3> QED
      BY <1>1, <1>2, <3>1, FileBytesLemma
  <2> QED
    BY <1>1, <2>1, <2>2 DEF WithinOK, o
<1>8. CASE k < m /\ bo # 0
  <2>1. place = "head"
    BY <1>6, <1>8 DEF bo, o
  <2> QED
    BY <1>1, <1>8, <2>1 DEF WithinOK, o, k, bo, m, v
<1>9. CASE k < m /\ bo = 0
  <2>1. place = "blocks"
    BY <1>6, <1>9 DEF bo, o
  <2>3. HeadOf(o) = 0
    BY <1>9 DEF HeadOf, bo
  <2>4. BlocksOK(n, o, c, cur, v, b)
    <3>1. Len(b) = 0 /\ b = FileBytes(n, o, Len(b)) /\ v * B \in Int
      BY <1>1, <1>2, <1>3, <1>5, FileBytesLemma, RestLemma
    <3>2. c \in Nat /\ v \in Nat /\ cur \in 0..(m - 1) /\ o + Len(b) = cur * B
      <4>1. c \in Nat /\ v \in Nat /\ cur \in 0..(m - 1)
        <5>1. c \in Nat /\ v \in Nat
          BY <1>1, <1>2, <1>5
        <5>2. cur \in 0..(m - 1)
          BY <1>1, <1>3, <1>9
        <5> QED
          BY <5>1, <5>2
      <4> DEFINE x == cur * B
      <4>2. o = x
        BY <1>1, <1>2, <1>3, <1>9
      <4> HIDE DEF x
      <4>3. o + Len(b) = x
        BY <1>2, <3>1, <4>2
      <4> QED
        BY <4>1, <4>3 DEF x
    <3>3. Len(b) + v * B + (c % B) = HeadOf(o) + c /\ HeadOf(o) <= c
      BY <1>5, <2>3, <3>1, <3>2
    <3> QED
      BY <3>1, <3>2, <3>3 DEF BlocksOK, FromOffset, m
  <2> QED
    BY <1>1, <2>1, <2>4 DEF WithinOK, o, v
<1> QED
  BY <1>3, <1>7, <1>8, <1>9

(* The numbers of a call after the cut.                                    *)
LEMMA NumbersLemma ==
  ASSUME NEW n \in Files, NEW req \in Requests, NEW c, c = Cut(req.count, req.offset, Size[n])
  PROVE  LET o == req.offset
             k == o \div BlockSize
             bo == o % BlockSize
             m == NumBlocks[n]
         IN  /\ o \in Nat /\ Size[n] \in Nat /\ c \in Int /\ k \in Nat /\ m \in Nat
             /\ m * BlockSize \in Nat /\ BlockSize \in Nat \ {0}
             /\ o = k * BlockSize + bo /\ bo \in 0..(BlockSize - 1)
             /\ k < m <=> o < m * BlockSize
             /\ Size[n] <= m * BlockSize /\ Size[n] > (m - 1) * BlockSize
             /\ c % BlockSize \in 0..(BlockSize - 1) /\ c \div BlockSize \in Int
             /\ c = (c \div BlockSize) * BlockSize + (c % BlockSize)
             /\ c \in Nat => c \div BlockSize \in Nat
<1> DEFINE o == req.offset
<1>1. /\ o \in Nat /\ c \in Int
  BY WantedLemma
<1>2. BlockSize \in Nat \ {0}
  BY UcfsAssumption
<1> HIDE DEF o
<1>3. /\ c % BlockSize \in 0..(BlockSize - 1) /\ c \div BlockSize \in Int
      /\ c = (c \div BlockSize) * BlockSize + (c % BlockSize)
      /\ c \in Nat => c \div BlockSize \in Nat
  BY <1>1, DivideLemma
<1>4. /\ (o \div BlockSize < NumBlocks[n] <=> o < NumBlocks[n] * BlockSize)
      /\ o \div BlockSize \in Nat /\ NumBlocks[n] \in Nat
      /\ NumBlocks[n] * BlockSize \in Nat
      /\ o = (o \div BlockSize) * BlockSize + (o % BlockSize)
      /\ o % BlockSize \in 0..(BlockSize - 1)
      /\ Size[n] \in Nat /\ Size[n] <= NumBlocks[n] * BlockSize
      /\ Size[n] > (NumBlocks[n] - 1) * BlockSize
  BY <1>1, OffsetLemma
<1> QED
  BY <1>1, <1>2, <1>3, <1>4 DEF o

(* When count is not negative, the offset is within the file.              *)
LEMMA FitsLemma ==
  ASSUME NEW n \in Files, NEW req \in Requests, NEW c \in Nat,
         c = Cut(req.count, req.offset, Size[n])
  PROVE  /\ req.offset <= Size[n] /\ c <= Size[n] - req.offset
         /\ Wanted(n, req) = FileBytes(n, req.offset, c)
         /\ Fits(n, req) <=> \/ req.offset % BlockSize = 0 \/ c < BlockSize
                             \/ BlockSize - (req.offset % BlockSize) <= c % BlockSize
         /\ c < BlockSize => c % BlockSize = c
<1>1. req.offset <= Size[n]
  BY WantedLemma
<1>2. BlockSize \in Nat \ {0}
  BY UcfsAssumption
<1>3. c < BlockSize => c % BlockSize = c
  BY <1>2
<1> QED
  BY <1>1, <1>3, WantedLemma

(* A product with a positive number is no smaller.                         *)
LEMMA ProductLemma ==
  ASSUME NEW x \in Nat \ {0}
  PROVE  x * BlockSize >= BlockSize
BY UcfsAssumption

(* The first bytes are copied.  A negative count is more than any buffer;  *)
(* at the end of the file all is copied.                                   *)
LEMMA CopyHeadNumbers ==
  ASSUME NEW n, NEW req \in Requests, NEW c, NEW cur, NEW w, NEW b,
         WithinOK(n, req, "copy_head", c, cur, w, b), NEW rest, NEW t, NEW place,
         rest = BlockSize - (req.offset % BlockSize),
         t = IF rest > c THEN c ELSE rest,
         place = IF Entry(IndexBlock(n), cur) = None THEN "returned" ELSE "blocks"
  PROVE  /\ t < 0 => WithinOK(n, req, "overrun", c, cur, w, b)
         /\ ~(t < 0) => WithinOK(n, req, place, c, cur, w,
                                  b \o Bytes(<<n, cur>>, req.offset % BlockSize, t))
<1> DEFINE o == req.offset
           k == o \div BlockSize
           bo == o % BlockSize
           m == NumBlocks[n]
           B == BlockSize
           more == b \o Bytes(<<n, cur>>, bo, t)
<1>1. /\ n \in Files /\ c = Cut(req.count, o, Size[n]) /\ cur = k + 1 /\ b = <<>>
      /\ k < m /\ bo # 0 /\ w = c \div B /\ o <= Size[n]
  BY DEF WithinOK
<1>2. /\ o <= Size[n] => /\ c \in Nat /\ c <= Size[n] - o /\ Wanted(n, req) = FileBytes(n, o, c)
                         /\ Fits(n, req) <=> bo = 0 \/ c < B \/ B - bo <= c % B
  BY <1>1, WantedLemma
<1>3. /\ o \in Nat /\ Size[n] \in Nat /\ c \in Int /\ k \in Nat /\ m \in Nat
      /\ B \in Nat \ {0} /\ bo \in 0..(B - 1) /\ c % B \in 0..(B - 1) /\ w \in Int
      /\ c \in Nat => w \in Nat
  BY <1>1, NumbersLemma
<1>3a. /\ o = k * B + bo /\ k * B \in Nat /\ m * B \in Nat /\ Size[n] <= m * B
       /\ k < m <=> o < m * B
       /\ c = w * B + (c % B)
  <2>1. /\ o = k * B + bo /\ m * B \in Nat /\ Size[n] <= m * B /\ (k < m <=> o < m * B)
        /\ c = w * B + (c % B)
    BY <1>1, NumbersLemma
  <2>2. k * B \in Nat
    BY <1>3
  <2> QED
    BY <2>1, <2>2
<1>4. rest = B - bo
  OBVIOUS
<1> HIDE DEF k, m, bo
<1>6. cur \in 1..m /\ cur \in Nat
  BY <1>1, <1>3
<1>7. Entry(IndexBlock(n), cur) = None <=> ~(cur < m)
  BY <1>1, <1>6, IndexEntryLemma DEF m
<1>8. t \in Nat => more = FileBytes(n, o, t) /\ FromOffset(n, o, more) /\ Len(more) = t
  <2>1. n \in Files /\ b = <<>> /\ bo \in Nat /\ cur \in 1..NumBlocks[n]
    BY <1>1, <1>3, <1>6 DEF m
  <2>2. o - bo = (cur - 1) * B
    <3>1. cur - 1 = k
      BY <1>1, <1>3
    <3> QED
      BY <1>3, <1>3a, <3>1
  <2> HIDE DEF o
  <2>3. t \in Nat => Copied(n, o, t, b \o Bytes(<<n, cur>>, bo, t))
    <3>1. b \in {<<>>} /\ cur \in 1..NumBlocks[n] /\ n \in Files /\ bo \in Nat /\ o \in Nat
      BY <1>3, <2>1
    <3> QED
      BY <2>2, <3>1, FirstBytesLemma
  <2> QED
    BY <2>3 DEF Copied
<1> HIDE DEF o, more
<1>10. CASE o <= Size[n]
  <2>1. t \in Nat /\ c \in Nat /\ ~(t < 0)
    BY <1>2, <1>3, <1>4, <1>10
  <2>1a. HeadOf(o) = rest
    BY <1>1, <1>4 DEF HeadOf, bo
  <2>2. WithinOK(n, req, place, c, cur, w, more)
    <3>1. CASE cur < m
      <4>1. place = "blocks"
        BY <1>7, <3>1
      <4>2. BlocksOK(n, o, c, cur, w, more)
        <5>1. /\ c \in Nat /\ cur \in 0..(m - 1) /\ w \in Nat /\ FromOffset(n, o, more)
              /\ Len(more) = t
          BY <1>3, <1>6, <1>8, <2>1, <3>1
        <5>2. CASE c < rest
          <6>1. t = c /\ c < B
            BY <1>3, <1>4, <2>1, <5>2
          <6>2. w = 0
            <7> DEFINE x == w * B
                       y == c % B
            <7>1. w # 0 => x >= B
              BY <5>1, ProductLemma
            <7>2. x \in Int
              BY <5>1, RestLemma
            <7>3. c = x + y
              BY <1>3a
            <7>4. y \in 0..(B - 1)
              BY <1>3
            <7> HIDE DEF x, y
            <7> QED
              BY <1>3, <6>1, <7>1, <7>2, <7>3, <7>4
          <6> QED
            BY <5>1, <6>1, <6>2 DEF BlocksOK, m
        <5>3. CASE ~(c < rest)
          <6>1. t = rest
            BY <1>3, <1>4, <2>1, <5>3
          <6>2. cur * B = k * B + B /\ w * B \in Nat
            <7>1. B \in Nat /\ k \in Nat /\ w \in Nat /\ cur = k + 1
              BY <1>1, <1>3, <5>1
            <7> QED
              BY <7>1
          <6>3. o + t = cur * B
            BY <1>3, <1>3a, <1>4, <6>1, <6>2
          <6>4. t + w * B + (c % B) = HeadOf(o) + c /\ HeadOf(o) <= c
            BY <1>3, <1>3a, <1>4, <2>1, <2>1a, <5>3, <6>1, <6>2
          <6> QED
            BY <5>1, <6>3, <6>4 DEF BlocksOK, m
        <5> QED
          BY <5>2, <5>3
      <4> QED
        BY <1>1, <4>1, <4>2 DEF WithinOK, o
    <3>2. CASE ~(cur < m)
      <4>1. place = "returned" /\ cur = m
        BY <1>3, <1>6, <1>7, <3>2
      <4>2. m * B = k * B + B
        <5>1. B \in Nat /\ k \in Nat /\ m = k + 1
          BY <1>1, <1>3, <4>1
        <5> QED
          BY <5>1
      <4>3. c <= rest /\ c < B
        <5>1. c <= Size[n] - o /\ bo # 0
          BY <1>1, <1>2, <1>10
        <5> QED
          BY <1>3, <1>3a, <1>4, <4>2, <5>1
      <4>4. t = c
        BY <1>3, <1>4, <2>1, <4>3
      <4>5. more = Wanted(n, req) /\ Fits(n, req)
        BY <1>2, <1>8, <1>10, <2>1, <4>3, <4>4
      <4> QED
        BY <1>1, <4>1, <4>5 DEF WithinOK, o
    <3> QED
      BY <3>1, <3>2
  <2> QED
    BY <2>1, <2>2 DEF more, bo, o
<1> QED
  BY <1>1, <1>10

(* A whole block is copied.  Reading too far shows only at the end: then   *)
(* the request does not fit.                                               *)
LEMMA WholeNumbers ==
  ASSUME NEW n, NEW req \in Requests, NEW c, NEW cur, NEW w, NEW b,
         WithinOK(n, req, "blocks", c, cur, w, b), w > 0, NEW place,
         place = IF Entry(IndexBlock(n), cur + 1) = None THEN "returned" ELSE "blocks"
  PROVE  WithinOK(n, req, place, c, cur + 1, w - 1, b \o Bytes(<<n, cur + 1>>, 0, BlockSize))
<1> DEFINE o == req.offset
           bo == o % BlockSize
           H == HeadOf(o)
           r == c % BlockSize
           m == NumBlocks[n]
           B == BlockSize
           l == Len(b)
           wB == w * B
           vB == (w - 1) * B
           cB == cur * B
           mB == m * B
           more == b \o Bytes(<<n, cur + 1>>, 0, B)
           L == Len(more)
<1>1. /\ n \in Files /\ c = Cut(req.count, o, Size[n]) /\ BlocksOK(n, o, c, cur, w, b)
      /\ o <= Size[n]
  BY DEF WithinOK
<1>2. /\ c \in Nat /\ cur \in 0..(m - 1) /\ w \in Nat \ {0} /\ l \in Nat /\ FromOffset(n, o, b)
      /\ H <= c /\ o + l = cB /\ l + wB + r = H + c
  BY <1>1 DEF BlocksOK, FromOffset
<1>3. /\ o \in Nat /\ Size[n] \in Nat /\ m \in Nat /\ mB \in Nat /\ B \in Nat \ {0}
      /\ bo \in 0..(B - 1) /\ r \in 0..(B - 1) /\ Size[n] <= mB
  BY <1>1, NumbersLemma
<1>4. H \in 0..(B - 1) /\ (bo = 0 <=> H = 0) /\ (bo # 0 => H = B - bo)
  BY <1>3 DEF HeadOf
<1>6. /\ o <= Size[n] /\ c <= Size[n] - o /\ Wanted(n, req) = FileBytes(n, o, c)
      /\ Fits(n, req) <=> bo = 0 \/ c < B \/ B - bo <= r
      /\ c < B => r = c
  <2>1. c \in Nat
    BY <1>2
  <2> QED
    BY <1>1, <2>1, FitsLemma
<1>7. /\ vB = wB - B /\ vB \in Nat /\ wB \in Nat /\ cB \in Nat /\ (cur + 1) * B = cB + B
      /\ cur + 1 = m => mB = cB + B
  <2>1. w \in Nat /\ w - 1 \in Nat /\ cur \in Nat /\ B \in Nat
    BY <1>2, <1>3
  <2> QED
    BY <2>1
<1>8. more = FileBytes(n, o, l + B) /\ FromOffset(n, o, more)
  <2>1. cur + 1 \in 1..m /\ (cur + 1) - 1 = cur
    BY <1>2, <1>3
  <2>2. o + l - 0 = ((cur + 1) - 1) * B
    BY <1>2, <1>3, <2>1
  <2> DEFINE k == cur + 1
  <2> HIDE DEF k, o
  <2>3. k \in 1..NumBlocks[n] /\ o + Len(b) - 0 = (k - 1) * BlockSize
    BY <2>1, <2>2 DEF k
  <2>4. /\ b \o Bytes(<<n, k>>, 0, B) = FileBytes(n, o, Len(b) + B)
        /\ FromOffset(n, o, b \o Bytes(<<n, k>>, 0, B))
    BY <1>1, <1>2, <1>3, <2>3, AppendBlockLemma
  <2> QED
    BY <2>4 DEF k
<1>9. Entry(IndexBlock(n), cur + 1) = None <=> ~(cur + 1 < m)
  <2>1. cur + 1 \in Nat
    BY <1>2
  <2> QED
    BY <1>1, <2>1, IndexEntryLemma
<1> HIDE DEF o, bo, H, r, m, l, wB, vB, cB, mB, more
<1>10. L = l + B /\ L \in Nat
  <2> DEFINE x == l + B
  <2>1. x \in Nat /\ more = FileBytes(n, o, x)
    BY <1>2, <1>3, <1>8
  <2> HIDE DEF x
  <2>2. Len(FileBytes(n, o, x)) = x
    BY <1>3, <2>1, FileBytesLemma
  <2> QED
    BY <2>1, <2>2 DEF x
<1> HIDE DEF L
<1>11. /\ o + L = cB + B /\ L + vB + r = H + c
  BY <1>2, <1>3, <1>4, <1>7, <1>10
<1>12. CASE cur + 1 < m
  <2>1. place = "blocks"
    BY <1>9, <1>12
  <2>2. cur + 1 \in 0..(m - 1) /\ w - 1 \in Nat
    BY <1>2, <1>3, <1>12
  <2>3. BlocksOK(n, o, c, cur + 1, w - 1, more)
    <3>1. o + L = (cur + 1) * B /\ L + (w - 1) * B + r = H + c
      BY <1>7, <1>11 DEF vB
    <3> QED
      BY <1>2, <1>8, <2>2, <3>1 DEF BlocksOK, L, H, m, r
  <2> QED
    BY <1>1, <2>1, <2>3 DEF WithinOK, o, more
<1>13. CASE ~(cur + 1 < m)
  <2>1. place = "returned"
    BY <1>9, <1>13
  <2>2. cur + 1 = m
    BY <1>2, <1>3, <1>13
  <2>3. L >= c
    BY <1>2, <1>3, <1>6, <1>7, <1>10, <1>11, <2>2
  <2>4. more = Wanted(n, req) <=> L = c
    <3>1. more = FileBytes(n, o, L)
      BY <1>8, <1>10
    <3>2. Len(FileBytes(n, o, c)) = c
      BY <1>2, <1>3, FileBytesLemma
    <3>3. L = c => more = FileBytes(n, o, c)
      BY <3>1
    <3>4. more = FileBytes(n, o, c) => L = c
      BY <3>2 DEF L
    <3> QED
      BY <1>6, <3>3, <3>4
  <2>5. L = c <=> Fits(n, req)
    <3>1. CASE L = c
      <4>1. vB + r = H
        BY <1>2, <1>3, <1>4, <1>7, <1>11, <3>1
      <4>2. vB = 0
        <5>1. w - 1 # 0 => vB >= B
          <6> DEFINE x == w - 1
          <6>1. x # 0 => x \in Nat \ {0}
            BY <1>2
          <6> HIDE DEF x
          <6>2. x # 0 => x * B >= B
            BY <6>1, ProductLemma
          <6> QED
            BY <6>2 DEF vB, x
        <5>2. w - 1 = 0 => vB = 0
          BY <1>3 DEF vB
        <5> QED
          BY <1>3, <1>4, <1>7, <4>1, <5>1, <5>2
      <4> QED
        BY <1>3, <1>4, <1>6, <3>1, <4>1, <4>2
    <3>2. CASE L # c
      <4>1. vB + r < H
        BY <1>2, <1>3, <1>4, <1>7, <1>10, <1>11, <2>3, <3>2
      <4>2. r < H /\ bo # 0
        BY <1>3, <1>4, <1>7, <4>1
      <4>3. ~(c < B)
        BY <1>2, <1>3, <1>4, <1>6, <4>2
      <4> QED
        BY <1>3, <1>4, <1>6, <3>2, <4>2, <4>3
    <3> QED
      BY <3>1, <3>2
  <2> QED
    BY <1>1, <2>1, <2>4, <2>5 DEF WithinOK, o, more
<1> QED
  BY <1>12, <1>13

(* All whole blocks are read: all is there, or the rest is less than a     *)
(* block, or negative.                                                     *)
LEMMA TailNumbers ==
  ASSUME NEW n, NEW req \in Requests, NEW c, NEW cur, NEW w, NEW b,
         WithinOK(n, req, "blocks", c, cur, w, b), w <= 0
  PROVE  /\ c = Len(b) => WithinOK(n, req, "returned", c, cur, w, b)
         /\ c # Len(b) => WithinOK(n, req, "copy_tail", c, cur + 1, w, b)
<1> DEFINE o == req.offset
           bo == o % BlockSize
           H == HeadOf(o)
           r == c % BlockSize
           m == NumBlocks[n]
           B == BlockSize
           l == Len(b)
<1>1. /\ n \in Files /\ c = Cut(req.count, o, Size[n]) /\ BlocksOK(n, o, c, cur, w, b)
      /\ o <= Size[n]
  BY DEF WithinOK
<1>2. /\ o \in Nat /\ Size[n] \in Nat /\ m \in Nat /\ B \in Nat \ {0}
      /\ bo \in 0..(B - 1) /\ r \in 0..(B - 1)
  BY <1>1, NumbersLemma
<1>3. /\ c \in Nat /\ cur \in 0..(m - 1) /\ w = 0 /\ l \in Nat /\ FromOffset(n, o, b)
      /\ \/ l = c /\ c < B
         \/ H <= c /\ o + l = cur * B /\ l + r = H + c
  <2>1. c \in Nat /\ cur \in 0..(m - 1) /\ w = 0 /\ l \in Nat /\ FromOffset(n, o, b)
    BY <1>1 DEF BlocksOK, FromOffset
  <2>2. w * B = 0
    BY <1>2, <2>1
  <2>3. \/ l = c /\ c < B
        \/ H <= c /\ o + l = cur * B /\ l + w * B + r = H + c
    BY <1>1 DEF BlocksOK
  <2> QED
    BY <1>2, <2>1, <2>2, <2>3
<1>4. H \in 0..(B - 1) /\ (bo = 0 <=> H = 0) /\ (bo # 0 => H = B - bo)
  BY <1>2 DEF HeadOf
<1>5. o <= Size[n] /\ Wanted(n, req) = FileBytes(n, o, c)
      /\ (Fits(n, req) <=> bo = 0 \/ c < B \/ B - bo <= r)
  BY <1>1, <1>3, FitsLemma
<1> HIDE DEF o, bo, H, r, m
<1>6. ASSUME c = l
      PROVE  WithinOK(n, req, "returned", c, cur, w, b)
  <2>1. b = Wanted(n, req)
    BY <1>3, <1>5, <1>6 DEF FromOffset
  <2>2. Fits(n, req)
    BY <1>2, <1>3, <1>4, <1>5, <1>6
  <2> QED
    BY <1>1, <2>1, <2>2 DEF WithinOK, o
<1>7. ASSUME c # l
      PROVE  WithinOK(n, req, "copy_tail", c, cur + 1, w, b)
  <2>1. cur + 1 \in 1..m /\ o + l = ((cur + 1) - 1) * B /\ H <= c /\ l + r = H + c
    <3>1. cur + 1 \in 1..m /\ (cur + 1) - 1 = cur
      BY <1>2, <1>3
    <3> QED
      BY <1>3, <1>7, <3>1
  <2>2. TailOK(n, o, c, cur + 1, b)
    BY <1>3, <1>7, <2>1 DEF TailOK, H, r, m
  <2> QED
    BY <1>1, <2>2 DEF WithinOK, o
<1> QED
  BY <1>6, <1>7

(* The rest is copied, or it is negative, when the first block gave more   *)
(* than what count leaves over.                                            *)
LEMMA CopyTailNumbers ==
  ASSUME NEW n, NEW req \in Requests, NEW c, NEW cur, NEW w, NEW b,
         WithinOK(n, req, "copy_tail", c, cur, w, b)
  PROVE  /\ c - Len(b) < 0 => WithinOK(n, req, "overrun", c, cur, w, b)
         /\ ~(c - Len(b) < 0) =>
              WithinOK(n, req, "returned", c, cur, w, b \o Bytes(<<n, cur>>, 0, c - Len(b)))
<1> DEFINE o == req.offset
           bo == o % BlockSize
           H == HeadOf(o)
           r == c % BlockSize
           m == NumBlocks[n]
           B == BlockSize
           l == Len(b)
           t == c - l
<1>1. /\ n \in Files /\ c = Cut(req.count, o, Size[n]) /\ TailOK(n, o, c, cur, b)
      /\ o <= Size[n]
  BY DEF WithinOK
<1>2. /\ o \in Nat /\ Size[n] \in Nat /\ m \in Nat /\ B \in Nat \ {0}
      /\ bo \in 0..(B - 1) /\ r \in 0..(B - 1)
  BY <1>1, NumbersLemma
<1>3. /\ c \in Nat /\ cur \in 1..m /\ l \in Nat /\ FromOffset(n, o, b) /\ l # c /\ H <= c
      /\ o + l = (cur - 1) * B /\ l + r = H + c
  BY <1>1 DEF TailOK, FromOffset
<1>4. H \in 0..(B - 1) /\ (bo = 0 <=> H = 0) /\ (bo # 0 => H = B - bo)
  BY <1>2 DEF HeadOf
<1>5. o <= Size[n] /\ Wanted(n, req) = FileBytes(n, o, c)
      /\ (Fits(n, req) <=> bo = 0 \/ c < B \/ B - bo <= r)
  BY <1>1, <1>3, FitsLemma
<1>6. c < B => r = c
  BY <1>1, <1>3, FitsLemma
<1> HIDE DEF o, bo, H, r, m
<1>7. ASSUME t < 0
      PROVE  WithinOK(n, req, "overrun", c, cur, w, b)
  <2>1. r < H /\ bo # 0
    BY <1>2, <1>3, <1>4, <1>7
  <2>2. ~(c < B)
    BY <1>2, <1>3, <1>4, <1>6, <2>1
  <2>3. ~Fits(n, req)
    BY <1>2, <1>4, <1>5, <2>1, <2>2
  <2> QED
    BY <1>1, <2>3 DEF WithinOK, o
<1>8. ASSUME ~(t < 0)
      PROVE  WithinOK(n, req, "returned", c, cur, w, b \o Bytes(<<n, cur>>, 0, t))
  <2>1. t \in Nat /\ H <= r /\ l + t = c
    BY <1>2, <1>3, <1>4, <1>8
  <2>2. o + Len(b) - 0 = (cur - 1) * BlockSize
    BY <1>2, <1>3
  <2> HIDE DEF t
  <2>3. b \o Bytes(<<n, cur>>, 0, t) = FileBytes(n, o, Len(b) + t)
    <3>1. n \in Files /\ cur \in 1..NumBlocks[n] /\ o \in Nat /\ FromOffset(n, o, b) /\ t \in Nat
      BY <1>1, <1>2, <1>3, <2>1 DEF m
    <3> QED
      BY <2>2, <3>1, AppendBlockLemma
  <2>4. b \o Bytes(<<n, cur>>, 0, t) = Wanted(n, req)
    BY <1>5, <2>1, <2>3
  <2>5. Fits(n, req)
    BY <1>2, <1>4, <1>5, <2>1
  <2> QED
    BY <1>1, <2>4, <2>5 DEF WithinOK, o
<1> QED
  BY <1>7, <1>8

(* What is said of a read stays true as long as nothing of it changes.     *)
LEMMA OthersReadLemma ==
  ASSUME NEW q \in Proc, ReadOK(q), misread => misread',
         reading'[q] = reading[q], request'[q] = request[q], count'[q] = count[q],
         begun'[q] = begun[q], current'[q] = current[q], whole'[q] = whole[q],
         buff'[q] = buff[q],
         reading[q] # "no" => /\ at'[q] = at[q] /\ base'[q] = base[q]
                              /\ ~misread' => cache'[base[q]] = cache[base[q]]
  PROVE  ReadOK(q)'
BY DEF ReadOK, FileOf

(* A step of a walk leaves the other processes where they stand, on inodes *)
(* that are ready: it writes only one that is not.                         *)
LEMMA StepFrameLemma ==
  ASSUME WalkInv, NEW p \in Proc, Step(p), NEW q \in Proc \ {p}
  PROVE  /\ at'[q] = at[q] /\ base'[q] = base[q]
         /\ misread => misread'
         /\ ~misread => cache'[base[q]] = cache[base[q]]
<1>1. /\ WalkTypes /\ MakingOK(p) /\ PlaceOK(p) /\ base[q] \in 1..Len(cache)
      /\ cache \in Seq(Inode) /\ (~misread => cache[base[q]].ready)
  BY DEF WalkInv, WalkTypes, StandsOK
<1>2. \E place : at' = [at EXCEPT ![p] = place]
  BY DEF Step, ReadDentry, ReadHit, ReadBlock, ScanBlock, InsertKeys, InsertName, SnapCache,
     SearchHits, SearchMisses, ReadInodes, Alloc, AllocFails, FillUcfs, FillDevfs, FinishDevfs,
     FailDevfs, Go, Arrive
<1>3. base' = base \/ \E object : base' = [base EXCEPT ![p] = object]
  BY DEF Step, ReadDentry, ReadHit, ReadBlock, ScanBlock, InsertKeys, InsertName, SnapCache,
     SearchHits, SearchMisses, ReadInodes, Alloc, AllocFails, FillUcfs, FillDevfs, FinishDevfs,
     FailDevfs, Arrive
<1>4. misread => misread'
  BY DEF Step, ReadDentry, ReadHit, ReadBlock, ScanBlock, InsertKeys, InsertName, SnapCache,
     SearchHits, SearchMisses, ReadInodes, Alloc, AllocFails, FillUcfs, FillDevfs, FinishDevfs,
     FailDevfs
<1>5. ~misread => cache'[base[q]] = cache[base[q]]
  <2>1. CASE Alloc(p)
    <3> DEFINE new == [ino |-> None, block |-> None, ready |-> FALSE]
    <3>1. cache' = Append(cache, new) /\ new \in Inode
      BY <2>1 DEF Alloc, Inode, FirstBlock
    <3> QED
      BY <1>1, <3>1, AppendProperties
  <2>2. CASE FillUcfs(p) \/ FillDevfs(p) \/ FinishDevfs(p)
    <3>1. \E i : cache' = [cache EXCEPT ![aux[p]] = i]
      BY <2>2 DEF FillUcfs, FillDevfs, FinishDevfs
    <3>2. ~cache[aux[p]].ready
      BY <1>1, <2>2 DEF MakingOK, Making, FillUcfs, FillDevfs, FinishDevfs
    <3> QED
      BY <1>1, <3>1, <3>2
  <2>3. CASE ~(Alloc(p) \/ FillUcfs(p) \/ FillDevfs(p) \/ FinishDevfs(p))
    BY <2>3 DEF Step, ReadDentry, ReadHit, ReadBlock, ScanBlock, InsertKeys, InsertName, SnapCache,
       SearchHits, SearchMisses, ReadInodes, AllocFails, FailDevfs, shared
  <2> QED
    BY <2>1, <2>2, <2>3
<1> QED
  BY <1>1, <1>2, <1>3, <1>4, <1>5 DEF WalkTypes

(* A walk disturbs no read: one who reads does not walk.                   *)
LEMMA WalkReads ==
  ASSUME WalkInv, ReadInv, NEW p \in Proc, Step(p), UNCHANGED readVars
  PROVE  ReadInv'
<1>1. at[p] # "done"
  BY DEF Step, ReadDentry, ReadHit, ReadBlock, ScanBlock, InsertKeys, InsertName, SnapCache,
     SearchHits, SearchMisses, ReadInodes, Alloc, AllocFails, FillUcfs, FillDevfs, FinishDevfs,
     FailDevfs
<1>2. ASSUME NEW q \in Proc
      PROVE  ReadOK(q)'
  <2>1. ReadOK(q)
    BY DEF ReadInv
  <2>2. CASE q = p
    BY <1>1, <2>1, <2>2 DEF ReadOK, readVars
  <2>3. CASE q # p
    <3>1. /\ at'[q] = at[q] /\ base'[q] = base[q] /\ (misread => misread')
          /\ ~misread => cache'[base[q]] = cache[base[q]]
      BY <2>3, StepFrameLemma
    <3> QED
      BY <2>1, <3>1, OthersReadLemma DEF readVars
  <2> QED
    BY <2>2, <2>3
<1> QED
  BY <1>2 DEF ReadInv

(* A walk begins when nothing is read.                                     *)
LEMMA BeginReads ==
  ASSUME WalkInv, ReadTypes, ReadInv, NEW p \in Proc, Begin(p), Goto(p, "no"),
         buff' = [buff EXCEPT ![p] = <<>>], UNCHANGED <<indirect, request, begun, count, current, whole>>
  PROVE  ReadInv'
<1>1. ASSUME NEW q \in Proc
      PROVE  ReadOK(q)'
  <2>1. ReadOK(q)
    BY DEF ReadInv
  <2>2. CASE q = p
    BY <2>2 DEF ReadOK, Goto, ReadTypes
  <2>3. CASE q # p
    <3>1. at'[q] = at[q] /\ base'[q] = base[q] /\ UNCHANGED <<cache, misread>>
      BY <2>3 DEF Begin, Walk, Go, shared, WalkInv, WalkTypes
    <3>2. reading'[q] = reading[q] /\ buff'[q] = buff[q]
      BY <2>3 DEF Goto, ReadTypes
    <3> QED
      BY <2>1, <3>1, <3>2, OthersReadLemma
  <2> QED
    BY <2>2, <2>3
<1> QED
  BY <1>1 DEF ReadInv

(* A step of a read disturbs no other.                                     *)
LEMMA OneReads ==
  ASSUME ReadInv, NEW p \in Proc, UNCHANGED <<cache, local>>, misread => misread',
         \A q \in Proc \ {p} :
           /\ reading'[q] = reading[q] /\ request'[q] = request[q] /\ count'[q] = count[q]
           /\ begun'[q] = begun[q] /\ current'[q] = current[q] /\ whole'[q] = whole[q]
           /\ buff'[q] = buff[q],
         ReadOK(p)'
  PROVE  ReadInv'
<1>1. ASSUME NEW q \in Proc \ {p}
      PROVE  ReadOK(q)'
  <2>1. ReadOK(q)
    BY DEF ReadInv
  <2>2. at'[q] = at[q] /\ base'[q] = base[q] /\ cache'[base[q]] = cache[base[q]]
    BY DEF local
  <2> QED
    BY <2>1, <2>2, OthersReadLemma
<1> QED
  BY <1>1 DEF ReadInv

(* The inode of a file that is read has the index of that file.            *)
LEMMA IndexOfFile ==
  ASSUME WalkInv, ~misread, NEW p \in Proc, FileOf(p) \in Files
  PROVE  cache[base[p]].block = IndexBlock(FileOf(p))
<1>1. base[p] \in DOMAIN cache /\ cache[base[p]].ready
  BY DEF WalkInv, WalkTypes, StandsOK
<1>2. cache[base[p]].block = BlockOf(FileOf(p))
  BY <1>1 DEF WalkInv, ReadyInv, FileOf
<1> QED
  BY <1>2, WalkAssumption DEF BlockOf

(* The state of a read in the middle of it.  Undisturbed: no process has   *)
(* used a buffer of another, and the offset is where it was.               *)
Undisturbed(p) == ~misread /\ begun[p] = request[p].offset

LEMMA DuringRead ==
  ASSUME TypesInv, ReadInv, NEW p \in Proc, reading[p] # "no"
  PROVE  /\ at[p] = "done" /\ request[p] \in Requests /\ ReadTypes
         /\ reading[p] \in {"index", "copy"} => begun[p] = request[p].offset
         /\ Undisturbed(p) => ReadingOK(FileOf(p), request[p], reading[p], count[p], current[p],
                                        whole[p], buff[p])
<1>1. ReadOK(p)
  BY DEF ReadInv
<1> QED
  BY <1>1 DEF TypesInv, RestOK, ReadOK, Undisturbed

(* An offset beyond the end makes count negative, and the number of whole  *)
(* blocks as well.                                                         *)
LEMMA BeyondLemma ==
  ASSUME NEW n \in Files, NEW req \in Requests, NEW c, c = Cut(req.count, req.offset, Size[n]),
         req.offset > Size[n]
  PROVE  /\ c \in Int /\ c < 0 /\ c \div BlockSize < 0 /\ Wanted(n, req) = <<>>
         /\ Fits(n, req) <=> BlockNo(req.offset) >= NumBlocks[n]
<1> DEFINE v == c \div BlockSize
           r == c % BlockSize
<1>1. /\ c \in Int /\ c < 0 /\ Wanted(n, req) = <<>>
      /\ Fits(n, req) <=> BlockNo(req.offset) >= NumBlocks[n]
  BY WantedLemma
<1>2. v \in Int /\ r \in 0..(BlockSize - 1) /\ c = v * BlockSize + r
  BY <1>1, DivideLemma
<1> HIDE DEF v, r
<1>3. ~(v < 0) => v * BlockSize \in Nat
  BY <1>2, UcfsAssumption
<1>4. v < 0
  BY <1>1, <1>2, <1>3
<1> QED
  BY <1>1, <1>4 DEF v

(* The offset is within the file or beyond its end.                        *)
LEMMA EitherLemma ==
  ASSUME NEW n \in Files, NEW req \in Requests
  PROVE  (req.offset > Size[n]) <=> ~(req.offset <= Size[n])
BY UcfsAssumption

(* Within the file the number of the block is that of one of its blocks,   *)
(* or the one after the last.                                              *)
LEMMA WithinLemma ==
  ASSUME NEW n \in Files, NEW req \in Requests, req.offset <= Size[n]
  PROVE  req.offset \div BlockSize \in 0..NumBlocks[n]
<1> DEFINE o == req.offset
           k == o \div BlockSize
           r == o % BlockSize
           m == NumBlocks[n]
           B == BlockSize
<1>1. o \in Nat
  BY UcfsAssumption
<1>2. /\ k \in Nat /\ m \in Nat /\ o = k * B + r /\ r \in 0..(B - 1) /\ B \in Nat \ {0}
      /\ o <= m * B
  <2> DEFINE x == m * B
             size == Size[n]
  <2>1. /\ k \in Nat /\ m \in Nat /\ o = k * B + r /\ r \in 0..(B - 1) /\ x \in Nat
        /\ size \in Nat /\ size <= x /\ B \in Nat \ {0} /\ o <= size
    BY <1>1, OffsetLemma, UcfsAssumption
  <2> HIDE DEF x, size
  <2>2. o <= x
    BY <1>1, <2>1
  <2> QED
    BY <2>1, <2>2 DEF x
<1> HIDE DEF o, k, r, m
<1>3. ~(k <= m) => k * B >= m * B + B /\ k * B \in Nat /\ m * B \in Nat
  BY <1>2
<1>4. k <= m
  BY <1>1, <1>2, <1>3
<1> QED
  BY <1>2, <1>4 DEF k, o, m

-----------------------------------------------------------------------------
(* The call of read, and the block of the index.                           *)
LEMMA ReadReads ==
  ASSUME TypesInv, ReadInv, NEW p \in Proc,
         ReadIndex(p) \/ \E req \in Requests : Read(p, req)
  PROVE  ReadInv'
<1>1. ReadTypes /\ UNCHANGED <<cache, local, misread>>
  BY DEF TypesInv, ReadIndex, Read, shared
<1>2. CASE ReadIndex(p)
  <2>1. /\ reading[p] = "index" /\ reading' = [reading EXCEPT ![p] = "copy"]
        /\ UNCHANGED <<request, begun, count, current, whole, buff>>
    BY <1>2 DEF ReadIndex, Goto
  <2>2. /\ at[p] = "done" /\ begun[p] = request[p].offset
        /\ Undisturbed(p) => ReadingOK(FileOf(p), request[p], "index", count[p], current[p],
                                       whole[p], buff[p])
    BY <2>1, DuringRead
  <2>3. ReadOK(p)'
    BY <1>1, <2>1, <2>2 DEF ReadOK, ReadingOK, Undisturbed, FileOf, ReadTypes, local
  <2> QED
    BY <1>1, <2>1, <2>3, OneReads DEF ReadTypes
<1>3. CASE \E req \in Requests : Read(p, req)
  <2>1. PICK req \in Requests : Read(p, req)
    BY <1>3
  <2>2. /\ at[p] = "done" /\ FileOf(p) \in Files
        /\ reading' = [reading EXCEPT ![p] = "index"]
        /\ request' = [request EXCEPT ![p] = req]
        /\ count' = [count EXCEPT ![p] = Cut(req.count, req.offset, Size[FileOf(p)])]
        /\ begun' = [begun EXCEPT ![p] = req.offset]
        /\ current' = [current EXCEPT ![p] = 0]
        /\ whole' = [whole EXCEPT ![p] = 0]
        /\ buff' = [buff EXCEPT ![p] = <<>>]
    BY <2>1 DEF Read, Goto
  <2>3. ReadOK(p)'
    BY <1>1, <2>2 DEF ReadOK, ReadingOK, FileOf, ReadTypes, local
  <2> QED
    BY <1>1, <2>2, <2>3, OneReads DEF ReadTypes
<1> QED
  BY <1>2, <1>3

(* The index is copied, and the offset is read again.                      *)
LEMMA CopyIndexReads ==
  ASSUME WalkInv, TypesInv, ReadInv, NEW p \in Proc, CopyIndex(p)
  PROVE  ReadInv'
<1> DEFINE n == FileOf(p)
           req == request[p]
           w == count[p] \div BlockSize
<1>1. /\ reading[p] = "copy" /\ UNCHANGED <<cache, local, request, count, buff>>
      /\ misread' = (misread \/ scratch # cache[base[p]].block)
      /\ whole' = [whole EXCEPT ![p] = w]
  BY DEF CopyIndex, shared
<1>2. PICK offset \in Offsets :
        /\ begun' = [begun EXCEPT ![p] = offset]
        /\ current' = [current EXCEPT ![p] = BlockNo(offset)]
        /\ reading' = [reading EXCEPT ![p] =
             IF Entry(scratch, BlockNo(offset)) = None THEN "returned"
             ELSE IF offset % BlockSize # 0 THEN "head" ELSE "blocks"]
  BY DEF CopyIndex, Goto
<1> DEFINE k == BlockNo(offset)
           place == IF Entry(scratch, k) = None THEN "returned"
                    ELSE IF offset % BlockSize # 0 THEN "head" ELSE "blocks"
<1>3. /\ at[p] = "done" /\ req \in Requests /\ ReadTypes /\ begun[p] = req.offset
      /\ Undisturbed(p) => ReadingOK(n, req, "copy", count[p], current[p], whole[p], buff[p])
  BY <1>1, DuringRead
<1>4. ASSUME ~misread', offset = req.offset
      PROVE  ReadingOK(n, req, place, count[p], k, w, buff[p])
  <2>1. ~misread /\ scratch = cache[base[p]].block
    BY <1>1, <1>4
  <2>2. n \in Files /\ count[p] = Cut(req.count, req.offset, Size[n]) /\ buff[p] = <<>>
    BY <1>3, <2>1 DEF ReadingOK, Undisturbed
  <2>3. scratch = IndexBlock(n)
    BY <2>1, <2>2, IndexOfFile
  <2>4. place = IF Entry(IndexBlock(n), k) = None THEN "returned"
                ELSE IF req.offset % BlockSize # 0 THEN "head" ELSE "blocks"
    BY <1>4, <2>3
  <2>5. k \in Nat /\ NumBlocks[n] \in Nat
    <3> DEFINE x == req.offset \div BlockSize
    <3>1. req.offset \in Nat /\ req.offset \in Int
      BY <1>3, UcfsAssumption
    <3>2. x \in Nat
      BY <3>1, DivideLemma
    <3>3. k = x % BlockMod
      BY <1>4 DEF BlockNo
    <3> HIDE DEF x, k
    <3>4. k \in Nat
      BY <3>2, <3>3, UcfsAssumption
    <3> QED
      BY <2>2, <3>4, WalkAssumption
  <2>6. Entry(IndexBlock(n), k) = None <=> ~(k < NumBlocks[n])
    BY <2>2, <2>5, IndexEntryLemma
  <2>7. CASE req.offset > Size[n]
    <3>1. w < 0 /\ (Fits(n, req) <=> k >= NumBlocks[n])
      BY <1>3, <1>4, <2>2, <2>7, BeyondLemma
    <3>2. BeyondOK(n, req, place, w, buff[p])
      BY <2>2, <2>4, <2>5, <2>6, <3>1 DEF BeyondOK
    <3> QED
      BY <2>2, <2>4, <2>7, <3>2 DEF ReadingOK
  <2>8. CASE ~(req.offset > Size[n])
    <3>1. req.offset <= Size[n]
      BY <1>3, <2>2, <2>8, EitherLemma
    <3>2. k = req.offset \div BlockSize
      <4> DEFINE x == req.offset \div BlockSize
      <4>1. x \in 0..NumBlocks[n]
        BY <1>3, <2>2, <3>1, WithinLemma
      <4>2. x % BlockMod = x
        BY <2>2, <4>1, NumberLemma
      <4> QED
        BY <1>4, <4>2 DEF BlockNo
    <3> HIDE DEF n, req, k, place
    <3>3. WithinOK(n, req, place, count[p], k, count[p] \div BlockSize, buff[p])
      BY <1>3, <2>2, <2>4, <3>1, <3>2, CopyIndexNumbers
    <3> QED
      BY <2>2, <2>4, <2>8, <3>3 DEF ReadingOK
  <2> QED
    BY <2>7, <2>8
<1> HIDE DEF place, w, k
<1>5. ReadOK(p)'
  <2>1. /\ reading'[p] = place /\ whole'[p] = w /\ FileOf(p)' = n /\ at'[p] = "done"
        /\ begun'[p] = offset /\ current'[p] = k /\ UNCHANGED <<request, count, buff>>
    BY <1>1, <1>2, <1>3 DEF ReadTypes, local, FileOf, place, k
  <2>2. place \notin {"index", "copy"}
    BY DEF place
  <2> HIDE DEF n
  <2> QED
    BY <1>4, <2>1, <2>2 DEF ReadOK
<1>6. \A q \in Proc \ {p} :
        /\ reading'[q] = reading[q] /\ begun'[q] = begun[q] /\ current'[q] = current[q]
        /\ whole'[q] = whole[q]
  BY <1>1, <1>2, <1>3 DEF ReadTypes
<1> QED
  BY <1>1, <1>5, <1>6, OneReads

(* The block with the first bytes is read.                                 *)
LEMMA ReadHeadReads ==
  ASSUME WalkInv, TypesInv, ReadInv, NEW p \in Proc, ReadHead(p)
  PROVE  ReadInv'
<1> DEFINE n == FileOf(p)
           req == request[p]
           k == NextNo(current[p])
<1>1. /\ reading[p] = "head" /\ UNCHANGED <<cache, local, request, begun, count, whole, buff>>
      /\ misread => misread'
      /\ reading' = [reading EXCEPT ![p] = "copy_head"]
      /\ current' = [current EXCEPT ![p] = k]
  BY DEF ReadHead, UseIndex, Goto
<1>2. /\ at[p] = "done" /\ req \in Requests /\ ReadTypes
      /\ Undisturbed(p) => ReadingOK(n, req, "head", count[p], current[p], whole[p], buff[p])
  BY <1>1, DuringRead
<1>3. ASSUME ~misread', begun[p] = req.offset
      PROVE  ReadingOK(n, req, "copy_head", count[p], k, whole[p], buff[p])
  <2>1. ReadingOK(n, req, "head", count[p], current[p], whole[p], buff[p])
    BY <1>1, <1>2, <1>3 DEF Undisturbed
  <2>2. CASE req.offset > Size[n]
    BY <2>1, <2>2 DEF ReadingOK, BeyondOK
  <2>3. CASE ~(req.offset > Size[n])
    <3>1. WithinOK(n, req, "head", count[p], current[p], whole[p], buff[p])
      BY <2>1, <2>3 DEF ReadingOK
    <3>2. n \in Files /\ current[p] = req.offset \div BlockSize /\ current[p] < NumBlocks[n]
      BY <3>1 DEF WithinOK
    <3>3. current[p] \in 0..NumBlocks[n]
      BY <1>2, <3>2, WalkAssumption DEF ReadTypes
    <3>4. k = current[p] + 1
      BY <3>2, <3>3, NumberLemma
    <3>5. WithinOK(n, req, "copy_head", count[p], k, whole[p], buff[p])
      BY <3>1, <3>4 DEF WithinOK
    <3> QED
      BY <2>1, <2>3, <3>5 DEF ReadingOK
  <2> QED
    BY <2>2, <2>3
<1> HIDE DEF k
<1>4. ReadOK(p)'
  <2>1. /\ reading'[p] = "copy_head" /\ current'[p] = k /\ FileOf(p)' = n /\ at'[p] = "done"
        /\ UNCHANGED <<request, begun, count, whole, buff>>
    BY <1>1, <1>2 DEF ReadTypes, local, FileOf
  <2> HIDE DEF n
  <2> QED
    BY <1>3, <2>1 DEF ReadOK
<1> QED
  BY <1>1, <1>2, <1>4, OneReads DEF ReadTypes

(* The first bytes are copied.                                             *)
LEMMA CopyHeadReads ==
  ASSUME WalkInv, TypesInv, ReadInv, NEW p \in Proc, CopyHead(p)
  PROVE  ReadInv'
<1> DEFINE n == FileOf(p)
           req == request[p]
           i == begun[p] % BlockSize
           rest == BlockSize - i
           t == IF rest > count[p] THEN count[p] ELSE rest
           next == IF Entry(indirect, current[p]) = None THEN "returned" ELSE "blocks"
           place == IF t < 0 THEN "overrun" ELSE next
           b == IF t < 0 THEN buff[p] ELSE buff[p] \o Bytes(scratch, i, t)
<1>1. /\ reading[p] = "copy_head"
      /\ UNCHANGED <<cache, local, request, begun, count, current, whole>>
      /\ misread' = (misread \/ indirect # cache[base[p]].block \/ scratch # JustRead(p))
  BY DEF CopyHead, shared
<1>2. /\ t < 0 => reading' = [reading EXCEPT ![p] = "overrun"] /\ buff' = buff
      /\ ~(t < 0) => /\ reading' = [reading EXCEPT ![p] = next]
                     /\ buff' = [buff EXCEPT ![p] = buff[p] \o Bytes(scratch, i, t)]
  BY DEF CopyHead, Goto, DataBlock, ByteOffset
<1>3. /\ at[p] = "done" /\ req \in Requests /\ ReadTypes
      /\ Undisturbed(p) => ReadingOK(n, req, "copy_head", count[p], current[p], whole[p], buff[p])
  BY <1>1, DuringRead
<1>4. ASSUME ~misread', begun[p] = req.offset
      PROVE  ReadingOK(n, req, place, count[p], current[p], whole[p], b)
  <2>1. /\ ~misread /\ indirect = cache[base[p]].block /\ scratch = <<n, current[p]>>
        /\ ReadingOK(n, req, "copy_head", count[p], current[p], whole[p], buff[p])
    BY <1>1, <1>3, <1>4 DEF Undisturbed, JustRead
  <2>2. n \in Files /\ count[p] = Cut(req.count, req.offset, Size[n])
    BY <2>1 DEF ReadingOK
  <2>3. CASE req.offset > Size[n]
    <3>1. BeyondOK(n, req, "copy_head", whole[p], buff[p])
      BY <2>1, <2>3 DEF ReadingOK
    <3>2. count[p] \in Int /\ count[p] < 0
      BY <1>3, <2>2, <2>3, BeyondLemma
    <3>3. rest \in Int
      BY <1>3, UcfsAssumption DEF ReadTypes
    <3>4. t < 0
      BY <3>2, <3>3
    <3>5. BeyondOK(n, req, "overrun", whole[p], buff[p])
      BY <3>1 DEF BeyondOK
    <3> QED
      BY <2>2, <2>3, <3>4, <3>5 DEF ReadingOK
  <2>4. CASE ~(req.offset > Size[n])
    <3>1. WithinOK(n, req, "copy_head", count[p], current[p], whole[p], buff[p])
      BY <2>1, <2>4 DEF ReadingOK
    <3>2. indirect = IndexBlock(n)
      BY <2>1, <2>2, IndexOfFile
    <3>3. next = IF Entry(IndexBlock(n), current[p]) = None THEN "returned" ELSE "blocks"
      BY <3>2
    <3>4. i = req.offset % BlockSize
      BY <1>4
    <3>5. rest = BlockSize - (req.offset % BlockSize) /\ t = IF rest > count[p] THEN count[p] ELSE rest
      BY <3>4
    <3> HIDE DEF n, req, next, i, rest, t
    <3>6. /\ t < 0 => WithinOK(n, req, "overrun", count[p], current[p], whole[p], buff[p])
          /\ ~(t < 0) => WithinOK(n, req, next, count[p], current[p], whole[p],
                                  buff[p] \o Bytes(<<n, current[p]>>, req.offset % BlockSize, t))
      BY <1>3, <3>1, <3>3, <3>5, CopyHeadNumbers
    <3>7. WithinOK(n, req, place, count[p], current[p], whole[p], b)
      BY <2>1, <3>4, <3>6
    <3>8. place \notin {"index", "copy"}
      BY DEF next
    <3> HIDE DEF place, b
    <3> QED
      BY <2>2, <2>4, <3>7, <3>8 DEF ReadingOK
  <2> QED
    BY <2>3, <2>4
<1> HIDE DEF t, i, next
<1>5. /\ reading' = [reading EXCEPT ![p] = place] /\ place \in {"overrun", "returned", "blocks"}
      /\ \A q \in Proc \ {p} : buff'[q] = buff[q]
      /\ buff'[p] = b
  BY <1>2, <1>3 DEF ReadTypes, next
<1> HIDE DEF place, b
<1>6. ReadOK(p)'
  <2>1. /\ reading'[p] = place /\ FileOf(p)' = n /\ at'[p] = "done"
        /\ UNCHANGED <<request, begun, count, current, whole>>
    BY <1>1, <1>3, <1>5 DEF ReadTypes, local, FileOf
  <2> HIDE DEF n
  <2> QED
    BY <1>4, <1>5, <2>1 DEF ReadOK
<1> QED
  BY <1>1, <1>3, <1>5, <1>6, OneReads DEF ReadTypes

(* A whole block is copied.                                                *)
LEMMA ReadWholeReads ==
  ASSUME WalkInv, TypesInv, ReadInv, NEW p \in Proc, ReadWhole(p)
  PROVE  ReadInv'
<1> DEFINE n == FileOf(p)
           req == request[p]
           k == NextNo(current[p])
           w == whole[p] - 1
           place == IF Entry(indirect, k) = None THEN "returned" ELSE "blocks"
           b == buff[p] \o Bytes(Entry(indirect, current[p]), 0, BlockSize)
<1>1. /\ reading[p] = "blocks" /\ whole[p] > 0
      /\ UNCHANGED <<cache, local, request, begun, count>>
      /\ misread' = (misread \/ indirect # cache[base[p]].block)
      /\ reading' = [reading EXCEPT ![p] = place]
      /\ current' = [current EXCEPT ![p] = k] /\ whole' = [whole EXCEPT ![p] = w]
      /\ buff' = [buff EXCEPT ![p] = b]
  BY DEF ReadWhole, UseIndex, shared, Goto, DataBlock
<1>2. /\ at[p] = "done" /\ req \in Requests /\ ReadTypes
      /\ Undisturbed(p) => ReadingOK(n, req, "blocks", count[p], current[p], whole[p], buff[p])
  BY <1>1, DuringRead
<1>3. ASSUME ~misread', begun[p] = req.offset
      PROVE  ReadingOK(n, req, place, count[p], k, w, b)
  <2>1. ~misread /\ ReadingOK(n, req, "blocks", count[p], current[p], whole[p], buff[p])
    BY <1>1, <1>2, <1>3 DEF Undisturbed
  <2>2. whole[p] \in Int
    BY <1>2 DEF ReadTypes
  <2>3. ~(req.offset > Size[n])
    <3>1. req.offset > Size[n] => whole[p] < 0
      BY <2>1 DEF ReadingOK, BeyondOK
    <3> QED
      BY <1>1, <2>2, <3>1
  <2>4. WithinOK(n, req, "blocks", count[p], current[p], whole[p], buff[p]) /\ n \in Files
    BY <2>1, <2>3 DEF ReadingOK
  <2>5. indirect = IndexBlock(n)
    BY <1>1, <1>3, <2>1, <2>4, IndexOfFile
  <2>6. current[p] \in 0..NumBlocks[n] /\ current[p] \in Nat /\ current[p] < NumBlocks[n]
    <3>1. current[p] \in 0..(NumBlocks[n] - 1) /\ NumBlocks[n] \in Nat
      BY <2>4, WalkAssumption DEF WithinOK, BlocksOK
    <3> QED
      BY <3>1
  <2>7. k = current[p] + 1
    BY <2>4, <2>6, NumberLemma
  <2>8. Entry(IndexBlock(n), current[p]) = <<n, current[p] + 1>>
    BY <2>4, <2>6, IndexEntryLemma
  <2>9. place = IF Entry(IndexBlock(n), current[p] + 1) = None THEN "returned" ELSE "blocks"
    BY <2>5, <2>7
  <2>10. b = buff[p] \o Bytes(<<n, current[p] + 1>>, 0, BlockSize)
    BY <2>5, <2>8
  <2> HIDE DEF n, req, place, b, k
  <2>11. WithinOK(n, req, place, count[p], current[p] + 1, whole[p] - 1,
                  buff[p] \o Bytes(<<n, current[p] + 1>>, 0, BlockSize))
    BY <1>1, <1>2, <2>4, <2>9, WholeNumbers
  <2>12. WithinOK(n, req, place, count[p], k, w, b)
    BY <2>7, <2>10, <2>11
  <2>13. place \notin {"index", "copy"} /\ count[p] = Cut(req.count, req.offset, Size[n])
    BY <2>1 DEF place, ReadingOK
  <2> QED
    BY <2>3, <2>4, <2>12, <2>13 DEF ReadingOK
<1>4. place \notin {"index", "copy"}
  OBVIOUS
<1> HIDE DEF place, k, w, b
<1>5. ReadOK(p)'
  <2>1. /\ reading'[p] = place /\ current'[p] = k /\ whole'[p] = w /\ buff'[p] = b
        /\ FileOf(p)' = n /\ at'[p] = "done" /\ UNCHANGED <<request, begun, count>>
    BY <1>1, <1>2 DEF ReadTypes, local, FileOf
  <2> HIDE DEF n
  <2> QED
    BY <1>3, <1>4, <2>1 DEF ReadOK
<1> QED
  BY <1>1, <1>2, <1>5, OneReads DEF ReadTypes

(* No whole block is left: the call returns or reads one block more.       *)
LEMMA ReadTailReads ==
  ASSUME WalkInv, TypesInv, ReadInv, NEW p \in Proc, ReadTail(p)
  PROVE  ReadInv'
<1> DEFINE n == FileOf(p)
           req == request[p]
           place == IF count[p] = Len(buff[p]) THEN "returned" ELSE "copy_tail"
           k == IF count[p] = Len(buff[p]) THEN current[p] ELSE NextNo(current[p])
<1>1. /\ reading[p] = "blocks" /\ whole[p] <= 0
      /\ UNCHANGED <<cache, local, request, begun, count, whole, buff>>
      /\ misread => misread'
  BY DEF ReadTail, UseIndex
<1>2. /\ at[p] = "done" /\ req \in Requests /\ ReadTypes
      /\ Undisturbed(p) => ReadingOK(n, req, "blocks", count[p], current[p], whole[p], buff[p])
  BY <1>1, DuringRead
<1>3. /\ reading' = [reading EXCEPT ![p] = place]
      /\ current'[p] = k /\ \A q \in Proc \ {p} : current'[q] = current[q]
  <2>1. ReadTypes
    BY <1>2
  <2>2. CASE count[p] = Len(buff[p])
    BY <2>1, <2>2 DEF ReadTail, Goto, ReadTypes
  <2>3. CASE count[p] # Len(buff[p])
    BY <2>1, <2>3 DEF ReadTail, Goto, ReadTypes
  <2> QED
    BY <2>2, <2>3
<1>4. ASSUME ~misread', begun[p] = req.offset
      PROVE  ReadingOK(n, req, place, count[p], k, whole[p], buff[p])
  <2>1. ReadingOK(n, req, "blocks", count[p], current[p], whole[p], buff[p])
    BY <1>1, <1>2, <1>4 DEF Undisturbed
  <2>2. n \in Files /\ count[p] = Cut(req.count, req.offset, Size[n])
    BY <2>1 DEF ReadingOK
  <2>3. CASE req.offset > Size[n]
    <3>1. BeyondOK(n, req, "blocks", whole[p], buff[p])
      BY <2>1, <2>3 DEF ReadingOK
    <3>2. count[p] \in Int /\ count[p] < 0
      BY <1>2, <2>2, <2>3, BeyondLemma
    <3>3. place = "copy_tail"
      BY <3>1, <3>2 DEF BeyondOK
    <3>4. BeyondOK(n, req, "copy_tail", whole[p], buff[p])
      BY <3>1 DEF BeyondOK
    <3> QED
      BY <2>2, <2>3, <3>3, <3>4 DEF ReadingOK
  <2>4. CASE ~(req.offset > Size[n])
    <3>1. WithinOK(n, req, "blocks", count[p], current[p], whole[p], buff[p])
      BY <2>1, <2>4 DEF ReadingOK
    <3>2. current[p] \in 0..NumBlocks[n] /\ current[p] < NumBlocks[n]
      <4>1. current[p] \in 0..(NumBlocks[n] - 1) /\ NumBlocks[n] \in Nat
        BY <2>2, <3>1, WalkAssumption DEF WithinOK, BlocksOK
      <4> QED
        BY <4>1
    <3>3. NextNo(current[p]) = current[p] + 1
      BY <2>2, <3>2, NumberLemma
    <3> HIDE DEF n, req
    <3>4. /\ count[p] = Len(buff[p]) =>
               WithinOK(n, req, "returned", count[p], current[p], whole[p], buff[p])
          /\ count[p] # Len(buff[p]) =>
               WithinOK(n, req, "copy_tail", count[p], current[p] + 1, whole[p], buff[p])
      BY <1>1, <1>2, <3>1, TailNumbers
    <3>5. WithinOK(n, req, place, count[p], k, whole[p], buff[p])
      BY <3>3, <3>4
    <3>6. place \notin {"index", "copy"}
      OBVIOUS
    <3> HIDE DEF place, k
    <3> QED
      BY <2>2, <2>4, <3>5, <3>6 DEF ReadingOK
  <2> QED
    BY <2>3, <2>4
<1>5. place \notin {"index", "copy"}
  OBVIOUS
<1> HIDE DEF place, k
<1>6. ReadOK(p)'
  <2>1. /\ reading'[p] = place /\ FileOf(p)' = n /\ at'[p] = "done"
        /\ UNCHANGED <<request, begun, count, whole, buff>>
    BY <1>1, <1>2, <1>3 DEF ReadTypes, local, FileOf
  <2> HIDE DEF n
  <2> QED
    BY <1>3, <1>4, <1>5, <2>1 DEF ReadOK
<1> QED
  BY <1>1, <1>2, <1>3, <1>6, OneReads DEF ReadTypes

(* The rest is copied.                                                     *)
LEMMA CopyTailReads ==
  ASSUME WalkInv, TypesInv, ReadInv, NEW p \in Proc, CopyTail(p)
  PROVE  ReadInv'
<1> DEFINE n == FileOf(p)
           req == request[p]
           t == count[p] - Len(buff[p])
           place == IF t < 0 THEN "overrun" ELSE "returned"
           b == IF t < 0 THEN buff[p] ELSE buff[p] \o Bytes(scratch, 0, t)
<1>1. /\ reading[p] = "copy_tail"
      /\ UNCHANGED <<cache, local, request, begun, count, current, whole>>
      /\ misread' = (misread \/ scratch # JustRead(p))
  BY DEF CopyTail, shared
<1>2. /\ t < 0 => reading' = [reading EXCEPT ![p] = "overrun"] /\ buff' = buff
      /\ ~(t < 0) => /\ reading' = [reading EXCEPT ![p] = "returned"]
                     /\ buff' = [buff EXCEPT ![p] = buff[p] \o Bytes(scratch, 0, t)]
  BY DEF CopyTail, Goto
<1>3. /\ at[p] = "done" /\ req \in Requests /\ ReadTypes
      /\ Undisturbed(p) => ReadingOK(n, req, "copy_tail", count[p], current[p], whole[p], buff[p])
  BY <1>1, DuringRead
<1>4. ASSUME ~misread', begun[p] = req.offset
      PROVE  ReadingOK(n, req, place, count[p], current[p], whole[p], b)
  <2>1. /\ ~misread /\ scratch = <<n, current[p]>>
        /\ ReadingOK(n, req, "copy_tail", count[p], current[p], whole[p], buff[p])
    BY <1>1, <1>3, <1>4 DEF Undisturbed, JustRead
  <2>2. n \in Files /\ count[p] = Cut(req.count, req.offset, Size[n])
    BY <2>1 DEF ReadingOK
  <2>3. CASE req.offset > Size[n]
    <3>1. BeyondOK(n, req, "copy_tail", whole[p], buff[p])
      BY <2>1, <2>3 DEF ReadingOK
    <3>2. count[p] \in Int /\ count[p] < 0 /\ Len(buff[p]) = 0
      BY <1>3, <2>2, <2>3, <3>1, BeyondLemma DEF BeyondOK
    <3>3. t < 0
      BY <3>2
    <3>4. BeyondOK(n, req, "overrun", whole[p], buff[p])
      BY <3>1 DEF BeyondOK
    <3> QED
      BY <2>2, <2>3, <3>3, <3>4 DEF ReadingOK
  <2>4. CASE ~(req.offset > Size[n])
    <3>1. WithinOK(n, req, "copy_tail", count[p], current[p], whole[p], buff[p])
      BY <2>1, <2>4 DEF ReadingOK
    <3> HIDE DEF n, req
    <3>2. /\ t < 0 => WithinOK(n, req, "overrun", count[p], current[p], whole[p], buff[p])
          /\ ~(t < 0) => WithinOK(n, req, "returned", count[p], current[p], whole[p],
                                  buff[p] \o Bytes(<<n, current[p]>>, 0, t))
      BY <1>3, <3>1, CopyTailNumbers
    <3> HIDE DEF t
    <3>3. WithinOK(n, req, place, count[p], current[p], whole[p], b)
      BY <2>1, <3>2
    <3>4. place \notin {"index", "copy"}
      OBVIOUS
    <3> HIDE DEF place, b
    <3> QED
      BY <2>2, <2>4, <3>3, <3>4 DEF ReadingOK
  <2> QED
    BY <2>3, <2>4
<1> HIDE DEF t
<1>5. /\ reading' = [reading EXCEPT ![p] = place] /\ place \in {"overrun", "returned"}
      /\ \A q \in Proc \ {p} : buff'[q] = buff[q]
      /\ buff'[p] = b
  BY <1>2, <1>3 DEF ReadTypes
<1> HIDE DEF place, b
<1>6. ReadOK(p)'
  <2>1. /\ reading'[p] = place /\ FileOf(p)' = n /\ at'[p] = "done"
        /\ UNCHANGED <<request, begun, count, current, whole>>
    BY <1>1, <1>3, <1>5 DEF ReadTypes, local, FileOf
  <2> HIDE DEF n
  <2> QED
    BY <1>4, <1>5, <2>1 DEF ReadOK
<1> QED
  BY <1>1, <1>3, <1>5, <1>6, OneReads DEF ReadTypes

-----------------------------------------------------------------------------
(* ReadInv is inductive together with WalkInv and the types.               *)
LEMMA ReadInductive ==
  WalkInv /\ TypesInv /\ ReadInv /\ [UcfsNext]_ucfsVars => ReadInv'
<1> SUFFICES ASSUME WalkInv, TypesInv, ReadInv, [UcfsNext]_ucfsVars
             PROVE  ReadInv'
  OBVIOUS
<1>1. CASE UNCHANGED ucfsVars
  BY <1>1 DEF ReadInv, ReadOK, FileOf, ucfsVars, walkVars, readVars, shared, local
<1>2. CASE UcfsNext
  <2>1. PICK p \in Proc :
          \/ /\ Begin(p) /\ Goto(p, "no") /\ buff' = [buff EXCEPT ![p] = <<>>]
             /\ UNCHANGED <<indirect, request, begun, count, current, whole>>
          \/ Step(p) /\ UNCHANGED readVars
          \/ ReadStep(p) \/ \E req \in Requests : Read(p, req)
    BY <1>2 DEF UcfsNext
  <2>2. ReadTypes
    BY DEF TypesInv
  <2> QED
    BY <2>1, <2>2, BeginReads, WalkReads, ReadReads, CopyIndexReads, ReadHeadReads, CopyHeadReads,
       ReadWholeReads, ReadTailReads, CopyTailReads DEF ReadStep
<1> QED
  BY <1>1, <1>2

(* Without a race a read returns what it should for exactly the requests   *)
(* that fit, for files and blocks of any size.                             *)
THEOREM ReadsOnlyWhatFits == UcfsSpec => []ReadsWhatFits
<1>1. UcfsInit => WalkInv /\ TypesInv /\ ReadInv
  <2>1. UcfsInit => ReadInv
    BY DEF UcfsInit, ReadInv, ReadOK
  <2> QED
    BY <2>1, WalkInitLemma, TypesInitLemma DEF UcfsInit
<1>2. TypesInv /\ ReadInv => ReadsWhatFits
  <2> SUFFICES ASSUME TypesInv, ReadInv, NEW p \in Proc, ~misread,
                      reading[p] \in {"returned", "overrun"}, begun[p] = request[p].offset
               PROVE  (reading[p] = "returned" /\ buff[p] = Wanted(FileOf(p), request[p]))
                        <=> Fits(FileOf(p), request[p])
    BY DEF ReadsWhatFits
  <2> DEFINE n == FileOf(p)
             req == request[p]
  <2>1. /\ req \in Requests
        /\ ReadingOK(n, req, reading[p], count[p], current[p], whole[p], buff[p])
    BY DuringRead DEF Undisturbed
  <2>2. n \in Files /\ count[p] = Cut(req.count, req.offset, Size[n])
    BY <2>1 DEF ReadingOK
  <2>3. CASE req.offset > Size[n]
    <3>1. Wanted(n, req) = <<>>
      BY <2>1, <2>2, <2>3, BeyondLemma
    <3> QED
      BY <2>1, <2>3, <3>1 DEF ReadingOK, BeyondOK
  <2>4. CASE ~(req.offset > Size[n])
    BY <2>1, <2>4 DEF ReadingOK, WithinOK
  <2> QED
    BY <2>3, <2>4
<1> QED
  BY <1>1, <1>2, TypesInductive, ReadInductive, PTL DEF UcfsSpec

-----------------------------------------------------------------------------
(* Finding.  The word after x leads there, or nowhere.                     *)
Led(way, k, x) == IF x = None THEN None ELSE Entered(FoundFrom(x, way[k]))

(* Reached is defined by recursion over the words: it begins at n, and     *)
(* each word leads on.                                                     *)
LEMMA ReachedLemma ==
  ASSUME NEW n, NEW way, Len(way) \in Nat
  PROVE  /\ Reached(n, way)[0] = n
         /\ \A k \in 1..Len(way) : Reached(n, way)[k] = Led(way, k, Reached(n, way)[k - 1])
<1> DEFINE F(l, f) == [k \in 0..l |-> IF k = 0 THEN n ELSE Led(way, k, f[k - 1])]
           T == {l \in Nat : \E f : f = F(l, f)}
           L == Len(way)
<1>1. 0 \in T
  <2> DEFINE f == [k \in 0..0 |-> n]
  <2>1. f = F(0, f)
    OBVIOUS
  <2> HIDE DEF F, f
  <2> QED
    BY <2>1
<1>2. ASSUME NEW l \in Nat, l \in T
      PROVE  l + 1 \in T
  <2>1. PICK f : f = F(l, f)
    BY <1>2
  <2> DEFINE h == [k \in 0..(l + 1) |-> IF k = 0 THEN n ELSE Led(way, k, f[k - 1])]
  <2>2. \A k \in 0..l : h[k] = f[k]
    <3> SUFFICES ASSUME NEW k \in 0..l
                 PROVE  h[k] = f[k]
      OBVIOUS
    <3>1. k \in 0..(l + 1)
      OBVIOUS
    <3>2. f[k] = F(l, f)[k]
      BY <2>1
    <3> QED
      BY <3>1, <3>2
  <2>3. \A k \in 1..(l + 1) : k - 1 \in 0..l
    OBVIOUS
  <2>4. h = F(l + 1, h)
    <3>1. \A k \in 0..(l + 1) : (IF k = 0 THEN n ELSE Led(way, k, f[k - 1]))
                                  = (IF k = 0 THEN n ELSE Led(way, k, h[k - 1]))
      <4> HIDE DEF h
      <4> QED
        BY <2>2, <2>3
    <3> QED
      BY <3>1
  <2> HIDE DEF F, h
  <2> QED
    BY <2>4
<1>3. L \in T
  <2> HIDE DEF T
  <2> QED
    BY <1>1, <1>2, SetInduction
<1> DEFINE m == CHOOSE f : f = F(L, f)
<1>4. m = F(L, m)
  <2> HIDE DEF F
  <2> QED
    BY <1>3
<1>5. Reached(n, way) = m
  BY DEF Reached, Led
<1> HIDE DEF m
<1>6. m[0] = n /\ \A k \in 1..L : m[k] = Led(way, k, m[k - 1])
  <2> HIDE DEF L
  <2>1. L \in Nat
    BY DEF L
  <2>2. 0 \in 0..L /\ \A k \in 1..L : k \in 0..L /\ k # 0
    BY <2>1
  <2> QED
    BY <1>4, <2>2
<1> QED
  BY <1>5, <1>6

(* Once a word has led nowhere, the path means nothing.                    *)
LEMMA NoneStays ==
  ASSUME NEW n, NEW way, Len(way) \in Nat, NEW k \in 0..Len(way), Reached(n, way)[k] = None
  PROVE  Meaning(n, way) = None
<1> DEFINE r == Reached(n, way)
           T == {j \in Nat : k + j <= Len(way) => r[k + j] = None}
<1>1. 0 \in T
  OBVIOUS
<1>2. ASSUME NEW j \in Nat, j \in T
      PROVE  j + 1 \in T
  <2>1. k + (j + 1) <= Len(way) => /\ k + (j + 1) \in 1..Len(way) /\ (k + (j + 1)) - 1 = k + j
                                   /\ k + j <= Len(way)
    OBVIOUS
  <2> HIDE DEF r
  <2>2. \A i \in 1..Len(way) : r[i] = Led(way, i, r[i - 1])
    BY ReachedLemma DEF r
  <2>3. k + (j + 1) <= Len(way) => r[k + (j + 1)] = Led(way, k + (j + 1), r[k + j])
    BY <2>1, <2>2
  <2> QED
    BY <1>2, <2>1, <2>3 DEF Led
<1>3. Len(way) - k \in T
  <2>1. Len(way) - k \in Nat
    OBVIOUS
  <2> HIDE DEF T
  <2> QED
    BY <1>1, <1>2, <2>1, SetInduction
<1>4. k + (Len(way) - k) = Len(way)
  OBVIOUS
<1> QED
  BY <1>3, <1>4 DEF Meaning

(* What is left of a path.                                                 *)
Left(w, way) ==
  /\ Len(w) <= Len(way)
  /\ \A i \in 1..Len(w) : w[i] = way[Len(way) - Len(w) + i]

Taken(p) == Len(path[p]) - Len(words[p])
Way(p) == Reached(start[p], path[p])

\* an inode that is ready has a number, and if it is of devfs, a device
ReadyNodes ==
  \A k \in DOMAIN cache : cache[k].ready =>
    /\ cache[k].ino # None
    /\ cache[k].ino \in DevIno => cache[k].ino \in Devices \cup {MountRoot}

\* a walk stands where the words it has taken lead, looks for what the next
\* word names, and fails only where the path leads nowhere
FindOK(p) ==
  /\ Left(words[p], path[p])
  /\ at[p] = "done" => words[p] = <<>>
  /\ ~misread =>
       /\ at[p] \notin {"user", "failed"} => Way(p)[Taken(p)] = cache[base[p]].ino
       /\ at[p] \in {"snap", "search", "inodes", "alloc", "fill", "finish"} =>
            ino[p] # None /\ ino[p] = FoundFrom(cache[base[p]].ino, Head(words[p]))
       /\ at[p] = "failed" /\ ~nomem[p] => Meaning(start[p], path[p]) = None

FindInv == (~misread => ReadyNodes) /\ \A p \in Proc : FindOK(p)

(* The next word, and the path that is left after it.                      *)
LEMMA LeftLemma ==
  ASSUME NEW S, NEW w \in Seq(S), w # <<>>, NEW way \in Seq(S), Left(w, way)
  PROVE  /\ Left(Tail(w), way) /\ Len(way) - Len(Tail(w)) = Len(way) - Len(w) + 1
         /\ Len(way) - Len(w) + 1 \in 1..Len(way)
         /\ Head(w) = way[Len(way) - Len(w) + 1]
<1>1. /\ Len(w) \in Nat \ {0} /\ Len(way) \in Nat /\ Len(w) <= Len(way)
      /\ \A i \in 1..Len(w) : w[i] = way[Len(way) - Len(w) + i]
  BY DEF Left
<1>2. /\ Tail(w) \in Seq(S) /\ Len(Tail(w)) = Len(w) - 1 /\ Head(w) = w[1]
      /\ \A i \in 1..(Len(w) - 1) : Tail(w)[i] = w[i + 1]
  BY HeadTailProperties
<1> DEFINE l == Len(w)
           t == Tail(w)
<1>3. \A i \in 1..(l - 1) : t[i] = way[Len(way) - (l - 1) + i]
  <2> SUFFICES ASSUME NEW i \in 1..(l - 1)
               PROVE  t[i] = way[Len(way) - (l - 1) + i]
    OBVIOUS
  <2>1. t[i] = w[i + 1] /\ i + 1 \in 1..l
    BY <1>1, <1>2
  <2>2. w[i + 1] = way[Len(way) - l + (i + 1)]
    BY <1>1, <2>1
  <2>3. Len(way) - l + (i + 1) = Len(way) - (l - 1) + i
    BY <1>1
  <2> QED
    BY <2>1, <2>2, <2>3
<1>4. Left(t, way)
  BY <1>1, <1>2, <1>3 DEF Left
<1>5. Head(w) = way[Len(way) - Len(w) + 1]
  <2>1. 1 \in 1..Len(w)
    BY <1>1
  <2> QED
    BY <1>1, <1>2, <2>1
<1> QED
  BY <1>1, <1>2, <1>4, <1>5

(* The next word leads from where the walk stands to what is looked for.   *)
LEMMA NextWord ==
  ASSUME WalkInv, TypesInv, FindInv, ~misread, NEW p \in Proc, at[p] \notin {"user", "failed"},
         words[p] # <<>>
  PROVE  /\ Taken(p) + 1 \in 1..Len(path[p])
         /\ Way(p)[Taken(p) + 1] = Entered(FoundFrom(cache[base[p]].ino, Head(words[p])))
         /\ Left(Tail(words[p]), path[p])
         /\ Len(path[p]) - Len(Tail(words[p])) = Taken(p) + 1
         /\ cache[base[p]].ino # None
<1> DEFINE w == words[p]
           way == path[p]
           n == start[p]
<1>1. /\ w \in Seq(Name) /\ way \in Seq(Name) /\ w # <<>> /\ Left(w, way)
      /\ Reached(n, way)[Taken(p)] = cache[base[p]].ino
  BY DEF TypesInv, WalkTypes, WalkRest, FindInv, FindOK, Way
<1>2. cache[base[p]].ino # None
  <2>1. base[p] \in DOMAIN cache /\ cache[base[p]].ready
    BY DEF WalkInv, WalkTypes, StandsOK
  <2> QED
    BY <2>1 DEF FindInv, ReadyNodes
<1>3. Taken(p) = Len(way) - Len(w)
  BY DEF Taken
<1> HIDE DEF w, way, n
<1>4. /\ Left(Tail(w), way) /\ Len(way) - Len(Tail(w)) = Taken(p) + 1
      /\ Taken(p) + 1 \in 1..Len(way) /\ Head(w) = way[Taken(p) + 1]
  BY <1>1, <1>3, LeftLemma
<1>5. Reached(n, way)[Taken(p) + 1] = Entered(FoundFrom(cache[base[p]].ino, Head(w)))
  <2> DEFINE k == Taken(p) + 1
  <2>1. k \in 1..Len(way) /\ k - 1 = Taken(p)
    BY <1>1, <1>3, <1>4
  <2> HIDE DEF k
  <2>2. Reached(n, way)[k] = Led(way, k, Reached(n, way)[k - 1])
    BY <1>1, <2>1, ReachedLemma
  <2>3. Reached(n, way)[k - 1] = cache[base[p]].ino /\ Head(w) = way[k]
    BY <1>1, <1>4, <2>1 DEF k
  <2> QED
    BY <1>2, <2>2, <2>3 DEF Led, k
<1> QED
  BY <1>2, <1>4, <1>5 DEF w, way, n, Way

(* The directory that is asked is the right one, above a mount too.        *)
LEMMA DirFinds ==
  ASSUME WalkInv, ~misread, NEW p \in Proc, Head(words[p]) # "."
  PROVE  Found(cache[DirFor(p)].ino, Head(words[p]))
           = FoundFrom(cache[base[p]].ino, Head(words[p]))
<1> DEFINE name == Head(words[p])
<1>1. /\ cache[MountRootObject].ino = MountRoot /\ cache[MountPointObject].ino = MountPoint
      /\ cache[RootObject].ino = Root
  BY DEF WalkInv, MountsFixed, Object
<1>2. base[p] \in DOMAIN cache
  BY DEF WalkInv, WalkTypes
<1>3. MountRoot # MountPoint /\ MountRoot # Root /\ ~IsDevfs(MountPoint)
  BY WalkAssumption DEF DevIno, IsDevfs
<1>4. cache[base[p]].ino = MountRoot <=> base[p] = MountRootObject
  <2>1. \A k \in DOMAIN cache : cache[k].ino = MountRoot =>
          k \in {RootObject, MountPointObject, MountRootObject}
    BY DEF WalkInv, MountsInv
  <2> QED
    BY <1>1, <1>2, <1>3, <2>1
<1>5. CASE name = ".." /\ base[p] = MountRootObject
  BY <1>1, <1>3, <1>5 DEF DirFor, Found, FoundFrom
<1>6. CASE ~(name = ".." /\ base[p] = MountRootObject)
  BY <1>4, <1>6 DEF DirFor, FoundFrom
<1> QED
  BY <1>5, <1>6

(* Where a walk enters: as long as an inode is ready and no mountpoint,    *)
(* it is what was found.                                                   *)
LEMMA EnteredLemma ==
  ASSUME NEW n
  PROVE  /\ n = MountPoint => Entered(n) = MountRoot
         /\ n # MountPoint /\ (n \in DevIno => n \in Devices \cup {MountRoot}) => Entered(n) = n
         /\ n \in DevIno /\ n \notin Devices \cup {MountRoot} => Entered(n) = None
         /\ n = None => Entered(n) = None
<1>1. MountPoint \notin DevIno /\ None \notin DevIno /\ None # MountPoint
  BY WalkAssumption DEF Ino
<1> QED
  BY <1>1 DEF Entered

(* What is said of a walk stays true as long as nothing of it changes.     *)
LEMMA OthersFindLemma ==
  ASSUME NEW q \in Proc, FindOK(q), misread => misread',
         at'[q] = at[q], words'[q] = words[q], path'[q] = path[q], start'[q] = start[q],
         base'[q] = base[q], ino'[q] = ino[q], nomem'[q] = nomem[q],
         ~misread' => cache'[base[q]].ino = cache[base[q]].ino
  PROVE  FindOK(q)'
BY DEF FindOK, Way, Taken

(* A step of a walk that goes on with the same word.                       *)
LEMMA StaysFinds ==
  ASSUME NEW p \in Proc, FindOK(p), misread => misread',
         at[p] \notin {"user", "failed"}, at'[p] \notin {"done", "failed"},
         words'[p] = words[p], path'[p] = path[p], start'[p] = start[p], base'[p] = base[p],
         ~misread' =>
           /\ cache'[base[p]].ino = cache[base[p]].ino
           /\ at'[p] \in {"snap", "search", "inodes", "alloc", "fill", "finish"} =>
                ino'[p] # None /\ ino'[p] = FoundFrom(cache[base[p]].ino, Head(words[p]))
  PROVE  FindOK(p)'
BY DEF FindOK, Way, Taken

(* A walk fails where the next word leads nowhere, or memory has run out.  *)
LEMMA FailsFinds ==
  ASSUME WalkInv, TypesInv, FindInv, NEW p \in Proc, words[p] # <<>>,
         at[p] \notin {"user", "failed"}, at'[p] = "failed", misread => misread',
         words'[p] = words[p], path'[p] = path[p], start'[p] = start[p], UNCHANGED cache,
         ~misread' => nomem'[p] \/ Entered(FoundFrom(cache[base[p]].ino, Head(words[p]))) = None
  PROVE  FindOK(p)'
<1>1. FindOK(p) /\ path[p] \in Seq(Name)
  BY DEF FindInv, TypesInv, WalkRest
<1>2. ASSUME ~misread', ~nomem'[p]
      PROVE  Meaning(start[p], path[p]) = None
  <2>1. Taken(p) + 1 \in 1..Len(path[p]) /\ Way(p)[Taken(p) + 1] = None
    BY <1>2, NextWord
  <2> DEFINE k == Taken(p) + 1
             n == start[p]
  <2>2. k \in 0..Len(path[p]) /\ Reached(n, path[p])[k] = None /\ Len(path[p]) \in Nat
    BY <1>1, <2>1 DEF Way
  <2> HIDE DEF k, n
  <2>3. Meaning(n, path[p]) = None
    BY <2>2, NoneStays
  <2> QED
    BY <2>3 DEF n
<1> QED
  BY <1>1, <1>2 DEF FindOK

(* A walk arrives where the next word leads.                               *)
LEMMA ArriveFinds ==
  ASSUME WalkInv, TypesInv, FindInv, NEW p \in Proc, words[p] # <<>>,
         at[p] \in {"search", "fill", "finish"}, NEW k \in 1..Len(cache), Arrive(p, k),
         misread => misread', path'[p] = path[p], start'[p] = start[p],
         ~misread' => cache'[base'[p]].ino = Entered(ino[p])
  PROVE  FindOK(p)'
<1>1. /\ words'[p] = Tail(words[p]) /\ at'[p] = IF Len(words[p]) = 1 THEN "done" ELSE "name"
      /\ words[p] \in Seq(Name) /\ path[p] \in Seq(Name) /\ FindOK(p)
  BY DEF Arrive, Go, TypesInv, WalkTypes, WalkRest, FindInv
<1>2. Left(words'[p], path'[p])
  BY <1>1, LeftLemma DEF FindOK
<1>3. at'[p] = "done" => words'[p] = <<>>
  <2> DEFINE w == words[p]
  <2>1. w \in Seq(Name) /\ w # <<>>
    BY <1>1
  <2> HIDE DEF w
  <2>2. Tail(w) \in Seq(Name) /\ Len(Tail(w)) = Len(w) - 1
    BY <2>1, HeadTailProperties
  <2>3. Len(w) = 1 => Tail(w) = <<>>
    <3> DEFINE t == Tail(w)
    <3>1. t \in Seq(Name) /\ (Len(w) = 1 => Len(t) = 0)
      BY <2>2
    <3> HIDE DEF t
    <3>2. Len(w) = 1 => t = <<>>
      BY <3>1
    <3> QED
      BY <3>2 DEF t
  <2> QED
    BY <1>1, <2>3 DEF w
<1>4. ASSUME ~misread'
      PROVE  Way(p)'[Taken(p)'] = cache'[base'[p]].ino
  <2>1. /\ Way(p)[Taken(p) + 1] = Entered(FoundFrom(cache[base[p]].ino, Head(words[p])))
        /\ Len(path[p]) - Len(Tail(words[p])) = Taken(p) + 1
    BY <1>4, NextWord
  <2>2. ino[p] = FoundFrom(cache[base[p]].ino, Head(words[p]))
    BY <1>1, <1>4 DEF FindOK
  <2>3. Taken(p)' = Taken(p) + 1
    BY <1>1, <2>1 DEF Taken
  <2>4. Way(p)' = Way(p)
    BY DEF Way
  <2> QED
    BY <1>4, <2>1, <2>2, <2>3, <2>4
<1> QED
  BY <1>1, <1>2, <1>3, <1>4 DEF FindOK

-----------------------------------------------------------------------------
(* vfs_read_dentry, up to the call of lookup.                              *)
LEMMA ReadDentryFinds ==
  ASSUME WalkInv, WalkInv', TypesInv, FindInv, NEW p \in Proc, ReadDentry(p)
  PROVE  FindOK(p)'
<1> DEFINE name == Head(words[p])
           parent == cache[DirFor(p)].ino
           hits == Match(name, parent)
<1>1. /\ WalkTypes /\ at[p] = "name" /\ words[p] # <<>> /\ FindOK(p)
      /\ UNCHANGED <<cache, words, base, path, start, nomem>> /\ (misread => misread')
  BY DEF WalkInv, ReadDentry, shared, PlaceOK, FindInv
<1>2. CASE name = "."
  <2>1. at'[p] = "snap" /\ ino'[p] = cache[base[p]].ino
    BY <1>1, <1>2 DEF ReadDentry, Go, WalkTypes
  <2>2. ~misread => cache[base[p]].ino # None
    BY <1>1, NextWord
  <2> QED
    BY <1>1, <1>2, <2>1, <2>2, StaysFinds DEF FoundFrom
<1>3. CASE name # "." /\ (hits # {} \/ ~IsDevfs(parent) \/ NodeOf(name) # None)
  <2>1. at'[p] \in {"hit", "block", "insert"}
    BY <1>1, <1>3 DEF ReadDentry, Go, WalkTypes
  <2> QED
    BY <1>1, <2>1, StaysFinds
<1>4. CASE name # "." /\ hits = {} /\ IsDevfs(parent) /\ NodeOf(name) = None
  <2>1. at'[p] = "failed" /\ UNCHANGED misread
    BY <1>1, <1>4 DEF ReadDentry, Go, WalkTypes
  <2>2. ~misread => FoundFrom(cache[base[p]].ino, name) = None
    BY <1>4, DirFinds DEF Found
  <2> HIDE DEF name
  <2>3. ~misread' => Entered(FoundFrom(cache[base[p]].ino, name)) = None
    BY <2>1, <2>2, EnteredLemma
  <2> QED
    BY <1>1, <2>1, <2>3, FailsFinds DEF name
<1> QED
  BY <1>2, <1>3, <1>4

(* A dentry that matched.                                                  *)
LEMMA ReadHitFinds ==
  ASSUME WalkInv, WalkInv', TypesInv, FindInv, NEW p \in Proc, ReadHit(p)
  PROVE  FindOK(p)'
<1> DEFINE d == dentries[aux[p]]
           name == Head(words[p])
<1>1. /\ WalkTypes /\ PlaceOK(p) /\ at[p] = "hit" /\ words[p] # <<>> /\ FindOK(p)
      /\ UNCHANGED <<cache, words, base, path, start, nomem>> /\ (misread => misread')
      /\ at' = [at EXCEPT ![p] = "snap"] /\ ino' = [ino EXCEPT ![p] = d.ino]
  BY DEF WalkInv, ReadHit, shared, PlaceOK, Go, FindInv
<1>2. ASSUME ~misread'
      PROVE  d.ino # None /\ d.ino = FoundFrom(cache[base[p]].ino, name)
  <2>1. ~misread /\ ~Torn(aux[p]) /\ d.name = name /\ d.parent = cache[dir[p]].ino
    BY <1>2 DEF ReadHit, Match
  <2>2. DentryOK(aux[p]) /\ LookupOK(p) /\ StandsOK(p)
    BY <1>1, <2>1 DEF WalkInv, PlaceOK
  <2>3. d.name # None
    BY <1>1, <2>1, WordsLemma, WalkAssumption
  <2>4. d.ino # None /\ d.ino = Found(cache[DirFor(p)].ino, name) /\ name # "."
    BY <1>1, <2>1, <2>2, <2>3 DEF DentryOK, LookupOK
  <2> QED
    BY <2>1, <2>4, DirFinds
<1>3. at'[p] = "snap" /\ ino'[p] = d.ino
  BY <1>1 DEF WalkTypes
<1> HIDE DEF d
<1> QED
  BY <1>1, <1>2, <1>3, StaysFinds

(* The search of the block that was read.                                  *)
LEMMA ScanBlockFinds ==
  ASSUME WalkInv, WalkInv', TypesInv, FindInv, NEW p \in Proc, ScanBlock(p)
  PROVE  FindOK(p)'
<1> DEFINE name == Head(words[p])
           found == EntryOf(scratch, name)
           n == cache[dir[p]].ino
<1>1. /\ WalkTypes /\ at[p] = "scan" /\ words[p] # <<>> /\ FindOK(p)
      /\ UNCHANGED <<cache, words, base, path, start, nomem>> /\ (misread => misread')
      /\ at' = [at EXCEPT ![p] = IF found = None THEN "failed" ELSE "insert"]
  BY DEF WalkInv, ScanBlock, shared, PlaceOK, Go, FindInv
<1>2. dir[p] \in DOMAIN cache /\ n \in Ino \cup {None}
  BY <1>1, StandsLemma DEF WalkTypes
<1>3. CASE found # None
  <2>1. at'[p] = "insert"
    BY <1>1, <1>3 DEF WalkTypes
  <2> QED
    BY <1>1, <2>1, StaysFinds
<1>4. CASE found = None
  <2>1. at'[p] = "failed"
    BY <1>1, <1>4 DEF WalkTypes
  <2>2. ASSUME ~misread'
        PROVE  Entered(FoundFrom(cache[base[p]].ino, name)) = None
    <3>1. ~misread /\ scratch = cache[dir[p]].block
      BY <2>2 DEF ScanBlock
    <3>2. StandsOK(p) /\ LookupOK(p) /\ ReadyInv
      BY <3>1 DEF WalkInv
    <3>3. scratch = BlockOf(n) /\ ~IsDevfs(n) /\ dir[p] = DirFor(p) /\ name # "."
      BY <1>1, <1>2, <3>1, <3>2 DEF ReadyInv, StandsOK, LookupOK
    <3>4. Found(n, name) = None
      BY <1>2, <1>4, <3>3, BlockLemma
    <3>5. FoundFrom(cache[base[p]].ino, name) = None
      BY <3>1, <3>3, <3>4, DirFinds
    <3> HIDE DEF name
    <3> QED
      BY <3>5, EnteredLemma
  <2> QED
    BY <1>1, <2>1, <2>2, FailsFinds
<1> QED
  BY <1>3, <1>4

(* A name that was looked up gets its dentry, and is what is looked for.   *)
LEMMA InsertNameFinds ==
  ASSUME WalkInv, WalkInv', TypesInv, FindInv, NEW p \in Proc, InsertName(p)
  PROVE  FindOK(p)'
<1>1. /\ WalkTypes /\ at[p] = "rename" /\ FindOK(p)
      /\ UNCHANGED <<cache, words, base, path, start, nomem, ino, misread>>
      /\ at'[p] = "snap"
  BY DEF WalkInv, InsertName, Go, FindInv, WalkTypes
<1>2. ASSUME ~misread
      PROVE  ino[p] # None /\ ino[p] = FoundFrom(cache[base[p]].ino, Head(words[p]))
  <2>1. LookupOK(p)
    BY <1>2 DEF WalkInv
  <2> QED
    BY <1>1, <1>2, <2>1, DirFinds DEF LookupOK
<1> QED
  BY <1>1, <1>2, StaysFinds

(* Steps that change neither what is looked for nor where the walk stands. *)
LEMMA QuietFinds ==
  ASSUME WalkInv, WalkInv', TypesInv, FindInv, NEW p \in Proc,
         \/ ReadBlock(p) \/ InsertKeys(p) \/ SnapCache(p) \/ SearchMisses(p)
         \/ ReadInodes(p)
  PROVE  FindOK(p)'
<1>1. /\ WalkTypes /\ FindOK(p)
      /\ UNCHANGED <<cache, words, base, path, start, nomem, ino, misread>>
  BY DEF WalkInv, FindInv, ReadBlock, InsertKeys, SnapCache, SearchMisses, ReadInodes, shared
<1>2. CASE ReadBlock(p) \/ InsertKeys(p)
  <2>1. at[p] \in {"block", "insert"} /\ at'[p] \in {"scan", "rename"}
    BY <1>1, <1>2 DEF ReadBlock, InsertKeys, Go, WalkTypes
  <2> QED
    BY <1>1, <2>1, StaysFinds
<1>3. CASE SnapCache(p) \/ SearchMisses(p) \/ ReadInodes(p)
  <2>1. at[p] \in {"snap", "search", "inodes"} /\ at'[p] \in {"search", "alloc", "inodes"}
    BY <1>1, <1>3 DEF SnapCache, SearchMisses, ReadInodes, Go, WalkTypes
  <2>2. ~misread => ino[p] # None /\ ino[p] = FoundFrom(cache[base[p]].ino, Head(words[p]))
    BY <1>1, <2>1 DEF FindOK
  <2> QED
    BY <1>1, <2>1, <2>2, StaysFinds
<1> QED
  BY <1>2, <1>3

(* An inode that is found in the list is the one that is entered.          *)
LEMMA SearchHitsFinds ==
  ASSUME WalkInv, WalkInv', TypesInv, FindInv, NEW p \in Proc, SearchHits(p)
  PROVE  FindOK(p)'
<1>1. /\ WalkTypes /\ MountsFixed /\ PlaceOK(p) /\ at[p] = "search" /\ words[p] # <<>>
      /\ UNCHANGED <<cache, path, start, nomem>>
  BY DEF WalkInv, SearchHits, shared, PlaceOK
<1>2. PICK k \in Cached(p) : Arrive(p, k) /\ misread' = (misread \/ ~cache[k].ready)
  BY DEF SearchHits
<1>3. k \in 1..Len(cache) /\ cache[k].ino = ino[p] /\ k \in DOMAIN cache
  BY <1>1, <1>2 DEF Cached, PlaceOK, WalkTypes
<1>4. base'[p] = IF k = MountPointObject THEN MountRootObject ELSE k
  BY <1>1, <1>2 DEF Arrive, WalkTypes
<1>5. ASSUME ~misread'
      PROVE  cache'[base'[p]].ino = Entered(ino[p])
  <2>1. ~misread /\ cache[k].ready
    BY <1>2, <1>5
  <2>2. ino[p] \in DevIno => ino[p] \in Devices \cup {MountRoot}
    BY <1>3, <2>1 DEF FindInv, ReadyNodes
  <2>3. k = MountPointObject <=> ino[p] = MountPoint
    <3>1. MountPoint # Root /\ MountPoint # MountRoot
      BY WalkAssumption DEF DevIno
    <3> QED
      BY <1>1, <1>3, <2>1, <3>1 DEF MountsFixed, Object, WalkInv, MountsInv
  <2>4. cache[MountRootObject].ino = MountRoot
    BY <1>1 DEF MountsFixed, Object
  <2> QED
    BY <1>1, <1>3, <1>4, <2>2, <2>3, <2>4, EnteredLemma
<1> QED
  BY <1>1, <1>2, <1>3, <1>5, ArriveFinds

(* inode_alloc gives an inode, or memory has run out.                      *)
LEMMA AllocFinds ==
  ASSUME WalkInv, WalkInv', TypesInv, FindInv, NEW p \in Proc, Alloc(p) \/ AllocFails(p)
  PROVE  FindOK(p)'
<1>1. /\ WalkTypes /\ at[p] = "alloc" /\ words[p] # <<>> /\ FindOK(p)
      /\ UNCHANGED <<words, base, path, start, ino, misread>>
  BY DEF WalkInv, FindInv, Alloc, AllocFails, PlaceOK
<1>2. CASE Alloc(p)
  <2> DEFINE new == [ino |-> None, block |-> None, ready |-> FALSE]
  <2>1. cache' = Append(cache, new) /\ new \in Inode /\ at'[p] = "fill"
    BY <1>1, <1>2 DEF Alloc, Inode, FirstBlock, Go, WalkTypes
  <2>2. cache'[base[p]] = cache[base[p]]
    BY <1>1, <2>1, AppendProperties DEF WalkTypes
  <2>3. ~misread => ino[p] # None /\ ino[p] = FoundFrom(cache[base[p]].ino, Head(words[p]))
    BY <1>1 DEF FindOK
  <2> QED
    BY <1>1, <2>1, <2>2, <2>3, StaysFinds
<1>3. CASE AllocFails(p)
  <2>1. at'[p] = "failed" /\ nomem'[p] /\ UNCHANGED cache
    BY <1>1, <1>3 DEF AllocFails, Go, shared, WalkTypes, TypesInv, WalkRest
  <2> QED
    BY <1>1, <2>1, FailsFinds
<1> QED
  BY <1>2, <1>3

(* The inode that is filled is what was looked for.                        *)
LEMMA FillUcfsFinds ==
  ASSUME WalkInv, WalkInv', TypesInv, FindInv, NEW p \in Proc, FillUcfs(p)
  PROVE  FindOK(p)' /\ (~misread' => ReadyNodes')
<1> DEFINE k == aux[p]
<1>1. /\ WalkTypes /\ MakingOK(p) /\ at[p] = "fill" /\ words[p] # <<>> /\ FindOK(p)
      /\ UNCHANGED <<path, start, ino>> /\ (misread => misread') /\ Arrive(p, k)
      /\ ~IsDevfs(cache[base[p]].ino)
  BY DEF WalkInv, FillUcfs, PlaceOK, FindInv
<1>2. \E block \in FirstBlock :
        cache' = [cache EXCEPT ![k] = [ino |-> ino[p], block |-> block, ready |-> TRUE]]
  <2>1. BlockOf(ino[p]) \in FirstBlock
    BY <1>1 DEF WalkTypes, FirstBlock, BlockOf, Ino
  <2> QED
    BY <2>1 DEF FillUcfs
<1>3. k \in 4..Len(cache) /\ k \in 1..Len(cache) /\ k # MountPointObject
  BY <1>1 DEF MakingOK, Making, MountPointObject, WalkTypes
<1>4. /\ DOMAIN cache = 1..Len(cache) /\ DOMAIN cache' = 1..Len(cache) /\ cache'[k].ino = ino[p]
      /\ \A j \in 1..Len(cache) : j # k => cache'[j] = cache[j]
  <2>1. PICK block \in FirstBlock :
          cache' = [cache EXCEPT ![k] = [ino |-> ino[p], block |-> block, ready |-> TRUE]]
    BY <1>2
  <2> DEFINE new == [ino |-> ino[p], block |-> block, ready |-> TRUE]
  <2>2. new \in Inode /\ new.ino = ino[p]
    BY <1>1 DEF WalkTypes, Inode
  <2> HIDE DEF new, k
  <2> QED
    BY <1>1, <1>3, <2>1, <2>2, FillLemma DEF new
<1>5. base'[p] = k
  BY <1>1, <1>3 DEF Arrive, WalkTypes
<1>6. ~misread => ino[p] # None /\ ino[p] \notin DevIno /\ ino[p] # MountPoint
  BY <1>1 DEF FindOK, WalkInv, OwnOK, IsDevfs
<1>7. ~misread' => cache'[base'[p]].ino = Entered(ino[p])
  BY <1>1, <1>4, <1>5, <1>6, EnteredLemma
<1>8. ~misread' => ReadyNodes'
  BY <1>1, <1>4, <1>6 DEF FindInv, ReadyNodes
<1> HIDE DEF k
<1> QED
  BY <1>1, <1>3, <1>7, <1>8, ArriveFinds

(* devfs_read_i writes the number first; then the device is there, and the *)
(* inode is entered, or there is none, and the path leads nowhere.         *)
LEMMA FillDevfsFinds ==
  ASSUME WalkInv, WalkInv', TypesInv, FindInv, NEW p \in Proc, FillDevfs(p)
  PROVE  FindOK(p)' /\ (~misread' => ReadyNodes')
<1> DEFINE k == aux[p]
           new == [cache[k] EXCEPT !.ino = ino[p]]
<1>1. /\ WalkTypes /\ MakingOK(p) /\ at[p] = "fill" /\ words[p] # <<>> /\ FindOK(p)
      /\ UNCHANGED <<words, path, start, base, ino, misread>>
      /\ at'[p] = "finish"
  BY DEF WalkInv, FillDevfs, PlaceOK, FindInv, Go, WalkTypes
<1>2. k \in 1..Len(cache) /\ cache[k] \in Inode /\ ~cache[k].ready
  BY <1>1 DEF MakingOK, Making, WalkTypes
<1>3. cache' = [cache EXCEPT ![k] = new]
  BY DEF FillDevfs
<1>4. new \in Inode /\ ~new.ready
  BY <1>1, <1>2 DEF Inode, WalkTypes
<1> HIDE DEF new
<1>5. /\ DOMAIN cache = 1..Len(cache) /\ DOMAIN cache' = 1..Len(cache) /\ cache'[k] = new
      /\ \A j \in 1..Len(cache) : j # k => cache'[j] = cache[j]
  BY <1>1, <1>2, <1>3, <1>4, FillLemma
<1>6. ~misread => cache'[base[p]] = cache[base[p]]
  BY <1>1, <1>2, <1>5 DEF WalkInv, StandsOK, WalkTypes
<1>7. ~misread => ino[p] # None /\ ino[p] = FoundFrom(cache[base[p]].ino, Head(words[p]))
  BY <1>1 DEF FindOK
<1>8. FindOK(p)'
  BY <1>1, <1>6, <1>7, StaysFinds
<1>9. ~misread' => ReadyNodes'
  BY <1>1, <1>4, <1>5 DEF FindInv, ReadyNodes
<1> QED
  BY <1>8, <1>9

LEMMA FinishDevfsFinds ==
  ASSUME WalkInv, WalkInv', TypesInv, FindInv, NEW p \in Proc, FinishDevfs(p)
  PROVE  FindOK(p)' /\ (~misread' => ReadyNodes')
<1> DEFINE k == aux[p]
           new == [cache[k] EXCEPT !.ready = TRUE]
<1>1. /\ WalkTypes /\ MakingOK(p) /\ at[p] = "finish" /\ words[p] # <<>> /\ FindOK(p)
      /\ UNCHANGED <<path, start, ino, misread>> /\ Arrive(p, k) /\ ino[p] \in Devices
  BY DEF WalkInv, FinishDevfs, PlaceOK, FindInv
<1>2. /\ k \in 4..Len(cache) /\ k \in 1..Len(cache) /\ cache[k] \in Inode
      /\ cache[k].ino = ino[p] /\ k # MountPointObject
  BY <1>1 DEF MakingOK, Making, MountPointObject, WalkTypes
<1>3. cache' = [cache EXCEPT ![k] = new]
  BY DEF FinishDevfs
<1>4. new \in Inode /\ new.ino = ino[p]
  BY <1>2 DEF Inode
<1> HIDE DEF new
<1>5. /\ DOMAIN cache = 1..Len(cache) /\ DOMAIN cache' = 1..Len(cache) /\ cache'[k] = new
      /\ \A j \in 1..Len(cache) : j # k => cache'[j] = cache[j]
  BY <1>1, <1>2, <1>3, <1>4, FillLemma
<1>6. base'[p] = k
  BY <1>1, <1>2 DEF Arrive, WalkTypes
<1>7. ~misread => ino[p] # None /\ ino[p] # MountPoint
  BY <1>1 DEF FindOK, WalkInv, OwnOK
<1>8. ~misread' => cache'[base'[p]].ino = Entered(ino[p])
  BY <1>1, <1>4, <1>5, <1>6, <1>7, EnteredLemma
<1>9. ~misread' => ReadyNodes'
  BY <1>1, <1>4, <1>5, <1>7 DEF FindInv, ReadyNodes
<1> HIDE DEF k
<1> QED
  BY <1>1, <1>2, <1>8, <1>9, ArriveFinds

LEMMA FailDevfsFinds ==
  ASSUME WalkInv, WalkInv', TypesInv, FindInv, NEW p \in Proc, FailDevfs(p)
  PROVE  FindOK(p)'
<1>1. /\ WalkTypes /\ at[p] = "finish" /\ words[p] # <<>> /\ FindOK(p)
      /\ UNCHANGED <<cache, words, path, start, nomem, misread>>
      /\ at'[p] = "failed" /\ ino[p] \notin Devices
  BY DEF WalkInv, FailDevfs, PlaceOK, FindInv, Go, WalkTypes, shared
<1>2. ASSUME ~misread
      PROVE  Entered(FoundFrom(cache[base[p]].ino, Head(words[p]))) = None
  <2>1. ino[p] \in DevIno /\ ino[p] # MountRoot
    BY <1>1, <1>2 DEF WalkInv, OwnOK, IsDevfs
  <2>2. ino[p] = FoundFrom(cache[base[p]].ino, Head(words[p]))
    BY <1>1, <1>2 DEF FindOK
  <2>3. Entered(ino[p]) = None
    BY <1>1, <2>1, EnteredLemma
  <2> QED
    BY <2>2, <2>3
<1> QED
  BY <1>1, <1>2, FailsFinds

(* A walk begins with the whole path.                                      *)
LEMMA BeginFinds ==
  ASSUME WalkInv, WalkInv', TypesInv, FindInv, NEW p \in Proc, Begin(p)
  PROVE  FindOK(p)'
<1>1. PICK way \in Paths, object \in Known(p) : Walk(p, object, way)
  BY DEF Begin
<1>2. /\ WalkTypes /\ WalkRest /\ UNCHANGED <<cache, misread>>
      /\ at'[p] = IF way = <<>> THEN "done" ELSE "name"
      /\ words'[p] = way /\ path'[p] = way /\ base'[p] = object
      /\ start'[p] = cache[object].ino
  BY <1>1 DEF WalkInv, Walk, shared, Go, WalkTypes, TypesInv, WalkRest
<1>3. way \in Seq(Name)
  BY WalkAssumption
<1>4. Left(way, way) /\ Len(way) - Len(way) = 0
  <2>1. Len(way) \in Nat
    BY <1>3
  <2>2. \A i \in 1..Len(way) : Len(way) - Len(way) + i = i
    BY <2>1
  <2> QED
    BY <2>1, <2>2 DEF Left
<1>5. Reached(cache[object].ino, way)[0] = cache[object].ino
  BY <1>3, ReachedLemma
<1>6. Way(p)'[Taken(p)'] = cache'[base'[p]].ino
  BY <1>2, <1>4, <1>5 DEF Way, Taken
<1> QED
  BY <1>2, <1>4, <1>6 DEF FindOK

-----------------------------------------------------------------------------
(* A step of p leaves what is found by the others.                         *)
LEMMA OthersFind ==
  ASSUME WalkInv, WalkInv', TypesInv, FindInv, NEW p \in Proc, Begin(p) \/ Step(p),
         NEW q \in Proc \ {p}
  PROVE  FindOK(q)'
<1>0. WalkTypes /\ WalkRest /\ FindOK(q)
  BY DEF TypesInv, FindInv
<1>1. CASE Begin(p)
  <2>1. /\ at'[q] = at[q] /\ words'[q] = words[q] /\ path'[q] = path[q] /\ start'[q] = start[q]
        /\ base'[q] = base[q] /\ ino'[q] = ino[q] /\ nomem'[q] = nomem[q]
        /\ UNCHANGED <<cache, misread>>
    BY <1>0, <1>1 DEF Begin, Walk, Go, shared, WalkTypes, WalkRest
  <2> QED
    BY <1>0, <2>1, OthersFindLemma
<1>2. CASE Step(p)
  <2>1. /\ at'[q] = at[q] /\ base'[q] = base[q] /\ (misread => misread')
        /\ ~misread => cache'[base[q]] = cache[base[q]]
    BY <1>2, StepFrameLemma
  <2>2. /\ words' = words \/ \E w : words' = [words EXCEPT ![p] = w]
        /\ ino' = ino \/ \E i : ino' = [ino EXCEPT ![p] = i]
        /\ nomem' = nomem \/ nomem' = [nomem EXCEPT ![p] = TRUE]
        /\ UNCHANGED <<path, start>>
    BY <1>2 DEF Step, ReadDentry, ReadHit, ReadBlock, ScanBlock, InsertKeys, InsertName, SnapCache,
       SearchHits, SearchMisses, ReadInodes, Alloc, AllocFails, FillUcfs, FillDevfs, FinishDevfs,
       FailDevfs, Arrive
  <2>3. words'[q] = words[q] /\ ino'[q] = ino[q] /\ nomem'[q] = nomem[q]
    BY <1>0, <2>2 DEF WalkTypes, WalkRest
  <2> QED
    BY <1>0, <2>1, <2>2, <2>3, OthersFindLemma
<1> QED
  BY <1>1, <1>2

(* The inodes that are ready stay so: only ones that are not are written.  *)
LEMMA NodesStep ==
  ASSUME WalkInv, WalkInv', TypesInv, FindInv, NEW p \in Proc, Begin(p) \/ Step(p), ~misread'
  PROVE  ReadyNodes'
<1>1. CASE FillUcfs(p) \/ FillDevfs(p) \/ FinishDevfs(p)
  BY <1>1, FillUcfsFinds, FillDevfsFinds, FinishDevfsFinds
<1>2. CASE Alloc(p)
  <2> DEFINE new == [ino |-> None, block |-> None, ready |-> FALSE]
  <2>1. cache' = Append(cache, new) /\ new \in Inode /\ UNCHANGED misread
    BY <1>2 DEF Alloc, Inode, FirstBlock
  <2>2. cache \in Seq(Inode)
    BY DEF WalkInv, WalkTypes
  <2>3. /\ cache'[Len(cache) + 1] = new /\ DOMAIN cache = 1..Len(cache)
        /\ \A k \in DOMAIN cache' : k \in DOMAIN cache \/ k = Len(cache) + 1
        /\ \A k \in DOMAIN cache : cache'[k] = cache[k]
    BY <2>1, <2>2, AppendProperties
  <2> QED
    BY <2>1, <2>3 DEF FindInv, ReadyNodes
<1>3. CASE ~(Alloc(p) \/ FillUcfs(p) \/ FillDevfs(p) \/ FinishDevfs(p))
  <2>1. CASE Begin(p)
    BY <2>1 DEF Begin, Walk, shared, FindInv, ReadyNodes
  <2>2. CASE Step(p)
    <3>1. UNCHANGED cache
      BY <1>3, <2>2 DEF Step, ReadDentry, ReadHit, ReadBlock, ScanBlock, InsertKeys, InsertName,
         SnapCache, SearchHits, SearchMisses, ReadInodes, AllocFails, FailDevfs, shared
    <3>2. misread => misread'
      BY <1>3, <2>2 DEF Step, ReadDentry, ReadHit, ReadBlock, ScanBlock, InsertKeys, InsertName,
         SnapCache, SearchHits, SearchMisses, ReadInodes, AllocFails, FailDevfs
    <3> QED
      BY <3>1, <3>2 DEF FindInv, ReadyNodes
  <2> QED
    BY <2>1, <2>2
<1> QED
  BY <1>1, <1>2, <1>3

(* Every step of a walk.                                                   *)
LEMMA StepFinds ==
  ASSUME WalkInv, WalkInv', TypesInv, FindInv, NEW p \in Proc, Begin(p) \/ Step(p)
  PROVE  FindInv'
<1>1. FindOK(p)'
  BY BeginFinds, ReadDentryFinds, ReadHitFinds, ScanBlockFinds, InsertNameFinds, QuietFinds,
     SearchHitsFinds, AllocFinds, FillUcfsFinds, FillDevfsFinds, FinishDevfsFinds, FailDevfsFinds
     DEF Step
<1>2. \A q \in Proc \ {p} : FindOK(q)'
  BY OthersFind
<1>3. ~misread' => ReadyNodes'
  BY NodesStep
<1> QED
  BY <1>1, <1>2, <1>3 DEF FindInv

(* A step of a read finds nothing and loses nothing.                       *)
LEMMA ReadFinds ==
  ASSUME FindInv, UNCHANGED <<cache, local>>, misread => misread'
  PROVE  FindInv'
BY DEF FindInv, ReadyNodes, FindOK, Way, Taken, local

(* FindInv is inductive together with WalkInv and the types.               *)
LEMMA FindInductive ==
  WalkInv /\ WalkInv' /\ TypesInv /\ FindInv /\ [UcfsNext]_ucfsVars => FindInv'
<1> SUFFICES ASSUME WalkInv, WalkInv', TypesInv, FindInv, [UcfsNext]_ucfsVars
             PROVE  FindInv'
  OBVIOUS
<1>1. CASE UNCHANGED ucfsVars
  BY <1>1, ReadFinds DEF ucfsVars, walkVars, shared
<1>2. CASE UcfsNext
  <2>1. PICK p \in Proc : \/ Begin(p) \/ Step(p) \/ ReadStep(p)
                          \/ \E req \in Requests : Read(p, req)
    BY <1>2 DEF UcfsNext
  <2>2. CASE ReadStep(p) \/ \E req \in Requests : Read(p, req)
    <3>1. UNCHANGED <<cache, local>>
      BY <2>2 DEF ReadStep, Read, ReadIndex, CopyIndex, ReadHead, CopyHead, ReadWhole, ReadTail,
         CopyTail, shared
    <3>2. misread => misread'
      BY <2>2 DEF ReadStep, Read, ReadIndex, CopyIndex, ReadHead, CopyHead, ReadWhole, ReadTail,
         CopyTail, UseIndex
    <3> QED
      BY <3>1, <3>2, ReadFinds
  <2> QED
    BY <2>1, <2>2, StepFinds
<1> QED
  BY <1>1, <1>2

LEMMA FindInitLemma ==
  ASSUME UcfsInit
  PROVE  FindInv
<1>1. cache = <<Object(Root), Object(MountPoint), Object(MountRoot)>>
  BY DEF UcfsInit, WalkInit
<1>2. {Root, MountPoint, MountRoot} \cap {None} = {} /\ {Root, MountPoint} \cap DevIno = {}
  BY WalkAssumption DEF Ino, DevIno
<1>3. ReadyNodes
  <2>1. /\ DOMAIN cache = 1..3 /\ cache[1].ino = Root /\ cache[2].ino = MountPoint
        /\ cache[3].ino = MountRoot
    BY <1>1 DEF Object
  <2>2. ASSUME NEW k \in DOMAIN cache
        PROVE  cache[k].ino # None /\ (cache[k].ino \in DevIno => cache[k].ino = MountRoot)
    <3>1. k = 1 \/ k = 2 \/ k = 3
      BY <2>1
    <3> QED
      BY <1>2, <2>1, <3>1
  <2> QED
    BY <2>2 DEF ReadyNodes
<1>4. \A p \in Proc : FindOK(p)
  BY DEF UcfsInit, WalkInit, FindOK, Left
<1> QED
  BY <1>3, <1>4 DEF FindInv

(* Without a race a walk finds the inode that its path names, or fails     *)
(* because there is none, for any tree, any path, any history of the       *)
(* caches and any number of processes.                                     *)
THEOREM WalksFind == UcfsSpec => []WalkFinds
<1>1. UcfsInit => WalkInv /\ TypesInv /\ FindInv
  BY WalkInitLemma, TypesInitLemma, FindInitLemma DEF UcfsInit
<1>2. TypesInv /\ FindInv => WalkFinds
  <2> SUFFICES ASSUME TypesInv, FindInv, NEW p \in Proc, ~misread, at[p] = "done"
               PROVE  cache[base[p]].ino = Meaning(start[p], path[p])
    BY DEF WalkFinds, FindInv, FindOK
  <2>1. words[p] = <<>> /\ Way(p)[Taken(p)] = cache[base[p]].ino /\ path[p] \in Seq(Name)
    BY DEF FindInv, FindOK, TypesInv, WalkRest
  <2>2. Taken(p) = Len(path[p])
    BY <2>1 DEF Taken
  <2> QED
    BY <2>1, <2>2 DEF Meaning, Way
<1> QED
  BY <1>1, <1>2, TypesInductive, FindInductive, PTL DEF UcfsSpec
=============================================================================
