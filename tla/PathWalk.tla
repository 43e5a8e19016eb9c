------------------------------ MODULE PathWalk ------------------------------
(***************************************************************************)
(* The path walk of fs/vfs.c over uCFS and devfs: vfs_walk_rel with its    *)
(* two caches, the dentries (name and directory to inode number) and the   *)
(* inodes, and the mount of devfs in the root file system.                 *)
(*                                                                         *)
(* Processes walk at the same time.  The dentries are searched without a   *)
(* lock, and uCFS reads its blocks into one scratch buffer per file        *)
(* system, also without one; both races are in the model, and misread      *)
(* records that one of them has happened.  What is done under              *)
(* vfs_cache_lock is one step.                                             *)
(*                                                                         *)
(* Reference counts are left out: nothing is ever evicted because of them. *)
(* A path is its sequence of words; mkdir, unlink and the like do nothing. *)
(***************************************************************************)
EXTENDS Naturals, Sequences, FiniteSets, FiniteSetsExt

CONSTANTS Proc,          \* the processes that walk
          Entries,       \* uCFS: the entries of each directory, by its inode number
          Files,         \* uCFS: the inode numbers of regular files
          NumBlocks,     \* uCFS: how many data blocks each regular file has
          Sector,        \* uCFS: the block of the inode table an inode number is in
                         \* (None stands for a number that was never written)
          Nodes,         \* devfs: the names of the handles, and their inode numbers
          Devices,       \* the inode numbers of devfs handles whose device exists
          Root,          \* the root of uCFS, mounted on /
          MountPoint,    \* the uCFS directory devfs is mounted on
          MountRoot,     \* the root of devfs
          Paths,         \* bound: the paths that are looked up
          Len_Dentry,    \* DENTRY_CACHE_LEN
          MaxWalks,      \* bound: walks (and reads, in Ucfs) in a behaviour
          None

Dir == DOMAIN Entries
InodeTable == {Sector[n] : n \in DOMAIN Sector}
DevIno == {Nodes[w] : w \in DOMAIN Nodes} \cup {MountRoot}
Ino == Dir \cup Files \cup DevIno
Name == (UNION {DOMAIN Entries[d] : d \in Dir}) \cup DOMAIN Nodes \cup {".", ".."}
           \cup (UNION {{path[i] : i \in DOMAIN path} : path \in Paths})

ASSUME WalkAssumption ==
  /\ Root \in Dir /\ MountPoint \in Dir \ {Root}
  /\ Dir \cap Files = {} /\ DevIno \cap (Dir \cup Files) = {}
  /\ \A d \in Dir : ".." \in DOMAIN Entries[d] /\ Entries[d][".."] \in Dir
  /\ Entries[MountPoint][".."] = Root
  /\ \E w \in DOMAIN Entries[Root] : Entries[Root][w] = MountPoint
  /\ \A d \in Dir, w \in Name : w \in DOMAIN Entries[d] => Entries[d][w] \in Dir \cup Files
  /\ Len_Dentry \in Nat \ {0} /\ MaxWalks \in Nat
  /\ NumBlocks \in [Files -> Nat]
  /\ DOMAIN Sector = Ino \cup {None}
  /\ \A n \in Files : \A k \in 0..NumBlocks[n] : <<n, k>> \notin Dir \cup InodeTable \cup {None}
  /\ Paths \subseteq Seq(Name)
  /\ None \notin Ino \cup Name \cup Proc

VARIABLES cache,      \* cache_list, the oldest inode first
          dentries,   \* dentry_cache, indexed from 0
          index,      \* dentry_cache_index
          lock,       \* vfs_dentry_lock: its owner, or None
          scratch,    \* scratch_buffer: the block it holds
          at,         \* where a process is
          start,      \* history: the inode a walk starts from
          words,      \* the words that are left of the path
          base, dir,  \* inode objects, as indices of cache
          ino,        \* the inode number looked up
          aux,        \* the dentry matched, the length of cache_list when the
                      \* search began, or the inode object that is being made
          path,       \* history: the whole path
          nomem,      \* history: inode_alloc has failed in this walk
          walks,      \* history: how many walks were begun
          misread     \* history: a process has used a block, a dentry or an inode
                      \* that it did not itself read, find or fill

shared == <<cache, dentries, index, lock, scratch>>
local == <<at, start, words, base, dir, ino, aux, path, nomem>>
walkVars == <<shared, local, walks, misread>>

Places == {"user", "name", "hit", "block", "scan", "insert", "rename", "snap", "search",
           "inodes", "alloc", "fill", "finish", "done", "failed"}

\* a directory is its block; block 0 of a file holds the numbers of the others
IndexBlock(n) == <<n, 0>>
BlockOf(n) == CASE n \in Dir -> n [] n \in Files -> IndexBlock(n) [] OTHER -> None
FirstBlock == {BlockOf(n) : n \in Dir \cup Files} \cup {None}
Blocks == Dir \cup InodeTable \cup UNION {{<<n, k>> : k \in 0..NumBlocks[n]} : n \in Files}

Inode == [ino : Ino \cup {None}, block : FirstBlock, ready : BOOLEAN]
Dentry == [name : Name \cup {None}, parent : Ino \cup {None}, ino : Ino \cup {None}]

WalkTypeOK ==
  /\ cache \in Seq(Inode) /\ Len(cache) >= 3
  /\ dentries \in [0..(Len_Dentry - 1) -> Dentry]
  /\ index \in 0..(Len_Dentry - 1)
  /\ lock \in Proc \cup {None}
  /\ scratch \in Blocks \cup {None}
  /\ at \in [Proc -> Places]
  /\ words \in [Proc -> Seq(Name)] /\ path \in [Proc -> Seq(Name)]
  /\ start \in [Proc -> Ino \cup {None}]
  /\ base \in [Proc -> 1..Len(cache)] /\ dir \in [Proc -> 1..Len(cache)]
  /\ ino \in [Proc -> Ino \cup {None}]
  /\ aux \in [Proc -> Nat]
  /\ nomem \in [Proc -> BOOLEAN] /\ misread \in BOOLEAN
  /\ walks \in 0..MaxWalks

(* The objects that kernel_init_process has put into the cache. *)
RootObject == 1
MountPointObject == 2
MountRootObject == 3

Object(n) == [ino |-> n, block |-> BlockOf(n), ready |-> TRUE]
NoDentry == [name |-> None, parent |-> None, ino |-> None]

\* an index that is not masked
NextDentryNoMask(i) == i + 1

\* the ring of dentries, forward and back
NextDentry(i) == IF i = Len_Dentry - 1 THEN 0 ELSE i + 1
LastDentry == IF index = 0 THEN Len_Dentry - 1 ELSE index - 1

\* after vfs_mount_root and vfs_mount_dev("/dev", "devfs", 0)
WalkInit ==
  /\ cache = <<Object(Root), Object(MountPoint), Object(MountRoot)>>
  /\ dentries = [i \in 0..(Len_Dentry - 1) |->
       IF i = 0
       THEN [name |-> CHOOSE w \in DOMAIN Entries[Root] : Entries[Root][w] = MountPoint,
             parent |-> Root, ino |-> MountPoint]
       ELSE NoDentry]
  /\ index = NextDentry(0)
  /\ lock = None
  /\ scratch = Sector[MountPoint]
  /\ at = [p \in Proc |-> "user"]
  /\ start = [p \in Proc |-> Root]
  /\ words = [p \in Proc |-> <<>>] /\ path = [p \in Proc |-> <<>>]
  /\ base = [p \in Proc |-> RootObject] /\ dir = [p \in Proc |-> RootObject]
  /\ ino = [p \in Proc |-> None]
  /\ aux = [p \in Proc |-> 0]
  /\ nomem = [p \in Proc |-> FALSE]
  /\ walks = 0 /\ misread = FALSE

IsDevfs(n) == n \in DevIno

\* what a directory block holds under a name; no other block matches one
EntryOf(block, name) ==
  IF block \in Dir /\ name \in DOMAIN Entries[block] THEN Entries[block][name] ELSE None

\* devfs_lookup: the same names in every directory
NodeOf(name) ==
  IF name = ".." THEN MountRoot ELSE IF name \in DOMAIN Nodes THEN Nodes[name] ELSE None

----------------------------------------------------------------------------
Go(p, place) == at' = [at EXCEPT ![p] = place]

\* vfs_walk_path from / or from the current directory, or vfs_walk_rel from
\* what was opened before; with VFS_LOOKUP_BASE the last word is left out
Walk(p, object, way) ==
  /\ at[p] \in {"user", "done", "failed"} /\ walks < MaxWalks
  /\ Go(p, IF way = <<>> THEN "done" ELSE "name")
  /\ start' = [start EXCEPT ![p] = cache[object].ino]
  /\ base' = [base EXCEPT ![p] = object]
  /\ dir' = [dir EXCEPT ![p] = object]
  /\ words' = [words EXCEPT ![p] = way]
  /\ path' = [path EXCEPT ![p] = way]
  /\ ino' = [ino EXCEPT ![p] = None]
  /\ aux' = [aux EXCEPT ![p] = 0]
  /\ nomem' = [nomem EXCEPT ![p] = FALSE]
  /\ walks' = walks + 1
  /\ UNCHANGED <<shared, misread>>

\* a search of the dentries by name only
MatchName(name, parent) == {i \in DOMAIN dentries : dentries[i].name = name}

Match(name, parent) ==
  {i \in DOMAIN dentries : dentries[i].name = name /\ dentries[i].parent = parent}

\* .. of the root of a mounted file system is looked up in the mountpoint
DirFor(p) ==
  IF Head(words[p]) = ".." /\ base[p] = MountRootObject THEN MountPointObject ELSE base[p]

\* the dentry that the owner of the lock is writing
Torn(i) == lock # None /\ i = LastDentry

\* vfs_read_dentry up to the call of lookup; the lookup of devfs
ReadDentry(p) ==
  /\ at[p] = "name"
  /\ LET name == Head(words[p])
         parent == cache[DirFor(p)].ino
         hits == Match(name, parent)
     IN  IF name = "."
         THEN /\ Go(p, "snap") /\ ino' = [ino EXCEPT ![p] = cache[base[p]].ino]
              /\ UNCHANGED <<dir, aux, misread>>
         ELSE /\ dir' = [dir EXCEPT ![p] = DirFor(p)]
              /\ IF hits # {}
                 THEN \E i \in hits :
                        /\ \A j \in hits : i <= j
                        /\ Go(p, "hit") /\ aux' = [aux EXCEPT ![p] = i]
                        /\ misread' = (misread \/ Torn(i))
                        /\ UNCHANGED ino
                 ELSE IF IsDevfs(parent)
                 THEN /\ Go(p, IF NodeOf(name) = None THEN "failed" ELSE "insert")
                      /\ ino' = [ino EXCEPT ![p] = NodeOf(name)]
                      /\ UNCHANGED <<aux, misread>>
                 ELSE Go(p, "block") /\ UNCHANGED <<aux, ino, misread>>
  /\ UNCHANGED <<shared, start, words, base, path, nomem, walks>>

\* return d->ino of the dentry that matched
ReadHit(p) ==
  /\ at[p] = "hit"
  /\ ino' = [ino EXCEPT ![p] = dentries[aux[p]].ino]
  /\ misread' = (misread \/ Torn(aux[p])
                   \/ aux[p] \notin Match(Head(words[p]), cache[dir[p]].ino))
  /\ Go(p, "snap")
  /\ UNCHANGED <<shared, start, words, base, dir, aux, path, nomem, walks>>

\* ucfs_lookup reads the block of the directory
ReadBlock(p) ==
  /\ at[p] = "block"
  /\ scratch' = cache[dir[p]].block
  /\ Go(p, "scan")
  /\ UNCHANGED <<cache, dentries, index, lock, start, words, base, dir, ino, aux, path, nomem,
                 walks, misread>>

\* ucfs_lookup searches the name in the scratch buffer
ScanBlock(p) ==
  /\ at[p] = "scan"
  /\ LET found == EntryOf(scratch, Head(words[p]))
     IN  /\ ino' = [ino EXCEPT ![p] = found]
         /\ Go(p, IF found = None THEN "failed" ELSE "insert")
  /\ misread' = (misread \/ scratch # cache[dir[p]].block)
  /\ UNCHANGED <<shared, start, words, base, dir, aux, path, nomem, walks>>

\* a new dentry under the directory the walk stands in
InsertKeysOfBase(p) ==
  /\ at[p] = "insert"
  /\ lock = None /\ lock' = p
  /\ dentries' = [dentries EXCEPT ![index].ino = ino[p],
                                  ![index].parent = cache[base[p]].ino]
  /\ index' = NextDentry(index)
  /\ Go(p, "rename")
  /\ UNCHANGED <<cache, scratch, start, words, base, dir, ino, aux, path, nomem, walks, misread>>

\* a new dentry: first its two numbers, then its name
InsertKeys(p) ==
  /\ at[p] = "insert"
  /\ lock = None /\ lock' = p
  /\ dentries' = [dentries EXCEPT ![index].ino = ino[p],
                                  ![index].parent = cache[dir[p]].ino]
  /\ index' = NextDentry(index)
  /\ Go(p, "rename")
  /\ UNCHANGED <<cache, scratch, start, words, base, dir, ino, aux, path, nomem, walks, misread>>

InsertName(p) ==
  /\ at[p] = "rename"
  /\ dentries' = [dentries EXCEPT ![LastDentry].name = Head(words[p])]
  /\ lock' = None
  /\ Go(p, "snap")
  /\ UNCHANGED <<cache, index, scratch, start, words, base, dir, ino, aux, path, nomem, walks,
                 misread>>

----------------------------------------------------------------------------
\* vfs_read_inode takes the head of the list before it takes the lock
SnapCache(p) ==
  /\ at[p] = "snap"
  /\ aux' = [aux EXCEPT ![p] = Len(cache)]
  /\ Go(p, "search")
  /\ UNCHANGED <<shared, start, words, base, dir, ino, path, nomem, walks, misread>>

\* a search that stops before the last inode of the list
CachedNotLast(p) == {k \in 2..aux[p] : cache[k].ino = ino[p]}

Cached(p) == {k \in 1..aux[p] : cache[k].ino = ino[p]}

\* check_mount (of an inode that is not ready it would read a mode that was
\* never written; misread says so) and the end of the loop body: the walk goes on from an object
Arrive(p, object) ==
  /\ base' = [base EXCEPT ![p] = IF object = MountPointObject THEN MountRootObject ELSE object]
  /\ words' = [words EXCEPT ![p] = Tail(@)]
  /\ Go(p, IF Len(words[p]) = 1 THEN "done" ELSE "name")

SearchHits(p) ==
  /\ at[p] = "search"
  /\ \E k \in Cached(p) :
       /\ \A j \in Cached(p) : j <= k
       /\ Arrive(p, k)
       /\ misread' = (misread \/ ~cache[k].ready)
  /\ UNCHANGED <<shared, start, dir, ino, aux, path, nomem, walks>>

\* the inode is read by the file system of the directory the walk stands in
SearchMisses(p) ==
  /\ at[p] = "search" /\ Cached(p) = {}
  /\ Go(p, IF IsDevfs(cache[base[p]].ino) THEN "alloc" ELSE "inodes")
  /\ UNCHANGED <<shared, start, words, base, dir, ino, aux, path, nomem, walks, misread>>

\* ucfs_read_i reads the block of the inode table that its inode is in
ReadInodes(p) ==
  /\ at[p] = "inodes"
  /\ scratch' = Sector[ino[p]]
  /\ Go(p, "alloc")
  /\ UNCHANGED <<cache, dentries, index, lock, start, words, base, dir, ino, aux, path, nomem,
                 walks, misread>>

\* inode_alloc: the new inode is in the list before its fields are set
Alloc(p) ==
  /\ at[p] = "alloc"
  /\ cache' = Append(cache, [ino |-> None, block |-> None, ready |-> FALSE])
  /\ aux' = [aux EXCEPT ![p] = Len(cache')]
  /\ Go(p, "fill")
  /\ UNCHANGED <<dentries, index, lock, scratch, start, words, base, dir, ino, path, nomem, walks,
                 misread>>

AllocFails(p) ==
  /\ at[p] = "alloc"
  /\ Go(p, "failed")
  /\ nomem' = [nomem EXCEPT ![p] = TRUE]
  /\ UNCHANGED <<shared, start, words, base, dir, ino, aux, path, walks, misread>>

\* the rest of ucfs_read_i: what is in the scratch buffer is taken for the inode,
\* another one of the same index if it is another sector of the table by now
FillUcfs(p) ==
  /\ at[p] = "fill" /\ ~IsDevfs(cache[base[p]].ino)
  /\ \E block \in IF scratch = Sector[ino[p]] THEN {BlockOf(ino[p])} ELSE FirstBlock :
       cache' = [cache EXCEPT ![aux[p]] = [ino |-> ino[p], block |-> block, ready |-> TRUE]]
  /\ misread' = (misread \/ scratch # Sector[ino[p]])
  /\ Arrive(p, aux[p])
  /\ UNCHANGED <<dentries, index, lock, scratch, start, dir, ino, aux, path, nomem, walks>>

\* devfs_read_i takes no lock: first the number, then the mode and the device
FillDevfs(p) ==
  /\ at[p] = "fill" /\ IsDevfs(cache[base[p]].ino)
  /\ cache' = [cache EXCEPT ![aux[p]].ino = ino[p]]
  /\ Go(p, "finish")
  /\ UNCHANGED <<dentries, index, lock, scratch, start, words, base, dir, ino, aux, path, nomem,
                 walks, misread>>

FinishDevfs(p) ==
  /\ at[p] = "finish" /\ ino[p] \in Devices
  /\ cache' = [cache EXCEPT ![aux[p]].ready = TRUE]
  /\ Arrive(p, aux[p])
  /\ UNCHANGED <<dentries, index, lock, scratch, start, dir, ino, aux, path, nomem, walks, misread>>

\* there is no such device: the inode stays in the list as it is
FailDevfs(p) ==
  /\ at[p] = "finish" /\ ino[p] \notin Devices
  /\ Go(p, "failed")
  /\ UNCHANGED <<shared, start, words, base, dir, ino, aux, path, nomem, walks, misread>>

----------------------------------------------------------------------------
Step(p) ==
  \/ ReadDentry(p) \/ ReadHit(p) \/ ReadBlock(p) \/ ScanBlock(p)
  \/ InsertKeys(p) \/ InsertName(p)
  \/ SnapCache(p) \/ SearchHits(p) \/ SearchMisses(p)
  \/ ReadInodes(p) \/ Alloc(p) \/ AllocFails(p)
  \/ FillUcfs(p) \/ FillDevfs(p) \/ FinishDevfs(p) \/ FailDevfs(p)

\* the inodes a process may walk from: the roots, and what it has found before
Known(p) == {RootObject, MountRootObject} \cup (IF at[p] = "done" THEN {base[p]} ELSE {})

Begin(p) == \E way \in Paths, object \in Known(p) : Walk(p, object, way)

WalkNext == \E p \in Proc : Begin(p) \/ Step(p)

WalkSpec == WalkInit /\ [][WalkNext]_walkVars

----------------------------------------------------------------------------
(* What lookup should find: the entry of a name in a directory. *)
Found(n, name) == IF IsDevfs(n) THEN NodeOf(name) ELSE EntryOf(n, name)

(* What a path means, without the caches: one word, and all of them. *)
FoundFrom(n, name) ==
  IF name = "." THEN n
  ELSE IF name = ".." /\ n = MountRoot THEN EntryOf(MountPoint, name) ELSE Found(n, name)

\* a mountpoint stands for what is mounted on it, and a handle needs a device
Entered(found) ==
  CASE found = MountPoint -> MountRoot
    [] found \in DevIno \ (Devices \cup {MountRoot}) -> None
    [] OTHER -> found

\* where each word of the path leads
Reached(n, way) ==
  LET m[k \in 0..Len(way)] ==
        IF k = 0 THEN n ELSE IF m[k - 1] = None THEN None ELSE Entered(FoundFrom(m[k - 1], way[k]))
  IN  m

Meaning(n, way) == Reached(n, way)[Len(way)]

(* A walk finds the inode its path names, or fails if there is none,       *)
(* whatever the caches hold and have evicted and wherever it crosses the   *)
(* mount, up and down, as long as memory does not run out and misread is   *)
(* false: no process has used a block, a dentry or an inode that it did    *)
(* not itself read, find or fill (vfs.c searches both caches, and ucfs.c   *)
(* uses its buffer, without a lock).                                       *)
WalkFinds ==
  \A p \in Proc : ~misread =>
    /\ at[p] = "done" => cache[base[p]].ino = Meaning(start[p], path[p])
    /\ at[p] = "failed" /\ ~nomem[p] => Meaning(start[p], path[p]) = None

(* The dentries never lie: a dentry that is not being written is an entry  *)
(* of its directory.                                                       *)
DentriesTrue ==
  ~misread => \A i \in DOMAIN dentries :
    LET d == dentries[i] IN
    d.name # None /\ ~Torn(i) => d.ino = Found(d.parent, d.name)

(* An inode is read by the file system it belongs to.  Going up from the   *)
(* root of a mount the walk asks the file system it leaves; that is right  *)
(* only because the inode above a mountpoint is always found in the cache. *)
ReadsOwnInode ==
  \A p \in Proc : ~misread /\ at[p] \in {"inodes", "alloc"} =>
    IsDevfs(ino[p]) <=> IsDevfs(cache[base[p]].ino)

(* Two processes may cache an inode twice, but never the mountpoint or the *)
(* root of a mount: check_mount and .. compare pointers.                   *)
MountsCachedOnce ==
  ~misread => \A k \in DOMAIN cache \ {RootObject, MountPointObject, MountRootObject} :
                cache[k].ino \notin {Root, MountPoint, MountRoot}

(* vfs.h: lookup finds "an inode inside a dir": what ucfs_lookup returns   *)
(* is the entry of that name in the directory it was given.                *)
LookupFindsName ==
  \A p \in Proc :
    at[p] = "insert" /\ ~IsDevfs(cache[dir[p]].ino) =>
      ino[p] = EntryOf(cache[dir[p]].ino, Head(words[p]))
=============================================================================
