-------------------------------- MODULE Ucfs --------------------------------
(***************************************************************************)
(* Reading files: ucfs_read of fs/ucfs.c, of a process whose walk has      *)
(* found a regular file, while others walk and read.  The index of the     *)
(* file is copied to indirect_buffer, its blocks go through the scratch    *)
(* buffer or straight to the caller; both buffers are shared and nothing   *)
(* locks them.                                                             *)
(*                                                                         *)
(* A byte of a file is the pair of the file and its position.  A block has *)
(* BlockSize bytes (512); a block number fits the 8 bits of block_offset.  *)
(***************************************************************************)
EXTENDS PathWalk, Integers

CONSTANTS BlockSize,   \* BLOCK_SIZE
          BlockMod,    \* 256: a block number is a uint8_t, an index has as many entries
          Foreign,     \* the block numbers that a block that is no index holds
          Size,        \* the size of each regular file, in bytes
          Requests     \* bound: the pairs of offset and count that are read

IndexBlocks == {IndexBlock(n) : n \in Files}
NoIndex == (Blocks \cup {None}) \ IndexBlocks
Offsets == {req.offset : req \in Requests}

ASSUME UcfsAssumption ==
  /\ BlockSize \in Nat \ {0}
  /\ Size \in [Files -> Nat]
  /\ BlockMod \in Nat \ {0}
  /\ \A n \in Files : NumBlocks[n] < BlockMod   \* 255 is BLOCK_NIL
  /\ Foreign \in [NoIndex -> [0..(BlockMod - 1) -> Blocks \cup {None}]]
  /\ \A n \in Files : Size[n] <= NumBlocks[n] * BlockSize
                      /\ Size[n] > (NumBlocks[n] - 1) * BlockSize
  /\ \A request \in Requests : request.offset \in Nat /\ request.count \in Nat

VARIABLES indirect,    \* indirect_buffer: the index block it is a copy of
          reading,     \* where in ucfs_read a process is, "no" outside
          request,     \* offset and count, as they were
          begun,       \* f->offset when it is read again, after the index
          count,       \* the argument count, cut at the end of the file
          current,     \* current_block
          whole,       \* how many whole blocks the loop still has to read
          buff         \* what was copied to the caller, a sequence of bytes

readVars == <<indirect, reading, request, begun, count, current, whole, buff>>
ucfsVars == <<walkVars, readVars>>

DataBlocks == Blocks \ (FirstBlock \cup InodeTable)
Byte == (UNION {{<<n, i>> : i \in 0..(NumBlocks[n] * BlockSize - 1)} : n \in Files})
          \cup ((Blocks \cup {None}) \X (0..(BlockSize - 1)))
ReadPlaces == {"no", "index", "copy", "head", "copy_head", "blocks", "tail", "copy_tail",
               "returned", "overrun"}

UcfsTypeOK ==
  /\ WalkTypeOK
  /\ indirect \in Blocks \cup {None}
  /\ reading \in [Proc -> ReadPlaces]
  /\ request \in [Proc -> Requests \cup {None}]
  /\ count \in [Proc -> Int]
  /\ begun \in [Proc -> Nat]
  /\ current \in [Proc -> 0..(BlockMod - 1)] /\ whole \in [Proc -> Int]
  /\ buff \in [Proc -> Seq(Byte)]

UcfsInit ==
  /\ WalkInit
  /\ indirect = None
  /\ reading = [p \in Proc |-> "no"]
  /\ request = [p \in Proc |-> None]
  /\ begun = [p \in Proc |-> 0] /\ count = [p \in Proc |-> 0]
  /\ current = [p \in Proc |-> 0] /\ whole = [p \in Proc |-> 0]
  /\ buff = [p \in Proc |-> <<>>]

----------------------------------------------------------------------------
FileOf(p) == cache[base[p]].ino
ByteOffset(p) == begun[p] % BlockSize
Goto(p, place) == reading' = [reading EXCEPT ![p] = place]

\* a block number, the next one, and the block that current_block has just left
BlockNo(offset) == (offset \div BlockSize) % BlockMod
NextNo(k) == (k + 1) % BlockMod
JustRead(p) == <<FileOf(p), current[p]>>

\* entry k of a block that is taken for an index, None for BLOCK_NIL
Entry(ix, k) ==
  CASE ix \notin IndexBlocks -> Foreign[ix][k]
    [] ix \in IndexBlocks /\ k < NumBlocks[ix[1]] -> <<ix[1], k + 1>>
    [] OTHER -> None
DataBlock(k) == Entry(indirect, k)

\* n bytes of a block, from byte i on: of a file, or of whatever block it is
Bytes(block, i, n) ==
  [j \in 1..n |-> IF block \in DataBlocks
                 THEN <<block[1], (block[2] - 1) * BlockSize + i + j - 1>>
                 ELSE <<block, i + j - 1>>]

\* a count that is not cut
CutNever(n, offset, size) == n

\* count, cut at the end of the file: negative when the offset is beyond it
Cut(n, offset, size) == IF n + offset > size THEN size - offset ELSE n

\* vfs_read of a regular file that was found before
Read(p, req) ==
  /\ at[p] = "done" /\ FileOf(p) \in Files /\ reading[p] \in {"no", "returned"}
  /\ walks < MaxWalks /\ walks' = walks + 1
  /\ Goto(p, "index")
  /\ request' = [request EXCEPT ![p] = req]
  /\ count' = [count EXCEPT ![p] = Cut(req.count, req.offset, Size[FileOf(p)])]
  /\ begun' = [begun EXCEPT ![p] = req.offset]
  /\ current' = [current EXCEPT ![p] = 0] /\ whole' = [whole EXCEPT ![p] = 0]
  /\ buff' = [buff EXCEPT ![p] = <<>>]
  /\ UNCHANGED <<shared, local, misread, indirect>>

\* the index block is read
ReadIndex(p) ==
  /\ reading[p] = "index"
  /\ scratch' = cache[base[p]].block
  /\ Goto(p, "copy")
  /\ UNCHANGED <<cache, dentries, index, lock, local, walks, misread, indirect, request, begun,
                 count, current, whole, buff>>

\* memcpy to indirect_buffer; f->offset is read again, and another process with
\* the file open may have moved it; there is no block at the offset, or one
CopyIndex(p) ==
  /\ reading[p] = "copy"
  /\ indirect' = scratch
  /\ misread' = (misread \/ scratch # cache[base[p]].block)
  /\ \E offset \in Offsets :
       /\ begun' = [begun EXCEPT ![p] = offset]
       /\ current' = [current EXCEPT ![p] = BlockNo(offset)]
       /\ Goto(p, IF Entry(scratch, BlockNo(offset)) = None THEN "returned"
                  ELSE IF offset % BlockSize # 0 THEN "head" ELSE "blocks")
  /\ whole' = [whole EXCEPT ![p] = count[p] \div BlockSize]
  /\ UNCHANGED <<shared, local, walks, request, count, buff>>

\* indirect_buffer is used: it may be the index of another file by now
UseIndex(p) == misread' = (misread \/ indirect # cache[base[p]].block)

\* the block with the first bytes, when they are not at its beginning
ReadHead(p) ==
  /\ reading[p] = "head"
  /\ scratch' = DataBlock(current[p])
  /\ UseIndex(p)
  /\ current' = [current EXCEPT ![p] = NextNo(@)]
  /\ Goto(p, "copy_head")
  /\ UNCHANGED <<cache, dentries, index, lock, local, walks, indirect, request, begun, count, whole,
                 buff>>

\* memcpy of its last bytes, or of count; a negative count is a huge size_t
CopyHead(p) ==
  LET rest == BlockSize - ByteOffset(p)
      to_read == IF rest > count[p] THEN count[p] ELSE rest
  IN  /\ reading[p] = "copy_head"
      /\ IF to_read < 0
         THEN Goto(p, "overrun") /\ UNCHANGED buff
         ELSE /\ buff' = [buff EXCEPT ![p] = @ \o Bytes(scratch, ByteOffset(p), to_read)]
              /\ Goto(p, IF DataBlock(current[p]) = None THEN "returned" ELSE "blocks")
      /\ misread' = (misread \/ indirect # cache[base[p]].block
                       \/ scratch # JustRead(p))
      /\ UNCHANGED <<shared, local, walks, indirect, request, begun, count, current, whole>>

\* one whole block straight to the caller; after the last block of the file
\* the call returns
ReadWhole(p) ==
  /\ reading[p] = "blocks" /\ whole[p] > 0
  /\ buff' = [buff EXCEPT ![p] = @ \o Bytes(DataBlock(current[p]), 0, BlockSize)]
  /\ UseIndex(p)
  /\ current' = [current EXCEPT ![p] = NextNo(@)]
  /\ whole' = [whole EXCEPT ![p] = @ - 1]
  /\ Goto(p, IF DataBlock(NextNo(current[p])) = None THEN "returned" ELSE "blocks")
  /\ UNCHANGED <<shared, local, walks, indirect, request, begun, count>>

\* count - bytes_read is unsigned: it is zero or positive
ReadTail(p) ==
  /\ reading[p] = "blocks" /\ whole[p] <= 0
  /\ UseIndex(p)
  /\ IF count[p] = Len(buff[p])
     THEN Goto(p, "returned") /\ UNCHANGED <<scratch, current>>
     ELSE /\ scratch' = DataBlock(current[p])
          /\ current' = [current EXCEPT ![p] = NextNo(@)]
          /\ Goto(p, "copy_tail")
  /\ UNCHANGED <<cache, dentries, index, lock, local, walks, indirect, request, begun, count, whole,
                 buff>>

CopyTail(p) ==
  LET to_read == count[p] - Len(buff[p])
  IN  /\ reading[p] = "copy_tail"
      /\ IF to_read < 0
         THEN Goto(p, "overrun") /\ UNCHANGED buff
         ELSE /\ buff' = [buff EXCEPT ![p] = @ \o Bytes(scratch, 0, to_read)]
              /\ Goto(p, "returned")
      /\ misread' = (misread \/ scratch # JustRead(p))
      /\ UNCHANGED <<shared, local, walks, indirect, request, begun, count, current, whole>>

ReadStep(p) ==
  \/ ReadIndex(p) \/ CopyIndex(p) \/ ReadHead(p) \/ CopyHead(p)
  \/ ReadWhole(p) \/ ReadTail(p) \/ CopyTail(p)

\* a process walks or reads
UcfsNext ==
  \E p \in Proc :
    \/ /\ reading[p] \in {"no", "returned"} /\ Begin(p)
       /\ Goto(p, "no")
       /\ buff' = [buff EXCEPT ![p] = <<>>]
       /\ UNCHANGED <<indirect, request, begun, count, current, whole>>
    \/ Step(p) /\ UNCHANGED readVars
    \/ \E req \in Requests : Read(p, req)
    \/ ReadStep(p)

UcfsSpec == UcfsInit /\ [][UcfsNext]_ucfsVars

----------------------------------------------------------------------------
(* What a read should return: the bytes from the offset on, count of them  *)
(* or as many as the file has.                                             *)
Wanted(n, req) ==
  LET left == IF req.offset < Size[n] THEN Size[n] - req.offset ELSE 0
  IN  [j \in 1..Min({req.count, left}) |-> <<n, req.offset + j - 1>>]

\* the requests that ucfs_read is right for: from the beginning of a block,
\* less than a block, or with a rest at least as long as what the first block
\* gives; beyond the end of the file, those for which the 8 bits of the block
\* number name no block of it
Fits(n, req) ==
  LET c == Len(Wanted(n, req))
      byte_offset == req.offset % BlockSize
  IN  IF req.offset > Size[n] THEN (req.offset \div BlockSize) % BlockMod >= NumBlocks[n]
      ELSE byte_offset = 0 \/ c < BlockSize \/ BlockSize - byte_offset <= c % BlockSize

(* A read of a file returns what it should for exactly the requests that   *)
(* fit (ucfs.c:26-73), as long as no process has used a buffer that        *)
(* another had changed, or has moved the offset between the two times that *)
(* the call reads it.  For the others it returns too much, or copies a     *)
(* negative number of bytes (a huge one), and what is behind the caller's  *)
(* buffer is overwritten.                                                  *)
ReadsWhatFits ==
  \A p \in Proc :
    ~misread /\ reading[p] \in {"returned", "overrun"} /\ begun[p] = request[p].offset =>
      ((reading[p] = "returned" /\ buff[p] = Wanted(FileOf(p), request[p]))
         <=> Fits(FileOf(p), request[p]))
=============================================================================
