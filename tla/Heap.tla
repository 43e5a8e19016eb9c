-------------------------------- MODULE Heap --------------------------------
(***************************************************************************)
(* The first-fit allocator of kernel/alloc.c, used for the kernel heap     *)
(* (lib/kmalloc.c) and for user memory (kernel/page.c).  The arena is cut  *)
(* into blocks that are described by an array of BlkCount descriptors,     *)
(* linked in address order; descriptors that describe nothing are on a     *)
(* stack.  A call holds heap->alloc_mut from its first to its last step,   *)
(* so at most one call is in progress; a step is one turn of its loop, or  *)
(* one half of try_coalesce.  Addresses and sizes are counted in units of  *)
(* Unit = 2^blk_shift bytes.                                               *)
(***************************************************************************)
EXTENDS Integers, Sequences

CONSTANTS BlkCount,  \* number of descriptors: 64 (kmalloc) or 8 (pages)
          Units,     \* size of the arena, in units
          Unit,      \* bytes per unit: 1 (kmalloc) or 16 (pages)
          Sizes      \* the sizes in bytes that are asked for

BLOCK_NIL == 255
Null == -1           \* the null pointer, which is no address of the arena

ASSUME HeapAssumption ==
  /\ BlkCount \in 1..BLOCK_NIL
  /\ Units \in 1..(2^15 - 1)     \* block.size is a 15-bit field
  /\ Unit \in {1, 16}
  /\ Sizes \subseteq Nat \ {0}

VARIABLES size, occupied, prev, next,  \* the fields of heap->blk[]
          unused,  \* heap->unused_blocks[0 .. unused_blocks_top - 1]
          call,    \* the call in progress and its local variables
          live,    \* history: the pointers returned and not yet freed, with
                   \* the bytes each one was asked for
          addr     \* history: where each described block starts

heapVars == <<size, occupied, prev, next, unused>>
vars == <<heapVars, call, live, addr>>

Block == 0..(BlkCount - 1)
Link == Block \cup {BLOCK_NIL}

NoCall == [op |-> "none", bytes |-> 0, arg |-> 0, current |-> 0, base |-> 0]

Calls == [op : {"none", "alloc", "free", "coalesce_next", "coalesce_prev"},
          bytes : Nat,      \* heap_alloc: the size asked for
          arg : Int,        \* the same in units, or the pointer to free
          current : Block,  \* the block the loop looks at
          base : Int]       \* and where it starts

TypeOK ==
  /\ size \in [Block -> 0..Units]
  /\ occupied \in [Block -> BOOLEAN]
  /\ prev \in [Block -> Link]
  /\ next \in [Block -> Link]
  /\ unused \in Seq(Block)
  /\ call \in Calls
  /\ live \in SUBSET [ptr : Int, bytes : Nat]
  /\ addr \in [Block -> Int]

\* heap_init; descriptors that describe nothing hold whatever they held
Init ==
  /\ size = [b \in Block |-> IF b = 0 THEN Units ELSE 0]
  /\ occupied = [b \in Block |-> FALSE]
  /\ prev = [b \in Block |-> BLOCK_NIL]
  /\ next = [b \in Block |-> BLOCK_NIL]
  /\ unused = [i \in 1..(BlkCount - 1) |-> i]
  /\ call = NoCall
  /\ live = {}
  /\ addr = [b \in Block |-> 0]

----------------------------------------------------------------------------
\* get_block takes the top of the stack, put_block pushes
Top == unused[Len(unused)]
Popped == SubSeq(unused, 1, Len(unused) - 1)
Pushed(b) == Append(unused, b)

Return == call' = NoCall

\* heap_alloc returns base
Granted == live' = live \cup {[ptr |-> call.base, bytes |-> call.bytes]}

\* rounding that loses the last, partial unit
RoundDown(bytes) == bytes \div Unit

\* the size in units that heap_alloc looks for
RoundUp(bytes) == (bytes + (Unit - 1)) \div Unit

----------------------------------------------------------------------------
(* heap_alloc(size) *)
CallAlloc(bytes) ==
  /\ call.op = "none"
  /\ call' = [op |-> "alloc", bytes |-> bytes, arg |-> RoundUp(bytes),
              current |-> 0, base |-> 0]
  /\ UNCHANGED <<heapVars, live, addr>>

\* the loop looks at a free block that is larger than asked for
AllocLarger ==
  call.op = "alloc" /\ size[call.current] > call.arg /\ ~occupied[call.current]

\* a comparison of units with bytes
AllocEqualBytes ==
  call.op = "alloc" /\ size[call.current] = call.bytes /\ ~occupied[call.current]

\* the loop looks at a free block that is as large as asked for
AllocEqual ==
  call.op = "alloc" /\ size[call.current] = call.arg /\ ~occupied[call.current]

\* a split that leaves the whole block to the caller
AllocSplitKeepsSize ==
  LET b == call.current
      new == Top
  IN  /\ AllocLarger /\ unused # <<>>
      /\ unused' = Popped
      /\ prev' = [q \in Block |-> IF q = new THEN b
                                  ELSE IF q = next[b] THEN new ELSE prev[q]]
      /\ next' = [next EXCEPT ![new] = next[b], ![b] = new]
      /\ size' = [size EXCEPT ![new] = size[b] - call.arg]
      /\ occupied' = [occupied EXCEPT ![new] = FALSE, ![b] = TRUE]
      /\ addr' = [addr EXCEPT ![new] = addr[b] + call.arg]
      /\ Granted
      /\ Return

\* the caller gets the front of the block, a new descriptor the rest
AllocSplit ==
  LET b == call.current
      new == Top
  IN  /\ AllocLarger /\ unused # <<>>
      /\ unused' = Popped
      /\ prev' = [q \in Block |-> IF q = new THEN b
                                  ELSE IF q = next[b] THEN new ELSE prev[q]]
      /\ next' = [next EXCEPT ![new] = next[b], ![b] = new]
      /\ size' = [size EXCEPT ![new] = size[b] - call.arg, ![b] = call.arg]
      /\ occupied' = [occupied EXCEPT ![new] = FALSE, ![b] = TRUE]
      /\ addr' = [addr EXCEPT ![new] = addr[b] + call.arg]
      /\ Granted
      /\ Return

\* no descriptor is left for the rest: NULL, whatever blocks follow
AllocNoDescriptor ==
  /\ AllocLarger /\ unused = <<>>
  /\ Return
  /\ UNCHANGED <<heapVars, live, addr>>

\* the caller gets the whole block
AllocExact ==
  /\ AllocEqual
  /\ occupied' = [occupied EXCEPT ![call.current] = TRUE]
  /\ Granted
  /\ Return
  /\ UNCHANGED <<size, prev, next, unused, addr>>

\* a loop that stays at its block
AdvanceNowhere == UNCHANGED call

\* the loop goes on to the next block
Advance == call' = [call EXCEPT !.current = next[call.current],
                                !.base = @ + size[call.current]]

AllocAdvance ==
  /\ call.op = "alloc" /\ ~AllocLarger /\ ~AllocEqual
  /\ next[call.current] # BLOCK_NIL
  /\ Advance
  /\ UNCHANGED <<heapVars, live, addr>>

\* no block was large enough: NULL
AllocFail ==
  /\ call.op = "alloc" /\ ~AllocLarger /\ ~AllocEqual
  /\ next[call.current] = BLOCK_NIL
  /\ Return
  /\ UNCHANGED <<heapVars, live, addr>>

----------------------------------------------------------------------------
(* heap_free(ptr), of a pointer that heap_alloc returned, or of NULL *)
CallFree(ptr) ==
  /\ call.op = "none"
  /\ call' = [op |-> "free", bytes |-> 0, arg |-> ptr, current |-> 0, base |-> 0]
  /\ UNCHANGED <<heapVars, live, addr>>

FreeFound ==
  /\ call.op = "free" /\ call.base = call.arg
  /\ occupied' = [occupied EXCEPT ![call.current] = FALSE]
  /\ live' = {l \in live : l.ptr # call.arg}
  /\ call' = [call EXCEPT !.op = "coalesce_next"]
  /\ UNCHANGED <<size, prev, next, unused, addr>>

FreeAdvance ==
  /\ call.op = "free" /\ call.base # call.arg
  /\ next[call.current] # BLOCK_NIL
  /\ Advance
  /\ UNCHANGED <<heapVars, live, addr>>

FreeUnknown ==
  /\ call.op = "free" /\ call.base # call.arg
  /\ next[call.current] = BLOCK_NIL
  /\ Return
  /\ UNCHANGED <<heapVars, live, addr>>

MergesNext(b) == next[b] # BLOCK_NIL /\ ~occupied[next[b]]
MergesPrev(b) == prev[b] # BLOCK_NIL /\ ~occupied[prev[b]]

\* try_coalesce that takes the following block whether it is free or not
CoalesceNextAlways ==
  LET b == call.current
      n == next[b]
  IN  /\ call.op = "coalesce_next"
      /\ call' = [call EXCEPT !.op = "coalesce_prev"]
      /\ IF next[b] # BLOCK_NIL
         THEN /\ size' = [size EXCEPT ![b] = @ + size[n]]
              /\ next' = [next EXCEPT ![b] = next[n]]
              /\ prev' = [q \in Block |-> IF q = next[n] THEN b ELSE prev[q]]
              /\ unused' = Pushed(n)
         ELSE UNCHANGED <<size, next, prev, unused>>
      /\ UNCHANGED <<occupied, live, addr>>

\* first half of try_coalesce: absorb the following block if it is free
CoalesceNext ==
  LET b == call.current
      n == next[b]
  IN  /\ call.op = "coalesce_next"
      /\ call' = [call EXCEPT !.op = "coalesce_prev"]
      /\ IF MergesNext(b)
         THEN /\ size' = [size EXCEPT ![b] = @ + size[n]]
              /\ next' = [next EXCEPT ![b] = next[n]]
              /\ prev' = [q \in Block |-> IF q = next[n] THEN b ELSE prev[q]]
              /\ unused' = Pushed(n)
         ELSE UNCHANGED <<size, next, prev, unused>>
      /\ UNCHANGED <<occupied, live, addr>>

\* try_coalesce without its second half
CoalescePrevNever ==
  /\ call.op = "coalesce_prev"
  /\ Return
  /\ UNCHANGED <<heapVars, live, addr>>

\* try_coalesce that forgets to give the absorbed descriptor back
CoalescePrevLeaks ==
  LET b == call.current
      p == prev[b]
  IN  /\ call.op = "coalesce_prev"
      /\ Return
      /\ IF MergesPrev(b)
         THEN /\ next' = [next EXCEPT ![p] = next[b]]
              /\ size' = [size EXCEPT ![p] = @ + size[b]]
              /\ prev' = [q \in Block |-> IF q = next[b] THEN p ELSE prev[q]]
         ELSE UNCHANGED <<size, next, prev>>
      /\ UNCHANGED <<occupied, live, addr, unused>>

\* second half: let the preceding block absorb this one if it is free
CoalescePrev ==
  LET b == call.current
      p == prev[b]
  IN  /\ call.op = "coalesce_prev"
      /\ Return
      /\ IF MergesPrev(b)
         THEN /\ next' = [next EXCEPT ![p] = next[b]]
              /\ size' = [size EXCEPT ![p] = @ + size[b]]
              /\ prev' = [q \in Block |-> IF q = next[b] THEN p ELSE prev[q]]
              /\ unused' = Pushed(b)
         ELSE UNCHANGED <<size, next, prev, unused>>
      /\ UNCHANGED <<occupied, live, addr>>

----------------------------------------------------------------------------
AllocStep == \/ AllocSplit \/ AllocNoDescriptor \/ AllocExact
             \/ AllocAdvance \/ AllocFail
FreeStep == \/ FreeFound \/ FreeAdvance \/ FreeUnknown
            \/ CoalesceNext \/ CoalescePrev

Next ==
  \/ \E bytes \in Sizes : CallAlloc(bytes)
  \/ \E l \in live : CallFree(l.ptr)
  \/ CallFree(Null)
  \/ AllocStep \/ FreeStep

Spec == Init /\ [][Next]_vars

\* a call that has begun runs to its end
FairSpec == Spec /\ WF_vars(AllocStep \/ FreeStep)
----------------------------------------------------------------------------
\* the descriptors that describe a block
InUse == Block \ {unused[i] : i \in DOMAIN unused}

\* the bytes an outstanding pointer stands for
Region(l) == (l.ptr * Unit)..(l.ptr * Unit + l.bytes - 1)

(* Two outstanding pointers never share a byte, and every byte lies inside *)
(* the arena: what every caller of kmalloc and page_alloc relies on.       *)
NoOverlap ==
  /\ \A l \in live : Region(l) \subseteq 0..(Units * Unit - 1)
  /\ \A k, l \in live : k # l => Region(k) \cap Region(l) = {}

(* Every step of the allocator is an allocation of fresh bytes, the end of *)
(* one outstanding pointer, or invisible to the callers.                   *)
Abstract == INSTANCE Allocator WITH ArenaBytes <- Units * Unit

ImplementsAllocator == Abstract!Spec

\* the walk along the next links from descriptor 0
Walk ==
  LET at[i \in Nat] == IF i = 0 THEN 0
                       ELSE IF at[i - 1] = BLOCK_NIL THEN BLOCK_NIL ELSE next[at[i - 1]]
  IN  at

\* how many blocks it meets
ChainLen ==
  CHOOSE k \in 1..BlkCount :
    Walk[k] = BLOCK_NIL /\ \A i \in 0..(k - 1) : Walk[i] # BLOCK_NIL

(* The chain of blocks from descriptor 0, in the order of the next links.  *)
Chain == [i \in 1..ChainLen |-> Walk[i - 1]]

(* No descriptor is lost and none is used twice: each one is either on the *)
(* stack, once, or in the chain, once; the blocks of the chain tile the    *)
(* arena.                                                                  *)
DescriptorsConserved ==
  /\ \A i, j \in DOMAIN unused : unused[i] = unused[j] => i = j
  /\ {Chain[i] : i \in DOMAIN Chain} = InUse
  /\ \A i \in DOMAIN Chain : addr[Chain[i]] =
       IF i = 1 THEN 0 ELSE addr[Chain[i - 1]] + size[Chain[i - 1]]
  /\ LET z == Chain[Len(Chain)] IN addr[z] + size[z] = Units

(* Between two calls no two free blocks are neighbours: a request fails    *)
(* for want of space only if no run of free bytes is long enough.          *)
Coalesced ==
  call.op = "none" =>
    \A b \in InUse : next[b] # BLOCK_NIL => occupied[b] \/ occupied[next[b]]

(* Nothing leaks and nothing is taken back: every occupied block belongs   *)
(* to an outstanding pointer and holds at least the bytes asked for, and   *)
(* every outstanding pointer has its block, which heap_free will find.     *)
OccupiedIsLive ==
  /\ \A b \in InUse : occupied[b] =>
       \E l \in live : l.ptr = addr[b] /\ l.bytes <= size[b] * Unit
  /\ \A l \in live : \E b \in InUse : occupied[b] /\ addr[b] = l.ptr

(* A search that reaches the end of the chain has overlooked no free block *)
(* that is large enough.                                                   *)
FailsOnlyIfFull ==
  [][AllocFail => \A b \in InUse : occupied[b] \/ size[b] < call.arg]_vars

(* Every call returns: the chain has an end.                               *)
CallReturns == call.op # "none" ~> call.op = "none"
=============================================================================
