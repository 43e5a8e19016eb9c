----------------------------- MODULE HeapProofs -----------------------------
(***************************************************************************)
(* Proofs about Heap, for any arena below 2^15 units, any number of        *)
(* descriptors below 256, units of 1 or 16 bytes and any sizes: HeapInv is *)
(* inductive, so outstanding pointers never share a byte, nothing leaks,   *)
(* free neighbours are merged, a search overlooks no block, Heap           *)
(* implements Allocator, and the chain of blocks is complete.              *)
(***************************************************************************)
EXTENDS Heap, Iteration, SequenceTheorems, TLAPS

-----------------------------------------------------------------------------
(* The parts of the inductive invariant.                                   *)

\* the stack holds no descriptor twice, and never that of the first block
StackOK ==
  /\ \A i, j \in DOMAIN unused : unused[i] = unused[j] => i = j
  /\ 0 \in InUse

\* a block ends where the next one starts, or at the end of the arena, and the
\* links between the two agree
BlockOK(b) ==
  /\ size[b] > 0 /\ addr[b] >= 0 /\ addr[b] + size[b] <= Units
  /\ IF next[b] = BLOCK_NIL THEN addr[b] + size[b] = Units
     ELSE next[b] \in InUse /\ prev[next[b]] = b /\ addr[next[b]] = addr[b] + size[b]
  /\ IF prev[b] = BLOCK_NIL THEN b = 0
     ELSE prev[b] \in InUse /\ next[prev[b]] = b
  /\ b = 0 => addr[b] = 0

\* two blocks share no unit
Apart(b, c) == addr[b] + size[b] <= addr[c] \/ addr[c] + size[c] <= addr[b]

\* free neighbours are those that try_coalesce is about to merge
NeighboursOK(b) ==
  next[b] # BLOCK_NIL /\ ~occupied[b] /\ ~occupied[next[b]] =>
    \/ call.op = "coalesce_next" /\ call.current \in {b, next[b]}
    \/ call.op = "coalesce_prev" /\ call.current = next[b]

\* an outstanding pointer has its block, and a pointer is returned once
LiveOK ==
  /\ \A l \in live : /\ l.bytes \in Nat \ {0}
                     /\ \E b \in InUse : occupied[b] /\ addr[b] = l.ptr
                                         /\ l.bytes <= size[b] * Unit
  /\ \A k, l \in live : k.ptr = l.ptr => k = l

\* an occupied block has its pointer
OwnedOK == \A b \in InUse : occupied[b] => \E l \in live : l.ptr = addr[b]

\* a call stands at a block, whose start it knows; a search has passed no block
\* that would do
CallOK ==
  /\ call.op # "none" => call.current \in InUse
  /\ call.op \in {"alloc", "free"} => call.base = addr[call.current]
  /\ call.op = "alloc" =>
       /\ call.bytes \in Sizes /\ call.arg = RoundUp(call.bytes)
       /\ \A b \in InUse : addr[b] < call.base => occupied[b] \/ size[b] < call.arg
  /\ call.op = "free" => call.arg = Null \/ \E l \in live : l.ptr = call.arg
  /\ call.op \in {"coalesce_next", "coalesce_prev"} => ~occupied[call.current]

ListOK ==
  /\ StackOK
  /\ \A b \in InUse : BlockOK(b)
  /\ \A b, c \in InUse : b # c => Apart(b, c)

(* What every step of the allocator preserves.                             *)
HeapInv ==
  /\ TypeOK /\ ListOK
  /\ \A b \in InUse : NeighboursOK(b)
  /\ LiveOK /\ OwnedOK /\ CallOK

-----------------------------------------------------------------------------
(* Rounding up gives units enough for the bytes, and at least one.         *)
LEMMA RoundLemma ==
  ASSUME NEW bytes \in Nat \ {0}
  PROVE  RoundUp(bytes) \in Nat \ {0} /\ bytes <= RoundUp(bytes) * Unit
<1>1. CASE Unit = 1
  BY <1>1 DEF RoundUp
<1>2. CASE Unit = 16
  BY <1>2 DEF RoundUp
<1> QED
  BY <1>1, <1>2, HeapAssumption

(* The bytes of a block lie in the arena.                                  *)
LEMMA InsideLemma ==
  ASSUME NEW a \in Nat, NEW s \in Nat, NEW bytes \in Nat \ {0}, bytes <= s * Unit,
         a + s <= Units
  PROVE  (a * Unit)..(a * Unit + bytes - 1) \subseteq 0..(Units * Unit - 1)
<1>0. Units \in Nat
  BY HeapAssumption
<1>1. CASE Unit = 1
  BY <1>0, <1>1
<1>2. CASE Unit = 16
  BY <1>0, <1>2
<1> QED
  BY <1>1, <1>2, HeapAssumption

(* Blocks that share no unit share no byte.                                *)
LEMMA ApartLemma ==
  ASSUME NEW a \in Nat, NEW s \in Nat, NEW m \in Nat, m <= s * Unit,
         NEW b \in Nat, NEW t \in Nat, NEW n \in Nat, n <= t * Unit,
         a + s <= b \/ b + t <= a
  PROVE  ((a * Unit)..(a * Unit + m - 1)) \cap ((b * Unit)..(b * Unit + n - 1)) = {}
<1>1. CASE Unit = 1
  BY <1>1
<1>2. CASE Unit = 16
  BY <1>2
<1> QED
  BY <1>1, <1>2, HeapAssumption

(* No descriptor is the null link.                                         *)
LEMMA BlockLemma ==
  BLOCK_NIL \notin Block /\ Block \subseteq Nat /\ 0 \in Block
BY HeapAssumption DEF BLOCK_NIL, Block

(* put_block takes a descriptor out of use.                                *)
LEMMA PushLemma ==
  ASSUME TypeOK, StackOK, NEW n \in InUse, n # 0, unused' = Pushed(n)
  PROVE  unused' \in Seq(Block) /\ InUse' = InUse \ {n} /\ StackOK'
<1>1. unused \in Seq(Block) /\ n \in Block
  BY DEF TypeOK, InUse
<1>2. /\ unused' \in Seq(Block) /\ Len(unused') = Len(unused) + 1
      /\ \A i \in 1..Len(unused) : unused'[i] = unused[i]
      /\ unused'[Len(unused) + 1] = n
  BY <1>1, AppendProperties DEF Pushed
<1>3. DOMAIN unused = 1..Len(unused) /\ DOMAIN unused' = 1..(Len(unused) + 1)
  BY <1>1, <1>2
<1>4. {unused'[i] : i \in DOMAIN unused'} = {unused[i] : i \in DOMAIN unused} \cup {n}
  BY <1>1, <1>2, <1>3
<1>5. \A i, j \in DOMAIN unused' : unused'[i] = unused'[j] => i = j
  <2>1. \A i \in 1..Len(unused) : unused[i] # n
    BY <1>3 DEF InUse
  <2> QED
    BY <1>1, <1>2, <1>3, <2>1 DEF StackOK
<1>6. InUse' = InUse \ {n}
  BY <1>4 DEF InUse
<1> QED
  BY <1>2, <1>5, <1>6 DEF StackOK

(* get_block takes a descriptor into use.                                  *)
LEMMA PopLemma ==
  ASSUME TypeOK, StackOK, unused # <<>>, unused' = Popped
  PROVE  /\ unused' \in Seq(Block) /\ Top \in Block \ InUse
         /\ InUse' = InUse \cup {Top} /\ StackOK'
<1>1. unused \in Seq(Block) /\ Len(unused) \in Nat \ {0} /\ DOMAIN unused = 1..Len(unused)
  BY DEF TypeOK
<1>2. /\ unused' \in Seq(Block) /\ DOMAIN unused' = 1..(Len(unused) - 1)
      /\ \A i \in 1..(Len(unused) - 1) : unused'[i] = unused[i]
  <2> DEFINE n == Len(unused) - 1
  <2>1. n \in Int /\ n >= 0 /\ \A i \in 1..n : unused[i] \in Block
    BY <1>1
  <2> HIDE DEF n
  <2>2. /\ SubSeq(unused, 1, n) \in Seq(Block)
        /\ Len(SubSeq(unused, 1, n)) = IF 1 <= n THEN n - 1 + 1 ELSE 0
        /\ \A i \in 1..(n - 1 + 1) : SubSeq(unused, 1, n)[i] = unused[1 + i - 1]
    BY <2>1, SubSeqProperties
  <2>3. unused' \in Seq(Block) /\ Len(unused') = n /\ \A i \in 1..n : unused'[i] = unused[i]
    <3>1. unused' = SubSeq(unused, 1, n)
      BY DEF Popped, n
    <3>2. \A i \in 1..n : 1 + i - 1 = i /\ i \in 1..(n - 1 + 1)
      BY <2>1
    <3>3. (IF 1 <= n THEN n - 1 + 1 ELSE 0) = n
      BY <2>1
    <3> QED
      BY <2>2, <3>1, <3>2, <3>3
  <2> QED
    BY <2>3 DEF n
<1>3. Top \in Block \ InUse
  BY <1>1 DEF Top, InUse
<1>4. {unused[i] : i \in DOMAIN unused} = {unused'[i] : i \in DOMAIN unused'} \cup {Top}
  <2>1. \A i \in DOMAIN unused : i \in DOMAIN unused' \/ i = Len(unused)
    BY <1>1, <1>2
  <2> QED
    BY <1>1, <1>2, <2>1 DEF Top
<1>5. Top \notin {unused'[i] : i \in DOMAIN unused'}
  <2>1. \A i \in DOMAIN unused' : unused'[i] = unused[i] /\ i \in DOMAIN unused /\ i # Len(unused)
    BY <1>1, <1>2
  <2>2. Len(unused) \in DOMAIN unused
    BY <1>1
  <2> QED
    BY <2>1, <2>2 DEF StackOK, Top
<1>6. InUse' = InUse \cup {Top}
  BY <1>3, <1>4, <1>5 DEF InUse
<1>7. \A i, j \in DOMAIN unused' : unused'[i] = unused'[j] => i = j
  BY <1>1, <1>2 DEF StackOK
<1> QED
  BY <1>2, <1>3, <1>6, <1>7 DEF StackOK

(* Neighbours: where a block's next one is, and that it is another one.    *)
LEMMA NextLemma ==
  ASSUME TypeOK, ListOK, NEW b \in InUse, next[b] # BLOCK_NIL
  PROVE  /\ next[b] \in InUse /\ next[b] # b /\ next[b] # 0 /\ prev[next[b]] = b
         /\ addr[next[b]] = addr[b] + size[b]
<1>1. b \in Block /\ BlockOK(b) /\ next[b] \in InUse /\ BlockOK(next[b])
  BY DEF ListOK, BlockOK, InUse
<1>2. addr[b] \in Int /\ size[b] \in Int
  BY <1>1, HeapAssumption DEF TypeOK
<1> QED
  BY <1>1, <1>2 DEF BlockOK

(* Block b absorbs the next one, n.                                        *)
Absorbs(b, n) ==
  /\ next[b] # BLOCK_NIL /\ n = next[b]
  /\ size' = [size EXCEPT ![b] = @ + size[n]]
  /\ next' = [next EXCEPT ![b] = next[n]]
  /\ prev' = [q \in Block |-> IF q = next[n] THEN b ELSE prev[q]]
  /\ unused' = Pushed(n) /\ addr' = addr

(* The list without the absorbed block is still a list.                    *)
LEMMA MergeLemma ==
  ASSUME TypeOK, ListOK, NEW b \in InUse, NEW n, Absorbs(b, n)
  PROVE  /\ size' \in [Block -> 0..Units] /\ next' \in [Block -> Link]
         /\ prev' \in [Block -> Link] /\ unused' \in Seq(Block)
         /\ n \in InUse \ {b} /\ InUse' = InUse \ {n} /\ ListOK'
         /\ \A c \in InUse' : c # b => size'[c] = size[c] /\ next'[c] = next[c]
         /\ next'[b] = next[n]
<1> DEFINE m == next[n]
<1> USE DEF Absorbs
<1>1. /\ n \in InUse /\ n # b /\ n # 0 /\ prev[n] = b /\ addr[n] = addr[b] + size[b]
      /\ InUse \subseteq Block /\ Units \in Nat
  BY NextLemma, HeapAssumption DEF InUse
<1>2. \A c \in InUse : BlockOK(c) /\ addr[c] \in Int /\ size[c] \in Int
                       /\ next[c] \in Link /\ prev[c] \in Link
  BY <1>1 DEF ListOK, TypeOK
<1>3. /\ unused' \in Seq(Block) /\ InUse' = InUse \ {n} /\ StackOK'
  BY <1>1, PushLemma DEF ListOK
<1>4. m # BLOCK_NIL => /\ m \in InUse /\ m # n /\ m # b /\ prev[m] = n
                       /\ addr[m] = addr[n] + size[n]
  <2>1. ASSUME m # BLOCK_NIL
        PROVE  m \in InUse /\ m # n /\ prev[m] = n /\ addr[m] = addr[n] + size[n]
    BY <1>1, <2>1, NextLemma
  <2> QED
    BY <1>1, <1>2, <2>1 DEF BlockOK
<1>5. /\ size' \in [Block -> Int] /\ size'[b] = size[b] + size[n]
      /\ \A c \in Block : c # b => size'[c] = size[c]
  BY <1>1 DEF TypeOK
<1>6. /\ next' \in [Block -> Link] /\ next'[b] = m
      /\ \A c \in Block : c # b => next'[c] = next[c]
  BY <1>1, <1>2 DEF TypeOK
<1>7. /\ prev' \in [Block -> Link]
      /\ \A c \in Block : prev'[c] = IF c = m THEN b ELSE prev[c]
  BY <1>1 DEF TypeOK, Link
<1> HIDE DEF m
<1>8. BlockOK(b)'
  <2>1. /\ BlockOK(b) /\ BlockOK(n) /\ addr[b] \in Int /\ size[b] \in Int /\ size[n] \in Int
        /\ b \in Block
    BY <1>1, <1>2
  <2>2. size'[b] > 0 /\ addr'[b] >= 0 /\ addr'[b] + size'[b] <= Units
    BY <1>1, <1>5, <2>1 DEF BlockOK
  <2>3. IF next'[b] = BLOCK_NIL THEN addr'[b] + size'[b] = Units
        ELSE next'[b] \in InUse' /\ prev'[next'[b]] = b /\ addr'[next'[b]] = addr'[b] + size'[b]
    <3>1. CASE m = BLOCK_NIL
      BY <1>1, <1>5, <1>6, <2>1, <3>1 DEF BlockOK, m
    <3>2. CASE m # BLOCK_NIL
      BY <1>1, <1>3, <1>4, <1>5, <1>6, <1>7, <2>1, <3>2
    <3> QED
      BY <3>1, <3>2
  <2>4. IF prev'[b] = BLOCK_NIL THEN b = 0 ELSE prev'[b] \in InUse' /\ next'[prev'[b]] = b
    <3>1. prev'[b] = prev[b]
      BY <1>4, <1>7, <2>1, BlockLemma
    <3>2. CASE prev[b] # BLOCK_NIL
      <4>1. prev[b] \in InUse /\ next[prev[b]] = b
        BY <2>1, <3>2 DEF BlockOK
      <4>2. prev[b] # n /\ prev[b] # b
        BY <1>1, <1>4, <4>1, <2>1, BlockLemma DEF m
      <4> QED
        BY <1>1, <1>3, <1>6, <3>1, <3>2, <4>1, <4>2
    <3> QED
      BY <2>1, <3>1, <3>2 DEF BlockOK
  <2>5. b = 0 => addr'[b] = 0
    BY <2>1 DEF BlockOK
  <2> QED
    BY <2>2, <2>3, <2>4, <2>5 DEF BlockOK
<1>9. ASSUME NEW c \in InUse', c # b
      PROVE  BlockOK(c)'
  <2>1. c \in InUse /\ c # n /\ c \in Block /\ BlockOK(c) /\ size'[c] = size[c] /\ next'[c] = next[c]
    BY <1>1, <1>2, <1>3, <1>5, <1>6, <1>9
  <2>2. ASSUME next[c] # BLOCK_NIL
        PROVE  next[c] \in InUse' /\ prev'[next[c]] = c /\ addr'[next[c]] = addr'[c] + size'[c]
    <3>1. next[c] \in InUse /\ prev[next[c]] = c /\ addr[next[c]] = addr[c] + size[c]
      BY <2>1, <2>2, NextLemma
    <3>2. next[c] # n /\ next[c] # m
      BY <1>1, <1>4, <1>9, <2>1, <2>2, <3>1
    <3> QED
      BY <1>1, <1>3, <1>7, <2>1, <3>1, <3>2
  <2>3. IF prev'[c] = BLOCK_NIL THEN c = 0 ELSE prev'[c] \in InUse' /\ next'[prev'[c]] = c
    <3>1. CASE c = m
      BY <1>1, <1>3, <1>6, <1>7, <2>1, <3>1, BlockLemma
    <3>2. CASE c # m /\ prev[c] # BLOCK_NIL
      <4>1. prev[c] \in InUse /\ next[prev[c]] = c /\ prev[c] # n /\ prev[c] # b
        BY <1>1, <2>1, <3>2 DEF BlockOK, m
      <4> QED
        BY <1>1, <1>3, <1>6, <1>7, <2>1, <3>2, <4>1
    <3>3. CASE c # m /\ prev[c] = BLOCK_NIL
      BY <1>7, <2>1, <3>3 DEF BlockOK
    <3> QED
      BY <3>1, <3>2, <3>3
  <2> QED
    BY <2>1, <2>2, <2>3 DEF BlockOK
<1>10. ASSUME NEW c \in InUse', c # b
       PROVE  Apart(b, c)' /\ Apart(c, b)'
  <2>1. c \in InUse /\ c \in Block /\ Apart(b, c) /\ Apart(n, c) /\ size[c] > 0 /\ size[n] > 0
        /\ addr[c] \in Int /\ size[c] \in Int /\ addr[b] \in Int /\ size[b] \in Int /\ size[n] \in Int
    BY <1>1, <1>2, <1>3, <1>10 DEF ListOK, BlockOK
  <2> QED
    BY <1>1, <1>5, <1>10, <2>1 DEF Apart
<1>11. ASSUME NEW c \in InUse', NEW d \in InUse', c # d
       PROVE  Apart(c, d)'
  <2>1. CASE c # b /\ d # b
    BY <1>1, <1>3, <1>5, <1>11, <2>1 DEF ListOK, Apart
  <2> QED
    BY <1>10, <1>11, <2>1
<1>12. size' \in [Block -> 0..Units]
  <2>1. size'[b] \in 0..Units
    <3>1. addr[b] \in Int /\ size'[b] \in Int /\ Units \in Int
      BY <1>1, <1>2, <1>5
    <3>2. size'[b] > 0 /\ addr[b] >= 0 /\ addr[b] + size'[b] <= Units
      BY <1>8 DEF BlockOK
    <3> QED
      BY <3>1, <3>2
  <2> QED
    BY <1>5, <2>1 DEF TypeOK
<1>13. ListOK'
  BY <1>3, <1>8, <1>9, <1>11 DEF ListOK
<1> QED
  BY <1>1, <1>3, <1>5, <1>6, <1>7, <1>12, <1>13 DEF m

(* Block b is split: the front, of k units, keeps its descriptor, the rest *)
(* gets a new one.                                                         *)
Splits(b, new, k) ==
  /\ unused # <<>> /\ new = Top /\ unused' = Popped
  /\ prev' = [q \in Block |-> IF q = new THEN b ELSE IF q = next[b] THEN new ELSE prev[q]]
  /\ next' = [next EXCEPT ![new] = next[b], ![b] = new]
  /\ size' = [size EXCEPT ![new] = size[b] - k, ![b] = k]
  /\ addr' = [addr EXCEPT ![new] = addr[b] + k]

(* The list with both parts is still a list.                               *)
LEMMA SplitLemma ==
  ASSUME TypeOK, ListOK, NEW b \in InUse, NEW new, NEW k \in Nat \ {0}, k < size[b],
         Splits(b, new, k)
  PROVE  /\ size' \in [Block -> 0..Units] /\ next' \in [Block -> Link]
         /\ prev' \in [Block -> Link] /\ unused' \in Seq(Block) /\ addr' \in [Block -> Int]
         /\ new \in Block \ InUse /\ InUse' = InUse \cup {new} /\ ListOK'
         /\ \A c \in InUse : addr'[c] = addr[c]
         /\ \A c \in InUse \ {b} : size'[c] = size[c] /\ next'[c] = next[c]
         /\ size'[b] = k /\ next'[b] = new /\ next'[new] = next[b]
<1> DEFINE m == next[b]
<1> USE DEF Splits
<1>1. /\ unused' \in Seq(Block) /\ new \in Block \ InUse /\ InUse' = InUse \cup {new} /\ StackOK'
      /\ b \in Block /\ b # new /\ InUse \subseteq Block /\ Units \in Nat
  BY PopLemma, HeapAssumption DEF ListOK, InUse
<1>2. \A c \in InUse : BlockOK(c) /\ addr[c] \in Int /\ size[c] \in 0..Units
                       /\ next[c] \in Link /\ prev[c] \in Link
  BY <1>1 DEF ListOK, TypeOK
<1>3. m # BLOCK_NIL => m \in InUse /\ m # b /\ prev[m] = b /\ addr[m] = addr[b] + size[b]
  BY NextLemma
<1>4. /\ size'[new] = size[b] - k /\ size'[b] = k
      /\ \A c \in InUse \ {b} : size'[c] = size[c]
      /\ addr'[new] = addr[b] + k /\ \A c \in InUse : addr'[c] = addr[c]
      /\ addr' \in [Block -> Int] /\ size' \in [Block -> 0..Units]
  <2>1. size[b] \in 0..Units /\ addr[b] \in Int /\ size[b] - k \in 0..Units /\ k \in 0..Units
    BY <1>1, <1>2
  <2>2. addr \in [Block -> Int] /\ size \in [Block -> 0..Units]
    BY DEF TypeOK
  <2>3. addr' \in [Block -> Int] /\ size' \in [Block -> 0..Units]
    <3> DEFINE s == [size EXCEPT ![new] = size[b] - k]
    <3>1. addr' \in [Block -> Int]
      BY <1>1, <2>1, <2>2
    <3>2. s \in [Block -> 0..Units]
      BY <1>1, <2>1, <2>2
    <3>3. size' = [s EXCEPT ![b] = k]
      OBVIOUS
    <3> HIDE DEF s
    <3>4. size' \in [Block -> 0..Units]
      BY <1>1, <2>1, <3>2, <3>3
    <3> QED
      BY <3>1, <3>4
  <2>4. addr'[new] = addr[b] + k /\ \A c \in InUse : addr'[c] = addr[c]
    BY <1>1, <2>2
  <2>5. /\ size'[new] = size[b] - k /\ size'[b] = k
        /\ \A c \in InUse \ {b} : size'[c] = size[c]
    BY <1>1, <2>2
  <2> QED
    BY <2>3, <2>4, <2>5
<1>5. /\ next' \in [Block -> Link] /\ next'[new] = m /\ next'[b] = new
      /\ \A c \in InUse \ {b} : next'[c] = next[c]
  BY <1>1, <1>2 DEF TypeOK, Link
<1>6. /\ prev' \in [Block -> Link] /\ prev'[new] = b
      /\ \A c \in InUse : prev'[c] = IF c = m THEN new ELSE prev[c]
  BY <1>1 DEF TypeOK, Link
<1> HIDE DEF m
<1>7. /\ BlockOK(b) /\ addr[b] \in Int /\ size[b] \in Int
  BY <1>2, <1>1
<1>8. BlockOK(b)'
  <2>1. size'[b] > 0 /\ addr'[b] >= 0 /\ addr'[b] + size'[b] <= Units
    BY <1>1, <1>4, <1>7 DEF BlockOK
  <2>2. next'[b] \in InUse' /\ prev'[next'[b]] = b /\ addr'[next'[b]] = addr'[b] + size'[b]
        /\ next'[b] # BLOCK_NIL
    BY <1>1, <1>4, <1>5, <1>6, BlockLemma
  <2>3. IF prev'[b] = BLOCK_NIL THEN b = 0 ELSE prev'[b] \in InUse' /\ next'[prev'[b]] = b
    <3>1. prev'[b] = prev[b]
      BY <1>1, <1>3, <1>6, BlockLemma
    <3>2. prev[b] # BLOCK_NIL => prev[b] \in InUse \ {b} /\ next[prev[b]] = b
      BY <1>1, <1>3, <1>7, BlockLemma DEF BlockOK, m
    <3> QED
      BY <1>1, <1>5, <1>7, <3>1, <3>2 DEF BlockOK
  <2> QED
    BY <1>4, <1>7, <2>1, <2>2, <2>3 DEF BlockOK
<1>9. BlockOK(new)'
  <2>1. size'[new] > 0 /\ addr'[new] >= 0 /\ addr'[new] + size'[new] <= Units
    BY <1>1, <1>4, <1>7 DEF BlockOK
  <2>2. IF next'[new] = BLOCK_NIL THEN addr'[new] + size'[new] = Units
        ELSE next'[new] \in InUse' /\ prev'[next'[new]] = new
             /\ addr'[next'[new]] = addr'[new] + size'[new]
    <3>1. CASE m = BLOCK_NIL
      BY <1>1, <1>4, <1>5, <1>7, <3>1 DEF BlockOK, m
    <3>2. CASE m # BLOCK_NIL
      BY <1>1, <1>3, <1>4, <1>5, <1>6, <1>7, <3>2
    <3> QED
      BY <3>1, <3>2
  <2>3. prev'[new] # BLOCK_NIL /\ prev'[new] \in InUse' /\ next'[prev'[new]] = new /\ new # 0
    BY <1>1, <1>5, <1>6, BlockLemma DEF ListOK, StackOK
  <2> QED
    BY <2>1, <2>2, <2>3 DEF BlockOK
<1>10. ASSUME NEW c \in InUse \ {b}
       PROVE  BlockOK(c)'
  <2>1. c \in Block /\ BlockOK(c) /\ size'[c] = size[c] /\ next'[c] = next[c] /\ addr'[c] = addr[c]
    BY <1>1, <1>2, <1>4, <1>5
  <2>2. ASSUME next[c] # BLOCK_NIL
        PROVE  next[c] \in InUse' /\ prev'[next[c]] = c /\ addr'[next[c]] = addr'[c] + size'[c]
    <3>1. next[c] \in InUse /\ prev[next[c]] = c /\ addr[next[c]] = addr[c] + size[c]
      BY <2>2, NextLemma
    <3>2. next[c] # m
      BY <1>3, <2>2, <3>1
    <3> QED
      BY <1>1, <1>4, <1>6, <2>1, <3>1, <3>2
  <2>3. IF prev'[c] = BLOCK_NIL THEN c = 0 ELSE prev'[c] \in InUse' /\ next'[prev'[c]] = c
    <3>1. CASE c = m
      BY <1>1, <1>5, <1>6, <3>1, BlockLemma
    <3>2. CASE c # m
      <4>1. prev[c] # BLOCK_NIL => prev[c] \in InUse \ {b} /\ next[prev[c]] = c
        BY <2>1, <3>2 DEF BlockOK, m
      <4> QED
        BY <1>1, <1>5, <1>6, <2>1, <3>2, <4>1 DEF BlockOK
    <3> QED
      BY <3>1, <3>2
  <2> QED
    BY <2>1, <2>2, <2>3 DEF BlockOK
<1>11. ASSUME NEW c \in InUse \ {b}
       PROVE  Apart(b, c)' /\ Apart(c, b)' /\ Apart(new, c)' /\ Apart(c, new)'
  <2>1. /\ c # b /\ Apart(b, c) /\ size'[c] = size[c] /\ addr'[c] = addr[c]
        /\ addr[c] \in Int /\ size[c] \in Int
    <3>1. c # b /\ Apart(b, c)
      BY DEF ListOK
    <3>2. size'[c] = size[c] /\ addr'[c] = addr[c]
      BY <1>4
    <3>3. addr[c] \in Int /\ size[c] \in Int
      BY <1>1, <1>2
    <3> QED
      BY <3>1, <3>2, <3>3
  <2> QED
    BY <1>4, <1>7, <2>1 DEF Apart
<1>12. Apart(b, new)' /\ Apart(new, b)'
  BY <1>4, <1>7 DEF Apart
<1>13. ASSUME NEW c \in InUse', NEW d \in InUse', c # d
       PROVE  Apart(c, d)'
  <2>1. CASE c \in InUse \ {b} /\ d \in InUse \ {b}
    BY <1>4, <1>13, <2>1 DEF ListOK, Apart
  <2> QED
    BY <1>1, <1>11, <1>12, <1>13, <2>1
<1>14. ListOK'
  BY <1>1, <1>8, <1>9, <1>10, <1>13 DEF ListOK
<1> QED
  BY <1>1, <1>4, <1>5, <1>6, <1>14 DEF m

(* A block is known by where it starts.                                    *)
LEMMA AddrLemma ==
  ASSUME TypeOK, ListOK, NEW b \in InUse, NEW c \in InUse, addr[b] = addr[c]
  PROVE  b = c
<1>1. b \in Block /\ c \in Block /\ size[b] > 0 /\ size[c] > 0 /\ (b # c => Apart(b, c))
  BY DEF ListOK, BlockOK, InUse
<1>2. addr[b] \in Int /\ size[b] \in Int /\ addr[c] \in Int /\ size[c] \in Int
  BY <1>1, HeapAssumption DEF TypeOK
<1> QED
  BY <1>1, <1>2 DEF Apart

(* No outstanding pointer points to a free block.                          *)
LEMMA FreshLemma ==
  ASSUME TypeOK, ListOK, LiveOK, NEW b \in InUse, ~occupied[b], NEW l \in live
  PROVE  l.ptr # addr[b]
<1>1. PICK c \in InUse : occupied[c] /\ addr[c] = l.ptr
  BY DEF LiveOK
<1> QED
  BY <1>1, AddrLemma

(* The search has found a free block, and returns it.                      *)
Returned(b) ==
  /\ call.op = "alloc" /\ b = call.current /\ ~occupied[b] /\ Granted
  /\ InUse \subseteq InUse' /\ occupied'[b] /\ addr'[b] = addr[b] /\ size'[b] = call.arg
  /\ \A c \in InUse \ {b} :
       occupied'[c] = occupied[c] /\ size'[c] = size[c] /\ addr'[c] = addr[c]
  /\ \A c \in InUse' \ InUse : ~occupied'[c]

(* Then the new pointer is the only one to its block.                      *)
LEMMA GrantLemma ==
  ASSUME HeapInv, NEW b \in InUse, Returned(b)
  PROVE  LiveOK' /\ OwnedOK' /\ live' \in SUBSET [ptr : Int, bytes : Nat]
<1> DEFINE new == [ptr |-> addr[b], bytes |-> call.bytes]
<1>1. /\ TypeOK /\ ListOK /\ LiveOK /\ OwnedOK /\ CallOK
      /\ live' = live \cup {new} /\ b \in Block
  BY DEF HeapInv, Returned, Granted, CallOK, InUse
<1>2. call.bytes \in Nat \ {0} /\ call.bytes <= size'[b] * Unit
  BY <1>1, RoundLemma, HeapAssumption DEF CallOK, Returned
<1>3. new.ptr = addr[b] /\ new.bytes = call.bytes /\ new \in [ptr : Int, bytes : Nat]
  BY <1>1, <1>2 DEF TypeOK
<1> HIDE DEF new
<1>4. \A l \in live : l.ptr # new.ptr
  BY <1>1, <1>3, FreshLemma DEF Returned
<1>5. ASSUME NEW l \in live'
      PROVE  /\ l.bytes \in Nat \ {0}
             /\ \E c \in InUse' : occupied'[c] /\ addr'[c] = l.ptr /\ l.bytes <= size'[c] * Unit
  <2>1. CASE l = new
    BY <1>1, <1>2, <1>3, <2>1 DEF Returned
  <2>2. CASE l \in live
    <3>1. PICK c \in InUse : occupied[c] /\ addr[c] = l.ptr /\ l.bytes <= size[c] * Unit
      BY <1>1, <2>2 DEF LiveOK
    <3>2. c \in InUse' /\ c # b /\ occupied'[c] /\ addr'[c] = l.ptr /\ size'[c] = size[c]
      BY <3>1 DEF Returned
    <3> QED
      BY <1>1, <2>2, <3>1, <3>2 DEF LiveOK
  <2> QED
    BY <1>1, <2>1, <2>2
<1>6. \A k, l \in live' : k.ptr = l.ptr => k = l
  BY <1>1, <1>4 DEF LiveOK
<1>7. ASSUME NEW c \in InUse', occupied'[c]
      PROVE  \E l \in live' : l.ptr = addr'[c]
  <2>1. CASE c = b
    BY <1>1, <1>3, <2>1 DEF Returned
  <2>2. CASE c # b
    <3>1. c \in InUse /\ occupied[c] /\ addr'[c] = addr[c]
      BY <1>7, <2>2 DEF Returned
    <3> QED
      BY <1>1, <3>1 DEF OwnedOK
  <2> QED
    BY <2>1, <2>2
<1>8. live' \in SUBSET [ptr : Int, bytes : Nat]
  BY <1>1, <1>3 DEF TypeOK
<1> QED
  BY <1>5, <1>6, <1>7, <1>8 DEF LiveOK, OwnedOK

(* A step that leaves blocks and pointers alone changes only the call.     *)
LEMMA QuietLemma ==
  ASSUME HeapInv, UNCHANGED <<heapVars, live, addr>>, call' \in Calls, CallOK',
         call.op \in {"none", "alloc", "free"}
  PROVE  HeapInv'
<1>1. TypeOK'
  BY DEF HeapInv, TypeOK, heapVars
<1>2. InUse' = InUse
  BY DEF heapVars, InUse
<1>3. ListOK' /\ LiveOK' /\ OwnedOK'
  <2>1. ListOK /\ LiveOK /\ OwnedOK
    BY DEF HeapInv
  <2>2. ListOK'
    BY <1>2, <2>1 DEF ListOK, StackOK, BlockOK, Apart, heapVars
  <2>3. LiveOK' /\ OwnedOK'
    BY <1>2, <2>1 DEF LiveOK, OwnedOK, heapVars
  <2> QED
    BY <2>2, <2>3
<1>4. \A b \in InUse' : NeighboursOK(b)'
  BY <1>2 DEF HeapInv, NeighboursOK, heapVars
<1> QED
  BY <1>1, <1>3, <1>4 DEF HeapInv

(* heap_alloc begins at the first block.                                   *)
LEMMA CallAllocStep ==
  ASSUME HeapInv, NEW bytes \in Sizes, CallAlloc(bytes)
  PROVE  HeapInv'
<1>1. /\ ListOK /\ TypeOK /\ call.op = "none" /\ bytes \in Nat \ {0}
      /\ UNCHANGED <<heapVars, live, addr>>
      /\ call' = [op |-> "alloc", bytes |-> bytes, arg |-> RoundUp(bytes), current |-> 0, base |-> 0]
  BY HeapAssumption DEF HeapInv, CallAlloc
<1>2. call' \in Calls
  BY <1>1, RoundLemma, BlockLemma DEF Calls
<1>3. 0 \in InUse /\ InUse' = InUse /\ addr[0] = 0 /\ \A b \in InUse : ~(addr[b] < 0)
  <2>1. 0 \in InUse /\ InUse' = InUse /\ addr[0] = 0 /\ \A b \in InUse : addr[b] >= 0 /\ addr[b] \in Int
    BY <1>1 DEF ListOK, StackOK, BlockOK, InUse, heapVars, TypeOK
  <2> QED
    BY <2>1
<1>4. CallOK'
  BY <1>1, <1>3 DEF CallOK
<1> QED
  BY <1>1, <1>2, <1>4, QuietLemma

(* So does heap_free.                                                      *)
LEMMA CallFreeStep ==
  ASSUME HeapInv, NEW ptr, ptr = Null \/ \E l \in live : ptr = l.ptr, CallFree(ptr)
  PROVE  HeapInv'
<1>1. /\ ListOK /\ TypeOK /\ call.op = "none"
      /\ UNCHANGED <<heapVars, live, addr>>
      /\ call' = [op |-> "free", bytes |-> 0, arg |-> ptr, current |-> 0, base |-> 0]
  BY DEF HeapInv, CallFree
<1>2. ptr \in Int
  BY <1>1 DEF TypeOK, Null
<1>3. call' \in Calls
  BY <1>1, <1>2, BlockLemma DEF Calls
<1>4. 0 \in InUse /\ InUse' = InUse /\ addr'[0] = 0
  BY <1>1 DEF ListOK, StackOK, BlockOK, InUse, heapVars
<1>5. CallOK'
  BY <1>1, <1>4 DEF CallOK
<1> QED
  BY <1>1, <1>3, <1>5, QuietLemma

(* A call that returns without a block.                                    *)
LEMMA ReturnStep ==
  ASSUME HeapInv, AllocNoDescriptor \/ AllocFail \/ FreeUnknown
  PROVE  HeapInv'
<1>1. call' = NoCall /\ UNCHANGED <<heapVars, live, addr>> /\ call.op \in {"alloc", "free"}
  BY DEF AllocNoDescriptor, AllocFail, FreeUnknown, Return, AllocLarger
<1>2. call' \in Calls /\ CallOK'
  BY <1>1, BlockLemma DEF NoCall, Calls, CallOK
<1> QED
  BY <1>1, <1>2, QuietLemma

(* The loops go on to the next block: a search has then passed this one,   *)
(* and no other.                                                           *)
LEMMA AdvanceStep ==
  ASSUME HeapInv, AllocAdvance \/ FreeAdvance
  PROVE  HeapInv'
<1> DEFINE b == call.current
           n == next[b]
<1>1. /\ TypeOK /\ ListOK /\ CallOK /\ call.op \in {"alloc", "free"} /\ n # BLOCK_NIL
      /\ call' = [call EXCEPT !.current = n, !.base = @ + size[b]]
      /\ UNCHANGED <<heapVars, live, addr>> /\ InUse' = InUse
      /\ call.op = "alloc" => ~AllocLarger /\ ~AllocEqual
  BY DEF HeapInv, AllocAdvance, FreeAdvance, Advance, AllocLarger, heapVars, InUse
<1>2. b \in InUse /\ b \in Block /\ call.base = addr[b] /\ call \in Calls
  BY <1>1 DEF CallOK, InUse, TypeOK
<1>3. n \in InUse /\ n \in Block /\ addr[n] = addr[b] + size[b]
  BY <1>1, <1>2, NextLemma DEF InUse
<1>4. addr[b] \in Int /\ size[b] \in Int /\ call.base \in Int
  BY <1>1, <1>2, HeapAssumption DEF TypeOK
<1>5. call' \in Calls
  <2>1. n \in Block /\ call.base + size[b] \in Int /\ call \in Calls
    BY <1>2, <1>3, <1>4
  <2>2. call' = [call EXCEPT !.current = n, !.base = call.base + size[b]]
    BY <1>1
  <2> DEFINE z == call.base + size[b]
  <2> HIDE DEF b, n, z
  <2>3. call' = [call EXCEPT !.current = n, !.base = z] /\ z \in Int
    BY <2>1, <2>2 DEF z
  <2> QED
    BY <2>1, <2>3 DEF Calls
<1>6. /\ call'.op = call.op /\ call'.current = n /\ call'.base = addr[n]
      /\ call'.arg = call.arg /\ call'.bytes = call.bytes
  BY <1>1, <1>2, <1>3 DEF Calls
<1> HIDE DEF b, n
<1>7. ASSUME call.op = "alloc", NEW c \in InUse, addr[c] < addr[n]
      PROVE  occupied[c] \/ size[c] < call.arg
  <2>1. /\ c \in Block /\ addr[c] \in Int /\ size[c] \in Int /\ size[c] > 0 /\ call.arg \in Int
        /\ c # b => Apart(c, b)
    BY <1>1, <1>2, HeapAssumption DEF TypeOK, ListOK, BlockOK, InUse, Calls
  <2>2. CASE c = b
    BY <1>1, <1>4, <1>7, <2>1, <2>2 DEF AllocLarger, AllocEqual, b
  <2>3. CASE c # b
    <3>1. addr[c] < call.base
      BY <1>2, <1>3, <1>4, <1>7, <2>1, <2>3 DEF Apart
    <3> QED
      BY <1>1, <1>7, <3>1 DEF CallOK
  <2> QED
    BY <2>2, <2>3
<1>8. CallOK'
  <2>1. /\ UNCHANGED <<addr, occupied, size, live>> /\ InUse' = InUse
    BY <1>1 DEF heapVars
  <2>2. call'.op = "alloc" =>
          /\ call'.bytes \in Sizes /\ call'.arg = RoundUp(call'.bytes)
          /\ \A c \in InUse' : addr'[c] < call'.base => occupied'[c] \/ size'[c] < call'.arg
    BY <1>1, <1>6, <1>7, <2>1 DEF CallOK
  <2>3. call'.op = "free" => call'.arg = Null \/ \E l \in live' : l.ptr = call'.arg
    BY <1>1, <1>6, <2>1 DEF CallOK
  <2> QED
    BY <1>1, <1>3, <1>6, <2>1, <2>2, <2>3 DEF CallOK
<1> QED
  BY <1>1, <1>5, <1>8, QuietLemma

(* A block of the right size is returned.                                  *)
LEMMA AllocExactStep ==
  ASSUME HeapInv, AllocExact
  PROVE  call.current \in InUse /\ Returned(call.current) /\ HeapInv'
<1> DEFINE b == call.current
<1>1. /\ TypeOK /\ ListOK /\ CallOK /\ call.op = "alloc" /\ size[b] = call.arg /\ ~occupied[b]
      /\ occupied' = [occupied EXCEPT ![b] = TRUE] /\ Granted /\ call' = NoCall
      /\ UNCHANGED <<size, prev, next, unused, addr>> /\ InUse' = InUse
  BY DEF HeapInv, AllocExact, AllocEqual, Return, InUse
<1>2. b \in InUse /\ b \in Block
  BY <1>1 DEF CallOK, InUse
<1>3. /\ occupied' \in [Block -> BOOLEAN] /\ occupied'[b]
      /\ \A c \in InUse \ {b} : occupied'[c] = occupied[c]
  BY <1>1, <1>2 DEF TypeOK, InUse
<1>4. Returned(b)
  BY <1>1, <1>2, <1>3 DEF Returned
<1>5. LiveOK' /\ OwnedOK' /\ live' \in SUBSET [ptr : Int, bytes : Nat]
  BY <1>2, <1>4, GrantLemma
<1>6. TypeOK'
  BY <1>1, <1>3, <1>5, BlockLemma DEF TypeOK, NoCall, Calls
<1>7. ListOK'
  BY <1>1 DEF ListOK, StackOK, BlockOK, Apart
<1>8. \A c \in InUse' : NeighboursOK(c)'
  <2>1. ASSUME NEW c \in InUse, next[c] # BLOCK_NIL, ~occupied'[c], ~occupied'[next[c]]
        PROVE  FALSE
    <3>1. next[c] \in InUse
      BY <1>1, <2>1, NextLemma
    <3>2. ~occupied[c] /\ ~occupied[next[c]]
      BY <1>3, <2>1, <3>1
    <3> QED
      BY <1>1, <2>1, <3>2 DEF HeapInv, NeighboursOK
  <2> QED
    BY <1>1, <2>1 DEF NeighboursOK
<1>9. CallOK'
  BY <1>1 DEF NoCall, CallOK
<1> QED
  BY <1>2, <1>4, <1>5, <1>6, <1>7, <1>8, <1>9 DEF HeapInv

(* The front of a larger block is returned; what follows the rest is not   *)
(* free.                                                                   *)
LEMMA AllocSplitStep ==
  ASSUME HeapInv, AllocSplit
  PROVE  call.current \in InUse /\ Returned(call.current) /\ HeapInv'
<1> DEFINE b == call.current
           new == Top
<1>1. /\ TypeOK /\ ListOK /\ CallOK /\ call.op = "alloc" /\ size[b] > call.arg /\ ~occupied[b]
      /\ unused # <<>> /\ unused' = Popped
      /\ prev' = [q \in Block |-> IF q = new THEN b ELSE IF q = next[b] THEN new ELSE prev[q]]
      /\ next' = [next EXCEPT ![new] = next[b], ![b] = new]
      /\ size' = [size EXCEPT ![new] = size[b] - call.arg, ![b] = call.arg]
      /\ occupied' = [occupied EXCEPT ![new] = FALSE, ![b] = TRUE]
      /\ addr' = [addr EXCEPT ![new] = addr[b] + call.arg]
      /\ Granted /\ call' = NoCall
  BY DEF HeapInv, AllocSplit, AllocLarger, Return
<1>2. b \in InUse /\ b \in Block /\ call.arg \in Nat \ {0}
  BY <1>1, RoundLemma, HeapAssumption DEF CallOK, InUse
<1>3. /\ size' \in [Block -> 0..Units] /\ next' \in [Block -> Link]
      /\ prev' \in [Block -> Link] /\ unused' \in Seq(Block) /\ addr' \in [Block -> Int]
      /\ new \in Block \ InUse /\ InUse' = InUse \cup {new} /\ ListOK'
      /\ \A c \in InUse : addr'[c] = addr[c]
      /\ \A c \in InUse \ {b} : size'[c] = size[c] /\ next'[c] = next[c]
      /\ size'[b] = call.arg /\ next'[b] = new /\ next'[new] = next[b]
  <2>1. call.arg < size[b]
    <3>1. size[b] \in Int
      BY <1>1, <1>2, HeapAssumption DEF TypeOK
    <3> QED
      BY <1>1, <1>2, <3>1
  <2>2. Splits(b, new, call.arg)
    BY <1>1 DEF Splits
  <2> HIDE DEF b, new
  <2> QED
    BY <1>1, <1>2, <2>1, <2>2, SplitLemma
<1> HIDE DEF b, new
<1>4. /\ occupied' \in [Block -> BOOLEAN] /\ occupied'[b] /\ ~occupied'[new]
      /\ \A c \in InUse \ {b} : occupied'[c] = occupied[c]
  BY <1>1, <1>2, <1>3 DEF TypeOK, InUse
<1>5. Returned(b)
  BY <1>1, <1>2, <1>3, <1>4 DEF Returned, b
<1>6. LiveOK' /\ OwnedOK' /\ live' \in SUBSET [ptr : Int, bytes : Nat]
  BY <1>2, <1>5, GrantLemma
<1>7. TypeOK'
  <2>1. call' \in Calls
    BY <1>1, BlockLemma DEF NoCall, Calls
  <2> QED
    BY <1>3, <1>4, <1>6, <2>1 DEF TypeOK
<1>8. \A c \in InUse' : NeighboursOK(c)'
  <2>1. \A c \in InUse : next[c] # BLOCK_NIL => next[c] \in InUse
    BY <1>1, NextLemma
  <2>2. \A c \in InUse : next[c] # BLOCK_NIL => occupied[c] \/ occupied[next[c]]
    BY <1>1 DEF HeapInv, NeighboursOK
  <2>3. ASSUME NEW c \in InUse', next'[c] # BLOCK_NIL, ~occupied'[c], ~occupied'[next'[c]]
        PROVE  FALSE
    <3>1. c # b
      BY <1>4, <2>3
    <3>2. CASE c = new
      <4>1. next[b] # BLOCK_NIL /\ next[b] \in InUse /\ occupied[next[b]]
        BY <1>1, <1>2, <1>3, <2>1, <2>2, <2>3, <3>2 DEF b
      <4> QED
        BY <1>3, <1>4, <2>3, <3>2, <4>1
    <3>3. CASE c # new
      <4>1. c \in InUse \ {b} /\ next'[c] = next[c] /\ next[c] \in InUse
        BY <1>3, <2>1, <2>3, <3>1, <3>3
      <4>2. ~occupied[c] /\ ~occupied[next[c]]
        BY <1>4, <2>3, <4>1
      <4> QED
        BY <2>2, <2>3, <4>1, <4>2
    <3> QED
      BY <3>2, <3>3
  <2> QED
    BY <2>3 DEF NeighboursOK
<1>9. CallOK'
  BY <1>1 DEF NoCall, CallOK
<1> QED
  BY <1>2, <1>3, <1>5, <1>6, <1>7, <1>8, <1>9 DEF HeapInv, b

(* The block to free is the one the pointer belongs to; its neighbours are *)
(* looked at next.                                                         *)
LEMMA FreeFoundStep ==
  ASSUME HeapInv, FreeFound
  PROVE  HeapInv'
<1> DEFINE b == call.current
<1>1. /\ TypeOK /\ ListOK /\ LiveOK /\ OwnedOK /\ CallOK /\ call.op = "free"
      /\ call.base = call.arg /\ occupied' = [occupied EXCEPT ![b] = FALSE]
      /\ live' = {l \in live : l.ptr # call.arg}
      /\ call' = [call EXCEPT !.op = "coalesce_next"]
      /\ UNCHANGED <<size, prev, next, unused, addr>> /\ InUse' = InUse
  BY DEF HeapInv, FreeFound, InUse
<1>2. b \in InUse /\ b \in Block /\ addr[b] = call.arg /\ call \in Calls
  BY <1>1 DEF CallOK, InUse, TypeOK
<1>3. call' \in Calls /\ call'.op = "coalesce_next" /\ call'.current = b
  BY <1>1, <1>2 DEF Calls
<1> HIDE DEF b
<1>4. /\ occupied' \in [Block -> BOOLEAN] /\ ~occupied'[b]
      /\ \A c \in InUse : c # b => occupied'[c] = occupied[c]
  BY <1>1, <1>2 DEF TypeOK, InUse, b
<1>5. TypeOK'
  BY <1>1, <1>3, <1>4 DEF TypeOK
<1>6. ListOK'
  BY <1>1 DEF ListOK, StackOK, BlockOK, Apart
<1>7. LiveOK'
  <2>1. ASSUME NEW l \in live'
        PROVE  \E c \in InUse' : occupied'[c] /\ addr'[c] = l.ptr /\ l.bytes <= size'[c] * Unit
    <3>1. PICK c \in InUse : occupied[c] /\ addr[c] = l.ptr /\ l.bytes <= size[c] * Unit
      BY <1>1, <2>1 DEF LiveOK
    <3>2. c # b
      BY <1>1, <1>2, <2>1, <3>1
    <3> QED
      BY <1>1, <1>4, <3>1, <3>2
  <2> QED
    BY <1>1, <2>1 DEF LiveOK
<1>8. OwnedOK'
  <2>1. ASSUME NEW c \in InUse, occupied'[c]
        PROVE  \E l \in live' : l.ptr = addr[c]
    <3>1. c # b /\ occupied[c]
      BY <1>4, <2>1
    <3>2. PICK l \in live : l.ptr = addr[c]
      BY <1>1, <3>1 DEF OwnedOK
    <3>3. l.ptr # call.arg
      BY <1>1, <1>2, <3>1, <3>2, AddrLemma
    <3> QED
      BY <1>1, <3>2, <3>3
  <2> QED
    BY <1>1, <2>1 DEF OwnedOK
<1>9. \A c \in InUse' : NeighboursOK(c)'
  <2>1. ASSUME NEW c \in InUse, next[c] # BLOCK_NIL, ~occupied'[c], ~occupied'[next[c]]
        PROVE  b \in {c, next[c]}
    <3>1. next[c] \in InUse
      BY <1>1, <2>1, NextLemma
    <3>2. NeighboursOK(c)
      BY DEF HeapInv
    <3> QED
      BY <1>1, <1>4, <2>1, <3>1, <3>2 DEF NeighboursOK
  <2> QED
    BY <1>1, <1>3, <2>1 DEF NeighboursOK
<1>10. CallOK'
  BY <1>1, <1>2, <1>3, <1>4 DEF CallOK
<1> QED
  BY <1>5, <1>6, <1>7, <1>8, <1>9, <1>10 DEF HeapInv

(* What two free blocks that become one leave as it is: every pointer, its *)
(* block, and what follows the other blocks.                               *)
LEMMA AbsorbLemma ==
  ASSUME HeapInv, NEW b \in InUse, NEW n, Absorbs(b, n), ~occupied[b], ~occupied[n],
         UNCHANGED <<occupied, live>>, call' \in Calls
  PROVE  /\ TypeOK' /\ ListOK' /\ LiveOK' /\ OwnedOK'
         /\ n \in InUse \ {b} /\ InUse' = InUse \ {n} /\ next'[b] = next[n]
         /\ \A c \in InUse' : c # b => next'[c] = next[c]
<1>1. TypeOK /\ ListOK /\ LiveOK /\ OwnedOK /\ addr' = addr
  BY DEF HeapInv, Absorbs
<1>2. /\ size' \in [Block -> 0..Units] /\ next' \in [Block -> Link]
      /\ prev' \in [Block -> Link] /\ unused' \in Seq(Block)
      /\ n \in InUse \ {b} /\ InUse' = InUse \ {n} /\ ListOK'
      /\ \A c \in InUse' : c # b => size'[c] = size[c] /\ next'[c] = next[c]
      /\ next'[b] = next[n]
  BY <1>1, MergeLemma
<1>3. TypeOK'
  BY <1>1, <1>2 DEF TypeOK
<1>4. LiveOK'
  <2>1. ASSUME NEW l \in live
        PROVE  \E c \in InUse' : occupied'[c] /\ addr'[c] = l.ptr /\ l.bytes <= size'[c] * Unit
    <3>1. PICK c \in InUse : occupied[c] /\ addr[c] = l.ptr /\ l.bytes <= size[c] * Unit
      BY <1>1, <2>1 DEF LiveOK
    <3>2. c # b /\ c # n
      BY <3>1
    <3> QED
      BY <1>1, <1>2, <3>1, <3>2
  <2> QED
    BY <1>1, <2>1 DEF LiveOK
<1>5. OwnedOK'
  BY <1>1, <1>2 DEF OwnedOK
<1> QED
  BY <1>2, <1>3, <1>4, <1>5

(* Afterwards the block has a free neighbour only before it.               *)
LEMMA CoalesceNextStep ==
  ASSUME HeapInv, CoalesceNext
  PROVE  HeapInv'
<1> DEFINE b == call.current
           n == next[b]
<1>1. /\ TypeOK /\ ListOK /\ LiveOK /\ OwnedOK /\ CallOK /\ call.op = "coalesce_next"
      /\ call' = [call EXCEPT !.op = "coalesce_prev"] /\ UNCHANGED <<occupied, live, addr>>
      /\ \A c \in InUse : NeighboursOK(c)
  BY DEF HeapInv, CoalesceNext
<1>2. b \in InUse /\ b \in Block /\ ~occupied[b] /\ call \in Calls
  BY <1>1 DEF CallOK, InUse, TypeOK
<1>3. call' \in Calls /\ call'.op = "coalesce_prev" /\ call'.current = b
  BY <1>1, <1>2 DEF Calls
<1>4. CASE MergesNext(b)
  <2>1. Absorbs(b, n) /\ ~occupied[n] /\ n # BLOCK_NIL
    BY <1>4 DEF CoalesceNext, Absorbs, MergesNext
  <2>2. b = call.current
    OBVIOUS
  <2> HIDE DEF b, n
  <2>3. /\ TypeOK' /\ ListOK' /\ LiveOK' /\ OwnedOK'
        /\ n \in InUse \ {b} /\ InUse' = InUse \ {n} /\ next'[b] = next[n]
        /\ \A c \in InUse' : c # b => next'[c] = next[c]
    BY <1>1, <1>2, <1>3, <2>1, AbsorbLemma
  <2>4. next[n] # BLOCK_NIL => next[n] # b /\ n # b
    <3>1. /\ b \in InUse /\ n \in InUse /\ n = next[b] /\ BlockOK(b) /\ BlockOK(n)
          /\ b \in Block /\ n \in Block
      BY <1>1, <1>2, <2>3 DEF ListOK, InUse, n
    <3>2. addr[b] \in Int /\ size[b] \in Int /\ addr[n] \in Int /\ size[n] \in Int
      BY <1>1, <3>1, HeapAssumption DEF TypeOK
    <3> QED
      BY <2>1, <2>3, <3>1, <3>2 DEF BlockOK
  <2>5. ASSUME NEW c \in InUse', next'[c] # BLOCK_NIL, ~occupied'[c], ~occupied'[next'[c]]
        PROVE  b = next'[c]
    <3>1. CASE c = b
      <4>1. NeighboursOK(n) /\ ~occupied[next[n]] /\ next[n] # BLOCK_NIL
        BY <1>1, <2>3, <2>5, <3>1
      <4> QED
        BY <1>1, <2>1, <2>2, <2>4, <4>1 DEF NeighboursOK
    <3>2. CASE c # b
      <4>1. c \in InUse /\ next'[c] = next[c] /\ NeighboursOK(c)
        BY <1>1, <2>3, <3>2
      <4> QED
        BY <1>1, <2>2, <2>5, <3>2, <4>1 DEF NeighboursOK
    <3> QED
      BY <3>1, <3>2
  <2>6. \A c \in InUse' : NeighboursOK(c)'
    BY <1>3, <2>5 DEF NeighboursOK
  <2>7. CallOK'
    BY <1>1, <1>2, <1>3, <2>3 DEF CallOK
  <2> QED
    BY <2>3, <2>6, <2>7 DEF HeapInv
<1>5. CASE ~MergesNext(b)
  <2>1. UNCHANGED <<size, next, prev, unused>> /\ InUse' = InUse
    BY <1>5 DEF CoalesceNext, InUse
  <2>2. TypeOK' /\ ListOK' /\ LiveOK' /\ OwnedOK'
    <3>1. TypeOK'
      BY <1>1, <1>3, <2>1 DEF TypeOK
    <3>2. ListOK'
      BY <1>1, <2>1 DEF ListOK, StackOK, BlockOK, Apart
    <3>3. LiveOK' /\ OwnedOK'
      BY <1>1, <2>1 DEF LiveOK, OwnedOK
    <3> QED
      BY <3>1, <3>2, <3>3
  <2>3. \A c \in InUse' : NeighboursOK(c)'
    BY <1>1, <1>3, <1>5, <2>1 DEF NeighboursOK, MergesNext
  <2>4. CallOK'
    BY <1>1, <1>2, <1>3, <2>1 DEF CallOK
  <2> QED
    BY <2>2, <2>3, <2>4 DEF HeapInv
<1> QED
  BY <1>4, <1>5

(* Afterwards it has no free neighbour.                                    *)
LEMMA CoalescePrevStep ==
  ASSUME HeapInv, CoalescePrev
  PROVE  HeapInv'
<1> DEFINE b == call.current
           p == prev[b]
<1>1. /\ TypeOK /\ ListOK /\ LiveOK /\ OwnedOK /\ CallOK /\ call.op = "coalesce_prev"
      /\ call' = NoCall /\ UNCHANGED <<occupied, live, addr>>
      /\ \A c \in InUse : NeighboursOK(c)
  BY DEF HeapInv, CoalescePrev, Return
<1>2. b \in InUse /\ b \in Block /\ ~occupied[b] /\ BlockOK(b)
  BY <1>1 DEF CallOK, InUse, ListOK
<1>3. call' \in Calls /\ CallOK' /\ call'.op = "none"
  BY <1>1, BlockLemma DEF NoCall, Calls, CallOK
<1>4. ASSUME NEW c \in InUse, next[c] # BLOCK_NIL, ~occupied[c], ~occupied[next[c]]
      PROVE  next[c] = b /\ p = c
  BY <1>1, <1>4, NextLemma DEF NeighboursOK
<1>5. CASE MergesPrev(b)
  <2>1. p \in InUse /\ next[p] = b /\ p # BLOCK_NIL /\ ~occupied[p]
    BY <1>2, <1>5 DEF BlockOK, MergesPrev
  <2>2. Absorbs(p, b)
    BY <1>2, <1>5, <2>1, BlockLemma DEF CoalescePrev, Absorbs, MergesPrev
  <2> HIDE DEF b, p
  <2>3. /\ TypeOK' /\ ListOK' /\ LiveOK' /\ OwnedOK'
        /\ b \in InUse \ {p} /\ InUse' = InUse \ {b} /\ next'[p] = next[b]
        /\ \A c \in InUse' : c # p => next'[c] = next[c]
    BY <1>1, <1>2, <1>3, <2>1, <2>2, AbsorbLemma
  <2>4. ASSUME NEW c \in InUse', next'[c] # BLOCK_NIL, ~occupied'[c], ~occupied'[next'[c]]
        PROVE  FALSE
    <3>1. CASE c = p
      BY <1>1, <1>2, <1>4, <2>3, <2>4, <3>1
    <3>2. CASE c # p
      BY <1>1, <1>4, <2>3, <2>4, <3>2
    <3> QED
      BY <3>1, <3>2
  <2> QED
    BY <1>3, <2>3, <2>4 DEF HeapInv, NeighboursOK
<1>6. CASE ~MergesPrev(b)
  <2>1. UNCHANGED <<size, next, prev, unused>> /\ InUse' = InUse
    BY <1>6 DEF CoalescePrev, InUse
  <2>2. TypeOK' /\ ListOK' /\ LiveOK' /\ OwnedOK'
    <3>1. TypeOK'
      BY <1>1, <1>3, <2>1 DEF TypeOK
    <3>2. ListOK'
      BY <1>1, <2>1 DEF ListOK, StackOK, BlockOK, Apart
    <3>3. LiveOK' /\ OwnedOK'
      BY <1>1, <2>1 DEF LiveOK, OwnedOK
    <3> QED
      BY <3>1, <3>2, <3>3
  <2>3. ASSUME NEW c \in InUse, next[c] # BLOCK_NIL, ~occupied[c], ~occupied[next[c]]
        PROVE  FALSE
    <3>1. p = c /\ c \in Block
      BY <1>4, <2>3 DEF InUse
    <3> QED
      BY <1>6, <2>3, <3>1, BlockLemma DEF MergesPrev
  <2>4. \A c \in InUse' : NeighboursOK(c)'
    BY <1>1, <2>1, <2>3 DEF NeighboursOK
  <2> QED
    BY <1>3, <2>2, <2>4 DEF HeapInv
<1> QED
  BY <1>5, <1>6

-----------------------------------------------------------------------------
(* One free block, which is the arena.                                     *)
LEMMA InitLemma ==
  ASSUME Init
  PROVE  HeapInv
<1>1. /\ Units \in Nat \ {0} /\ BlkCount \in Nat \ {0} /\ 0 \in Block
      /\ Block = 0..(BlkCount - 1) /\ BLOCK_NIL \in Link
  BY BlockLemma, HeapAssumption DEF Block, Link
<1>2. \A i \in 1..(BlkCount - 1) : i \in Block
  BY <1>1
<1>3. /\ unused \in Seq(Block) /\ DOMAIN unused = 1..(BlkCount - 1)
      /\ \A i \in 1..(BlkCount - 1) : unused[i] = i
  BY <1>1, <1>2, IsASeq DEF Init
<1>4. InUse = {0}
  BY <1>1, <1>3 DEF InUse
<1>5. TypeOK
  BY <1>1, <1>3 DEF Init, TypeOK, NoCall, Calls
<1>6. BlockOK(0) /\ NeighboursOK(0)
  BY <1>1 DEF Init, BlockOK, NeighboursOK
<1>7. ListOK
  BY <1>3, <1>4, <1>6 DEF ListOK, StackOK
<1>8. LiveOK /\ OwnedOK /\ CallOK
  BY <1>1, <1>4 DEF Init, LiveOK, OwnedOK, CallOK, NoCall
<1> QED
  BY <1>4, <1>5, <1>6, <1>7, <1>8 DEF HeapInv

(* No variable changes.                                                    *)
LEMMA StutterLemma ==
  ASSUME HeapInv, UNCHANGED vars
  PROVE  HeapInv'
<1>1. UNCHANGED <<size, occupied, prev, next, unused, call, live, addr>> /\ InUse' = InUse
  BY DEF vars, heapVars, InUse
<1>2. TypeOK' /\ ListOK'
  BY <1>1 DEF HeapInv, TypeOK, ListOK, StackOK, BlockOK, Apart
<1>3. LiveOK' /\ OwnedOK' /\ CallOK'
  BY <1>1 DEF HeapInv, LiveOK, OwnedOK, CallOK
<1>4. \A b \in InUse' : NeighboursOK(b)'
  BY <1>1 DEF HeapInv, NeighboursOK
<1> QED
  BY <1>2, <1>3, <1>4 DEF HeapInv

(* HeapInv is inductive.                                                   *)
THEOREM HeapInvariant == Spec => []HeapInv
<1>1. HeapInv /\ [Next]_vars => HeapInv'
  <2> SUFFICES ASSUME HeapInv, [Next]_vars
               PROVE  HeapInv'
    OBVIOUS
  <2>1. ASSUME NEW bytes \in Sizes, CallAlloc(bytes)
        PROVE  HeapInv'
    BY <2>1, CallAllocStep
  <2>2. ASSUME NEW l \in live, CallFree(l.ptr)
        PROVE  HeapInv'
    BY <2>2, CallFreeStep
  <2>3. CASE CallFree(Null)
    BY <2>3, CallFreeStep
  <2>4. CASE AllocStep
    BY <2>4, AllocSplitStep, ReturnStep, AllocExactStep, AdvanceStep DEF AllocStep
  <2>5. CASE FreeStep
    BY <2>5, FreeFoundStep, AdvanceStep, ReturnStep, CoalesceNextStep, CoalescePrevStep
       DEF FreeStep
  <2> QED
    BY <2>1, <2>2, <2>3, <2>4, <2>5, StutterLemma DEF Next
<1> QED
  BY InitLemma, <1>1, PTL DEF Spec

(* The pointers, their blocks and the bytes in them.                       *)
LEMMA RegionLemma ==
  ASSUME HeapInv
  PROVE  NoOverlap
<1>1. TypeOK /\ ListOK /\ LiveOK
  BY DEF HeapInv
<1>2. ASSUME NEW l \in live
      PROVE  \E b \in InUse : /\ addr[b] = l.ptr /\ l.bytes <= size[b] * Unit
                             /\ addr[b] \in Nat /\ size[b] \in Nat /\ l.bytes \in Nat \ {0}
                             /\ addr[b] + size[b] <= Units
  <2>1. PICK b \in InUse : addr[b] = l.ptr /\ l.bytes <= size[b] * Unit
    BY <1>1, <1>2 DEF LiveOK
  <2>2. BlockOK(b) /\ addr[b] \in Int /\ size[b] \in Int
    BY <1>1, HeapAssumption DEF ListOK, TypeOK, InUse
  <2>3. addr[b] \in Nat /\ size[b] \in Nat /\ addr[b] + size[b] <= Units
    BY <2>2 DEF BlockOK
  <2>4. l.bytes \in Nat \ {0}
    BY <1>1, <1>2 DEF LiveOK
  <2> QED
    BY <2>1, <2>3, <2>4
<1>3. ASSUME NEW l \in live
      PROVE  Region(l) \subseteq 0..(Units * Unit - 1)
  <2>1. PICK b \in InUse : /\ addr[b] = l.ptr /\ l.bytes <= size[b] * Unit
                          /\ addr[b] \in Nat /\ size[b] \in Nat /\ l.bytes \in Nat \ {0}
                          /\ addr[b] + size[b] <= Units
    BY <1>2, <1>3
  <2> QED
    BY <2>1, InsideLemma DEF Region
<1>4. ASSUME NEW k \in live, NEW l \in live, k # l
      PROVE  Region(k) \cap Region(l) = {}
  <2>1. PICK b \in InUse : /\ addr[b] = k.ptr /\ k.bytes <= size[b] * Unit
                          /\ addr[b] \in Nat /\ size[b] \in Nat /\ k.bytes \in Nat \ {0}
                          /\ addr[b] + size[b] <= Units
    BY <1>2
  <2>2. PICK c \in InUse : /\ addr[c] = l.ptr /\ l.bytes <= size[c] * Unit
                          /\ addr[c] \in Nat /\ size[c] \in Nat /\ l.bytes \in Nat \ {0}
                          /\ addr[c] + size[c] <= Units
    BY <1>2
  <2>3. b # c
    BY <1>1, <1>4, <2>1, <2>2 DEF LiveOK
  <2>4. addr[b] + size[b] <= addr[c] \/ addr[c] + size[c] <= addr[b]
    BY <1>1, <2>3 DEF ListOK, Apart
  <2>5. ((addr[b] * Unit)..(addr[b] * Unit + k.bytes - 1))
          \cap ((addr[c] * Unit)..(addr[c] * Unit + l.bytes - 1)) = {}
    <3> DEFINE a == addr[b]
               s == size[b]
               m == k.bytes
               d == addr[c]
               t == size[c]
               n == l.bytes
    <3>1. /\ a \in Nat /\ s \in Nat /\ m \in Nat /\ m <= s * Unit
          /\ d \in Nat /\ t \in Nat /\ n \in Nat /\ n <= t * Unit
      BY <2>1, <2>2
    <3>2. a + s <= d \/ d + t <= a
      BY <2>4
    <3> HIDE DEF a, s, m, d, t, n
    <3>3. ((a * Unit)..(a * Unit + m - 1)) \cap ((d * Unit)..(d * Unit + n - 1)) = {}
      BY <3>1, <3>2, ApartLemma
    <3> QED
      BY <3>3 DEF a, m, d, n
  <2> QED
    BY <2>1, <2>2, <2>5 DEF Region
<1> QED
  BY <1>3, <1>4 DEF NoOverlap

(* Outstanding pointers never share a byte and stay inside the arena.      *)
THEOREM PointersStayApart == Spec => []NoOverlap
BY RegionLemma, HeapInvariant, PTL

(* Nothing leaks, and heap_free finds what heap_alloc returned.            *)
THEOREM NothingLeaks == Spec => []OccupiedIsLive
<1>1. ASSUME HeapInv
      PROVE  OccupiedIsLive
  <2>1. TypeOK /\ ListOK /\ LiveOK /\ OwnedOK
    BY <1>1 DEF HeapInv
  <2>2. ASSUME NEW b \in InUse, occupied[b]
        PROVE  \E l \in live : l.ptr = addr[b] /\ l.bytes <= size[b] * Unit
    <3>1. PICK l \in live : l.ptr = addr[b]
      BY <2>1, <2>2 DEF OwnedOK
    <3>2. PICK c \in InUse : addr[c] = l.ptr /\ l.bytes <= size[c] * Unit
      BY <2>1 DEF LiveOK
    <3>3. c = b
      BY <2>1, <3>1, <3>2, AddrLemma
    <3> QED
      BY <3>1, <3>2, <3>3
  <2> QED
    BY <2>1, <2>2 DEF LiveOK, OccupiedIsLive
<1> QED
  BY <1>1, HeapInvariant, PTL

(* Between two calls no free blocks are neighbours.                        *)
THEOREM FreeBlocksMerge == Spec => []Coalesced
<1>1. HeapInv => Coalesced
  BY DEF HeapInv, NeighboursOK, Coalesced
<1> QED
  BY <1>1, HeapInvariant, PTL

(* The variables keep their types; in particular no size outgrows its      *)
(* field and no link leaves the table.                                     *)
THEOREM HeapTypes == Spec => []TypeOK
<1>1. HeapInv => TypeOK
  BY DEF HeapInv
<1> QED
  BY <1>1, HeapInvariant, PTL

(* A search that fails has overlooked no block that would do.              *)
THEOREM SearchIsComplete == Spec => FailsOnlyIfFull
<1>1. ASSUME HeapInv, AllocFail, NEW b \in InUse
      PROVE  occupied[b] \/ size[b] < call.arg
  <2> DEFINE c == call.current
  <2>1. /\ TypeOK /\ ListOK /\ CallOK /\ call.op = "alloc" /\ next[c] = BLOCK_NIL
        /\ ~AllocLarger /\ ~AllocEqual
    BY <1>1 DEF HeapInv, AllocFail
  <2>2. c \in InUse /\ call.base = addr[c] /\ BlockOK(b) /\ BlockOK(c) /\ call.arg \in Int
    BY <2>1 DEF CallOK, ListOK, TypeOK, Calls
  <2>3. addr[b] \in Int /\ size[b] \in Int /\ addr[c] \in Int /\ size[c] \in Int
    BY <2>1, <2>2, HeapAssumption DEF TypeOK, InUse
  <2>4. CASE b = c
    BY <2>1, <2>2, <2>3, <2>4 DEF AllocLarger, AllocEqual
  <2>5. CASE b # c
    <3>1. Apart(b, c)
      BY <2>1, <2>2, <2>5 DEF ListOK
    <3> HIDE DEF c
    <3>2. addr[b] < call.base
      BY <2>1, <2>2, <2>3, <3>1, HeapAssumption DEF Apart, BlockOK
    <3> QED
      BY <2>1, <3>2 DEF CallOK
  <2> QED
    BY <2>4, <2>5
<1>2. HeapInv => [AllocFail => \A b \in InUse : occupied[b] \/ size[b] < call.arg]_vars
  BY <1>1
<1> QED
  BY <1>2, HeapInvariant, PTL DEF FailsOnlyIfFull

(* A returned block is an allocation of Allocator.                         *)
LEMMA AllocateLemma ==
  ASSUME HeapInv, HeapInv', NEW b \in InUse, Returned(b)
  PROVE  Abstract!Next
<1> DEFINE new == [ptr |-> call.base, bytes |-> call.bytes]
<1>0. NoOverlap'
  BY RegionLemma, PTL
<1>1. /\ TypeOK /\ ListOK /\ LiveOK /\ CallOK /\ live' = live \cup {new}
      /\ call.bytes \in Sizes /\ call.base = addr[b]
  BY DEF HeapInv, Returned, Granted, CallOK
<1>2. \A l \in live : l.ptr # call.base
  BY <1>1, FreshLemma DEF Returned
<1>3. new \notin live /\ new.ptr = call.base
  BY <1>2
<1>4. Region(new) \subseteq 0..(Units * Unit - 1) /\ \A l \in live : Region(l) \cap Region(new) = {}
  <2> HIDE DEF new
  <2> QED
    BY <1>0, <1>1, <1>3 DEF NoOverlap, Region
<1>5. call.base \in 0..(Units * Unit - 1)
  <2>1. BlockOK(b) /\ addr[b] \in Int /\ size[b] \in Int /\ Units \in Int
    BY <1>1, HeapAssumption DEF ListOK, TypeOK, InUse
  <2>2. addr[b] >= 0 /\ addr[b] < Units
    BY <2>1 DEF BlockOK
  <2>3. CASE Unit = 1
    BY <1>1, <2>1, <2>2, <2>3
  <2>4. CASE Unit = 16
    BY <1>1, <2>1, <2>2, <2>4
  <2> QED
    BY <2>3, <2>4, HeapAssumption
<1>6. Abstract!Allocate(call.base, call.bytes)
  BY <1>1, <1>2, <1>4 DEF Abstract!Allocate, Abstract!Region, Region
<1> QED
  BY <1>1, <1>5, <1>6 DEF Abstract!Next

(* Heap implements Allocator: every step allocates fresh bytes, ends one   *)
(* outstanding pointer, or is invisible.                                   *)
THEOREM HeapIsAllocator == Spec => ImplementsAllocator
<1>1. Init => Abstract!Init
  BY DEF Init, Abstract!Init
<1>2. ASSUME HeapInv, HeapInv', [Next]_vars
      PROVE  [Abstract!Next]_live
  <2>1. CASE AllocSplit
    BY <1>2, <2>1, AllocSplitStep, AllocateLemma
  <2>2. CASE AllocExact
    BY <1>2, <2>2, AllocExactStep, AllocateLemma
  <2>3. CASE FreeFound
    <3>1. /\ live' = {l \in live : l.ptr # call.arg} /\ call.arg = addr[call.current]
          /\ call.current \in InUse /\ BlockOK(call.current) /\ addr[call.current] \in Int
          /\ call.arg = Null \/ \E l \in live : l.ptr = call.arg
      BY <1>2, <2>3 DEF HeapInv, FreeFound, CallOK, ListOK, TypeOK, InUse
    <3>2. PICK l \in live : l.ptr = call.arg
      BY <3>1 DEF BlockOK, Null
    <3> QED
      BY <3>1, <3>2 DEF Abstract!Next, Abstract!Free
  <2>4. CASE UNCHANGED live
    BY <2>4
  <2>5. AllocSplit \/ AllocExact \/ FreeFound \/ UNCHANGED live
    BY <1>2 DEF Next, AllocStep, FreeStep, CallAlloc, CallFree, AllocNoDescriptor, AllocAdvance,
         AllocFail, FreeAdvance, FreeUnknown, CoalesceNext, CoalescePrev, vars
  <2> QED
    BY <2>1, <2>2, <2>3, <2>4, <2>5
<1> QED
  BY <1>1, <1>2, HeapInvariant, PTL DEF Spec, ImplementsAllocator, Abstract!Spec

-----------------------------------------------------------------------------
(* The walk along the next links is defined: it starts at descriptor 0 and *)
(* goes on link by link.                                                   *)
LEMMA WalkLemma ==
  ASSUME TypeOK
  PROVE  /\ Walk \in [Nat -> Link]
         /\ Walk[0] = 0
         /\ \A i \in Nat : Walk[i + 1] =
              IF Walk[i] = BLOCK_NIL THEN BLOCK_NIL ELSE next[Walk[i]]
<1> DEFINE step == [x \in Link |-> IF x = BLOCK_NIL THEN BLOCK_NIL ELSE next[x]]
           F(g) == [i \in Nat |-> IF i = 0 THEN 0
                                  ELSE IF g[i - 1] = BLOCK_NIL THEN BLOCK_NIL
                                  ELSE next[g[i - 1]]]
           A == Walk
           a == 0
<1>1. a \in Link /\ step \in [Link -> Link]
  BY BlockLemma DEF TypeOK, Link
<1>2. PICK g \in [Nat -> Link] : g[0] = a /\ \A n \in Nat : g[n + 1] = step[g[n]]
  <2> HIDE DEF step, a
  <2> QED
    BY <1>1, IterationExists
<1>3. g = F(g)
  <2>1. \A i \in Nat : g[i] = F(g)[i]
    <3> SUFFICES ASSUME NEW i \in Nat
                 PROVE  g[i] = F(g)[i]
      OBVIOUS
    <3>1. CASE i = 0
      BY <1>2, <3>1
    <3>2. CASE i # 0
      <4>1. i - 1 \in Nat /\ i = (i - 1) + 1
        BY <3>2
      <4>2. g[i] = step[g[i - 1]] /\ g[i - 1] \in Link
        BY <1>2, <4>1
      <4> QED
        BY <3>2, <4>2
    <3> QED
      BY <3>1, <3>2
  <2> QED
    BY <1>2, <2>1
<1>4. Walk = F(Walk)
  <2>1. Walk = CHOOSE f : f = F(f)
    BY DEF Walk
  <2> HIDE DEF F
  <2> QED
    BY <1>3, <2>1, Zenon
<1> HIDE DEF A
<1>5. A = F(A)
  BY <1>4 DEF A
<1>6. A[0] = 0
  BY <1>5
<1>7. \A i \in Nat : A[i + 1] = IF A[i] = BLOCK_NIL THEN BLOCK_NIL ELSE next[A[i]]
  BY <1>5
<1>8. \A i \in Nat : A[i] \in Link
  <2> DEFINE T == {i \in Nat : A[i] \in Link}
  <2>1. 0 \in T
    BY <1>1, <1>6
  <2>2. \A i \in Nat : i \in T => i + 1 \in T
    <3>1. next \in [Block -> Link]
      BY DEF TypeOK
    <3> QED
      BY <1>7, <3>1 DEF Link
  <2>3. \A i \in Nat : i \in T
    <3> HIDE DEF T
    <3> QED
      BY <2>1, <2>2, SetInduction
  <2> QED
    BY <2>3
<1>9. A \in [Nat -> Link]
  <2>1. A = [i \in Nat |-> F(A)[i]]
    BY <1>5
  <2>2. A = [i \in Nat |-> A[i]]
    BY <1>5, <2>1
  <2> QED
    BY <1>8, <2>2
<1> QED
  BY <1>6, <1>7, <1>9 DEF A

(* Descriptors and addresses along the walk: it stays among the blocks in  *)
(* use until it ends, and each block starts where the last one ended.      *)
LEMMA WalkStaysLemma ==
  ASSUME TypeOK, ListOK
  PROVE  /\ \A i \in Nat : Walk[i] # BLOCK_NIL => Walk[i] \in InUse
         /\ \A i \in Nat : Walk[i + 1] # BLOCK_NIL =>
              /\ Walk[i] # BLOCK_NIL /\ Walk[i + 1] = next[Walk[i]]
              /\ addr[Walk[i + 1]] = addr[Walk[i]] + size[Walk[i]]
<1> DEFINE A == Walk
<1>1. /\ A \in [Nat -> Link] /\ A[0] = 0
      /\ \A i \in Nat : A[i + 1] = IF A[i] = BLOCK_NIL THEN BLOCK_NIL ELSE next[A[i]]
  BY WalkLemma
<1> HIDE DEF A
<1>2. /\ 0 \in InUse
      /\ \A b \in InUse : next[b] # BLOCK_NIL =>
           next[b] \in InUse /\ addr[next[b]] = addr[b] + size[b]
  BY DEF ListOK, StackOK, BlockOK
<1>3. \A i \in Nat : A[i] # BLOCK_NIL => A[i] \in InUse
  <2> DEFINE T == {i \in Nat : A[i] # BLOCK_NIL => A[i] \in InUse}
  <2>1. 0 \in T
    BY <1>1, <1>2
  <2>2. \A i \in Nat : i \in T => i + 1 \in T
    BY <1>1, <1>2
  <2>3. \A i \in Nat : i \in T
    <3> HIDE DEF T
    <3> QED
      BY <2>1, <2>2, SetInduction
  <2> QED
    BY <2>3
<1>4. \A i \in Nat : A[i + 1] # BLOCK_NIL =>
        /\ A[i] # BLOCK_NIL /\ A[i + 1] = next[A[i]]
        /\ addr[A[i + 1]] = addr[A[i]] + size[A[i]]
  BY <1>1, <1>2, <1>3
<1> QED
  BY <1>3, <1>4 DEF A

(* The walk meets no block twice: the addresses grow.                      *)
LEMMA WalkGrowsLemma ==
  ASSUME TypeOK, ListOK, NEW j \in Nat, Walk[j] # BLOCK_NIL
  PROVE  \A i \in 0..j : Walk[i] # BLOCK_NIL /\ (i < j => addr[Walk[i]] < addr[Walk[j]])
<1> DEFINE A == Walk
           T == {k \in Nat : A[k] # BLOCK_NIL =>
                   \A i \in 0..k : A[i] # BLOCK_NIL /\ (i < k => addr[A[i]] < addr[A[k]])}
<1>1. /\ \A i \in Nat : A[i] # BLOCK_NIL => A[i] \in InUse
      /\ \A i \in Nat : A[i + 1] # BLOCK_NIL =>
           A[i] # BLOCK_NIL /\ addr[A[i + 1]] = addr[A[i]] + size[A[i]]
  BY WalkStaysLemma
<1> HIDE DEF A
<1>2. \A b \in InUse : addr[b] \in Nat /\ size[b] \in Nat /\ size[b] > 0
  BY HeapAssumption DEF ListOK, BlockOK, TypeOK, InUse
<1>3. 0 \in T
  OBVIOUS
<1>4. \A k \in Nat : k \in T => k + 1 \in T
  <2> SUFFICES ASSUME NEW k \in Nat, k \in T, A[k + 1] # BLOCK_NIL, NEW i \in 0..(k + 1)
               PROVE  A[i] # BLOCK_NIL /\ (i < k + 1 => addr[A[i]] < addr[A[k + 1]])
    OBVIOUS
  <2>1. /\ A[k] # BLOCK_NIL /\ A[k] \in InUse /\ addr[A[k + 1]] = addr[A[k]] + size[A[k]]
    BY <1>1
  <2>2. addr[A[k]] < addr[A[k + 1]]
    BY <1>2, <2>1
  <2>3. CASE i = k + 1
    BY <2>3
  <2>4. CASE i = k
    BY <2>1, <2>2, <2>4
  <2>5. CASE i \in 0..(k - 1)
    <3>1. i \in 0..k /\ i < k
      BY <2>5
    <3>2. A[i] # BLOCK_NIL /\ addr[A[i]] < addr[A[k]]
      BY <2>1, <3>1
    <3>3. A[i] \in InUse
      BY <1>1, <3>1, <3>2
    <3> QED
      BY <1>2, <2>1, <2>2, <3>2, <3>3
  <2> QED
    BY <2>3, <2>4, <2>5
<1>5. j \in T
  <2> HIDE DEF T
  <2> QED
    BY <1>3, <1>4, SetInduction
<1> QED
  BY <1>5 DEF A

(* The walk ends, after at most as many blocks as there are descriptors.   *)
LEMMA WalkEndsLemma ==
  ASSUME TypeOK, ListOK
  PROVE  \E n \in 1..BlkCount :
           /\ Walk[n] = BLOCK_NIL /\ \A i \in 0..(n - 1) : Walk[i] # BLOCK_NIL
           /\ ChainLen = n
<1> DEFINE A == Walk
           Ends(k) == A[k] = BLOCK_NIL /\ \A i \in 0..(k - 1) : A[i] # BLOCK_NIL
<1>1. A \in [Nat -> Link] /\ A[0] = 0
  BY WalkLemma
<1>2. \A i \in Nat : A[i] # BLOCK_NIL => A[i] \in InUse
  BY WalkStaysLemma
<1>3. \A j \in Nat : A[j] # BLOCK_NIL =>
        \A i \in 0..j : A[i] # BLOCK_NIL /\ (i < j => addr[A[i]] < addr[A[j]])
  BY WalkGrowsLemma
<1> HIDE DEF A
<1>4. BlkCount \in Nat /\ IsFiniteSet(Block) /\ Cardinality(Block) = BlkCount
  <2>1. BlkCount \in Nat /\ BlkCount > 0
    BY HeapAssumption DEF BLOCK_NIL
  <2>2. 0 \in Int /\ BlkCount - 1 \in Int
    BY <2>1
  <2>3. IsFiniteSet(0..(BlkCount - 1)) /\ Cardinality(0..(BlkCount - 1)) =
          IF 0 > BlkCount - 1 THEN 0 ELSE (BlkCount - 1) - 0 + 1
    BY <2>2, FS_Interval
  <2> QED
    BY <2>1, <2>3 DEF Block
<1>5. A[BlkCount] = BLOCK_NIL
  <2> SUFFICES ASSUME A[BlkCount] # BLOCK_NIL
               PROVE  FALSE
    OBVIOUS
  <2> DEFINE f == [i \in 0..BlkCount |-> A[i]]
  <2>1. \A i \in 0..BlkCount : A[i] \in InUse /\ A[i] \in Block /\ addr[A[i]] \in Int
    BY <1>2, <1>3, <1>4 DEF InUse, TypeOK
  <2>2. \A i, j \in 0..BlkCount : A[i] = A[j] => i = j
    <3> SUFFICES ASSUME NEW i \in 0..BlkCount, NEW j \in 0..BlkCount, i < j
                 PROVE  A[i] # A[j]
      BY <1>4
    <3>1. addr[A[i]] < addr[A[j]]
      <4>1. j \in Nat /\ A[j] # BLOCK_NIL /\ i \in 0..j
        BY <1>3, <1>4
      <4> QED
        BY <1>3, <4>1
    <3> QED
      BY <2>1, <3>1
  <2>3. f \in Injection(0..BlkCount, Block)
    <3>1. f \in [0..BlkCount -> Block] /\ \A i, j \in 0..BlkCount : f[i] = f[j] => i = j
      BY <2>1, <2>2
    <3> HIDE DEF f
    <3> QED
      BY <3>1 DEF Injection, IsInjective
  <2>4. Cardinality(0..BlkCount) <= BlkCount
    <3> HIDE DEF f
    <3> QED
      BY <1>4, <2>3, FS_Injection
  <2>5. Cardinality(0..BlkCount) = BlkCount + 1
    <3>1. 0 \in Int /\ BlkCount \in Int
      BY <1>4
    <3>2. Cardinality(0..BlkCount) = IF 0 > BlkCount THEN 0 ELSE BlkCount - 0 + 1
      BY <3>1, FS_Interval
    <3> QED
      BY <1>4, <3>2
  <2> QED
    BY <1>4, <2>4, <2>5
<1>6. PICK n \in Nat : A[n] = BLOCK_NIL /\ \A k \in Nat : A[k] = BLOCK_NIL => n <= k
  <2> DEFINE T == {k \in Nat : A[k] = BLOCK_NIL}
  <2>1. T \subseteq Nat /\ T # {}
    BY <1>4, <1>5
  <2>2. PICK n \in T : \A k \in T : n <= k
    <3> HIDE DEF T
    <3> QED
      BY <2>1, LeastNatural
  <2> QED
    BY <2>2
<1>7. n \in 1..BlkCount /\ Ends(n)
  <2>1. n <= BlkCount /\ n # 0
    BY <1>1, <1>4, <1>5, <1>6, BlockLemma
  <2>2. \A i \in 0..(n - 1) : i \in Nat /\ ~(n <= i)
    OBVIOUS
  <2> QED
    BY <1>4, <1>6, <2>1, <2>2
<1>8. \A k \in 1..BlkCount : Ends(k) => k = n
  <2> SUFFICES ASSUME NEW k \in 1..BlkCount, Ends(k)
               PROVE  k = n
    OBVIOUS
  <2>1. n <= k
    BY <1>6
  <2>2. n < k => n \in 0..(k - 1)
    OBVIOUS
  <2> QED
    BY <1>6, <2>1, <2>2
<1>9. ChainLen = n
  <2>1. ChainLen = CHOOSE k \in 1..BlkCount : Ends(k)
    BY DEF ChainLen, A
  <2> HIDE DEF Ends
  <2> QED
    BY <1>7, <1>8, <2>1
<1> QED
  BY <1>7, <1>9 DEF A

(* Every block in use is met: if not, the first one that is not comes      *)
(* after one that is.                                                      *)
LEMMA WalkCoversLemma ==
  ASSUME TypeOK, ListOK, NEW n \in Nat, Walk[n] = BLOCK_NIL
  PROVE  \A b \in InUse : \E i \in 0..(n - 1) : Walk[i] = b
<1> DEFINE A == Walk
<1>1. /\ A[0] = 0
      /\ \A i \in Nat : A[i + 1] = IF A[i] = BLOCK_NIL THEN BLOCK_NIL ELSE next[A[i]]
  BY WalkLemma
<1>2. \A j \in Nat : A[j] # BLOCK_NIL => \A i \in 0..j : A[i] # BLOCK_NIL
  BY WalkGrowsLemma
<1> DEFINE T == {addr[b] : b \in {c \in InUse : ~\E i \in Nat : A[i] = c}}
<1> HIDE DEF A
<1>3. \A b \in InUse : /\ addr[b] \in Nat /\ size[b] \in Nat /\ size[b] > 0 /\ b # BLOCK_NIL
                       /\ b # 0 => /\ prev[b] \in InUse /\ next[prev[b]] = b
                                   /\ addr[b] = addr[prev[b]] + size[prev[b]]
  <2> SUFFICES ASSUME NEW b \in InUse
               PROVE  /\ addr[b] \in Nat /\ size[b] \in Nat /\ size[b] > 0 /\ b # BLOCK_NIL
                      /\ b # 0 => /\ prev[b] \in InUse /\ next[prev[b]] = b
                                  /\ addr[b] = addr[prev[b]] + size[prev[b]]
    OBVIOUS
  <2>1. addr[b] \in Nat /\ size[b] \in Nat /\ size[b] > 0 /\ b # BLOCK_NIL
    BY HeapAssumption, BlockLemma DEF ListOK, BlockOK, TypeOK, InUse
  <2>2. b # 0 => prev[b] \in InUse /\ next[prev[b]] = b
    BY DEF ListOK, BlockOK
  <2>3. b # 0 => addr[b] = addr[prev[b]] + size[prev[b]]
    BY <2>1, <2>2 DEF ListOK, BlockOK
  <2> QED
    BY <2>1, <2>2, <2>3
<1>4. T = {}
  <2> SUFFICES ASSUME T # {}
               PROVE  FALSE
    OBVIOUS
  <2>1. T \subseteq Nat
    BY <1>3
  <2>2. PICK a \in T : \A k \in T : a <= k
    <3> HIDE DEF T
    <3> QED
      BY <2>1, LeastNatural
  <2>3. PICK b \in InUse : a = addr[b] /\ \A i \in Nat : A[i] # b
    BY <2>2
  <2>4. b # 0
    BY <1>1, <2>3
  <2>5. /\ prev[b] \in InUse /\ next[prev[b]] = b
        /\ addr[prev[b]] \in Nat /\ addr[prev[b]] < addr[b]
    BY <1>3, <2>4
  <2>6. addr[prev[b]] \notin T
    <3> HIDE DEF T
    <3>1. a \in Nat
      BY <2>1
    <3> QED
      BY <2>2, <2>3, <2>5, <3>1
  <2>7. PICK i \in Nat : A[i] = prev[b]
    BY <2>5, <2>6
  <2>8. A[i + 1] = b
    BY <1>1, <1>3, <2>5, <2>7
  <2> QED
    BY <2>3, <2>8
<1>5. ASSUME NEW b \in InUse
      PROVE  \E i \in 0..(n - 1) : A[i] = b
  <2>1. PICK i \in Nat : A[i] = b
    BY <1>4
  <2>2. ~(n <= i)
    <3>1. n <= i => n \in 0..i
      OBVIOUS
    <3> QED
      BY <1>2, <1>3, <2>1, <3>1 DEF A
  <2> QED
    BY <2>1, <2>2
<1> QED
  BY <1>5 DEF A

(* No descriptor is lost and none is used twice, and the blocks tile the   *)
(* arena: the chain from descriptor 0 meets every block in use, once, and  *)
(* ends where the arena ends.                                              *)
THEOREM DescriptorsKept == Spec => []DescriptorsConserved
<1>1. HeapInv => DescriptorsConserved
  <2> SUFFICES ASSUME HeapInv
               PROVE  DescriptorsConserved
    OBVIOUS
  <2>1. TypeOK /\ ListOK
    BY DEF HeapInv
  <2>2. PICK n \in 1..BlkCount :
          /\ Walk[n] = BLOCK_NIL /\ \A i \in 0..(n - 1) : Walk[i] # BLOCK_NIL
          /\ ChainLen = n
    BY <2>1, WalkEndsLemma
  <2>3. n \in Nat /\ n > 0
    BY HeapAssumption
  <2>4. /\ Chain = [i \in 1..n |-> Walk[i - 1]] /\ DOMAIN Chain = 1..n
        /\ \A i \in 1..n : Chain[i] = Walk[i - 1]
    BY <2>2 DEF Chain
  <2> DEFINE c == Chain
  <2> HIDE DEF c
  <2>5. {c[i] : i \in 1..n} = InUse
    <3>1. \A i \in 1..n : c[i] \in InUse
      BY <2>1, <2>2, <2>3, <2>4, WalkStaysLemma DEF c
    <3>2. \A b \in InUse : \E i \in 1..n : c[i] = b
      <4> SUFFICES ASSUME NEW b \in InUse
                   PROVE  \E i \in 1..n : c[i] = b
        OBVIOUS
      <4>1. PICK i \in 0..(n - 1) : Walk[i] = b
        BY <2>1, <2>2, <2>3, WalkCoversLemma
      <4>2. i + 1 \in 1..n /\ (i + 1) - 1 = i
        BY <2>3
      <4> QED
        BY <2>4, <4>1, <4>2 DEF c
    <3> QED
      BY <3>1, <3>2
  <2>6. \A i \in 1..n : addr[c[i]] = IF i = 1 THEN 0 ELSE addr[c[i - 1]] + size[c[i - 1]]
    <3> SUFFICES ASSUME NEW i \in 1..n
                 PROVE  addr[c[i]] = IF i = 1 THEN 0 ELSE addr[c[i - 1]] + size[c[i - 1]]
      OBVIOUS
    <3>1. CASE i = 1
      <4>1. c[i] = 0
        BY <2>1, <2>4, <3>1, WalkLemma DEF c
      <4> QED
        BY <2>1, <3>1, <4>1 DEF ListOK, StackOK, BlockOK
    <3>2. CASE i # 1
      <4>1. i - 1 \in 1..n /\ i - 2 \in Nat /\ (i - 2) + 1 = i - 1 /\ (i - 1) - 1 = i - 2
            /\ i - 1 \in 0..(n - 1)
        BY <2>3, <3>2
      <4>2. c[i] = Walk[(i - 2) + 1] /\ c[i - 1] = Walk[i - 2]
        BY <2>4, <4>1 DEF c
      <4>3. Walk[(i - 2) + 1] # BLOCK_NIL
        BY <2>2, <4>1
      <4> QED
        BY <2>1, <3>2, <4>1, <4>2, <4>3, WalkStaysLemma
    <3> QED
      BY <3>1, <3>2
  <2>7. addr[c[n]] + size[c[n]] = Units
    <3>1. n - 1 \in Nat /\ (n - 1) + 1 = n /\ n - 1 \in 0..(n - 1) /\ n \in 1..n
      BY <2>3
    <3>2. c[n] = Walk[n - 1] /\ Walk[n - 1] # BLOCK_NIL
      BY <2>2, <2>4, <3>1 DEF c
    <3>3. c[n] \in InUse /\ next[c[n]] = BLOCK_NIL
      BY <2>1, <2>2, <3>1, <3>2, WalkLemma, WalkStaysLemma
    <3> QED
      BY <2>1, <3>3 DEF ListOK, BlockOK
  <2>8. Len(Chain) = n
    BY <2>3, <2>4
  <2> QED
    BY <2>1, <2>4, <2>5, <2>6, <2>7, <2>8 DEF DescriptorsConserved, ListOK, StackOK, c
<1> QED
  BY <1>1, HeapInvariant, PTL

=============================================================================
