----------------------------- MODULE Allocator -----------------------------
(***************************************************************************)
(* What a heap promises its callers, without blocks: a pointer that is     *)
(* returned stands for as many bytes as were asked for, inside the arena,  *)
(* none of which another outstanding pointer stands for; a freed pointer   *)
(* is gone.  Heap implements it.                                           *)
(***************************************************************************)
EXTENDS Integers

CONSTANTS ArenaBytes,  \* size of the arena
          Unit,        \* pointers are multiples of Unit
          Sizes        \* the sizes that are asked for

VARIABLE live          \* the outstanding pointers [ptr, bytes]

Region(l) == (l.ptr * Unit)..(l.ptr * Unit + l.bytes - 1)

Init == live = {}

Allocate(ptr, bytes) ==
  LET new == [ptr |-> ptr, bytes |-> bytes] IN
  /\ Region(new) \subseteq 0..(ArenaBytes - 1)
  /\ \A l \in live : l.ptr # ptr /\ Region(l) \cap Region(new) = {}
  /\ live' = live \cup {new}

Free(ptr) == live' = {l \in live : l.ptr # ptr}

Next == \/ \E ptr \in 0..(ArenaBytes - 1), bytes \in Sizes : Allocate(ptr, bytes)
        \/ \E l \in live : Free(l.ptr)

Spec == Init /\ [][Next]_live
=============================================================================
