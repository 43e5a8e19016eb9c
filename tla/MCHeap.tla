------------------------------- MODULE MCHeap -------------------------------
(* The runs of Heap need nothing beyond the constants in their .cfg        *)
EXTENDS Heap
=============================================================================
