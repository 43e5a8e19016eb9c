---------------------------- MODULE MCProcTable ----------------------------
(* For the runs of ProcTable: the records of the children can be exchanged *)
EXTENDS ProcTable, TLC

CONSTANTS c1, c2, c3

Sym == Permutations({c1, c2, c3})
=============================================================================
