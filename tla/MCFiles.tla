------------------------------ MODULE MCFiles ------------------------------
(* For the run of Files: the records of two children can be exchanged, and *)
(* a behaviour is followed until CountsExact promises nothing any more     *)
EXTENDS Files, TLC

CONSTANTS c1, c2

Sym == Permutations({c1, c2})

Followed == ~lost /\ ~wrapped
=============================================================================
