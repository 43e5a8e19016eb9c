--------------------------- MODULE MCKernelMutex ---------------------------
(* Constants for the runs of KernelMutex: the kernel's init process and    *)
(* two or three others, which are interchangeable, and two mutexes.        *)
EXTENDS KernelMutex, TLC

CONSTANTS idle, p1, p2, p3, m1, m2

MCTwo == {idle, p1, p2}
MCThree == {idle, p1, p2, p3}

Sym == Permutations({p1, p2, p3})
=============================================================================
