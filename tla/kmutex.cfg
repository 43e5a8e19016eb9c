CONSTANTS
  idle = idle
  p1 = p1
  p2 = p2
  p3 = p3
  m1 = m1
  m2 = m2
  Nil = Nil
  Idle <- idle
  Proc <- MCThree
  Waiters = {m1, m2}
  ProcLock = m1
  MaxProc = 4
  MaxDepth = 2
SPECIFICATION Spec
INVARIANTS TypeOK MutualExclusion QueueHoldsWaiters LockInv
PROPERTY ImplementsFifoLock
SYMMETRY Sym
