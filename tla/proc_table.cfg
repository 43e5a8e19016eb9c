CONSTANTS
  Idle = Idle
  Parent = Parent
  c1 = c1
  c2 = c2
  c3 = c3
  Rec = {Idle, Parent, c1, c2, c3}
  NumProc = 4
  UserStack = UserStack
  None = None
  MaxSpawns = 4
SPECIFICATION ProcSpec
SYMMETRY Sym
INVARIANTS ProcTypeOK PidsConserved
CHECK_DEADLOCK FALSE
