CONSTANTS
  Idle = Idle
  Parent = Parent
  c1 = c1
  c2 = c2
  Rec = {Idle, Parent, c1, c2}
  None = None
  File = {f1, f2}
  MaxFd = 2
  RefMod = 4
  MaxCalls = 4
SPECIFICATION FilesSpec
SYMMETRY Sym
CONSTRAINT Followed
INVARIANTS FileTypeOK CountsExact
CHECK_DEADLOCK FALSE
