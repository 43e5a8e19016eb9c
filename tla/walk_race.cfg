CONSTANTS
  root = root
  dev = dev
  bin = bin
  init = init
  devroot = devroot
  tty0 = tty0
  gone = gone
  None = None
  Proc = {p1, p2}
  Entries <- MCEntries
  Files = {init}
  Nodes <- MCNodes
  Devices = {tty0}
  Root = root
  MountPoint = dev
  MountRoot = devroot
  Paths <- MCPaths
  Len_Dentry = 2
  MaxWalks = 3
  NumBlocks <- MCNumBlocks
  sector0 = sector0
  sector1 = sector1
  Sector <- MCSector
  BlockSize = 3
  BlockMod = 4
  Foreign <- MCForeign
  Size <- MCSize
  Requests <- MCRequests
SPECIFICATION UcfsSpec
INVARIANTS LookupFindsName
SYMMETRY Sym
CHECK_DEADLOCK FALSE
