CONSTANTS idle = idle
 init = init
 c1 = c1
 c2 = c2
 procLock = procLock
 nil = nil
 Proc <- MCProc
 Idle <- idle
 MaxProc = 4
 Nil <- nil
 Waiters = {procLock}
 InitProc <- init
 ProcLock <- procLock
 MaxDepth = 2
 MaxSpawn = 2
 Resume = FALSE
 Sigs = {"SIGCONT"}
SPECIFICATION LifeSpec
INVARIANT UnblockedHasLock
CHECK_DEADLOCK FALSE
