CONSTANTS
  TxLen = 2
  RxLen = 2
  Reader = {r1, r2}
  MaxTx = 11
  MaxRx = 3
  None = None
  ONLRET = TRUE
  Counts = {2}
  Texts <- MCTexts
  Writer = {r2}
  MaxCalls = 2
SPECIFICATION TtyFairSpec
INVARIANTS TtyTypeOK TxInOrder RxExactlyOnce ScreenShowsLine
PROPERTY TxDrains
CHECK_DEADLOCK FALSE
