CONSTANTS
  BlkCount = 4
  Units = 5
  Unit = 16
  Sizes = {16, 17, 40}
SPECIFICATION FairSpec
INVARIANTS TypeOK NoOverlap DescriptorsConserved Coalesced OccupiedIsLive
PROPERTIES FailsOnlyIfFull CallReturns ImplementsAllocator
