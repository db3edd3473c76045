SPECIFICATION FairSpec
INVARIANT IInv
PROPERTIES ImplementsLocalProtocol EndedTabsStayEnded ExitReachesTheTab LastSizeReachesTheTerminal NothingIsLeftBehind
CONSTANTS
  EventCapacity = 2
  InputCapacity = 1
  MaxChunks = 2
  MaxResizes = 2
  Sizes <- BothSizes
  InitialSize <- Small
CHECK_DEADLOCK FALSE
