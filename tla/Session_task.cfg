SPECIFICATION GraceSpec
INVARIANTS EndsAreExplained IInv
PROPERTIES FollowsTheProtocol EndsGoThrough LastSizeReachesTheServer
CONSTANTS
  EventCapacity = 2
  InputCapacity = 1
  MaxIdentities = 2
  Sizes <- BothSizes
  InitialSize <- Small
  None = None
CHECK_DEADLOCK FALSE
