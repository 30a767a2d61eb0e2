SPECIFICATION FairSpec
CONSTANTS
  GatewayOrderly = TRUE
  MaxCalls = 2
  MaxFrames = 3
INVARIANTS BadEndIsTold
PROPERTIES StreamKeepsContract ChannelCloses
CHECK_DEADLOCK FALSE
