CONSTANTS
  Addresses = {1, 2, 3}
  Sampler = 1
  FramesOf <- MCFramesOf
  MaxLive = 2
SPECIFICATION StacksSpec
CHECK_DEADLOCK FALSE
INVARIANT GrownIsGrowth
