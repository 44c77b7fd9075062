SPECIFICATION FairSpec
CONSTANTS
  p1 = p1
  p2 = p2
  p3 = p3
  Packets <- MCTwoPackets
  Sizes <- MCOneSize
  Latencies <- MCTwoLatencies
PROPERTY EventuallyVisible
