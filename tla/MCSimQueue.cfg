SPECIFICATION Spec
CONSTANTS
  p1 = p1
  p2 = p2
  p3 = p3
  Packets <- MCPackets
  Sizes <- MCSizes
  Latencies <- MCLatencies
SYMMETRY Symmetry
INVARIANTS
  TypeOK
  CapacityRespected
  LatencyWindow
  NoMissedChange
PROPERTY ImplementsFifo
