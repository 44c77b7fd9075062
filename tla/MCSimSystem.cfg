SPECIFICATION Spec
CONSTANTS
  root = root
  group = group
  a = a
  b = b
  c = c
  lone = lone
  in = in
  link = link
  mid = mid
  out = out
  p1 = p1
  p2 = p2
  p3 = p3
  Modules <- MCModules
  Queues <- MCQueues
  Packets <- MCPackets
  Roots <- MCRoots
  Children <- MCChildren
  Owned <- MCOwned
  Inputs <- MCInputs
  Inners <- MCInners
  Outputs <- MCOutputs
  Behaviour <- MCBehaviour
  Latency <- MCLatency
  Path <- MCPath
  Reactivating <- MCNobody
  Requested <- MCRequested
  Capacity <- MCNarrow
SYMMETRY Symmetry
INVARIANTS
  OneTickPerStep
  XferFollowsWork
  EventsServed
  NoUnseenInput
PROPERTIES
  CycleBoundary
  ResetIsQuiet
