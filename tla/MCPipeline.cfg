SPECIFICATION FairSpec
CONSTANTS
  root = root
  group = group
  a = a
  stage = stage
  in = in
  mid = mid
  pipe = pipe
  out = out
  p1 = p1
  p2 = p2
  Modules <- MCModules
  Queues <- MCQueues
  Packets <- MCPackets
  Roots <- MCRoots
  Children <- MCChildren
  Owned <- MCOwned
  Inputs <- MCInputs
  Inners <- MCInners
  Outputs <- MCOutputs
  Behaviour <- MCBehaviour
  Latency <- MCLatency
  Path <- MCPath
  Reactivating <- MCStages
  Requested <- MCStages
  Capacity <- MCCapacity
PROPERTIES
  ImplementsFifo
  Delivered
