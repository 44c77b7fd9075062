SPECIFICATION Spec
CONSTANTS
  PeCount = 2
  SharedCount = 1
  Ids = {0, 1}
  SizeCodes = {0, 1, 2, 12, 13}
  Descriptors <- MCDescriptors
  Payloads <- MCPayloads
INVARIANTS
  TypeOK
  LanesFitAllocation
  LanesStayWritable
PROPERTY
  ImplementsStore
