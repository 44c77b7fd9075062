SPECIFICATION Spec
CONSTANTS
  PeCount = 2
  SharedCount = 1
  Ids = {0, 1}
  SizeCodes = {0, 1, 2}
  Descriptors <- MCDescriptors
  Payloads <- MCPayloads
INVARIANT SubsetWritesLegal
