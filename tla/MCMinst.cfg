SPECIFICATION Spec
CONSTANTS
  Forms <- MCForms
  Lengths = {4, 6}
  HalfBits = 4
  SourceFields = {"SrcL"}
  DestinationFields = {"RegDst"}
  ImmediateFields = {"imm", "uimm", "simm", "shamt"}
  Shamt = "shamt"
  Words <- MCWords
  Halves <- MCHalves
  BadLength = 5
  Values <- MCValues
  MaxEdits = 1
INVARIANTS
  TypeOK
  RoundTrip
  DecodedReencodes
  DecodeForgets
