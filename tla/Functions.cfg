\* Paths of four segments: as long as the longest flattened template.
CONSTANTS
  Text <- MCText
  Verb <- MCVerb
  NoVerb = NoVerb
  NoQuery = NoQuery
  Field <- MCField
  Templates <- MCTemplates
  SlotSeqs <- MCSlotSeqs
  MaxPath = 4
  Sign <- MCSign
  Pieces <- MCPieces
  MaxPieces = 6
  Char <- MCChar
  Requests <- MCRequests
  EnumNames <- MCEnum
  Bits = 3
  Bits64 = 4
SPECIFICATION Spec
INVARIANTS WalkFits OverlapAgrees OverlapIsExact ParseIsSound ParseIsComplete
  TargetArrives ScalarsReturn
\* An input is looked at once.
CHECK_DEADLOCK FALSE
