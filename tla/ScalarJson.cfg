CONSTANTS
  Text <- MCText
  Verb <- MCVerb
  NoVerb = NoVerb
  NoQuery = NoQuery
  Field <- MCField
  Templates <- MCTemplates
  SlotSeqs <- MCSlotSeqs
  MaxPath = 4
  Sign <- MCSign
  Pieces <- MCPieces
  MaxPieces = 1
  Char <- MCChar
  Requests <- MCRequests
  EnumNames <- MCEnum
  Bits = 3
  Bits64 = 4
SPECIFICATION Spec
INVARIANT RendersCanonically
CHECK_DEADLOCK FALSE
