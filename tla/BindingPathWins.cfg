\* The claim that path variables win over body and query.
CONSTANTS
  name = name
  tags = tags
  raw = raw
  user = user
  userId = userId
  alias = alias
  zero = zero
  one = one
  choice = choice
  NoOneof = NoOneof
  Root = Root
  Junk = Junk
  Invalid = Invalid
  Field <- MCField
  Lineage <- MCLineage
  Shape <- MCShape
  Presence <- MCPresence
  Oneof = {choice}
  OneofOf <- MCOneofOf
  Value = {zero, one}
  Default = zero
  Input <- MCInput
SPECIFICATION Spec
INVARIANT PathWins
CHECK_DEADLOCK FALSE
