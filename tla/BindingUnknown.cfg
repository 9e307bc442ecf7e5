\* The claim that unknown query fields are ignored.
CONSTANTS
  name = name
  tags = tags
  raw = raw
  user = user
  userId = userId
  alias = alias
  zero = zero
  one = one
  choice = choice
  NoOneof = NoOneof
  Root = Root
  Junk = Junk
  Invalid = Invalid
  Field <- MCField
  Lineage <- MCLineage
  Shape <- MCShape
  Presence <- MCPresence
  Oneof = {choice}
  OneofOf <- MCOneofOf
  Value = {zero, one}
  Default = zero
  Input <- MCInput
SPECIFICATION Spec
PROPERTY UnknownIsIgnored
CHECK_DEADLOCK FALSE
