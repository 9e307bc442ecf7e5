\* Up to two path variables and two query parameters over every kind of field.
CONSTANTS
  name = name
  tags = tags
  raw = raw
  user = user
  userId = userId
  alias = alias
  zero = zero
  one = one
  choice = choice
  NoOneof = NoOneof
  Root = Root
  Junk = Junk
  Invalid = Invalid
  Field <- MCField
  Lineage <- MCLineage
  Shape <- MCShape
  Presence <- MCPresence
  Oneof = {choice}
  OneofOf <- MCOneofOf
  Value = {zero, one}
  Default = zero
  Input <- MCInput
SPECIFICATION Spec
INVARIANTS TypeOK MessageWellFormed VisiblePathWins BodyOwnsTheRest RejectsTheFaulty
PROPERTY QueryOnlyFills
\* A request is built once.
CHECK_DEADLOCK FALSE
