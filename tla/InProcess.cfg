\* Three dials over two connector clones.
CONSTANTS
  Dial = {d1, d2, d3}
  Connector = {c1, c2}
  First = c1
SPECIFICATION FairSpec
INVARIANTS TypeOK EndIsFinal NoStrandedPeer
PROPERTIES AcceptedInOrder EveryDialSettles StreamEnds
CHECK_DEADLOCK FALSE
