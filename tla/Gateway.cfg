\* Two requests: HTTP/1.1 and HTTP/2 clients share the channel, its buffer holds one call.
CONSTANTS
  r1 = r1
  r2 = r2
  c1 = c1
  c2 = c2
  Req = {r1, r2}
  Conn = {c1, c2}
  Http1 = {c1}
  fwd = fwd
  missing = missing
  invalid = invalid
  Target = {fwd, missing}
  Resolution <- MCResolution
  Reply <- MCReply
  LostStatus <- MCLost
  TimeoutStatus <- MCTimeout
  BufferSize = 1
  MayDie = TRUE
SPECIFICATION Spec
INVARIANTS TypeOK AtMostOnce TruthfulAnswer
PROPERTIES AnsweredOnce RefinesRequestReply
\* Every request may have been answered or dropped.
CHECK_DEADLOCK FALSE
