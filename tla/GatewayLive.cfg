\* Two forwarded requests over HTTP/1.1 and HTTP/2, with and without grpc-timeout, contend for one
\* buffer slot.
CONSTANTS
  r1 = r1
  r2 = r2
  c1 = c1
  c2 = c2
  Req = {r1, r2}
  Conn = {c1, c2}
  Http1 = {c1}
  fwd = fwd
  missing = missing
  invalid = invalid
  Target = {fwd}
  Resolution <- MCResolution
  Reply <- MCOneReply
  LostStatus <- MCLost
  TimeoutStatus <- MCTimeout
  BufferSize = 1
  MayDie = TRUE
SPECIFICATION MCFairSpec
PROPERTIES DeadlineBoundsCall NoOrphanedCall EveryCallSettles PatientClientIsAnswered
CHECK_DEADLOCK FALSE
