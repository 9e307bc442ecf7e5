CONSTANTS
  Req = {r1, r2, r3}
  Dial = {d1, d2, d3}
  First = first
  NoDial = NoDial
SPECIFICATION FairSpec
INVARIANT TypeOK
PROPERTIES RefinesInProcess ShutdownFailsNobody EveryRequestSettles ShutdownCompletes
\* A process that was shut down does nothing more.
CHECK_DEADLOCK FALSE
