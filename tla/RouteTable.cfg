\* Two methods with every pair of rules, both options both ways.
CONSTANTS
  svc = svc
  A = A
  other = other
  SvcA = SvcA
  SvcB = SvcB
  OneVar = OneVar
  OneLit = OneLit
  Deep = Deep
  VerbVar = VerbVar
  Bad = Bad
  GET = GET
  get = get
  POST = POST
  v = v
  NoVerb = NoVerb
  Text <- MCText
  Verb <- MCVerb
  Path <- MCPath
  Compiled <- MCCompiled
  Kind <- MCKind
  Upper <- MCUpper
  Method = {SvcA, SvcB}
  Streaming = {SvcB}
  DescriptorSet <- MCDescriptorSet
  Request <- MCRequest
SPECIFICATION Spec
INVARIANTS
  TypeOK
  CheckPredictsBuild
  NoSilentShadowing
  StrictIsUnambiguous
  UnreportedIsReachable
  ReportsAreReal
\* A gateway that failed to build handles nothing.
CHECK_DEADLOCK FALSE
