\* The claim that endpoints are keyed by uppercase HTTP method.
CONSTANTS
  svc = svc
  A = A
  other = other
  SvcA = SvcA
  SvcB = SvcB
  OneVar = OneVar
  OneLit = OneLit
  Deep = Deep
  VerbVar = VerbVar
  Bad = Bad
  GET = GET
  get = get
  POST = POST
  v = v
  NoVerb = NoVerb
  Text <- MCText
  Verb <- MCVerb
  Path <- MCPath
  Compiled <- MCCompiled
  Kind <- MCKind
  Upper <- MCUpper
  Method = {SvcA, SvcB}
  Streaming = {SvcB}
  DescriptorSet <- MCDescriptorSet
  Request <- MCRequest
SPECIFICATION Spec
INVARIANT UppercaseKeys
CHECK_DEADLOCK FALSE
