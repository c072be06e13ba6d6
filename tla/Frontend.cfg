\* Every path of up to five characters against two mounts, and every list of up
\* to three of eleven mounts against eight plain requests.
SPECIFICATION FrontSpec
CONSTANTS
  s = s
  t = t
  http = http
  x = x
  None = None
  Any = Any
  Unsafe = Unsafe
  Chars <- PathChars
  Sources = {x}
  Servers = {s, t}
  Protocols = {http}
  ServerProtocol <- HTTPOnly
  MountLists <- AllMounts
  Requests <- AllRequests
  Cases <- SomeCases
  MaxStore = 2
INVARIANTS ResolvedIsUniqueBest AmbiguityIsStatic PathKeepsItsSegments BackendIsAuthorised ExplainAgrees
