\* Every kind of content, two edits, one request.
SPECIFICATION Spec
CONSTANTS
  a = a
  b = b
  f = f
  g = g
  h = h
  p = p
  q = q
  NoTLS = NoTLS
  r1 = r1
  Requests = {r1}
  Servers <- AllServers
  Contents <- AllContents
  Initial <- Start
  MaxEdits = 2
INVARIANTS StoreCompatible SnapshotServes AcceptableIsPublished
PROPERTIES SignalledFileIsRead
