\* The cases of Frontend.cfg: an encoded separator in a text that net/url escapes anew.
SPECIFICATION FrontSpec
CONSTANTS
  s = s
  t = t
  http = http
  x = x
  None = None
  Any = Any
  Unsafe = Unsafe
  Chars <- PathChars
  Sources = {x}
  Servers = {s, t}
  Protocols = {http}
  ServerProtocol <- HTTPOnly
  MountLists <- AllMounts
  Requests <- AllRequests
  Cases <- SomeCases
  MaxStore = 2
INVARIANT EncodedSeparatorRefused
