\* Four streams for a queue of two: full, empty, and one stream in each place.
\* Two of them are dialled by the process with the pairing.
SPECIFICATION LinkSpec
CONSTANTS
  s1 = s1
  s2 = s2
  s3 = s3
  s4 = s4
  c1 = c1
  c2 = c2
  Streams = {s1, s2, s3, s4}
  Dials = {s1, s2}
  Closers = {c1, c2}
  Backlog = 2
  NoStream = NoStream
INVARIANTS EveryStreamOwned TornDownInOrder
PROPERTIES CancelledReturns ServerIsClosed DialerDrains ReaderEnds
