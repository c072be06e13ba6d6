\* Two streams: one between peers that answer, with connections that can
\* half-close, and one without CloseWrite whose peers need not ever finish,
\* so that only Serve itself brings its end about.
SPECIFICATION Spec
CONSTANTS
  s1 = s1
  s2 = s2
  Streams = {s1, s2}
  Answering = {s1}
  CloseWriters <- SomeCloseWriters
INVARIANTS ReturnedClean GracefulDrain
PROPERTIES NoRelayAfterCancel AcceptErrorReturns HalfCloseEndsStream ImplementsContract
