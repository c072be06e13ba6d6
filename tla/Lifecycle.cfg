\* Two CONNECT requests whose peers may keep their tunnels busy for ever.
SPECIFICATION Spec
CONSTANTS
  r1 = r1
  r2 = r2
  Requests = {r1, r2}
INVARIANTS GracefulMeansFinished ReturnedSessionsClosed
  GracefulSessions OnlyRefusedLeak
PROPERTIES HandlersEnd ImplementsContract
