-------------------------- MODULE LifecycleProofs ---------------------------
(***************************************************************************)
(* Proofs about Lifecycle, for any set of requests.                         *)
(***************************************************************************)
EXTENDS Lifecycle, Naturals, TLAPS

\* The handler states in which the sessions own the backend, those in which
\* net/http tracks the connection, and those in which the handler has told its
\* client nothing.
OwnedStates == {"hijack", "hijackFailed", "addClient", "reply", "relay", "closeBackend",
                "closeClient", "rmClient", "rmBackend"}
TrackedStates == {"new", "route", "dial", "addBackend", "hijack", "hijackFailed", "finish"}
SilentStates == {"none", "new", "route", "dial", "addBackend", "hijack", "hijackFailed",
                 "addClient", "reply"}
HoldsBackend == {"addBackend", "hijack", "hijackFailed", "addClient", "reply", "relay",
                 "closeBackend"}

\* Where Serve is, against the state of the server and of the sessions.
ServeInv ==
  /\ pc \notin {"select", "drain"} => draining
  /\ pc \notin {"select", "drain", "stop"} => stopping
  /\ pc \in {"check", "forceDrain", "forceError", "waitServe", "returned"} => drained
  /\ pc \notin {"forceDrain", "forceError"} => toClose = {}
  /\ pc \in {"select", "drain", "stop", "shutdown"} => ~shutdownErr
  /\ pc \in {"forceDrain", "forceError"} \/ shutdownErr => expired
  /\ pc \in {"sessions", "check", "forceDrain", "waitServe", "returned"} /\ ~shutdownErr
       => tracked = {}
  /\ pc = "forceError" => shutdownErr
  /\ pc = "returned" => httpServe # "running"

\* What the registry holds belongs to handlers that will remove it, and the
\* backend of such a handler is held, unless forceClose has taken it.
OwnerInv ==
  \A r \in Requests :
    /\ Backend(r) \in items => handler[r] \in OwnedStates
    /\ Client(r) \in items =>
         handler[r] \in {"reply", "relay", "closeBackend", "closeClient", "rmClient"}
    /\ handler[r] \in OwnedStates =>
         \/ Backend(r) \in items
         \/ (expired /\ (conn[Backend(r)] = "closed" \/ Backend(r) \in toClose))

\* net/http tracks every connection whose handler has not hijacked it.
TrackedInv ==
  \A r \in Requests :
    ~shutdownErr /\ (handler[r] \in TrackedStates
                       \/ (handler[r] = "rmBackend" /\ r \notin hijacked))
      => r \in tracked

\* What a handler has done so far.
HandlerInv ==
  \A r \in Requests :
    /\ handler[r] \in SilentStates => response[r] = "none"
    /\ handler[r] \in {"addClient", "reply", "relay", "closeBackend", "closeClient",
                      "rmClient"} => r \in hijacked
    /\ handler[r] \in {"none"} \cup TrackedStates => r \notin hijacked
    /\ handler[r] \in {"rmClient", "done"} => conn[Client(r)] = "closed"
    /\ handler[r] = "rmBackend" /\ r \in hijacked => conn[Client(r)] = "closed"
    /\ conn[Backend(r)] = "open" =>
         \/ handler[r] \in HoldsBackend
         \/ (handler[r] \in {"rmBackend", "done"} /\ Refused(r))

\* Within the budget only the handler itself closes its connections.
OpenInv ==
  ~expired => \A r \in Requests :
    /\ handler[r] \in (SilentStates \cup {"relay"}) \ {"none"} => conn[Client(r)] = "open"
    /\ handler[r] \in HoldsBackend => conn[Backend(r)] = "open"

Parts == ServeInv /\ DrainedIsEmpty /\ OwnerInv /\ TrackedInv /\ HandlerInv /\ OpenInv
IInv == TypeOK /\ Parts

\* A connection is one of the two of a request.
LEMMA ConnCases ==
  /\ \A c \in Conns : \E r \in Requests : c = Client(r) \/ c = Backend(r)
  /\ \A r \in Requests : Client(r) \in Conns /\ Backend(r) \in Conns
  /\ \A r, q \in Requests : Client(r) # Backend(q)
  /\ \A r, q \in Requests : r # q => Client(r) # Client(q) /\ Backend(r) # Backend(q)
  BY DEF Conns, Sides, Client, Backend

-----------------------------------------------------------------------------
(***************************************************************************)
(* Typing.                                                                  *)
(***************************************************************************)
\* Every step keeps the types.
LEMMA TypeStep == TypeOK /\ [Next]_vars => TypeOK'
<1> SUFFICES ASSUME TypeOK, [Next]_vars PROVE TypeOK'
  OBVIOUS
<1> USE ConnCases DEF TypeOK, SessionsTypeOK, ServeStates, HandlerStates, serve, http,
                      work, sessions
<1>1. CASE Cancel \/ BudgetExpires \/ HttpServeReturns
  <2>1. CASE Cancel
    BY <2>1 DEF Cancel
  <2>2. CASE BudgetExpires
    BY <2>2 DEF BudgetExpires
  <2>3. CASE HttpServeReturns
    BY <2>3 DEF HttpServeReturns
  <2> QED BY <1>1, <2>1, <2>2, <2>3
<1>2. CASE Serve
  <2>1. CASE StopsServing \/ BeginSessionDrain \/ CallShutdown \/ ShutdownReturns
    BY <2>1 DEF StopsServing, BeginSessionDrain, CallShutdown, ShutdownReturns, Goto,
                beginDrain
  <2>2. CASE SessionsDrained \/ SessionsTimedOut \/ ForceCloseEnds \/ Return
    BY <2>2 DEF SessionsDrained, SessionsTimedOut, ForceCloseEnds, Return, Goto, forceClose
  <2>3. CASE CheckShutdownErr
    BY <2>3 DEF CheckShutdownErr, Goto, forceClose
  <2>4. ASSUME NEW c \in Conns, ForceCloseOne(c) PROVE TypeOK'
    BY <2>4 DEF ForceCloseOne, Close
  <2> QED BY <1>2, <2>1, <2>2, <2>3, <2>4 DEF Serve
<1>3. ASSUME NEW r \in Requests, Handler(r) PROVE TypeOK'
  <2> USE DEF Go, Answer, Open, Close, add, remove
  <2>1. CASE AcceptConnection(r)
    BY <2>1 DEF AcceptConnection
  <2>2. CASE StartHandler(r)
    BY <2>2 DEF StartHandler
  <2>3. CASE SilentConnectionCloses(r)
    BY <2>3 DEF SilentConnectionCloses
  <2>4. CASE Route(r)
    BY <2>4 DEF Route
  <2>5. CASE DialFails(r)
    BY <2>5 DEF DialFails
  <2>6. CASE DialSucceeds(r)
    BY <2>6 DEF DialSucceeds
  <2>7. CASE AddBackend(r)
    BY <2>7 DEF AddBackend
  <2>8. CASE Hijack(r)
    BY <2>8 DEF Hijack
  <2>9. CASE HijackFailed(r)
    BY <2>9 DEF HijackFailed
  <2>10. CASE AddClient(r)
    BY <2>10 DEF AddClient
  <2>11. CASE Reply(r)
    BY <2>11 DEF Reply
  <2>12. CASE RelayReturns(r)
    BY <2>12 DEF RelayReturns
  <2>13. CASE CloseBackend(r)
    BY <2>13 DEF CloseBackend
  <2>14. CASE CloseClient(r)
    BY <2>14 DEF CloseClient
  <2>15. CASE RemoveClient(r)
    BY <2>15 DEF RemoveClient
  <2>16. CASE RemoveBackend(r)
    BY <2>16 DEF RemoveBackend
  <2>17. CASE FinishRequest(r)
    BY <2>17 DEF FinishRequest
  <2>18. ASSUME NEW side \in Sides, CopyEnds(r, side) PROVE TypeOK'
    BY <2>18 DEF CopyEnds
  <2> QED BY <1>3, <2>1, <2>2, <2>3, <2>4, <2>5, <2>6, <2>7, <2>8, <2>9,
             <2>10, <2>11, <2>12, <2>13, <2>14, <2>15, <2>16, <2>17, <2>18
          DEF Handler, HandlerRuns
<1>4. CASE Terminated \/ UNCHANGED vars
  BY <1>4 DEF Terminated, vars
<1> QED BY <1>1, <1>2, <1>3, <1>4 DEF Next

\* The variables of Serve, of its sessions and of the handlers have their types.
THEOREM LifecycleTyped == Spec => []TypeOK
<1>1. Init => TypeOK
  BY DEF Init, TypeOK, SessionsTypeOK, newConnectionSessions, ServeStates, HandlerStates
<1> QED BY <1>1, TypeStep, PTL DEF Spec

-----------------------------------------------------------------------------
(***************************************************************************)
(* The inductive invariant, one lemma per thread and one step per action.   *)
(***************************************************************************)
\* Cancellation, the budget and net/http's loop preserve the inductive invariant.
LEMMA EnvironmentStep ==
  ASSUME IInv, Cancel \/ BudgetExpires \/ HttpServeReturns \/ Terminated \/ UNCHANGED vars
  PROVE  Parts'
<1> USE DEF IInv, Parts, ServeInv, DrainedIsEmpty, OwnerInv, TrackedInv, HandlerInv,
            OpenInv, Refused, serve, http, work, sessions
<1>1. CASE Cancel
  BY <1>1 DEF Cancel
<1>2. CASE BudgetExpires
  BY <1>2 DEF BudgetExpires
<1>3. CASE HttpServeReturns
  BY <1>3 DEF HttpServeReturns
<1>4. CASE Terminated \/ UNCHANGED vars
  BY <1>4 DEF Terminated, vars
<1> QED BY <1>1, <1>2, <1>3, <1>4

\* So does every step of Serve,
LEMMA ServeStep ==
  ASSUME IInv, Serve
  PROVE  Parts'
<1> USE ConnCases DEF IInv, Parts, TypeOK, SessionsTypeOK, Refused, serve, http, work,
                      sessions, Goto
<1>1. CASE StopsServing
  BY <1>1 DEF StopsServing, ServeInv, DrainedIsEmpty, OwnerInv, TrackedInv, HandlerInv,
              OpenInv
<1>2. CASE BeginSessionDrain
  BY <1>2 DEF BeginSessionDrain, beginDrain, ServeInv, DrainedIsEmpty, OwnerInv,
              TrackedInv, HandlerInv, OpenInv
<1>3. CASE CallShutdown
  BY <1>3 DEF CallShutdown, ServeInv, DrainedIsEmpty, OwnerInv, TrackedInv, HandlerInv,
              OpenInv
<1>4. CASE ShutdownReturns
  BY <1>4 DEF ShutdownReturns, ServeInv, DrainedIsEmpty, OwnerInv, TrackedInv, HandlerInv,
              OpenInv
<1>5. CASE SessionsDrained
  BY <1>5 DEF SessionsDrained, ServeInv, DrainedIsEmpty, OwnerInv, TrackedInv, HandlerInv,
              OpenInv
<1>6. CASE SessionsTimedOut
  BY <1>6 DEF SessionsTimedOut, forceClose, ServeInv, DrainedIsEmpty, OwnerInv,
              TrackedInv, HandlerInv, OpenInv
<1>7. CASE ForceCloseEnds
  BY <1>7 DEF ForceCloseEnds, ServeInv, DrainedIsEmpty, OwnerInv, TrackedInv, HandlerInv,
              OpenInv
<1>8. CASE CheckShutdownErr
  <2>1. ServeInv' /\ DrainedIsEmpty'
    BY <1>8 DEF CheckShutdownErr, forceClose, ServeInv, DrainedIsEmpty
  <2>2. \A r \in Requests :
          /\ conn'[Backend(r)] = conn[Backend(r)]
          /\ conn[Client(r)] = "closed" => conn'[Client(r)] = "closed"
    BY <1>8 DEF CheckShutdownErr, Client, Backend
  <2>3. OwnerInv'
    BY <1>8, <2>2 DEF CheckShutdownErr, forceClose, ServeInv, OwnerInv
  <2>4. TrackedInv'
    BY <1>8 DEF CheckShutdownErr, TrackedInv
  <2>5. HandlerInv'
    BY <1>8, <2>2 DEF CheckShutdownErr, forceClose, ServeInv, HandlerInv
  <2>6. OpenInv'
    BY <1>8 DEF CheckShutdownErr, ServeInv, OpenInv
  <2> QED BY <2>1, <2>3, <2>4, <2>5, <2>6
<1>9. CASE Return
  BY <1>9 DEF Return, ServeInv, DrainedIsEmpty, OwnerInv, TrackedInv, HandlerInv, OpenInv
<1>10. ASSUME NEW c \in Conns, ForceCloseOne(c) PROVE Parts'
  <2>1. ServeInv' /\ DrainedIsEmpty' /\ TrackedInv'
    BY <1>10 DEF ForceCloseOne, ServeInv, DrainedIsEmpty, TrackedInv
  <2>2. OwnerInv' /\ HandlerInv'
    BY <1>10 DEF ForceCloseOne, Close, OwnerInv, HandlerInv
  <2>3. OpenInv'
    BY <1>10 DEF ForceCloseOne, ServeInv, OpenInv
  <2> QED BY <2>1, <2>2, <2>3
<1> QED BY <1>1, <1>2, <1>3, <1>4, <1>5, <1>6, <1>7, <1>8, <1>9, <1>10 DEF Serve

\* and every step of a CONNECT handler.
LEMMA HandlerStep ==
  ASSUME IInv, NEW r \in Requests, Handler(r)
  PROVE  Parts'
<1> USE ConnCases DEF IInv, Parts, TypeOK, SessionsTypeOK, Refused, serve, http, work,
                      sessions, Go, OwnedStates, TrackedStates, SilentStates, HoldsBackend
<1>1. CASE AcceptConnection(r)
  <2>1. ServeInv' /\ DrainedIsEmpty'
    BY <1>1 DEF AcceptConnection, Open, ServeInv, DrainedIsEmpty
  <2>2. OwnerInv' /\ TrackedInv'
    BY <1>1 DEF AcceptConnection, Open, ServeInv, DrainedIsEmpty, OwnerInv, TrackedInv, OpenInv
  <2>3. HandlerInv' /\ OpenInv'
    BY <1>1 DEF AcceptConnection, Open, ServeInv, OwnerInv, HandlerInv, OpenInv
  <2> QED BY <2>1, <2>2, <2>3
<1>2. CASE StartHandler(r)
  <2>1. ServeInv' /\ DrainedIsEmpty'
    BY <1>2 DEF StartHandler, ServeInv, DrainedIsEmpty
  <2>2. OwnerInv' /\ TrackedInv'
    BY <1>2 DEF StartHandler, ServeInv, DrainedIsEmpty, OwnerInv, TrackedInv, OpenInv
  <2>3. HandlerInv' /\ OpenInv'
    BY <1>2 DEF StartHandler, ServeInv, OwnerInv, HandlerInv, OpenInv
  <2> QED BY <2>1, <2>2, <2>3
<1>3. CASE SilentConnectionCloses(r)
  <2>1. ServeInv' /\ DrainedIsEmpty'
    BY <1>3 DEF SilentConnectionCloses, Close, ServeInv, DrainedIsEmpty
  <2>2. OwnerInv' /\ TrackedInv'
    BY <1>3 DEF SilentConnectionCloses, Close, ServeInv, DrainedIsEmpty, OwnerInv, TrackedInv, OpenInv
  <2>3. HandlerInv' /\ OpenInv'
    BY <1>3 DEF SilentConnectionCloses, Close, ServeInv, OwnerInv, HandlerInv, OpenInv
  <2> QED BY <2>1, <2>2, <2>3
<1>4. CASE Route(r)
  <2>1. ServeInv' /\ DrainedIsEmpty'
    BY <1>4 DEF Route, Answer, ServeInv, DrainedIsEmpty
  <2>2. OwnerInv' /\ TrackedInv'
    BY <1>4 DEF Route, Answer, ServeInv, DrainedIsEmpty, OwnerInv, TrackedInv, OpenInv
  <2>3. HandlerInv' /\ OpenInv'
    BY <1>4 DEF Route, Answer, ServeInv, OwnerInv, HandlerInv, OpenInv
  <2> QED BY <2>1, <2>2, <2>3
<1>5. CASE DialFails(r)
  <2>1. ServeInv' /\ DrainedIsEmpty'
    BY <1>5 DEF DialFails, Answer, ServeInv, DrainedIsEmpty
  <2>2. OwnerInv' /\ TrackedInv'
    BY <1>5 DEF DialFails, Answer, ServeInv, DrainedIsEmpty, OwnerInv, TrackedInv, OpenInv
  <2>3. HandlerInv' /\ OpenInv'
    BY <1>5 DEF DialFails, Answer, ServeInv, OwnerInv, HandlerInv, OpenInv
  <2> QED BY <2>1, <2>2, <2>3
<1>6. CASE DialSucceeds(r)
  <2>1. ServeInv' /\ DrainedIsEmpty'
    BY <1>6 DEF DialSucceeds, Open, ServeInv, DrainedIsEmpty
  <2>2. OwnerInv' /\ TrackedInv'
    BY <1>6 DEF DialSucceeds, Open, ServeInv, DrainedIsEmpty, OwnerInv, TrackedInv, OpenInv
  <2>3. HandlerInv' /\ OpenInv'
    BY <1>6 DEF DialSucceeds, Open, ServeInv, OwnerInv, HandlerInv, OpenInv
  <2> QED BY <2>1, <2>2, <2>3
<1>7. CASE AddBackend(r)
  <2>1. ServeInv' /\ DrainedIsEmpty'
    BY <1>7 DEF AddBackend, add, Close, ServeInv, DrainedIsEmpty
  <2>2. OwnerInv'
    BY <1>7 DEF AddBackend, add, Close, OwnerInv, OpenInv
  <2>3. TrackedInv'
    BY <1>7 DEF AddBackend, TrackedInv
  <2>4. HandlerInv'
    BY <1>7 DEF AddBackend, add, Close, OwnerInv, HandlerInv
  <2>5. OpenInv'
    BY <1>7 DEF AddBackend, add, Close, OpenInv
  <2> QED BY <2>1, <2>2, <2>3, <2>4, <2>5
<1>8. CASE Hijack(r)
  <2>1. ServeInv' /\ DrainedIsEmpty'
    BY <1>8 DEF Hijack, ServeInv, DrainedIsEmpty
  <2>2. OwnerInv' /\ TrackedInv'
    BY <1>8 DEF Hijack, ServeInv, DrainedIsEmpty, OwnerInv, TrackedInv, OpenInv
  <2>3. HandlerInv' /\ OpenInv'
    BY <1>8 DEF Hijack, ServeInv, OwnerInv, HandlerInv, OpenInv
  <2> QED BY <2>1, <2>2, <2>3
<1>9. CASE HijackFailed(r)
  <2>1. ServeInv' /\ DrainedIsEmpty'
    BY <1>9 DEF HijackFailed, Close, ServeInv, DrainedIsEmpty
  <2>2. OwnerInv' /\ TrackedInv'
    BY <1>9 DEF HijackFailed, Close, ServeInv, DrainedIsEmpty, OwnerInv, TrackedInv, OpenInv
  <2>3. HandlerInv' /\ OpenInv'
    BY <1>9 DEF HijackFailed, Close, ServeInv, OwnerInv, HandlerInv, OpenInv
  <2> QED BY <2>1, <2>2, <2>3
<1>10. CASE AddClient(r)
  <2>1. ServeInv' /\ DrainedIsEmpty'
    BY <1>10 DEF AddClient, add, Close, ServeInv, DrainedIsEmpty
  <2>2. OwnerInv'
    BY <1>10 DEF AddClient, add, Close, OwnerInv, OpenInv
  <2>3. TrackedInv'
    BY <1>10 DEF AddClient, TrackedInv, HandlerInv
  <2>4. HandlerInv'
    BY <1>10 DEF AddClient, add, Close, OwnerInv, HandlerInv
  <2>5. OpenInv'
    BY <1>10 DEF AddClient, add, Close, OpenInv
  <2> QED BY <2>1, <2>2, <2>3, <2>4, <2>5
<1>11. CASE Reply(r)
  <2>1. ServeInv' /\ DrainedIsEmpty'
    BY <1>11 DEF Reply, Answer, ServeInv, DrainedIsEmpty
  <2>2. OwnerInv' /\ TrackedInv'
    BY <1>11 DEF Reply, Answer, ServeInv, DrainedIsEmpty, OwnerInv, TrackedInv, OpenInv
  <2>3. HandlerInv' /\ OpenInv'
    BY <1>11 DEF Reply, Answer, ServeInv, OwnerInv, HandlerInv, OpenInv
  <2> QED BY <2>1, <2>2, <2>3
<1>12. CASE RelayReturns(r)
  <2>1. ServeInv' /\ DrainedIsEmpty'
    BY <1>12 DEF RelayReturns, ServeInv, DrainedIsEmpty
  <2>2. OwnerInv' /\ TrackedInv'
    BY <1>12 DEF RelayReturns, ServeInv, DrainedIsEmpty, OwnerInv, TrackedInv, OpenInv
  <2>3. HandlerInv' /\ OpenInv'
    BY <1>12 DEF RelayReturns, ServeInv, OwnerInv, HandlerInv, OpenInv
  <2> QED BY <2>1, <2>2, <2>3
<1>13. CASE CloseBackend(r)
  <2>1. ServeInv' /\ DrainedIsEmpty'
    BY <1>13 DEF CloseBackend, Close, ServeInv, DrainedIsEmpty
  <2>2. OwnerInv' /\ TrackedInv'
    BY <1>13 DEF CloseBackend, Close, ServeInv, DrainedIsEmpty, OwnerInv, TrackedInv, OpenInv
  <2>3. HandlerInv' /\ OpenInv'
    BY <1>13 DEF CloseBackend, Close, ServeInv, OwnerInv, HandlerInv, OpenInv
  <2> QED BY <2>1, <2>2, <2>3
<1>14. CASE CloseClient(r)
  <2>1. ServeInv' /\ DrainedIsEmpty'
    BY <1>14 DEF CloseClient, Close, ServeInv, DrainedIsEmpty
  <2>2. OwnerInv' /\ TrackedInv'
    BY <1>14 DEF CloseClient, Close, ServeInv, DrainedIsEmpty, OwnerInv, TrackedInv, OpenInv
  <2>3. HandlerInv' /\ OpenInv'
    BY <1>14 DEF CloseClient, Close, ServeInv, OwnerInv, HandlerInv, OpenInv
  <2> QED BY <2>1, <2>2, <2>3
<1>15. CASE RemoveClient(r)
  <2>1. ServeInv' /\ DrainedIsEmpty'
    BY <1>15 DEF RemoveClient, remove, ServeInv, DrainedIsEmpty
  <2>2. OwnerInv'
    BY <1>15 DEF RemoveClient, remove, OwnerInv, OpenInv
  <2>3. TrackedInv'
    BY <1>15 DEF RemoveClient, TrackedInv, HandlerInv
  <2>4. HandlerInv'
    BY <1>15 DEF RemoveClient, remove, OwnerInv, HandlerInv
  <2>5. OpenInv'
    BY <1>15 DEF RemoveClient, remove, OpenInv
  <2> QED BY <2>1, <2>2, <2>3, <2>4, <2>5
<1>16. CASE RemoveBackend(r)
  <2>1. ServeInv' /\ DrainedIsEmpty'
    BY <1>16 DEF RemoveBackend, remove, ServeInv, DrainedIsEmpty
  <2>2. OwnerInv'
    BY <1>16 DEF RemoveBackend, remove, OwnerInv, OpenInv
  <2>3. TrackedInv'
    BY <1>16 DEF RemoveBackend, TrackedInv
  <2>4. HandlerInv'
    BY <1>16 DEF RemoveBackend, remove, OwnerInv, HandlerInv
  <2>5. OpenInv'
    BY <1>16 DEF RemoveBackend, remove, OpenInv
  <2> QED BY <2>1, <2>2, <2>3, <2>4, <2>5
<1>17. CASE FinishRequest(r)
  <2>1. ServeInv' /\ DrainedIsEmpty'
    BY <1>17 DEF FinishRequest, Close, ServeInv, DrainedIsEmpty
  <2>2. OwnerInv' /\ TrackedInv'
    BY <1>17 DEF FinishRequest, Close, ServeInv, DrainedIsEmpty, OwnerInv, TrackedInv, OpenInv
  <2>3. HandlerInv' /\ OpenInv'
    BY <1>17 DEF FinishRequest, Close, ServeInv, OwnerInv, HandlerInv, OpenInv
  <2> QED BY <2>1, <2>2, <2>3
<1>18. ASSUME NEW side \in Sides, CopyEnds(r, side) PROVE Parts'
  BY <1>18 DEF CopyEnds, ServeInv, DrainedIsEmpty, OwnerInv, TrackedInv, HandlerInv, OpenInv
<1> QED BY <1>1, <1>2, <1>3, <1>4, <1>5, <1>6, <1>7, <1>8, <1>9,
           <1>10, <1>11, <1>12, <1>13, <1>14, <1>15, <1>16, <1>17, <1>18
        DEF Handler, HandlerRuns

\* The inductive invariant holds throughout.
LEMMA LifecycleInvariant == Spec => []IInv
<1>1. Init => IInv
  BY ConnCases DEF Init, IInv, Parts, TypeOK, SessionsTypeOK, newConnectionSessions,
     ServeStates, HandlerStates, ServeInv, DrainedIsEmpty, OwnerInv, TrackedInv, HandlerInv,
     OpenInv, OwnedStates, TrackedStates, SilentStates, HoldsBackend
<1>2. IInv /\ [Next]_vars => IInv'
  <2> SUFFICES ASSUME IInv, [Next]_vars PROVE IInv'
    OBVIOUS
  <2>1. TypeOK'
    BY TypeStep DEF IInv
  <2>2. Parts'
    BY EnvironmentStep, ServeStep, HandlerStep DEF Next
  <2> QED BY <2>1, <2>2 DEF IInv
<1> QED BY <1>1, <1>2, PTL DEF Spec

-----------------------------------------------------------------------------
(***************************************************************************)
(* The theorems.                                                            *)
(***************************************************************************)

\* connectionSessions closes drained only when it is empty for good.
THEOREM LifecycleDrained == Spec => []DrainedIsEmpty
<1>1. IInv => DrainedIsEmpty
  BY DEF IInv, Parts
<1> QED BY <1>1, LifecycleInvariant, PTL

\* If server.Serve returns within its budget, every CONNECT handler is over.
THEOREM LifecycleGraceful == Spec => []GracefulMeansFinished
<1>1. IInv => GracefulMeansFinished
  <2> SUFFICES ASSUME IInv, pc = "returned", ~expired, NEW r \in Requests PROVE Over(r)
    BY DEF GracefulMeansFinished
  <2>1. drained /\ tracked = {} /\ ~shutdownErr /\ items = {}
    BY DEF IInv, Parts, ServeInv, DrainedIsEmpty
  <2>2. handler[r] \notin OwnedStates
    BY <2>1 DEF IInv, Parts, OwnerInv
  <2>3. handler[r] \notin TrackedStates
    BY <2>1 DEF IInv, Parts, TrackedInv
  <2> QED BY <2>2, <2>3 DEF IInv, TypeOK, HandlerStates, OwnedStates, TrackedStates, Over
<1> QED BY <1>1, LifecycleInvariant, PTL

\* When server.Serve has returned, on any path, forceClose and the handlers
\* have closed every registered backend.
THEOREM LifecycleReturned == Spec => []ReturnedSessionsClosed
<1>1. IInv => ReturnedSessionsClosed
  <2> SUFFICES ASSUME IInv, pc = "returned", NEW r \in Requests, conn[Backend(r)] = "open"
               PROVE  handler[r] = "addBackend" \/ (Over(r) /\ Refused(r))
    BY DEF ReturnedSessionsClosed
  <2>1. items = {} /\ toClose = {}
    BY DEF IInv, Parts, ServeInv, DrainedIsEmpty
  <2>2. handler[r] \notin OwnedStates
    BY <2>1 DEF IInv, Parts, OwnerInv
  <2>3. \/ handler[r] \in HoldsBackend
        \/ handler[r] \in {"rmBackend", "done"} /\ Refused(r)
    BY DEF IInv, Parts, HandlerInv
  <2> QED BY <2>2, <2>3 DEF OwnedStates, HoldsBackend, Over
<1> QED BY <1>1, LifecycleInvariant, PTL

\* The drain cuts no established tunnel before the budget is used up.
THEOREM LifecycleGracefulSessions == Spec => []GracefulSessions
<1>1. IInv => GracefulSessions
  BY DEF IInv, Parts, OpenInv, GracefulSessions, SilentStates, HoldsBackend
<1> QED BY <1>1, LifecycleInvariant, PTL

\* A finished handler leaves an open backend only on the one path on which its
\* client was refused.
THEOREM LifecycleOnlyRefusedLeak == Spec => []OnlyRefusedLeak
<1>1. IInv => OnlyRefusedLeak
  BY DEF IInv, Parts, HandlerInv, OnlyRefusedLeak, HoldsBackend
<1> QED BY <1>1, LifecycleInvariant, PTL

\* An open client is net/http's, its handler's between the hijack and add, or the
\* sessions'; net/http tracks none once Serve only waits for its goroutine.
ClientInv ==
  /\ pc \in {"forceError", "waitServe", "returned"} => tracked = {}
  /\ \A r \in Requests : conn[Client(r)] = "open" =>
       r \in tracked \/ handler[r] = "addClient" \/ Client(r) \in items \cup toClose

\* What is known of open clients is preserved by every step.
LEMMA ClientStep == IInv /\ ClientInv /\ [Next]_vars => ClientInv'
<1> SUFFICES ASSUME IInv, ClientInv, [Next]_vars PROVE ClientInv'
  OBVIOUS
<1> USE ConnCases DEF ClientInv, IInv, Parts, TypeOK, SessionsTypeOK, serve, http, work,
                      sessions, Go, Goto, Open, Close
<1>1. CASE Cancel \/ BudgetExpires \/ HttpServeReturns \/ Terminated \/ UNCHANGED vars
  BY <1>1 DEF Cancel, BudgetExpires, HttpServeReturns, Terminated, vars
<1>2. CASE Serve
  <2>1. CASE StopsServing \/ BeginSessionDrain \/ CallShutdown \/ ShutdownReturns
             \/ SessionsDrained \/ ForceCloseEnds \/ Return
    BY <2>1 DEF StopsServing, BeginSessionDrain, CallShutdown, ShutdownReturns,
                SessionsDrained, ForceCloseEnds, Return, beginDrain, ServeInv
  <2>2. CASE SessionsTimedOut
    BY <2>2 DEF SessionsTimedOut, forceClose, ServeInv
  <2>3. CASE CheckShutdownErr
    <3>1. \A r \in Requests : conn'[Client(r)] = "open" =>
            conn[Client(r)] = "open" /\ (shutdownErr => r \notin tracked)
      BY <2>3 DEF CheckShutdownErr, Client
    <3> QED BY <2>3, <3>1 DEF CheckShutdownErr, forceClose, ServeInv
  <2>4. ASSUME NEW c \in Conns, ForceCloseOne(c) PROVE ClientInv'
    BY <2>4 DEF ForceCloseOne
  <2> QED BY <1>2, <2>1, <2>2, <2>3, <2>4 DEF Serve
<1>3. ASSUME NEW r \in Requests, Handler(r) PROVE ClientInv'
  <2>1. CASE AcceptConnection(r)
    BY <2>1 DEF AcceptConnection, ServeInv
  <2>2. CASE StartHandler(r) \/ Route(r) \/ DialFails(r) \/ DialSucceeds(r)
    BY <2>2 DEF StartHandler, Route, DialFails, DialSucceeds, Answer
  <2>3. CASE SilentConnectionCloses(r)
    BY <2>3 DEF SilentConnectionCloses
  <2>4. CASE AddBackend(r)
    BY <2>4 DEF AddBackend, add
  <2>5. CASE Hijack(r) \/ HijackFailed(r)
    BY <2>5 DEF Hijack, HijackFailed
  <2>6. CASE AddClient(r)
    BY <2>6 DEF AddClient, add
  <2>7. CASE Reply(r) \/ RelayReturns(r) \/ CloseBackend(r) \/ CloseClient(r)
    BY <2>7 DEF Reply, RelayReturns, CloseBackend, CloseClient, Answer
  <2>8. CASE RemoveClient(r)
    BY <2>8 DEF RemoveClient, remove, HandlerInv
  <2>9. CASE RemoveBackend(r)
    BY <2>9 DEF RemoveBackend, remove
  <2>10. CASE FinishRequest(r)
    BY <2>10 DEF FinishRequest
  <2>11. ASSUME NEW side \in Sides, CopyEnds(r, side) PROVE ClientInv'
    BY <2>11 DEF CopyEnds
  <2> QED BY <1>3, <2>1, <2>2, <2>3, <2>4, <2>5, <2>6, <2>7, <2>8, <2>9, <2>10, <2>11
          DEF Handler, HandlerRuns
<1> QED BY <1>1, <1>2, <1>3 DEF Next

\* When server.Serve has returned, on any path, it has left no client open but
\* one whose handler is about to have it refused.
THEOREM LifecycleReturnedClients == Spec => []ReturnedClientsClosed
<1>1. Init => ClientInv
  BY ConnCases DEF Init, newConnectionSessions, ClientInv
<1>2. IInv /\ ClientInv => ReturnedClientsClosed
  BY DEF IInv, Parts, ServeInv, DrainedIsEmpty, ClientInv, ReturnedClientsClosed
<1> QED BY <1>1, <1>2, ClientStep, LifecycleInvariant, PTL DEF Spec

\* A request without a registered client once the drain has begun.
Late(r) == draining /\ handler[r] \notin {"reply", "relay"}

\* No tunnel starts once the drain has begun, wherever its handler was.
THEOREM LifecycleNoTunnelAfterDrain == Spec => NoTunnelAfterDrain
<1> SUFFICES ASSUME NEW r \in Requests
             PROVE  Spec => [](draining /\ handler[r] \notin {"reply", "relay"}
                                 => [](handler[r] # "relay"))
  BY DEF NoTunnelAfterDrain
<1>1. TypeOK /\ Late(r) /\ [Next]_vars => Late(r)'
  <2> SUFFICES ASSUME TypeOK, Late(r), [Next]_vars PROVE Late(r)'
    OBVIOUS
  <2> USE DEF TypeOK, Late, work, sessions, serve, http, Go, Goto
  <2>1. CASE Cancel \/ BudgetExpires \/ HttpServeReturns \/ Terminated \/ UNCHANGED vars
    BY <2>1 DEF Cancel, BudgetExpires, HttpServeReturns, Terminated, vars
  <2>2. CASE Serve
    BY <2>2 DEF Serve, StopsServing, BeginSessionDrain, CallShutdown, ShutdownReturns,
                SessionsDrained, SessionsTimedOut, ForceCloseEnds, CheckShutdownErr, Return,
                ForceCloseOne, beginDrain, forceClose
  <2>3. ASSUME NEW q \in Requests, Handler(q) PROVE Late(r)'
    <3>1. CASE AcceptConnection(q) \/ StartHandler(q) \/ SilentConnectionCloses(q)
      BY <3>1 DEF AcceptConnection, StartHandler, SilentConnectionCloses
    <3>2. CASE Route(q) \/ DialFails(q) \/ DialSucceeds(q)
      BY <3>2 DEF Route, DialFails, DialSucceeds
    <3>3. CASE AddBackend(q) \/ AddClient(q)
      BY <3>3 DEF AddBackend, AddClient, add
    <3>4. CASE Hijack(q) \/ HijackFailed(q)
      BY <3>4 DEF Hijack, HijackFailed
    <3>5. CASE Reply(q) \/ RelayReturns(q) \/ \E side \in Sides : CopyEnds(q, side)
      BY <3>5 DEF Reply, RelayReturns, CopyEnds
    <3>6. CASE CloseBackend(q) \/ CloseClient(q) \/ RemoveClient(q) \/ RemoveBackend(q)
      BY <3>6 DEF CloseBackend, CloseClient, RemoveClient, RemoveBackend, remove
    <3>7. CASE FinishRequest(q)
      BY <3>7 DEF FinishRequest
    <3> QED BY <2>3, <3>1, <3>2, <3>3, <3>4, <3>5, <3>6, <3>7 DEF Handler, HandlerRuns
  <2> QED BY <2>1, <2>2, <2>3 DEF Next
<1>2. Late(r) => handler[r] # "relay"
  BY DEF Late
<1>3. draining /\ handler[r] \notin {"reply", "relay"} => Late(r)
  BY DEF Late
<1> QED BY <1>1, <1>2, <1>3, LifecycleTyped, PTL DEF Spec

\* Every step of server.Serve and of its handlers is a step of ServeContract or
\* leaves it unchanged.
THEOREM LifecycleImplementsContract == Spec => Contract!Safe
<1>1. Init => Contract!Init
  BY DEF Init, Contract!Init
<1>2. [Next]_vars /\ IInv => [Contract!Next]_(Contract!vars)
  <2> SUFFICES ASSUME [Next]_vars, IInv PROVE [Contract!Next]_(Contract!vars)
    OBVIOUS
  <2> USE DEF Contract!vars, Contract!Next, work, sessions, serve, http, Goto
  <2>1. CASE UNCHANGED <<pc, ctx, shutdownErr, httpServe>>
    BY <2>1
  <2>2. CASE Cancel
    BY <2>2 DEF Cancel, Contract!Cancel
  <2>3. CASE HttpServeReturns
    <3>1. pc # "returned"
      BY <2>3 DEF HttpServeReturns, IInv, Parts, ServeInv
    <3> QED BY <2>3, <3>1 DEF HttpServeReturns
  <2>4. CASE StopsServing
    BY <2>4 DEF StopsServing, Contract!Stop
  <2>5. CASE Return
    BY <2>5 DEF Return, Contract!Return
  <2>6. CASE \/ BeginSessionDrain \/ CallShutdown \/ ShutdownReturns \/ SessionsDrained
             \/ SessionsTimedOut \/ ForceCloseEnds \/ CheckShutdownErr
    BY <2>6 DEF BeginSessionDrain, CallShutdown, ShutdownReturns, SessionsDrained,
                SessionsTimedOut, ForceCloseEnds, CheckShutdownErr
  <2>7. CASE \/ BudgetExpires \/ Terminated \/ UNCHANGED vars
             \/ \E c \in Conns : ForceCloseOne(c)
    BY <2>1, <2>7 DEF BudgetExpires, Terminated, vars, ForceCloseOne
  <2>8. ASSUME NEW r \in Requests, Handler(r)
        PROVE  UNCHANGED <<pc, ctx, shutdownErr, httpServe>>
    BY <2>8 DEF Handler, HandlerRuns, AcceptConnection, StartHandler,
                SilentConnectionCloses, Route, DialFails, DialSucceeds, AddBackend, Hijack,
                HijackFailed, AddClient, Reply, CopyEnds, RelayReturns, CloseBackend,
                CloseClient, RemoveClient, RemoveBackend, FinishRequest
  <2> QED BY <2>1, <2>2, <2>3, <2>4, <2>5, <2>6, <2>7, <2>8 DEF Next, Serve
<1> QED BY <1>1, <1>2, LifecycleInvariant, PTL DEF Spec, Contract!Safe

-----------------------------------------------------------------------------
(***************************************************************************)
(* Why no handler outlives Serve for ever.  HandlersEnd under fairness is     *)
(* left to TLC; what it rests on is shown here: a handler takes finitely many *)
(* steps, nobody else gives it more, and a relay that is still running when   *)
(* Serve returns has lost both of its connections for good.                   *)
(***************************************************************************)

\* A connection comes into being once: the client's with its request, the backend's with
\* the end of the dial; net/http and the sessions know only what exists.
FreshInv ==
  /\ \A r \in Requests :
       /\ handler[r] = "none" <=> conn[Client(r)] = "none"
       /\ handler[r] \in {"none", "new", "route", "dial"} => conn[Backend(r)] = "none"
       /\ handler[r] = "addBackend" => conn[Backend(r)] # "none"
       /\ r \in tracked => handler[r] # "none"
  /\ \A c \in items \cup toClose : conn[c] # "none"

\* Every step preserves it,
LEMMA FreshStep == IInv /\ FreshInv /\ [Next]_vars => FreshInv'
<1> SUFFICES ASSUME IInv, FreshInv, [Next]_vars PROVE FreshInv'
  OBVIOUS
<1> USE ConnCases DEF FreshInv, IInv, TypeOK, SessionsTypeOK, serve, http, work,
                      sessions, Go, Goto, Open, Close
<1>1. CASE Cancel \/ BudgetExpires \/ HttpServeReturns \/ Terminated \/ UNCHANGED vars
  BY <1>1 DEF Cancel, BudgetExpires, HttpServeReturns, Terminated, vars
<1>2. CASE Serve
  <2>1. CASE StopsServing \/ BeginSessionDrain \/ CallShutdown \/ ShutdownReturns
             \/ SessionsDrained \/ ForceCloseEnds \/ Return
    BY <2>1 DEF StopsServing, BeginSessionDrain, CallShutdown, ShutdownReturns,
                SessionsDrained, ForceCloseEnds, Return, beginDrain
  <2>2. CASE SessionsTimedOut
    BY <2>2 DEF SessionsTimedOut, forceClose
  <2>3. CASE CheckShutdownErr
    <3>1. \A r \in Requests :
            /\ conn'[Backend(r)] = conn[Backend(r)]
            /\ conn'[Client(r)] = "none" <=> conn[Client(r)] = "none"
      <4>1. CASE ~shutdownErr
        BY <2>3, <4>1 DEF CheckShutdownErr
      <4>2. CASE shutdownErr
        <5> SUFFICES ASSUME NEW r \in Requests
                     PROVE  /\ conn'[Backend(r)] = conn[Backend(r)]
                            /\ conn'[Client(r)] = "none" <=> conn[Client(r)] = "none"
          OBVIOUS
        <5>1. conn' = [c \in Conns |-> IF c[2] = "client" /\ c[1] \in tracked
                                         THEN "closed" ELSE conn[c]]
          BY <2>3, <4>2 DEF CheckShutdownErr
        <5>2. /\ Client(r)[1] = r /\ Client(r)[2] = "client"
              /\ Backend(r)[2] # "client"
          BY DEF Client, Backend
        <5>3. conn'[Client(r)] = IF r \in tracked THEN "closed" ELSE conn[Client(r)]
          BY <5>1, <5>2
        <5>4. conn'[Backend(r)] = conn[Backend(r)]
          BY <5>1, <5>2
        <5> QED BY <5>3, <5>4
      <4> QED BY <4>1, <4>2
    <3>2. \A c \in Conns : conn'[c] = "none" <=> conn[c] = "none"
      BY <3>1
    <3> QED BY <2>3, <3>1, <3>2 DEF CheckShutdownErr, forceClose
  <2>4. ASSUME NEW c \in Conns, ForceCloseOne(c) PROVE FreshInv'
    BY <2>4 DEF ForceCloseOne
  <2> QED BY <1>2, <2>1, <2>2, <2>3, <2>4 DEF Serve
<1>3. ASSUME NEW r \in Requests, Handler(r) PROVE FreshInv'
  <2>1. CASE AcceptConnection(r)
    BY <2>1 DEF AcceptConnection
  <2>2. CASE StartHandler(r) \/ Route(r) \/ DialFails(r)
    BY <2>2 DEF StartHandler, Route, DialFails
  <2>3. CASE DialSucceeds(r)
    BY <2>3 DEF DialSucceeds
  <2>4. CASE SilentConnectionCloses(r) \/ FinishRequest(r)
    BY <2>4 DEF SilentConnectionCloses, FinishRequest
  <2>5. CASE AddBackend(r)
    BY <2>5 DEF AddBackend, add
  <2>6. CASE Hijack(r)
    BY <2>6 DEF Hijack
  <2>7. CASE AddClient(r)
    BY <2>7 DEF AddClient, add
  <2>8. CASE Reply(r) \/ RelayReturns(r)
    BY <2>8 DEF Reply, RelayReturns
  <2>9. CASE HijackFailed(r) \/ CloseBackend(r) \/ CloseClient(r)
    BY <2>9 DEF HijackFailed, CloseBackend, CloseClient
  <2>10. CASE RemoveClient(r) \/ RemoveBackend(r)
    BY <2>10 DEF RemoveClient, RemoveBackend, remove
  <2>11. ASSUME NEW side \in Sides, CopyEnds(r, side) PROVE FreshInv'
    BY <2>11 DEF CopyEnds
  <2> QED BY <1>3, <2>1, <2>2, <2>3, <2>4, <2>5, <2>6, <2>7, <2>8, <2>9, <2>10, <2>11
          DEF Handler, HandlerRuns
<1> QED BY <1>1, <1>2, <1>3 DEF Next

\* so that it holds throughout.
LEMMA FreshInvariant == Spec => []FreshInv
<1>1. Init => FreshInv
  BY ConnCases DEF Init, newConnectionSessions, FreshInv
<1> QED BY <1>1, FreshStep, LifecycleInvariant, PTL DEF Spec

\* The tunnels that are still running when Serve has returned.
LeftoversAreCut ==
  pc = "returned" => \A r \in Requests : handler[r] = "relay" =>
    conn[Client(r)] = "closed" /\ conn[Backend(r)] = "closed"

\* A tunnel that outlives server.Serve has no connection left to copy from: forceClose
\* has taken both of them, whichever of the two forced paths Serve went and however
\* removal and forced close interleaved.
THEOREM LifecycleLeftoversAreCut == Spec => []LeftoversAreCut
<1>1. IInv /\ FreshInv /\ ReturnedClientsClosed => LeftoversAreCut
  <2> SUFFICES ASSUME IInv, FreshInv, ReturnedClientsClosed, pc = "returned",
                      NEW r \in Requests, handler[r] = "relay"
               PROVE  conn[Client(r)] = "closed" /\ conn[Backend(r)] = "closed"
    BY DEF LeftoversAreCut
  <2>1. items = {} /\ toClose = {}
    BY DEF IInv, Parts, ServeInv, DrainedIsEmpty
  <2>2. conn[Backend(r)] = "closed"
    BY <2>1 DEF IInv, Parts, OwnerInv, OwnedStates
  <2>3. conn[Client(r)] = "closed"
    BY ConnCases DEF IInv, TypeOK, SessionsTypeOK, FreshInv, ReturnedClientsClosed
  <2> QED BY <2>2, <2>3
<1> QED BY <1>1, LifecycleInvariant, FreshInvariant, LifecycleReturnedClients, PTL

\* A closed connection stays closed, whoever closed it: no late dial and no connection
\* that net/http accepts revives it.
THEOREM LifecycleNeverReopens ==
  Spec => [][\A c \in Conns : conn[c] = "closed" => conn'[c] = "closed"]_vars
<1> DEFINE Stays == \A c \in Conns : conn[c] = "closed" => conn'[c] = "closed"
<1>1. IInv /\ FreshInv /\ [Next]_vars => [Stays]_vars
  <2> SUFFICES ASSUME IInv, FreshInv, Next PROVE Stays
    OBVIOUS
  <2> USE ConnCases DEF IInv, TypeOK, SessionsTypeOK, serve, http, work, sessions, Go, Goto,
                        Open, Close
  <2>1. CASE UNCHANGED conn
    BY <2>1
  <2>2. ASSUME NEW r \in Requests, AcceptConnection(r) \/ DialSucceeds(r) PROVE Stays
    BY <2>2 DEF AcceptConnection, DialSucceeds, FreshInv
  <2>3. ASSUME NEW r \in Requests,
               \/ SilentConnectionCloses(r) \/ FinishRequest(r) \/ HijackFailed(r)
               \/ CloseBackend(r) \/ CloseClient(r)
        PROVE  Stays
    BY <2>3 DEF SilentConnectionCloses, FinishRequest, HijackFailed, CloseBackend, CloseClient
  <2>4. ASSUME NEW r \in Requests, AddBackend(r) \/ AddClient(r) PROVE Stays
    BY <2>4 DEF AddBackend, AddClient, add
  <2>5. ASSUME NEW r \in Requests,
               \/ StartHandler(r) \/ Route(r) \/ DialFails(r) \/ Hijack(r) \/ Reply(r)
               \/ RelayReturns(r) \/ RemoveClient(r) \/ RemoveBackend(r)
               \/ \E side \in Sides : CopyEnds(r, side)
        PROVE  Stays
    BY <2>1, <2>5 DEF StartHandler, Route, DialFails, Hijack, Reply, RelayReturns,
                      RemoveClient, RemoveBackend, CopyEnds
  <2>6. CASE CheckShutdownErr
    BY <2>6 DEF CheckShutdownErr
  <2>7. ASSUME NEW c \in Conns, ForceCloseOne(c) PROVE Stays
    BY <2>7 DEF ForceCloseOne
  <2>8. CASE \/ Cancel \/ BudgetExpires \/ HttpServeReturns \/ Terminated \/ StopsServing
             \/ BeginSessionDrain \/ CallShutdown \/ ShutdownReturns \/ SessionsDrained
             \/ SessionsTimedOut \/ ForceCloseEnds \/ Return
    BY <2>1, <2>8 DEF Cancel, BudgetExpires, HttpServeReturns, Terminated, StopsServing,
         BeginSessionDrain, CallShutdown, ShutdownReturns, SessionsDrained, SessionsTimedOut,
         ForceCloseEnds, Return, vars
  <2> QED BY <2>2, <2>3, <2>4, <2>5, <2>6, <2>7, <2>8 DEF Next, Serve, Handler, HandlerRuns
<1> QED BY <1>1, LifecycleInvariant, FreshInvariant, PTL DEF Spec

\* How far a handler is from its end, by the order of its steps and deferred calls.
Distance(state) ==
  CASE state = "none" -> 15 [] state = "new" -> 14 [] state = "route" -> 13
    [] state = "dial" -> 12 [] state = "addBackend" -> 11 [] state = "hijack" -> 10
    [] state = "addClient" -> 9 [] state = "reply" -> 8 [] state = "relay" -> 7
    [] state = "closeBackend" -> 6 [] state = "closeClient" -> 5 [] state = "rmClient" -> 4
    [] state = "hijackFailed" -> 3 [] state = "rmBackend" -> 2 [] state = "finish" -> 1
    [] OTHER -> 0

\* The steps that the goroutines of a request can still take, at most: the handler's,
\* and one for each copy of its relay.
Work(r) ==
  3 * Distance(handler[r]) + (IF "client" \in halves[r] THEN 1 ELSE 0)
    + (IF "backend" \in halves[r] THEN 1 ELSE 0)

\* Only a relay has copies running.
HalvesInv == \A r \in Requests : handler[r] # "relay" => halves[r] = {}

\* Every step of a handler or of one of its copies leaves it fewer steps, and no step of
\* Serve, of net/http or of another handler gives it new ones: a handler cannot be made
\* to go on by a drain or a forced close that meets it at any of its steps.
THEOREM LifecycleHandlersGoForward ==
  Spec => \A r \in Requests :
            [][/\ Work(r) \in Nat /\ Work(r)' <= Work(r)
               /\ Handler(r) => Work(r)' < Work(r)]_vars
<1> SUFFICES ASSUME NEW r \in Requests
             PROVE  Spec => [][/\ Work(r) \in Nat /\ Work(r)' <= Work(r)
                               /\ Handler(r) => Work(r)' < Work(r)]_vars
  OBVIOUS
<1> DEFINE Shrinks == /\ Work(r) \in Nat /\ Work(r)' <= Work(r)
                      /\ Handler(r) => Work(r)' < Work(r)
<1> USE DEF serve, http, work, sessions, Go, TypeOK
<1>1. Init => HalvesInv
  BY DEF Init, HalvesInv
<1>2. ASSUME TypeOK, HalvesInv, NEW q \in Requests, Handler(q)
      PROVE  Work(q)' < Work(q) /\ HalvesInv'
  <2> USE DEF HalvesInv, Work
  <2>1. CASE AcceptConnection(q) \/ StartHandler(q) \/ SilentConnectionCloses(q) \/ Route(q)
    BY <1>2, <2>1 DEF AcceptConnection, StartHandler, SilentConnectionCloses, Route, Distance
  <2>2. CASE DialFails(q) \/ DialSucceeds(q) \/ AddBackend(q) \/ Hijack(q)
    BY <1>2, <2>2 DEF DialFails, DialSucceeds, AddBackend, Hijack, Distance
  <2>3. CASE HijackFailed(q) \/ AddClient(q) \/ RelayReturns(q) \/ CloseBackend(q)
    BY <1>2, <2>3 DEF HijackFailed, AddClient, RelayReturns, CloseBackend, Distance
  <2>4. CASE Reply(q)
    BY <1>2, <2>4 DEF Reply, Distance
  <2>5. CASE CloseClient(q) \/ RemoveClient(q) \/ RemoveBackend(q) \/ FinishRequest(q)
    BY <1>2, <2>5 DEF CloseClient, RemoveClient, RemoveBackend, FinishRequest, Distance
  <2>6. ASSUME NEW side \in Sides, CopyEnds(q, side) PROVE Work(q)' < Work(q) /\ HalvesInv'
    <3>1. /\ handler' = handler /\ side \in halves[q]
          /\ halves' = [halves EXCEPT ![q] = @ \ {side}]
      BY <2>6 DEF CopyEnds
    <3>2. Distance(handler[q]) \in Nat
      BY DEF Distance
    <3> QED BY <1>2, <3>1, <3>2 DEF Sides
  <2> QED BY <1>2, <2>1, <2>2, <2>3, <2>4, <2>5, <2>6 DEF Handler, HandlerRuns
<1>3. ASSUME Next, ~\E q \in Requests : Handler(q)
      PROVE  UNCHANGED <<handler, halves>>
  BY <1>3 DEF Next, Serve, Cancel, BudgetExpires, HttpServeReturns, Terminated, StopsServing,
       BeginSessionDrain, CallShutdown, ShutdownReturns, SessionsDrained, SessionsTimedOut,
       ForceCloseEnds, CheckShutdownErr, Return, ForceCloseOne, vars
<1>4. TypeOK /\ HalvesInv /\ [Next]_vars => HalvesInv' /\ [Shrinks]_vars
  <2> SUFFICES ASSUME TypeOK, HalvesInv, [Next]_vars
               PROVE  HalvesInv' /\ [Shrinks]_vars
    OBVIOUS
  <2>1. Work(r) \in Nat
    BY DEF Work, Distance
  <2>2. CASE UNCHANGED vars
    BY <2>2 DEF vars, HalvesInv
  <2>3. ASSUME NEW q \in Requests, Handler(q) PROVE HalvesInv' /\ Shrinks
    <3>1. HalvesInv'
      BY <2>3, <1>2
    <3>2. Handler(r) => Work(r)' < Work(r)
      BY <1>2
    <3>3. CASE q = r
      BY <2>1, <2>3, <3>1, <3>2, <3>3 DEF Work, Distance
    <3>4. CASE q # r
      <4>1. handler'[r] = handler[r] /\ halves'[r] = halves[r]
        BY <2>3, <3>4 DEF Handler, HandlerRuns, AcceptConnection, StartHandler,
             SilentConnectionCloses, Route, DialFails, DialSucceeds, AddBackend, Hijack,
             HijackFailed, AddClient, Reply, CopyEnds, RelayReturns, CloseBackend,
             CloseClient, RemoveClient, RemoveBackend, FinishRequest
      <4>2. Work(r)' = Work(r)
        BY <4>1 DEF Work
      <4> HIDE DEF Work
      <4> QED BY <2>1, <3>1, <3>2, <4>2
    <3> QED BY <3>3, <3>4
  <2>4. CASE Next /\ ~\E q \in Requests : Handler(q)
    <3>1. ~Handler(r)
      BY <2>4
    <3>2. UNCHANGED <<handler, halves>>
      BY <2>4, <1>3
    <3> QED BY <2>1, <3>1, <3>2 DEF Work, HalvesInv
  <2> QED BY <2>2, <2>3, <2>4
<1> QED BY <1>1, <1>4, LifecycleTyped, PTL DEF Spec
=============================================================================
