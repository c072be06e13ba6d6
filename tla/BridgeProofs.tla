---------------------------- MODULE BridgeProofs ----------------------------
(***************************************************************************)
(* Proofs about Bridge, for any set of streams.                             *)
(***************************************************************************)
EXTENDS Bridge, TLAPS

\* Before connections.Close is called, and after.
Before == {"accept", "check", "add", "drain"}

\* The tracker is closing exactly after Serve has called Close; when Close has
\* gone through its snapshot nothing is left of it; Serve returns only when
\* every stream is done.
MainInv ==
  /\ pc \in Before => ~closing /\ toClose = {}
  /\ pc \in {"closeError", "closeDrain"} => closing
  /\ pc \in {"waitStreams", "waitDrained"} => closing /\ toClose = {}
  /\ pc = "returned" => StreamsDone

\* A connection is open, and registered, only in the states of its stream in
\* which some step of the stream still closes, and removes, it.
OwnerInv ==
  \A s \in Streams :
    /\ conn[Client(s)] = "open" => stream[s] \notin {"none", "done"}
    /\ conn[Remote(s)] = "open" =>
         stream[s] \in {"check", "add", "relay", "rmRemote", "closeRemote"}
    /\ Client(s) \in items =>
         stream[s] \notin {"none", "accepted", "closeClient", "done"}
    /\ Remote(s) \in items => stream[s] \in {"relay", "rmRemote"}

\* What the tracker holds while it is closing is closed or about to be.
ClosingInv == closing => \A c \in items : conn[c] = "closed" \/ c \in toClose

\* Before Close, only the stream itself closes its connections.
OpenInv ==
  ~closing => \A s \in Streams :
    /\ stream[s] \in {"accepted", "dial", "check", "add", "relay"} =>
         conn[Client(s)] = "open"
    /\ stream[s] \in {"check", "add", "relay"} => conn[Remote(s)] = "open"

IInv == TypeOK /\ MainInv /\ OwnerInv /\ ClosingInv /\ OpenInv

\* Every connection is one of the two of its stream, and they differ.
LEMMA ConnCases ==
  /\ \A c \in Conns : \E s \in Streams : c = Client(s) \/ c = Remote(s)
  /\ \A s \in Streams : Client(s) \in Conns /\ Remote(s) \in Conns
  /\ \A s, t \in Streams : Client(s) # Remote(t)
  /\ \A s, t \in Streams : s # t => Client(s) # Client(t) /\ Remote(s) # Remote(t)
  BY DEF Conns, Sides, Client, Remote

\* Type correctness is inductive by itself.
LEMMA TypeStep == TypeOK /\ [Next]_vars => TypeOK'
<1> SUFFICES ASSUME TypeOK, [Next]_vars PROVE TypeOK'
  OBVIOUS
<1> USE ConnCases DEF TypeOK, MainStates, StreamStates, main, tracker, relays
<1>1. CASE Cancel
  BY <1>1 DEF Cancel
<1>2. ASSUME NEW c \in Conns, PeerFinishes(c) PROVE TypeOK'
  BY <1>2 DEF PeerFinishes
<1>3. CASE WatcherCloses \/ WatcherStops
  BY <1>3 DEF WatcherCloses, WatcherStops
<1>4. CASE Serve
  <2>1. CASE AcceptFails
    BY <2>1 DEF AcceptFails, BeginClose
  <2>2. CASE DrainTimeout \/ CloseEnds \/ Return
    BY <2>2 DEF DrainTimeout, CloseEnds, Return, BeginClose
  <2>3. ASSUME NEW s \in Streams, AcceptClient(s) PROVE TypeOK'
    BY <2>3 DEF AcceptClient
  <2>4. ASSUME NEW s \in Streams, CheckContext(s) PROVE TypeOK'
    BY <2>4 DEF CheckContext, Closed
  <2>5. ASSUME NEW s \in Streams, RegisterClient(s) PROVE TypeOK'
    BY <2>5 DEF RegisterClient, Add
  <2>6. ASSUME NEW c \in Conns, CloseOne(c) PROVE TypeOK'
    BY <2>6 DEF CloseOne, Closed
  <2> QED BY <1>4, <2>1, <2>2, <2>3, <2>4, <2>5, <2>6 DEF Serve
<1>5. ASSUME NEW s \in Streams, Stream(s) PROVE TypeOK'
  <2>1. CASE DialFails(s) \/ DialSucceeds(s) \/ StreamChecksContext(s)
    BY <2>1 DEF DialFails, DialSucceeds, StreamChecksContext, Go
  <2>2. CASE RegisterRemote(s)
    BY <2>2 DEF RegisterRemote, Add, Go
  <2>3. ASSUME NEW h \in Sides, CopyEnds(s, h) PROVE TypeOK'
    <3>1. <<s, Other(h)>> \in Conns
      BY DEF Conns, Other, Sides
    <3> QED BY <2>3, <3>1 DEF CopyEnds, CopyReturns
  <2>4. CASE RelayReturns(s)
    BY <2>4 DEF RelayReturns, Go
  <2>5. CASE Deferred(s)
    BY <2>5 DEF Deferred, RemoveRemote, CloseRemote, RemoveClient, CloseClient,
                Remove, Closed, Go
  <2> QED BY <1>5, <2>1, <2>2, <2>3, <2>4, <2>5 DEF Stream
<1>6. CASE Terminated \/ UNCHANGED vars
  BY <1>6 DEF Terminated, vars
<1> QED BY <1>1, <1>2, <1>3, <1>4, <1>5, <1>6 DEF Next

\* The variables of Serve always have their types.
THEOREM BridgeTyped == Spec => []TypeOK
<1>1. Init => TypeOK
  BY DEF Init, TypeOK, MainStates, StreamStates
<1> QED BY <1>1, TypeStep, PTL DEF Spec

-----------------------------------------------------------------------------
(***************************************************************************)
(* The inductive invariant, one lemma per thread.                           *)
(***************************************************************************)
\* Cancellation, the peers and the watcher preserve the inductive invariant.
LEMMA EnvironmentStep ==
  ASSUME IInv, \/ Cancel \/ WatcherCloses \/ WatcherStops \/ Terminated
               \/ UNCHANGED vars \/ \E c \in Conns : PeerFinishes(c)
  PROVE  (MainInv /\ OwnerInv /\ ClosingInv /\ OpenInv)'
<1>1. UNCHANGED <<pc, stream, conn, items, closing, toClose>>
  BY DEF Cancel, WatcherCloses, WatcherStops, Terminated, PeerFinishes, vars, main,
         tracker
<1> QED BY <1>1 DEF IInv, MainInv, OwnerInv, ClosingInv, OpenInv, StreamsDone

\* So does every step of the accept loop and of the drain,
LEMMA ServeStep ==
  ASSUME IInv, Serve
  PROVE  (MainInv /\ OwnerInv /\ ClosingInv /\ OpenInv)'
<1> USE ConnCases DEF IInv, TypeOK, main, tracker, relays, Before
<1>1. CASE AcceptFails
  BY <1>1 DEF AcceptFails, BeginClose, MainInv, OwnerInv, ClosingInv, OpenInv
<1>2. CASE DrainTimeout
  BY <1>2 DEF DrainTimeout, BeginClose, MainInv, OwnerInv, ClosingInv, OpenInv
<1>3. CASE CloseEnds
  BY <1>3 DEF CloseEnds, MainInv, OwnerInv, ClosingInv, OpenInv
<1>4. CASE Return
  BY <1>4 DEF Return, MainInv, OwnerInv, ClosingInv, OpenInv, StreamsDone
<1>5. ASSUME NEW s \in Streams, AcceptClient(s)
      PROVE  (MainInv /\ OwnerInv /\ ClosingInv /\ OpenInv)'
  <2>1. MainInv'
    BY <1>5 DEF AcceptClient, MainInv, StreamsDone
  <2>2. OwnerInv'
    BY <1>5 DEF AcceptClient, OwnerInv
  <2>3. ClosingInv' /\ OpenInv'
    BY <1>5 DEF AcceptClient, MainInv, OwnerInv, ClosingInv, OpenInv
  <2> QED BY <2>1, <2>2, <2>3
<1>6. ASSUME NEW s \in Streams, CheckContext(s)
      PROVE  (MainInv /\ OwnerInv /\ ClosingInv /\ OpenInv)'
  <2>1. MainInv'
    BY <1>6 DEF CheckContext, MainInv, StreamsDone
  <2>2. OwnerInv'
    BY <1>6 DEF CheckContext, Closed, OwnerInv
  <2>3. ClosingInv' /\ OpenInv'
    BY <1>6 DEF CheckContext, Closed, MainInv, OwnerInv, ClosingInv, OpenInv
  <2> QED BY <2>1, <2>2, <2>3
<1>7. ASSUME NEW s \in Streams, RegisterClient(s)
      PROVE  (MainInv /\ OwnerInv /\ ClosingInv /\ OpenInv)'
  <2>1. ~closing
    BY <1>7 DEF RegisterClient, MainInv
  <2>2. MainInv' /\ OwnerInv'
    BY <1>7, <2>1 DEF RegisterClient, Add, MainInv, OwnerInv, StreamsDone
  <2>3. ClosingInv' /\ OpenInv'
    BY <1>7, <2>1 DEF RegisterClient, Add, ClosingInv, OpenInv
  <2> QED BY <2>2, <2>3
<1>8. ASSUME NEW c \in Conns, CloseOne(c)
      PROVE  (MainInv /\ OwnerInv /\ ClosingInv /\ OpenInv)'
  BY <1>8 DEF CloseOne, Closed, MainInv, OwnerInv, ClosingInv, OpenInv
<1> QED BY <1>1, <1>2, <1>3, <1>4, <1>5, <1>6, <1>7, <1>8 DEF Serve

\* and every step of a client's goroutine.
LEMMA StreamStep ==
  ASSUME IInv, NEW s \in Streams, Stream(s)
  PROVE  (MainInv /\ OwnerInv /\ ClosingInv /\ OpenInv)'
<1> USE ConnCases DEF IInv, TypeOK, main, tracker, relays, Go
<1>1. CASE DialFails(s) \/ StreamChecksContext(s) \/ RelayReturns(s)
  BY <1>1 DEF DialFails, StreamChecksContext, RelayReturns, MainInv, OwnerInv,
              ClosingInv, OpenInv, StreamsDone
<1>2. CASE DialSucceeds(s)
  <2>1. MainInv' /\ OwnerInv'
    BY <1>2 DEF DialSucceeds, MainInv, OwnerInv, StreamsDone
  <2>2. Remote(s) \notin items
    BY <1>2 DEF DialSucceeds, OwnerInv
  <2>3. ClosingInv'
    BY <1>2, <2>2 DEF DialSucceeds, ClosingInv
  <2>4. OpenInv'
    BY <1>2 DEF DialSucceeds, OpenInv
  <2> QED BY <2>1, <2>3, <2>4
<1>3. CASE RegisterRemote(s)
  <2>1. MainInv' /\ OwnerInv'
    BY <1>3 DEF RegisterRemote, Add, MainInv, OwnerInv, StreamsDone
  <2>2. ClosingInv' /\ OpenInv'
    BY <1>3 DEF RegisterRemote, Add, ClosingInv, OpenInv
  <2> QED BY <2>1, <2>2
<1>4. ASSUME NEW h \in Sides, CopyEnds(s, h)
      PROVE  (MainInv /\ OwnerInv /\ ClosingInv /\ OpenInv)'
  BY <1>4 DEF CopyEnds, CopyReturns, MainInv, OwnerInv, ClosingInv, OpenInv, StreamsDone
<1>5. CASE Deferred(s)
  <2>1. CASE RemoveRemote(s) \/ RemoveClient(s)
    BY <2>1 DEF RemoveRemote, RemoveClient, Remove, MainInv, OwnerInv, ClosingInv,
                OpenInv, StreamsDone
  <2>2. CASE CloseRemote(s) \/ CloseClient(s)
    <3>1. MainInv' /\ OwnerInv'
      BY <2>2 DEF CloseRemote, CloseClient, Closed, MainInv, OwnerInv, StreamsDone
    <3>2. ClosingInv' /\ OpenInv'
      BY <2>2 DEF CloseRemote, CloseClient, Closed, ClosingInv, OpenInv
    <3> QED BY <3>1, <3>2
  <2> QED BY <1>5, <2>1, <2>2 DEF Deferred
<1> QED BY <1>1, <1>2, <1>3, <1>4, <1>5 DEF Stream

\* The inductive invariant holds throughout.
LEMMA BridgeInvariant == Spec => []IInv
<1>1. Init => IInv
  BY ConnCases DEF Init, IInv, TypeOK, MainStates, StreamStates, MainInv, OwnerInv,
     ClosingInv, OpenInv, StreamsDone, Before
<1>2. IInv /\ [Next]_vars => IInv'
  <2> SUFFICES ASSUME IInv, [Next]_vars PROVE IInv'
    OBVIOUS
  <2>1. TypeOK'
    BY TypeStep DEF IInv
  <2>2. (MainInv /\ OwnerInv /\ ClosingInv /\ OpenInv)'
    BY EnvironmentStep, ServeStep, StreamStep DEF Next
  <2> QED BY <2>1, <2>2 DEF IInv
<1> QED BY <1>1, <1>2, PTL DEF Spec

-----------------------------------------------------------------------------
(***************************************************************************)
(* The theorems.                                                            *)
(***************************************************************************)

\* link.Serve returns only after every accepted client and every dialled remote
\* is closed and unregistered and every stream's goroutine is over, for any
\* number of streams and whichever of its paths it returns by.
THEOREM BridgeReturnedClean == Spec => []ReturnedClean
<1>1. IInv => ReturnedClean
  <2> SUFFICES ASSUME IInv, pc = "returned"
               PROVE  StreamsDone /\ items = {} /\ \A c \in Conns : conn[c] # "open"
    BY DEF ReturnedClean
  <2>1. \A s \in Streams : stream[s] \in {"none", "done"}
    BY DEF IInv, MainInv, StreamsDone
  <2>2. \A s \in Streams : /\ Client(s) \notin items /\ Remote(s) \notin items
                          /\ conn[Client(s)] # "open" /\ conn[Remote(s)] # "open"
    BY <2>1 DEF IInv, OwnerInv
  <2>3. items = {}
    BY <2>2, ConnCases DEF IInv, TypeOK
  <2> QED BY <2>1, <2>2, <2>3, ConnCases DEF StreamsDone
<1> QED BY <1>1, BridgeInvariant, PTL

\* The loop of connections.Close, which runs without the lock, misses no
\* connection: after it, whatever is registered is closed.
THEOREM BridgeForcedClose == Spec => []ForcedCloseReachesAll
<1>1. IInv /\ ReturnedClean => ForcedCloseReachesAll
  BY DEF IInv, MainInv, ClosingInv, ReturnedClean, ForcedCloseReachesAll
<1> QED BY <1>1, BridgeInvariant, BridgeReturnedClean, PTL

\* Cancellation by itself cuts no relay: until the drain time is over both
\* connections of a running relay are open.
THEOREM BridgeGracefulDrain == Spec => []GracefulDrain
<1>1. IInv => GracefulDrain
  BY DEF IInv, MainInv, OpenInv, GracefulDrain, Before
<1> QED BY <1>1, BridgeInvariant, PTL

\* The states of a stream from which, once the context is cancelled, it can no
\* longer come to relay.
Late(s) == ctx /\ stream[s] \in {"none", "accepted", "dial", "check", "closeRemote",
                                 "rmClient", "closeClient", "done"}

\* A client whose dial is pending at the cancellation is never relayed.
THEOREM BridgeNoRelayAfterCancel == Spec => NoRelayAfterCancel
<1> SUFFICES ASSUME NEW s \in Streams
             PROVE  Spec => [](ctx /\ stream[s] \in {"none", "accepted", "dial"}
                                 => [](stream[s] # "relay"))
  BY DEF NoRelayAfterCancel
<1>1. TypeOK /\ Late(s) /\ [Next]_vars => Late(s)'
  <2> SUFFICES ASSUME TypeOK, Late(s), [Next]_vars PROVE Late(s)'
    OBVIOUS
  <2> USE DEF TypeOK, Late, main, tracker, relays, Go
  <2>1. CASE UNCHANGED <<ctx, stream>> \/ Cancel
    BY <2>1 DEF Cancel
  <2>2. ASSUME NEW t \in Streams, AcceptClient(t) \/ CheckContext(t) \/ RegisterClient(t)
        PROVE  Late(s)'
    BY <2>2 DEF AcceptClient, CheckContext, RegisterClient
  <2>3. ASSUME NEW t \in Streams, Stream(t) PROVE Late(s)'
    <3>1. CASE DialFails(t) \/ DialSucceeds(t) \/ StreamChecksContext(t)
      BY <3>1 DEF DialFails, DialSucceeds, StreamChecksContext
    <3>2. CASE RegisterRemote(t) \/ RelayReturns(t)
      BY <3>2 DEF RegisterRemote, RelayReturns
    <3>3. CASE \E h \in Sides : CopyEnds(t, h)
      BY <3>3 DEF CopyEnds, CopyReturns
    <3>4. CASE Deferred(t)
      BY <3>4 DEF Deferred, RemoveRemote, CloseRemote, RemoveClient, CloseClient
    <3> QED BY <2>3, <3>1, <3>2, <3>3, <3>4 DEF Stream
  <2>4. CASE \/ AcceptFails \/ DrainTimeout \/ CloseEnds \/ Return
             \/ \E c \in Conns : CloseOne(c)
    BY <2>4 DEF AcceptFails, DrainTimeout, CloseEnds, Return, CloseOne
  <2>5. CASE \/ WatcherCloses \/ WatcherStops \/ Terminated \/ UNCHANGED vars
             \/ \E c \in Conns : PeerFinishes(c)
    BY <2>5 DEF WatcherCloses, WatcherStops, Terminated, PeerFinishes, vars
  <2> QED BY <2>1, <2>2, <2>3, <2>4, <2>5 DEF Next, Serve
<1>2. ctx /\ stream[s] \in {"none", "accepted", "dial"} => Late(s)
  BY DEF Late
<1>3. Late(s) => stream[s] # "relay"
  BY DEF Late
<1> QED BY <1>1, <1>2, <1>3, BridgeTyped, PTL DEF Spec

\* A returning Serve has an error, or has been cancelled.
ResultInv == pc \notin {"accept", "check", "add"} /\ ~err => ctx

\* The watcher closes the listener only on cancellation.
ListenerInv == listener = "closed" => ctx

\* Every step of link.Serve is a step of ServeContract or leaves it unchanged,
\* and a nil result is returned only to a caller that cancelled.
THEOREM BridgeImplementsContract == Spec => Contract!Safe
<1> DEFINE RInv == IInv /\ ResultInv /\ ListenerInv
<1> USE DEF main, tracker, relays
<1>1. Init => ResultInv /\ ListenerInv /\ Contract!Init
  BY DEF Init, ResultInv, ListenerInv, Contract!Init
<1>2. RInv /\ [Next]_vars => (ResultInv /\ ListenerInv)' /\ [Contract!Next]_(Contract!vars)
  <2> SUFFICES ASSUME IInv, ResultInv, ListenerInv, [Next]_vars
               PROVE  (ResultInv /\ ListenerInv)' /\ [Contract!Next]_(Contract!vars)
    OBVIOUS
  <2> USE DEF ResultInv, ListenerInv, Contract!vars
  <2>1. CASE UNCHANGED <<pc, err, ctx, listener>>
    BY <2>1
  <2>2. CASE Cancel
    BY <2>2 DEF Cancel, Contract!Next, Contract!Cancel, IInv, TypeOK
  <2>3. CASE WatcherCloses
    BY <2>3 DEF WatcherCloses
  <2>4. CASE AcceptFails
    BY <2>4 DEF AcceptFails, Contract!Next, Contract!Stop
  <2>5. CASE DrainTimeout \/ CloseEnds
    BY <2>5 DEF DrainTimeout, CloseEnds
  <2>6. CASE Return
    BY <2>6 DEF Return, Contract!Next, Contract!Return, IInv, TypeOK
  <2>7. ASSUME NEW s \in Streams, AcceptClient(s) \/ RegisterClient(s) \/ CheckContext(s)
        PROVE  (ResultInv /\ ListenerInv)' /\ [Contract!Next]_(Contract!vars)
    <3>1. pc = "add" => ~closing
      BY DEF IInv, MainInv, Before
    <3> QED BY <2>7, <3>1 DEF AcceptClient, RegisterClient, CheckContext, Contract!Next,
                              Contract!Stop
  <2>8. CASE \/ \E c \in Conns : CloseOne(c) \/ PeerFinishes(c)
             \/ WatcherStops \/ Terminated \/ UNCHANGED vars
    BY <2>1, <2>8 DEF CloseOne, PeerFinishes, WatcherStops, Terminated, vars
  <2>9. ASSUME NEW s \in Streams, Stream(s)
        PROVE  UNCHANGED <<pc, err, ctx, listener>>
    BY <2>9 DEF Stream, Deferred, DialFails, DialSucceeds, StreamChecksContext,
                RegisterRemote, CopyEnds, CopyReturns, RelayReturns, RemoveRemote, CloseRemote,
                RemoveClient, CloseClient
  <2> QED BY <2>1, <2>2, <2>3, <2>4, <2>5, <2>6, <2>7, <2>8, <2>9 DEF Next, Serve
<1> QED BY <1>1, <1>2, BridgeInvariant, PTL DEF Spec, Contract!Safe

-----------------------------------------------------------------------------
(***************************************************************************)
(* Why streams.Wait ends.  That Serve returns under fairness is left to TLC;  *)
(* what it rests on is shown here: a stream takes finitely many steps, no     *)
(* other goroutine gives it more or takes away what it waits for, and when    *)
(* Serve waits for the streams a relay has lost both of its connections.      *)
(***************************************************************************)

\* A connection comes into being once: the client's with its stream, the remote's
\* with the end of the dial; the tracker knows only what exists.
FreshInv ==
  /\ \A s \in Streams :
       /\ stream[s] = "none" <=> conn[Client(s)] = "none"
       /\ stream[s] \in {"none", "accepted", "dial"} => conn[Remote(s)] = "none"
       /\ stream[s] \in {"check", "add", "relay"} => conn[Remote(s)] # "none"
  /\ \A c \in items \cup toClose : conn[c] # "none"

\* Between its registration and its removal a connection is in the tracker.
RegisteredInv ==
  \A s \in Streams :
    /\ stream[s] \in {"dial", "check", "add", "relay", "rmRemote", "closeRemote", "rmClient"}
         => Client(s) \in items
    /\ stream[s] \in {"relay", "rmRemote"} => Remote(s) \in items

\* Every step of Serve preserves the two,
LEMMA ServeTracks ==
  ASSUME IInv, FreshInv, RegisteredInv, Serve
  PROVE  FreshInv' /\ RegisteredInv'
<1> USE ConnCases DEF IInv, TypeOK, FreshInv, RegisteredInv, main, tracker, relays
<1>1. CASE AcceptFails \/ DrainTimeout \/ CloseEnds \/ Return
  BY <1>1 DEF AcceptFails, DrainTimeout, CloseEnds, Return, BeginClose
<1>2. ASSUME NEW s \in Streams, AcceptClient(s) PROVE FreshInv' /\ RegisteredInv'
  BY <1>2 DEF AcceptClient
<1>3. ASSUME NEW s \in Streams, CheckContext(s) PROVE FreshInv' /\ RegisteredInv'
  BY <1>3 DEF CheckContext, Closed
<1>4. ASSUME NEW s \in Streams, RegisterClient(s) PROVE FreshInv' /\ RegisteredInv'
  <2>1. ~closing
    BY <1>4 DEF RegisterClient, MainInv, Before
  <2> QED BY <1>4, <2>1 DEF RegisterClient, Add
<1>5. ASSUME NEW c \in Conns, CloseOne(c) PROVE FreshInv' /\ RegisteredInv'
  BY <1>5 DEF CloseOne, Closed
<1> QED BY <1>1, <1>2, <1>3, <1>4, <1>5 DEF Serve

\* and so does every step of a client's goroutine.
LEMMA StreamTracks ==
  ASSUME IInv, FreshInv, RegisteredInv, NEW s \in Streams, Stream(s)
  PROVE  FreshInv' /\ RegisteredInv'
<1> USE ConnCases DEF IInv, TypeOK, FreshInv, RegisteredInv, main, tracker, relays, Go
<1>1. CASE DialFails(s) \/ StreamChecksContext(s) \/ RelayReturns(s)
  BY <1>1 DEF DialFails, StreamChecksContext, RelayReturns
<1>2. CASE DialSucceeds(s)
  BY <1>2 DEF DialSucceeds
<1>3. CASE RegisterRemote(s)
  BY <1>3 DEF RegisterRemote, Add
<1>4. CASE \E h \in Sides : CopyEnds(s, h)
  BY <1>4 DEF CopyEnds, CopyReturns
<1>5. CASE RemoveRemote(s) \/ RemoveClient(s)
  BY <1>5 DEF RemoveRemote, RemoveClient, Remove
<1>6. CASE CloseRemote(s) \/ CloseClient(s)
  BY <1>6 DEF CloseRemote, CloseClient, Closed
<1> QED BY <1>1, <1>2, <1>3, <1>4, <1>5, <1>6 DEF Stream, Deferred

\* Both hold throughout.
LEMMA TrackedInvariant == Spec => [](FreshInv /\ RegisteredInv)
<1>1. Init => FreshInv /\ RegisteredInv
  BY ConnCases DEF Init, FreshInv, RegisteredInv
<1>2. IInv /\ FreshInv /\ RegisteredInv /\ [Next]_vars => FreshInv' /\ RegisteredInv'
  <2>1. ASSUME FreshInv, RegisteredInv, UNCHANGED <<stream, conn, items, toClose>>
        PROVE  FreshInv' /\ RegisteredInv'
    BY <2>1 DEF FreshInv, RegisteredInv
  <2> QED BY <2>1, ServeTracks, StreamTracks
             DEF Next, Cancel, PeerFinishes, WatcherCloses, WatcherStops, Terminated,
                 main, tracker, vars
<1> QED BY <1>1, <1>2, BridgeInvariant, PTL DEF Spec

\* When Serve waits for the streams after Close, no relay has an open connection left;
\* and it waits for the drain only with its context cancelled, which every dial sees.
WaitsForTheEnding ==
  /\ pc \in {"waitStreams", "waitDrained"} =>
       \A s \in Streams : stream[s] = "relay" =>
         conn[Client(s)] = "closed" /\ conn[Remote(s)] = "closed"
  /\ pc \in {"drain", "closeDrain", "waitDrained"} => ctx

\* streams.Wait never waits for a copy that could still block on an open connection, and
\* the drain never for a dial that nobody has cancelled: the snapshot of Close, what was
\* registered after it and the refusals of Add leave no such stream.
THEOREM BridgeWaitsForTheEnding == Spec => []WaitsForTheEnding
<1> DEFINE Drained == pc \in {"drain", "closeDrain", "waitDrained"} => ctx
<1>1. Init => Drained /\ ListenerInv
  BY DEF Init, ListenerInv
<1>2. IInv /\ Drained /\ ListenerInv /\ [Next]_vars => (Drained /\ ListenerInv)'
  <2> SUFFICES ASSUME IInv, Drained, ListenerInv, [Next]_vars
               PROVE  (Drained /\ ListenerInv)'
    OBVIOUS
  <2> USE DEF ListenerInv, main
  <2>1. CASE UNCHANGED <<pc, ctx, listener>>
    BY <2>1
  <2>2. CASE Cancel \/ WatcherCloses
    BY <2>2 DEF Cancel, WatcherCloses
  <2>3. CASE AcceptFails \/ DrainTimeout \/ CloseEnds \/ Return
    BY <2>3 DEF AcceptFails, DrainTimeout, CloseEnds, Return
  <2>4. ASSUME NEW s \in Streams, AcceptClient(s) \/ RegisterClient(s) \/ CheckContext(s)
        PROVE  (Drained /\ ListenerInv)'
    <3>1. pc = "add" => ~closing
      BY DEF IInv, MainInv, Before
    <3> QED BY <2>4, <3>1 DEF AcceptClient, RegisterClient, CheckContext
  <2>5. CASE \/ \E c \in Conns : CloseOne(c) \/ PeerFinishes(c)
             \/ WatcherStops \/ Terminated \/ UNCHANGED vars
    BY <2>1, <2>5 DEF CloseOne, PeerFinishes, WatcherStops, Terminated, vars
  <2>6. ASSUME NEW s \in Streams, Stream(s)
        PROVE  UNCHANGED <<pc, ctx, listener>>
    BY <2>6 DEF Stream, Deferred, DialFails, DialSucceeds, StreamChecksContext,
                RegisterRemote, CopyEnds, CopyReturns, RelayReturns, RemoveRemote, CloseRemote,
                RemoveClient, CloseClient
  <2> QED BY <2>1, <2>2, <2>3, <2>4, <2>5, <2>6 DEF Next, Serve
<1>3. ForcedCloseReachesAll /\ RegisteredInv /\ Drained => WaitsForTheEnding
  BY DEF ForcedCloseReachesAll, RegisteredInv, WaitsForTheEnding
<1> QED BY <1>1, <1>2, <1>3, BridgeInvariant, TrackedInvariant, BridgeForcedClose, PTL
           DEF Spec

\* How far a stream is from its end, by the order of its goroutine's steps.
Distance(state) ==
  CASE state = "none" -> 10 [] state = "accepted" -> 9 [] state = "dial" -> 8
    [] state = "check" -> 7 [] state = "add" -> 6 [] state = "relay" -> 5
    [] state = "rmRemote" -> 4 [] state = "closeRemote" -> 3 [] state = "rmClient" -> 2
    [] state = "closeClient" -> 1 [] OTHER -> 0

\* The steps that the goroutines of a stream can still take, at most: its own, and one
\* for each copy of the relay.
Work(s) ==
  3 * Distance(stream[s]) + (IF "client" \in halves[s] THEN 1 ELSE 0)
    + (IF "remote" \in halves[s] THEN 1 ELSE 0)

\* A closed connection stays closed: neither Accept nor a dial that succeeds late
\* revives one that the forced close has passed over.
THEOREM BridgeNeverReopens ==
  Spec => [][\A c \in Conns : conn[c] = "closed" => conn'[c] = "closed"]_vars
<1> DEFINE Stays == \A c \in Conns : conn[c] = "closed" => conn'[c] = "closed"
<1>1. IInv /\ FreshInv /\ [Next]_vars => [Stays]_vars
  <2> SUFFICES ASSUME IInv, FreshInv, Next PROVE Stays
    OBVIOUS
  <2> USE ConnCases DEF IInv, TypeOK, main, tracker, relays, Go
  <2>1. CASE UNCHANGED conn
    BY <2>1
  <2>2. ASSUME NEW s \in Streams, AcceptClient(s) PROVE Stays
    BY <2>2 DEF AcceptClient, FreshInv
  <2>3. ASSUME NEW s \in Streams, DialSucceeds(s) PROVE Stays
    BY <2>3 DEF DialSucceeds, FreshInv
  <2>4. ASSUME NEW s \in Streams, CheckContext(s) \/ CloseRemote(s) \/ CloseClient(s)
        PROVE  Stays
    BY <2>4 DEF CheckContext, CloseRemote, CloseClient, Closed
  <2>5. ASSUME NEW c \in Conns, CloseOne(c) PROVE Stays
    BY <2>5 DEF CloseOne, Closed
  <2>6. ASSUME NEW s \in Streams, RegisterClient(s) \/ RegisterRemote(s) PROVE Stays
    BY <2>6 DEF RegisterClient, RegisterRemote, Add
  <2>7. CASE \/ Cancel \/ WatcherCloses \/ WatcherStops \/ Terminated
             \/ AcceptFails \/ DrainTimeout \/ CloseEnds \/ Return
             \/ \E c \in Conns : PeerFinishes(c)
    BY <2>1, <2>7 DEF Cancel, WatcherCloses, WatcherStops, Terminated, AcceptFails,
                      DrainTimeout, CloseEnds, Return, PeerFinishes, vars
  <2>8. ASSUME NEW s \in Streams,
               \/ DialFails(s) \/ StreamChecksContext(s) \/ RelayReturns(s)
               \/ RemoveRemote(s) \/ RemoveClient(s)
               \/ \E h \in Sides : CopyEnds(s, h)
        PROVE  Stays
    BY <2>1, <2>8 DEF DialFails, StreamChecksContext, RelayReturns, RemoveRemote,
                      RemoveClient, CopyEnds
  <2> QED BY <2>2, <2>3, <2>4, <2>5, <2>6, <2>7, <2>8 DEF Next, Serve, Stream, Deferred
<1> QED BY <1>1, BridgeInvariant, TrackedInvariant, PTL DEF Spec

\* Only the relay has copies running.
HalvesInv == \A s \in Streams : stream[s] # "relay" => halves[s] = {}

\* Every step of a stream's goroutine or of one of its copies leaves it fewer steps, and
\* no step of Serve, of a peer or of another stream gives it new ones: the work for
\* streams.Wait to see done only shrinks, whatever the interleaving.
THEOREM BridgeStreamsGoForward ==
  Spec => \A s \in Streams :
            [][/\ Work(s) \in Nat /\ Work(s)' <= Work(s)
               /\ Stream(s) => Work(s)' < Work(s)]_vars
<1> SUFFICES ASSUME NEW s \in Streams
             PROVE  Spec => [][/\ Work(s) \in Nat /\ Work(s)' <= Work(s)
                               /\ Stream(s) => Work(s)' < Work(s)]_vars
  OBVIOUS
<1> DEFINE Shrinks == /\ Work(s) \in Nat /\ Work(s)' <= Work(s)
                      /\ Stream(s) => Work(s)' < Work(s)
<1> USE DEF main, tracker, relays, Go, TypeOK
<1>1. Init => HalvesInv
  BY DEF Init, HalvesInv
<1>2. ASSUME TypeOK, HalvesInv, NEW t \in Streams, Stream(t)
      PROVE  Work(t)' < Work(t) /\ HalvesInv'
  <2> USE DEF HalvesInv, Work
  <2>1. CASE DialFails(t) \/ DialSucceeds(t) \/ StreamChecksContext(t)
    BY <1>2, <2>1 DEF DialFails, DialSucceeds, StreamChecksContext, Distance
  <2>2. CASE RegisterRemote(t)
    BY <1>2, <2>2 DEF RegisterRemote, Distance
  <2>3. ASSUME NEW h \in Sides, CopyEnds(t, h) PROVE Work(t)' < Work(t) /\ HalvesInv'
    <3>1. stream' = stream /\ h \in halves[t] /\ halves' = [halves EXCEPT ![t] = @ \ {h}]
      BY <2>3 DEF CopyEnds, CopyReturns
    <3>2. Distance(stream[t]) \in Nat
      BY DEF Distance
    <3> QED BY <1>2, <3>1, <3>2 DEF Sides
  <2>4. CASE RelayReturns(t)
    BY <1>2, <2>4 DEF RelayReturns, Distance
  <2>5. CASE Deferred(t)
    BY <1>2, <2>5 DEF Deferred, RemoveRemote, CloseRemote, RemoveClient, CloseClient, Distance
  <2> QED BY <1>2, <2>1, <2>2, <2>3, <2>4, <2>5 DEF Stream
<1>3. ASSUME TypeOK, HalvesInv, Next, ~\E t \in Streams : Stream(t)
      PROVE  Work(s)' <= Work(s) /\ HalvesInv'
  <2>1. CASE UNCHANGED <<stream, halves>>
    BY <2>1, <1>3 DEF Work, HalvesInv, Distance
  <2>2. ASSUME NEW t \in Streams, AcceptClient(t) \/ CheckContext(t) \/ RegisterClient(t)
        PROVE  Work(s)' <= Work(s) /\ HalvesInv'
    BY <1>3, <2>2 DEF AcceptClient, CheckContext, RegisterClient, Work, HalvesInv, Distance
  <2>3. CASE \/ Cancel \/ WatcherCloses \/ WatcherStops \/ Terminated
             \/ AcceptFails \/ DrainTimeout \/ CloseEnds \/ Return
             \/ \E c \in Conns : PeerFinishes(c) \/ CloseOne(c)
    BY <2>1, <2>3 DEF Cancel, WatcherCloses, WatcherStops, Terminated, AcceptFails,
                      DrainTimeout, CloseEnds, Return, PeerFinishes, CloseOne, vars
  <2> QED BY <1>3, <2>2, <2>3 DEF Next, Serve
<1>4. TypeOK /\ HalvesInv /\ [Next]_vars => HalvesInv' /\ [Shrinks]_vars
  <2> SUFFICES ASSUME TypeOK, HalvesInv, [Next]_vars
               PROVE  HalvesInv' /\ [Shrinks]_vars
    OBVIOUS
  <2>1. Work(s) \in Nat
    BY DEF Work, Distance
  <2>2. CASE UNCHANGED vars
    BY <2>2 DEF vars, HalvesInv
  <2>3. ASSUME NEW t \in Streams, Stream(t) PROVE HalvesInv' /\ Shrinks
    <3>1. Work(t)' < Work(t) /\ HalvesInv'
      BY <2>3, <1>2
    <3>2. CASE t = s
      BY <2>1, <3>1, <3>2 DEF Work, Distance
    <3>3. CASE t # s
      <4>1. stream'[s] = stream[s] /\ halves'[s] = halves[s]
        BY <2>3, <3>3 DEF Stream, Deferred, DialFails, DialSucceeds, StreamChecksContext,
             RegisterRemote, CopyEnds, CopyReturns, RelayReturns, RemoveRemote, CloseRemote,
             RemoveClient, CloseClient
      <4>2. Work(s)' = Work(s)
        BY <4>1 DEF Work
      <4>3. Stream(s) => Work(s)' < Work(s)
        BY <1>2
      <4> HIDE DEF Work
      <4> QED BY <2>1, <3>1, <4>2, <4>3
    <3> QED BY <3>2, <3>3
  <2>4. CASE Next /\ ~\E t \in Streams : Stream(t)
    <3>1. ~Stream(s)
      BY <2>4
    <3> QED BY <2>1, <2>4, <3>1, <1>3
  <2> QED BY <2>2, <2>3, <2>4
<1> QED BY <1>1, <1>4, BridgeTyped, PTL DEF Spec
=============================================================================
