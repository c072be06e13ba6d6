------------------------------- MODULE Bridge -------------------------------
(***************************************************************************)
(* link.Serve (src/link/bridge.go): the accept loop that relays every local *)
(* connection to a dialled remote stream, the tracker of open connections,  *)
(* and the drain on cancellation.                                           *)
(*                                                                          *)
(* Threads: Serve itself (pc), the watcher goroutine that closes the        *)
(* listener on cancellation, one goroutine per accepted client (stream[s]), *)
(* and the two copy goroutines of its relay (halves[s]).  A step is one     *)
(* critical section, one blocking call or one close; the deferred calls of  *)
(* a stream are separate steps in the order Go runs them.                   *)
(*                                                                          *)
(* Only the watcher closes the listener.  Serve takes net.ErrClosed for a    *)
(* cancellation whoever closed it; its callers, serveAddressRoute and        *)
(* serveTailcat, leave the listener alone until Serve has returned.          *)
(***************************************************************************)
EXTENDS Naturals, FiniteSets

CONSTANTS
  Streams,       \* the client connections that may arrive
  CloseWriters,  \* the connections whose type implements CloseWrite
  Answering      \* the streams whose two peers answer the end of their input

Sides == {"client", "remote"}
Conns == Streams \X Sides
Client(s) == <<s, "client">>
Remote(s) == <<s, "remote">>

ASSUME CloseWritersAssumption == CloseWriters \subseteq Conns
ASSUME AnsweringAssumption == Answering \subseteq Streams

VARIABLES
  pc,        \* where Serve is
  err,       \* Serve is to return the error of Accept
  ctx,       \* ctx is cancelled
  listener,  \* "open" or "closed"
  watcher,   \* the goroutine that waits for ctx.Done or stopWatcher
  stream,    \* where the goroutine of each client is
  conn,      \* state of each connection: "none" (not yet there), "open", "closed"
  items,     \* connections.items
  closing,   \* connections.closing
  toClose,   \* the part of connections.Close's snapshot not yet closed
  halves,    \* the copies of a relay still running, each named by its source's side
  eof,       \* connections whose peer has finished sending
  shut       \* connections whose write side CloseWrite has closed

main    == <<pc, err, listener, watcher>>
tracker == <<items, closing, toClose>>
relays  == <<halves, eof, shut>>
vars    == <<pc, err, ctx, listener, watcher, stream, conn, items, closing, toClose,
             halves, eof, shut>>

MainStates == {"accept", "check", "add", "closeError", "waitStreams",
               "drain", "closeDrain", "waitDrained", "returned"}
StreamStates == {"none", "accepted", "dial", "check", "add", "relay", "rmRemote",
                 "closeRemote", "rmClient", "closeClient", "done"}

\* Every step keeps the state well-formed; in particular the tracker holds
\* connections only.
TypeOK ==
  /\ pc \in MainStates
  /\ err \in BOOLEAN
  /\ ctx \in BOOLEAN
  /\ listener \in {"open", "closed"}
  /\ watcher \in {"waiting", "done"}
  /\ stream \in [Streams -> StreamStates]
  /\ conn \in [Conns -> {"none", "open", "closed"}]
  /\ items \subseteq Conns
  /\ closing \in BOOLEAN
  /\ toClose \subseteq Conns
  /\ halves \in [Streams -> SUBSET Sides]
  /\ eof \subseteq Conns
  /\ shut \subseteq Conns

Init ==
  /\ pc = "accept"
  /\ err = FALSE
  /\ ctx = FALSE
  /\ listener = "open"
  /\ watcher = "waiting"
  /\ stream = [s \in Streams |-> "none"]
  /\ conn = [c \in Conns |-> "none"]
  /\ items = {}
  /\ closing = FALSE
  /\ toClose = {}
  /\ halves = [s \in Streams |-> {}]
  /\ eof = {}
  /\ shut = {}

(***************************************************************************)
(* The tracker.  Add closes the connection it refuses.  Close marks the     *)
(* tracker and copies its items under the lock; the copies are closed after *)
(* the unlock, one at a time, while streams go on.                          *)
(***************************************************************************)
Add(c) ==
  /\ IF closing
       THEN conn' = [conn EXCEPT ![c] = "closed"] /\ items' = items
       ELSE items' = items \cup {c} /\ conn' = conn
  /\ UNCHANGED <<closing, toClose>>

Remove(c) ==
  /\ items' = items \ {c}
  /\ UNCHANGED <<closing, toClose>>

BeginClose ==
  /\ closing' = TRUE
  /\ toClose' = items
  /\ UNCHANGED items

Closed(c) == conn' = [conn EXCEPT ![c] = "closed"]

-----------------------------------------------------------------------------
(***************************************************************************)
(* The environment: the caller cancels the context; a peer finishes sending *)
(* (or resets) at any time.                                                 *)
(***************************************************************************)
Cancel ==
  /\ ~ctx
  /\ ctx' = TRUE
  /\ UNCHANGED <<main, stream, conn, tracker, relays>>

PeerFinishes(c) ==
  /\ conn[c] = "open"
  /\ c \notin eof
  /\ eof' = eof \cup {c}
  /\ UNCHANGED <<main, ctx, stream, conn, tracker, halves, shut>>

(***************************************************************************)
(* The watcher.  Once Serve has returned and the context is cancelled both  *)
(* cases of its select are ready and Go picks either.                       *)
(***************************************************************************)
WatcherCloses ==
  /\ watcher = "waiting"
  /\ ctx
  /\ watcher' = "done"
  /\ listener' = "closed"
  /\ UNCHANGED <<pc, err, ctx, stream, conn, tracker, relays>>

WatcherStops ==
  /\ watcher = "waiting"
  /\ pc = "returned"
  /\ watcher' = "done"
  /\ UNCHANGED <<pc, err, listener, ctx, stream, conn, tracker, relays>>

-----------------------------------------------------------------------------
(***************************************************************************)
(* Serve: the accept loop.                                                  *)
(***************************************************************************)
AcceptClient(s) ==
  /\ pc = "accept"
  /\ listener = "open"
  /\ stream[s] = "none"
  /\ pc' = "check"
  /\ stream' = [stream EXCEPT ![s] = "accepted"]
  /\ conn' = [conn EXCEPT ![Client(s)] = "open"]
  /\ UNCHANGED <<ctx, err, listener, watcher, tracker, relays>>

\* Seeded fault: an accept error closes no stream.
AcceptErrorWaits ==
  /\ pc = "accept"
  /\ pc' = IF ctx \/ listener = "closed" THEN "drain" ELSE "closeError"
  /\ err' = (pc' = "closeError")
  /\ UNCHANGED <<ctx, listener, watcher, tracker, stream, conn, relays>>

\* Seeded fault: an accept error is taken for the end of the service.
AcceptErrorSwallowed ==
  /\ pc = "accept"
  /\ pc' = "drain"
  /\ UNCHANGED <<ctx, err, listener, watcher, tracker, stream, conn, relays>>

\* Accept fails: with net.ErrClosed once the listener is closed, and with any
\* other error at any time.  Only an error that is not the cancellation's
\* closes the active streams at once.
AcceptFails ==
  /\ pc = "accept"
  /\ \/ /\ ctx \/ listener = "closed"
        /\ pc' = "drain"
        /\ UNCHANGED <<err, tracker>>
     \/ /\ ~ctx
        /\ listener = "open"
        /\ pc' = "closeError"
        /\ err' = TRUE
        /\ BeginClose
  /\ UNCHANGED <<ctx, listener, watcher, stream, conn, relays>>

CheckContext(s) ==
  /\ pc = "check"
  /\ stream[s] = "accepted"
  /\ \/ /\ ctx
        /\ pc' = "drain"
        /\ Closed(Client(s))
        /\ stream' = [stream EXCEPT ![s] = "done"]
     \/ /\ ~ctx
        /\ pc' = "add"
        /\ UNCHANGED <<stream, conn>>
  /\ UNCHANGED <<ctx, err, listener, watcher, tracker, relays>>

\* active.Add(client), streams.Add(1) and the go statement.
RegisterClient(s) ==
  /\ pc = "add"
  /\ stream[s] = "accepted"
  /\ Add(Client(s))
  /\ pc' = IF closing THEN "drain" ELSE "accept"
  /\ stream' = [stream EXCEPT ![s] = IF closing THEN "done" ELSE "dial"]
  /\ UNCHANGED <<ctx, err, listener, watcher, relays>>

(***************************************************************************)
(* Serve: the end.  streams.Wait is over when no goroutine runs.  The drain *)
(* timer may fire at any time once the select is reached, also when the     *)
(* streams are done and the goroutine that closes drained is still late.    *)
(***************************************************************************)
StreamsDone == \A s \in Streams : stream[s] \in {"none", "done"}

DrainTimeout ==
  /\ pc = "drain"
  /\ pc' = "closeDrain"
  /\ BeginClose
  /\ UNCHANGED <<ctx, err, listener, watcher, stream, conn, relays>>

CloseOne(c) ==
  /\ pc \in {"closeError", "closeDrain"}
  /\ c \in toClose
  /\ toClose' = toClose \ {c}
  /\ Closed(c)
  /\ UNCHANGED <<main, ctx, stream, items, closing, relays>>

\* Seeded fault: Serve does not wait for the streams it has closed.
ReturnAfterClose ==
  /\ pc \in {"closeError", "closeDrain"}
  /\ toClose = {}
  /\ pc' = "returned"
  /\ UNCHANGED <<ctx, err, listener, watcher, stream, conn, tracker, relays>>

CloseEnds ==
  /\ pc \in {"closeError", "closeDrain"}
  /\ toClose = {}
  /\ pc' = IF pc = "closeError" THEN "waitStreams" ELSE "waitDrained"
  /\ UNCHANGED <<ctx, err, listener, watcher, stream, conn, tracker, relays>>

Return ==
  /\ pc \in {"drain", "waitDrained", "waitStreams"}
  /\ StreamsDone
  /\ pc' = "returned"
  /\ UNCHANGED <<ctx, err, listener, watcher, stream, conn, tracker, relays>>

-----------------------------------------------------------------------------
(***************************************************************************)
(* The goroutine of one client.                                             *)
(***************************************************************************)
Go(s, from, to) ==
  /\ stream[s] = from
  /\ stream' = [stream EXCEPT ![s] = to]

DialFails(s) ==
  /\ Go(s, "dial", "rmClient")
  /\ UNCHANGED <<main, ctx, conn, tracker, relays>>

\* A dial that is already answered succeeds even when the context is cancelled.
DialSucceeds(s) ==
  /\ Go(s, "dial", "check")
  /\ conn' = [conn EXCEPT ![Remote(s)] = "open"]
  /\ UNCHANGED <<main, ctx, tracker, relays>>

\* Seeded fault: the context is not read again after the dial.
StreamSkipsContext(s) ==
  /\ Go(s, "check", "add")
  /\ UNCHANGED <<main, ctx, conn, tracker, relays>>

StreamChecksContext(s) ==
  /\ Go(s, "check", IF ctx THEN "closeRemote" ELSE "add")
  /\ UNCHANGED <<main, ctx, conn, tracker, relays>>

RegisterRemote(s) ==
  /\ Go(s, "add", IF closing THEN "closeRemote" ELSE "relay")
  /\ Add(Remote(s))
  /\ halves' = [halves EXCEPT ![s] = IF closing THEN {} ELSE Sides]
  /\ UNCHANGED <<main, ctx, eof, shut>>

Other(side) == IF side = "client" THEN "remote" ELSE "client"

\* copyHalf with its source on side h.  io.Copy ends when the source is at its
\* end, or when a connection fails under it: closed here or left by its peer.
CopyReturns(s, h) ==
  /\ stream[s] = "relay"
  /\ h \in halves[s]
  /\ \E c \in {<<s, h>>, <<s, Other(h)>>} : c \in eof \/ conn[c] = "closed"
  /\ halves' = [halves EXCEPT ![s] = @ \ {h}]
  /\ UNCHANGED <<main, ctx, stream, tracker, eof>>

\* Seeded fault: the end of the stream is not passed on.
CopyEndsSilently(s, h) ==
  /\ CopyReturns(s, h)
  /\ UNCHANGED <<conn, shut>>

\* Seeded fault: the destination is closed in both directions.
CopyEndsWithClose(s, h) ==
  /\ CopyReturns(s, h)
  /\ Closed(<<s, Other(h)>>)
  /\ UNCHANGED shut

\* CloseWrite passes the end of the stream on to a destination that has it.
CopyEnds(s, h) ==
  /\ CopyReturns(s, h)
  /\ shut' = shut \cup ({<<s, Other(h)>>} \cap CloseWriters)
  /\ UNCHANGED conn

RelayReturns(s) ==
  /\ halves[s] = {}
  /\ Go(s, "relay", "rmRemote")
  /\ UNCHANGED <<main, ctx, conn, tracker, relays>>

RemoveRemote(s) ==
  /\ Go(s, "rmRemote", "closeRemote")
  /\ Remove(Remote(s))
  /\ UNCHANGED <<main, ctx, conn, relays>>

CloseRemote(s) ==
  /\ Go(s, "closeRemote", "rmClient")
  /\ Closed(Remote(s))
  /\ UNCHANGED <<main, ctx, tracker, relays>>

RemoveClient(s) ==
  /\ Go(s, "rmClient", "closeClient")
  /\ Remove(Client(s))
  /\ UNCHANGED <<main, ctx, conn, relays>>

\* client.Close and then streams.Done, the goroutine's last deferred calls.
CloseClient(s) ==
  /\ Go(s, "closeClient", "done")
  /\ Closed(Client(s))
  /\ UNCHANGED <<main, ctx, tracker, relays>>

Terminated ==
  /\ pc = "returned"
  /\ watcher = "done"
  /\ UNCHANGED vars

-----------------------------------------------------------------------------
Serve ==
  \/ AcceptFails \/ DrainTimeout \/ CloseEnds \/ Return
  \/ \E s \in Streams : AcceptClient(s) \/ CheckContext(s) \/ RegisterClient(s)
  \/ \E c \in Conns : CloseOne(c)

Deferred(s) == \/ RemoveRemote(s) \/ CloseRemote(s)
               \/ RemoveClient(s) \/ CloseClient(s)

Stream(s) ==
  \/ DialFails(s) \/ DialSucceeds(s) \/ StreamChecksContext(s) \/ RegisterRemote(s)
  \/ \E h \in Sides : CopyEnds(s, h)
  \/ RelayReturns(s) \/ Deferred(s)

Next ==
  \/ Cancel
  \/ \E c \in Conns : PeerFinishes(c)
  \/ WatcherCloses \/ WatcherStops
  \/ Serve
  \/ \E s \in Streams : Stream(s)
  \/ Terminated

(***************************************************************************)
(* Fairness: a runnable goroutine runs, the timer fires, Accept returns     *)
(* once its listener is closed, a dial returns once its context is          *)
(* cancelled, a copy ends once both its connections are closed.  Nothing is *)
(* assumed of new clients, of a dial nobody cancels or of peers, but for    *)
(* the streams in Answering: their peers keep reading, so that a copy whose *)
(* source is at its end gets there, and finish when their input has ended.  *)
(***************************************************************************)
ServeRuns ==
  \/ listener = "closed" /\ AcceptFails
  \/ DrainTimeout \/ CloseEnds \/ Return
  \/ \E s \in Streams : CheckContext(s) \/ RegisterClient(s)
  \/ \E c \in Conns : CloseOne(c)

StreamRuns(s) ==
  \/ ctx /\ DialFails(s)
  \/ StreamChecksContext(s) \/ RegisterRemote(s) \/ RelayReturns(s) \/ Deferred(s)
  \/ \E h \in Sides :
       /\ \/ \A c \in {Client(s), Remote(s)} : conn[c] = "closed"
          \/ s \in Answering /\ <<s, h>> \in eof
       /\ CopyEnds(s, h)
  \/ \E h \in Sides : s \in Answering /\ <<s, h>> \in shut /\ PeerFinishes(<<s, h>>)

\* One condition for all goroutines of a stream: each takes finitely many steps
\* and none disables another's, so a run that owes one a step owes it for ever.
Fairness ==
  /\ WF_vars(WatcherCloses)
  /\ WF_vars(ServeRuns)
  /\ \A s \in Streams : WF_vars(StreamRuns(s))

Spec == Init /\ [][Next]_vars /\ Fairness

-----------------------------------------------------------------------------
(***************************************************************************)
(* Properties.                                                              *)
(***************************************************************************)

\* When Serve has returned it has left nothing behind: no goroutine of a
\* stream, no registered connection, and every client it accepted and every
\* remote it dialled is closed, on the cancelled path and on the accept-error
\* path alike (streams.Wait against the tracker and the deferred closes).
ReturnedClean ==
  pc = "returned" =>
    /\ StreamsDone
    /\ items = {}
    /\ \A c \in Conns : conn[c] # "open"

\* When connections.Close has gone through its snapshot, no registered
\* connection is open, although streams registered and removed connections
\* while it ran without the lock.
ForcedCloseReachesAll ==
  pc \in {"waitStreams", "waitDrained", "returned"} =>
    \A c \in items : conn[c] = "closed"

\* Until the drain time is over (or Accept has failed) a relay keeps both its
\* connections, cancelled or not: the end of one direction closes neither.
GracefulDrain ==
  \A s \in Streams :
    stream[s] = "relay" /\ pc \in {"accept", "check", "add", "drain"} =>
      conn[Client(s)] = "open" /\ conn[Remote(s)] = "open"

\* A client whose dial has not returned when the context is cancelled is never
\* relayed, however late the dial succeeds.
NoRelayAfterCancel ==
  \A s \in Streams :
    [](ctx /\ stream[s] \in {"none", "accepted", "dial"} => [](stream[s] # "relay"))

\* An accept error ends Serve too, once no dial is pending: the error path
\* cancels no dial, it only closes the connections it has.
AcceptErrorReturns ==
  (pc = "closeError" /\ \A s \in Streams : stream[s] # "dial") ~> pc = "returned"

Contract == INSTANCE ServeContract WITH
  NilNeedsCancel <- TRUE,
  phase <- IF pc \in {"accept", "check", "add"} THEN "serving"
           ELSE IF pc = "returned" THEN "returned" ELSE "stopping",
  result <- IF pc # "returned" THEN "none" ELSE IF err THEN "error" ELSE "nil"

\* link.Serve implements ServeContract: it stops and returns once, it does so
\* when it is cancelled, and a nil result means that it was.
ImplementsContract == Contract!Spec

\* The end of a client's input goes through CloseWrite to the remote peer and
\* back, so that a tunnel between peers that answer ends by itself.
HalfCloseEndsStream ==
  \A s \in Answering :
    (stream[s] = "relay" /\ Client(s) \in eof) ~> stream[s] = "done"
=============================================================================
