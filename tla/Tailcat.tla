------------------------------ MODULE Tailcat -------------------------------
(***************************************************************************)
(* The Tailcat ingress (src/link/tailcat_adapter.go): serveTailcat, which    *)
(* starts a Tailcat server, hands out the pairing, runs link.Serve and tears *)
(* everything down, and tailcatListener, the queue through which the         *)
(* server's callbacks hand their streams to link.Serve.                      *)
(*                                                                          *)
(* Threads: serveTailcat (pc), which runs Accept inside link.Serve; the      *)
(* server's callbacks; server.Start and, after a cancelled start, the        *)
(* goroutine that closes the server late; the watcher of link.Serve.  Of     *)
(* link.Serve itself, module Bridge, this module keeps what it promises: the *)
(* streams it has accepted are over when it returns.                         *)
(***************************************************************************)
EXTENDS Naturals, Sequences

CONSTANTS
  Streams,   \* the streams that may arrive
  Backlog,   \* tailcatListenerBacklog
  NoStream

ASSUME TailcatAssumption == Backlog \in Nat \ {0} /\ NoStream \notin Streams

VARIABLES
  pc,        \* where serveTailcat is
  ctx,       \* ctx is cancelled
  server,    \* "starting", "up", "failed" (by Start) or "closed"
  late,      \* the goroutine that closes a server whose start was abandoned
  paired,    \* the whole pairing line was written
  conn,      \* state of each stream: "none", "open" or "closed"
  incoming,  \* l.incoming
  closing,   \* l.closing; the channel l.closed is closed with it
  locked,    \* Close holds l.mu and is emptying the queue
  held,      \* the stream that Accept or the accept loop holds
  relaying   \* the streams link.Serve owns

listener == <<incoming, closing, locked>>
vars == <<pc, ctx, server, late, paired, conn, incoming, closing, locked, held, relaying>>

Steps == {"start", "abort", "address", "write", "accept", "wait", "took", "check", "drain",
          "flush", "closeListener", "closeServer", "returned"}

\* Every step of the ingress keeps the state well-formed; in particular the
\* queue stays within the capacity of its channel.
TypeOK ==
  /\ pc \in Steps
  /\ ctx \in BOOLEAN
  /\ server \in {"starting", "up", "failed", "closed"}
  /\ late \in BOOLEAN
  /\ paired \in BOOLEAN
  /\ conn \in [Streams -> {"none", "open", "closed"}]
  /\ incoming \in Seq(Streams) /\ Len(incoming) <= Backlog
  /\ closing \in BOOLEAN
  /\ locked \in BOOLEAN
  /\ held \in Streams \cup {NoStream}
  /\ relaying \subseteq Streams

Init ==
  /\ pc = "start"
  /\ ctx = FALSE
  /\ server = "starting"
  /\ late = FALSE
  /\ paired = FALSE
  /\ conn = [s \in Streams |-> "none"]
  /\ incoming = <<>>
  /\ closing = FALSE
  /\ locked = FALSE
  /\ held = NoStream
  /\ relaying = {}

Goto(from, to) == pc = from /\ pc' = to
Closed(s) == conn' = [conn EXCEPT ![s] = "closed"]

-----------------------------------------------------------------------------
(***************************************************************************)
(* The caller and the Tailcat library.                                      *)
(***************************************************************************)
Cancel ==
  /\ ~ctx
  /\ ctx' = TRUE
  /\ UNCHANGED <<pc, server, late, paired, conn, listener, held, relaying>>

StartReturns ==
  /\ server = "starting"
  /\ server' \in {"up", "failed"}
  /\ UNCHANGED <<pc, ctx, late, paired, conn, listener, held, relaying>>

\* Seeded fault: Handle does not look at closing.
HandleAfterClose(s) ==
  /\ conn[s] = "none" /\ ~locked
  /\ Len(incoming) < Backlog
  /\ conn' = [conn EXCEPT ![s] = "open"]
  /\ incoming' = Append(incoming, s)
  /\ UNCHANGED <<pc, ctx, server, late, paired, closing, locked, held, relaying>>

\* A callback with a new stream, under l.mu throughout.  It may have been under
\* way when the server was closed.
Handle(s) ==
  /\ conn[s] = "none" /\ ~locked
  /\ \/ /\ closing \/ Len(incoming) = Backlog
        /\ Closed(s)
        /\ UNCHANGED incoming
     \/ /\ ~closing /\ Len(incoming) < Backlog
        /\ conn' = [conn EXCEPT ![s] = "open"]
        /\ incoming' = Append(incoming, s)
  /\ UNCHANGED <<pc, ctx, server, late, paired, closing, locked, held, relaying>>

-----------------------------------------------------------------------------
(***************************************************************************)
(* tailcatListener.Close: the first caller locks, marks and empties the      *)
(* queue; any other waits for it (closeOnce).  Accept may take a stream from *)
(* the queue meanwhile, since it receives without the lock.                  *)
(***************************************************************************)
CloseBegins ==
  /\ ~closing
  /\ closing' = TRUE
  /\ locked' = TRUE

CloseOne ==
  /\ locked /\ incoming # <<>>
  /\ Closed(Head(incoming))
  /\ incoming' = Tail(incoming)
  /\ UNCHANGED <<pc, ctx, server, late, paired, closing, locked, held, relaying>>

CloseEnds ==
  /\ locked /\ incoming = <<>>
  /\ locked' = FALSE
  /\ UNCHANGED <<pc, ctx, server, late, paired, conn, incoming, closing, held, relaying>>

\* The watcher of link.Serve, which may still run when link.Serve has returned.
WatcherCloses ==
  /\ ctx /\ paired
  /\ CloseBegins
  /\ UNCHANGED <<pc, ctx, server, late, paired, conn, incoming, held, relaying>>

\* The calls in serveTailcat: after a failed start, and the deferred one.
CloseListener ==
  /\ pc \in {"abort", "closeListener"}
  /\ \/ CloseBegins /\ UNCHANGED pc
     \/ /\ closing /\ ~locked
        /\ pc' = IF pc = "abort" THEN "returned" ELSE "closeServer"
        /\ UNCHANGED <<closing, locked>>
  /\ UNCHANGED <<ctx, server, late, paired, conn, incoming, held, relaying>>

-----------------------------------------------------------------------------
(***************************************************************************)
(* startTailcatServer.                                                      *)
(***************************************************************************)
Started ==
  /\ \/ server = "up" /\ Goto("start", "address") /\ UNCHANGED server
     \/ server = "failed" /\ Goto("start", "abort") /\ server' = "closed"
  /\ UNCHANGED <<ctx, late, paired, conn, listener, held, relaying>>

\* Seeded fault: nobody is left to close a server that starts after all.
StartForgotten ==
  /\ ctx
  /\ Goto("start", "abort")
  /\ UNCHANGED <<ctx, server, late, paired, conn, listener, held, relaying>>

StartAbandoned ==
  /\ ctx
  /\ Goto("start", "abort")
  /\ late' = TRUE
  /\ UNCHANGED <<ctx, server, paired, conn, listener, held, relaying>>

LateClose ==
  /\ late /\ server \in {"up", "failed"}
  /\ late' = FALSE
  /\ server' = "closed"
  /\ UNCHANGED <<pc, ctx, paired, conn, listener, held, relaying>>

-----------------------------------------------------------------------------
(***************************************************************************)
(* serveTailcat.                                                            *)
(***************************************************************************)
CheckAddress ==
  /\ Goto("address", "write") \/ Goto("address", "closeListener")
  /\ UNCHANGED <<ctx, server, late, paired, conn, listener, held, relaying>>

WritePairing ==
  /\ \/ Goto("write", "accept") /\ paired' = TRUE
     \/ Goto("write", "closeListener") /\ UNCHANGED paired
  /\ UNCHANGED <<ctx, server, late, conn, listener, held, relaying>>

\* Accept: a first look at l.closed, then a select of both channels.
AcceptLooks ==
  /\ Goto("accept", IF closing THEN "drain" ELSE "wait")
  /\ UNCHANGED <<ctx, server, late, paired, conn, listener, held, relaying>>

\* Seeded fault: Accept notices the close only when it receives a stream.
AcceptSeesLate ==
  /\ closing /\ incoming # <<>>
  /\ Goto("wait", "drain")
  /\ UNCHANGED <<ctx, server, late, paired, conn, listener, held, relaying>>

AcceptSeesClosed ==
  /\ closing
  /\ Goto("wait", "drain")
  /\ UNCHANGED <<ctx, server, late, paired, conn, listener, held, relaying>>

AcceptTakes ==
  /\ incoming # <<>>
  /\ Goto("wait", "took")
  /\ held' = Head(incoming)
  /\ incoming' = Tail(incoming)
  /\ UNCHANGED <<ctx, server, late, paired, conn, closing, locked, relaying>>

\* Seeded fault: the stream taken while the queue was being closed is forgotten.
AcceptForgets ==
  /\ ~locked
  /\ Goto("took", IF closing THEN "drain" ELSE "check")
  /\ held' = IF closing THEN NoStream ELSE held
  /\ UNCHANGED <<ctx, server, late, paired, conn, listener, relaying>>

AcceptReturns ==
  /\ ~locked
  /\ Goto("took", IF closing THEN "drain" ELSE "check")
  /\ IF closing THEN Closed(held) /\ held' = NoStream ELSE UNCHANGED <<conn, held>>
  /\ UNCHANGED <<ctx, server, late, paired, listener, relaying>>

\* link.Serve with the stream: closed if cancelled, else owned by a relay.
ServeChecks ==
  /\ Goto("check", IF ctx THEN "drain" ELSE "accept")
  /\ IF ctx THEN Closed(held) /\ UNCHANGED relaying
            ELSE relaying' = relaying \cup {held} /\ UNCHANGED conn
  /\ held' = NoStream
  /\ UNCHANGED <<ctx, server, late, paired, listener>>

\* A relay is over, by its ends or by the drain timeout: its client is closed.
StreamEnds(s) ==
  /\ s \in relaying
  /\ relaying' = relaying \ {s}
  /\ Closed(s)
  /\ UNCHANGED <<pc, ctx, server, late, paired, listener, held>>

ServeReturns ==
  /\ relaying = {}
  /\ Goto("drain", "flush")
  /\ UNCHANGED <<ctx, server, late, paired, conn, listener, held, relaying>>

\* server.DrainTCP, which has the drain time at most.
DrainTCP ==
  /\ Goto("flush", "closeListener")
  /\ UNCHANGED <<ctx, server, late, paired, conn, listener, held, relaying>>

\* The deferred server.Close, after the deferred listener.Close.
CloseServer ==
  /\ Goto("closeServer", "returned")
  /\ server' = "closed"
  /\ UNCHANGED <<ctx, late, paired, conn, listener, held, relaying>>

Terminated == pc = "returned" /\ ~late /\ UNCHANGED vars

-----------------------------------------------------------------------------
Accept == AcceptLooks \/ AcceptSeesClosed \/ AcceptTakes \/ AcceptReturns

serveTailcat ==
  \/ Started \/ StartAbandoned \/ CheckAddress \/ WritePairing \/ Accept \/ ServeChecks
  \/ ServeReturns \/ DrainTCP \/ CloseListener \/ CloseServer

Closer == CloseOne \/ CloseEnds

Next ==
  \/ Cancel \/ StartReturns
  \/ \E s \in Streams : Handle(s) \/ StreamEnds(s)
  \/ WatcherCloses \/ Closer
  \/ serveTailcat \/ LateClose
  \/ Terminated

(***************************************************************************)
(* Fairness: every goroutine is scheduled and the write of the pairing ends. *)
(* A relay need not end by itself, but link.Serve ends it once it drains     *)
(* (ImplementsContract of module Bridge).                                    *)
(***************************************************************************)
Fairness ==
  /\ WF_vars(serveTailcat)
  /\ WF_vars(Closer)
  /\ WF_vars(WatcherCloses)
  /\ WF_vars(LateClose)
  /\ \A s \in Streams : WF_vars(pc = "drain" /\ StreamEnds(s))

Spec == Init /\ [][Next]_vars /\ Fairness

-----------------------------------------------------------------------------
(***************************************************************************)
(* Properties.                                                              *)
(***************************************************************************)

\* Every open stream is in the queue, in the hands of Accept or owned by
\* link.Serve: none is lost on the way, although Handle, Accept and Close meet at
\* the queue, only two of them hold the lock, and the queue has its bound.
EveryStreamOwned ==
  /\ Len(incoming) <= Backlog
  /\ \A s \in Streams : conn[s] = "open" =>
       s \in relaying \/ s = held \/ \E i \in 1..Len(incoming) : incoming[i] = s

\* Everything is torn down in order: the server's network stack only when no
\* relay uses it, and when serveTailcat has returned no stream is open, whichever
\* callbacks are still under way and although an abandoned server may yet come up.
TornDownInOrder ==
  /\ server = "closed" => relaying = {}
  /\ pc = "returned" => \A s \in Streams : conn[s] # "open"

\* A cancelled serveTailcat returns, whatever it is waiting for.
CancelledReturns == ctx ~> pc = "returned"

\* The server is closed in the end, also when its start was abandoned.
ServerIsClosed == pc = "returned" ~> server = "closed"
=============================================================================
