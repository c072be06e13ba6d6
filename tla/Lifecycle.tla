----------------------------- MODULE Lifecycle ------------------------------
(***************************************************************************)
(* server.Serve (src/server/lifecycle.go) with the CONNECT handler          *)
(* (serveCONNECT, src/server/http.go) of the HTTP server it runs.           *)
(*                                                                          *)
(* Threads: Serve (pc), the goroutine in httpServer.Serve (httpServe), and  *)
(* one handler per request (handler[r]) with the two copies of its relay    *)
(* (halves[r]).  net/http is external: it tracks a connection from its      *)
(* acceptance until its handler is over or hijacks it; Shutdown stops the   *)
(* accepting and waits for the tracked ones; Close closes them.             *)
(***************************************************************************)
EXTENDS Sessions

VARIABLES
  pc,           \* where Serve is
  ctx,          \* the context of Serve is cancelled
  httpServe,    \* httpServer.Serve: "running", "closed" (by Shutdown), "failed", "lost"
  stopping,     \* httpServer.Shutdown has been called
  expired,      \* the shutdown budget is used up
  shutdownErr,  \* what Shutdown returned is an error
  tracked,      \* the client connections net/http tracks
  handler,      \* where the handler of each request is
  hijacked,     \* requests whose client connection was hijacked
  response,     \* what the client of each request has been told
  halves        \* the copies of a relay still running, by their source's side

serve == <<pc, expired, shutdownErr>>
http  == <<httpServe, stopping, tracked>>
work  == <<handler, hijacked, response, halves>>
vars  == <<conn, items, draining, drained, toClose, pc, ctx, httpServe, stopping,
           expired, shutdownErr, tracked, handler, hijacked, response, halves>>

ServeStates == {"select", "drain", "stop", "shutdown", "sessions", "forceDrain",
                "check", "forceError", "waitServe", "returned"}
HandlerStates == {"none", "new", "route", "dial", "addBackend", "hijack", "hijackFailed",
                  "addClient", "reply", "relay", "closeBackend", "closeClient",
                  "rmClient", "rmBackend", "finish", "done"}

\* Every step keeps the state well-formed; in particular the sessions hold
\* connections only.
TypeOK ==
  /\ SessionsTypeOK
  /\ pc \in ServeStates
  /\ ctx \in BOOLEAN
  /\ httpServe \in {"running", "closed", "failed", "lost"}
  /\ stopping \in BOOLEAN
  /\ expired \in BOOLEAN
  /\ shutdownErr \in BOOLEAN
  /\ tracked \subseteq Requests
  /\ handler \in [Requests -> HandlerStates]
  /\ hijacked \subseteq Requests
  /\ response \in [Requests -> {"none", "error", "established", "implicit200"}]
  /\ halves \in [Requests -> SUBSET Sides]

Init ==
  /\ newConnectionSessions
  /\ pc = "select"
  /\ ctx = FALSE
  /\ httpServe = "running"
  /\ stopping = FALSE
  /\ expired = FALSE
  /\ shutdownErr = FALSE
  /\ tracked = {}
  /\ handler = [r \in Requests |-> "none"]
  /\ hijacked = {}
  /\ response = [r \in Requests |-> "none"]
  /\ halves = [r \in Requests |-> {}]

-----------------------------------------------------------------------------
(***************************************************************************)
(* The caller, the clock, and net/http's accept loop.                       *)
(***************************************************************************)
Cancel ==
  /\ ~ctx
  /\ ctx' = TRUE
  /\ UNCHANGED <<conn, sessions, serve, http, work>>

BudgetExpires ==
  /\ stopping
  /\ ~expired
  /\ expired' = TRUE
  /\ UNCHANGED <<conn, sessions, pc, shutdownErr, ctx, http, work>>

\* httpServer.Serve returns: by itself with an accept error or because its
\* listener was closed ("lost", which normalizeServeError makes a nil error), or
\* with ErrServerClosed once Shutdown has closed the listener.
HttpServeReturns ==
  /\ httpServe = "running"
  /\ httpServe' \in IF stopping THEN {"closed"} ELSE {"failed", "lost"}
  /\ UNCHANGED <<conn, sessions, serve, ctx, stopping, tracked, work>>

-----------------------------------------------------------------------------
(***************************************************************************)
(* Serve.                                                                   *)
(***************************************************************************)
Goto(from, to) == pc = from /\ pc' = to

\* The first select; serveReturned is remembered by httpServe # "running".
StopsServing ==
  /\ ctx \/ httpServe # "running"
  /\ Goto("select", "drain")
  /\ UNCHANGED <<conn, sessions, expired, shutdownErr, ctx, http, work>>

BeginSessionDrain ==
  /\ Goto("drain", "stop")
  /\ beginDrain
  /\ UNCHANGED <<conn, expired, shutdownErr, ctx, http, work>>

\* The call of Shutdown; the budget runs from here.
CallShutdown ==
  /\ Goto("stop", "shutdown")
  /\ stopping' = TRUE
  /\ UNCHANGED <<conn, sessions, expired, shutdownErr, ctx, httpServe, tracked, work>>

ShutdownReturns ==
  /\ Goto("shutdown", "sessions")
  /\ \/ tracked = {} /\ shutdownErr' = FALSE
     \/ expired /\ shutdownErr' = TRUE
  /\ UNCHANGED <<conn, sessions, expired, ctx, http, work>>

SessionsDrained ==
  /\ drained
  /\ Goto("sessions", "check")
  /\ UNCHANGED <<conn, sessions, expired, shutdownErr, ctx, http, work>>

\* Seeded fault: the sessions are cut without waiting for the budget.
SessionsCutEarly ==
  /\ Goto("sessions", "forceDrain")
  /\ forceClose
  /\ UNCHANGED <<conn, expired, shutdownErr, ctx, http, work>>

\* Seeded fault: the wait for the sessions has no time limit.
SessionsNeverCut ==
  /\ drained
  /\ Goto("sessions", "forceDrain")
  /\ forceClose
  /\ UNCHANGED <<conn, expired, shutdownErr, ctx, http, work>>

SessionsTimedOut ==
  /\ expired
  /\ Goto("sessions", "forceDrain")
  /\ forceClose
  /\ UNCHANGED <<conn, expired, shutdownErr, ctx, http, work>>

\* The unlocked loop of forceClose, and its end.
ForceCloseOne(c) ==
  /\ pc \in {"forceDrain", "forceError"}
  /\ c \in toClose
  /\ toClose' = toClose \ {c}
  /\ Close(c)
  /\ UNCHANGED <<items, draining, drained, serve, ctx, http, work>>

ForceCloseEnds ==
  /\ toClose = {}
  /\ Goto("forceDrain", "check") \/ Goto("forceError", "waitServe")
  /\ UNCHANGED <<conn, sessions, expired, shutdownErr, ctx, http, work>>

\* After a failed Shutdown: httpServer.Close closes what net/http tracks, then
\* the sessions are closed by force.
CheckShutdownErr ==
  /\ \/ /\ ~shutdownErr
        /\ Goto("check", "waitServe")
        /\ UNCHANGED <<conn, sessions, tracked>>
     \/ /\ shutdownErr
        /\ Goto("check", "forceError")
        /\ conn' = [c \in Conns |-> IF c[2] = "client" /\ c[1] \in tracked
                                      THEN "closed" ELSE conn[c]]
        /\ tracked' = {}
        /\ forceClose
  /\ UNCHANGED <<expired, shutdownErr, ctx, httpServe, stopping, work>>

Return ==
  /\ httpServe # "running"
  /\ Goto("waitServe", "returned")
  /\ UNCHANGED <<conn, sessions, expired, shutdownErr, ctx, http, work>>

-----------------------------------------------------------------------------
(***************************************************************************)
(* One request.                                                             *)
(***************************************************************************)
Go(r, from, to) ==
  /\ handler[r] = from
  /\ handler' = [handler EXCEPT ![r] = to]

Answer(r, what) == response' = [response EXCEPT ![r] = what]

AcceptConnection(r) ==
  /\ httpServe = "running"
  /\ ~stopping
  /\ Go(r, "none", "new")
  /\ Open(Client(r))
  /\ tracked' = tracked \cup {r}
  /\ UNCHANGED <<sessions, serve, ctx, httpServe, stopping, hijacked, response, halves>>

\* A request read from a connection accepted before the shutdown is handled
\* even when it arrives after it; Shutdown gives up on a silent connection.
StartHandler(r) ==
  /\ conn[Client(r)] = "open"
  /\ Go(r, "new", "route")
  /\ UNCHANGED <<conn, sessions, serve, ctx, http, hijacked, response, halves>>

SilentConnectionCloses(r) ==
  /\ stopping
  /\ Go(r, "new", "done")
  /\ Close(Client(r))
  /\ tracked' = tracked \ {r}
  /\ UNCHANGED <<sessions, serve, ctx, httpServe, stopping, hijacked, response, halves>>

\* serveCONNECT up to the dial: the authority, the mount, the policy and the
\* relay target each may refuse the request with an error response, and a dial
\* started after the drain has cancelled its context fails at once.
Route(r) ==
  /\ \/ Go(r, "route", "finish") /\ Answer(r, "error")
     \/ ~draining /\ Go(r, "route", "dial") /\ UNCHANGED response
  /\ UNCHANGED <<conn, sessions, serve, ctx, http, hijacked, halves>>

DialFails(r) ==
  /\ Go(r, "dial", "finish")
  /\ Answer(r, "error")
  /\ UNCHANGED <<conn, sessions, serve, ctx, http, hijacked, halves>>

\* The drain cancels the context of a pending dial, but an answer may have come
\* first.
DialSucceeds(r) ==
  /\ Go(r, "dial", "addBackend")
  /\ Open(Backend(r))
  /\ UNCHANGED <<sessions, serve, ctx, http, hijacked, response, halves>>

\* Seeded fault: the backend is not registered before the hijack.
BackendNotAdded(r) ==
  /\ Go(r, "addBackend", "hijack")
  /\ UNCHANGED <<conn, sessions, serve, ctx, http, hijacked, response, halves>>

AddBackend(r) ==
  /\ Go(r, "addBackend", IF draining THEN "finish" ELSE "hijack")
  /\ add(Backend(r))
  /\ UNCHANGED <<serve, ctx, http, hijacked, response, halves>>

Hijack(r) ==
  /\ \/ /\ Go(r, "hijack", "addClient")
        /\ hijacked' = hijacked \cup {r}
        /\ tracked' = tracked \ {r}
     \/ /\ Go(r, "hijack", "hijackFailed")
        /\ UNCHANGED <<hijacked, tracked>>
  /\ UNCHANGED <<conn, sessions, serve, ctx, httpServe, stopping, response, halves>>

\* Seeded fault: the backend of a failed hijack is not closed.
HijackFailedKeepsBackend(r) ==
  /\ Go(r, "hijackFailed", "rmBackend")
  /\ UNCHANGED <<conn, sessions, serve, ctx, http, hijacked, response, halves>>

HijackFailed(r) ==
  /\ Go(r, "hijackFailed", "rmBackend")
  /\ Close(Backend(r))
  /\ UNCHANGED <<sessions, serve, ctx, http, hijacked, response, halves>>

\* A refused client is closed by add; only remove(backend) is deferred so far.
AddClient(r) ==
  /\ Go(r, "addClient", IF draining THEN "rmBackend" ELSE "reply")
  /\ add(Client(r))
  /\ UNCHANGED <<serve, ctx, http, hijacked, response, halves>>

Reply(r) ==
  /\ \/ /\ conn[Client(r)] = "open"
        /\ Go(r, "reply", "relay")
        /\ Answer(r, "established")
        /\ halves' = [halves EXCEPT ![r] = Sides]
     \/ /\ Go(r, "reply", "closeBackend")
        /\ UNCHANGED <<response, halves>>
  /\ UNCHANGED <<conn, sessions, serve, ctx, http, hijacked>>

\* copyRelay ends with its source's end, an error or the idle deadline.  The half-close
\* it then makes of its destination is left out: whether the other copy ends by it is
\* the peer's choice, and no property depends on it.
CopyEnds(r, side) ==
  /\ handler[r] = "relay"
  /\ side \in halves[r]
  /\ halves' = [halves EXCEPT ![r] = @ \ {side}]
  /\ UNCHANGED <<conn, sessions, serve, ctx, http, handler, hijacked, response>>

RelayReturns(r) ==
  /\ halves[r] = {}
  /\ Go(r, "relay", "closeBackend")
  /\ UNCHANGED <<conn, sessions, serve, ctx, http, hijacked, response, halves>>

CloseBackend(r) ==
  /\ Go(r, "closeBackend", "closeClient")
  /\ Close(Backend(r))
  /\ UNCHANGED <<sessions, serve, ctx, http, hijacked, response, halves>>

CloseClient(r) ==
  /\ Go(r, "closeClient", "rmClient")
  /\ Close(Client(r))
  /\ UNCHANGED <<sessions, serve, ctx, http, hijacked, response, halves>>

RemoveClient(r) ==
  /\ Go(r, "rmClient", "rmBackend")
  /\ remove(Client(r))
  /\ UNCHANGED <<conn, serve, ctx, http, hijacked, response, halves>>

RemoveBackend(r) ==
  /\ Go(r, "rmBackend", IF r \in hijacked THEN "done" ELSE "finish")
  /\ remove(Backend(r))
  /\ UNCHANGED <<conn, serve, ctx, http, hijacked, response, halves>>

\* net/http after a handler that did not hijack: a handler that wrote nothing
\* is answered for with 200.
FinishRequest(r) ==
  /\ Go(r, "finish", "done")
  /\ response' = [response EXCEPT
       ![r] = IF @ = "none" /\ conn[Client(r)] = "open" THEN "implicit200" ELSE @]
  /\ Close(Client(r))
  /\ tracked' = tracked \ {r}
  /\ UNCHANGED <<sessions, serve, ctx, httpServe, stopping, hijacked, halves>>

Terminated ==
  /\ pc = "returned"
  /\ \A r \in Requests : handler[r] \in {"none", "done"}
  /\ UNCHANGED vars

-----------------------------------------------------------------------------
Serve ==
  \/ StopsServing \/ BeginSessionDrain \/ CallShutdown \/ ShutdownReturns
  \/ SessionsDrained \/ SessionsTimedOut \/ ForceCloseEnds \/ CheckShutdownErr \/ Return
  \/ \E c \in Conns : ForceCloseOne(c)

\* The steps a handler takes by itself: a dial has a timeout of its own, and
\* the write of the reply a deadline.
HandlerRuns(r) ==
  \/ Route(r) \/ DialFails(r) \/ DialSucceeds(r) \/ AddBackend(r) \/ Hijack(r)
  \/ HijackFailed(r) \/ AddClient(r) \/ Reply(r) \/ RelayReturns(r)
  \/ CloseBackend(r) \/ CloseClient(r) \/ RemoveClient(r) \/ RemoveBackend(r)
  \/ FinishRequest(r) \/ SilentConnectionCloses(r)

Handler(r) ==
  \/ AcceptConnection(r) \/ StartHandler(r) \/ HandlerRuns(r)
  \/ \E side \in Sides : CopyEnds(r, side)

Next ==
  \/ Cancel \/ BudgetExpires \/ HttpServeReturns
  \/ Serve
  \/ \E r \in Requests : Handler(r)
  \/ Terminated

(***************************************************************************)
(* Fairness: runnable goroutines run, the budget's timer fires, Serve's     *)
(* goroutine returns once Shutdown has closed its listener, and a copy ends *)
(* once its source is closed under it (a blocked write has a deadline).     *)
(* Peers may keep a tunnel busy for ever.                                   *)
(***************************************************************************)
Fairness ==
  /\ WF_vars(BudgetExpires)
  /\ WF_vars(stopping /\ HttpServeReturns)
  /\ WF_vars(Serve)
  /\ \A r \in Requests :
       /\ WF_vars(HandlerRuns(r))
       /\ \A side \in Sides : WF_vars(conn[<<r, side>>] = "closed" /\ CopyEnds(r, side))

Spec == Init /\ [][Next]_vars /\ Fairness

-----------------------------------------------------------------------------
(***************************************************************************)
(* Properties.                                                              *)
(***************************************************************************)
Over(r) == handler[r] \in {"none", "done"}

\* The tunnel that add(client) refused after add(backend) had accepted it.
Refused(r) == draining /\ r \in hijacked /\ response[r] = "none"

\* A return within the budget means that every handler is over: between
\* net/http's tracking and the sessions no tunnel is ever unowned, because the
\* backend is registered before Hijack takes the client from net/http.
GracefulMeansFinished ==
  pc = "returned" /\ ~expired => \A r \in Requests : Over(r)

\* Once Serve has returned, a backend is still open only if its handler has yet
\* to be refused by add, or if it is a refused tunnel's: forceClose and the
\* deferred calls have closed every other one.
ReturnedSessionsClosed ==
  pc = "returned" => \A r \in Requests :
    conn[Backend(r)] = "open" => handler[r] = "addBackend" \/ (Over(r) /\ Refused(r))

\* Nor is a client open that Serve should have closed: net/http tracks none, and
\* a hijacked one has yet to be refused by add.
ReturnedClientsClosed ==
  pc = "returned" => \A r \in Requests :
    conn[Client(r)] = "open" => handler[r] = "addClient"

\* s.drained is closed only when nothing is registered, and then nothing is
\* registered any more, although handlers go on adding and removing.
DrainedIsEmpty == drained => draining /\ items = {}

\* No established tunnel loses a connection before the budget is used up.
GracefulSessions ==
  \A r \in Requests : handler[r] \in {"reply", "relay"} /\ ~expired =>
    conn[Client(r)] = "open" /\ conn[Backend(r)] = "open"

\* When a handler is over its client is closed, and so is its backend unless
\* the client was refused.
OnlyRefusedLeak ==
  \A r \in Requests : handler[r] = "done" =>
    /\ conn[Client(r)] = "closed"
    /\ conn[Backend(r)] = "open" => Refused(r)

\* A request that has no registered client when the drain begins never gets to
\* relay, wherever its handler is.
NoTunnelAfterDrain ==
  \A r \in Requests :
    [](draining /\ handler[r] \notin {"reply", "relay"} => [](handler[r] # "relay"))

Contract == INSTANCE ServeContract WITH
  NilNeedsCancel <- FALSE,
  phase <- IF pc = "select" THEN "serving"
           ELSE IF pc = "returned" THEN "returned" ELSE "stopping",
  result <- IF pc # "returned" THEN "none"
            ELSE IF shutdownErr \/ httpServe = "failed" THEN "error" ELSE "nil"

\* server.Serve implements ServeContract, what ServeAll relies on.
ImplementsContract == Contract!Spec

\* No handler outlives Serve for ever: what it still holds ends by itself.
HandlersEnd == pc = "returned" ~> \A r \in Requests : Over(r)

\* DESIGN.md:98-102, README.md:183-185: the handler owns both streams of a
\* CONNECT; whatever is not drained is closed, and both sides are closed at the
\* tunnel's end.
BothSidesClosed ==
  \A r \in Requests : handler[r] = "done" => conn[Backend(r)] # "open"

\* README.md:165: CONNECT fails closed; a client is told 200 only when its
\* tunnel is established.
NeverFalselyEstablished == \A r \in Requests : response[r] # "implicit200"
=============================================================================
