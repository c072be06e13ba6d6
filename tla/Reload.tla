------------------------------- MODULE Reload -------------------------------
(***************************************************************************)
(* Live configuration: config.Store, ReloadTOMLFileWithValidation and its   *)
(* comparisons (src/config), the signal channel and watchReload goroutine   *)
(* (src/cmd/delegate/main.go), the backend TLS policies that                *)
(* prepareHTTPRuntime loads once at startup, and the HTTP handlers that     *)
(* take one snapshot per request.                                           *)
(*                                                                          *)
(* A file's content is a record: whether it decodes and its mounts and      *)
(* rules are valid (wellFormed), whether every server speaks HTTP           *)
(* (supported), its servers as a sequence of [name, listen, identity]       *)
(* (identity stands for protocol and TLS files), and its mounts as a set of *)
(* [route, tls].                                                            *)
(***************************************************************************)
EXTENDS Naturals, Sequences, FiniteSets, Functions

CONSTANTS
  Servers,     \* the servers a configuration may name
  Contents,    \* what the operator may write into the file
  Initial,     \* the configuration the process was started with
  NoTLS,       \* mapping.TLS = nil
  Requests,    \* the requests that may arrive
  MaxEdits     \* bound on the number of edits of the file

TLSPolicies(c) == {m.tls : m \in c.mounts} \ {NoTLS}

\* Seeded fault: Config.Validate admits duplicate servers.
ValidateWithoutNames(c) == c.wellFormed /\ c.servers # <<>>

Validate(c) ==
  /\ c.wellFormed
  /\ c.servers # <<>>
  /\ \A i, j \in DOMAIN c.servers : i # j =>
       /\ c.servers[i].name # c.servers[j].name
       /\ c.servers[i].listen # c.servers[j].listen

ASSUME ContentsAssumption ==
  /\ Initial \in Contents
  /\ Validate(Initial) /\ Initial.supported
  /\ \A c \in Contents :
       /\ c.wellFormed \in BOOLEAN
       /\ c.supported \in BOOLEAN
       /\ c.servers \in Seq(Servers)
       /\ IsFiniteSet(c.mounts)
  /\ MaxEdits \in Nat

\* Seeded fault: servers are compared by position.
sameTopologyInOrder(current, candidate) == current = candidate

\* Each candidate must equal the current server of its name; listeners, keyed
\* by name, keeps the last of several.
sameListenerTopology(current, candidate) ==
  /\ Len(current) = Len(candidate)
  /\ \A j \in DOMAIN candidate : \E i \in DOMAIN current :
       /\ current[i] = candidate[j]
       /\ \A k \in DOMAIN current : current[k].name = candidate[j].name => k <= i

\* Seeded fault: the sizes of the two sets are not compared.
sameBackendTLSPoliciesOneWay(current, candidate) ==
  TLSPolicies(current) \subseteq TLSPolicies(candidate)

sameBackendTLSPolicies(current, candidate) ==
  /\ Cardinality(TLSPolicies(current)) = Cardinality(TLSPolicies(candidate))
  /\ TLSPolicies(current) \subseteq TLSPolicies(candidate)

VARIABLES
  file,       \* the content of the configuration file
  edits,      \* edits so far
  dirty,      \* the file was edited after the last signal
  pending,    \* the channel reloadEvents holds its one signal
  ctx,        \* the process was told to stop
  main,       \* serveHTTP: "prepare", "serving" or "exited"
  loaded,     \* backend TLS policies with a preloaded transport
  watcher,    \* watchReload: "idle", "read", "compare", "publish" or "exited"
  candidate,  \* the configuration being reloaded
  attempted,  \* the content the last finished reload was about
  store,      \* Store.current
  handler,    \* where the handler of each request is
  snapshot,   \* the snapshot each handler took
  route,      \* the mount each handler resolved
  decidedBy   \* the configuration whose policies authorised it

world    == <<file, edits, dirty, ctx>>
reload   == <<watcher, candidate, attempted, store>>
requests == <<handler, snapshot, route, decidedBy>>
vars     == <<file, edits, dirty, pending, ctx, main, loaded, watcher, candidate,
              attempted, store, handler, snapshot, route, decidedBy>>

Mounts == UNION {c.mounts : c \in Contents}
NoMount == [route |-> "none", tls |-> NoTLS]

\* Every step keeps the state well-formed; in particular the transports are
\* keyed by TLS policies of some configuration.
TypeOK ==
  /\ file \in Contents
  /\ edits \in 0..MaxEdits
  /\ dirty \in BOOLEAN
  /\ pending \in BOOLEAN
  /\ ctx \in BOOLEAN
  /\ main \in {"prepare", "serving", "exited"}
  /\ loaded \subseteq UNION {TLSPolicies(c) : c \in Contents}
  /\ watcher \in {"idle", "read", "compare", "publish", "exited"}
  /\ candidate \in Contents
  /\ attempted \in Contents
  /\ store \in Contents
  /\ handler \in [Requests -> {"none", "resolve", "authorise", "connect", "missed", "done"}]
  /\ snapshot \in [Requests -> Contents]
  /\ route \in [Requests -> Mounts \cup {NoMount}]
  /\ decidedBy \in [Requests -> Contents]

Init ==
  /\ file = Initial
  /\ edits = 0
  /\ dirty = FALSE
  /\ pending = FALSE
  /\ ctx = FALSE
  /\ main = "prepare"
  /\ loaded = {}
  /\ watcher = "idle"
  /\ candidate = Initial
  /\ attempted = Initial
  /\ store = Initial
  /\ handler = [r \in Requests |-> "none"]
  /\ snapshot = [r \in Requests |-> Initial]
  /\ route = [r \in Requests |-> NoMount]
  /\ decidedBy = [r \in Requests |-> Initial]

-----------------------------------------------------------------------------
(***************************************************************************)
(* The operator.  signal.Notify sends without blocking to a channel with    *)
(* room for one signal.                                                     *)
(***************************************************************************)
Edit(c) ==
  /\ edits < MaxEdits
  /\ c # file
  /\ file' = c
  /\ edits' = edits + 1
  /\ dirty' = TRUE
  /\ UNCHANGED <<pending, ctx, main, loaded, reload, requests>>

\* Seeded fault: an unbuffered channel loses the signal of a busy watcher.
NotifyUnbuffered ==
  /\ pending' = (watcher = "idle")
  /\ dirty' = FALSE
  /\ UNCHANGED <<file, edits, ctx, main, loaded, reload, requests>>

Notify ==
  /\ pending' = TRUE
  /\ dirty' = FALSE
  /\ UNCHANGED <<file, edits, ctx, main, loaded, reload, requests>>

Stop ==
  /\ ~ctx
  /\ ctx' = TRUE
  /\ UNCHANGED <<file, edits, dirty, pending, main, loaded, reload, requests>>

-----------------------------------------------------------------------------
(***************************************************************************)
(* serveHTTP: watchReload already runs when prepareHTTPRuntime loads the    *)
(* policies of the configuration the process was started with.              *)
(***************************************************************************)

prepareHTTPRuntime ==
  /\ main = "prepare"
  /\ \/ main' = "serving" /\ loaded' = TLSPolicies(Initial)
     \/ main' = "exited" /\ UNCHANGED loaded
  /\ UNCHANGED <<world, pending, reload, requests>>

\* ServeAll has returned.
ServeReturns ==
  /\ main = "serving"
  /\ ctx
  /\ main' = "exited"
  /\ UNCHANGED <<world, pending, loaded, reload, requests>>

-----------------------------------------------------------------------------
(***************************************************************************)
(* watchReload and ReloadTOMLFileWithValidation.                            *)
(***************************************************************************)
TakeEvent ==
  /\ watcher = "idle"
  /\ pending
  /\ pending' = FALSE
  /\ watcher' = "read"
  /\ UNCHANGED <<world, main, loaded, candidate, attempted, store, requests>>

WatcherExits ==
  /\ watcher = "idle"
  /\ ctx
  /\ watcher' = "exited"
  /\ UNCHANGED <<world, pending, main, loaded, candidate, attempted, store, requests>>

Continue(ok, next) ==
  \/ ok /\ watcher' = next /\ UNCHANGED attempted
  \/ ~ok /\ watcher' = "idle" /\ attempted' = candidate'

\* Open, ParseTOML with its Validate, and validateRuntimeSupport.
ReadFile ==
  /\ watcher = "read"
  /\ candidate' = file
  /\ Continue(Validate(file) /\ file.supported, "compare")
  /\ UNCHANGED <<world, pending, main, loaded, store, requests>>

Compare ==
  /\ watcher = "compare"
  /\ UNCHANGED candidate
  /\ Continue(/\ sameListenerTopology(store.servers, candidate.servers)
              /\ sameBackendTLSPolicies(store, candidate), "publish")
  /\ UNCHANGED <<world, pending, main, loaded, store, requests>>

\* Store.Replace: validate a private copy, publish it.
Replace ==
  /\ watcher = "publish"
  /\ watcher' = "idle"
  /\ attempted' = candidate
  /\ store' = IF Validate(candidate) THEN candidate ELSE store
  /\ UNCHANGED <<world, pending, main, loaded, candidate, requests>>

-----------------------------------------------------------------------------
(***************************************************************************)
(* A request: one snapshot, the resolver, the policies, the connector.      *)
(***************************************************************************)
Go(r, from, to) ==
  /\ handler[r] = from
  /\ handler' = [handler EXCEPT ![r] = to]

TakeSnapshot(r) ==
  /\ main = "serving"
  /\ Go(r, "none", "resolve")
  /\ snapshot' = [snapshot EXCEPT ![r] = store]
  /\ UNCHANGED <<world, pending, main, loaded, reload, route, decidedBy>>

Resolve(r) ==
  /\ \/ /\ Go(r, "resolve", "authorise")
        /\ \E m \in snapshot[r].mounts : route' = [route EXCEPT ![r] = m]
     \/ /\ Go(r, "resolve", "done")
        /\ UNCHANGED route
  /\ UNCHANGED <<world, pending, main, loaded, reload, snapshot, decidedBy>>

\* Seeded fault: the policies are taken from a second snapshot.
AuthoriseAnew(r) ==
  /\ \/ Go(r, "authorise", "connect")
     \/ Go(r, "authorise", "done")
  /\ decidedBy' = [decidedBy EXCEPT ![r] = store]
  /\ UNCHANGED <<world, pending, main, loaded, reload, snapshot, route>>

Authorise(r) ==
  /\ \/ Go(r, "authorise", "connect")
     \/ Go(r, "authorise", "done")
  /\ decidedBy' = [decidedBy EXCEPT ![r] = snapshot[r]]
  /\ UNCHANGED <<world, pending, main, loaded, reload, snapshot, route>>

connectorForMount(r) ==
  /\ Go(r, "connect", IF route[r].tls \in {NoTLS} \cup loaded THEN "done" ELSE "missed")
  /\ UNCHANGED <<world, pending, main, loaded, reload, snapshot, route, decidedBy>>

-----------------------------------------------------------------------------
Watcher == TakeEvent \/ ReadFile \/ Compare \/ Replace \/ WatcherExits

Handler(r) == TakeSnapshot(r) \/ Resolve(r) \/ Authorise(r) \/ connectorForMount(r)

Next ==
  \/ \E c \in Contents : Edit(c)
  \/ Notify \/ Stop
  \/ prepareHTTPRuntime \/ ServeReturns
  \/ Watcher
  \/ \E r \in Requests : Handler(r)

\* The watcher goroutine runs whenever it can.
Spec == Init /\ [][Next]_vars /\ WF_vars(Watcher)

-----------------------------------------------------------------------------
\* What may replace the running configuration: the listeners and the backend
\* TLS policies of the start, whatever was published in between.
Compatible(c) ==
  /\ Validate(c) /\ c.supported
  /\ Range(c.servers) = Range(Initial.servers)
  /\ TLSPolicies(c) = TLSPolicies(Initial)

\* The published configuration always fits the listeners that are bound and the
\* transports that were loaded, over any sequence of reloads: the comparisons
\* are made with the last published configuration, by name and by size.
StoreCompatible == Compatible(store)

\* No request ever meets a mount whose TLS policy has no preloaded transport
\* ("no preloaded backend TLS transport for selected mount"), also when it holds
\* an old snapshot, or a reload won the race against the startup.
ConnectorNeverMisses == \A r \in Requests : handler[r] # "missed"

\* The policies that authorised a request belong to the configuration that
\* routed it, although a reload may be published between the two.
RouteAndPolicyAgree ==
  \A r \in Requests : handler[r] = "connect" => route[r] \in decidedBy[r].mounts

\* A request is served by the configuration it took, whatever is published
\* meanwhile: that one routes and authorises it, and the transports loaded at the
\* start are all that one asks for.
SnapshotServes == ConnectorNeverMisses /\ RouteAndPolicyAgree

\* A finished reload has published its candidate whenever it was compatible: no
\* acceptable file is turned down because of what was published before it.
AcceptableIsPublished == Compatible(attempted) => store = attempted

\* A signal sent after the last edit is not lost, however busy the watcher is:
\* the file as it then is gets read, unless it is edited again.
SignalledFileIsRead == ~dirty ~> (dirty \/ ctx \/ attempted = file)
=============================================================================
