# new-delegate in TLA+

This directory holds a TLA+ model of new-delegate, the protocol gateway under `src/`: one
module per component, TLC configurations that check the modules on small instances, and
proofs of their main properties that TLAPS checks for every value of the constants.
`PROJECT.json` lists the components, the runs, the lines each definition stands for, the
hazards the properties are aimed at and the theorems.

new-delegate is a gateway written in Go. `cmd/delegate` reads a TOML configuration (or
arguments in the style of the original DeleGate), binds one listener per configured server
and serves HTTP on them: ordinary requests go to an HTTP or FTP backend, CONNECT opens a
TCP tunnel. SIGHUP reloads the configuration, SIGINT and SIGTERM drain and stop. Given two
addresses instead (`TCP-LISTEN:... TCP-CONNECT:...`) it is a transparent bridge, package `link`,
which can also end in a Tailcat network.

## Inventory

| part | source | state | operations | correct when |
|---|---|---|---|---|
| link bridge | `link/bridge.go` | the tracker (items, closing), a WaitGroup, the listener, per client the two connections and the two copies | accept, dial, register, relay, half-close, drain, forced close | nothing outlives `Serve`; nothing is cut before the drain time; a cancelled `Serve` returns |
| Tailcat ingress | `link/tailcat_adapter.go` | a bounded queue of streams, a closing flag, the server | start, abandoned start, callback, Accept, Close, drain | no stream is lost between callback, queue and bridge; the server goes last, and goes |
| Tailcat dialer, pairing | `link/tailcat_adapter.go`, `link/tailcat.go` | a client, a closed flag, a reading goroutine; one line of text | ReadPairing, Dial, Close, Encode, ParsePairing | no dial begins after Close; no goroutine is left reading; the line round-trips and has nothing behind it |
| command line | `cmd/delegate/main.go`, `cmd/delegate/address_route.go`, `endpoint/address.go` | the arguments, the exit code | choose a mode, load, serve or bridge, exit | the exit code is truthful; the file reloaded is the file loaded |
| server lifecycle | `server/lifecycle.go` | net/http's server, the shutdown budget | serve, begin drain, Shutdown, wait for sessions, force | `Serve` returns, within the budget gracefully, otherwise with everything closed |
| CONNECT sessions | `server/lifecycle.go` | items, draining, drained | add, remove, beginDrain, forceClose | drained is final; no connection is missed |
| CONNECT handler | `server/http.go` | backend and client connection | route, dial, add, hijack, add, reply, relay, deferred calls | both connections are closed at the end; 200 only for a tunnel |
| listener group | `server/group.go` | results received | run each `Serve`, cancel all after the first result, collect | no error is lost; one stop ends all |
| configuration store and reload | `config/store.go`, `config/reload.go`, `cmd/delegate/main.go` | the published configuration, a signal channel of one place | notify, read, validate, compare, publish, snapshot | what is published always fits what is bound and loaded |
| runtime preparation, connector routes | `cmd/delegate/http_runtime.go`, `connector/routes.go` | transports by TLS policy, loaded once; the listeners opened so far | load, bind, clean up, select | no request misses its transport; a failed start leaves nothing open |
| mount resolver | `mount/resolve.go` | none (winner and flag during a pass) | `ResolveFor` | the unique best mount, whatever the order |
| policy, client address | `policy/policy.go`, `clientaddr/clientaddr.go` | none | `Evaluate`, `Resolve` | fails closed; only trusted hops are believed |
| FTP connector | `connector/ftp.go` | two connections, the transfer body, the buffer of the reply reader | Fetch, List, Store, ReadReply | both connections are closed; success only if confirmed; a reply has its budget |
| HTTP frontend | `server/http.go` | none of its own | `ServeHTTP` | one snapshot per request; only what was permitted is asked; sanitised headers; size limits |
| explain | `explain/explain.go` | none | `Evaluate` | says what the frontend would do |
| SOCKS5 codec | `socks5/socks5.go` | none | read and write handshake messages | a reader takes its message and no more, however the bytes come |
| path normalisation | `mount/path.go`, `mount/mount.go` | none | `NormalizePath`, `Validate` | decoding makes no separator, dot segment or second escape |
| legacy directives | `config/legacy.go` | none | `ParseLegacyArgs` | the first PERMIT or REJECT that matches decides |
| other syntax | `config/toml.go`, `tlsconfig/` | none | parse, check | refuses what it cannot represent |
| tools | `compatibility/`, `release/`, `tools/` | files | test harness, packaging | not part of the gateway |

How they interact. `cmd/delegate` builds a `config.Store`, starts `watchReload` (a goroutine
that shares only the store with the rest), prepares the transports and calls
`server.ServeAll`, which runs one `server.Serve` per listener in a goroutine and joins them
through a channel. `server.Serve` runs net/http's server; its handlers share
`connectionSessions` with it and each take one snapshot of the store. A handler calls
`mount.ResolveFor`, `policy.Enforce` and a connector. `link.ServeTailcat` feeds the streams of
Tailcat's callbacks through a `net.Listener` of its own into `link.Serve`.

What is hard. The two registries of connections (`link`, `server`) close their snapshots
outside their locks while handlers go on registering; a hijacked connection changes owner
between net/http and the sessions; drains race dials, registrations and their own timers; a
signal arrives during a reload, and a reload during the startup; the FTP transfer body
outlives the function that opened its connections, under a context that may be cancelled at
any step; a start fails half way; readers behind buffers meet bytes cut anywhere; the resolver
and the policies decide in one pass with one winner, over lists in any
order. `PROJECT.json` lists 40 such hazards with their lines.

## Modules

| module | models | state and actions |
|---|---|---|
| `ServeContract` | what every serving function promises: serve, stop, return once; return when cancelled | `ctx`, `phase`, `result` |
| `Bridge` | `link.Serve`, `serveStream`, `relay`, `connectionTracker` | `pc` is Serve's goroutine, `stream[s]` that of client s, `halves[s]` the two copies of its relay; `items`, `closing`, `toClose` are the tracker. One action for each lock section, blocking call and deferred call |
| `Tailcat` | `serveTailcat`, `startTailcatServer`, `tailcatListener` | the queue `incoming` with `closing` and `locked` (Close holds the mutex while it empties the queue), `held` (the stream in Accept's hands), `late` (the goroutine that closes an abandoned start). Of `link.Serve` it keeps the promise that `Bridge` establishes |
| `TailcatLink` | `ReadPairing`, `TailcatDialer`; extends `Tailcat` | `left` and `reader` are ReadPairing and its goroutine, joined by the channel `results`; `dial[s]` one call of Dial (between its look at `closed` and the client's dial is a state), `once` the function of `closeOnce`. A dial that gets through is a callback of the ingress |
| `Sessions` | `connectionSessions` | `add`, `remove`, `beginDrain`, `forceClose` as action fragments |
| `Lifecycle` | `server.Serve` with `serveCONNECT`; extends `Sessions` | `pc` is Serve, `handler[r]` the CONNECT handler of request r through all its deferred calls; net/http (tracking, Shutdown, Close, the response of a handler that wrote none) is external |
| `ServeGroup` | `server.ServeAll` | each listener's `Serve` is known by `ServeContract` |
| `Process` | `runCommand`, `run`, `loadConfiguration`, `loadExplanation`, `configPathFromArgs`, `ParseRoute`, `prepareHTTPRuntime`, `serveHTTP`, `serveAddressRoute`; extends `ServeGroup` | `proc` is the process from its arguments to its exit `code`, `bound` its open sockets. Arguments are records of what the parsers look at |
| `Reload` | `config.Store`, `ReloadTOMLFileWithValidation` and its comparisons, `watchReload`, `prepareHTTPRuntime`'s transports, the snapshot of `ServeHTTP`, `connectorForMount` | a file's content is a record of what the comparisons look at |
| `Resolver` | `mount.ResolveFor`, `Config.Validate` on mounts | one action for each outcome of an iteration: `Skip`, `Take`, `Keep` |
| `Policy` | `policySource`, `clientaddr.Resolve`, `policy.Evaluate` | the parse and walk of the forwarding chain, then the loop over the rules |
| `Legacy` | `config.ParseLegacyArgs`; extends `Policy` | one action for each kind of directive the loop reads (`at` is its place), then the defaults and `Validate`; it makes the rules `Policy` evaluates |
| `Paths` | `mount.NormalizePath`; of net/url, which is external, `EscapedPath` and `Parse` as the frontend uses them | operators over sequences of characters; the segments of a path are the intervals between its separators |
| `Frontend` | `ServeHTTP` from the target of a request to its status, `explain.Evaluate`, `Mount.Validate` on syntax; extends `Resolver` and `Paths` | `stage` is ServeHTTP; ResolveFor runs inside it, on the path that `EscapedPath` makes of the client's text. Policies are the destinations and methods they permit, connectors their answers |
| `Framing` | `ReadGreeting`, `ReadRequest`, `ReadReply`, `readPairingLine`, `ParsePairing`, `writeAll` | `taken` counts the bytes a connection has handed over, `done` those consumed; a Read brings any number of bytes that fit |
| `FTP` | `FTP.operate`, `ftpTransferBody`, the FTP part of `ServeHTTP` | the dialogue as one step per reply, both connections, the `AfterFunc`s that close them on cancellation, the deferred calls |
| `MC*` | the constants of the runs | |
| `*Proofs` | theorems and proofs of the module they extend; `WireProofs` those of `Framing` and `FTP` | |

Composition. `Lifecycle` extends `Sessions`, and handler steps use its operators whole, so
that a step of the code that takes the sessions' lock is one step here. `Bridge`, `Lifecycle`
and `ServeGroup` are each shown to implement `ServeContract`; `ServeGroup` uses of its
listeners only that contract, so that the chain `serveCONNECT` - `Serve` - `ServeAll` is
covered without a product of the three state spaces. `Tailcat` uses of `link.Serve` what
`Bridge` shows: it returns once cancelled, and its streams are over by then. `TailcatLink` puts
the dialling process beside the ingress, `Process` the start and the exit around `ServeGroup`,
`Legacy` the command line before `Policy`, `Frontend` the request around `Resolver`; each keeps
the steps of the module it extends, so that its theorems hold of those steps.

What is abstracted. Bytes, names, headers and log lines; a payload is never looked at by the
code modelled here, so a copy is "still running" or "ended", and an end of stream is a set of
connections at EOF (`eof`) and half-closed (`shut`). A TOML file is its validity, its servers
and its mounts; a path is a sequence of characters over a small alphabet (a byte that is no
text, a control character, a character that net/url always escapes, written "^", and "any other
character" are one value each), and a target begins
with one value for scheme and host; an address is a value, and a source selector the set of
addresses it matches; an FTP reply is its code, except in `Framing`, where it is bytes. The half-close a copy of a CONNECT
tunnel ends with (`server/http.go:349-354`) is left out of `Lifecycle`: whether the other copy ends by
it is the peer's choice, and no property depends on it (`Bridge` models the one of `link`). In `Bridge`
only the watcher closes the listener: `Serve` returns nil for `net.ErrClosed` whoever closed it
(`link/bridge.go:50`), so "nil means cancelled" rests on its two callers, which leave the listener
alone until `Serve` has returned.
Definitions marked "Seeded fault" are plausible bugs of the definition below them. No
specification uses them: each is put in place of its neighbour once, to see that the property
it is listed with in `PROJECT.json` notices.

## Runs

Sizes are distinct states. Deadlock is checked everywhere: a finished system stutters by an
explicit `Terminated`, and the model of `Reload`, whose operator may always signal, never stops.

| run | instance | shows |
|---|---|---|
| `bridge` | 2 streams, one able to half-close, one not; the peers of one answer an end of stream (241,722) | `ReturnedClean`, `GracefulDrain`, `NoRelayAfterCancel`, `AcceptErrorReturns`, `HalfCloseEndsStream` (an EOF travels through CloseWrite and back and ends the tunnel), `ImplementsContract` (with fairness, hence: a cancelled `Serve` returns) |
| `tailcat` | 4 streams, 2 of them dialled, queue of 2, 2 callers of Close (164,696) | `EveryStreamOwned` with the queue's bound, `TornDownInOrder`, `CancelledReturns`, `ServerIsClosed`, `DialerDrains`, `ReaderEnds` |
| `lifecycle` | 2 requests (137,268) | `GracefulMeansFinished`, `ReturnedSessionsClosed`, `GracefulSessions`, `OnlyRefusedLeak`, `HandlersEnd`, `ImplementsContract` |
| `lifecycle_leak` | 1 request | violation, see Findings |
| `lifecycle_false200` | 1 request | violation, see Findings |
| `process` | 3 listeners, command lines of up to 3 arguments (21,795) | `ProcessIsAllOrNothing`, `ReloadPathAgrees`, `StopEndsProcess`, `ServeAllImplementsContract` |
| `reload` | 12 contents, 2 edits, 1 request (92,497) | `StoreCompatible`, `SnapshotServes` (a request is routed, authorised and connected by the configuration it took), `AcceptableIsPublished`, `SignalledFileIsRead` |
| `frontend` | paths of up to 5 of 7 characters, some longer ones, and 108 around a character that net/url escapes; all lists of up to 3 of 11 mounts against 8 requests (172,711) | `PathKeepsItsSegments`, `ResolvedIsUniqueBest`, `AmbiguityIsStatic`, `BackendIsAuthorised`, `ExplainAgrees` |
| `frontend_separator` | as `frontend` | violation, see Findings |
| `policy` | all lists of up to 3 of 7 rules or 5 directives, 19 requests, 2 frontends (192,347) | `SourceIsVouchedFor`, `PermittedByRules`, `FirstDirectiveDecides` |
| `ftp` | 10 reply codes (540) | `NothingLeftOpen`, `SuccessIsConfirmed`, `CancelledEnds` |
| `framing` | inputs around the limits, under every cut of the stream into Reads (9,991) | `MovesItsMessage`, `FailsForCause`, `HoldsABoundedPart` |

Why the bounds are enough. Streams and requests interact only through the registry and
Serve's own steps, so two show what one does to another (one registering while the forced
close passes over the other); the safety part is proved for any number. Four streams fill a
queue of two with one stream in Accept's hands and one relayed; fewer would never meet the
full queue. Three listeners are one that stops first, one that fails while it drains and one
that stops cleanly. Two edits give a chain of two published configurations, which is where a
comparison with the last one could drift from the first; the twelve contents differ from the
initial one in each way the comparisons tell apart. Three mounts or rules are a winner, a tie
and a later one that beats both, in every order. The reply codes are one of each kind that
some step distinguishes. Five characters are enough for an encoded separator, a half one, a dot
segment hidden in an escape and what stands before and behind it; the longer paths hide one
escape in another, and put each kind of escape before and behind a character that makes net/url
escape the text anew. Three arguments are a command, a flag and its value in every wrong order.
The limits of `Framing` (a reply of 11 bytes, a line of 9) put messages of a few bytes on both
sides of them; every cut of the stream into Reads is explored. `MaxEdits` (a guard of `Edit`)
and `MaxReplies` (how many replies are read in a row) are the only bounds on counters.

## Fairness

Weak fairness throughout, and only for steps the runtime or a deadline guarantees.

- `Bridge`: a runnable goroutine runs; the drain timer fires; Accept returns once its listener
  is closed; a dial returns once its context is cancelled; a copy ends once both of its
  connections are closed. Nothing is assumed of peers, of new clients, or of a dial nobody
  cancels, which is why `AcceptErrorReturns` excludes a pending dial. The peers of the
  streams in the constant `Answering` read, and finish when their input ends; only
  `HalfCloseEndsStream` is about them, and the other properties hold with streams outside it.
- `Lifecycle`: goroutines run, the budget's timer fires, `httpServer.Serve` returns once
  Shutdown was called, a copy ends once its source is closed. A tunnel may stay busy for ever.
- `ServeGroup`, `Process`: the process and ServeAll run; each listener, and link.Serve for a
  route, keeps `ServeContract` (it returns once cancelled). Nobody has to send a signal.
- `Reload`: the watcher goroutine runs when it can. No fairness for operator or requests.
- `Tailcat`: goroutines run, writing the pairing ends; a relay ends once the bridge drains
  (`ImplementsContract` of `Bridge`). `LinkSpec` adds that the library's Start returns in the
  end, successfully or not, that a read returns once its input is closed, and that the client's
  drain and close return. Nothing makes a dial return, or a pairing arrive.
- `FTP`: dials, replies and writes have deadlines, AfterFuncs run, a Read returns once its
  connection is closed. A server may send data for ever: only cancellation ends that.
- `Resolver`, `Policy`, `Legacy`, `Frontend` and `Framing` are loops over finite data; no liveness
  is stated.

## Proofs

All theorems hold for every value of the constants, under the ASSUMEs of the modules, which
TLC evaluates on each run. Most only type the inputs: `Reload` (contents are well-formed
records, finitely many mounts, the initial content is valid), `Resolver`, `Policy`, `Legacy` and
`Frontend` (typed lists, rules, directives and requests; the marker values differ from the
rest; a client's path is a text; userinfo is a part of absolute URLs), `Process` (the arguments are texts, none of them one of the
three values that stand for no path; the servers of the configuration are the listeners),
`Framing` (streams are sequences of bytes, limits are numbers), `FTP` (codes are between 100 and
599), `Bridge` and `TailcatLink` (what half-closes are connections, whose peers answer and which
are dialled are streams). Two say more: `ServeGroup` that there is a listener (`ServeAll` returns
an error otherwise), `Tailcat` that the queue has room for one stream (`serveTailcat` makes a
channel with room). `Lifecycle` needs none. The sets of streams, requests and listeners are any sets, of any
size.

- `BridgeProofs`. `IInv` adds to `TypeOK` where Serve is against the tracker (`MainInv`), which
  state of a stream still closes and removes each connection (`OwnerInv`), that what is
  registered while the tracker is closing is closed or in the snapshot (`ClosingInv`), and
  that before Close only the stream closes its connections (`OpenInv`). `ForcedCloseReachesAll`
  is not inductive without `ClosingInv`: streams register after the snapshot was taken, and it
  is Add's look at `closing` that keeps the set covered. Proved: the type invariant,
  `ReturnedClean`, `ForcedCloseReachesAll`, `GracefulDrain`, `NoRelayAfterCancel`, and the
  safety part of the refinement of `ServeContract`. Then what the liveness of the run rests on:
  with `RegisteredInv` (a relay's connections are in the tracker) the forced close leaves no
  relay anything to block on (`WaitsForTheEnding`), with `FreshInv` a closed connection is never
  reopened, and `Work(s)` counts down with every step of stream s and is raised by nobody.
- `LifecycleProofs`. `IInv` relates Serve's position to the sessions (`ServeInv`), says which
  handlers the registry speaks for (`OwnerInv`) and which ones net/http tracks (`TrackedInv`);
  the last two overlap between the registration of the backend and the hijack, which is why
  a shutdown that finds both empty has missed nobody (`GracefulMeansFinished`). `HandlerInv`
  and `OpenInv` are each handler's history; `ClientInv` is added for `ReturnedClientsClosed`.
  Proved: the type invariant, every invariant of the `lifecycle` run, `DrainedIsEmpty`, `ReturnedClientsClosed`,
  `NoTunnelAfterDrain`, the safety part of the refinement. `OnlyRefusedLeak` is the positive
  side of the first finding: no other path leaks. Below `HandlersEnd`: a tunnel that outlives
  Serve has lost both connections (`LeftoversAreCut`), none is reopened, and `Work(r)` bounds the
  steps of a handler.
- `ProcessProofs`. Of the group, `ResultInv` says that `result` speaks for everything received;
  proved are `NilIsClean` and the safety part of the refinement. Of the process around it, `ProcInv`
  says what is bound at each step of start, serving and exit; with `ResultInv` it gives
  `ProcessIsAllOrNothing`, and since every other step of the process leaves ServeAll alone
  (`AloneLeavesServeAll`), ServeAll keeps the contract inside it. `ReloadPathAgrees` compares two scans
  of the arguments, one in order and one by position, for command lines of any length.
- `ReloadProofs`. `SamePolicies` and `SameTopology` show that "equal sizes and one inclusion"
  and "look up by name, equal lengths" decide equality of sets, the second only for valid
  configurations, whose names are unique. From them, by induction over reloads:
  `StoreCompatible`, `ConnectorNeverMisses` and `RouteAndPolicyAgree` (together `SnapshotServes`), `AcceptableIsPublished`.
  `SignalIsKept` follows a signal from the channel through the watcher to the end of its reload; it
  is inductive as it stands, since what the watcher holds is compared with the file of now.
- `FrontendProofs`. First the resolver: the comparison is a strict weak order (`Trichotomy`, `NewWinner`,
  `TiesShareRank`); `PassInv` says that the winner is undefeated among the mounts seen and the
  flag tells whether another one ties. Two stems of one path nest (`StemsNest`), hence patterns
  of one specificity that match one path are one pattern. Proved, for lists, paths and patterns
  of any length: `ResolvedIsUniqueBest`, `WinnerIsMostSpecific`, `AmbiguityIsStatic`. Then ServeHTTP
  around it: `FrontendResolves` shows that every step of the frontend is a step or a stutter of the
  resolver, so that those results hold of every request it serves. `ConfigInv` ties request and
  target to the client's text, `StageInv` says what the checks before a stage have found out, and
  `EndedEarly` which check ended a request that reached no backend; hence `BackendIsAuthorised` and
  `ExplainAgrees`, whose `explain` calls the same checks on its own, in its own order.
- `FrontendProofs`, the paths: `PathKeepsItsSegments` for texts of any length. The provers cannot
  use the library's induction theorems, so that an induction is a least exception, which exists
  by well-foundedness (`LeastOf`, `Climbs`). Unescaping and cleaning are each a concatenation
  of what every place of the text contributes; `Counts` says where in the result a place ends up, and
  `KeepsSeparators` that a rewriting makes and loses no separator, but within a run of them. Such a
  rewriting carries segments to segments, one for one and in order (`SegmentsMap`). Unescaping is one
  if no escape stands for a separator (`NoSeparators`) and none holds one (`EscapesWhole`). The first is
  what `hasEncodedSeparator` is for: `SeparatorsFound` shows that its loop, which steps over places,
  finds the encoded separators of a text that can be decoded, all of them and nothing else. The two stages compose, and
  `NormalizeKeeps` adds that what passes has no dot segment and no escape left. Before both stands
  `EscapedPath`: escaping a decoded text and decoding it again gives that text (`RoundTrip`, from
  `UnescapeConcat`: texts of whole escapes are decoded one by one), so that NormalizePath finds in what
  net/url has escaped anew what it would find in the client's text (`ReadAlike`), and returns the same
  (`EscapedNormal`), as long as no encoded separator was uncovered on the way. `NormalizesAgain` then
  needs that cleaning leaves no two separators side by side (`CleanLeaves`) and that a second pass
  finds nothing to do (`NothingToDo`).
- `PolicyProofs`. `WalkInv`: every hop between the one looked at and the server is trusted.
  `JudgeInv`: no rule heard is preferred to the winner. Proved: `SourceIsVouchedFor`,
  `PermittedByRules`, `DecisionNamesItsRule`. `ParseInv` adds the parser of directives: the rules
  made so far are the PERMIT and REJECT directives read so far, by an increasing map of places,
  each with the priority of its place. The map is needed since other directives stand between
  them; with it the winner of the highest priority is the first directive that matches
  (`FirstDirectiveDecides`), and the promises of the evaluation hold of the rules so made
  (`LegacyAuthorises`).
- `TailcatProofs`. `IInv` adds to `EveryStreamOwned` that an owned stream is open and has one
  owner (`OwnedOnce`), that Accept holds a stream exactly between its receive and its look at what
  became of it (`HeldInv`), that the queue stays empty once Close has let go of the lock
  (`QueueInv`), and between which steps relays run and the server is closed (`ServerInv`).
  `EveryStreamOwned` is not inductive without `HeldInv` (a second receive would drop the stream in
  hand), `TornDownInOrder` not without `QueueInv` (a callback that found room after Close would
  leave a stream open). `LinkKeepsIngress`
  shows that a dial that gets through is a callback, so that all of it holds beside the dialling
  process. Proved: the type invariant, `EveryStreamOwned`, `OwnedOnce`, `TornDownInOrder`, the
  action property `DialerDrains` (from `DialerInv`) and, below `ReaderEnds` and `ServerIsClosed`,
  `ReaderSafe` and `ServerHasOneCloser`.
- `WireProofs`, the readers of bytes. `SocksInv` tells where a SOCKS5 reader is by the bytes that
  declare the lengths. `ReplyInv` says that the lines read of the current FTP reply are those of
  a multi-line reply that none of them closes; that the one to come may still close it is what
  makes failure and success exact (`CauseInv`, `RepliesInv`). `PairingInv` is what ParsePairing made of
  the line, and the lemmas before it show that Encode gives that line back. Statements about
  "the first line end" and the like are proved by the least counterexample (`LeastNat`, from
  well-foundedness), which needs no induction. Proved, for streams and limits of any size and every
  cut into Reads: `MovesItsMessage`, `FailsForCause`, `HoldsABoundedPart`.
- `WireProofs`, the FTP transfer. `Ownership` (who closes the connections at which step), `Evidence` (what must have
  happened before a success), `Kept` (what stays open until a cancellation). Proved:
  `NothingLeftOpen`, `SuccessIsConfirmed`, `BodyKeepsConnections`. Below `CancelledEnds`: an open
  connection always has its AfterFunc armed (`OpenIsCancellable`), and `Left` counts down with every
  step.

Some theorems state more than the runs do: `ForcedCloseReachesAll`, `NilIsClean`,
`ReturnedClientsClosed`, `NoTunnelAfterDrain`, `NormalizesAgain`, `WinnerIsMostSpecific`,
`DecisionNamesItsRule`, `BodyKeepsConnections`, `OwnedOnce` and `ReaderSafe` are proved and no run
repeats them; `LinkKeepsIngress`, `FrontendResolves` and `LegacyAuthorises` carry results from a
component to the module that extends it. Every invariant and every action property of the passing
runs is also a theorem.

Only model-checked: everything with `~>` and the fairness part of the refinements
(`AcceptErrorReturns`, `HalfCloseEndsStream`, `HandlersEnd`, `StopEndsProcess`,
`SignalledFileIsRead`, `CancelledReturns`, `ServerIsClosed`, `ReaderEnds`, `CancelledEnds`, and
the contracts beyond their safety part), since liveness under fairness is out of the prover's
reach. What most of them rest on is proved, for any number of streams, requests and edits: that no
step undoes another (the measures `Work` and `Left`, `BridgeNeverReopens`,
`LifecycleNeverReopens`), and that whatever is waited for
has somebody left to do it (`WaitsForTheEnding`, `LeftoversAreCut`, `SignalIsKept`, `ReaderSafe`,
`ServerHasOneCloser`, `OpenIsCancellable`). That the steps so found are enabled and taken is
what TLC adds, on the instances of the runs. There is no such theorem for `HalfCloseEndsStream`,
which depends on peers that answer, nor for `StopEndsProcess` and `CancelledReturns`.

## Findings

1. `server/http.go:305` (`lifecycle_leak`). When a drain begins between
   `sessions.add(backend)` and `sessions.add(client)`, the refused add closes the client and the
   handler returns with only `sessions.remove(backend)` deferred: nobody closes the backend.
   DESIGN.md:98-102 and README.md:183-185 promise that both sides are closed.
2. `server/http.go:296` (`lifecycle_false200`). When a drain begins between the dial and
   `sessions.add(backend)`, the handler returns without a response and net/http completes the
   CONNECT with an implicit 200. README.md:165 calls CONNECT fail-closed. The refusals before the dial
   write an error status; the only other return without one is the failed Hijack of
   `http.go:301-304`.
3. `server/http.go:114` (`frontend_separator`). `EscapedPath` returns the client's text only if it is
   a valid encoding. A text with a quote, `<`, `{`, `|`, `^`, `#` or a character that is not ASCII is
   decoded and escaped anew, and "/" is not escaped: `/a"%2Fb` becomes `/a%22/b`, NormalizePath sees
   no encoded separator, and one segment of the client is two for the mounts. CURRENT-STATE.md:123-125
   says that paths are decoded once and encoded separators fail closed. `PathKeepsItsSegments` shows
   that no other text changes its structure, and that dot segments are refused all the same.

## Where the code differs from its documents and from itself

The properties name each of these differences as an exception, or state what holds in its place.

- `config/config.go:76`. Validation looks at one mount at a time, so that two mounts with one pattern
  and one priority pass it, and the requests they both apply to are answered with 500. DESIGN.md:66 and
  COMPATIBILITY.md:46 say that validation fails. `AmbiguityIsStatic` shows that it could: every
  ambiguity is a pair of mounts to be seen in the configuration.
- `mount/path.go:35`. `/a%25` is accepted and becomes `/a%`, which NormalizePath refuses.
  `path_fuzz_test.go:14-17` fails on an accepted path that does not normalise again (no seed of the
  fuzzer has such a path), and CURRENT-STATE.md:126 says that accepted paths are tested for idempotence.
  `NormalizesAgain` shows that a decoded "%" is the only thing that makes a second pass differ.
  Nothing in the program normalises the path of a request twice.
- `explain/explain.go:90` gives an absolute URL without a path the path "/", `ServeHTTP` refuses
  its empty path with 400. `ExplainAgrees` leaves out the empty path.
- `explain --path` gives its text to NormalizePath as it is, where `ServeHTTP` takes `EscapedPath` of it
  (finding 3): for a text whose encoded separator net/url uncovers it says `unsafe_path`, and the
  frontend serves the request. `explain --url` does as the frontend does. `ExplainAgrees` leaves out
  that text of `--path`, and nothing else that net/url escapes anew.
- The test for a fragment in an absolute target (`server/http.go:108`, `explain/explain.go:87`) never
  holds: `url.ParseRequestURI` splits off no fragment, and a "#" is a character of the path.
- A rewritten target that cannot be parsed (a decoded "%" behind it) is an error for `explain`.
  `ServeHTTP` judges it as an empty destination and answers 403 or, if that is permitted, 502;
  no backend is asked either way (`BackendIsAuthorised`).
- A decoded "?" or "#" in the client's path ends the path of the rewritten target, which
  `backendResource` parses again: what follows goes into the query or is dropped. Host and
  permission do not change.
- `loadConfiguration` trims blanks from the value of `--config=`, `configPathFromArgs` does not:
  with such a value SIGHUP reads another path than the start did. `ReloadPathAgrees` has it as
  its exception.
- `validDomain` (`socks5/socks5.go:180`) refuses a "-" before a dot and takes one at the end.

## Not modelled

Certificates and transports (file and crypto I/O of the standard library), TOML syntax,
printing and logging, the test harness and the release tools. The HTTP and TCP connectors are
one call of the standard library each. Field syntax whose outcome is only "refused": CONNECT
authorities and target schemes (`mount/mount.go`), MOUNT directives and quoting
(`config/legacy.go`), hosts and ports of endpoint addresses, the texts of EPSV and PASV replies.
Header sanitising (`server/http.go:456-508`) and a wildcard that stands in the host of a target
are not modelled either.

## Plan

The order of the work was: the bridge first (the densest concurrency), then the server's lifecycle
with CONNECT, the group, reloading, the two decision procedures, FTP and the Tailcat ingress; then
the dialling end of Tailcat, the process around the group, the frontend around the resolver with
`explain` beside it, legacy directives, and the readers of bytes. Proofs followed the same order,
paths and the grounds of the liveness properties last; every safety property of the runs is
proved. What could be added, in order:

1. Measures for the ingress and for the process, as `Bridge`, `Lifecycle` and `FTP` have them.
2. Header sanitising (`server/http.go:456-508`), as sets of names.
3. Quoting and MOUNT directives of `config/legacy.go`, as readers in the manner of `Framing`.
