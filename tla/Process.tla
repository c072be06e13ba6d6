------------------------------ MODULE Process -------------------------------
(***************************************************************************)
(* One run of the delegate command, from its arguments to its exit code      *)
(* (src/cmd/delegate/): runCommand chooses between an address route and a     *)
(* configuration, run loads and checks the configuration, serveHTTP with      *)
(* prepareHTTPRuntime loads the TLS material, binds the listeners and calls   *)
(* ServeAll, which is module ServeGroup; serveAddressRoute calls link.Serve,  *)
(* which is known by ServeContract.                                           *)
(*                                                                          *)
(* An argument is a record: a word with its text t; a flag k, with its value  *)
(* t in the same argument (eq) or in the next; or an address with its keyword *)
(* t and whether what follows it is well-formed (ok).                         *)
(***************************************************************************)
EXTENDS ServeGroup, Naturals, SequencesExt

CONSTANTS
  ArgLists,   \* the command lines
  Servers     \* configured.Servers, in the order of the file

ASSUME ServersAssumption ==
  Range(Servers) = Listeners /\ Len(Servers) = Cardinality(Listeners)

\* What stands for no path; a file of such a name would be taken for it here.
NoPath == {"none", "legacy", "error"}

Arg == [k : STRING, t : STRING, eq : BOOLEAN]
         \cup [k : {"address"}, t : STRING, eq : BOOLEAN, ok : BOOLEAN]

ASSUME ArgsAssumption ==
  /\ ArgLists \subseteq Seq(Arg)
  /\ \A as \in ArgLists : \A j \in DOMAIN as : as[j].k \notin NoPath /\ as[j].t \notin NoPath

VARIABLES
  args,       \* os.Args[1:]
  proc,       \* where the process is
  loaded,     \* where the configuration came from: a path, "legacy" or "none"
  identities, \* the frontends' TLS identities are loaded
  bound,      \* the listening sockets that are open
  code        \* the exit code, 0 until there is one

process == <<args, proc, loaded, identities, bound, code>>
processVars == <<vars, process>>

-----------------------------------------------------------------------------
(***************************************************************************)
(* Arguments.                                                               *)
(***************************************************************************)
Word(t) == [k |-> "word", t |-> t, eq |-> FALSE]
Flag(k) == [k |-> k, t |-> "", eq |-> FALSE]
RequestFlags == {"--url", "--path", "--source", "--method"}
Text(a) == IF a.k = "word" THEN a.t ELSE a.k
TrimSpace(t) == CASE t = " f" -> "f" [] t = " " -> "" [] OTHER -> t
Blank(t) == TrimSpace(t) = ""

looksLikeAddressRoute ==
  args # <<>> /\ args[1].k = "address" /\ args[1].t \in {"TCP-LISTEN", "tcp-listen", "TAILCAT-LISTEN"}

ParseAddress(a, kinds) == a.k = "address" /\ a.t \in kinds /\ a.ok

ParseRoute ==
  /\ Len(args) = 2
  /\ ParseAddress(args[1], {"TCP-LISTEN", "TAILCAT-LISTEN"})
  /\ ParseAddress(args[2], {"TCP-CONNECT", "TAILCAT-CONNECT"})

\* Seeded fault: the command before the flag is not skipped.
configPathOfFirst ==
  IF args # <<>> /\ args[1].k = "--config" /\ args[1].eq THEN args[1].t
  ELSE IF Len(args) > 1 /\ args[1].k = "--config" THEN Text(args[2]) ELSE ""

\* The first --config= or --config with something after it, wherever it stands.
configPathFromArgs ==
  LET hits == {i \in 1..Len(args) : args[i].k = "--config" /\ (args[i].eq \/ i < Len(args))}
      i == CHOOSE j \in hits : \A m \in hits : j <= m
  IN  IF hits = {} THEN "" ELSE IF args[i].eq THEN args[i].t ELSE Text(args[i + 1])

\* The path of the configuration, "legacy" for one made of directives (module
\* Legacy), or "error".
loadConfiguration(as) ==
  CASE as # <<>> /\ Range(as) = {Word("directive")} -> "legacy"
    [] Len(as) = 2 /\ as[1].k = "--config" /\ ~as[1].eq /\ ~Blank(Text(as[2])) -> Text(as[2])
    [] Len(as) = 1 /\ as[1].k = "--config" /\ as[1].eq /\ ~Blank(as[1].t) -> TrimSpace(as[1].t)
    [] OTHER -> "error"

\* One argument of explain: the value the flag before it waits for, a flag, or
\* one of the configuration's arguments.  set has the request's flags that have
\* a value.
ExplainArg(acc, a) ==
  LET Given(flag, t) == IF Blank(t) THEN acc.set \ {flag} ELSE acc.set \cup {flag}
      asks  == a.k \in RequestFlags \cup {"--config"} /\ ~a.eq
      gives == a.k \in RequestFlags /\ a.eq
  IN  CASE acc.wants = "" /\ asks -> [acc EXCEPT !.wants = a.k]
        [] acc.wants = "" /\ gives -> [acc EXCEPT !.set = Given(a.k, a.t)]
        [] acc.wants = "" /\ ~asks /\ ~gives -> [acc EXCEPT !.conf = Append(@, a)]
        [] acc.wants # "" /\ Blank(Text(a)) -> [acc EXCEPT !.wants = "error"]
        [] acc.wants = "--config" /\ ~Blank(Text(a)) ->
             [acc EXCEPT !.wants = "", !.conf = @ \o <<Flag("--config"), Word(Text(a))>>]
        [] acc.wants \in RequestFlags /\ ~Blank(Text(a)) ->
             [acc EXCEPT !.wants = "", !.set = Given(acc.wants, Text(a))]
        [] OTHER -> acc

\* The configuration explain works on, or "error".
loadExplanation(as) ==
  LET r == FoldLeft(ExplainArg, [wants |-> "", set |-> {}, conf |-> <<>>], as)
      complete == /\ r.wants = ""
                  /\ ("--url" \in r.set) # ("--path" \in r.set)
                  /\ {"--source", "--method"} \subseteq r.set
  IN  IF complete THEN loadConfiguration(r.conf) ELSE "error"

Mode == IF args # <<>> /\ args[1].k = "word" /\ args[1].t \in {"check", "serve", "explain", "version"}
        THEN args[1].t ELSE "serve"
Rest == IF args # <<>> /\ args[1].k = "word" /\ args[1].t \in {"check", "serve", "explain"}
        THEN Tail(args) ELSE args

-----------------------------------------------------------------------------
ProcessInit ==
  /\ Init
  /\ args \in ArgLists
  /\ proc = "start"
  /\ loaded = "none"
  /\ identities = FALSE
  /\ bound = {}
  /\ code = 0

Exit(c) == proc' = "exit" /\ code' = c

\* version, check and explain print something and end; the configuration they
\* read may be missing or invalid, and the write may fail.
Answer ==
  /\ proc = "start" /\ ~looksLikeAddressRoute /\ Mode # "serve"
  /\ \/ Mode = "version" /\ Exit(IF Len(args) = 1 THEN 0 ELSE 2)
     \/ Mode = "check" /\ \E c \in IF loadConfiguration(Rest) = "error" THEN {2} ELSE {0, 1, 2} : Exit(c)
     \/ Mode = "explain" /\ \E c \in IF loadExplanation(Rest) = "error" THEN {2} ELSE {0, 1, 2} : Exit(c)
  /\ UNCHANGED <<vars, args, loaded, identities, bound>>

\* serve: load, validate, check that the runtime supports it; then serveHTTP,
\* which begins to watch configPathFromArgs and to catch signals.
Load ==
  /\ proc = "start" /\ ~looksLikeAddressRoute /\ Mode = "serve"
  /\ \/ Exit(2) /\ UNCHANGED loaded
     \/ /\ loadConfiguration(Rest) # "error"
        /\ loaded' = loadConfiguration(Rest)
        /\ proc' = "identities" /\ UNCHANGED code
  /\ UNCHANGED <<vars, args, identities, bound>>

\* The backends' policies, then the frontends' identities.  Directives make one
\* server, so that they go on only where Listeners has one.
LoadIdentities ==
  /\ proc = "identities"
  /\ \/ Exit(1) /\ UNCHANGED identities
     \/ /\ loaded = "legacy" => Len(Servers) = 1
        /\ identities' = TRUE /\ proc' = "bind" /\ UNCHANGED code
  /\ UNCHANGED <<vars, args, loaded, bound>>

NextServer == Servers[Cardinality(bound) + 1]

Bind ==
  /\ proc = "bind" /\ bound # Listeners
  /\ bound' = bound \cup {NextServer}
  /\ UNCHANGED <<vars, args, proc, loaded, identities, code>>

\* Seeded fault: what was opened before stays open.
BindFailsKeeping ==
  /\ proc = "bind" /\ bound # Listeners
  /\ Exit(1)
  /\ UNCHANGED <<vars, args, loaded, identities, bound>>

\* One address is taken: the listeners opened before it are closed.
BindFails ==
  /\ proc = "bind" /\ bound # Listeners
  /\ bound' = {}
  /\ Exit(1)
  /\ UNCHANGED <<vars, args, loaded, identities>>

CallServeAll ==
  /\ proc = "bind" /\ bound = Listeners
  /\ proc' = "serve"
  /\ UNCHANGED <<vars, args, loaded, identities, bound, code>>

\* A step of ServeAll or of one of its listeners, which closes its socket when it
\* returns.
Serving ==
  /\ proc = "serve"
  /\ \/ ServeAll /\ UNCHANGED process
     \/ \E l \in Listeners :
          /\ ServeReturns(l)
          /\ bound' = bound \ {l}
          /\ UNCHANGED <<args, proc, loaded, identities, code>>

\* The deferred calls stop the signals and close idle transports.
ServeAllReturned ==
  /\ proc = "serve" /\ pc = "returned"
  /\ Exit(IF result = "nil" THEN 0 ELSE 1)
  /\ UNCHANGED <<vars, args, loaded, identities, bound>>

-----------------------------------------------------------------------------
(***************************************************************************)
(* An address route: one listener, here any of Listeners.                   *)
(***************************************************************************)
StartRoute ==
  /\ proc = "start" /\ looksLikeAddressRoute
  /\ IF ParseRoute THEN proc' = "routeListen" /\ UNCHANGED code ELSE Exit(2)
  /\ UNCHANGED <<vars, args, loaded, identities, bound>>

\* Only TCP routes are supported so far.
RouteListens ==
  /\ proc = "routeListen"
  /\ \/ Exit(1) /\ UNCHANGED bound
     \/ /\ args[1].t = "TCP-LISTEN" /\ args[2].t = "TCP-CONNECT"
        /\ bound' = {Servers[1]}
        /\ proc' = "routeServe" /\ UNCHANGED code
  /\ UNCHANGED <<vars, args, loaded, identities>>

\* link.Serve returns nil when it was cancelled, else the error of Accept; then
\* the deferred close of the listener.
RouteServed ==
  /\ proc = "routeServe"
  /\ bound' = {}
  /\ \E c \in IF ctx THEN {0, 1} ELSE {1} : Exit(c)
  /\ UNCHANGED <<vars, args, loaded, identities>>

\* SIGINT or SIGTERM while they are caught.
Signal ==
  /\ proc \notin {"start", "exit"}
  /\ Cancel
  /\ UNCHANGED process

Exited == proc = "exit" /\ UNCHANGED processVars

Startup == Answer \/ Load \/ LoadIdentities \/ Bind \/ BindFails \/ CallServeAll \/ StartRoute \/ RouteListens

ProcessNext == Signal \/ Startup \/ Serving \/ ServeAllReturned \/ RouteServed \/ Exited

\* The process runs; listeners and link.Serve keep their contract.
ProcessSpec ==
  /\ ProcessInit /\ [][ProcessNext]_processVars
  /\ WF_processVars(Startup)
  /\ WF_processVars(proc = "serve" /\ ServeAll /\ UNCHANGED process)
  /\ WF_processVars(ServeAllReturned)
  /\ WF_processVars(ctx /\ RouteServed)
  /\ WF_processVars((ctx \/ cancelled) /\ Serving)

-----------------------------------------------------------------------------
(***************************************************************************)
(* Properties.                                                              *)
(***************************************************************************)

\* A process serves as a whole or not at all: it binds nothing before every
\* identity is loaded or its route is checked, a start that fails half way closes
\* what it has opened, and after serving the code 0 is kept for a stop that was
\* asked for and that every listener made cleanly.
ProcessIsAllOrNothing ==
  /\ bound # {} => identities \/ proc = "routeServe"
  /\ proc = "exit" => bound = {}
  /\ proc = "exit" /\ code = 0 /\ identities =>
       ctx /\ \A l \in Listeners : outcome[l] = "nil"

\* What SIGHUP reloads is what was loaded, found a second time by another scan of
\* the arguments: the same path but for blanks after --config=, which only the
\* first reader trims, and no path for a configuration made of directives.
ReloadPathAgrees ==
  loaded # "none" =>
    IF loaded = "legacy" THEN configPathFromArgs = ""
    ELSE \/ configPathFromArgs = loaded
         \/ Rest[1].eq /\ TrimSpace(configPathFromArgs) = loaded

\* A signal, or the first listener to stop, ends the process, whatever it is
\* doing: also a signal that comes before the listeners are bound.
StopEndsProcess == (ctx \/ \E l \in Listeners : outcome[l] # "none") ~> proc = "exit"

ServeAllContract == INSTANCE ServeContract WITH
  NilNeedsCancel <- TRUE,
  ctx <- ctx /\ (proc = "serve" \/ pc = "returned"),
  phase <- IF pc = "first" THEN "serving"
           ELSE IF pc = "returned" THEN "returned" ELSE "stopping",
  result <- IF pc = "returned" THEN result ELSE "none"

\* From its call on ServeAll implements ServeContract, also when it is called
\* with a context that is cancelled already.
ServeAllImplementsContract == ServeAllContract!Spec
=============================================================================
