--------------------------- MODULE ProcessProofs ----------------------------
(***************************************************************************)
(* Proofs about ServeGroup and about Process, which extends it, for any      *)
(* non-empty set of listeners and any command line.                          *)
(***************************************************************************)
EXTENDS Process, TLAPS

-----------------------------------------------------------------------------
(***************************************************************************)
(* ServeAll.                                                                *)
(***************************************************************************)

\* What has been received was sent, and result speaks for all of it; before the
\* first outcome nothing is received.
ResultInv ==
  /\ \A l \in received : outcome[l] # "none"
  /\ result = "nil" /\ pc # "returned" => \A l \in received : outcome[l] = "nil"
  /\ parentStopped => ctx
  /\ pc = "returned" => received = Listeners
  /\ pc = "returned" /\ result = "nil" =>
       parentStopped /\ \A l \in Listeners : outcome[l] = "nil"

IInv == TypeOK /\ ResultInv

\* Every step of ServeAll and of its listeners keeps the invariant.
LEMMA GroupStep == IInv /\ [Next]_vars => IInv'
<1> SUFFICES ASSUME IInv, [Next]_vars PROVE IInv'
  OBVIOUS
<1> USE DEF IInv, TypeOK, ResultInv
<1>1. CASE Cancel
  BY <1>1 DEF Cancel
<1>2. ASSUME NEW l \in Listeners, ServeReturns(l) PROVE IInv'
  BY <1>2 DEF ServeReturns
<1>3. ASSUME NEW l \in Listeners, ReceiveFirst(l) PROVE IInv'
  BY <1>3 DEF ReceiveFirst
<1>4. CASE ReadParent \/ CancelGroup
  <2>1. CASE ReadParent
    BY <2>1 DEF ReadParent
  <2>2. CASE CancelGroup
    BY <2>2 DEF CancelGroup
  <2> QED BY <1>4, <2>1, <2>2
<1>5. ASSUME NEW l \in Listeners, Collect(l) PROVE IInv'
  BY <1>5 DEF Collect
<1>6. CASE Return
  BY <1>6 DEF Return
<1>7. CASE Terminated \/ UNCHANGED vars
  BY <1>7 DEF Terminated, vars
<1> QED BY <1>1, <1>2, <1>3, <1>4, <1>5, <1>6, <1>7 DEF Next, ServeAll

\* The inductive invariant holds throughout.
LEMMA GroupInvariant == Init /\ [][Next]_vars => []IInv
<1>1. Init => IInv
  BY DEF Init, IInv, TypeOK, ResultInv
<1> QED BY <1>1, GroupStep, PTL

\* ServeAll's variables have their types.
THEOREM GroupTyped == Spec => []TypeOK
<1>1. IInv => TypeOK
  BY DEF IInv
<1> QED BY <1>1, GroupInvariant, PTL DEF Spec

\* ServeAll drops no error and reports a stop nobody asked for.
THEOREM GroupNilIsClean == Spec => []NilIsClean
<1>1. IInv => NilIsClean
  BY DEF IInv, ResultInv, NilIsClean
<1> QED BY <1>1, GroupInvariant, PTL DEF Spec

\* Every step of ServeAll is a step of ServeContract or leaves it unchanged.
THEOREM GroupImplementsContract == Spec => Contract!Safe
<1>1. Init => Contract!Init
  BY DEF Init, Contract!Init
<1>2. IInv /\ IInv' /\ [Next]_vars => [Contract!Next]_(Contract!vars)
  <2> SUFFICES ASSUME IInv, IInv', [Next]_vars PROVE [Contract!Next]_(Contract!vars)
    OBVIOUS
  <2> USE DEF Contract!vars, Contract!Next
  <2>1. CASE Cancel
    BY <2>1 DEF Cancel, Contract!Cancel
  <2>2. CASE \E l \in Listeners : ServeReturns(l) \/ Collect(l)
    BY <2>2 DEF ServeReturns, Collect
  <2>3. CASE \E l \in Listeners : ReceiveFirst(l)
    BY <2>3 DEF ReceiveFirst, Contract!Stop
  <2>4. CASE ReadParent \/ CancelGroup
    BY <2>4 DEF ReadParent, CancelGroup
  <2>5. CASE Return
    BY <2>5 DEF Return, Contract!Return, IInv, TypeOK, ResultInv
  <2>6. CASE Terminated \/ UNCHANGED vars
    BY <2>6 DEF Terminated, vars
  <2> QED BY <2>1, <2>2, <2>3, <2>4, <2>5, <2>6 DEF Next, ServeAll
<1> QED BY <1>1, <1>2, GroupInvariant, PTL DEF Spec, Contract!Safe

-----------------------------------------------------------------------------
(***************************************************************************)
(* The process around ServeAll.                                             *)
(***************************************************************************)

\* Where the process is tells what is open: nothing before the bind and after
\* the exit, and while it serves the sockets of the listeners that still run.
ProcInv ==
  /\ proc \in {"start", "identities", "bind", "serve", "routeListen", "routeServe", "exit"}
  /\ identities => proc \in {"bind", "serve", "exit"}
  /\ proc \in {"bind", "serve"} => identities
  /\ proc \in {"start", "identities", "routeListen", "exit"} => bound = {}
  /\ proc \notin {"serve", "exit"} => pc = "first" /\ \A l \in Listeners : outcome[l] = "none"
  /\ proc = "serve" => bound = {l \in Listeners : outcome[l] = "none"}
  /\ pc # "first" => proc \in {"serve", "exit"}
  /\ proc = "exit" /\ code = 0 /\ identities =>
       ctx /\ \A l \in Listeners : outcome[l] = "nil"

\* The steps of the process that leave ServeAll alone.
Alone == Answer \/ Load \/ LoadIdentities \/ Bind \/ BindFails \/ CallServeAll \/ StartRoute
           \/ RouteListens \/ RouteServed \/ ServeAllReturned

\* They are the start, the exit and the address routes.
LEMMA AloneLeavesServeAll == Alone => UNCHANGED vars
BY DEF Alone, Answer, Load, LoadIdentities, Bind, BindFails, CallServeAll, StartRoute,
       RouteListens, RouteServed, ServeAllReturned

\* Every step of the process is one of ServeAll, its listeners or its caller, or
\* leaves them alone.
LEMMA ProcessStep == [ProcessNext]_processVars => [Next]_vars
BY AloneLeavesServeAll
   DEF ProcessNext, Signal, Startup, Serving, Exited, processVars, Alone, Next

\* Every step of the process keeps its invariant.
LEMMA ProcStep == IInv /\ ProcInv /\ [ProcessNext]_processVars => ProcInv'
<1> SUFFICES ASSUME IInv, ProcInv, [ProcessNext]_processVars PROVE ProcInv'
  OBVIOUS
<1> USE DEF Exit
<1>1. CASE Signal
  BY <1>1 DEF Signal, Cancel, process, ProcInv
<1>2. CASE Alone
  <2>1. UNCHANGED <<pc, ctx, outcome, result>>
    BY <1>2, AloneLeavesServeAll DEF vars
  <2>2. CASE Answer
    BY <2>1, <2>2 DEF Answer, ProcInv
  <2>3. CASE Load
    BY <2>1, <2>3 DEF Load, ProcInv
  <2>4. CASE LoadIdentities
    BY <2>1, <2>4 DEF LoadIdentities, ProcInv
  <2>5. CASE Bind
    BY <2>1, <2>5 DEF Bind, ProcInv
  <2>6. CASE BindFails
    BY <2>1, <2>6 DEF BindFails, ProcInv
  <2>7. CASE CallServeAll
    BY <2>1, <2>7 DEF CallServeAll, ProcInv
  <2>8. CASE StartRoute
    BY <2>1, <2>8 DEF StartRoute, ProcInv
  <2>9. CASE RouteListens
    BY <2>1, <2>9 DEF RouteListens, ProcInv
  <2>10. CASE RouteServed
    BY <2>1, <2>10 DEF RouteServed, ProcInv
  <2>11. CASE ServeAllReturned
    <3>1. \A l \in Listeners : outcome[l] # "none"
      BY <2>11 DEF ServeAllReturned, IInv, ResultInv
    <3>2. result = "nil" => ctx /\ \A l \in Listeners : outcome[l] = "nil"
      BY <2>11 DEF ServeAllReturned, IInv, ResultInv
    <3> QED BY <2>1, <2>11, <3>1, <3>2 DEF ServeAllReturned, ProcInv
  <2> QED BY <1>2, <2>2, <2>3, <2>4, <2>5, <2>6, <2>7, <2>8, <2>9, <2>10, <2>11 DEF Alone
<1>3. CASE Serving
  <2>1. CASE ServeAll /\ UNCHANGED process
    <3>1. outcome' = outcome /\ ctx' = ctx /\ proc = "serve"
      BY <1>3, <2>1 DEF Serving, ServeAll, ReceiveFirst, Collect, ReadParent, CancelGroup, Return
    <3> QED BY <2>1, <3>1 DEF process, ProcInv
  <2>2. ASSUME NEW l \in Listeners, ServeReturns(l), bound' = bound \ {l}, proc = "serve",
               UNCHANGED <<args, proc, loaded, identities, code>>
        PROVE  ProcInv'
    <3>1. outcome'[l] # "none" /\ \A m \in Listeners : m # l => outcome'[m] = outcome[m]
      BY <2>2 DEF ServeReturns, IInv, TypeOK
    <3>2. bound' = {m \in Listeners : outcome'[m] = "none"}
      BY <2>2, <3>1 DEF ProcInv
    <3> QED BY <2>2, <3>2 DEF ServeReturns, ProcInv
  <2> QED BY <1>3, <2>1, <2>2 DEF Serving
<1>4. CASE UNCHANGED processVars
  BY <1>4 DEF processVars, vars, process, ProcInv
<1> QED BY <1>1, <1>2, <1>3, <1>4 DEF ProcessNext, Startup, Alone, Exited

\* Both invariants hold throughout a run of the command.
LEMMA ProcessInvariant == ProcessSpec => [](IInv /\ ProcInv)
<1>1. ProcessInit => IInv /\ ProcInv
  BY DEF ProcessInit, Init, IInv, TypeOK, ResultInv, ProcInv
<1>2. IInv /\ ProcInv /\ [ProcessNext]_processVars => (IInv /\ ProcInv)'
  BY ProcessStep, GroupStep, ProcStep
<1> QED BY <1>1, <1>2, PTL DEF ProcessSpec

\* For every number of listeners and every command line: no socket without the
\* identities, none left open, and an exit code that tells the truth.
THEOREM ProcessAllOrNothing == ProcessSpec => []ProcessIsAllOrNothing
<1>1. ProcInv => ProcessIsAllOrNothing
  BY DEF ProcInv, ProcessIsAllOrNothing
<1> QED BY <1>1, ProcessInvariant, PTL

\* Within the process ServeAll still takes only steps of its contract, from its
\* call on: the call itself is the cancellation if a signal came before.
THEOREM ProcessImplementsContract == ProcessSpec => ServeAllContract!Safe
<1>1. ProcessInit => ServeAllContract!Init
  BY DEF ProcessInit, Init, ServeAllContract!Init
<1>2. IInv /\ ProcInv /\ ProcInv' /\ [ProcessNext]_processVars
        => [ServeAllContract!Next]_(ServeAllContract!vars)
  <2> SUFFICES ASSUME IInv, ProcInv, ProcInv', [ProcessNext]_processVars
               PROVE  [ServeAllContract!Next]_(ServeAllContract!vars)
    OBVIOUS
  <2> USE DEF ServeAllContract!vars, ServeAllContract!Next
  <2>1. CASE Signal
    BY <2>1 DEF Signal, Cancel, process, ServeAllContract!Cancel
  <2>2. CASE Alone
    <3>1. UNCHANGED <<pc, ctx, outcome, result>>
      BY <2>2, AloneLeavesServeAll DEF vars
    <3>2. CASE CallServeAll
      BY <3>1, <3>2 DEF CallServeAll, ProcInv, IInv, TypeOK, ServeAllContract!Cancel
    <3>3. CASE ServeAllReturned
      BY <3>1, <3>3 DEF ServeAllReturned
    <3>4. CASE ~CallServeAll /\ ~ServeAllReturned
      <4>1. proc # "serve" /\ proc' # "serve"
        BY <2>2, <3>4 DEF Alone, Answer, Load, LoadIdentities, Bind, BindFails, StartRoute,
                          RouteListens, RouteServed, Exit
      <4> QED BY <3>1, <4>1
    <3> QED BY <3>2, <3>3, <3>4
  <2>3. CASE Serving
    <3>1. proc = "serve"
      BY <2>3 DEF Serving
    <3>2. CASE ServeAll /\ UNCHANGED process
      <4>1. CASE \E l \in Listeners : Collect(l)
        BY <3>2, <4>1 DEF Collect, process
      <4>2. CASE \E l \in Listeners : ReceiveFirst(l)
        BY <3>2, <4>2 DEF ReceiveFirst, process, ServeAllContract!Stop
      <4>3. CASE ReadParent \/ CancelGroup
        BY <3>2, <4>3 DEF ReadParent, CancelGroup, process
      <4>4. CASE Return
        BY <3>1, <3>2, <4>4 DEF Return, process, ServeAllContract!Return, IInv, TypeOK, ResultInv
      <4> QED BY <3>2, <4>1, <4>2, <4>3, <4>4 DEF ServeAll
    <3>3. CASE \E l \in Listeners : ServeReturns(l) /\ UNCHANGED proc
      BY <3>3 DEF ServeReturns
    <3> QED BY <2>3, <3>2, <3>3 DEF Serving
  <2>4. CASE UNCHANGED processVars
    BY <2>4 DEF processVars, vars, process
  <2> QED BY <2>1, <2>2, <2>3, <2>4 DEF ProcessNext, Startup, Alone, Exited
<1> QED BY <1>1, <1>2, ProcessInvariant, PTL DEF ProcessSpec, ServeAllContract!Safe

-----------------------------------------------------------------------------
(***************************************************************************)
(* The two scans of the arguments.                                          *)
(***************************************************************************)

\* The arguments and what is left of them behind a command.
LEMMA ArgsTyped ==
  ASSUME args \in ArgLists
  PROVE  /\ args \in Seq(Arg) /\ Len(args) \in Nat /\ DOMAIN args = 1..Len(args)
         /\ \A j \in 1..Len(args) : /\ args[j].eq \in BOOLEAN
                                   /\ args[j].k \notin NoPath /\ args[j].t \notin NoPath
         /\ \/ Rest = args
            \/ /\ Len(args) \in Nat \ {0} /\ args[1].k = "word"
               /\ Len(Rest) = Len(args) - 1
               /\ DOMAIN Rest = 1..Len(Rest)
               /\ \A j \in 1..Len(Rest) : Rest[j] = args[j + 1]
<1>1. args \in Seq(Arg)
  BY ArgsAssumption
<1>2. Len(args) \in Nat /\ DOMAIN args = 1..Len(args)
  BY <1>1
<1>3. \A j \in 1..Len(args) : args[j] \in Arg
  BY <1>1
<1>4. \A j \in 1..Len(args) : args[j].eq \in BOOLEAN
  BY <1>3 DEF Arg
<1>5. \A j \in 1..Len(args) : args[j].k \notin NoPath /\ args[j].t \notin NoPath
  BY <1>2, ArgsAssumption
<1>6. ASSUME Rest # args
      PROVE  /\ Len(args) \in Nat \ {0} /\ args[1].k = "word"
             /\ Len(Rest) = Len(args) - 1
             /\ DOMAIN Rest = 1..Len(Rest)
             /\ \A j \in 1..Len(Rest) : Rest[j] = args[j + 1]
  <2>1. args # <<>> /\ args[1].k = "word" /\ Rest = Tail(args)
    BY <1>6 DEF Rest
  <2> QED BY <1>1, <2>1
<1> QED BY <1>1, <1>2, <1>4, <1>5, <1>6

\* configPathFromArgs finds the first --config; when it stands first of what is
\* left behind the command, that is the one.
LEMMA FirstConfig ==
  ASSUME args \in ArgLists, NEW n \in 1..Len(args),
         args[n].k = "--config", args[n].eq \/ n < Len(args),
         \A j \in 1..(n - 1) : args[j].k # "--config"
  PROVE  configPathFromArgs = IF args[n].eq THEN args[n].t ELSE Text(args[n + 1])
<1> DEFINE hits == {j \in 1..Len(args) : args[j].k = "--config" /\ (args[j].eq \/ j < Len(args))}
           first == CHOOSE j \in hits : \A m \in hits : j <= m
<1>1. Len(args) \in Nat
  BY ArgsTyped
<1>2. n \in hits
  OBVIOUS
<1>3. \A m \in hits : n <= m
  BY <1>1
<1>4. first \in hits /\ \A m \in hits : first <= m
  BY <1>2, <1>3
<1>5. first = n
  BY <1>1, <1>2, <1>3, <1>4
<1>6. configPathFromArgs = IF hits = {} THEN "" ELSE IF args[first].eq THEN args[first].t
                                                 ELSE Text(args[first + 1])
  BY Zenon DEF configPathFromArgs
<1> HIDE DEF hits, first
<1>7. hits # {}
  BY <1>2
<1> QED BY <1>5, <1>6, <1>7

\* What loadConfiguration accepts, by its three cases.
LEMMA LoadedCases ==
  ASSUME NEW as, loadConfiguration(as) # "error"
  PROVE  \/ as # <<>> /\ Range(as) = {Word("directive")}
         \/ /\ Len(as) = 2 /\ as[1].k = "--config" /\ ~as[1].eq
            /\ loadConfiguration(as) = Text(as[2])
         \/ /\ Len(as) = 1 /\ as[1].k = "--config" /\ as[1].eq
            /\ loadConfiguration(as) = TrimSpace(as[1].t)
<1> DEFINE directed == as # <<>> /\ Range(as) = {Word("directive")}
           apart == Len(as) = 2 /\ as[1].k = "--config" /\ ~as[1].eq /\ ~Blank(Text(as[2]))
           inline == Len(as) = 1 /\ as[1].k = "--config" /\ as[1].eq /\ ~Blank(as[1].t)
<1>1. loadConfiguration(as) =
        CASE directed -> "legacy" [] apart -> Text(as[2]) [] inline -> TrimSpace(as[1].t)
          [] OTHER -> "error"
  BY DEF loadConfiguration
<1>2. CASE directed
  BY <1>2
<1>3. CASE ~directed /\ apart
  BY <1>1, <1>3
<1>4. CASE ~directed /\ ~apart /\ inline
  BY <1>1, <1>4
<1>5. CASE ~directed /\ ~apart /\ ~inline
  BY <1>1, <1>5
<1> QED BY <1>2, <1>3, <1>4, <1>5

\* The second scan finds what the first one loaded.
LEMMA ScansAgree ==
  ASSUME args \in ArgLists, loaded = loadConfiguration(Rest), loaded # "error"
  PROVE  ReloadPathAgrees
<1>1. /\ Len(args) \in Nat /\ DOMAIN args = 1..Len(args)
      /\ \A j \in 1..Len(args) : /\ args[j].eq \in BOOLEAN
                                /\ args[j].k \notin NoPath /\ args[j].t \notin NoPath
  BY ArgsTyped
<1>2. PICK off \in 0..1 :
        /\ Len(Rest) = Len(args) - off /\ DOMAIN Rest = 1..Len(Rest)
        /\ \A j \in 1..Len(Rest) : j + off \in 1..Len(args) /\ Rest[j] = args[j + off]
        /\ \A j \in 1..off : args[j].k = "word"
  <2>1. CASE Rest = args
    <3> WITNESS 0 \in 0..1
    <3> QED BY <1>1, <2>1
  <2>2. CASE Rest # args
    <3>1. /\ Len(args) \in Nat \ {0} /\ args[1].k = "word"
          /\ Len(Rest) = Len(args) - 1 /\ DOMAIN Rest = 1..Len(Rest)
          /\ \A j \in 1..Len(Rest) : Rest[j] = args[j + 1]
      BY <2>2, ArgsTyped
    <3> WITNESS 1 \in 0..1
    <3> QED BY <3>1
  <2> QED BY <2>1, <2>2
<1>3. CASE Rest # <<>> /\ Range(Rest) = {Word("directive")}
  <2>1. \A j \in 1..Len(Rest) : Rest[j].k = "word"
    BY <1>2, <1>3 DEF Range, Word
  <2>2. \A j \in 1..Len(args) : args[j].k = "word"
    <3> SUFFICES ASSUME NEW j \in 1..Len(args) PROVE args[j].k = "word"
      OBVIOUS
    <3>1. CASE j \in 1..off
      BY <1>2, <3>1
    <3>2. CASE j \notin 1..off
      <4>1. j - off \in 1..Len(Rest) /\ (j - off) + off = j
        BY <1>1, <1>2, <3>2
      <4> QED BY <1>2, <2>1, <4>1
    <3> QED BY <3>1, <3>2
  <2>3. configPathFromArgs = ""
    BY <2>2 DEF configPathFromArgs
  <2>4. loaded = "legacy"
    BY <1>2, <1>3, <2>1 DEF loadConfiguration
  <2> QED BY <2>3, <2>4 DEF ReloadPathAgrees
<1>4. CASE /\ Len(Rest) = 2 /\ Rest[1].k = "--config" /\ ~Rest[1].eq
           /\ loaded = Text(Rest[2])
  <2> DEFINE n == 1 + off
  <2>1. /\ n \in 1..Len(args) /\ n < Len(args) /\ args[n] = Rest[1] /\ args[n + 1] = Rest[2]
        /\ n + 1 \in 1..Len(args)
        /\ \A j \in 1..(n - 1) : args[j].k # "--config"
    <3>1. 1 \in 1..Len(Rest) /\ 2 \in 1..Len(Rest)
      BY <1>4
    <3>2. n - 1 = off /\ n + 1 = 2 + off
      OBVIOUS
    <3> QED BY <1>1, <1>2, <1>4, <3>1, <3>2
  <2>2. configPathFromArgs = Text(Rest[2])
    BY <1>4, <2>1, FirstConfig
  <2>3. loaded \notin NoPath
    BY <1>1, <1>4, <2>1 DEF Text
  <2> QED BY <1>4, <2>2, <2>3 DEF ReloadPathAgrees, NoPath
<1>5. CASE /\ Len(Rest) = 1 /\ Rest[1].k = "--config" /\ Rest[1].eq
           /\ loaded = TrimSpace(Rest[1].t)
  <2> DEFINE n == 1 + off
  <2>1. /\ n \in 1..Len(args) /\ args[n] = Rest[1]
        /\ \A j \in 1..(n - 1) : args[j].k # "--config"
    <3>1. 1 \in 1..Len(Rest)
      BY <1>5
    <3>2. n - 1 = off
      OBVIOUS
    <3> QED BY <1>1, <1>2, <1>5, <3>1, <3>2
  <2>2. configPathFromArgs = Rest[1].t
    BY <1>5, <2>1, FirstConfig
  <2>3. loaded # "legacy"
    BY <1>1, <1>5, <2>1 DEF TrimSpace, NoPath
  <2> QED BY <1>5, <2>2, <2>3 DEF ReloadPathAgrees
<1> QED BY <1>3, <1>4, <1>5, LoadedCases

\* For every command line, of any length: what SIGHUP reloads is what was loaded.
THEOREM ProcessReloadPathAgrees == ProcessSpec => []ReloadPathAgrees
<1> DEFINE Loaded == /\ args \in ArgLists
                     /\ \/ loaded = "none"
                        \/ loaded = loadConfiguration(Rest) /\ loaded # "error"
<1>1. ProcessInit => Loaded
  BY DEF ProcessInit
<1>2. Loaded /\ [ProcessNext]_processVars => Loaded'
  <2> SUFFICES ASSUME Loaded, [ProcessNext]_processVars PROVE Loaded'
    OBVIOUS
  <2>1. args' = args /\ (loaded' = loaded \/ Load)
    BY DEF ProcessNext, Signal, Startup, Serving, ServeAllReturned, RouteServed, Exited, Answer,
           Load, LoadIdentities, Bind, BindFails, CallServeAll, StartRoute, RouteListens,
           processVars, process
  <2>2. Rest' = Rest
    BY <2>1 DEF Rest
  <2>3. CASE loaded' = loaded
    BY <2>1, <2>2, <2>3 DEF loadConfiguration
  <2>4. CASE Load
    BY <2>1, <2>2, <2>4 DEF Load, loadConfiguration
  <2> QED BY <2>1, <2>3, <2>4
<1>3. Loaded => ReloadPathAgrees
  BY ScansAgree DEF ReloadPathAgrees
<1> QED BY <1>1, <1>2, <1>3, PTL DEF ProcessSpec
=============================================================================
