---------------------------- MODULE ReloadProofs ----------------------------
(***************************************************************************)
(* Proofs about Reload, for any set of file contents and any requests.      *)
(***************************************************************************)
EXTENDS Reload, FiniteSetTheorems, TLAPS

-----------------------------------------------------------------------------
(***************************************************************************)
(* What the comparisons establish.                                          *)
(***************************************************************************)

\* A file names finitely many backend TLS policies.
LEMMA PoliciesFinite ==
  ASSUME NEW c \in Contents PROVE IsFiniteSet(TLSPolicies(c))
<1> DEFINE all == {m.tls : m \in c.mounts}
           f == [m \in c.mounts |-> m.tls]
<1>1. IsFiniteSet(c.mounts)
  BY ContentsAssumption
<1>2. f \in Surjection(c.mounts, all)
  BY DEF Surjection
<1>3. IsFiniteSet(all)
  BY <1>1, <1>2, FS_Surjection
<1>4. TLSPolicies(c) \in SUBSET all
  BY DEF TLSPolicies
<1> QED BY <1>3, <1>4, FS_Subset

\* sameBackendTLSPolicies, which compares sizes and one inclusion, is equality.
LEMMA SamePolicies ==
  ASSUME NEW c \in Contents, NEW d \in Contents
  PROVE  sameBackendTLSPolicies(c, d) <=> TLSPolicies(c) = TLSPolicies(d)
<1>1. IsFiniteSet(TLSPolicies(d))
  BY PoliciesFinite
<1>2. TLSPolicies(c) \subseteq TLSPolicies(d)
        /\ Cardinality(TLSPolicies(c)) = Cardinality(TLSPolicies(d))
      => TLSPolicies(c) = TLSPolicies(d)
  BY <1>1, FS_Subset
<1> QED BY <1>2 DEF sameBackendTLSPolicies

\* A valid configuration has as many servers as its list is long.
LEMMA ServersCounted ==
  ASSUME NEW c \in Contents, Validate(c)
  PROVE  /\ IsFiniteSet(Range(c.servers))
         /\ Cardinality(Range(c.servers)) = Len(c.servers)
<1> DEFINE s == c.servers
<1>1. s \in Seq(Servers)
  BY ContentsAssumption
<1>2. DOMAIN s = 1..Len(s) /\ Len(s) \in Nat
  BY <1>1
<1>3. s \in [1..Len(s) -> Range(s)]
  BY <1>1, <1>2 DEF Range
<1>4. s \in Injection(1..Len(s), Range(s))
  BY <1>2, <1>3 DEF Validate, Injection, IsInjective
<1>5. s \in Surjection(1..Len(s), Range(s))
  BY <1>2, <1>3 DEF Surjection, Range
<1>6. IsFiniteSet(1..Len(s)) /\ Cardinality(1..Len(s)) = Len(s)
  BY <1>2, FS_Interval
<1> QED BY <1>4, <1>5, <1>6, FS_Surjection

\* sameListenerTopology, which looks servers up by name and compares lengths,
\* is equality of the sets of servers, given that both configurations are valid.
LEMMA SameTopology ==
  ASSUME NEW c \in Contents, NEW d \in Contents, Validate(c), Validate(d)
  PROVE  sameListenerTopology(c.servers, d.servers)
           <=> Range(c.servers) = Range(d.servers)
<1>1. c.servers \in Seq(Servers) /\ d.servers \in Seq(Servers)
  BY ContentsAssumption
<1>2. ASSUME sameListenerTopology(c.servers, d.servers)
      PROVE  Range(c.servers) = Range(d.servers)
  <2>1. Range(d.servers) \in SUBSET Range(c.servers)
    BY <1>2 DEF sameListenerTopology, Range
  <2>2. Cardinality(Range(c.servers)) = Cardinality(Range(d.servers))
    BY <1>2, ServersCounted DEF sameListenerTopology
  <2> QED BY <2>1, <2>2, ServersCounted, FS_Subset
<1>3. ASSUME Range(c.servers) = Range(d.servers)
      PROVE  sameListenerTopology(c.servers, d.servers)
  <2>1. Len(c.servers) = Len(d.servers)
    BY <1>3, ServersCounted
  <2>2. ASSUME NEW j \in DOMAIN d.servers
        PROVE  \E i \in DOMAIN c.servers :
                 /\ c.servers[i] = d.servers[j]
                 /\ \A k \in DOMAIN c.servers :
                      c.servers[k].name = d.servers[j].name => k <= i
    <3>1. PICK i \in DOMAIN c.servers : c.servers[i] = d.servers[j]
      BY <1>3 DEF Range
    <3>2. \A k \in DOMAIN c.servers : c.servers[k].name = d.servers[j].name => k = i
      BY <3>1 DEF Validate
    <3>3. i <= i
      BY <1>1
    <3> QED BY <3>1, <3>2, <3>3
  <2> QED BY <2>1, <2>2 DEF sameListenerTopology
<1> QED BY <1>2, <1>3

\* The two comparisons together accept exactly the compatible candidates.
LEMMA CompareIsCompatible ==
  ASSUME NEW c \in Contents, NEW d \in Contents, Compatible(c), Validate(d), d.supported
  PROVE  /\ sameListenerTopology(c.servers, d.servers)
         /\ sameBackendTLSPolicies(c, d)
         <=> Compatible(d)
<1>1. sameListenerTopology(c.servers, d.servers) <=> Range(c.servers) = Range(d.servers)
  BY SameTopology DEF Compatible
<1>2. sameBackendTLSPolicies(c, d) <=> TLSPolicies(c) = TLSPolicies(d)
  BY SamePolicies
<1> QED BY <1>1, <1>2 DEF Compatible

-----------------------------------------------------------------------------
(***************************************************************************)
(* The inductive invariant.                                                 *)
(***************************************************************************)

\* What the watcher holds has passed the checks it has gone through.
CandidateInv ==
  /\ watcher \in {"compare", "publish"} => Validate(candidate) /\ candidate.supported
  /\ watcher = "publish" => Compatible(candidate)

\* Requests run only after the policies of the start were loaded, on a snapshot
\* that was published, with a route of that snapshot.
RequestInv ==
  /\ main = "serving" => loaded = TLSPolicies(Initial)
  /\ \A r \in Requests :
       /\ handler[r] # "none" =>
            loaded = TLSPolicies(Initial) /\ Compatible(snapshot[r])
       /\ handler[r] \in {"authorise", "connect"} => route[r] \in snapshot[r].mounts
       /\ handler[r] = "connect" => decidedBy[r] = snapshot[r]

Parts ==
  /\ StoreCompatible /\ CandidateInv /\ RequestInv /\ AcceptableIsPublished
  /\ ConnectorNeverMisses

IInv == TypeOK /\ Parts

\* Every step keeps the types.
LEMMA TypeStep == TypeOK /\ [Next]_vars => TypeOK'
<1> SUFFICES ASSUME TypeOK, [Next]_vars PROVE TypeOK'
  OBVIOUS
<1> USE ContentsAssumption DEF TypeOK, world, reload, requests
<1>1. ASSUME NEW c \in Contents, Edit(c) PROVE TypeOK'
  BY <1>1 DEF Edit
<1>2. CASE Notify \/ Stop
  BY <1>2 DEF Notify, Stop
<1>3. CASE prepareHTTPRuntime \/ ServeReturns
  BY <1>3 DEF prepareHTTPRuntime, ServeReturns
<1>4. CASE Watcher
  <2>1. CASE TakeEvent \/ WatcherExits
    BY <2>1 DEF TakeEvent, WatcherExits
  <2>2. CASE ReadFile
    BY <2>2 DEF ReadFile, Continue
  <2>3. CASE Compare
    BY <2>3 DEF Compare, Continue
  <2>4. CASE Replace
    BY <2>4 DEF Replace
  <2> QED BY <1>4, <2>1, <2>2, <2>3, <2>4 DEF Watcher
<1>5. ASSUME NEW r \in Requests, Handler(r) PROVE TypeOK'
  <2>1. CASE TakeSnapshot(r)
    BY <2>1 DEF TakeSnapshot, Go
  <2>2. CASE Resolve(r)
    BY <2>2 DEF Resolve, Go, Mounts
  <2>3. CASE Authorise(r)
    BY <2>3 DEF Authorise, Go
  <2>4. CASE connectorForMount(r)
    BY <2>4 DEF connectorForMount, Go
  <2> QED BY <1>5, <2>1, <2>2, <2>3, <2>4 DEF Handler
<1>6. CASE UNCHANGED vars
  BY <1>6 DEF vars
<1> QED BY <1>1, <1>2, <1>3, <1>4, <1>5, <1>6 DEF Next

\* The start is well-formed.
LEMMA InitTyped == Init => TypeOK
<1>1. Initial \in Contents /\ MaxEdits \in Nat
  BY ContentsAssumption
<1>2. 0 \in 0..MaxEdits
  BY <1>1
<1> QED BY <1>1, <1>2 DEF Init, TypeOK

\* The configuration, the watcher and the requests have their types.
THEOREM ReloadTyped == Spec => []TypeOK
<1> QED BY InitTyped, TypeStep, PTL DEF Spec

\* The operator and serveHTTP preserve the invariant's parts.
LEMMA EnvironmentStep ==
  ASSUME IInv, \/ Notify \/ Stop \/ prepareHTTPRuntime \/ ServeReturns \/ UNCHANGED vars
               \/ \E c \in Contents : Edit(c)
  PROVE  Parts'
<1> USE DEF IInv, Parts, StoreCompatible, CandidateInv, RequestInv, AcceptableIsPublished,
            ConnectorNeverMisses, world, reload, requests
<1>1. CASE prepareHTTPRuntime
  BY <1>1 DEF prepareHTTPRuntime
<1>2. CASE ServeReturns
  BY <1>2 DEF ServeReturns
<1>3. CASE Notify \/ Stop \/ UNCHANGED vars \/ \E c \in Contents : Edit(c)
  BY <1>3 DEF Notify, Stop, Edit, vars
<1> QED BY <1>1, <1>2, <1>3

\* So does every step of watchReload and the reload it runs,
LEMMA WatcherStep ==
  ASSUME IInv, Watcher
  PROVE  Parts'
<1> USE DEF IInv, Parts, StoreCompatible, AcceptableIsPublished, ConnectorNeverMisses,
            world, reload, requests
<1>1. RequestInv'
  BY DEF Watcher, TakeEvent, WatcherExits, ReadFile, Compare, Replace, RequestInv
<1>2. CASE TakeEvent \/ WatcherExits
  BY <1>1, <1>2 DEF TakeEvent, WatcherExits, CandidateInv
<1>3. CASE ReadFile
  BY <1>1, <1>3 DEF ReadFile, Continue, CandidateInv, Compatible
<1>4. CASE Compare
  <2>1. store \in Contents /\ candidate \in Contents
    BY DEF TypeOK
  <2>2. /\ sameListenerTopology(store.servers, candidate.servers)
        /\ sameBackendTLSPolicies(store, candidate)
        <=> Compatible(candidate)
    BY <1>4, <2>1, CompareIsCompatible DEF Compare, CandidateInv
  <2> QED BY <1>1, <1>4, <2>2 DEF Compare, Continue, CandidateInv
<1>5. CASE Replace
  BY <1>1, <1>5 DEF Replace, CandidateInv
<1> QED BY <1>2, <1>3, <1>4, <1>5 DEF Watcher

\* and every step of a request's handler.
LEMMA HandlerStep ==
  ASSUME IInv, NEW r \in Requests, Handler(r)
  PROVE  Parts'
<1> USE DEF IInv, Parts, TypeOK, world, reload, requests, Go
<1>1. StoreCompatible' /\ CandidateInv' /\ AcceptableIsPublished'
  BY DEF Handler, TakeSnapshot, Resolve, Authorise, connectorForMount, StoreCompatible,
         CandidateInv, AcceptableIsPublished
<1>2. CASE TakeSnapshot(r)
  BY <1>1, <1>2 DEF TakeSnapshot, RequestInv, ConnectorNeverMisses, StoreCompatible
<1>3. CASE Resolve(r)
  BY <1>1, <1>3 DEF Resolve, RequestInv, ConnectorNeverMisses
<1>4. CASE Authorise(r)
  BY <1>1, <1>4 DEF Authorise, RequestInv, ConnectorNeverMisses
<1>5. CASE connectorForMount(r)
  <2>1. route[r].tls \in {NoTLS} \cup loaded
    <3>1. route[r] \in snapshot[r].mounts /\ loaded = TLSPolicies(snapshot[r])
      BY <1>5 DEF connectorForMount, RequestInv, Compatible
    <3> QED BY <3>1 DEF TLSPolicies
  <2> QED BY <1>1, <1>5, <2>1 DEF connectorForMount, RequestInv, ConnectorNeverMisses
<1> QED BY <1>2, <1>3, <1>4, <1>5 DEF Handler

\* The inductive invariant holds throughout.
LEMMA ReloadInvariant == Spec => []IInv
<1>1. Init => IInv
  <2>1. Init => Parts
    BY ContentsAssumption DEF Init, Parts, StoreCompatible, CandidateInv, RequestInv,
       AcceptableIsPublished, ConnectorNeverMisses, Compatible
  <2> QED BY <2>1, InitTyped DEF IInv
<1>2. IInv /\ [Next]_vars => IInv'
  <2> SUFFICES ASSUME IInv, [Next]_vars PROVE IInv'
    OBVIOUS
  <2>1. TypeOK'
    BY TypeStep DEF IInv
  <2>2. Parts'
    BY EnvironmentStep, WatcherStep, HandlerStep DEF Next
  <2> QED BY <2>1, <2>2 DEF IInv
<1> QED BY <1>1, <1>2, PTL DEF Spec

-----------------------------------------------------------------------------
(***************************************************************************)
(* The theorems.                                                            *)
(***************************************************************************)

\* However often the file is edited and reloaded, what is published has exactly
\* the listeners and the backend TLS policies of the start.
THEOREM ReloadStoreCompatible == Spec => []StoreCompatible
<1>1. IInv => StoreCompatible
  BY DEF IInv, Parts
<1> QED BY <1>1, ReloadInvariant, PTL

\* connectorForMount always finds the transport of the mount it is given.
THEOREM ReloadConnectorNeverMisses == Spec => []ConnectorNeverMisses
<1>1. IInv => ConnectorNeverMisses
  BY DEF IInv, Parts
<1> QED BY <1>1, ReloadInvariant, PTL

\* Routing and policy of a request come from one configuration.
THEOREM ReloadRouteAndPolicyAgree == Spec => []RouteAndPolicyAgree
<1>1. IInv => RouteAndPolicyAgree
  BY DEF IInv, Parts, RequestInv, RouteAndPolicyAgree
<1> QED BY <1>1, ReloadInvariant, PTL

\* What is published while a request runs changes nothing for it.
THEOREM ReloadSnapshotServes == Spec => []SnapshotServes
<1>1. ConnectorNeverMisses /\ RouteAndPolicyAgree => SnapshotServes
  BY DEF SnapshotServes
<1> QED BY <1>1, ReloadConnectorNeverMisses, ReloadRouteAndPolicyAgree, PTL

\* A reload publishes every compatible candidate.
THEOREM ReloadAcceptableIsPublished == Spec => []AcceptableIsPublished
<1>1. IInv => AcceptableIsPublished
  BY DEF IInv, Parts
<1> QED BY <1>1, ReloadInvariant, PTL

\* Once a signal was sent for the file as it is, either the signal waits in the channel,
\* or the watcher is about to read the file, or it holds what it read of it, or it has
\* finished with that.
SignalIsKept ==
  ~dirty => \/ pending
            \/ watcher = "read"
            \/ watcher \in {"compare", "publish"} /\ candidate = file
            \/ watcher \in {"idle", "exited"} /\ attempted = file

\* No signal is lost: one that comes while a reload runs waits for its end, one that
\* comes while another waits stands for both, and no reload that had read an earlier
\* content is taken for one of the present file.  This is what SignalledFileIsRead needs
\* besides the watcher's progress, which TLC checks under fairness.
THEOREM ReloadSignalIsKept == Spec => []SignalIsKept
<1> USE DEF SignalIsKept, world, reload, requests
<1>1. Init => SignalIsKept
  BY DEF Init
<1>2. TypeOK /\ SignalIsKept /\ [Next]_vars => SignalIsKept'
  <2> SUFFICES ASSUME TypeOK, SignalIsKept, [Next]_vars PROVE SignalIsKept'
    OBVIOUS
  <2>1. CASE UNCHANGED <<file, dirty, pending, watcher, candidate, attempted>>
    BY <2>1
  <2>2. CASE Notify \/ \E c \in Contents : Edit(c)
    BY <2>2 DEF Notify, Edit
  <2>3. CASE TakeEvent \/ WatcherExits
    BY <2>3 DEF TakeEvent, WatcherExits
  <2>4. CASE ReadFile
    BY <2>4 DEF ReadFile, Continue
  <2>5. CASE Compare
    BY <2>5 DEF Compare, Continue
  <2>6. CASE Replace
    BY <2>6 DEF Replace
  <2>7. CASE Stop \/ prepareHTTPRuntime \/ ServeReturns \/ UNCHANGED vars
    BY <2>1, <2>7 DEF Stop, prepareHTTPRuntime, ServeReturns, vars
  <2>8. ASSUME NEW r \in Requests, Handler(r) PROVE SignalIsKept'
    BY <2>1, <2>8 DEF Handler, TakeSnapshot, Resolve, Authorise, connectorForMount
  <2> QED BY <2>2, <2>3, <2>4, <2>5, <2>6, <2>7, <2>8 DEF Next, Watcher
<1> QED BY <1>1, <1>2, ReloadTyped, PTL DEF Spec
=============================================================================
