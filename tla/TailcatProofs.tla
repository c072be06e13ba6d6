--------------------------- MODULE TailcatProofs ----------------------------
(***************************************************************************)
(* Proofs about Tailcat and TailcatLink, for any sets of streams, dials and *)
(* callers of Close and any length of the queue.                            *)
(***************************************************************************)
EXTENDS TailcatLink, SequenceTheorems, TLAPS

-----------------------------------------------------------------------------
(***************************************************************************)
(* The queue.                                                               *)
(***************************************************************************)
Queued(s) == \E k \in 1..Len(incoming) : incoming[k] = s

\* Handle puts one stream behind the others.
LEMMA Pushed ==
  ASSUME incoming \in Seq(Streams), NEW s \in Streams, incoming' = Append(incoming, s)
  PROVE  /\ incoming' \in Seq(Streams)
         /\ Len(incoming) \in Nat /\ Len(incoming') = Len(incoming) + 1
         /\ incoming'[Len(incoming) + 1] = s
         /\ \A k \in 1..Len(incoming) : incoming'[k] = incoming[k]
OBVIOUS

\* Accept and Close take the first one.
LEMMA Popped ==
  ASSUME incoming \in Seq(Streams), incoming # <<>>, incoming' = Tail(incoming)
  PROVE  /\ incoming' \in Seq(Streams)
         /\ Len(incoming) \in Nat \ {0} /\ Len(incoming') = Len(incoming) - 1
         /\ Head(incoming) = incoming[1] /\ Head(incoming) \in Streams
         /\ \A k \in 1..Len(incoming') : incoming'[k] = incoming[k + 1]
<1>1. Len(incoming) \in Nat \ {0}
  BY EmptySeq
<1> QED BY <1>1, HeadTailProperties

-----------------------------------------------------------------------------
(***************************************************************************)
(* The inductive invariant of the ingress.                                  *)
(***************************************************************************)
Accepting == {"accept", "wait", "took", "check", "drain"}

\* Every open stream has exactly one owner, and what is owned is open: nobody
\* closes a stream under a relay, and none is handed out twice.
OwnedOnce ==
  /\ \A s \in relaying : conn[s] = "open" /\ s # held /\ ~Queued(s)
  /\ held # NoStream => conn[held] = "open" /\ ~Queued(held)
  /\ \A k \in 1..Len(incoming) : conn[incoming[k]] = "open"
  /\ \A k, m \in 1..Len(incoming) : incoming[k] = incoming[m] => k = m

\* Accept holds a stream between its receive and the look at what became of it.
HeldInv == held # NoStream <=> pc \in {"took", "check"}

\* Once Close has let go of the lock the queue stays empty; the deferred calls
\* come after that.
QueueInv ==
  /\ locked => closing
  /\ closing /\ ~locked => incoming = <<>>
  /\ pc \in {"closeServer", "returned"} => closing /\ ~locked

\* Relays run only while link.Serve does, and the server is closed by the calls
\* after it or, when its start failed or was abandoned, before it.
ServerInv ==
  /\ relaying # {} => pc \in Accepting
  /\ late => pc \in {"abort", "returned"}
  /\ server = "closed" => pc \in {"abort", "returned"}

IInv == TypeOK /\ EveryStreamOwned /\ OwnedOnce /\ HeldInv /\ QueueInv /\ ServerInv

\* The ingress starts in the invariant.
LEMMA InitInv == Init => IInv
<1> SUFFICES ASSUME Init PROVE IInv
  OBVIOUS
<1>1. incoming = <<>> /\ incoming \in Seq(Streams) /\ Len(incoming) = 0 /\ 0 <= Backlog
  BY TailcatAssumption DEF Init
<1>2. conn = [s \in Streams |-> "none"] /\ relaying = {} /\ held = NoStream
  BY DEF Init
<1>3. /\ ctx = FALSE /\ late = FALSE /\ paired = FALSE /\ closing = FALSE /\ locked = FALSE
      /\ pc = "start" /\ server = "starting"
  BY DEF Init
<1>4. TypeOK
  BY <1>1, <1>2, <1>3 DEF TypeOK, Steps
<1>5. EveryStreamOwned /\ OwnedOnce
  BY <1>1, <1>2 DEF EveryStreamOwned, OwnedOnce, Queued
<1>6. HeldInv /\ QueueInv /\ ServerInv
  BY <1>1, <1>2, <1>3 DEF HeldInv, QueueInv, ServerInv
<1> QED BY <1>4, <1>5, <1>6 DEF IInv

\* A callback finds room or closes its stream.
LEMMA HandleInv == ASSUME IInv, NEW s \in Streams, Handle(s) PROVE IInv'
<1> USE TailcatAssumption DEF IInv, TypeOK
<1>1. conn[s] = "none" /\ s \notin relaying /\ s # held /\ ~Queued(s)
  BY DEF Handle, OwnedOnce, Queued
<1>2. CASE Closed(s) /\ UNCHANGED incoming
  BY <1>1, <1>2 DEF Handle, Closed, EveryStreamOwned, OwnedOnce, HeldInv, QueueInv, ServerInv, Queued
<1>3. CASE /\ ~closing /\ Len(incoming) < Backlog
           /\ conn' = [conn EXCEPT ![s] = "open"]
           /\ incoming' = Append(incoming, s)
  <2> DEFINE n == Len(incoming)
  <2>1. /\ incoming' \in Seq(Streams) /\ n \in Nat /\ Len(incoming') = n + 1
        /\ incoming'[n + 1] = s
        /\ \A k \in 1..n : incoming'[k] = incoming[k]
    BY <1>3, Pushed
  <2>2. TypeOK'
    BY <1>3, <2>1 DEF Handle
  <2>3. EveryStreamOwned'
    <3>1. Len(incoming') <= Backlog
      BY <1>3, <2>1
    <3>2. ASSUME NEW t \in Streams, conn'[t] = "open"
          PROVE  t \in relaying' \/ t = held' \/ \E k \in 1..Len(incoming') : incoming'[k] = t
      <4>1. CASE t = s
        BY <2>1, <4>1
      <4>2. CASE t # s
        BY <1>3, <2>1, <3>2, <4>2 DEF Handle, EveryStreamOwned
      <4> QED BY <4>1, <4>2
    <3> QED BY <3>1, <3>2 DEF EveryStreamOwned
  <2>4. OwnedOnce'
    <3>1. \A t \in Streams : Queued(t)' <=> t = s \/ Queued(t)
      BY <2>1 DEF Queued
    <3>2. \A k, m \in 1..Len(incoming') : incoming'[k] = incoming'[m] => k = m
      BY <1>1, <2>1 DEF OwnedOnce, Queued
    <3>3. \A k \in 1..Len(incoming') : conn'[incoming'[k]] = "open"
      BY <1>1, <1>3, <2>1 DEF OwnedOnce, Queued
    <3> QED BY <1>1, <1>3, <3>1, <3>2, <3>3 DEF Handle, OwnedOnce
  <2>5. HeldInv' /\ QueueInv' /\ ServerInv'
    BY <1>3 DEF Handle, HeldInv, QueueInv, ServerInv
  <2> QED BY <2>2, <2>3, <2>4, <2>5
<1> QED BY <1>2, <1>3 DEF Handle

\* Whoever takes the first stream of the queue takes it from the queue alone.
LEMMA PoppedInv ==
  ASSUME IInv, incoming # <<>>, incoming' = Tail(incoming)
  PROVE  /\ incoming' \in Seq(Streams) /\ Len(incoming') <= Backlog
         /\ Head(incoming) \in Streams /\ conn[Head(incoming)] = "open"
         /\ Head(incoming) \notin relaying /\ Head(incoming) # held
         /\ \A s \in Streams : Queued(s)' <=> Queued(s) /\ s # Head(incoming)
         /\ \A k \in 1..Len(incoming') : conn[incoming'[k]] = "open"
         /\ \A k, m \in 1..Len(incoming') : incoming'[k] = incoming'[m] => k = m
<1> DEFINE n == Len(incoming)
<1>1. /\ incoming' \in Seq(Streams) /\ n \in Nat \ {0} /\ Len(incoming') = n - 1
      /\ Head(incoming) = incoming[1] /\ Head(incoming) \in Streams
      /\ \A k \in 1..(n - 1) : incoming'[k] = incoming[k + 1]
  BY Popped DEF IInv, TypeOK
<1>2. /\ \A k \in 1..n : conn[incoming[k]] = "open"
      /\ \A k, m \in 1..n : incoming[k] = incoming[m] => k = m
  BY DEF IInv, OwnedOnce
<1>3. Len(incoming') <= Backlog
  BY <1>1, TailcatAssumption DEF IInv, TypeOK
<1>4. Queued(Head(incoming))
  BY <1>1 DEF Queued
<1>5. ASSUME NEW s \in Streams PROVE Queued(s)' <=> Queued(s) /\ s # Head(incoming)
  <2>1. ASSUME Queued(s)' PROVE Queued(s) /\ s # Head(incoming)
    <3>1. PICK k \in 1..(n - 1) : incoming'[k] = s
      BY <1>1, <2>1 DEF Queued
    <3>2. k + 1 \in 1..n /\ 1 \in 1..n /\ incoming[k + 1] = s /\ k + 1 # 1
      BY <1>1, <3>1
    <3> QED BY <1>1, <1>2, <3>2 DEF Queued
  <2>2. ASSUME Queued(s), s # Head(incoming) PROVE Queued(s)'
    <3>1. PICK k \in 1..n : incoming[k] = s
      BY <2>2 DEF Queued
    <3>2. k - 1 \in 1..(n - 1)
      BY <1>1, <2>2, <3>1
    <3>3. incoming'[k - 1] = s
      BY <1>1, <3>1, <3>2
    <3> QED BY <1>1, <3>2, <3>3 DEF Queued
  <2> QED BY <2>1, <2>2
<1>6. Head(incoming) \notin relaying /\ Head(incoming) # held
  BY <1>1, <1>4, TailcatAssumption DEF IInv, OwnedOnce
<1>7. \A k \in 1..(n - 1) : k + 1 \in 1..n
  BY <1>1
<1>8. \A k \in 1..Len(incoming') : conn[incoming'[k]] = "open"
  BY <1>1, <1>2, <1>7
<1>9. \A k, m \in 1..Len(incoming') : incoming'[k] = incoming'[m] => k = m
  BY <1>1, <1>2, <1>7
<1> QED BY <1>1, <1>2, <1>3, <1>5, <1>6, <1>8, <1>9

\* Close empties the queue one stream after the other.
LEMMA CloseOneInv == ASSUME IInv, CloseOne PROVE IInv'
<1>1. incoming # <<>> /\ incoming' = Tail(incoming) /\ Closed(Head(incoming)) /\ locked
  BY DEF CloseOne
<1> DEFINE h == Head(incoming)
<1>2. /\ incoming' \in Seq(Streams) /\ Len(incoming') <= Backlog
      /\ h \in Streams /\ h \notin relaying /\ h # held
      /\ \A s \in Streams : Queued(s)' <=> Queued(s) /\ s # h
      /\ \A k \in 1..Len(incoming') : conn[incoming'[k]] = "open"
      /\ \A k, m \in 1..Len(incoming') : incoming'[k] = incoming'[m] => k = m
  BY <1>1, PoppedInv
<1>3. \A k \in 1..Len(incoming') : incoming'[k] \in Streams /\ incoming'[k] # h
  BY <1>2 DEF Queued
<1>4. conn' \in [Streams -> {"none", "open", "closed"}] /\ conn'[h] = "closed"
      /\ \A s \in Streams : s # h => conn'[s] = conn[s]
  BY <1>1, <1>2 DEF Closed, IInv, TypeOK
<1>5. TypeOK'
  BY <1>2, <1>4 DEF CloseOne, IInv, TypeOK
<1>6. EveryStreamOwned'
  BY <1>2, <1>4 DEF CloseOne, IInv, EveryStreamOwned, Queued
<1>7. OwnedOnce'
  <2>1. relaying' = relaying /\ held' = held /\ relaying \subseteq Streams
        /\ held \in Streams \cup {NoStream}
    BY DEF CloseOne, IInv, TypeOK
  <2>2. \A s \in relaying : conn[s] = "open" /\ s # held /\ ~Queued(s)
    BY DEF IInv, OwnedOnce
  <2>3. held # NoStream => conn[held] = "open" /\ ~Queued(held)
    BY DEF IInv, OwnedOnce
  <2>4. \A s \in relaying' : conn'[s] = "open" /\ s # held' /\ ~Queued(s)'
    BY <1>2, <1>4, <2>1, <2>2
  <2>5. held' # NoStream => conn'[held'] = "open" /\ ~Queued(held)'
    BY <1>2, <1>4, <2>1, <2>3 DEF Queued
  <2>6. \A k \in 1..Len(incoming') : conn'[incoming'[k]] = "open"
    BY <1>2, <1>3, <1>4
  <2> QED BY <1>2, <2>4, <2>5, <2>6 DEF OwnedOnce
<1>8. HeldInv' /\ QueueInv' /\ ServerInv'
  BY <1>1 DEF CloseOne, IInv, HeldInv, QueueInv, ServerInv
<1> QED BY <1>5, <1>6, <1>7, <1>8 DEF IInv

\* Accept takes a stream, without the lock.
LEMMA AcceptTakesInv == ASSUME IInv, AcceptTakes PROVE IInv'
<1> DEFINE h == Head(incoming)
<1>1. /\ incoming # <<>> /\ incoming' = Tail(incoming) /\ held' = h
      /\ pc = "wait" /\ pc' = "took" /\ UNCHANGED <<ctx, server, late, paired, conn, closing, locked, relaying>>
  BY DEF AcceptTakes, Goto
<1>2. /\ incoming' \in Seq(Streams) /\ Len(incoming') <= Backlog
      /\ h \in Streams /\ conn[h] = "open" /\ h \notin relaying
      /\ \A s \in Streams : Queued(s)' <=> Queued(s) /\ s # h
      /\ \A k \in 1..Len(incoming') : conn[incoming'[k]] = "open"
      /\ \A k, m \in 1..Len(incoming') : incoming'[k] = incoming'[m] => k = m
  BY <1>1, PoppedInv
<1>3. held = NoStream /\ h # NoStream
  BY <1>1, <1>2, TailcatAssumption DEF IInv, HeldInv
<1>4. TypeOK'
  BY <1>1, <1>2 DEF IInv, TypeOK, Steps
<1>5. EveryStreamOwned'
  <2>1. ASSUME NEW s \in Streams, conn[s] = "open" PROVE s \in relaying \/ s = h \/ Queued(s)'
    BY <1>2, <1>3, <2>1, TailcatAssumption DEF IInv, EveryStreamOwned, Queued
  <2> QED BY <1>1, <1>2, <2>1 DEF EveryStreamOwned, Queued
<1>6. OwnedOnce'
  <2>1. \A s \in relaying : s \in Streams /\ conn[s] = "open" /\ ~Queued(s)
    BY DEF IInv, TypeOK, OwnedOnce
  <2>2. \A s \in relaying' : conn'[s] = "open" /\ s # held' /\ ~Queued(s)'
    BY <1>1, <1>2, <2>1
  <2>3. conn'[held'] = "open" /\ ~Queued(held)'
    <3>1. \A k \in 1..Len(incoming') : incoming'[k] # h
      BY <1>2 DEF Queued
    <3> QED BY <1>1, <1>2, <3>1 DEF Queued
  <2> QED BY <1>1, <1>2, <2>2, <2>3 DEF OwnedOnce
<1>7. HeldInv' /\ QueueInv' /\ ServerInv'
  <2>1. HeldInv'
    BY <1>1, <1>3 DEF HeldInv
  <2>2. QueueInv'
    BY <1>1 DEF IInv, QueueInv
  <2>3. ServerInv'
    BY <1>1 DEF IInv, ServerInv, Accepting
  <2> QED BY <2>1, <2>2, <2>3
<1> QED BY <1>4, <1>5, <1>6, <1>7 DEF IInv

\* The stream in the hands of Accept or of the accept loop is closed by it.
LEMMA HeldClosed ==
  ASSUME IInv, held \in Streams, conn' = [conn EXCEPT ![held] = "closed"], held' = NoStream,
         UNCHANGED <<incoming, relaying>>
  PROVE  EveryStreamOwned' /\ OwnedOnce'
<1>1. held # NoStream /\ conn \in [Streams -> {"none", "open", "closed"}] /\ relaying \subseteq Streams
  BY TailcatAssumption DEF IInv, TypeOK
<1>2. conn'[held] = "closed" /\ \A s \in Streams : s # held => conn'[s] = conn[s]
  BY <1>1
<1>3. EveryStreamOwned'
  BY <1>2 DEF IInv, EveryStreamOwned
<1>4. \A s \in relaying : s \in Streams /\ s # held /\ conn[s] = "open" /\ ~Queued(s)
  BY <1>1 DEF IInv, OwnedOnce
<1>5. \A s \in relaying' : conn'[s] = "open" /\ s # held' /\ ~Queued(s)'
  BY <1>2, <1>4, TailcatAssumption DEF Queued
<1>6. \A k \in 1..Len(incoming) : incoming[k] \in Streams /\ incoming[k] # held
  BY <1>1 DEF IInv, TypeOK, OwnedOnce, Queued
<1>7. \A k \in 1..Len(incoming') : conn'[incoming'[k]] = "open"
  BY <1>2, <1>6 DEF IInv, OwnedOnce
<1>8. \A k, m \in 1..Len(incoming') : incoming'[k] = incoming'[m] => k = m
  BY DEF IInv, OwnedOnce
<1> QED BY <1>3, <1>5, <1>7, <1>8 DEF OwnedOnce

\* Accept, with the lock again, closes the stream it took if Close has passed.
LEMMA AcceptReturnsInv == ASSUME IInv, AcceptReturns PROVE IInv'
<1>1. /\ ~locked /\ pc = "took" /\ pc' = (IF closing THEN "drain" ELSE "check")
      /\ UNCHANGED <<ctx, server, late, paired, incoming, closing, locked, relaying>>
  BY DEF AcceptReturns, Goto, listener
<1>2. held \in Streams /\ conn[held] = "open" /\ held \notin relaying /\ ~Queued(held)
  BY <1>1 DEF IInv, TypeOK, HeldInv, OwnedOnce
<1>3. CASE closing
  <2>1. pc' = "drain" /\ conn' = [conn EXCEPT ![held] = "closed"] /\ held' = NoStream
    BY <1>1, <1>3 DEF AcceptReturns, Closed
  <2>2. TypeOK'
    BY <1>1, <1>2, <2>1 DEF IInv, TypeOK, Steps
  <2>3. EveryStreamOwned' /\ OwnedOnce'
    BY <1>1, <1>2, <2>1, HeldClosed
  <2>4. HeldInv'
    BY <2>1 DEF HeldInv
  <2>5. QueueInv' /\ ServerInv'
    BY <1>1, <2>1 DEF IInv, QueueInv, ServerInv, Accepting
  <2> QED BY <2>2, <2>3, <2>4, <2>5 DEF IInv
<1>4. CASE ~closing
  <2>1. pc' = "check" /\ UNCHANGED <<conn, held>>
    BY <1>1, <1>4 DEF AcceptReturns
  <2>2. TypeOK'
    BY <1>1, <2>1 DEF IInv, TypeOK, Steps
  <2>3. EveryStreamOwned' /\ OwnedOnce'
    BY <1>1, <2>1 DEF IInv, EveryStreamOwned, OwnedOnce, Queued
  <2>4. HeldInv'
    BY <1>1, <2>1 DEF IInv, HeldInv
  <2>5. QueueInv' /\ ServerInv'
    BY <1>1, <2>1 DEF IInv, QueueInv, ServerInv, Accepting
  <2> QED BY <2>2, <2>3, <2>4, <2>5 DEF IInv
<1> QED BY <1>3, <1>4

\* link.Serve relays the stream, or closes it when it is cancelled.
LEMMA ServeChecksInv == ASSUME IInv, ServeChecks PROVE IInv'
<1>1. /\ pc = "check" /\ pc' = (IF ctx THEN "drain" ELSE "accept") /\ held' = NoStream
      /\ UNCHANGED <<ctx, server, late, paired, incoming, closing, locked>>
  BY DEF ServeChecks, Goto, listener
<1>2. held \in Streams /\ conn[held] = "open" /\ held \notin relaying /\ ~Queued(held)
  BY <1>1 DEF IInv, TypeOK, HeldInv, OwnedOnce
<1>3. HeldInv'
  BY <1>1 DEF HeldInv
<1>4. QueueInv' /\ ServerInv'
  BY <1>1 DEF IInv, QueueInv, ServerInv, Accepting
<1>5. CASE ctx
  <2>1. conn' = [conn EXCEPT ![held] = "closed"] /\ relaying' = relaying
    BY <1>5 DEF ServeChecks, Closed
  <2>2. TypeOK'
    BY <1>1, <1>2, <2>1 DEF IInv, TypeOK, Steps
  <2>3. EveryStreamOwned' /\ OwnedOnce'
    BY <1>1, <1>2, <2>1, HeldClosed
  <2> QED BY <1>3, <1>4, <2>2, <2>3 DEF IInv
<1>6. CASE ~ctx
  <2>1. relaying' = relaying \cup {held} /\ conn' = conn
    BY <1>6 DEF ServeChecks
  <2>2. TypeOK'
    BY <1>1, <1>2, <2>1 DEF IInv, TypeOK, Steps
  <2>3. EveryStreamOwned'
    BY <1>1, <1>2, <2>1 DEF IInv, EveryStreamOwned
  <2>4. OwnedOnce'
    BY <1>1, <1>2, <2>1, TailcatAssumption DEF IInv, TypeOK, OwnedOnce, Queued
  <2> QED BY <1>3, <1>4, <2>2, <2>3, <2>4 DEF IInv
<1> QED BY <1>5, <1>6

\* A relay ends and closes its own stream only.
LEMMA StreamEndsInv == ASSUME IInv, NEW s \in Streams, StreamEnds(s) PROVE IInv'
<1>1. /\ s \in relaying /\ relaying' = relaying \ {s} /\ conn' = [conn EXCEPT ![s] = "closed"]
      /\ UNCHANGED <<pc, ctx, server, late, paired, incoming, closing, locked, held>>
  BY DEF StreamEnds, Closed, listener
<1>2. s # held /\ ~Queued(s)
  BY <1>1 DEF IInv, OwnedOnce
<1>3. TypeOK'
  BY <1>1 DEF IInv, TypeOK
<1>4. EveryStreamOwned'
  BY <1>1 DEF IInv, TypeOK, EveryStreamOwned
<1>5. OwnedOnce'
  BY <1>1, <1>2, TailcatAssumption DEF IInv, TypeOK, OwnedOnce, Queued
<1>6. HeldInv' /\ QueueInv'
  BY <1>1 DEF IInv, HeldInv, QueueInv
<1>7. ServerInv'
  BY <1>1 DEF IInv, ServerInv
<1> QED BY <1>3, <1>4, <1>5, <1>6, <1>7 DEF IInv

\* The other steps touch neither a stream nor the queue.
LEMMA StreamsUntouched ==
  ASSUME IInv, UNCHANGED <<conn, incoming, held, relaying>>
  PROVE  EveryStreamOwned' /\ OwnedOnce'
BY DEF IInv, EveryStreamOwned, OwnedOnce, Queued

\* Starting and stopping.
LEMMA ControlInv ==
  ASSUME IInv,
         \/ Cancel \/ StartReturns \/ WatcherCloses \/ CloseEnds \/ LateClose
         \/ Started \/ StartAbandoned \/ CheckAddress \/ WritePairing \/ AcceptLooks
         \/ AcceptSeesClosed \/ ServeReturns \/ DrainTCP \/ CloseListener \/ CloseServer
  PROVE  IInv'
<1> USE DEF IInv, listener, Goto, Accepting, HeldInv, QueueInv, ServerInv
<1> DEFINE Kept == /\ TypeOK' /\ UNCHANGED <<conn, incoming, held, relaying>>
                   /\ HeldInv' /\ QueueInv' /\ ServerInv'
<1>1. CASE Cancel
  <2>1. Kept
    BY <1>1 DEF Cancel, TypeOK
  <2> QED BY <2>1, StreamsUntouched
<1>2. CASE StartReturns
  <2>1. Kept
    BY <1>2 DEF StartReturns, TypeOK
  <2> QED BY <2>1, StreamsUntouched
<1>3. CASE WatcherCloses
  <2>1. Kept
    BY <1>3 DEF WatcherCloses, CloseBegins, TypeOK
  <2> QED BY <2>1, StreamsUntouched
<1>4. CASE CloseEnds
  <2>1. Kept
    BY <1>4 DEF CloseEnds, TypeOK
  <2> QED BY <2>1, StreamsUntouched
<1>5. CASE LateClose
  <2>1. Kept
    BY <1>5 DEF LateClose, TypeOK
  <2> QED BY <2>1, StreamsUntouched
<1>6. CASE Started \/ StartAbandoned
  <2>1. CASE Started
    <3>1. Kept
      BY <2>1 DEF Started, TypeOK, Steps
    <3> QED BY <3>1, StreamsUntouched
  <2>2. CASE StartAbandoned
    <3>1. Kept
      BY <2>2 DEF StartAbandoned, TypeOK, Steps
    <3> QED BY <3>1, StreamsUntouched
  <2> QED BY <1>6, <2>1, <2>2
<1>7. CASE CheckAddress \/ WritePairing
  <2>1. CASE CheckAddress
    <3>1. Kept
      BY <2>1 DEF CheckAddress, TypeOK, Steps
    <3> QED BY <3>1, StreamsUntouched
  <2>2. CASE WritePairing
    <3>1. Kept
      BY <2>2 DEF WritePairing, TypeOK, Steps
    <3> QED BY <3>1, StreamsUntouched
  <2> QED BY <1>7, <2>1, <2>2
<1>8. CASE AcceptLooks \/ AcceptSeesClosed
  <2>1. Kept
    BY <1>8 DEF AcceptLooks, AcceptSeesClosed, TypeOK, Steps
  <2> QED BY <2>1, StreamsUntouched
<1>9. CASE ServeReturns \/ DrainTCP
  <2>1. Kept
    BY <1>9 DEF ServeReturns, DrainTCP, TypeOK, Steps
  <2> QED BY <2>1, StreamsUntouched
<1>10. CASE CloseListener
  <2>1. /\ pc \in {"abort", "closeListener"}
        /\ UNCHANGED <<ctx, server, late, paired, conn, incoming, held, relaying>>
    BY <1>10 DEF CloseListener
  <2>2. CASE CloseBegins /\ UNCHANGED pc
    <3>1. Kept
      BY <2>1, <2>2 DEF CloseBegins, TypeOK
    <3> QED BY <3>1, StreamsUntouched
  <2>3. CASE /\ closing /\ ~locked
             /\ pc' = IF pc = "abort" THEN "returned" ELSE "closeServer"
             /\ UNCHANGED <<closing, locked>>
    <3>1. pc' \in {"returned", "closeServer"} /\ (pc = "abort" => pc' = "returned")
      BY <2>3
    <3>2. TypeOK'
      BY <2>1, <2>3, <3>1 DEF TypeOK, Steps
    <3>3. HeldInv' /\ QueueInv' /\ ServerInv'
      BY <2>1, <2>3, <3>1
    <3> QED BY <2>1, <3>2, <3>3, StreamsUntouched
  <2> QED BY <1>10, <2>2, <2>3 DEF CloseListener
<1>11. CASE CloseServer
  <2>1. Kept
    BY <1>11 DEF CloseServer, TypeOK, Steps
  <2> QED BY <2>1, StreamsUntouched
<1> QED BY <1>1, <1>2, <1>3, <1>4, <1>5, <1>6, <1>7, <1>8, <1>9, <1>10, <1>11

\* Every step of the ingress keeps the invariant.
LEMMA StepInv == IInv /\ [Next]_vars => IInv'
<1> SUFFICES ASSUME IInv, [Next]_vars PROVE IInv'
  OBVIOUS
<1>1. CASE \E s \in Streams : Handle(s) \/ StreamEnds(s)
  BY <1>1, HandleInv, StreamEndsInv
<1>2. CASE Closer
  BY <1>2, CloseOneInv, ControlInv DEF Closer
<1>3. CASE serveTailcat
  BY <1>3, AcceptTakesInv, AcceptReturnsInv, ServeChecksInv, ControlInv
     DEF serveTailcat, Accept
<1>4. CASE Cancel \/ StartReturns \/ WatcherCloses \/ LateClose
  BY <1>4, ControlInv
<1>5. CASE UNCHANGED vars
  BY <1>5, StreamsUntouched
     DEF vars, IInv, TypeOK, HeldInv, QueueInv, ServerInv
<1> QED BY <1>1, <1>2, <1>3, <1>4, <1>5 DEF Next, Terminated

-----------------------------------------------------------------------------
(***************************************************************************)
(* Both ends of the link.                                                   *)
(***************************************************************************)

\* A step of either end is a step of the ingress or leaves it alone: a dial that
\* gets through is one of its callbacks.
LEMMA LinkStep == [LinkNext]_linkVars => [Next]_vars
<1> SUFFICES ASSUME [LinkNext]_linkVars PROVE [Next]_vars
  OBVIOUS
<1>1. CASE CancelRead \/ ReadPairing
  BY <1>1 DEF CancelRead, ReadPairing, ReadLine, SendResult, Completed, ReadCancelled, CheckErr
<1>2. ASSUME NEW s \in Dials, Dial(s) PROVE [Next]_vars
  BY <1>2, DialsAssumption DEF Dial, LoadClosed, DialFails, DialTCPPort, Next
<1>3. CASE \E c \in Closers : Close(c)
  BY <1>3 DEF Close
<1>4. CASE CloseDialer
  BY <1>4 DEF CloseDialer, DrainClient, CloseClient, CloseReturns
<1>5. CASE \/ Cancel \/ StartReturns
           \/ \E s \in Streams \ Dials : Handle(s)
           \/ \E s \in Streams : StreamEnds(s)
           \/ WatcherCloses \/ Closer
           \/ serveTailcat \/ LateClose
           \/ Terminated
  BY <1>5 DEF Next
<1>6. CASE UNCHANGED linkVars
  BY <1>6 DEF linkVars
<1> QED BY <1>1, <1>2, <1>3, <1>4, <1>5, <1>6 DEF LinkNext

\* The link, whatever the dialling process does, shows the ingress nothing but
\* steps of its own specification.
THEOREM LinkKeepsIngress == LinkSpec => Init /\ [][Next]_vars
<1>1. LinkInit => Init
  BY DEF LinkInit
<1> QED BY <1>1, LinkStep, PTL DEF LinkSpec

\* The inductive invariant holds throughout, with and without the dialling end.
LEMMA IngressInvariant == Init /\ [][Next]_vars => []IInv
BY InitInv, StepInv, PTL

\* Queue, connections and control stay well-formed; in particular the queue stays
\* within the capacity of its channel.
THEOREM TailcatTyped == LinkSpec => []TypeOK
<1>1. IInv => TypeOK
  BY DEF IInv
<1> QED BY <1>1, LinkKeepsIngress, IngressInvariant, PTL

\* No open stream is lost between callbacks, Accept and Close.
THEOREM TailcatEveryStreamOwned == LinkSpec => []EveryStreamOwned
<1>1. IInv => EveryStreamOwned
  BY DEF IInv
<1> QED BY <1>1, LinkKeepsIngress, IngressInvariant, PTL

\* No stream has two owners, and none is closed while somebody owns it.
THEOREM TailcatOwnedOnce == LinkSpec => []OwnedOnce
<1>1. IInv => OwnedOnce
  BY DEF IInv
<1> QED BY <1>1, LinkKeepsIngress, IngressInvariant, PTL

\* The server is closed after its relays, and serveTailcat returns with every
\* stream closed, wherever it was when it was cancelled.
THEOREM TailcatTornDown == LinkSpec => []TornDownInOrder
<1>1. IInv => TornDownInOrder
  <2> SUFFICES ASSUME IInv PROVE TornDownInOrder
    OBVIOUS
  <2>1. server = "closed" => relaying = {}
    BY DEF IInv, ServerInv, Accepting
  <2>2. ASSUME pc = "returned", NEW s \in Streams PROVE conn[s] # "open"
    <3>1. relaying = {} /\ held = NoStream /\ incoming = <<>>
      BY <2>2 DEF IInv, ServerInv, Accepting, HeldInv, QueueInv
    <3> QED BY <3>1, TailcatAssumption DEF IInv, EveryStreamOwned
  <2> QED BY <2>1, <2>2 DEF TornDownInOrder
<1> QED BY <1>1, LinkKeepsIngress, IngressInvariant, PTL

-----------------------------------------------------------------------------
(***************************************************************************)
(* The dialer.  Close marks it before anything else.                        *)
(***************************************************************************)
DialerInv ==
  /\ dial \in [Dials -> {"idle", "loaded", "open", "refused"}]
  /\ once # "new" => closed

\* A dialer whose Close has begun is marked closed.
LEMMA DialerInvariant == LinkSpec => []DialerInv
<1>1. LinkInit => DialerInv
  BY DEF LinkInit, DialerInv
<1>2. DialerInv /\ [LinkNext]_linkVars => DialerInv'
  <2> SUFFICES ASSUME DialerInv, [LinkNext]_linkVars PROVE DialerInv'
    OBVIOUS
  <2> USE DEF DialerInv, dialer
  <2>1. CASE CancelRead \/ ReadPairing
    BY <2>1 DEF CancelRead, ReadPairing, ReadLine, SendResult, Completed, ReadCancelled, CheckErr
  <2>2. ASSUME NEW s \in Dials, Dial(s) PROVE DialerInv'
    BY <2>2 DEF Dial, LoadClosed, DialFails, DialTCPPort
  <2>3. ASSUME NEW c \in Closers, Close(c) PROVE DialerInv'
    BY <2>3 DEF Close
  <2>4. CASE CloseDialer
    BY <2>4 DEF CloseDialer, DrainClient, CloseClient, CloseReturns
  <2>5. CASE UNCHANGED dialer
    BY <2>5
  <2> QED BY <2>1, <2>2, <2>3, <2>4, <2>5 DEF LinkNext, linkVars
<1> QED BY <1>1, <1>2, PTL DEF LinkSpec

\* Whatever number of callers dial and close at once, no dial joins those that
\* were past their look at closed when Close began.
THEOREM TailcatDialerDrains == LinkSpec => DialerDrains
<1>1. DialerInv /\ [LinkNext]_linkVars =>
        [once # "new" =>
           {s \in Dials : dial'[s] = "loaded"} \subseteq {s \in Dials : dial[s] = "loaded"}]_linkVars
  <2> SUFFICES ASSUME DialerInv, LinkNext, once # "new"
               PROVE  \A s \in Dials : dial'[s] = "loaded" => dial[s] = "loaded"
    OBVIOUS
  <2>1. CASE CancelRead \/ ReadPairing
    BY <2>1 DEF CancelRead, ReadPairing, ReadLine, SendResult, Completed, ReadCancelled, CheckErr, dialer
  <2>2. ASSUME NEW s \in Dials, Dial(s)
        PROVE  \A t \in Dials : dial'[t] = "loaded" => dial[t] = "loaded"
    BY <2>2 DEF Dial, LoadClosed, DialFails, DialTCPPort, DialerInv
  <2>3. CASE \E c \in Closers : Close(c)
    BY <2>3 DEF Close
  <2>4. CASE CloseDialer
    BY <2>4 DEF CloseDialer, DrainClient, CloseClient, CloseReturns
  <2>5. CASE UNCHANGED dialer
    BY <2>5 DEF dialer
  <2> QED BY <2>1, <2>2, <2>3, <2>4, <2>5 DEF LinkNext
<1> QED BY <1>1, DialerInvariant, PTL DEF LinkSpec, DialerDrains

-----------------------------------------------------------------------------
(***************************************************************************)
(* ReadPairing.                                                             *)
(***************************************************************************)

\* The goroutine of ReadPairing never finds the channel full, so that nobody has
\* to receive for it to end; ReadPairing leaves with its input closed, and with a
\* dialer only if the other end has handed over the whole pairing.
ReaderSafe ==
  /\ reader # "done" => results = <<>>
  /\ left \in {"failed", "ready"} => input = "closed"
  /\ left = "ready" => paired

ReaderInv ==
  /\ ReaderSafe
  /\ left = "check" => input = "closed"
  /\ left \in {"check", "ready"} => reader = "done"
  /\ left = "ready" => read = "pairing"
  /\ read \in {"pairing", "error"}
  /\ read = "pairing" => paired

\* A pairing that was written stays written.
LEMMA PairedStays == [LinkNext]_linkVars => (paired => paired')
<1> SUFFICES ASSUME Next, paired PROVE paired'
  BY LinkStep DEF vars
<1> QED
  BY DEF Next, Cancel, StartReturns, Handle, StreamEnds, WatcherCloses, Closer, CloseOne,
         CloseEnds, serveTailcat, Started, StartAbandoned, CheckAddress, WritePairing, Accept,
         AcceptLooks, AcceptSeesClosed, AcceptTakes, AcceptReturns, ServeChecks, ServeReturns,
         DrainTCP, CloseListener, CloseServer, LateClose, Terminated, vars

\* However reading, cancellation and the ingress interleave, ReadPairing leaves
\* nothing behind that waits for it.
THEOREM TailcatReaderSafe == LinkSpec => []ReaderSafe
<1>1. LinkInit => ReaderInv
  BY DEF LinkInit, ReaderInv, ReaderSafe
<1>2. ReaderInv /\ [LinkNext]_linkVars => ReaderInv'
  <2> SUFFICES ASSUME ReaderInv, [LinkNext]_linkVars PROVE ReaderInv'
    OBVIOUS
  <2> USE DEF ReaderInv, ReaderSafe
  <2>1. paired => paired'
    BY PairedStays
  <2>2. CASE CancelRead
    BY <2>1, <2>2 DEF CancelRead
  <2>3. CASE ReadLine
    BY <2>1, <2>3 DEF ReadLine, vars
  <2>4. CASE SendResult
    BY <2>1, <2>4 DEF SendResult, vars
  <2>5. CASE Completed
    BY <2>1, <2>5 DEF Completed, vars
  <2>6. CASE ReadCancelled
    BY <2>1, <2>6 DEF ReadCancelled, vars
  <2>7. CASE CheckErr
    BY <2>1, <2>7 DEF CheckErr, vars
  <2>8. CASE UNCHANGED pairing
    BY <2>1, <2>8 DEF pairing
  <2>9. ASSUME NEW s \in Dials, Dial(s) PROVE UNCHANGED pairing
    BY <2>9 DEF Dial, LoadClosed, DialFails, DialTCPPort
  <2>10. ASSUME NEW c \in Closers, Close(c) PROVE UNCHANGED pairing
    BY <2>10 DEF Close
  <2>11. CASE CloseDialer
    BY <2>8, <2>11 DEF CloseDialer, DrainClient, CloseClient, CloseReturns
  <2> QED BY <2>2, <2>3, <2>4, <2>5, <2>6, <2>7, <2>8, <2>9, <2>10, <2>11
          DEF LinkNext, linkVars, ReadPairing
<1>3. ReaderInv => ReaderSafe
  BY DEF ReaderInv
<1> QED BY <1>1, <1>2, <1>3, PTL DEF LinkSpec

-----------------------------------------------------------------------------
(***************************************************************************)
(* The end of the server.                                                   *)
(***************************************************************************)

\* Once serveTailcat has given up the server or has returned, either the server is
\* closed or the goroutine of an abandoned start will close it, and never both.
ServerHasOneCloser == pc \in {"abort", "returned"} => (late <=> server # "closed")

\* A server that comes up after its start was abandoned has somebody to close it, and no
\* server is closed twice, wherever the cancellation meets the start.  This is what
\* ServerIsClosed needs besides the progress of Start and of that goroutine, which TLC
\* checks under fairness.
THEOREM TailcatServerHasOneCloser == LinkSpec => []ServerHasOneCloser
<1> USE DEF ServerHasOneCloser, listener, Goto
<1>1. Init => ServerHasOneCloser
  BY DEF Init
<1>2. IInv /\ ServerHasOneCloser /\ [Next]_vars => ServerHasOneCloser'
  <2> SUFFICES ASSUME IInv, ServerHasOneCloser, [Next]_vars PROVE ServerHasOneCloser'
    OBVIOUS
  <2>0. /\ late \in BOOLEAN
        /\ late => pc \in {"abort", "returned"}
        /\ server = "closed" => pc \in {"abort", "returned"}
    BY DEF IInv, TypeOK, ServerInv
  <2>1. CASE UNCHANGED <<pc, late, server>>
    BY <2>1
  <2>2. CASE StartReturns \/ LateClose
    BY <2>0, <2>2 DEF StartReturns, LateClose
  <2>3. CASE Started \/ StartAbandoned
    BY <2>0, <2>3 DEF Started, StartAbandoned
  <2>4. CASE CloseListener \/ CloseServer
    BY <2>0, <2>4 DEF CloseListener, CloseServer
  <2>5. CASE \/ CheckAddress \/ WritePairing \/ Accept \/ ServeChecks \/ ServeReturns
             \/ DrainTCP
    BY <2>5 DEF CheckAddress, WritePairing, Accept, AcceptLooks, AcceptSeesClosed,
                AcceptTakes, AcceptReturns, ServeChecks, ServeReturns, DrainTCP
  <2>6. CASE \/ Cancel \/ WatcherCloses \/ Closer \/ Terminated \/ UNCHANGED vars
             \/ \E s \in Streams : Handle(s) \/ StreamEnds(s)
    BY <2>1, <2>6 DEF Cancel, WatcherCloses, Closer, CloseOne, CloseEnds, Terminated,
                      Handle, StreamEnds, vars
  <2> QED BY <2>2, <2>3, <2>4, <2>5, <2>6 DEF Next, serveTailcat
<1> QED BY <1>1, <1>2, IngressInvariant, LinkKeepsIngress, PTL
=============================================================================
