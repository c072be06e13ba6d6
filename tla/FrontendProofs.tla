--------------------------- MODULE FrontendProofs ---------------------------
(***************************************************************************)
(* Proofs about Resolver, for any lists of mounts and any requests, and      *)
(* about Frontend, which extends it, for any configurations and clients;     *)
(* behind them about NormalizePath (module Paths), for paths of any length.  *)
(***************************************************************************)
EXTENDS Frontend, SequenceTheorems, WellFoundedInduction, TLAPS

-----------------------------------------------------------------------------
(***************************************************************************)
(* The order on mounts.                                                     *)
(***************************************************************************)

\* The four keys of the comparison are integers.
LEMMA KeysTyped ==
  ASSUME NEW m \in Mount
  PROVE  /\ Specificity(m) \in Int
         /\ m.priority \in Int
         /\ Authority(m) \in Int
         /\ Scope(m) \in Int
BY DEF Mount, Specificity, Authority, Scope

\* Two mounts tie, or exactly one of them beats the other.
LEMMA Trichotomy ==
  ASSUME NEW m \in Mount, NEW w \in Mount
  PROVE  /\ Beats(m, w) \/ Ties(m, w) \/ Beats(w, m)
         /\ ~(Beats(m, w) /\ Ties(m, w))
         /\ ~(Beats(m, w) /\ Beats(w, m))
         /\ Ties(m, w) <=> Ties(w, m)
BY KeysTyped DEF Beats, Ties

\* What does not beat the old winner neither beats nor ties with a new one.
LEMMA NewWinner ==
  ASSUME NEW m \in Mount, NEW w \in Mount, NEW o \in Mount,
         Beats(m, w), ~Beats(o, w)
  PROVE  ~Beats(o, m) /\ ~Ties(o, m)
BY KeysTyped DEF Beats, Ties

\* Mounts that tie are beaten by the same mounts.
LEMMA TiesShareRank ==
  ASSUME NEW m \in Mount, NEW w \in Mount, NEW o \in Mount, Ties(m, w)
  PROVE  Beats(o, m) <=> Beats(o, w)
BY KeysTyped DEF Beats, Ties

-----------------------------------------------------------------------------
(***************************************************************************)
(* Patterns that match one path.                                            *)
(***************************************************************************)

\* Of two stems of a path the shorter is a stem of the longer.
LEMMA StemsNest ==
  ASSUME NEW p \in Seq(Chars), NEW a \in Seq(Chars), NEW b \in Seq(Chars),
         IsStem(a, p), IsStem(b, p), Len(a) <= Len(b)
  PROVE  IsStem(a, b)
<1>1. Len(a) \in Nat /\ Len(b) \in Nat /\ Len(p) \in Nat
  OBVIOUS
<1>2. \A n \in 1..Len(b) : b[n] = p[n]
  BY <1>1, SMT DEF IsStem
<1>3. \A n \in 1..Len(a) : a[n] = p[n]
  BY <1>1, SMT DEF IsStem
<1>4. SubSeq(b, 1, Len(a)) \in Seq(Chars) /\ Len(SubSeq(b, 1, Len(a))) = Len(a)
  BY <1>1, SMT DEF IsStem
<1>5. \A n \in 1..Len(a) : SubSeq(b, 1, Len(a))[n] = a[n]
  BY <1>1, <1>2, <1>3, SMT DEF IsStem
<1>6. SubSeq(b, 1, Len(a)) = a
  BY <1>4, <1>5, SeqEqual
<1> QED BY <1>6 DEF IsStem

\* A stem as long as the sequence it is a stem of is that sequence.
LEMMA FullStem ==
  ASSUME NEW a \in Seq(Chars), NEW b \in Seq(Chars), IsStem(a, b), Len(a) = Len(b)
  PROVE  a = b
BY SMT DEF IsStem

\* A matching exact pattern is more specific than any matching prefix pattern.
LEMMA SpecificityBounds ==
  ASSUME NEW m \in Mount, NEW p \in Seq(Chars), matchPath(m, p)
  PROVE  /\ m.wild => Specificity(m) = Len(m.stem) /\ Len(m.stem) <= Len(p)
         /\ ~m.wild => Specificity(m) = Len(p) + 1
<1>1. CASE m.wild
  BY <1>1 DEF matchPath, Specificity, IsStem, Mount
<1>2. CASE ~m.wild
  BY <1>2 DEF matchPath, Specificity, Mount
<1> QED BY <1>1, <1>2

\* Two patterns that match a path are equally specific only if they are one.
LEMMA SpecificityTells ==
  ASSUME NEW m \in Mount, NEW w \in Mount, NEW p \in Seq(Chars),
         matchPath(m, p), matchPath(w, p), Specificity(m) = Specificity(w)
  PROVE  SamePattern(m, w)
<1>1. /\ m.stem \in Seq(Chars) /\ w.stem \in Seq(Chars)
      /\ m.wild \in BOOLEAN /\ w.wild \in BOOLEAN
      /\ Len(m.stem) \in Nat /\ Len(w.stem) \in Nat /\ Len(p) \in Nat
  BY DEF Mount
<1>2. m.wild = w.wild
  <2>1. CASE m.wild /\ ~w.wild
    BY <1>1, <2>1, SpecificityBounds
  <2>2. CASE w.wild /\ ~m.wild
    BY <1>1, <2>2, SpecificityBounds
  <2> QED BY <1>1, <2>1, <2>2
<1>3. CASE m.wild
  <2>1. IsStem(m.stem, p) /\ IsStem(w.stem, p) /\ Len(m.stem) = Len(w.stem)
    BY <1>1, <1>2, <1>3 DEF matchPath, Specificity
  <2>2. IsStem(m.stem, w.stem)
    BY <1>1, <2>1, StemsNest
  <2>3. m.stem = w.stem
    BY <1>1, <2>1, <2>2, FullStem
  <2> QED BY <1>2, <2>3 DEF SamePattern
<1>4. CASE ~m.wild
  BY <1>2, <1>4 DEF matchPath, SamePattern
<1> QED BY <1>3, <1>4

\* A less specific pattern that matches the path is a prefix pattern that the
\* more specific one refines.
LEMMA LessSpecific ==
  ASSUME NEW m \in Mount, NEW w \in Mount, NEW p \in Seq(Chars),
         matchPath(m, p), matchPath(w, p), Specificity(m) < Specificity(w)
  PROVE  /\ m.wild
         /\ IsStem(m.stem, w.stem)
         /\ w.wild => m.stem # w.stem
<1>1. /\ m.stem \in Seq(Chars) /\ w.stem \in Seq(Chars)
      /\ m.wild \in BOOLEAN /\ w.wild \in BOOLEAN
      /\ Len(m.stem) \in Nat /\ Len(w.stem) \in Nat /\ Len(p) \in Nat
  BY DEF Mount
<1>2. m.wild
  <2>1. CASE ~m.wild /\ w.wild
    BY <1>1, <2>1, SpecificityBounds
  <2>2. CASE ~m.wild /\ ~w.wild
    BY <1>1, <2>2, SpecificityBounds
  <2> QED BY <2>1, <2>2
<1>3. IsStem(m.stem, p)
  BY <1>2 DEF matchPath
<1>4. CASE w.wild
  <2>1. Len(m.stem) < Len(w.stem)
    BY <1>2, <1>4 DEF Specificity
  <2>2. IsStem(w.stem, p)
    BY <1>4 DEF matchPath
  <2>3. IsStem(m.stem, w.stem)
    BY <1>1, <1>3, <2>1, <2>2, StemsNest
  <2> QED BY <1>1, <1>2, <2>1, <2>3
<1>5. CASE ~w.wild
  BY <1>2, <1>3, <1>5 DEF matchPath
<1> QED BY <1>4, <1>5

-----------------------------------------------------------------------------
(***************************************************************************)
(* The pass.  After the mounts before i: winner is an applicable mount that *)
(* none of them beats, and ambiguous tells whether another one ties with it. *)
(***************************************************************************)
Seen == {k \in 1..(i - 1) : Applies(mounts[k], request)}

PassInv ==
  /\ winner = 0 => Seen = {} /\ ~ambiguous
  /\ winner # 0 =>
       /\ winner \in Seen
       /\ \A k \in Seen : ~Beats(mounts[k], mounts[winner])
       /\ ambiguous <=> \E k \in Seen : k # winner /\ Ties(mounts[k], mounts[winner])

ResultInv ==
  /\ pc \in {"normalize", "loop"} => result = Outcome("none")
  /\ pc = "loop" => request.path # Unsafe
  /\ pc = "done" /\ request.path = Unsafe => result = Outcome("unsafe")
  /\ pc = "done" /\ request.path # Unsafe =>
       /\ i = Len(mounts) + 1
       /\ result.kind = IF winner = 0 THEN "noMatch"
                        ELSE IF ambiguous THEN "ambiguous" ELSE "match"
       /\ result.kind = "match" => result.mount = winner

IInv == TypeOK /\ PassInv /\ ResultInv

\* The invariant of ResolveFor's pass holds throughout.
LEMMA PassInvariant == Spec => []IInv
<1>1. Init => IInv
  <2> SUFFICES ASSUME Init PROVE IInv
    OBVIOUS
  <2>1. Len(mounts) \in Nat
    BY ResolverAssumption DEF Init
  <2>2. result \in [kind : Kinds, mount : 0..Len(mounts), target : Seq(Chars)]
    <3>1. <<>> \in Seq(Chars)
      OBVIOUS
    <3> QED BY <2>1, <3>1 DEF Init, Outcome, Kinds
  <2>3. TypeOK
    <3>1. ambiguous \in BOOLEAN
      BY DEF Init
    <3>2. i \in 1..(Len(mounts) + 1) /\ winner \in 0..Len(mounts)
      BY <2>1 DEF Init
    <3> QED BY <2>2, <3>1, <3>2 DEF Init, TypeOK
  <2> QED BY <2>3 DEF Init, IInv, PassInv, ResultInv, Seen
<1>2. IInv /\ [Next]_vars => IInv'
  <2> SUFFICES ASSUME IInv, [Next]_vars PROVE IInv'
    OBVIOUS
  <2>1. /\ Len(mounts) \in Nat
        /\ \A k \in 1..Len(mounts) : mounts[k] \in Mount
    BY ResolverAssumption DEF IInv, TypeOK
  <2>2. CASE Normalize
    BY <2>2 DEF Normalize, IInv, TypeOK, PassInv, ResultInv, Seen, Outcome, Kinds
  <2>3. ASSUME Look PROVE Seen' = IF Applies(mounts[i], request) THEN Seen \cup {i} ELSE Seen
    BY <2>1, <2>3 DEF Look, IInv, TypeOK, Seen
  <2>4. ASSUME Look PROVE i \in 1..Len(mounts) /\ i \notin Seen /\ Seen \subseteq 1..Len(mounts)
    BY <2>1, <2>4 DEF Look, IInv, TypeOK, Seen
  <2>5. CASE Skip
    <3>1. Look /\ Seen' = Seen
      BY <2>3, <2>5 DEF Skip
    <3>2. TypeOK' /\ ResultInv'
      BY <2>1, <2>4, <2>5, <3>1 DEF Skip, Look, IInv, TypeOK, ResultInv
    <3> QED BY <2>5, <3>1, <3>2 DEF Skip, Look, IInv, PassInv
  <2>6. CASE Take
    <3>1. Look /\ Seen' = Seen \cup {i} /\ i \in Seen'
      BY <2>3, <2>6 DEF Take
    <3>2. TypeOK' /\ ResultInv'
      <4>1. ResultInv'
        BY <2>6, <3>1 DEF Take, Look, IInv, ResultInv
      <4>2. winner' \in 0..Len(mounts) /\ i' \in 1..(Len(mounts) + 1)
        BY <2>1, <2>4, <2>6, <3>1 DEF Take, Look
      <4>3. ambiguous' \in BOOLEAN
        BY <2>6 DEF Take
      <4>4. TypeOK'
        BY <3>1, <4>2, <4>3 DEF Look, IInv, TypeOK
      <4> QED BY <4>1, <4>4
    <3>3. winner' = i /\ mounts' = mounts /\ ~ambiguous' /\ winner' # 0
      BY <2>4, <2>6, <3>1 DEF Take, Look
    <3>4. ASSUME NEW k \in Seen
          PROVE  ~Beats(mounts[k], mounts[i]) /\ ~Ties(mounts[k], mounts[i])
      <4>1. winner \in Seen /\ Beats(mounts[i], mounts[winner])
                            /\ ~Beats(mounts[k], mounts[winner])
        BY <2>6, <3>4 DEF Take, IInv, PassInv
      <4> QED BY <2>1, <2>4, <3>1, <3>4, <4>1, NewWinner
    <3>5. ~Beats(mounts[i], mounts[i])
      BY <2>1, <2>4, <3>1, Trichotomy
    <3>6. PassInv'
      BY <3>1, <3>3, <3>4, <3>5 DEF PassInv
    <3> QED BY <3>2, <3>6 DEF IInv
  <2>7. CASE Keep
    <3>1. Look /\ Seen' = Seen \cup {i}
      BY <2>3, <2>7 DEF Keep
    <3>2. TypeOK' /\ ResultInv'
      BY <2>1, <2>4, <2>7, <3>1 DEF Keep, Look, IInv, TypeOK, ResultInv
    <3>3. winner' = winner /\ mounts' = mounts /\ winner # 0 /\ winner # i
      BY <2>4, <2>7, <3>1 DEF Keep, Look, IInv, PassInv
    <3> QED BY <2>7, <3>1, <3>2, <3>3 DEF Keep, IInv, PassInv
  <2>8. CASE Finish
    <3>1. i = Len(mounts) + 1
      BY <2>1, <2>8 DEF Finish, IInv, TypeOK
    <3>2. PassInv'
      BY <2>8 DEF Finish, IInv, PassInv, Seen
    <3>3. result' \in [kind : Kinds, mount : 0..Len(mounts), target : Seq(Chars)]
      <4>1. winner # 0 => Target(mounts[winner], request.path) \in Seq(Chars)
        <5> SUFFICES ASSUME winner # 0 PROVE Target(mounts[winner], request.path) \in Seq(Chars)
          OBVIOUS
        <5>1. winner \in Seen /\ winner \in 1..Len(mounts) /\ mounts[winner] \in Mount
          BY <2>1 DEF IInv, TypeOK, PassInv
        <5>2. request.path \in Seq(Chars)
          BY <2>8, ResolverAssumption DEF Finish, IInv, TypeOK, ResultInv, Request
        <5> DEFINE m == mounts[winner]
        <5>3. m.target \in Seq(Chars) /\ m.stem \in Seq(Chars)
          BY <5>1 DEF Mount
        <5>4. m.wild => SubSeq(request.path, Len(m.stem) + 1, Len(request.path)) \in Seq(Chars)
          BY <5>2, <5>3
        <5> QED BY <5>3, <5>4 DEF Target
      <4> QED BY <2>1, <2>8, <4>1 DEF Finish, IInv, TypeOK, Outcome, Kinds
    <3>4. TypeOK'
      BY <2>8, <3>3 DEF Finish, IInv, TypeOK
    <3>5. ResultInv'
      BY <2>8, <3>1 DEF Finish, IInv, ResultInv, Outcome
    <3> QED BY <3>2, <3>4, <3>5 DEF IInv
  <2>9. CASE UNCHANGED vars
    BY <2>9 DEF vars, IInv, TypeOK, PassInv, ResultInv, Seen
  <2> QED BY <2>2, <2>5, <2>6, <2>7, <2>8, <2>9 DEF Next, Terminated
<1> QED BY <1>1, <1>2, PTL DEF Spec

\* Every index and flag of the pass stays in range, whatever the list.
THEOREM ResolverTyped == Spec => []TypeOK
<1>1. IInv => TypeOK
  BY DEF IInv
<1> QED BY <1>1, PassInvariant, PTL

\* At the end of the pass Seen is everything that applies.
LEMMA PassComplete ==
  ASSUME IInv, pc = "done", request.path # Unsafe
  PROVE  /\ Seen = Applicable
         /\ Applicable \subseteq 1..Len(mounts)
         /\ \A k \in Applicable : mounts[k] \in Mount
<1>1. /\ Len(mounts) \in Nat /\ DOMAIN mounts = 1..Len(mounts)
      /\ \A k \in 1..Len(mounts) : mounts[k] \in Mount
  BY ResolverAssumption DEF IInv, TypeOK
<1>2. i - 1 = Len(mounts)
  BY <1>1 DEF IInv, ResultInv
<1> QED BY <1>1, <1>2 DEF Seen, Applicable

\* The winner of the whole pass is what the unordered definition says.
LEMMA UniqueBestInv == IInv => ResolvedIsUniqueBest
<1> SUFFICES ASSUME IInv, pc = "done", request.path # Unsafe
             PROVE  /\ result.kind = "match" <=> Undefeated = {result.mount}
                    /\ result.kind = "noMatch" <=> Applicable = {}
                    /\ result.kind = "ambiguous"
                         <=> Applicable # {} /\ \A k \in Applicable : Undefeated # {k}
  BY DEF ResolvedIsUniqueBest
<1>1. /\ Seen = Applicable
      /\ \A k \in Applicable : mounts[k] \in Mount
  BY PassComplete
<1>2. /\ result.kind = IF winner = 0 THEN "noMatch"
                       ELSE IF ambiguous THEN "ambiguous" ELSE "match"
      /\ result.kind = "match" => result.mount = winner
  BY DEF IInv, ResultInv
<1>3. Undefeated \subseteq Applicable
  BY DEF Undefeated
<1>4. CASE winner = 0
  <2>1. Applicable = {} /\ result.kind = "noMatch"
    BY <1>1, <1>2, <1>4 DEF IInv, PassInv
  <2> QED BY <1>3, <2>1
<1>5. CASE winner # 0
  <2>1. /\ winner \in Applicable
        /\ \A k \in Applicable : ~Beats(mounts[k], mounts[winner])
        /\ ambiguous <=> \E k \in Applicable : k # winner /\ Ties(mounts[k], mounts[winner])
    BY <1>1, <1>5 DEF IInv, PassInv
  <2>2. winner \in Undefeated
    BY <2>1 DEF Undefeated
  <2>3. CASE ambiguous
    <3>1. PICK k \in Applicable : k # winner /\ Ties(mounts[k], mounts[winner])
      BY <2>1, <2>3
    <3>2. ASSUME NEW j \in Applicable PROVE ~Beats(mounts[j], mounts[k])
      BY <1>1, <2>1, <3>1, <3>2, TiesShareRank
    <3>3. k \in Undefeated
      BY <3>2 DEF Undefeated
    <3>4. result.kind = "ambiguous"
      BY <1>2, <1>5, <2>3
    <3>5. \A n : Undefeated # {n}
      BY <2>2, <3>1, <3>3
    <3> QED BY <2>1, <3>4, <3>5
  <2>4. CASE ~ambiguous
    <3>1. ASSUME NEW k \in Undefeated, k # winner PROVE FALSE
      <4>1. k \in Applicable /\ ~Beats(mounts[winner], mounts[k])
        BY <2>1, <3>1 DEF Undefeated
      <4>2. ~Ties(mounts[k], mounts[winner]) /\ ~Beats(mounts[k], mounts[winner])
        BY <2>1, <2>4, <3>1, <4>1
      <4> QED BY <1>1, <2>1, <4>1, <4>2, Trichotomy
    <3>2. Undefeated = {winner}
      BY <2>2, <3>1
    <3>3. result.kind = "match" /\ result.mount = winner
      BY <1>2, <1>5, <2>4
    <3> QED BY <2>1, <3>2, <3>3
  <2> QED BY <2>3, <2>4
<1> QED BY <1>4, <1>5

\* For every list and request the pass returns the mount that beats all others
\* that apply, or reports that no mount applies or that the best ones tie.
THEOREM ResolverUniqueBest == Spec => []ResolvedIsUniqueBest
BY UniqueBestInv, PassInvariant, PTL

\* What holds of a result that looked at the mounts.
LEMMA WinnerApplies ==
  ASSUME IInv, result.kind \in {"match", "ambiguous"}
  PROVE  /\ request.path \in Seq(Chars)
         /\ winner \in Applicable
         /\ \A k \in Applicable : mounts[k] \in Mount /\ matchPath(mounts[k], request.path)
         /\ \A k \in Applicable : ~Beats(mounts[k], mounts[winner])
         /\ result.kind = "match" => result.mount = winner
         /\ result.kind = "ambiguous" =>
              \E k \in Applicable : k # winner /\ Ties(mounts[k], mounts[winner])
<1>1. pc = "done" /\ request.path # Unsafe
  BY DEF IInv, TypeOK, ResultInv, Outcome
<1>2. request.path \in Seq(Chars)
  BY <1>1, ResolverAssumption DEF IInv, TypeOK, Request
<1>3. Seen = Applicable /\ \A k \in Applicable : mounts[k] \in Mount
  BY <1>1, PassComplete
<1>4. winner # 0
  BY <1>1 DEF IInv, ResultInv
<1>5. result.kind = "ambiguous" => ambiguous
  BY <1>1 DEF IInv, ResultInv
<1>6. result.kind = "match" => result.mount = winner
  BY <1>1 DEF IInv, ResultInv
<1>7. \A k \in Applicable : matchPath(mounts[k], request.path)
  BY DEF Applicable, Applies
<1> QED BY <1>2, <1>3, <1>4, <1>5, <1>6, <1>7 DEF IInv, PassInv

\* The winner's specificity bounds that of all that apply.
LEMMA MostSpecificInv == IInv => WinnerIsMostSpecific
<1> SUFFICES ASSUME IInv, result.kind = "match", NEW k \in Applicable
             PROVE  \/ SamePattern(mounts[k], mounts[winner])
                    \/ /\ mounts[k].wild
                       /\ IsStem(mounts[k].stem, mounts[winner].stem)
                       /\ mounts[winner].wild => mounts[k].stem # mounts[winner].stem
  BY WinnerApplies DEF WinnerIsMostSpecific
<1>1. /\ request.path \in Seq(Chars)
      /\ mounts[k] \in Mount /\ mounts[winner] \in Mount
      /\ matchPath(mounts[k], request.path) /\ matchPath(mounts[winner], request.path)
      /\ ~Beats(mounts[k], mounts[winner])
  BY WinnerApplies
<1>2. Specificity(mounts[k]) <= Specificity(mounts[winner])
  BY <1>1, KeysTyped DEF Beats
<1>3. CASE Specificity(mounts[k]) = Specificity(mounts[winner])
  BY <1>1, <1>3, SpecificityTells
<1>4. CASE Specificity(mounts[k]) < Specificity(mounts[winner])
  BY <1>1, <1>4, LessSpecific
<1> QED BY <1>1, <1>2, <1>3, <1>4, KeysTyped

\* No priority, source or scope lifts a mount over a more specific pattern.
THEOREM ResolverMostSpecific == Spec => []WinnerIsMostSpecific
BY MostSpecificInv, PassInvariant, PTL

\* A tie with the winner is a tie of two equal patterns.
LEMMA AmbiguityInv == IInv => AmbiguityIsStatic
<1> SUFFICES ASSUME IInv, result.kind = "ambiguous"
             PROVE  \E k, j \in DOMAIN mounts :
                      /\ k # j
                      /\ SamePattern(mounts[k], mounts[j])
                      /\ mounts[k].source = mounts[j].source
                      /\ mounts[k].priority = mounts[j].priority
                      /\ Scope(mounts[k]) = Scope(mounts[j])
  BY DEF AmbiguityIsStatic
<1>1. PICK k \in Applicable : k # winner /\ Ties(mounts[k], mounts[winner])
  BY WinnerApplies
<1>2. /\ request.path \in Seq(Chars) /\ winner \in Applicable
      /\ mounts[k] \in Mount /\ mounts[winner] \in Mount
      /\ matchPath(mounts[k], request.path) /\ matchPath(mounts[winner], request.path)
  BY WinnerApplies
<1>3. SamePattern(mounts[k], mounts[winner])
  BY <1>1, <1>2, SpecificityTells DEF Ties
<1>4. mounts[k].source = mounts[winner].source
  <2>1. /\ mounts[k].source \in {None, request.source}
        /\ mounts[winner].source \in {None, request.source}
    BY <1>2 DEF Applicable, Applies, matchSource
  <2>2. Authority(mounts[k]) = Authority(mounts[winner])
    BY <1>1 DEF Ties
  <2> QED BY <2>1, <2>2 DEF Authority
<1>5. k \in DOMAIN mounts /\ winner \in DOMAIN mounts
  BY <1>2 DEF Applicable
<1> QED BY <1>1, <1>3, <1>4, <1>5 DEF Ties

\* Every ambiguity a request can meet is visible in the configuration alone.
THEOREM ResolverAmbiguityIsStatic == Spec => []AmbiguityIsStatic
BY AmbiguityInv, PassInvariant, PTL

-----------------------------------------------------------------------------
(***************************************************************************)
(* ServeHTTP.  Each stage keeps what the checks before it found out, and a   *)
(* response tells which check ended the request.                            *)
(***************************************************************************)
ConfigInv ==
  /\ request = ServedRequest(client) /\ client.raw \in Seq(STRING)
  /\ \A k \in DOMAIN mounts : mounts[k].target # <<>>
  /\ client.odd => client.source # None
  /\ result.kind = "match" => result.target = Target(mounts[result.mount], request.path)

Matched == ~BadTarget /\ pc = "done" /\ result.kind = "match" /\ client.address
Allowed == Matched /\ Judged(result.target) \in permits
Parses == urlParse(result.target).ok

\* What may have ended a request for which no backend was asked.
EndedEarly ==
  \/ BadTarget /\ status = 400
  \/ /\ ~BadTarget /\ pc = "done"
     /\ \/ result.kind = "noMatch" /\ status = 404
        \/ result.kind = "unsafe" /\ status = 400
        \/ result.kind = "ambiguous" /\ status = 500
        \/ result.kind = "match" /\ ~client.address
  \/ Matched /\ Judged(result.target) \notin permits /\ status = 403
  \/ Allowed /\ ~Parses /\ status = 502
  \/ Allowed /\ Parses /\ status = 413

StageInv ==
  /\ stage \in {"start", "resolve", "policy", "backend", "responded"}
  /\ stage = "resolve" => ~BadTarget
  /\ stage = "policy" => Matched
  /\ stage = "backend" => Allowed
  /\ resource # <<>> =>
       /\ Allowed /\ Parses
       /\ stage \in {"backend", "responded"}
       /\ resource = <<backendResource(result.target, client.query)>>
  /\ stage = "responded" /\ resource = <<>> => EndedEarly

FrontInv == ConfigInv /\ StageInv

\* The frontend resolves with ResolveFor as it is: whatever is proved of it holds
\* of every request the frontend serves.
THEOREM FrontendResolves == FrontSpec => Spec
<1>1. FrontInit => Init
  <2> SUFFICES ASSUME FrontInit PROVE Init
    OBVIOUS
  <2>1. PICK c \in Cases : client = c.client /\ mounts = c.mounts
    BY DEF FrontInit
  <2>2. mounts \in MountLists /\ request \in Requests
    BY <2>1, FrontendAssumption DEF FrontInit
  <2> QED BY <2>2 DEF FrontInit, Init
<1>2. [FrontNext]_frontVars => [Next]_vars
  BY DEF FrontNext, frontVars, RefuseTarget, Begin, ResolveFor, ResolveFails, Resolved, Authorise,
         NotAsked, Ask, Answered, Responded, Next
<1> QED BY <1>1, <1>2, PTL DEF FrontSpec, Spec

\* It holds of a request that has just come in.
LEMMA FrontStarts == FrontInit => FrontInv
<1> SUFFICES ASSUME FrontInit PROVE FrontInv
  OBVIOUS
<1>1. PICK c \in Cases : client = c.client
  BY DEF FrontInit
<1>2. client.raw \in Seq(STRING) /\ (client.odd => client.source # None)
  BY <1>1, FrontendAssumption
<1>3. \A k \in DOMAIN mounts : mounts[k].target # <<>>
  BY DEF FrontInit, ValidateSyntax
<1>4. ConfigInv
  BY <1>2, <1>3 DEF FrontInit, ConfigInv, Outcome
<1> QED BY <1>4 DEF FrontInit, FrontInv, StageInv

\* A step behind the resolution changes nothing the resolution found.
LEMMA Settled ==
  ASSUME UNCHANGED <<vars, client, permits>>
  PROVE  /\ ConfigInv' <=> ConfigInv
         /\ Matched' <=> Matched
         /\ Allowed' <=> Allowed
         /\ Parses' <=> Parses
         /\ BadTarget' <=> BadTarget
<1>1. BadTarget' <=> BadTarget
  BY DEF BadTarget
<1>2. Matched' <=> Matched
  BY <1>1 DEF Matched, vars
<1>3. Allowed' <=> Allowed
  BY <1>2 DEF Allowed, vars, Judged
<1>4. Parses' <=> Parses
  BY DEF Parses, vars
<1>5. ConfigInv' <=> ConfigInv
  BY DEF ConfigInv, vars
<1> QED BY <1>1, <1>2, <1>3, <1>4, <1>5

\* Each step of ServeHTTP keeps it.
LEMMA FrontStep == IInv /\ FrontInv /\ [FrontNext]_frontVars => FrontInv'
<1> SUFFICES ASSUME IInv, FrontInv, [FrontNext]_frontVars PROVE FrontInv'
  OBVIOUS
<1>1. ASSUME UNCHANGED <<vars, client, permits, resource>>, resource = <<>>,
             Respond(status'), EndedEarly'
      PROVE  FrontInv'
  BY <1>1, Settled DEF FrontInv, StageInv, Respond
<1>2. CASE RefuseTarget
  <2>1. /\ UNCHANGED <<vars, client, permits, resource>> /\ resource = <<>>
        /\ BadTarget /\ Respond(status') /\ status' = 400
    BY <1>2 DEF RefuseTarget, Respond, FrontInv, StageInv
  <2>2. EndedEarly'
    BY <2>1, Settled DEF EndedEarly
  <2> QED BY <1>1, <2>1, <2>2
<1>3. CASE Begin
  <2>1. /\ UNCHANGED <<vars, client, permits, resource>> /\ resource = <<>>
        /\ ~BadTarget /\ stage' = "resolve"
    BY <1>3 DEF Begin, FrontInv, StageInv
  <2> QED BY <2>1, Settled DEF FrontInv, StageInv
<1>4. CASE ResolveFor
  <2>1. /\ stage = "resolve" /\ resource = <<>> /\ ~BadTarget
        /\ UNCHANGED <<client, permits, stage, resource, status, mounts, request>>
    BY <1>4 DEF ResolveFor, frontend, FrontInv, StageInv, Normalize, Skip, Take, Keep, Look, Finish
  <2>2. StageInv'
    BY <2>1 DEF StageInv, BadTarget
  <2>3. ASSUME result'.kind = "match"
        PROVE  result'.target = Target(mounts[result'.mount], request.path)
    <3>1. CASE result' = result
      BY <2>3, <3>1 DEF FrontInv, ConfigInv
    <3>2. CASE Normalize /\ result' # result
      BY <2>3, <3>2 DEF Normalize, Outcome
    <3>3. CASE Finish
      BY <2>3, <3>3 DEF Finish, Outcome
    <3> QED BY <1>4, <3>1, <3>2, <3>3 DEF ResolveFor, Skip, Take, Keep, Look
  <2>4. ConfigInv'
    BY <2>1, <2>3 DEF FrontInv, ConfigInv
  <2> QED BY <2>2, <2>4 DEF FrontInv
<1>5. CASE ResolveFails
  <2>1. /\ UNCHANGED <<vars, client, permits, resource>> /\ resource = <<>>
        /\ ~BadTarget /\ Respond(status') /\ pc = "done" /\ result.kind # "match"
        /\ status' = CASE result.kind = "noMatch" -> 404 [] result.kind = "unsafe" -> 400
                       [] OTHER -> 500
    BY <1>5 DEF ResolveFails, Respond, FrontInv, StageInv
  <2>2. result.kind \in {"noMatch", "unsafe", "ambiguous"}
    BY <2>1 DEF IInv, ResultInv, Outcome
  <2>3. EndedEarly'
    BY <2>1, <2>2, Settled DEF EndedEarly, vars
  <2> QED BY <1>1, <2>1, <2>3
<1>6. CASE Resolved
  <2>1. /\ UNCHANGED <<vars, client, permits, resource>> /\ resource = <<>>
        /\ ~BadTarget /\ pc = "done" /\ result.kind = "match"
    BY <1>6 DEF Resolved, FrontInv, StageInv
  <2>2. CASE client.address
    <3>1. stage' = "policy" /\ Matched
      BY <1>6, <2>1, <2>2 DEF Resolved, Matched
    <3> QED BY <2>1, <3>1, Settled DEF FrontInv, StageInv
  <2>3. CASE ~client.address
    <3>1. Respond(status')
      BY <1>6, <2>3 DEF Resolved, Respond
    <3>2. EndedEarly'
      BY <2>1, <2>3, Settled DEF EndedEarly, vars
    <3> QED BY <1>1, <2>1, <3>1, <3>2
  <2> QED BY <2>2, <2>3
<1>7. CASE Authorise
  <2>1. /\ UNCHANGED <<vars, client, permits, resource>> /\ resource = <<>> /\ Matched
    BY <1>7 DEF Authorise, FrontInv, StageInv
  <2>2. CASE Judged(result.target) \in permits
    <3>1. stage' = "backend" /\ Allowed
      BY <1>7, <2>1, <2>2 DEF Authorise, Allowed
    <3> QED BY <2>1, <3>1, Settled DEF FrontInv, StageInv
  <2>3. CASE Judged(result.target) \notin permits
    <3>1. Respond(status') /\ status' = 403
      BY <1>7, <2>3 DEF Authorise, Respond
    <3>2. Matched' /\ (Judged(result.target) \notin permits)'
      BY <2>1, <2>3, Settled DEF vars, Judged
    <3> QED BY <1>1, <2>1, <3>1, <3>2 DEF EndedEarly
  <2> QED BY <2>2, <2>3
<1>8. CASE NotAsked
  <2>1. /\ UNCHANGED <<vars, client, permits, resource>> /\ resource = <<>> /\ Allowed
        /\ Respond(status')
        /\ (~Parses /\ status' = 502) \/ (Parses /\ status' = 413)
    BY <1>8 DEF NotAsked, Respond, Parses, FrontInv, StageInv
  <2>2. EndedEarly'
    BY <2>1, Settled DEF EndedEarly
  <2> QED BY <1>1, <2>1, <2>2
<1>9. CASE Ask
  <2>1. /\ UNCHANGED <<vars, client, permits, stage>> /\ stage = "backend" /\ Allowed /\ Parses
        /\ resource' = <<backendResource(result.target, client.query)>>
    BY <1>9 DEF Ask, Parses, FrontInv, StageInv
  <2>2. resource' = <<backendResource(result'.target, client'.query)>>
    BY <2>1 DEF vars
  <2> QED BY <2>1, <2>2, Settled DEF FrontInv, StageInv
<1>10. CASE Answered
  <2>1. /\ UNCHANGED <<vars, client, permits, resource>> /\ resource # <<>>
        /\ stage' = "responded"
    BY <1>10 DEF Answered, Respond
  <2>2. resource' = <<backendResource(result'.target, client'.query)>>
    BY <2>1 DEF vars, FrontInv, StageInv
  <2> QED BY <2>1, <2>2, Settled DEF FrontInv, StageInv
<1>11. CASE UNCHANGED frontVars
  <2>1. UNCHANGED <<vars, client, permits, stage, resource, status>>
    BY <1>11 DEF frontVars, frontend
  <2>2. EndedEarly' <=> EndedEarly
    BY <2>1, Settled DEF EndedEarly, vars, Judged
  <2>3. backendResource(result'.target, client'.query) = backendResource(result.target, client.query)
    BY <2>1 DEF vars
  <2> QED BY <2>1, <2>2, <2>3, Settled DEF FrontInv, StageInv
<1> QED BY <1>2, <1>3, <1>4, <1>5, <1>6, <1>7, <1>8, <1>9, <1>10, <1>11 DEF FrontNext, Responded

\* So it holds throughout, beside the invariant of ResolveFor's pass.
LEMMA FrontInvariant == FrontSpec => [](IInv /\ FrontInv)
BY FrontendResolves, PassInvariant, FrontStarts, FrontStep, PTL DEF FrontSpec

\* What ResolveFor promises holds of every request that is served.
THEOREM FrontendUniqueBest ==
  FrontSpec => [](ResolvedIsUniqueBest /\ WinnerIsMostSpecific /\ AmbiguityIsStatic)
BY FrontendResolves, ResolverUniqueBest, ResolverMostSpecific, ResolverAmbiguityIsStatic, PTL

\* A rewritten target begins as the mount's own does, with scheme and host.
LEMMA TargetKeepsHost ==
  ASSUME NEW m \in Mount, m.target # <<>>, NEW path \in Seq(Chars)
  PROVE  Target(m, path)[1] = m.target[1]
<1>1. /\ m.target \in Seq(Chars) /\ Len(m.target) \in Nat \ {0}
      /\ m.stem \in Seq(Chars) /\ Len(m.stem) \in Nat
  BY DEF Mount
<1>2. ASSUME NEW rest \in Seq(Chars) PROVE (m.target \o rest)[1] = m.target[1]
  BY <1>1
<1>3. <<>> \in Seq(Chars) /\ SubSeq(path, Len(m.stem) + 1, Len(path)) \in Seq(Chars)
  BY <1>1
<1> QED BY <1>2, <1>3 DEF Target

\* Merging the queries leaves the host alone.
LEMMA ResourceKeepsHost ==
  ASSUME NEW target, NEW query
  PROVE  backendResource(target, query).host = target[1]
<1>1. urlParse(target).host = target[1]
  BY DEF urlParse
<1> DEFINE parsed == urlParse(target)
<1>2. ASSUME NEW q PROVE [parsed EXCEPT !.query = q].host = parsed.host
  BY DEF urlParse
<1> QED BY <1>1, <1>2 DEF backendResource

\* No configuration, path, rewriting or query takes a request to a host other than
\* the one its policies permitted.
THEOREM FrontendBackendAuthorised == FrontSpec => []BackendIsAuthorised
<1>1. IInv /\ FrontInv => BackendIsAuthorised
  <2> SUFFICES ASSUME IInv, FrontInv, resource # <<>>
               PROVE  /\ [destination |-> resource[1].host, method |-> client.method] \in permits
                      /\ result.kind = "match" /\ client.address
                      /\ resource[1].host = mounts[result.mount].target[1]
    BY DEF BackendIsAuthorised
  <2>1. /\ Allowed /\ Parses
        /\ resource = <<backendResource(result.target, client.query)>>
    BY DEF FrontInv, StageInv
  <2>2. resource[1].host = result.target[1]
    BY <2>1, ResourceKeepsHost
  <2>3. Judged(result.target) = [destination |-> result.target[1], method |-> client.method]
    <3>1. urlParse(result.target).host = result.target[1]
      BY DEF urlParse
    <3> QED BY <2>1, <3>1 DEF Parses, Judged, targetHostname
  <2>4. result.kind = "match" /\ client.address /\ Judged(result.target) \in permits
    BY <2>1 DEF Allowed, Matched
  <2>5. result.target[1] = mounts[result.mount].target[1]
    <3>1. /\ request.path \in Seq(Chars) /\ mounts[result.mount] \in Mount
          /\ result.mount \in DOMAIN mounts
      BY <2>4, WinnerApplies DEF Applicable
    <3>2. /\ result.target = Target(mounts[result.mount], request.path)
          /\ mounts[result.mount].target # <<>>
      BY <2>4, <3>1 DEF FrontInv, ConfigInv
    <3> QED BY <3>1, <3>2, TargetKeepsHost
  <2> QED BY <2>2, <2>3, <2>4, <2>5
<1> QED BY <1>1, FrontInvariant, PTL

-----------------------------------------------------------------------------
(***************************************************************************)
(* Induction over numbers and positions, from the least exception, and       *)
(* FlattenSeq by what it leaves of each of its sequences.                    *)
(***************************************************************************)
\* A nonempty set of natural numbers has a least one; what would be proved by
\* induction is proved from the least exception.
LEMMA LeastOf ==
  ASSUME NEW T, T \subseteq Nat, T # {}
  PROVE  \E x \in T : \A y \in T : x <= y
<1> DEFINE R == OpToRel(<, Nat)
<1>1. IsWellFoundedOn(R, Nat)
  BY NatLessThanWellFounded
<1> HIDE DEF R
<1>2. PICK x \in T : \A y \in T : ~(<<y, x>> \in R)
  BY <1>1, WFMin
<1>3. \A y \in Nat : y < x => <<y, x>> \in R
  BY DEF R, OpToRel
<1>4. ASSUME NEW y \in T PROVE x <= y
  <2>1. ~(y < x)
    BY <1>2, <1>3
  <2> QED BY <2>1
<1> QED BY <1>4

\* A set of numbers that holds the first and with each one the next holds them all.
LEMMA Climbs ==
  ASSUME NEW n \in Nat, NEW k \in 0..n, NEW S, k \in S,
         \A j \in k..n : j \in S /\ j # n => j + 1 \in S
  PROVE  \A j \in k..n : j \in S
<1> DEFINE X == {j \in k..n : j \notin S}
<1> SUFFICES ASSUME X # {} PROVE FALSE
  OBVIOUS
<1>1. X \subseteq Nat
  OBVIOUS
<1>2. PICK x \in X : \A y \in X : x <= y
  <2> HIDE DEF X
  <2> QED BY <1>1, LeastOf
<1>3. x \in k..n /\ x \notin S /\ x # k
  BY <1>2
<1>4. x - 1 \in k..n /\ x - 1 # n /\ (x - 1) + 1 = x
  BY <1>3
<1>5. x - 1 \notin X
  BY <1>2, <1>3
<1> QED BY <1>3, <1>4, <1>5

\* g[k] is the first k sequences of ss, one behind the other.
Joins(g, ss, T) ==
  /\ g \in [0..Len(ss) -> Seq(T)]
  /\ g[0] = <<>>
  /\ \A k \in 1..Len(ss) : g[k] = g[k - 1] \o ss[k]

\* There is such a g.
LEMMA JoinsExist ==
  ASSUME NEW T, NEW ss \in Seq(Seq(T))
  PROVE  \E g : Joins(g, ss, T)
<1>1. PICK n \in Nat : n = Len(ss)
  OBVIOUS
<1> DEFINE Upto(m) == \E g \in [0..m -> Seq(T)] : g[0] = <<>> /\ \A k \in 1..m : g[k] = g[k - 1] \o ss[k]
           S == {m \in 0..n : Upto(m)}
<1>2. Upto(0)
  <2> DEFINE h == [k \in 0..0 |-> <<>>]
  <2>1. h \in [0..0 -> Seq(T)] /\ h[0] = <<>> /\ 1..0 = {}
    OBVIOUS
  <2> HIDE DEF h
  <2> QED BY <2>1
<1>3. ASSUME NEW m \in 0..n, m # n, Upto(m) PROVE Upto(m + 1)
  <2>1. PICK g \in [0..m -> Seq(T)] : g[0] = <<>> /\ \A k \in 1..m : g[k] = g[k - 1] \o ss[k]
    BY <1>3
  <2> DEFINE h == [k \in 0..(m + 1) |-> IF k = m + 1 THEN g[m] \o ss[m + 1] ELSE g[k]]
  <2>2. ss[m + 1] \in Seq(T) /\ m + 1 \in 1..n /\ m \in 0..m
    <3>1. m + 1 \in 1..n /\ m \in 0..m
      BY <1>3
    <3> QED BY <1>1, <3>1, ElementOfSeq
  <2>3. g[m] \o ss[m + 1] \in Seq(T)
    BY <2>2
  <2>4. h \in [0..(m + 1) -> Seq(T)]
    BY <2>3
  <2>5. h[0] = <<>> /\ h[m + 1] = g[m] \o ss[m + 1]
    <3>1. 0 \in 0..(m + 1) /\ m + 1 \in 0..(m + 1) /\ 0 # m + 1
      OBVIOUS
    <3> QED BY <2>1, <3>1
  <2>6. \A k \in 0..m : h[k] = g[k]
    OBVIOUS
  <2> HIDE DEF h
  <2>7. ASSUME NEW k \in 1..(m + 1) PROVE h[k] = h[k - 1] \o ss[k]
    <3>1. k = m + 1 \/ (k \in 1..m /\ k \in 0..m /\ k - 1 \in 0..m)
      OBVIOUS
    <3>2. CASE k = m + 1
      <4>1. k - 1 = m
        BY <3>2
      <4> QED BY <2>2, <2>5, <2>6, <3>2, <4>1
    <3> QED BY <2>1, <2>6, <3>1, <3>2
  <2> QED BY <2>4, <2>5, <2>7
<1> HIDE DEF Upto
<1>4. 0 \in S /\ \A m \in 0..n : m \in S /\ m # n => m + 1 \in S
  BY <1>2, <1>3
<1>5. n \in S
  <2> HIDE DEF S
  <2>1. 0 \in 0..n /\ n \in 0..n
    OBVIOUS
  <2> QED BY <1>4, <2>1, Climbs
<1> QED BY <1>1, <1>5 DEF Joins, Upto

\* FlattenSeq is the last of them.
LEMMA FlattenIs ==
  ASSUME NEW T, NEW ss \in Seq(Seq(T)), NEW g, Joins(g, ss, T)
  PROVE  SeqExt!FlattenSeq(ss) = g[Len(ss)]
<1>1. PICK n \in Nat : n = Len(ss)
  OBVIOUS
<1>2. CASE n = 0
  <2>1. SeqExt!FlattenSeq(ss) = ss /\ ss = <<>>
    BY <1>1, <1>2, EmptySeq DEF SeqExt!FlattenSeq
  <2> QED BY <1>1, <1>2, <2>1 DEF Joins
<1>3. CASE n # 0
  <2> DEFINE Rec(h) == h = [p \in 1..Len(ss) |-> IF p = 1 THEN ss[p] ELSE h[p - 1] \o ss[p]]
             G == [p \in 1..n |-> g[p]]
  <2>1. g[0] = <<>> /\ \A p \in 1..n : g[p] = g[p - 1] \o ss[p] /\ ss[p] \in Seq(T)
    BY <1>1, ElementOfSeq DEF Joins
  <2>2. g[1] = ss[1]
    <3>1. 1 \in 1..n /\ 1 - 1 = 0
      BY <1>3
    <3>2. g[1] = <<>> \o ss[1] /\ ss[1] \in Seq(T)
      BY <2>1, <3>1
    <3> QED BY <3>2, ConcatEmptySeq
  <2>3. ASSUME NEW p \in 1..n PROVE g[p] = IF p = 1 THEN ss[p] ELSE G[p - 1] \o ss[p]
    <3>1. p = 1 \/ p - 1 \in 1..n
      OBVIOUS
    <3> QED BY <2>1, <2>2, <3>1
  <2>4. Rec(G)
    BY <1>1, <2>3
  <2> HIDE DEF G
  <2>5. PICK h : h = CHOOSE k : Rec(k)
    OBVIOUS
  <2>6. Rec(h)
    <3> HIDE DEF Rec
    <3> QED BY <2>4, <2>5
  <2>7. \A p \in 1..n : h[p] = IF p = 1 THEN ss[p] ELSE h[p - 1] \o ss[p]
    BY <1>1, <2>6
  <2>8. SeqExt!FlattenSeq(ss) = h[n]
    <3>1. SeqExt!FlattenSeq(ss) = (CHOOSE k : Rec(k))[Len(ss)]
      BY <1>1, <1>3 DEF SeqExt!FlattenSeq
    <3> HIDE DEF Rec
    <3> QED BY <1>1, <2>5, <3>1
  <2> DEFINE S == {p \in 1..n : h[p] = g[p]}
  <2>9. 1 \in S
    BY <1>3, <2>2, <2>7
  <2>10. ASSUME NEW p \in 1..n, p \in S, p # n PROVE p + 1 \in S
    <3>1. p + 1 \in 1..n /\ p + 1 # 1 /\ (p + 1) - 1 = p
      BY <2>10
    <3>2. h[p + 1] = h[p] \o ss[p + 1] /\ g[p + 1] = g[p] \o ss[p + 1]
      BY <2>1, <2>7, <3>1
    <3> QED BY <2>10, <3>1, <3>2
  <2>11. n \in S
    <3> HIDE DEF S
    <3>1. 1 \in 0..n /\ n \in 1..n
      BY <1>3
    <3> QED BY <2>9, <2>10, <3>1, Climbs
  <2> QED BY <1>1, <2>8, <2>11
<1> QED BY <1>2, <1>3

\* What is joined stays in front.
LEMMA JoinsGrow ==
  ASSUME NEW T, NEW ss \in Seq(Seq(T)), NEW g, Joins(g, ss, T), NEW x \in 0..Len(ss)
  PROVE  \A j \in x..Len(ss) : Len(g[x]) <= Len(g[j]) /\ \A k \in 1..Len(g[x]) : g[j][k] = g[x][k]
<1>1. PICK n \in Nat : n = Len(ss)
  OBVIOUS
<1>2. \A j \in 0..n : g[j] \in Seq(T)
  BY <1>1 DEF Joins
<1>3. \A j \in 1..n : g[j] = g[j - 1] \o ss[j] /\ ss[j] \in Seq(T)
  BY <1>1, ElementOfSeq DEF Joins
<1> DEFINE Holds(j) == Len(g[x]) <= Len(g[j]) /\ \A k \in 1..Len(g[x]) : g[j][k] = g[x][k]
           S == {j \in x..n : Holds(j)}
<1>4. Len(g[x]) \in Nat
  BY <1>1, <1>2, LenProperties
<1>5. Holds(x)
  BY <1>4
<1>6. ASSUME NEW j \in x..n, Holds(j), j # n PROVE Holds(j + 1)
  <2>1. j + 1 \in 1..n /\ (j + 1) - 1 = j /\ j \in 0..n
    BY <1>1, <1>6
  <2>2. PICK p \in Seq(T) : p = g[j]
    BY <1>2, <2>1
  <2>3. PICK q \in Seq(T) : q = ss[j + 1]
    BY <1>3, <2>1
  <2>4. g[j + 1] = p \o q
    BY <1>3, <2>1, <2>2, <2>3
  <2>5. Len(p \o q) = Len(p) + Len(q) /\ \A k \in 1..Len(p) : (p \o q)[k] = p[k]
    BY ConcatProperties, LenProperties
  <2>6. Len(p) \in Nat /\ Len(q) \in Nat
    BY LenProperties
  <2>7. Len(g[x]) <= Len(p) /\ \A k \in 1..Len(g[x]) : p[k] = g[x][k]
    BY <1>6, <2>2
  <2> QED BY <1>4, <2>4, <2>5, <2>6, <2>7
<1> HIDE DEF Holds
<1>7. x \in S /\ \A j \in x..n : j \in S /\ j # n => j + 1 \in S
  BY <1>1, <1>5, <1>6
<1>8. \A j \in x..n : j \in S
  <2> HIDE DEF S
  <2> QED BY <1>1, <1>7, Climbs
<1> QED BY <1>1, <1>8 DEF Holds

\* Of sequences of at most one element, L[k] counts those of the first k that end up in
\* out, and so tells where each one does.
Counts(L, ss, out) ==
  /\ L \in [0..Len(ss) -> Nat]
  /\ L[0] = 0 /\ L[Len(ss)] = Len(out)
  /\ \A k \in 1..Len(ss) : \/ Len(ss[k]) = 0 /\ L[k] = L[k - 1]
                           \/ Len(ss[k]) = 1 /\ L[k] = L[k - 1] + 1 /\ ss[k][1] = out[L[k]]

\* FlattenSeq has such a count.
LEMMA CountsExist ==
  ASSUME NEW T, NEW ss \in Seq(Seq(T)), \A x \in 1..Len(ss) : Len(ss[x]) <= 1
  PROVE  SeqExt!FlattenSeq(ss) \in Seq(T) /\ \E L : Counts(L, ss, SeqExt!FlattenSeq(ss))
<1>1. PICK n \in Nat : n = Len(ss)
  OBVIOUS
<1>2. PICK g : Joins(g, ss, T)
  BY JoinsExist
<1>3. PICK out : out = g[n] /\ out = SeqExt!FlattenSeq(ss)
  BY <1>1, <1>2, FlattenIs
<1>4. \A x \in 0..n : g[x] \in Seq(T)
  BY <1>1, <1>2 DEF Joins
<1>5. \A x \in 0..n : Len(g[x]) \in Nat
  BY <1>4, LenProperties
<1> DEFINE L == [x \in 0..n |-> Len(g[x])]
<1>6. L \in [0..n -> Nat] /\ L[0] = 0 /\ L[n] = Len(out)
  <2>1. Len(g[0]) = 0
    BY <1>2 DEF Joins
  <2>2. 0 \in 0..n /\ n \in 0..n
    OBVIOUS
  <2> QED BY <1>3, <1>5, <2>1, <2>2
<1>7. ASSUME NEW x \in 1..n
      PROVE  \/ Len(ss[x]) = 0 /\ L[x] = L[x - 1]
             \/ Len(ss[x]) = 1 /\ L[x] = L[x - 1] + 1 /\ ss[x][1] = out[L[x]]
  <2>1. x \in 0..n /\ x - 1 \in 0..n /\ n \in x..n
    OBVIOUS
  <2>2. PICK p \in Seq(T) : p = g[x - 1]
    BY <1>4, <2>1
  <2>3. PICK q \in Seq(T) : q = ss[x]
    BY <1>1, ElementOfSeq
  <2>4. g[x] = p \o q
    BY <1>1, <1>2, <2>2, <2>3 DEF Joins
  <2>5. L[x] = Len(p \o q) /\ L[x - 1] = Len(p)
    BY <2>1, <2>2, <2>4
  <2> HIDE DEF L
  <2>6. Len(p) \in Nat /\ Len(q) \in 0..1 /\ Len(p \o q) = Len(p) + Len(q)
    <3>1. Len(q) <= 1
      BY <1>1, <2>3
    <3>2. Len(p) \in Nat /\ Len(q) \in Nat
      BY LenProperties
    <3>3. Len(p \o q) = Len(p) + Len(q)
      BY ConcatProperties
    <3>4. Len(q) \in 0..1
      <4>1. PICK y \in Nat : y = Len(q)
        BY <3>2
      <4>2. y \in 0..1
        BY <3>1, <4>1
      <4> QED BY <4>1, <4>2
    <3> QED BY <3>2, <3>3, <3>4
  <2>7. CASE Len(q) = 0
    BY <2>3, <2>5, <2>6, <2>7
  <2>8. CASE Len(q) = 1
    <3>1. (p \o q)[Len(p) + 1] = q[1]
      BY <2>6, <2>8, ConcatProperties
    <3>2. Len(g[x]) = Len(p) + 1 /\ Len(p) + 1 \in 1..Len(g[x])
      BY <2>4, <2>6, <2>8
    <3>3. out[Len(p) + 1] = g[x][Len(p) + 1]
      <4>1. x \in 0..Len(ss) /\ n \in x..Len(ss)
        BY <1>1, <2>1
      <4>2. \A j \in x..Len(ss) : \A k \in 1..Len(g[x]) : g[j][k] = g[x][k]
        BY <1>2, <4>1, JoinsGrow
      <4>3. \A k \in 1..Len(g[x]) : g[n][k] = g[x][k]
        BY <4>1, <4>2
      <4> QED BY <1>3, <3>2, <4>3
    <3> QED BY <2>3, <2>4, <2>5, <2>6, <2>8, <3>1, <3>3
  <2> QED BY <2>6, <2>7, <2>8
<1> HIDE DEF L
<1>8. Counts(L, ss, out)
  BY <1>1, <1>6, <1>7 DEF Counts
<1>9. out \in Seq(T)
  <2>1. n \in 0..n
    OBVIOUS
  <2> QED BY <1>3, <1>4, <2>1
<1> QED BY <1>3, <1>8, <1>9

\* A count never falls.
LEMMA CountsGrow ==
  ASSUME NEW ss, Len(ss) \in Nat, NEW L, NEW out, Counts(L, ss, out), NEW k \in 0..Len(ss)
  PROVE  \A j \in k..Len(ss) : L[k] <= L[j]
<1>1. PICK n \in Nat : n = Len(ss)
  OBVIOUS
<1> DEFINE S == {j \in k..n : L[k] <= L[j]}
<1>2. \A j \in 0..n : L[j] \in Nat
  BY <1>1 DEF Counts
<1>3. \A j \in 1..n : L[j] \in {L[j - 1], L[j - 1] + 1}
  BY <1>1 DEF Counts
<1>4. k \in S
  BY <1>1, <1>2
<1>5. ASSUME NEW j \in k..n, j \in S, j # n PROVE j + 1 \in S
  <2>1. j + 1 \in 1..n /\ (j + 1) - 1 = j /\ j \in 0..n /\ j + 1 \in k..n /\ j + 1 \in 0..n
    BY <1>1, <1>5
  <2>2. L[k] <= L[j] /\ L[j + 1] \in {L[j], L[j] + 1} /\ L[k] \in Nat /\ L[j] \in Nat
    BY <1>1, <1>2, <1>3, <1>5, <2>1
  <2> QED BY <2>1, <2>2
<1>6. \A j \in k..n : j \in S
  <2> HIDE DEF S
  <2> QED BY <1>1, <1>4, <1>5, Climbs
<1> QED BY <1>1, <1>6

\* The kth element of out comes from one of the sequences.
Comes(k, L, ss, out) ==
  \E p \in 1..Len(ss) : L[p] = k /\ L[p - 1] = k - 1 /\ Len(ss[p]) = 1 /\ ss[p][1] = out[k]

\* Every one does.
LEMMA CountsHit ==
  ASSUME NEW ss, Len(ss) \in Nat, NEW L, NEW out, Counts(L, ss, out), NEW k \in 1..Len(out), Len(out) \in Nat
  PROVE  Comes(k, L, ss, out)
<1>1. PICK n \in Nat : n = Len(ss)
  OBVIOUS
<1> DEFINE X == {j \in 0..n : k <= L[j]}
<1>2. (\A j \in 0..n : L[j] \in Nat) /\ L[0] = 0 /\ L[n] = Len(out)
  BY <1>1 DEF Counts
<1>3. n \in X /\ X \subseteq Nat
  BY <1>1, <1>2
<1>4. PICK x \in X : \A y \in X : x <= y
  <2> HIDE DEF X
  <2> QED BY <1>3, LeastOf
<1>5. x \in 1..n /\ x - 1 \in 0..n /\ x - 1 \notin X /\ x \in 0..n
  BY <1>2, <1>4
<1>6. L[x - 1] < k /\ k <= L[x] /\ L[x] \in Nat /\ L[x - 1] \in Nat
  BY <1>2, <1>4, <1>5
<1> HIDE DEF X
<1>7. L[x] = k /\ L[x - 1] = k - 1
  <2>1. L[x] \in {L[x - 1], L[x - 1] + 1}
    BY <1>1, <1>5 DEF Counts
  <2> QED BY <1>6, <2>1
<1> QED BY <1>1, <1>5, <1>6, <1>7 DEF Counts, Comes

\* sub is the part of ss from a to b.
PartOf(sub, ss, a, b) ==
  /\ Len(ss) \in Nat /\ a \in 1..Len(ss) /\ b \in a..Len(ss)
  /\ Len(sub) = b - a + 1
  /\ \A k \in 1..(b - a + 1) : sub[k] = ss[a - 1 + k]

\* What is left of a part of the sequences is a part of what is left of them all.
LEMMA CountsPart ==
  ASSUME NEW T, NEW ss, NEW L, NEW out \in Seq(T), Counts(L, ss, out), NEW a, NEW b,
         NEW sub, PartOf(sub, ss, a, b), NEW M, NEW part \in Seq(T), Counts(M, sub, part)
  PROVE  part = SubSeq(out, L[a - 1] + 1, L[b])
<1> /\ Len(ss) \in Nat /\ a \in 1..Len(ss) /\ b \in a..Len(ss)
    /\ Len(sub) = b - a + 1
    /\ \A p \in 1..(b - a + 1) : sub[p] = ss[a - 1 + p]
  BY DEF PartOf
<1>1. PICK n \in Nat : n = Len(ss)
  OBVIOUS
<1>2. PICK m \in Nat : m = b - a + 1
  BY <1>1
<1>3. PICK c \in Nat : c = a - 1
  BY <1>1
<1>4. /\ \A p \in 0..n : L[p] \in Nat
      /\ \A p \in 1..n : \/ Len(ss[p]) = 0 /\ L[p] = L[p - 1]
                         \/ Len(ss[p]) = 1 /\ L[p] = L[p - 1] + 1 /\ ss[p][1] = out[L[p]]
      /\ L[n] = Len(out)
  BY <1>1 DEF Counts
<1>5. /\ \A p \in 0..m : M[p] \in Nat
      /\ \A p \in 1..m : \/ Len(sub[p]) = 0 /\ M[p] = M[p - 1]
                         \/ Len(sub[p]) = 1 /\ M[p] = M[p - 1] + 1 /\ sub[p][1] = part[M[p]]
      /\ M[0] = 0 /\ M[m] = Len(part)
  BY <1>2 DEF Counts
<1>6. c + m = b /\ c + m <= n /\ \A p \in 1..m : sub[p] = ss[c + p]
  BY <1>1, <1>2, <1>3
<1> DEFINE S == {p \in 0..m : M[p] = L[c + p] - L[c]}
<1>7. L[c] \in Nat /\ c \in 0..n
  BY <1>4, <1>6
<1>8. 0 \in S
  BY <1>5, <1>7
<1>9. ASSUME NEW p \in 0..m, p \in S, p # m PROVE p + 1 \in S
  <2>1. p + 1 \in 1..m /\ p + 1 \in 0..m /\ c + (p + 1) \in 1..n /\ c + (p + 1) \in 0..n /\ c + p \in 0..n
    BY <1>6, <1>9
  <2>2. (p + 1) - 1 = p /\ (c + (p + 1)) - 1 = c + p
    OBVIOUS
  <2>3. PICK x : x = sub[p + 1] /\ x = ss[c + (p + 1)]
    BY <1>6, <2>1
  <2>4. (Len(x) = 0 /\ M[p + 1] = M[p]) \/ (Len(x) = 1 /\ M[p + 1] = M[p] + 1)
    BY <1>5, <2>1, <2>2, <2>3
  <2>5. (Len(x) = 0 /\ L[c + (p + 1)] = L[c + p]) \/ (Len(x) = 1 /\ L[c + (p + 1)] = L[c + p] + 1)
    BY <1>4, <2>1, <2>2, <2>3
  <2>6. M[p] = L[c + p] - L[c] /\ L[c + p] \in Nat
    BY <1>4, <1>9, <2>1
  <2>7. M[p + 1] = L[c + (p + 1)] - L[c]
    <3>1. PICK u \in Nat, v \in Nat, w \in Nat, z \in Nat :
                 u = M[p + 1] /\ v = L[c + (p + 1)] /\ w = L[c + p] /\ z = L[c]
      <4>1. M[p + 1] \in Nat
        BY <1>5, <2>1
      <4>2. L[c + (p + 1)] \in Nat
        BY <1>4, <2>1
      <4> QED BY <1>7, <2>6, <4>1, <4>2
    <3>2. PICK y \in Nat : y = M[p] /\ y = w - z
      BY <2>6, <3>1, <1>5
    <3>3. (Len(x) = 0 /\ u = y) \/ (Len(x) = 1 /\ u = y + 1)
      BY ONLY <2>4, <3>1, <3>2
    <3>4. (Len(x) = 0 /\ v = w) \/ (Len(x) = 1 /\ v = w + 1)
      BY ONLY <2>5, <3>1
    <3>5. (u = y /\ v = w) \/ (u = y + 1 /\ v = w + 1)
      <4>1. PICK l : l = Len(x)
        OBVIOUS
      <4>2. (l = 0 /\ u = y) \/ (l = 1 /\ u = y + 1)
        BY ONLY <3>3, <4>1
      <4>3. (l = 0 /\ v = w) \/ (l = 1 /\ v = w + 1)
        BY ONLY <3>4, <4>1
      <4> QED BY ONLY <4>2, <4>3
    <3>6. y = w - z
      BY <3>2
    <3>7. u = v - z
      BY <3>5, <3>6
    <3> QED BY <3>1, <3>7
  <2> QED BY <2>1, <2>7
<1>10. \A p \in 0..m : p \in S
  <2> HIDE DEF S
  <2>1. 0 \in 0..m
    OBVIOUS
  <2> QED BY <1>8, <1>9, <2>1, Climbs
<1>11. \A p \in 0..m : M[p] = L[c + p] - L[c]
  BY <1>10
<1>12. L[b] \in Nat /\ Len(part) = L[b] - L[c] /\ Len(part) \in Nat
  <2>1. b \in 0..n /\ m \in 0..m
    BY <1>1
  <2> QED BY <1>4, <1>5, <1>6, <1>11, <2>1
<1>13. L[b] <= Len(out) /\ Len(out) \in Nat
  <2>1. b \in 0..n /\ n \in b..n
    BY <1>1
  <2> QED BY <1>1, <1>4, <2>1, CountsGrow
<1>14. ASSUME NEW k \in 1..Len(part) PROVE part[k] = out[L[c] + k]
  <2>1. PICK p \in 1..m : M[p] = k /\ M[p - 1] = k - 1 /\ Len(sub[p]) = 1 /\ sub[p][1] = part[k]
    <3>1. Len(sub) = m
      BY <1>2
    <3>2. Len(sub) \in Nat /\ Len(part) \in Nat /\ Counts(M, sub, part)
      BY <1>12, <3>1
    <3>3. Comes(k, M, sub, part)
      BY <3>2, CountsHit
    <3> QED BY <3>1, <3>3 DEF Comes
  <2>2. c + p \in 1..n /\ c + p \in 0..n /\ p \in 0..m
    BY <1>6
  <2>3. Len(ss[c + p]) = 1 /\ ss[c + p][1] = part[k]
    BY <1>6, <2>1
  <2>4. ss[c + p][1] = out[L[c + p]]
    BY <1>4, <2>2, <2>3
  <2>5. L[c + p] = L[c] + k
    <3>1. L[c + p] \in Nat /\ k = L[c + p] - L[c]
      BY <1>4, <1>11, <2>1, <2>2
    <3> QED BY <1>7, <3>1
  <2> QED BY <2>3, <2>4, <2>5
<1>15. PICK whole : whole = SubSeq(out, L[c] + 1, L[b])
  OBVIOUS
<1>16. whole \in Seq(T) /\ Len(whole) = Len(part) /\ \A k \in 1..Len(part) : whole[k] = out[L[c] + k]
  <2>1. PICK u \in Nat, v \in Nat : u = L[c] /\ v = L[b]
    BY <1>7, <1>12
  <2>2. PICK w \in Nat : w = Len(out)
    BY <1>13
  <2>3. PICK l \in Nat : l = Len(part)
    BY <1>12
  <2>4. l = v - u /\ v <= w
    BY <1>12, <1>13, <2>1, <2>2, <2>3
  <2>5. whole = SubSeq(out, u + 1, v)
    BY <1>15, <2>1
  <2>6. u + 1 \in 1..(w + 1) /\ v \in u..w /\ v - (u + 1) + 1 = l
    BY <2>4
  <2>7. whole \in Seq(T) /\ Len(whole) = l /\ \A k \in 1..l : whole[k] = out[(u + 1) + k - 1]
    BY ONLY <2>2, <2>5, <2>6, out \in Seq(T), SubSeqProperties
  <2>8. \A k \in 1..l : (u + 1) + k - 1 = u + k
    OBVIOUS
  <2> QED BY <2>1, <2>3, <2>7, <2>8
<1>17. part = whole
  BY <1>12, <1>14, <1>16, SeqEqual
<1> QED BY <1>3, <1>15, <1>17

-----------------------------------------------------------------------------
(***************************************************************************)
(* Segments under a rewriting of single characters.                          *)
(***************************************************************************)
\* The characters from a to b are a segment of s.
IsSegment(s, a, b) ==
  /\ a \in 1..Len(s) /\ b \in a..Len(s)
  /\ \A k \in a..b : s[k] # "/"
  /\ a = 1 \/ s[a - 1] = "/"
  /\ b = Len(s) \/ s[b + 1] = "/"

\* Segments are the pairs of such places.
LEMMA SegmentIs ==
  ASSUME NEW T, NEW s \in Seq(T)
  PROVE  /\ \A a, b : <<a, b>> \in Segments(s) <=> IsSegment(s, a, b)
         /\ \A g \in Segments(s) : g = <<g[1], g[2]>> /\ IsSegment(s, g[1], g[2])
<1>1. PICK n \in Nat : n = Len(s) /\ DOMAIN s = 1..n
  BY LenProperties
<1>2. ASSUME NEW a, NEW b PROVE <<a, b>> \in Segments(s) <=> IsSegment(s, a, b)
  BY <1>1 DEF Segments, IsSegment
<1>3. ASSUME NEW g \in Segments(s) PROVE g = <<g[1], g[2]>> /\ IsSegment(s, g[1], g[2])
  BY <1>1 DEF Segments, IsSegment
<1> QED BY <1>2, <1>3

\* Every character but a separator is in a segment.
LEMMA SegmentAround ==
  ASSUME NEW s, Len(s) \in Nat, NEW k \in 1..Len(s), s[k] # "/"
  PROVE  \E a \in 1..k, b \in k..Len(s) : IsSegment(s, a, b)
<1>1. PICK n \in Nat : n = Len(s)
  OBVIOUS
<1> DEFINE A == {a \in 1..k : \A j \in a..k : s[j] # "/"}
           B == {b \in k..n : b = n \/ s[b + 1] = "/"}
<1>2. k \in A /\ n \in B /\ A \subseteq Nat /\ B \subseteq Nat
  BY <1>1
<1>3. PICK a \in A : \A y \in A : a <= y
  <2> HIDE DEF A
  <2> QED BY <1>2, LeastOf
<1>4. PICK b \in B : \A y \in B : b <= y
  <2> HIDE DEF B
  <2> QED BY <1>2, LeastOf
<1>5. a = 1 \/ s[a - 1] = "/"
  <2> SUFFICES ASSUME a # 1, s[a - 1] # "/" PROVE FALSE
    OBVIOUS
  <2>1. a - 1 \in 1..k
    BY <1>1
  <2>2. \A j \in (a - 1)..k : j = a - 1 \/ j \in a..k
    BY <1>1
  <2>3. a - 1 \in A
    BY <2>1, <2>2
  <2> QED BY <1>1, <1>3, <2>3
<1>6. ASSUME NEW j \in k..b, s[j] = "/" PROVE FALSE
  <2>1. j # k /\ b \in k..n
    BY <1>6
  <2>2. j - 1 \in k..n /\ (j - 1) + 1 = j
    BY <1>1, <2>1
  <2>3. j - 1 \in B
    BY <1>6, <2>2
  <2>4. b <= j - 1
    BY <1>4, <2>3
  <2> HIDE DEF A, B
  <2> QED BY <2>1, <2>2, <2>4
<1>7. \A j \in a..b : j \in a..k \/ j \in k..b
  BY <1>1
<1>8. \A j \in a..b : s[j] # "/"
  BY <1>6, <1>7
<1>9. a \in 1..k /\ b \in k..n /\ a \in 1..n /\ b \in a..n
  BY <1>1
<1> QED BY <1>1, <1>5, <1>8, <1>9 DEF IsSegment

\* Segments that share a character are one.
LEMMA SegmentsMeet ==
  ASSUME NEW s, Len(s) \in Nat, NEW a, NEW b, NEW c, NEW d, IsSegment(s, a, b), IsSegment(s, c, d),
         NEW k \in Nat, a <= k, k <= b, c <= k, k <= d
  PROVE  a = c /\ b = d
<1>1. PICK n \in Nat : n = Len(s)
  OBVIOUS
<1>2. /\ a \in 1..n /\ b \in a..n /\ c \in 1..n /\ d \in c..n
      /\ \A j \in a..b : s[j] # "/"
      /\ \A j \in c..d : s[j] # "/"
      /\ a = 1 \/ s[a - 1] = "/"
      /\ c = 1 \/ s[c - 1] = "/"
      /\ b = n \/ s[b + 1] = "/"
      /\ d = n \/ s[d + 1] = "/"
  BY <1>1 DEF IsSegment
<1>3. ~(a < c) /\ ~(c < a)
  <2>1. a < c => c - 1 \in a..b /\ c # 1
    BY <1>2
  <2>2. c < a => a - 1 \in c..d /\ a # 1
    BY <1>2
  <2> QED BY <1>2, <2>1, <2>2
<1>4. ~(b < d) /\ ~(d < b)
  <2>1. b < d => b + 1 \in c..d /\ b # n
    BY <1>2
  <2>2. d < b => d + 1 \in a..b /\ d # n
    BY <1>2
  <2> QED BY <1>2, <2>1, <2>2
<1> QED BY <1>2, <1>3, <1>4

\* A rewriting of s, character by character, that neither makes nor loses a separator
\* but within a run of them, and that keeps the first character of a segment.
KeepsSeparators(s, ss) ==
  \A k \in 1..Len(s) :
    /\ Len(ss[k]) = 1 /\ ss[k][1] = "/" => s[k] = "/"
    /\ s[k] = "/" => \/ Len(ss[k]) = 1 /\ ss[k][1] = "/"
                     \/ Len(ss[k]) = 0 /\ k > 1 /\ s[k - 1] = "/"
    /\ s[k] # "/" /\ Len(ss[k]) = 0 => k > 1 /\ s[k - 1] # "/"

\* Behind what is left of a separator there is one.
LEMMA SeparatorKept ==
  ASSUME NEW s, NEW ss, Len(s) \in Nat, Len(ss) = Len(s), NEW out, NEW L, Counts(L, ss, out), KeepsSeparators(s, ss),
         NEW k \in 1..Len(s), s[k] = "/"
  PROVE  L[k] \in Nat \ {0} /\ out[L[k]] = "/"
<1>1. PICK n \in Nat : n = Len(s) /\ n = Len(ss)
  OBVIOUS
<1>2. /\ \A j \in 0..n : L[j] \in Nat
      /\ \A j \in 1..n : \/ Len(ss[j]) = 0 /\ L[j] = L[j - 1]
                         \/ Len(ss[j]) = 1 /\ L[j] = L[j - 1] + 1 /\ ss[j][1] = out[L[j]]
  BY <1>1 DEF Counts
<1> DEFINE Good(j) == j # 0 /\ s[j] = "/" => L[j] \in Nat \ {0} /\ out[L[j]] = "/"
           S == {j \in 0..n : Good(j)}
<1>3. 0 \in S
  OBVIOUS
<1>4. ASSUME NEW j \in 0..n, Good(j), j # n PROVE Good(j + 1)
  <2> SUFFICES ASSUME s[j + 1] = "/" PROVE L[j + 1] \in Nat \ {0} /\ out[L[j + 1]] = "/"
    OBVIOUS
  <2>1. j + 1 \in 1..n /\ (j + 1) - 1 = j /\ j + 1 \in 0..n
    BY <1>4
  <2>2. \/ Len(ss[j + 1]) = 1 /\ ss[j + 1][1] = "/"
        \/ Len(ss[j + 1]) = 0 /\ j + 1 > 1 /\ s[j] = "/"
    BY <1>1, <2>1 DEF KeepsSeparators
  <2>3. \/ Len(ss[j + 1]) = 0 /\ L[j + 1] = L[j]
        \/ Len(ss[j + 1]) = 1 /\ L[j + 1] = L[j] + 1 /\ ss[j + 1][1] = out[L[j + 1]]
    BY <1>2, <2>1
  <2>4. CASE Len(ss[j + 1]) = 1
    <3>1. L[j + 1] = L[j] + 1 /\ out[L[j + 1]] = "/" /\ L[j] \in Nat
      BY <1>2, <2>2, <2>3, <2>4
    <3> QED BY <3>1
  <2>5. CASE Len(ss[j + 1]) = 0
    <3>1. L[j + 1] = L[j] /\ s[j] = "/" /\ j # 0
      BY <2>1, <2>2, <2>3, <2>5
    <3> QED BY <1>4, <3>1
  <2> QED BY <2>2, <2>4, <2>5
<1> HIDE DEF Good
<1>5. \A j \in 0..n : j \in S
  <2>1. \A j \in 0..n : j \in S /\ j # n => j + 1 \in S
    BY <1>4
  <2> HIDE DEF S
  <2>2. 0 \in 0..n
    OBVIOUS
  <2> QED BY <1>3, <2>1, <2>2, Climbs
<1>6. k \in 0..n /\ k # 0
  BY <1>1
<1> QED BY <1>5, <1>6 DEF Good

\* The first character of a segment is kept.
LEMMA SegmentBegins ==
  ASSUME NEW s, NEW ss, Len(s) \in Nat, Len(ss) = Len(s), NEW out, NEW L, Counts(L, ss, out), KeepsSeparators(s, ss),
         NEW a, NEW b, IsSegment(s, a, b)
  PROVE  L[a - 1] \in Nat /\ L[a] = L[a - 1] + 1
<1>1. PICK n \in Nat : n = Len(s) /\ n = Len(ss)
  OBVIOUS
<1>2. a \in 1..n /\ b \in a..n /\ a - 1 \in 0..n /\ a \in a..b
  BY <1>1 DEF IsSegment
<1>3. s[a] # "/" /\ ~(a > 1 /\ s[a - 1] # "/")
  BY <1>1, <1>2 DEF IsSegment
<1>4. Len(ss[a]) # 0
  BY <1>1, <1>2, <1>3 DEF KeepsSeparators
<1> QED BY <1>1, <1>2, <1>4 DEF Counts

\* What is left of a segment is a segment.
LEMMA SegmentKept ==
  ASSUME NEW s, NEW ss, Len(s) \in Nat, Len(ss) = Len(s), NEW out, Len(out) \in Nat, NEW L, Counts(L, ss, out),
         KeepsSeparators(s, ss), NEW a, NEW b, IsSegment(s, a, b)
  PROVE  IsSegment(out, L[a - 1] + 1, L[b])
<1>1. PICK n \in Nat : n = Len(s) /\ n = Len(ss)
  OBVIOUS
<1>2. PICK w \in Nat : w = Len(out)
  OBVIOUS
<1>3. /\ \A j \in 0..n : L[j] \in Nat
      /\ \A j \in 1..n : \/ Len(ss[j]) = 0 /\ L[j] = L[j - 1]
                         \/ Len(ss[j]) = 1 /\ L[j] = L[j - 1] + 1 /\ ss[j][1] = out[L[j]]
      /\ L[0] = 0 /\ L[n] = w
  BY <1>1, <1>2 DEF Counts
<1>4. /\ a \in 1..n /\ b \in a..n
      /\ \A p \in a..b : s[p] # "/"
      /\ a = 1 \/ s[a - 1] = "/"
      /\ b = n \/ s[b + 1] = "/"
  BY <1>1 DEF IsSegment
<1>5. a - 1 \in 0..n /\ a \in 0..n /\ b \in 0..n /\ n \in b..n /\ b \in a..n
  BY <1>4
<1>6. \A p \in 0..n : \A j \in p..n : L[p] <= L[j]
  BY <1>1, CountsGrow
<1>7. PICK u \in Nat, v \in Nat : u = L[a - 1] /\ v = L[b]
  BY <1>3, <1>5
<1>8. L[a] = u + 1
  BY <1>7, SegmentBegins
<1>9. u + 1 <= v /\ v <= w
  BY <1>3, <1>5, <1>6, <1>7, <1>8
<1>10. ASSUME NEW k \in (u + 1)..v, out[k] = "/" PROVE FALSE
  <2>1. k \in 1..w
    BY <1>9
  <2>2. PICK p \in 1..n : L[p] = k /\ L[p - 1] = k - 1 /\ Len(ss[p]) = 1 /\ ss[p][1] = out[k]
    BY <1>1, <1>2, <2>1, CountsHit DEF Comes
  <2>3. p \in 0..n /\ p - 1 \in 0..n
    OBVIOUS
  <2>4. ~(a - 1 \in p..n)
    <3>1. a - 1 \in p..n => k <= u
      BY <1>6, <1>7, <2>2, <2>3
    <3> QED BY <3>1
  <2>5. ~(p - 1 \in b..n)
    <3>1. p - 1 \in b..n => v <= k - 1
      BY <1>5, <1>6, <1>7, <2>2, <2>3
    <3> QED BY <3>1
  <2>6. p \in a..b
    BY <1>4, <2>3, <2>4, <2>5
  <2>7. s[p] = "/"
    BY <1>1, <1>10, <2>2 DEF KeepsSeparators
  <2> QED BY <1>4, <2>6, <2>7
<1>11. u + 1 = 1 \/ out[(u + 1) - 1] = "/"
  <2>1. CASE a = 1
    BY <1>3, <1>7, <2>1
  <2>2. CASE a # 1
    <3>1. a - 1 \in 1..n /\ s[a - 1] = "/"
      BY <1>4, <2>2
    <3>2. out[u] = "/"
      BY <1>1, <1>7, <3>1, SeparatorKept
    <3>3. (u + 1) - 1 = u
      OBVIOUS
    <3> QED BY <3>2, <3>3
  <2> QED BY <2>1, <2>2
<1>12. v = w \/ out[v + 1] = "/"
  <2>1. CASE b = n
    BY <1>3, <1>7, <2>1
  <2>2. CASE b # n
    <3>1. b + 1 \in 1..n /\ s[b + 1] = "/" /\ (b + 1) - 1 = b /\ b \in a..b
      BY <1>4, <2>2
    <3>2. s[b] # "/"
      BY <1>4, <3>1
    <3>3. Len(ss[b + 1]) = 1 /\ ss[b + 1][1] = "/"
      BY <1>1, <3>1, <3>2 DEF KeepsSeparators
    <3>4. L[b + 1] = v + 1 /\ out[L[b + 1]] = "/"
      BY <1>3, <1>7, <3>1, <3>3
    <3> QED BY <3>4
  <2> QED BY <2>1, <2>2
<1>13. u + 1 \in 1..w /\ v \in (u + 1)..w
  BY <1>9
<1> QED BY <1>2, <1>7, <1>10, <1>11, <1>12, <1>13 DEF IsSegment

\* There are no other segments.
LEMMA SegmentFrom ==
  ASSUME NEW s, NEW ss, Len(s) \in Nat, Len(ss) = Len(s), NEW out, Len(out) \in Nat, NEW L, Counts(L, ss, out),
         KeepsSeparators(s, ss), NEW c, NEW d, IsSegment(out, c, d)
  PROVE  \E a, b : IsSegment(s, a, b) /\ c = L[a - 1] + 1 /\ d = L[b]
<1>1. PICK n \in Nat : n = Len(s) /\ n = Len(ss)
  OBVIOUS
<1>2. PICK w \in Nat : w = Len(out)
  OBVIOUS
<1>3. c \in 1..w /\ d \in c..w /\ out[c] # "/"
  BY <1>2 DEF IsSegment
<1>4. PICK p \in 1..n : L[p] = c /\ L[p - 1] = c - 1 /\ Len(ss[p]) = 1 /\ ss[p][1] = out[c]
  BY <1>1, <1>2, <1>3, CountsHit DEF Comes
<1>5. s[p] # "/"
  BY <1>1, <1>3, <1>4 DEF KeepsSeparators
<1>6. PICK a \in 1..p, b \in p..n : IsSegment(s, a, b)
  BY <1>1, <1>5, SegmentAround
<1>7. IsSegment(out, L[a - 1] + 1, L[b])
  BY <1>1, <1>6, SegmentKept
<1>8. a - 1 \in 0..n /\ p - 1 \in (a - 1)..n /\ p \in 0..n /\ b \in p..n /\ b \in 0..n
  OBVIOUS
<1>9. \A j \in 0..n : \A k \in j..n : L[j] <= L[k]
  BY <1>1, CountsGrow
<1>10. \A j \in 0..n : L[j] \in Nat
  BY <1>1 DEF Counts
<1>11. PICK u \in Nat, v \in Nat : u = L[a - 1] /\ v = L[b]
  BY <1>8, <1>10
<1>12. u <= c - 1 /\ c <= v
  BY <1>4, <1>8, <1>9, <1>11
<1>13. u + 1 <= c /\ c <= v /\ c <= c /\ c <= d /\ c \in Nat
  BY <1>3, <1>12
<1>14. IsSegment(out, u + 1, v)
  BY <1>7, <1>11
<1>15. c = u + 1 /\ d = v
  BY ONLY <1>2, <1>13, <1>14, IsSegment(out, c, d), SegmentsMeet
<1> QED BY <1>6, <1>11, <1>15

\* What is left of two segments is in their order.
LEMMA SegmentsOrdered ==
  ASSUME NEW s, NEW ss, Len(s) \in Nat, Len(ss) = Len(s), NEW out, NEW L, Counts(L, ss, out), KeepsSeparators(s, ss),
         NEW a, NEW b, IsSegment(s, a, b), NEW c, NEW d, IsSegment(s, c, d), a < c
  PROVE  L[a - 1] + 1 < L[c - 1] + 1
<1>1. PICK n \in Nat : n = Len(s) /\ n = Len(ss)
  OBVIOUS
<1>2. a \in 1..n /\ c \in 1..n
  BY <1>1 DEF IsSegment
<1>3. a \in 0..n /\ c - 1 \in a..n
  BY <1>2
<1>4. L[a] <= L[c - 1]
  BY <1>1, <1>3, CountsGrow
<1>5. L[a - 1] \in Nat /\ L[a] = L[a - 1] + 1 /\ L[c - 1] \in Nat
  BY SegmentBegins
<1> QED BY <1>4, <1>5

\* By a count L the segments of s become those of out, one for one and in their order.
Carries(f, L, s, out) ==
  /\ f \in [Segments(s) -> Segments(out)]
  /\ \A g \in Segments(s) : f[g] = <<L[g[1] - 1] + 1, L[g[2]]>>
  /\ InOrder(s, f)
  /\ \A h \in Segments(out) : \E g \in Segments(s) : f[g] = h

\* They do by the count of a rewriting that keeps separators.
LEMMA SegmentsMap ==
  ASSUME NEW T, NEW s \in Seq(T), NEW ss, Len(ss) = Len(s), NEW out \in Seq(T), NEW L, Counts(L, ss, out),
         KeepsSeparators(s, ss)
  PROVE  \E f : Carries(f, L, s, out)
<1>1. Len(s) \in Nat /\ Len(out) \in Nat
  BY LenProperties
<1> DEFINE F(g) == <<L[g[1] - 1] + 1, L[g[2]]>>
           f == [g \in Segments(s) |-> F(g)]
<1>2. ASSUME NEW g \in Segments(s) PROVE F(g) \in Segments(out)
  <2>1. IsSegment(s, g[1], g[2])
    BY SegmentIs
  <2>2. IsSegment(out, L[g[1] - 1] + 1, L[g[2]])
    BY <1>1, <2>1, SegmentKept
  <2> QED BY <2>2, SegmentIs
<1>3. f \in [Segments(s) -> Segments(out)] /\ \A g \in Segments(s) : f[g] = F(g)
  BY <1>2
<1>4. ASSUME NEW g \in Segments(s), NEW h \in Segments(s), g[1] < h[1] PROVE F(g)[1] < F(h)[1]
  <2>1. IsSegment(s, g[1], g[2]) /\ IsSegment(s, h[1], h[2])
    BY SegmentIs
  <2>2. L[g[1] - 1] + 1 < L[h[1] - 1] + 1
    BY <1>1, <1>4, <2>1, SegmentsOrdered
  <2> QED BY <2>2
<1>5. ASSUME NEW h \in Segments(out) PROVE \E g \in Segments(s) : F(g) = h
  <2>1. h = <<h[1], h[2]>> /\ IsSegment(out, h[1], h[2])
    BY SegmentIs
  <2>2. PICK a, b : IsSegment(s, a, b) /\ h[1] = L[a - 1] + 1 /\ h[2] = L[b]
    BY <1>1, <2>1, SegmentFrom
  <2>3. <<a, b>> \in Segments(s)
    BY <2>2, SegmentIs
  <2>4. F(<<a, b>>) = <<h[1], h[2]>>
    BY <2>2
  <2> QED BY <2>1, <2>3, <2>4
<1> HIDE DEF F, f
<1>6. InOrder(s, f)
  BY <1>3, <1>4 DEF InOrder
<1>7. \A h \in Segments(out) : \E g \in Segments(s) : f[g] = h
  BY <1>3, <1>5
<1>8. \A g \in Segments(s) : f[g] = <<L[g[1] - 1] + 1, L[g[2]]>>
  BY <1>3 DEF F
<1> QED BY <1>3, <1>6, <1>7, <1>8 DEF Carries

-----------------------------------------------------------------------------
(***************************************************************************)
(* PathUnescape and CleanPath are such rewritings.                           *)
(***************************************************************************)
\* Characters, and what escapes stand for.
Letters == STRING \cup HexDigits \cup {"/", ".", "%", "#", "?", "^", "ctl", "bad", "x"}

\* A text of strings is one of letters.
LEMMA TextIs ==
  ASSUME NEW s \in Seq(STRING)
  PROVE  s \in Seq(Letters)
BY DEF Letters

\* An escape stands for a letter.
LEMMA DecodedLetter ==
  ASSUME NEW high, NEW low
  PROVE  decodeHexByte(high, low) \in Letters
BY DEF decodeHexByte, HexDigits, Letters

\* A sequence of one.
LEMMA SingleSeq ==
  ASSUME NEW T, NEW x \in T
  PROVE  <<x>> \in Seq(T) /\ Len(<<x>>) = 1 /\ <<x>>[1] = x
OBVIOUS

\* The place of a digit of an escape.
IsDigit(s, k) == \E j \in DOMAIN s : j \in {k - 1, k - 2} /\ s[j] = "%"

\* What becomes of a character.
LEMMA UnescapedIs ==
  ASSUME NEW s \in Seq(Letters), NEW k \in 1..Len(s)
  PROVE  /\ Unescaped(s, k) \in Seq(Letters)
         /\ s[k] = "%" => Len(Unescaped(s, k)) = 1 /\ Unescaped(s, k)[1] = decodeHexByte(s[k + 1], s[k + 2])
         /\ s[k] # "%" /\ IsDigit(s, k) => Len(Unescaped(s, k)) = 0
         /\ s[k] # "%" /\ ~IsDigit(s, k) => Len(Unescaped(s, k)) = 1 /\ Unescaped(s, k)[1] = s[k]
<1>1. s[k] \in Letters
  BY ElementOfSeq
<1>2. decodeHexByte(s[k + 1], s[k + 2]) \in Letters
  BY DecodedLetter
<1>3. \A x \in Letters : <<x>> \in Seq(Letters) /\ Len(<<x>>) = 1 /\ <<x>>[1] = x
  BY SingleSeq
<1>4. <<>> \in Seq(Letters) /\ Len(<<>>) = 0
  OBVIOUS
<1>5. PICK x \in Letters, y \in Letters : x = s[k] /\ y = decodeHexByte(s[k + 1], s[k + 2])
  BY <1>1, <1>2
<1>6. Unescaped(s, k) = IF x = "%" THEN <<y>> ELSE IF IsDigit(s, k) THEN <<>> ELSE <<x>>
  BY <1>5 DEF Unescaped, IsDigit
<1>7. CASE x = "%"
  BY <1>3, <1>5, <1>6, <1>7
<1>8. CASE x # "%" /\ IsDigit(s, k)
  BY <1>4, <1>5, <1>6, <1>8
<1>9. CASE x # "%" /\ ~IsDigit(s, k)
  BY <1>3, <1>5, <1>6, <1>9
<1> QED BY <1>7, <1>8, <1>9

\* An escape holds no separator.
LEMMA EscapesWhole ==
  ASSUME NEW s \in Seq(Letters), ValidEscapes(s), NEW j \in 1..Len(s), s[j] = "%"
  PROVE  j + 2 <= Len(s) /\ s[j + 1] # "/" /\ s[j + 2] # "/"
<1>1. IsEscape(s, j)
  BY LenProperties DEF ValidEscapes
<1>2. "/" \notin HexDigits
  BY DEF HexDigits
<1> QED BY <1>1, <1>2 DEF IsEscape

\* No escape stands for a separator.
NoSeparators(s) == \A k \in 1..Len(s) : s[k] = "%" => decodeHexByte(s[k + 1], s[k + 2]) # "/"

\* Decoding makes and loses no separator if no escape stands for one.
LEMMA UnescapeKeeps ==
  ASSUME NEW s \in Seq(Letters), ValidEscapes(s), NoSeparators(s), NEW ss, ss = [k \in DOMAIN s |-> Unescaped(s, k)]
  PROVE  KeepsSeparators(s, ss)
<1>1. PICK n \in Nat : n = Len(s) /\ DOMAIN s = 1..n
  BY LenProperties
<1>2. ASSUME NEW k \in 1..n, IsDigit(s, k) PROVE k > 1 /\ s[k - 1] # "/" /\ s[k] # "/"
  <2>1. PICK j \in 1..n : j \in {k - 1, k - 2} /\ s[j] = "%"
    BY <1>1, <1>2 DEF IsDigit
  <2>2. j + 2 <= n /\ s[j + 1] # "/" /\ s[j + 2] # "/" /\ s[j] # "/"
    BY <1>1, <2>1, EscapesWhole
  <2>3. CASE j = k - 1
    <3>1. j + 1 = k
      BY <2>3
    <3> QED BY <2>2, <2>3, <3>1
  <2>4. CASE j = k - 2
    <3>1. j + 2 = k /\ j + 1 = k - 1
      BY <2>4
    <3> QED BY <2>2, <2>4, <3>1
  <2> QED BY <2>1, <2>3, <2>4
<1>3. ASSUME NEW k \in 1..n
      PROVE  /\ Len(ss[k]) = 1 /\ ss[k][1] = "/" => s[k] = "/"
             /\ s[k] = "/" => \/ Len(ss[k]) = 1 /\ ss[k][1] = "/"
                              \/ Len(ss[k]) = 0 /\ k > 1 /\ s[k - 1] = "/"
             /\ s[k] # "/" /\ Len(ss[k]) = 0 => k > 1 /\ s[k - 1] # "/"
  <2>1. PICK x : x = ss[k] /\ x = Unescaped(s, k)
    BY <1>1
  <2>2. PICK l : l = Len(x)
    OBVIOUS
  <2>3. /\ s[k] = "%" => l = 1 /\ x[1] = decodeHexByte(s[k + 1], s[k + 2])
        /\ s[k] # "%" /\ IsDigit(s, k) => l = 0
        /\ s[k] # "%" /\ ~IsDigit(s, k) => l = 1 /\ x[1] = s[k]
    BY <1>1, <2>1, <2>2, UnescapedIs
  <2>4. s[k] = "%" => x[1] # "/" /\ l = 1
    BY <1>1, <2>3 DEF NoSeparators
  <2>5. s[k] # "%" /\ IsDigit(s, k) => l = 0 /\ k > 1 /\ s[k - 1] # "/" /\ s[k] # "/"
    BY <1>2, <2>3
  <2>6. /\ l = 1 /\ x[1] = "/" => s[k] = "/"
        /\ s[k] = "/" => l = 1 /\ x[1] = "/"
        /\ s[k] # "/" /\ l = 0 => k > 1 /\ s[k - 1] # "/"
    <3>1. CASE s[k] = "%"
      BY <2>4, <3>1
    <3>2. CASE s[k] # "%" /\ IsDigit(s, k)
      BY <2>5, <3>2
    <3>3. CASE s[k] # "%" /\ ~IsDigit(s, k)
      BY <2>3, <3>3
    <3> QED BY <3>1, <3>2, <3>3
  <2> QED BY <2>1, <2>2, <2>6
<1> QED BY <1>1, <1>3 DEF KeepsSeparators

\* The text of a segment is decoded as the segment is in the whole.
LEMMA UnescapeLocal ==
  ASSUME NEW s \in Seq(Letters), ValidEscapes(s), NEW a, NEW b, IsSegment(s, a, b),
         NEW q \in Seq(Letters), PartOf(q, s, a, b), NEW x \in 1..(b - a + 1)
  PROVE  Unescaped(q, x) = Unescaped(s, a - 1 + x)
<1> Len(q) = b - a + 1 /\ \A j \in 1..(b - a + 1) : q[j] = s[a - 1 + j]
  BY DEF PartOf
<1>1. PICK n \in Nat : n = Len(s) /\ DOMAIN s = 1..n
  BY LenProperties
<1>2. /\ a \in 1..n /\ b \in a..n
      /\ \A j \in a..b : s[j] # "/"
      /\ a = 1 \/ s[a - 1] = "/"
      /\ b = n \/ s[b + 1] = "/"
  BY <1>1 DEF IsSegment
<1>3. PICK m \in Nat, c \in Nat : m = b - a + 1 /\ c = a - 1 /\ m = Len(q) /\ c + m = b /\ DOMAIN q = 1..m
  <2>1. b - a + 1 \in Nat /\ a - 1 \in Nat /\ (a - 1) + (b - a + 1) = b
    BY <1>2
  <2> QED BY <2>1, LenProperties
<1>4. PICK p \in 1..n : p = c + x /\ x \in 1..m /\ p \in a..b /\ p = a - 1 + x
  <2>1. x \in 1..m /\ c + x \in 1..n /\ c + x \in a..b /\ c + x = a - 1 + x
    BY <1>2, <1>3
  <2> QED BY <2>1
<1>5. \A k \in 1..m : q[k] = s[c + k]
  BY <1>3
<1>6. \A j \in 1..n : s[j] = "%" => j + 2 <= n /\ s[j + 1] # "/" /\ s[j + 2] # "/"
  BY <1>1, EscapesWhole
<1>7. q[x] = s[p]
  BY <1>4, <1>5
<1>8. ASSUME s[p] = "%" PROVE q[x + 1] = s[p + 1] /\ q[x + 2] = s[p + 2]
  <2>1. p + 2 <= n /\ s[p + 1] # "/" /\ s[p + 2] # "/"
    BY <1>6, <1>8
  <2>2. p + 2 <= b
    <3>1. p <= b /\ (b = n \/ s[b + 1] = "/")
      BY <1>2, <1>4
    <3>2. (b # p /\ b # p + 1) \/ b = n
      <4>1. b = p => b + 1 = p + 1
        OBVIOUS
      <4>2. b = p + 1 => b + 1 = p + 2
        OBVIOUS
      <4> QED BY <2>1, <3>1, <4>1, <4>2
    <3> QED BY <1>2, <2>1, <3>1, <3>2
  <2>3. x + 1 \in 1..m /\ x + 2 \in 1..m /\ c + (x + 1) = p + 1 /\ c + (x + 2) = p + 2
    <3>1. c + m = b /\ p = c + x /\ x \in 1..m
      BY <1>3, <1>4
    <3> QED BY <2>2, <3>1
  <2> QED BY <1>5, <2>3
<1>9. IsDigit(q, x) <=> IsDigit(s, p)
  <2>1. ASSUME NEW j \in 1..m, j \in {x - 1, x - 2}, q[j] = "%" PROVE IsDigit(s, p)
    <3>1. c + j \in 1..n /\ c + j \in {p - 1, p - 2} /\ s[c + j] = "%"
      <4>1. c + m = b /\ b \in 1..n /\ p = c + x /\ x \in 1..m
        BY <1>2, <1>3, <1>4
      <4>2. c + j \in 1..n /\ c + j \in {p - 1, p - 2}
        BY <2>1, <4>1
      <4> QED BY <1>5, <2>1, <4>2
    <3> QED BY <1>1, <3>1 DEF IsDigit
  <2>2. ASSUME NEW j \in 1..n, j \in {p - 1, p - 2}, s[j] = "%" PROVE IsDigit(q, x)
    <3>1. s[j] # "/" /\ s[j + 1] # "/"
      BY <1>6, <2>2
    <3>2. (j # c /\ j + 1 # c) \/ a = 1
      BY <1>2, <1>3, <3>1
    <3>3. j >= a
      BY <1>2, <1>3, <1>4, <2>2, <3>2
    <3>4. j - c \in 1..m /\ j - c \in {x - 1, x - 2} /\ c + (j - c) = j
      BY <1>2, <1>3, <1>4, <2>2, <3>3
    <3>5. q[j - c] = "%"
      BY <1>5, <2>2, <3>4
    <3> QED BY <1>3, <3>4, <3>5 DEF IsDigit
  <2> QED BY <1>1, <1>3, <2>1, <2>2 DEF IsDigit
<1>10. Unescaped(q, x) = Unescaped(s, p)
  <2>1. Unescaped(q, x) = IF q[x] = "%" THEN <<decodeHexByte(q[x + 1], q[x + 2])>>
                          ELSE IF IsDigit(q, x) THEN <<>> ELSE <<q[x]>>
    BY DEF Unescaped, IsDigit
  <2>2. Unescaped(s, p) = IF s[p] = "%" THEN <<decodeHexByte(s[p + 1], s[p + 2])>>
                          ELSE IF IsDigit(s, p) THEN <<>> ELSE <<s[p]>>
    BY DEF Unescaped, IsDigit
  <2>3. CASE s[p] = "%"
    BY <1>7, <1>8, <2>1, <2>2, <2>3
  <2>4. CASE s[p] # "%"
    BY <1>7, <1>9, <2>1, <2>2, <2>4
  <2> QED BY <2>3, <2>4
<1> QED BY <1>4, <1>10

\* A function on 1..n is a sequence.
LEMMA FunctionIsSeq ==
  ASSUME NEW T, NEW n \in Nat, NEW f \in [1..n -> T]
  PROVE  f \in Seq(T) /\ Len(f) = n
OBVIOUS

\* What PathUnescape leaves of a text can be counted.
LEMMA UnescapeCounted ==
  ASSUME NEW s \in Seq(Letters), NEW ss, ss = [k \in DOMAIN s |-> Unescaped(s, k)]
  PROVE  /\ Len(ss) = Len(s) /\ PathUnescape(s) \in Seq(Letters)
         /\ \E L : Counts(L, ss, PathUnescape(s))
<1>1. PICK n \in Nat : n = Len(s) /\ DOMAIN s = 1..n
  BY LenProperties
<1>2. \A k \in 1..n : Unescaped(s, k) \in Seq(Letters) /\ Len(Unescaped(s, k)) <= 1
  <2> TAKE k \in 1..n
  <2>1. Unescaped(s, k) \in Seq(Letters) /\ (Len(Unescaped(s, k)) = 0 \/ Len(Unescaped(s, k)) = 1)
    BY <1>1, UnescapedIs
  <2>2. PICK l : l = Len(Unescaped(s, k))
    OBVIOUS
  <2>3. l <= 1
    BY <2>1, <2>2
  <2> QED BY <2>1, <2>2, <2>3
<1>3. ss \in [1..n -> Seq(Letters)] /\ \A k \in 1..n : Len(ss[k]) <= 1
  BY <1>1, <1>2
<1>4. ss \in Seq(Seq(Letters)) /\ Len(ss) = n
  BY <1>3, FunctionIsSeq
<1>5. PathUnescape(s) = SeqExt!FlattenSeq(ss)
  BY DEF PathUnescape
<1> QED BY <1>1, <1>3, <1>4, <1>5, CountsExist

\* A segment's text.
LEMMA SegmentText ==
  ASSUME NEW T, NEW s \in Seq(T), NEW a, NEW b, IsSegment(s, a, b)
  PROVE  SubSeq(s, a, b) \in Seq(T) /\ PartOf(SubSeq(s, a, b), s, a, b)
<1>1. PICK n \in Nat : n = Len(s)
  BY LenProperties
<1>2. a \in 1..n /\ b \in a..n
  BY <1>1 DEF IsSegment
<1>3. a \in 1..(n + 1) /\ b \in (a - 1)..n
  BY <1>2
<1>4. /\ SubSeq(s, a, b) \in Seq(T) /\ Len(SubSeq(s, a, b)) = b - a + 1
      /\ \A k \in 1..(b - a + 1) : SubSeq(s, a, b)[k] = s[a + k - 1]
  BY <1>1, <1>3, SubSeqProperties
<1>5. \A k \in 1..(b - a + 1) : a + k - 1 = a - 1 + k
  BY <1>2
<1> QED BY <1>1, <1>2, <1>4, <1>5 DEF PartOf

\* PathUnescape decodes a text segment by segment.
LEMMA UnescapeSegments ==
  ASSUME NEW s \in Seq(Letters), ValidEscapes(s), NoSeparators(s)
  PROVE  /\ PathUnescape(s) \in Seq(Letters)
         /\ \E f \in [Segments(s) -> Segments(PathUnescape(s))] :
              /\ \A g \in Segments(s) : Text(PathUnescape(s), f[g]) = PathUnescape(Text(s, g))
              /\ InOrder(s, f)
              /\ \A h \in Segments(PathUnescape(s)) : \E g \in Segments(s) : f[g] = h
<1>1. PICK ss : ss = [k \in DOMAIN s |-> Unescaped(s, k)]
  OBVIOUS
<1>2. PICK out \in Seq(Letters) : out = PathUnescape(s)
  BY <1>1, UnescapeCounted
<1>3. PICK L : Counts(L, ss, out) /\ Len(ss) = Len(s)
  BY <1>1, <1>2, UnescapeCounted
<1>4. KeepsSeparators(s, ss)
  BY <1>1, UnescapeKeeps
<1>5. PICK f : Carries(f, L, s, out)
  BY <1>3, <1>4, SegmentsMap
<1>6. ASSUME NEW g \in Segments(s) PROVE Text(out, f[g]) = PathUnescape(Text(s, g))
  <2>1. PICK a, b : a = g[1] /\ b = g[2] /\ IsSegment(s, a, b)
    BY SegmentIs
  <2>2. PICK q \in Seq(Letters) : q = SubSeq(s, a, b)
    BY <2>1, SegmentText
  <2>3. PartOf(q, s, a, b) /\ Len(q) = b - a + 1
    BY <2>1, <2>2, SegmentText DEF PartOf
  <2>4. PICK sub : sub = [k \in DOMAIN q |-> Unescaped(q, k)]
    OBVIOUS
  <2>5. PICK part \in Seq(Letters) : part = PathUnescape(q)
    BY <2>4, UnescapeCounted
  <2>6. PICK M : Counts(M, sub, part) /\ Len(sub) = Len(q)
    BY <2>4, <2>5, UnescapeCounted
  <2>7. PICK n \in Nat : n = Len(s) /\ n = Len(ss) /\ DOMAIN s = 1..n
    BY <1>3, LenProperties
  <2>8. a \in 1..n /\ b \in a..n
    BY <2>1, <2>7 DEF IsSegment
  <2>9. DOMAIN q = 1..(b - a + 1)
    BY <2>3, LenProperties
  <2>10. ASSUME NEW k \in 1..(b - a + 1) PROVE sub[k] = ss[a - 1 + k]
    <3>1. a - 1 + k \in 1..n
      BY <2>8
    <3>2. Unescaped(q, k) = Unescaped(s, a - 1 + k)
      BY <2>1, <2>3, UnescapeLocal
    <3> QED BY <1>1, <2>4, <2>7, <2>9, <3>1, <3>2
  <2>11. part = SubSeq(out, L[a - 1] + 1, L[b])
    <3>1. PartOf(sub, ss, a, b)
      BY <2>3, <2>6, <2>7, <2>8, <2>10 DEF PartOf
    <3> QED BY <1>3, <2>6, <3>1, CountsPart
  <2>12. f[g][1] = L[a - 1] + 1 /\ f[g][2] = L[b]
    BY <1>5, <2>1 DEF Carries
  <2> QED BY <2>1, <2>2, <2>5, <2>11, <2>12 DEF Text
<1> QED BY <1>2, <1>5, <1>6 DEF Carries

\* What Cleaned leaves of a character.
LEMMA CleanedIs ==
  ASSUME NEW s \in Seq(Letters), NEW k \in 1..Len(s)
  PROVE  /\ Cleaned(s, k) \in Seq(Letters)
         /\ k > 1 /\ s[k] = "/" /\ s[k - 1] = "/" => Len(Cleaned(s, k)) = 0
         /\ ~(k > 1 /\ s[k] = "/" /\ s[k - 1] = "/") => Len(Cleaned(s, k)) = 1 /\ Cleaned(s, k)[1] = s[k]
<1>1. PICK x \in Letters : x = s[k]
  BY ElementOfSeq
<1>2. <<x>> \in Seq(Letters) /\ Len(<<x>>) = 1 /\ <<x>>[1] = x
  BY SingleSeq
<1>3. <<>> \in Seq(Letters) /\ Len(<<>>) = 0
  OBVIOUS
<1>4. CASE k > 1 /\ s[k] = "/" /\ s[k - 1] = "/"
  <2>1. Cleaned(s, k) = <<>>
    BY <1>4 DEF Cleaned
  <2> QED BY <1>3, <1>4, <2>1
<1>5. CASE ~(k > 1 /\ s[k] = "/" /\ s[k - 1] = "/")
  <2>1. Cleaned(s, k) = <<x>>
    BY <1>1, <1>5 DEF Cleaned
  <2> QED BY <1>1, <1>2, <1>5, <2>1
<1> QED BY <1>4, <1>5

\* path.Clean keeps the segments of a text as they are.
LEMMA CleanSegments ==
  ASSUME NEW s \in Seq(Letters)
  PROVE  /\ CleanPath(s) \in Seq(Letters)
         /\ \E f \in [Segments(s) -> Segments(CleanPath(s))] :
              /\ \A g \in Segments(s) : Text(CleanPath(s), f[g]) = Text(s, g)
              /\ InOrder(s, f)
              /\ \A h \in Segments(CleanPath(s)) : \E g \in Segments(s) : f[g] = h
<1>1. PICK n \in Nat : n = Len(s) /\ DOMAIN s = 1..n
  BY LenProperties
<1>2. PICK ss : ss = [k \in DOMAIN s |-> Cleaned(s, k)]
  OBVIOUS
<1>3. \A k \in 1..n : Cleaned(s, k) \in Seq(Letters) /\ Len(Cleaned(s, k)) <= 1
  <2> TAKE k \in 1..n
  <2>1. Cleaned(s, k) \in Seq(Letters) /\ (Len(Cleaned(s, k)) = 0 \/ Len(Cleaned(s, k)) = 1)
    BY <1>1, CleanedIs
  <2>2. PICK l : l = Len(Cleaned(s, k))
    OBVIOUS
  <2>3. l <= 1
    BY <2>1, <2>2
  <2> QED BY <2>1, <2>2, <2>3
<1>4. ss \in [1..n -> Seq(Letters)] /\ \A k \in 1..n : Len(ss[k]) <= 1 /\ ss[k] = Cleaned(s, k)
  BY <1>1, <1>2, <1>3
<1>5. ss \in Seq(Seq(Letters)) /\ Len(ss) = n
  BY <1>4, FunctionIsSeq
<1>6. CleanPath(s) = SeqExt!FlattenSeq(ss)
  BY <1>2 DEF CleanPath
<1>7. PICK out \in Seq(Letters) : out = CleanPath(s)
  BY <1>4, <1>5, <1>6, CountsExist
<1>8. PICK L : Counts(L, ss, out)
  BY <1>4, <1>5, <1>6, <1>7, CountsExist
<1>9. KeepsSeparators(s, ss)
  <2>1. ASSUME NEW k \in 1..n
        PROVE  /\ Len(ss[k]) = 1 /\ ss[k][1] = "/" => s[k] = "/"
               /\ s[k] = "/" => \/ Len(ss[k]) = 1 /\ ss[k][1] = "/"
                                \/ Len(ss[k]) = 0 /\ k > 1 /\ s[k - 1] = "/"
               /\ s[k] # "/" /\ Len(ss[k]) = 0 => k > 1 /\ s[k - 1] # "/"
    <3>1. PICK x, l : x = ss[k] /\ l = Len(x)
      OBVIOUS
    <3>2. /\ k > 1 /\ s[k] = "/" /\ s[k - 1] = "/" => l = 0
          /\ ~(k > 1 /\ s[k] = "/" /\ s[k - 1] = "/") => l = 1 /\ x[1] = s[k]
      BY <1>1, <1>4, <3>1, CleanedIs
    <3>3. /\ l = 1 /\ x[1] = "/" => s[k] = "/"
          /\ s[k] = "/" => \/ l = 1 /\ x[1] = "/"
                           \/ l = 0 /\ k > 1 /\ s[k - 1] = "/"
          /\ s[k] # "/" /\ l = 0 => k > 1 /\ s[k - 1] # "/"
      BY <3>2
    <3> QED BY <3>1, <3>3
  <2> QED BY <1>1, <2>1 DEF KeepsSeparators
<1>10. PICK f : Carries(f, L, s, out)
  <2>1. Len(ss) = Len(s)
    BY <1>1, <1>5
  <2> QED BY <1>8, <1>9, <2>1, SegmentsMap
<1>11. ASSUME NEW g \in Segments(s) PROVE Text(out, f[g]) = Text(s, g)
  <2>1. PICK a, b : a = g[1] /\ b = g[2] /\ IsSegment(s, a, b)
    BY SegmentIs
  <2>2. PICK part \in Seq(Letters) : part = SubSeq(s, a, b)
    BY <2>1, SegmentText
  <2>3. a \in 1..n /\ b \in a..n /\ \A k \in a..b : s[k] # "/"
    BY <1>1, <2>1 DEF IsSegment
  <2>4. PICK m \in Nat : m = b - a + 1
    BY <2>3
  <2>5. Len(part) = m /\ \A k \in 1..m : part[k] = s[a - 1 + k]
    <3>1. PartOf(part, s, a, b)
      BY <2>1, <2>2, SegmentText
    <3> QED BY <2>4, <3>1 DEF PartOf
  <2>6. PICK sub : sub = [k \in 1..m |-> ss[a - 1 + k]]
    OBVIOUS
  <2>7. \A k \in 1..m : a - 1 + k \in 1..n /\ a - 1 + k \in a..b
    BY <2>3, <2>4
  <2>8. sub \in [1..m -> Seq(Letters)]
    BY <1>4, <2>6, <2>7
  <2>9. Len(sub) = m
    BY <2>8, FunctionIsSeq
  <2> DEFINE M == [k \in 0..m |-> k]
  <2>10. ASSUME NEW k \in 1..m PROVE Len(sub[k]) = 1 /\ M[k] = M[k - 1] + 1 /\ sub[k][1] = part[M[k]]
    <3>1. k \in 0..m /\ k - 1 \in 0..m
      OBVIOUS
    <3>2. M[k] = k /\ M[k - 1] = k - 1
      BY <3>1
    <3>3. PICK p \in 1..n : p = a - 1 + k /\ s[p] # "/"
      BY <2>3, <2>7
    <3>4. Len(Cleaned(s, p)) = 1 /\ Cleaned(s, p)[1] = s[p]
      BY <1>1, <3>3, CleanedIs
    <3>5. sub[k] = Cleaned(s, p)
      BY <1>4, <2>6, <3>3
    <3>6. part[k] = s[p]
      BY <2>5, <3>3
    <3> HIDE DEF M
    <3> QED BY <3>2, <3>4, <3>5, <3>6
  <2>11. M \in [0..m -> Nat] /\ M[0] = 0 /\ M[m] = m
    <3>1. 0 \in 0..m /\ m \in 0..m
      OBVIOUS
    <3> QED BY <3>1
  <2> HIDE DEF M
  <2>12. Counts(M, sub, part)
    BY <2>5, <2>9, <2>10, <2>11 DEF Counts
  <2>13. part = SubSeq(out, L[a - 1] + 1, L[b])
    <3>1. \A k \in 1..(b - a + 1) : sub[k] = ss[a - 1 + k]
      BY <2>4, <2>6
    <3>2. PartOf(sub, ss, a, b)
      BY <1>5, <2>3, <2>4, <2>9, <3>1 DEF PartOf
    <3> QED BY <1>8, <2>12, <3>2, CountsPart
  <2>14. f[g][1] = L[a - 1] + 1 /\ f[g][2] = L[b]
    BY <1>10, <2>1 DEF Carries
  <2> QED BY <2>1, <2>2, <2>13, <2>14 DEF Text
<1> QED BY <1>7, <1>10, <1>11 DEF Carries

\* Of a text that can be decoded, hasEncodedSeparator finds every encoded separator
\* and nothing else.
LEMMA SeparatorsFound ==
  ASSUME NEW s \in Seq(Letters), ValidEscapes(s)
  PROVE  hasEncodedSeparator(s) <=> ~NoSeparators(s)
<1>1. PICK n \in Nat : n = Len(s) /\ DOMAIN s = 1..n
  BY LenProperties
<1> DEFINE Sep(p) == decodeHexByte(s[p + 1], s[p + 2]) = "/"
           Step(p, one, three) == /\ p + 2 <= Len(s)
                                  /\ \/ s[p] # "%" /\ one
                                     \/ s[p] = "%" /\ ((IsEscape(s, p) /\ Sep(p)) \/ three)
           Rec(f) == f = [p \in Nat \ {0} |-> Step(p, f[p + 1], f[p + 3])]
           Later(p) == \E j \in 1..n : p <= j /\ s[j] = "%" /\ Sep(j)
           G == [p \in Nat \ {0} |-> Later(p)]
<1>2. ASSUME NEW j \in 1..n, s[j] = "%" PROVE IsEscape(s, j) /\ j + 2 <= n /\ s[j + 1] # "%" /\ s[j + 2] # "%"
  <2>1. IsEscape(s, j)
    BY <1>1, <1>2 DEF ValidEscapes
  <2>2. "%" \notin HexDigits
    BY DEF HexDigits
  <2> QED BY <1>1, <2>1, <2>2 DEF IsEscape
<1>3. ASSUME NEW p \in Nat \ {0} PROVE Later(p) <=> Step(p, Later(p + 1), Later(p + 3))
  <2> HIDE DEF Sep
  <2>1. ASSUME NEW j \in 1..n, p <= j, s[j] = "%", Sep(j) PROVE Step(p, Later(p + 1), Later(p + 3))
    <3>1. j + 2 <= n /\ IsEscape(s, j)
      BY <1>2, <2>1
    <3>2. p + 2 <= Len(s) /\ p \in 1..n
      BY <1>1, <2>1, <3>1
    <3>3. CASE s[p] # "%"
      <4>1. p + 1 <= j
        BY <2>1, <3>3
      <4> QED BY <2>1, <3>2, <3>3, <4>1
    <3>4. CASE s[p] = "%" /\ j # p
      <4>1. s[p + 1] # "%" /\ s[p + 2] # "%"
        BY <1>2, <3>2, <3>4
      <4>2. p + 3 <= j
        BY <2>1, <3>4, <4>1
      <4> QED BY <2>1, <3>2, <3>4, <4>2
    <3>5. CASE s[p] = "%" /\ j = p
      BY <2>1, <3>1, <3>2, <3>5
    <3> QED BY <3>3, <3>4, <3>5
  <2>2. ASSUME Step(p, Later(p + 1), Later(p + 3)) PROVE Later(p)
    <3>1. p \in 1..n
      BY <1>1, <2>2
    <3>2. CASE s[p] = "%" /\ Sep(p)
      BY <3>1, <3>2
    <3>3. CASE Later(p + 1)
      <4>1. PICK j \in 1..n : p + 1 <= j /\ s[j] = "%" /\ Sep(j)
        BY <3>3
      <4>2. p <= j
        BY <4>1
      <4> QED BY <4>1, <4>2
    <3>4. CASE Later(p + 3)
      <4>1. PICK j \in 1..n : p + 3 <= j /\ s[j] = "%" /\ Sep(j)
        BY <3>4
      <4>2. p <= j
        BY <4>1
      <4> QED BY <4>1, <4>2
    <3> QED BY <2>2, <3>2, <3>3, <3>4
  <2> QED BY <2>1, <2>2
<1>4. Rec(G)
  <2> HIDE DEF Step, Later
  <2>1. \A p \in Nat \ {0} : p + 1 \in Nat \ {0} /\ p + 3 \in Nat \ {0}
    OBVIOUS
  <2>2. \A p \in Nat \ {0} : Later(p) = Step(p, Later(p + 1), Later(p + 3))
    BY <1>3 DEF Later, Step
  <2> QED BY <2>1, <2>2
<1>5. PICK f : f = CHOOSE h : Rec(h)
  OBVIOUS
<1>6. Rec(f)
  <2> HIDE DEF Rec, G
  <2> QED BY <1>4, <1>5
<1>7. hasEncodedSeparator(s) = f[1]
  <2>1. hasEncodedSeparator(s) = (CHOOSE h : Rec(h))[1]
    BY DEF hasEncodedSeparator
  <2> HIDE DEF Rec
  <2> QED BY <1>5, <2>1
<1>8. \A p \in Nat \ {0} : f[p] <=> Step(p, f[p + 1], f[p + 3])
  <2> HIDE DEF Step
  <2> QED BY <1>6
<1> HIDE DEF Rec, G, Sep
<1> DEFINE X == {d \in 0..n : d # n /\ ~(f[n - d] <=> Later(n - d))}
<1>9. \A p \in Nat \ {0} : p > n => ~f[p] /\ ~Later(p)
  BY <1>1, <1>8
<1>10. X = {}
  <2> SUFFICES ASSUME X # {} PROVE FALSE
    OBVIOUS
  <2>1. PICK d \in X : \A y \in X : d <= y
    <3>1. X \subseteq Nat
      OBVIOUS
    <3> HIDE DEF X
    <3> QED BY <3>1, LeastOf
  <2>2. PICK p \in 1..n : p = n - d /\ ~(f[p] <=> Later(p))
    BY <2>1
  <2>3. \A m \in Nat \ {0} : m > p => (f[m] <=> Later(m))
    <3> SUFFICES ASSUME NEW m \in Nat \ {0}, m > p PROVE f[m] <=> Later(m)
      OBVIOUS
    <3> HIDE DEF Later, Step
    <3>1. CASE m > n
      BY <1>9, <3>1
    <3>2. CASE m <= n
      <4>1. n - m \in 0..n /\ n - m # n /\ n - m < d /\ n - (n - m) = m
        BY <2>2, <3>2
      <4>2. n - m \notin X
        <5>1. d \in 0..n
          OBVIOUS
        <5> HIDE DEF X
        <5>2. PICK y \in 0..n : y = n - m /\ y < d
          BY <4>1
        <5>3. y \notin X
          <6>1. ~(d <= y)
            BY <5>1, <5>2
          <6> QED BY <2>1, <6>1
        <5> QED BY <5>2, <5>3
      <4> QED BY <4>1, <4>2
    <3> QED BY <3>1, <3>2
  <2>4. p \in Nat \ {0} /\ p + 1 \in Nat \ {0} /\ p + 1 > p /\ p + 3 \in Nat \ {0} /\ p + 3 > p
    OBVIOUS
  <2>5. (f[p + 1] <=> Later(p + 1)) /\ (f[p + 3] <=> Later(p + 3))
    <3> HIDE DEF Later
    <3> QED BY <2>3, <2>4
  <2>6. f[p] <=> Step(p, Later(p + 1), Later(p + 3))
    <3> HIDE DEF Later
    <3> QED BY <1>8, <2>4, <2>5
  <2>7. Later(p) <=> Step(p, Later(p + 1), Later(p + 3))
    BY <1>3, <2>4
  <2> HIDE DEF Step, Later
  <2> QED BY <2>2, <2>6, <2>7
<1>11. f[1] <=> Later(1)
  <2> HIDE DEF Later, Step
  <2>1. CASE 1 <= n
    <3>1. n - 1 \in 0..n /\ n - 1 # n /\ n - (n - 1) = 1
      BY <2>1
    <3>2. n - 1 \notin X
      <4> HIDE DEF X
      <4> QED BY <1>10
    <3> QED BY <3>1, <3>2
  <2>2. CASE ~(1 <= n)
    BY <1>9, <2>2
  <2> QED BY <2>1, <2>2
<1>12. Later(1) <=> ~NoSeparators(s)
  BY <1>1 DEF NoSeparators, Sep
<1> QED
  <2> HIDE DEF Later
  <2> QED BY <1>7, <1>11, <1>12

\* An escape in a segment is in every text with that segment.
LEMMA EscapeKept ==
  ASSUME NEW T, NEW u \in Seq(T), NEW t \in Seq(T), NEW c, NEW d, IsSegment(u, c, d),
         NEW a, NEW b, IsSegment(t, a, b), SubSeq(u, c, d) = SubSeq(t, a, b), NEW k, k \in c..d, IsEscape(u, k)
  PROVE  containsPercentEscape(t)
<1>1. PICK w \in Nat : w = Len(u)
  BY LenProperties
<1>2. PICK n \in Nat : n = Len(t)
  BY LenProperties
<1>3. c \in 1..w /\ d \in c..w /\ (d = w \/ u[d + 1] = "/")
  BY <1>1 DEF IsSegment
<1>4. a \in 1..n /\ b \in a..n
  BY <1>2 DEF IsSegment
<1>5. PICK q : q = SubSeq(u, c, d) /\ q = SubSeq(t, a, b)
  OBVIOUS
<1>6. PartOf(q, u, c, d) /\ PartOf(q, t, a, b)
  BY <1>5, SegmentText
<1>7. k + 2 <= w /\ u[k] = "%" /\ u[k + 1] \in HexDigits /\ u[k + 2] \in HexDigits
  BY <1>1 DEF IsEscape
<1>8. k + 2 <= d
  <2>1. "/" \notin HexDigits
    BY DEF HexDigits
  <2>2. d = k => d + 1 = k + 1
    OBVIOUS
  <2>3. d = k + 1 => d + 1 = k + 2
    OBVIOUS
  <2>4. d = w \/ (d # k /\ d # k + 1)
    BY <1>3, <1>7, <2>1, <2>2, <2>3
  <2> QED BY <1>3, <1>7, <2>4
<1>9. PICK m \in Nat : m = d - c + 1 /\ m = b - a + 1
  <2>1. d - c + 1 = b - a + 1
    BY <1>6 DEF PartOf
  <2>2. d - c + 1 \in Nat
    BY <1>3
  <2> QED BY <2>1, <2>2
<1>10. \A p \in 1..m : u[c - 1 + p] = t[a - 1 + p]
  BY <1>6, <1>9 DEF PartOf
<1>11. PICK x \in 1..m : x = k - c + 1 /\ x + 1 \in 1..m /\ x + 2 \in 1..m
  <2>1. k - c + 1 \in 1..m /\ (k - c + 1) + 1 \in 1..m /\ (k - c + 1) + 2 \in 1..m
    BY <1>3, <1>8, <1>9
  <2> QED BY <2>1
<1>12. c - 1 + x = k /\ c - 1 + (x + 1) = k + 1 /\ c - 1 + (x + 2) = k + 2
  BY <1>3, <1>11
<1>13. PICK j \in 1..n : j = a - 1 + x /\ j + 1 = a - 1 + (x + 1) /\ j + 2 = a - 1 + (x + 2) /\ j + 2 <= n
  <2>1. a - 1 + x \in 1..n /\ (a - 1 + x) + 1 = a - 1 + (x + 1) /\ (a - 1 + x) + 2 = a - 1 + (x + 2)
    <3>1. x <= b - a + 1
      BY <1>9, <1>11
    <3> QED BY <1>4, <3>1
  <2>2. (a - 1 + x) + 2 <= n
    <3>1. x + 2 <= b - a + 1
      BY <1>9, <1>11
    <3> QED BY <1>4, <3>1
  <2> QED BY <2>1, <2>2
<1>14. t[j] = u[k] /\ t[j + 1] = u[k + 1] /\ t[j + 2] = u[k + 2]
  BY <1>10, <1>11, <1>12, <1>13
<1>15. IsEscape(t, j)
  BY <1>2, <1>7, <1>13, <1>14 DEF IsEscape
<1> QED BY <1>2, <1>15, LenProperties DEF containsPercentEscape

\* What PathKeepsItsSegments says of a text and the path made of it.
Kept(r, u) ==
  /\ \E f \in [Segments(r) -> Segments(u)] :
       /\ \A g \in Segments(r) : Text(u, f[g]) = PathUnescape(Text(r, g))
       /\ InOrder(r, f)
       /\ \A h \in Segments(u) : \E g \in Segments(r) : f[g] = h
  /\ ~DotSegments(u)
  /\ ~containsPercentEscape(u)

\* NormalizePath lets no other path pass.
LEMMA NormalizeKeeps ==
  ASSUME NEW r \in Seq(Letters), NormalizePath(r) # <<>>, NEW u, u = NormalizePath(r)[1]
  PROVE  Kept(r, u)
<1>1. r \in Seq(Letters)
  OBVIOUS
<1>2. PICK t : t = PathUnescape(r)
  OBVIOUS
<1>3. /\ ~hasEncodedSeparator(r) /\ ValidEscapes(r)
      /\ ~containsPercentEscape(t) /\ ~DotSegments(t) /\ u = CleanPath(t)
  BY <1>2 DEF NormalizePath
<1>4. NoSeparators(r)
  BY <1>1, <1>3, SeparatorsFound
<1>5. t \in Seq(Letters)
  BY <1>1, <1>2, <1>3, <1>4, UnescapeSegments
<1>6. PICK f \in [Segments(r) -> Segments(t)] :
           /\ \A g \in Segments(r) : Text(t, f[g]) = PathUnescape(Text(r, g))
           /\ InOrder(r, f)
           /\ \A h \in Segments(t) : \E g \in Segments(r) : f[g] = h
  BY <1>1, <1>2, <1>3, <1>4, UnescapeSegments
<1>7. u \in Seq(Letters)
  BY <1>3, <1>5, CleanSegments
<1>8. PICK e \in [Segments(t) -> Segments(u)] :
           /\ \A g \in Segments(t) : Text(u, e[g]) = Text(t, g)
           /\ InOrder(t, e)
           /\ \A h \in Segments(u) : \E g \in Segments(t) : e[g] = h
  BY <1>3, <1>5, CleanSegments
<1> DEFINE both == [g \in Segments(r) |-> e[f[g]]]
<1>9. both \in [Segments(r) -> Segments(u)] /\ \A g \in Segments(r) : both[g] = e[f[g]] /\ f[g] \in Segments(t)
  BY <1>6, <1>8
<1> HIDE DEF both
<1>10. \A g \in Segments(r) : Text(u, both[g]) = PathUnescape(Text(r, g))
  BY <1>6, <1>8, <1>9
<1>11. InOrder(r, both)
  BY <1>6, <1>8, <1>9 DEF InOrder
<1>12. \A h \in Segments(u) : \E g \in Segments(r) : both[g] = h
  BY <1>6, <1>8, <1>9
<1>13. ~DotSegments(u)
  BY <1>3, <1>8 DEF DotSegments
<1>14. ASSUME NEW k \in DOMAIN u, IsEscape(u, k) PROVE FALSE
  <2>1. k \in 1..Len(u) /\ Len(u) \in Nat /\ u[k] # "/"
    BY <1>7, <1>14, LenProperties DEF IsEscape
  <2>2. PICK c \in 1..k, d \in k..Len(u) : IsSegment(u, c, d)
    BY <2>1, SegmentAround
  <2>3. <<c, d>> \in Segments(u) /\ k \in c..d
    BY <1>7, <2>1, <2>2, SegmentIs
  <2>4. PICK g \in Segments(t) : e[g] = <<c, d>>
    BY <1>8, <2>3
  <2>5. PICK a, b : a = g[1] /\ b = g[2] /\ IsSegment(t, a, b)
    BY <1>5, SegmentIs
  <2>6. Text(u, <<c, d>>) = Text(t, g)
    BY <1>8, <2>4
  <2>7. SubSeq(u, c, d) = SubSeq(t, a, b)
    BY <2>5, <2>6 DEF Text
  <2>8. containsPercentEscape(t)
    BY <1>5, <1>7, <1>14, <2>2, <2>3, <2>5, <2>7, EscapeKept, Zenon
  <2> QED BY <1>3, <2>8
<1>15. ~containsPercentEscape(u)
  BY <1>14 DEF containsPercentEscape
<1> QED BY <1>9, <1>10, <1>11, <1>12, <1>13, <1>15 DEF Kept

-----------------------------------------------------------------------------
(***************************************************************************)
(* EscapedPath.  What net/url escapes anew is read as what it was read       *)
(* before: EscapePath and PathUnescape work piece by piece, and the pieces   *)
(* of EscapePath are read as the characters they were made of.               *)
(***************************************************************************)
\* The elements of two sequences, one behind the other.
LEMMA ConcatElements ==
  ASSUME NEW T, NEW x \in Seq(T), NEW y \in Seq(T)
  PROVE  /\ x \o y \in Seq(T) /\ Len(x \o y) = Len(x) + Len(y)
         /\ \A k \in 1..Len(x) : (x \o y)[k] = x[k]
         /\ \A k \in 1..Len(y) : (x \o y)[Len(x) + k] = y[k]
OBVIOUS

\* Flattening goes piece by piece.
LEMMA FlattenConcat ==
  ASSUME NEW T, NEW x \in Seq(Seq(T)), NEW y \in Seq(Seq(T))
  PROVE  /\ SeqExt!FlattenSeq(x) \in Seq(T)
         /\ SeqExt!FlattenSeq(x \o y) = SeqExt!FlattenSeq(x) \o SeqExt!FlattenSeq(y)
<1>1. PICK n \in Nat, m \in Nat : n = Len(x) /\ m = Len(y)
  BY LenProperties
<1>2. PICK f : Joins(f, x, T)
  BY JoinsExist
<1>3. PICK h : Joins(h, y, T)
  BY JoinsExist
<1>4. /\ f \in [0..n -> Seq(T)] /\ f[0] = <<>> /\ \A k \in 1..n : f[k] = f[k - 1] \o x[k]
      /\ h \in [0..m -> Seq(T)] /\ h[0] = <<>> /\ \A k \in 1..m : h[k] = h[k - 1] \o y[k]
  BY <1>1, <1>2, <1>3 DEF Joins
<1>5. PICK z \in Seq(Seq(T)) : z = x \o y /\ Len(z) = n + m
  BY <1>1, ConcatProperties
<1>6. /\ \A k \in 1..n : z[k] = x[k]
      /\ \A k \in 1..m : z[n + k] = y[k] /\ y[k] \in Seq(T)
  <2>1. \A k \in 1..n : z[k] = x[k]
    BY <1>1, <1>5
  <2>2. ASSUME NEW k \in 1..m PROVE z[n + k] = y[k] /\ y[k] \in Seq(T)
    BY <1>1, <1>5, ElementOfSeq
  <2> QED BY <2>1, <2>2
<1> DEFINE g == [k \in 0..(n + m) |-> IF k <= n THEN f[k] ELSE f[n] \o h[k - n]]
<1>7. ASSUME NEW k \in 0..(n + m) PROVE g[k] \in Seq(T)
  <2>1. CASE k <= n
    <3>1. k \in 0..n
      BY <2>1
    <3> QED BY <1>4, <2>1, <3>1
  <2>2. CASE ~(k <= n)
    <3>1. k - n \in 0..m /\ n \in 0..n
      BY <2>2
    <3> QED BY <1>4, <2>2, <3>1
  <2> QED BY <2>1, <2>2
<1>8. g \in [0..(n + m) -> Seq(T)]
  BY <1>7
<1>9. g[0] = <<>>
  <2>1. 0 \in 0..(n + m) /\ 0 <= n
    OBVIOUS
  <2> QED BY <1>4, <2>1
<1>10. \A k \in 0..m : g[n + k] = f[n] \o h[k]
  <2> TAKE k \in 0..m
  <2>1. n + k \in 0..(n + m) /\ (n + k) - n = k /\ (n + k <= n <=> k = 0) /\ f[n] \in Seq(T)
    BY <1>4
  <2>2. CASE k = 0
    <3>1. n + k = n
      BY <2>2
    <3>2. f[n] \o <<>> = f[n]
      BY <2>1, ConcatEmptySeq
    <3> QED BY <1>4, <2>1, <2>2, <3>1, <3>2
  <2>3. CASE k # 0
    BY <2>1, <2>3
  <2> QED BY <2>2, <2>3
<1>11. \A k \in 0..n : g[k] = f[k]
  OBVIOUS
<1> HIDE DEF g
<1>12. ASSUME NEW k \in 1..(n + m) PROVE g[k] = g[k - 1] \o z[k]
  <2>1. CASE k <= n
    <3>1. k \in 1..n /\ k \in 0..n /\ k - 1 \in 0..n
      BY <2>1
    <3> QED BY <1>4, <1>6, <1>11, <3>1
  <2>2. CASE ~(k <= n)
    <3>1. PICK j \in 1..m : k = n + j /\ k - 1 = n + (j - 1) /\ j \in 0..m /\ j - 1 \in 0..m
      <4>1. k - n \in 1..m
        BY <2>2
      <4> QED BY <4>1
    <3>2. g[k] = f[n] \o h[j] /\ g[k - 1] = f[n] \o h[j - 1] /\ h[j] = h[j - 1] \o y[j] /\ z[k] = y[j]
      BY <1>4, <1>6, <1>10, <3>1
    <3>3. n \in 0..n
      OBVIOUS
    <3>4. PICK p \in Seq(T), q \in Seq(T), r \in Seq(T) : p = f[n] /\ q = h[j - 1] /\ r = y[j]
      BY <1>4, <1>6, <3>1, <3>3
    <3>5. (p \o q) \o r = p \o (q \o r)
      BY ConcatAssociative
    <3> QED BY <3>2, <3>4, <3>5
  <2> QED BY <2>1, <2>2
<1>13. Joins(g, z, T)
  BY <1>5, <1>8, <1>9, <1>12 DEF Joins
<1>14. SeqExt!FlattenSeq(z) = g[n + m]
  BY <1>5, <1>13, FlattenIs
<1>15. SeqExt!FlattenSeq(x) = f[n] /\ SeqExt!FlattenSeq(y) = h[m] /\ f[n] \in Seq(T)
  <2>1. SeqExt!FlattenSeq(x) = f[n]
    BY <1>1, <1>2, FlattenIs
  <2>2. SeqExt!FlattenSeq(y) = h[m]
    BY <1>1, <1>3, FlattenIs
  <2>3. n \in 0..n
    OBVIOUS
  <2> QED BY <1>4, <2>1, <2>2, <2>3
<1>16. g[n + m] = f[n] \o h[m]
  <2>1. m \in 0..m
    OBVIOUS
  <2> QED BY <1>10, <2>1
<1> QED BY <1>5, <1>14, <1>15, <1>16

\* Escapes that are whole in each piece are the escapes of the whole.
LEMMA UnescapeConcat ==
  ASSUME NEW a \in Seq(Letters), NEW b \in Seq(Letters), ValidEscapes(a), ValidEscapes(b)
  PROVE  /\ ValidEscapes(a \o b)
         /\ PathUnescape(a \o b) = PathUnescape(a) \o PathUnescape(b)
         /\ NoSeparators(a) /\ NoSeparators(b) => NoSeparators(a \o b)
<1>1. PICK n \in Nat, m \in Nat : n = Len(a) /\ m = Len(b) /\ DOMAIN a = 1..n /\ DOMAIN b = 1..m
  BY LenProperties
<1>2. PICK z \in Seq(Letters) : z = a \o b /\ Len(z) = n + m
  BY <1>1, ConcatProperties
<1>3. DOMAIN z = 1..(n + m) /\ (\A k \in 1..n : z[k] = a[k]) /\ \A k \in 1..m : z[n + k] = b[k]
  <2>1. DOMAIN z = 1..(n + m)
    BY <1>2, LenProperties
  <2>2. \A k \in 1..n : z[k] = a[k]
    BY <1>1, <1>2
  <2>3. ASSUME NEW k \in 1..m PROVE z[n + k] = b[k]
    BY <1>1, <1>2
  <2> QED BY <2>1, <2>2, <2>3
<1>4. ASSUME NEW k \in 1..n, a[k] = "%"
      PROVE  k + 2 <= n /\ z[k + 1] = a[k + 1] /\ z[k + 2] = a[k + 2]
             /\ a[k + 1] \in HexDigits /\ a[k + 2] \in HexDigits
  <2>1. k + 2 <= n /\ a[k + 1] \in HexDigits /\ a[k + 2] \in HexDigits
    BY <1>1, <1>4 DEF ValidEscapes, IsEscape
  <2>2. k + 1 \in 1..n /\ k + 2 \in 1..n
    BY <2>1
  <2> QED BY <1>3, <2>1, <2>2
<1>5. ASSUME NEW k \in 1..m, b[k] = "%"
      PROVE  n + k + 2 <= n + m /\ z[n + k + 1] = b[k + 1] /\ z[n + k + 2] = b[k + 2]
             /\ b[k + 1] \in HexDigits /\ b[k + 2] \in HexDigits
  <2>1. k + 2 <= m /\ b[k + 1] \in HexDigits /\ b[k + 2] \in HexDigits
    BY <1>1, <1>5 DEF ValidEscapes, IsEscape
  <2>2. k + 1 \in 1..m /\ k + 2 \in 1..m /\ n + (k + 1) = n + k + 1 /\ n + (k + 2) = n + k + 2
    BY <2>1
  <2>3. z[n + (k + 1)] = b[k + 1] /\ z[n + (k + 2)] = b[k + 2]
    BY <1>3, <2>2
  <2> QED BY <2>1, <2>2, <2>3
<1>6. ASSUME NEW k \in 1..(n + m), ~(k \in 1..n) PROVE \E j \in 1..m : k = n + j
  <2>1. k - n \in 1..m /\ k = n + (k - n)
    BY <1>6
  <2> QED BY <2>1
<1>7. ValidEscapes(z)
  <2> SUFFICES ASSUME NEW k \in 1..(n + m), z[k] = "%"
               PROVE  k + 2 <= n + m /\ z[k + 1] \in HexDigits /\ z[k + 2] \in HexDigits
    BY <1>2, <1>3 DEF ValidEscapes, IsEscape
  <2>1. CASE k \in 1..n
    <3>1. a[k] = "%"
      BY <1>3, <2>1
    <3>2. k + 2 <= n /\ z[k + 1] \in HexDigits /\ z[k + 2] \in HexDigits
      BY <1>4, <2>1, <3>1
    <3> QED BY <3>2
  <2>2. CASE ~(k \in 1..n)
    <3>1. PICK j \in 1..m : k = n + j
      BY <1>6, <2>2
    <3>2. b[j] = "%"
      BY <1>3, <3>1
    <3> QED BY <1>5, <3>1, <3>2
  <2> QED BY <2>1, <2>2
<1>8. ASSUME NoSeparators(a), NoSeparators(b) PROVE NoSeparators(z)
  <2> SUFFICES ASSUME NEW k \in 1..(n + m), z[k] = "%" PROVE decodeHexByte(z[k + 1], z[k + 2]) # "/"
    BY <1>2 DEF NoSeparators
  <2>1. CASE k \in 1..n
    <3>1. a[k] = "%"
      BY <1>3, <2>1
    <3>2. decodeHexByte(a[k + 1], a[k + 2]) # "/"
      BY <1>1, <1>8, <2>1, <3>1 DEF NoSeparators
    <3> QED BY <1>4, <2>1, <3>1, <3>2
  <2>2. CASE ~(k \in 1..n)
    <3>1. PICK j \in 1..m : k = n + j
      BY <1>6, <2>2
    <3>2. b[j] = "%"
      BY <1>3, <3>1
    <3>3. decodeHexByte(b[j + 1], b[j + 2]) # "/"
      BY <1>1, <1>8, <3>1, <3>2 DEF NoSeparators
    <3> QED BY <1>5, <3>1, <3>2, <3>3
  <2> QED BY <2>1, <2>2
<1>9. ASSUME NEW k \in 1..n PROVE Unescaped(z, k) = Unescaped(a, k)
  <2>1. z[k] = a[k] /\ k \in 1..(n + m)
    BY <1>3
  <2>2. CASE a[k] = "%"
    BY <1>4, <2>1, <2>2 DEF Unescaped
  <2>3. CASE a[k] # "%"
    <3>1. (\E j \in DOMAIN z : j \in {k - 1, k - 2} /\ z[j] = "%")
            <=> (\E j \in DOMAIN a : j \in {k - 1, k - 2} /\ a[j] = "%")
      <4>1. ASSUME NEW j \in 1..(n + m), j \in {k - 1, k - 2} PROVE j \in 1..n
        BY <4>1
      <4>2. ASSUME NEW j \in 1..n PROVE j \in 1..(n + m)
        OBVIOUS
      <4> QED BY <1>1, <1>3, <4>1, <4>2
    <3> QED BY <2>1, <2>3, <3>1 DEF Unescaped
  <2> QED BY <2>2, <2>3
<1>10. ASSUME NEW k \in 1..m PROVE Unescaped(z, n + k) = Unescaped(b, k)
  <2>1. z[n + k] = b[k] /\ n + k \in 1..(n + m)
    BY <1>3
  <2>2. CASE b[k] = "%"
    BY <1>5, <2>1, <2>2 DEF Unescaped
  <2>3. CASE b[k] # "%"
    <3>1. ASSUME NEW j \in 1..(n + m), j \in {n + k - 1, n + k - 2}, z[j] = "%"
          PROVE  \E i1 \in 1..m : i1 \in {k - 1, k - 2} /\ b[i1] = "%"
      <4>1. CASE j \in 1..n
        <5>1. a[j] = "%"
          BY <1>3, <3>1, <4>1
        <5>2. j + 2 <= n
          BY <1>4, <4>1, <5>1
        <5> QED BY <3>1, <5>2
      <4>2. CASE ~(j \in 1..n)
        <5>1. PICK i1 \in 1..m : j = n + i1
          BY <1>6, <4>2
        <5>2. i1 \in {k - 1, k - 2}
          BY <3>1, <5>1
        <5> QED BY <1>3, <3>1, <5>1, <5>2
      <4> QED BY <4>1, <4>2
    <3>2. ASSUME NEW j \in 1..m, j \in {k - 1, k - 2}, b[j] = "%"
          PROVE  n + j \in 1..(n + m) /\ n + j \in {n + k - 1, n + k - 2} /\ z[n + j] = "%"
      BY <1>3, <3>2
    <3>3. (\E j \in 1..(n + m) : j \in {n + k - 1, n + k - 2} /\ z[j] = "%")
            <=> (\E j \in 1..m : j \in {k - 1, k - 2} /\ b[j] = "%")
      BY <3>1, <3>2
    <3>4. PICK p : p = n + k
      OBVIOUS
    <3>5. Unescaped(z, p) = IF \E j \in 1..(n + m) : j \in {p - 1, p - 2} /\ z[j] = "%" THEN <<>> ELSE <<z[p]>>
      BY <1>3, <2>1, <2>3, <3>4 DEF Unescaped
    <3>6. Unescaped(b, k) = IF \E j \in 1..m : j \in {k - 1, k - 2} /\ b[j] = "%" THEN <<>> ELSE <<b[k]>>
      BY <1>1, <2>3 DEF Unescaped
    <3> QED BY <2>1, <3>3, <3>4, <3>5, <3>6
  <2> QED BY <2>2, <2>3
<1> DEFINE sa == [k \in DOMAIN a |-> Unescaped(a, k)]
           sb == [k \in DOMAIN b |-> Unescaped(b, k)]
           sz == [k \in DOMAIN z |-> Unescaped(z, k)]
<1>11. ASSUME NEW s \in Seq(Letters)
       PROVE  [k \in DOMAIN s |-> Unescaped(s, k)] \in Seq(Seq(Letters))
              /\ Len([k \in DOMAIN s |-> Unescaped(s, k)]) = Len(s)
  <2>1. PICK l \in Nat : l = Len(s) /\ DOMAIN s = 1..l
    BY LenProperties
  <2>2. [k \in DOMAIN s |-> Unescaped(s, k)] \in [1..l -> Seq(Letters)]
    BY <2>1, UnescapedIs
  <2> QED BY <2>1, <2>2, FunctionIsSeq
<1>12. sz = sa \o sb
  <2>1. /\ sa \in Seq(Seq(Letters)) /\ Len(sa) = n
        /\ sb \in Seq(Seq(Letters)) /\ Len(sb) = m
        /\ sz \in Seq(Seq(Letters)) /\ Len(sz) = n + m
    BY <1>1, <1>2, <1>11
  <2>2. /\ \A k \in 1..n : sa[k] = Unescaped(a, k)
        /\ \A k \in 1..m : sb[k] = Unescaped(b, k)
        /\ \A k \in 1..(n + m) : sz[k] = Unescaped(z, k)
    BY <1>1, <1>3
  <2> HIDE DEF sa, sb, sz
  <2>3. PICK w \in Seq(Seq(Letters)) : w = sa \o sb /\ Len(w) = n + m
    BY <2>1, ConcatElements
  <2>4. \A k \in 1..m : w[n + k] = sb[k]
    <3> DEFINE T == Seq(Letters)
    <3>1. PICK p \in Seq(T), q \in Seq(T) : p = sa /\ q = sb
      BY <2>1
    <3> HIDE DEF T
    <3>2. \A k \in 1..Len(q) : (p \o q)[Len(p) + k] = q[k]
      BY ConcatElements
    <3>3. Len(p) = n /\ Len(q) = m /\ w = p \o q
      BY <2>1, <2>3, <3>1
    <3>4. \A k \in 1..m : w[n + k] = q[k]
      BY <3>2, <3>3
    <3> QED BY <3>1, <3>4
  <2>5. ASSUME NEW k \in 1..(n + m) PROVE sz[k] = w[k]
    <3>1. CASE k \in 1..n
      <4>1. w[k] = sa[k]
        BY <2>1, <2>3, <3>1
      <4> QED BY <1>9, <2>2, <3>1, <4>1
    <3>2. CASE ~(k \in 1..n)
      <4>1. PICK j \in 1..m : k = n + j
        BY <1>6, <3>2
      <4> QED BY <1>10, <2>2, <2>4, <4>1
    <3> QED BY <3>1, <3>2
  <2> QED BY <2>1, <2>3, <2>5, SeqEqual
<1>13. PathUnescape(z) = PathUnescape(a) \o PathUnescape(b)
  <2>1. sa \in Seq(Seq(Letters)) /\ sb \in Seq(Seq(Letters))
    BY <1>11
  <2>2. PathUnescape(a) = SeqExt!FlattenSeq(sa) /\ PathUnescape(b) = SeqExt!FlattenSeq(sb)
        /\ PathUnescape(z) = SeqExt!FlattenSeq(sz)
    BY DEF PathUnescape
  <2> HIDE DEF sa, sb, sz
  <2>3. SeqExt!FlattenSeq(sa \o sb) = SeqExt!FlattenSeq(sa) \o SeqExt!FlattenSeq(sb)
    BY <2>1, FlattenConcat
  <2> QED BY <1>12, <2>2, <2>3
<1> QED BY <1>2, <1>7, <1>8, <1>13

\* An escape by itself is read as the character it stands for.
LEMMA EscapeAlone ==
  ASSUME NEW high \in HexDigits, NEW low \in HexDigits, NEW d \in Letters, d = decodeHexByte(high, low), d # "/"
  PROVE  /\ <<"%", high, low>> \in Seq(Letters) /\ ValidEscapes(<<"%", high, low>>)
         /\ NoSeparators(<<"%", high, low>>) /\ PathUnescape(<<"%", high, low>>) = <<d>>
<1>1. "%" \in Letters /\ high \in Letters /\ low \in Letters /\ high # "%" /\ low # "%"
  BY DEF Letters, HexDigits
<1>2. PICK s \in Seq(Letters) : /\ s = <<"%", high, low>> /\ Len(s) = 3 /\ DOMAIN s = 1..3
                                /\ s[1] = "%" /\ s[2] = high /\ s[3] = low
  <2> DEFINE w == <<"%", high, low>>
  <2>1. w \in Seq(Letters)
    BY <1>1
  <2>2. Len(w) = 3 /\ w[1] = "%" /\ w[2] = high /\ w[3] = low
    OBVIOUS
  <2> HIDE DEF w
  <2>3. DOMAIN w = 1..3
    BY <2>1, <2>2, LenProperties
  <2>4. w = <<"%", high, low>>
    BY DEF w
  <2> QED BY <2>1, <2>2, <2>3, <2>4
<1>3. \A k \in 1..3 : s[k] = "%" => k = 1
  BY <1>1, <1>2
<1>4. ValidEscapes(s) /\ NoSeparators(s)
  BY <1>2, <1>3 DEF ValidEscapes, IsEscape, NoSeparators
<1>5. PICK ss : ss = [k \in DOMAIN s |-> Unescaped(s, k)]
  OBVIOUS
<1>6. Unescaped(s, 1) = <<d>> /\ Unescaped(s, 2) = <<>> /\ Unescaped(s, 3) = <<>>
  <2>1. Unescaped(s, 1) = <<d>>
    BY <1>2 DEF Unescaped
  <2>2. Unescaped(s, 2) = <<>>
    <3>1. 1 \in DOMAIN s /\ 1 \in {2 - 1, 2 - 2}
      BY <1>2
    <3> QED BY <1>1, <1>2, <3>1 DEF Unescaped
  <2>3. Unescaped(s, 3) = <<>>
    <3>1. 1 \in DOMAIN s /\ 1 \in {3 - 1, 3 - 2}
      BY <1>2
    <3> QED BY <1>1, <1>2, <3>1 DEF Unescaped
  <2> QED BY <2>1, <2>2, <2>3
<1>7. <<d>> \in Seq(Letters) /\ <<>> \in Seq(Letters)
  OBVIOUS
<1>8. ss \in Seq(Seq(Letters)) /\ Len(ss) = 3 /\ ss[1] = <<d>> /\ ss[2] = <<>> /\ ss[3] = <<>>
  <2>1. \A k \in 1..3 : k = 1 \/ k = 2 \/ k = 3
    OBVIOUS
  <2>2. \A k \in 1..3 : Unescaped(s, k) \in Seq(Letters)
    BY <1>6, <1>7, <2>1
  <2>3. ss \in [1..3 -> Seq(Letters)]
    BY <1>2, <1>5, <2>2
  <2>4. 1 \in 1..3 /\ 2 \in 1..3 /\ 3 \in 1..3
    OBVIOUS
  <2>5. ss[1] = <<d>> /\ ss[2] = <<>> /\ ss[3] = <<>>
    BY <1>2, <1>5, <1>6, <2>4
  <2>6. ss \in Seq(Seq(Letters)) /\ Len(ss) = 3
    <3>1. 3 \in Nat
      OBVIOUS
    <3> QED BY <2>3, <3>1, FunctionIsSeq
  <2> QED BY <2>5, <2>6
<1> DEFINE g == [k \in 0..3 |-> IF k = 0 THEN <<>> ELSE <<d>>]
<1>9. g \in [0..3 -> Seq(Letters)] /\ g[0] = <<>> /\ g[1] = <<d>> /\ g[2] = <<d>> /\ g[3] = <<d>>
  BY <1>7
<1> HIDE DEF g
<1>10. ASSUME NEW k \in 1..3 PROVE g[k] = g[k - 1] \o ss[k]
  <2>1. <<d>> \o <<>> = <<d>> /\ <<>> \o <<d>> = <<d>>
    BY <1>7, ConcatEmptySeq
  <2>2. g[1] = g[0] \o ss[1] /\ g[2] = g[1] \o ss[2] /\ g[3] = g[2] \o ss[3]
    BY <1>8, <1>9, <2>1
  <2>3. (k = 1 /\ k - 1 = 0) \/ (k = 2 /\ k - 1 = 1) \/ (k = 3 /\ k - 1 = 2)
    OBVIOUS
  <2> QED BY <2>2, <2>3
<1>11. Joins(g, ss, Letters)
  BY <1>8, <1>9, <1>10 DEF Joins
<1>12. PathUnescape(s) = <<d>>
  BY <1>5, <1>8, <1>9, <1>11, FlattenIs DEF PathUnescape
<1> QED BY <1>2, <1>4, <1>12

\* A character that begins no escape stands for itself, and nothing for nothing.
LEMMA LetterAlone ==
  ASSUME NEW c \in Letters, c # "%"
  PROVE  /\ <<c>> \in Seq(Letters) /\ ValidEscapes(<<c>>)
         /\ NoSeparators(<<c>>) /\ PathUnescape(<<c>>) = <<c>>
<1>1. PICK s \in Seq(Letters) : s = <<c>> /\ Len(s) = 1 /\ DOMAIN s = 1..1 /\ s[1] = c
  <2>1. PICK s \in Seq(Letters) : s = <<c>> /\ Len(s) = 1 /\ s[1] = c
    BY SingleSeq
  <2> QED BY <2>1, LenProperties
<1>2. ValidEscapes(s) /\ NoSeparators(s)
  BY <1>1 DEF ValidEscapes, NoSeparators
<1>3. PICK ss : ss = [k \in DOMAIN s |-> Unescaped(s, k)]
  OBVIOUS
<1>4. Unescaped(s, 1) = <<c>>
  BY <1>1 DEF Unescaped
<1>5. ss \in Seq(Seq(Letters)) /\ Len(ss) = 1 /\ ss[1] = <<c>>
  <2>1. \A k \in 1..1 : k = 1
    OBVIOUS
  <2>2. \A k \in 1..1 : Unescaped(s, k) \in Seq(Letters)
    BY <1>1, <1>4, <2>1
  <2>3. ss \in [1..1 -> Seq(Letters)]
    BY <1>1, <1>3, <2>2
  <2>4. 1 \in 1..1
    OBVIOUS
  <2>5. ss[1] = <<c>>
    BY <1>1, <1>3, <1>4, <2>4
  <2> QED BY <2>3, <2>5, FunctionIsSeq
<1>6. PICK g : Joins(g, ss, Letters)
  BY <1>5, JoinsExist
<1>7. g[1] = <<c>>
  <2>1. 1 \in 1..1 /\ 1 - 1 = 0
    OBVIOUS
  <2>2. g[1] = <<>> \o <<c>>
    BY <1>5, <1>6, <2>1 DEF Joins
  <2> QED BY <2>2
<1>8. PathUnescape(s) = <<c>>
  BY <1>3, <1>5, <1>6, <1>7, FlattenIs DEF PathUnescape
<1> QED BY <1>1, <1>2, <1>8

\* What escape writes of a character is read as that character.
LEMMA EscapedAlone ==
  ASSUME NEW c \in Letters
  PROVE  /\ Escaped(c) \in Seq(Letters) /\ ValidEscapes(Escaped(c))
         /\ NoSeparators(Escaped(c)) /\ PathUnescape(Escaped(c)) = <<c>>
<1>1. ASSUME NEW high \in HexDigits, NEW low \in HexDigits, Escaped(c) = <<"%", high, low>>,
             c = decodeHexByte(high, low), c # "/"
      PROVE  /\ Escaped(c) \in Seq(Letters) /\ ValidEscapes(Escaped(c))
             /\ NoSeparators(Escaped(c)) /\ PathUnescape(Escaped(c)) = <<c>>
  BY <1>1, EscapeAlone
<1>2. {"0", "2", "3", "5", "E", "F"} \subseteq HexDigits
  BY DEF HexDigits
<1>3. CASE c = "%"
  <2>1. Escaped(c) = <<"%", "2", "5">> /\ c = decodeHexByte("2", "5")
    BY <1>3 DEF Escaped, decodeHexByte
  <2> QED BY <1>1, <1>2, <1>3, <2>1
<1>4. CASE c = "#"
  <2>1. Escaped(c) = <<"%", "2", "3">> /\ c = decodeHexByte("2", "3")
    BY <1>4 DEF Escaped, decodeHexByte
  <2> QED BY <1>1, <1>2, <1>4, <2>1
<1>5. CASE c = "?"
  <2>1. Escaped(c) = <<"%", "3", "F">> /\ c = decodeHexByte("3", "F")
    BY <1>5 DEF Escaped, decodeHexByte
  <2> QED BY <1>1, <1>2, <1>5, <2>1
<1>6. CASE c = "^"
  <2>1. Escaped(c) = <<"%", "5", "E">> /\ c = decodeHexByte("5", "E")
    BY <1>6 DEF Escaped, decodeHexByte
  <2> QED BY <1>1, <1>2, <1>6, <2>1
<1>7. CASE c = "ctl"
  <2>1. Escaped(c) = <<"%", "0", "0">> /\ c = decodeHexByte("0", "0")
    BY <1>7 DEF Escaped, decodeHexByte
  <2> QED BY <1>1, <1>2, <1>7, <2>1
<1>8. CASE c = "bad"
  <2>1. Escaped(c) = <<"%", "F", "F">> /\ c = decodeHexByte("F", "F")
    BY <1>8 DEF Escaped, decodeHexByte
  <2> QED BY <1>1, <1>2, <1>8, <2>1
<1>9. CASE c \notin {"%", "#", "?", "^", "ctl", "bad"}
  <2>1. Escaped(c) = <<c>>
    BY <1>9 DEF Escaped
  <2> QED BY <1>9, <2>1, LetterAlone
<1> QED BY <1>3, <1>4, <1>5, <1>6, <1>7, <1>8, <1>9

\* What EscapePath writes of a text is read as that text, and no escape in it stands
\* for a separator.
LEMMA RoundTrip ==
  ASSUME NEW t \in Seq(Letters)
  PROVE  /\ EscapePath(t) \in Seq(Letters) /\ ValidEscapes(EscapePath(t))
         /\ NoSeparators(EscapePath(t)) /\ PathUnescape(EscapePath(t)) = t
<1>1. PICK n \in Nat : n = Len(t) /\ DOMAIN t = 1..n
  BY LenProperties
<1>2. PICK ss : ss = [k \in DOMAIN t |-> Escaped(t[k])]
  OBVIOUS
<1>3. \A k \in 1..n : t[k] \in Letters
  BY <1>1, ElementOfSeq
<1>4. \A k \in 1..n : /\ ss[k] \in Seq(Letters) /\ ValidEscapes(ss[k])
                      /\ NoSeparators(ss[k]) /\ PathUnescape(ss[k]) = <<t[k]>>
  BY <1>1, <1>2, <1>3, EscapedAlone
<1>5. ss \in Seq(Seq(Letters)) /\ Len(ss) = n
  <2>1. ss \in [1..n -> Seq(Letters)]
    BY <1>1, <1>2, <1>4
  <2> QED BY <2>1, FunctionIsSeq
<1>6. PICK g : Joins(g, ss, Letters)
  BY <1>5, JoinsExist
<1>7. g \in [0..n -> Seq(Letters)] /\ g[0] = <<>> /\ \A k \in 1..n : g[k] = g[k - 1] \o ss[k]
  BY <1>5, <1>6 DEF Joins
<1> DEFINE Read(k) == ValidEscapes(g[k]) /\ NoSeparators(g[k]) /\ PathUnescape(g[k]) = SubSeq(t, 1, k)
           S == {k \in 0..n : Read(k)}
<1>8. Read(0)
  <2>1. PICK e \in Seq(Letters) : e = <<>> /\ Len(e) = 0 /\ DOMAIN e = 1..0 /\ 1..0 = {}
    <3>1. <<>> \in Seq(Letters) /\ 1..0 = {}
      OBVIOUS
    <3> QED BY <3>1, EmptySeq, LenProperties
  <2>2. ValidEscapes(e) /\ NoSeparators(e)
    BY <2>1 DEF ValidEscapes, NoSeparators
  <2>3. PathUnescape(e) = <<>>
    <3>1. PICK es : es = [k \in DOMAIN e |-> Unescaped(e, k)]
      OBVIOUS
    <3>2. es \in Seq(Seq(Letters)) /\ Len(es) = 0
      <4>1. es \in [1..0 -> Seq(Letters)]
        BY <2>1, <3>1
      <4> QED BY <4>1, FunctionIsSeq
    <3>3. PICK h : Joins(h, es, Letters)
      BY <3>2, JoinsExist
    <3>4. h[0] = <<>>
      BY <3>3 DEF Joins
    <3> QED BY <3>1, <3>2, <3>3, <3>4, FlattenIs DEF PathUnescape
  <2>4. SubSeq(t, 1, 0) = <<>>
    OBVIOUS
  <2> QED BY <1>7, <2>1, <2>2, <2>3, <2>4
<1>9. ASSUME NEW k \in 0..n, k # n, Read(k) PROVE Read(k + 1)
  <2>1. k + 1 \in 1..n /\ (k + 1) - 1 = k /\ k \in 0..n
    BY <1>9
  <2>2. PICK a \in Seq(Letters), b \in Seq(Letters) :
             a = g[k] /\ b = ss[k + 1] /\ g[k + 1] = a \o b
    BY <1>4, <1>7, <2>1
  <2>3. /\ ValidEscapes(a) /\ NoSeparators(a) /\ PathUnescape(a) = SubSeq(t, 1, k)
        /\ ValidEscapes(b) /\ NoSeparators(b) /\ PathUnescape(b) = <<t[k + 1]>>
    BY <1>4, <1>9, <2>1, <2>2
  <2>4. ValidEscapes(a \o b) /\ NoSeparators(a \o b) /\ PathUnescape(a \o b) = SubSeq(t, 1, k) \o <<t[k + 1]>>
    BY <2>3, UnescapeConcat
  <2>5. SubSeq(t, 1, k) \o <<t[k + 1]>> = SubSeq(t, 1, k + 1)
    BY <1>1, <1>3, <2>1
  <2> QED BY <2>2, <2>4, <2>5
<1>10. n \in S
  <2>1. 0 \in S /\ \A k \in 0..n : k \in S /\ k # n => k + 1 \in S
    <3> HIDE DEF Read
    <3> QED BY <1>8, <1>9
  <2> HIDE DEF S
  <2>2. 0 \in 0..n /\ n \in 0..n
    OBVIOUS
  <2> QED BY <2>1, <2>2, Climbs
<1>11. EscapePath(t) = g[n]
  BY <1>2, <1>5, <1>6, FlattenIs DEF EscapePath
<1>12. SubSeq(t, 1, n) = t
  BY <1>1
<1>13. g[n] \in Seq(Letters)
  <2>1. n \in 0..n
    OBVIOUS
  <2> QED BY <1>7, <2>1
<1> QED BY <1>10, <1>11, <1>12, <1>13

\* Decoding makes no text empty, and moves no separator to its front unless one is
\* encoded there.
LEMMA FirstLetter ==
  ASSUME NEW s \in Seq(Letters), s # <<>>, ValidEscapes(s), NoSeparators(s)
  PROVE  PathUnescape(s) # <<>> /\ (PathUnescape(s)[1] = "/" <=> s[1] = "/")
<1>1. PICK n \in Nat : n = Len(s) /\ DOMAIN s = 1..n /\ 1 \in 1..n
  <2>1. PICK n \in Nat : n = Len(s) /\ DOMAIN s = 1..n
    BY LenProperties
  <2>2. n # 0
    BY <2>1, EmptySeq
  <2> QED BY <2>1, <2>2
<1>2. PICK ss : ss = [k \in DOMAIN s |-> Unescaped(s, k)]
  OBVIOUS
<1>3. \A k \in 1..n : ss[k] \in Seq(Letters) /\ ss[k] = Unescaped(s, k)
  BY <1>1, <1>2, UnescapedIs
<1>4. ss \in Seq(Seq(Letters)) /\ Len(ss) = n
  <2>1. ss \in [1..n -> Seq(Letters)]
    BY <1>1, <1>2, <1>3
  <2> QED BY <2>1, FunctionIsSeq
<1>5. PICK x \in Seq(Letters) : x = ss[1] /\ Len(x) = 1 /\ (x[1] = "/" <=> s[1] = "/")
  <2>1. ~IsDigit(s, 1)
    BY <1>1 DEF IsDigit
  <2>2. CASE s[1] = "%"
    <3>1. decodeHexByte(s[1 + 1], s[1 + 2]) # "/"
      BY <1>1, <2>2 DEF NoSeparators
    <3>2. Len(Unescaped(s, 1)) = 1 /\ Unescaped(s, 1)[1] = decodeHexByte(s[1 + 1], s[1 + 2])
      BY <1>1, <2>2, UnescapedIs
    <3> QED BY <1>1, <1>3, <2>2, <3>1, <3>2
  <2>3. CASE s[1] # "%"
    <3>1. Len(Unescaped(s, 1)) = 1 /\ Unescaped(s, 1)[1] = s[1]
      BY <1>1, <2>1, <2>3, UnescapedIs
    <3> QED BY <1>1, <1>3, <3>1
  <2> QED BY <2>2, <2>3
<1>6. PICK g : Joins(g, ss, Letters)
  BY <1>4, JoinsExist
<1>7. g[1] = x
  <2>1. 1 - 1 = 0
    OBVIOUS
  <2>2. g[1] = <<>> \o x
    BY <1>1, <1>4, <1>5, <1>6, <2>1 DEF Joins
  <2> QED BY <2>2, ConcatEmptySeq
<1>8. Len(g[1]) <= Len(g[n]) /\ \A k \in 1..Len(g[1]) : g[n][k] = g[1][k]
  <2>1. 1 \in 0..Len(ss) /\ n \in 1..Len(ss)
    BY <1>1, <1>4
  <2> QED BY <1>4, <1>6, <2>1, JoinsGrow
<1>9. PICK out \in Seq(Letters) : out = g[n] /\ out = PathUnescape(s)
  <2>1. n \in 0..n
    OBVIOUS
  <2>2. g[n] \in Seq(Letters)
    BY <1>4, <1>6, <2>1 DEF Joins
  <2>3. PathUnescape(s) = g[n]
    BY <1>2, <1>4, <1>6, FlattenIs DEF PathUnescape
  <2> QED BY <2>2, <2>3
<1>10. 1 <= Len(out) /\ out[1] = x[1]
  BY <1>5, <1>7, <1>8, <1>9
<1>11. out # <<>>
  BY <1>10
<1> QED BY <1>5, <1>9, <1>10, <1>11

\* Texts that are read alike and hide no separator are normalised alike.
LEMMA ReadAlike ==
  ASSUME NEW r \in Seq(Letters), NEW e \in Seq(Letters), r # <<>>, e # <<>>, ValidEscapes(r), ValidEscapes(e),
         NoSeparators(r), NoSeparators(e), PathUnescape(r) = PathUnescape(e)
  PROVE  NormalizePath(r) = NormalizePath(e)
<1>1. r[1] = "/" <=> e[1] = "/"
  BY FirstLetter
<1>2. ~hasEncodedSeparator(r) /\ ~hasEncodedSeparator(e)
  BY SeparatorsFound
<1> QED BY <1>1, <1>2 DEF NormalizePath

\* What net/url does to a text changes nothing of its normal form, unless the text
\* hides a separator.
LEMMA EscapedNormal ==
  ASSUME NEW r \in Seq(Letters)
  PROVE  /\ EscapedPath(r) \in Seq(Letters)
         /\ ~SeparatorUncovered(r) => NormalizePath(EscapedPath(r)) = NormalizePath(r)
<1>1. CASE ValidEncoding(r) \/ ~ValidEscapes(r)
  BY <1>1 DEF EscapedPath
<1>2. CASE ~ValidEncoding(r) /\ ValidEscapes(r)
  <2>1. PICK t \in Seq(Letters) : t = PathUnescape(r)
    BY UnescapeCounted
  <2>2. PICK e \in Seq(Letters) : /\ e = EscapePath(t) /\ ValidEscapes(e) /\ NoSeparators(e) /\ PathUnescape(e) = t
    BY RoundTrip
  <2>3. EscapedPath(r) = e
    BY <1>2, <2>1, <2>2 DEF EscapedPath
  <2>4. ASSUME ~SeparatorUncovered(r) PROVE NormalizePath(e) = NormalizePath(r)
    <3>1. NoSeparators(r)
      BY <1>2, <2>4, SeparatorsFound DEF SeparatorUncovered
    <3>2. r # <<>>
      BY <1>2 DEF ValidEncoding, Mentions
    <3>3. t # <<>>
      BY <1>2, <2>1, <3>1, <3>2, FirstLetter
    <3>4. e # <<>>
      <4>1. PathUnescape(<<>>) = <<>>
        <5>1. [k \in DOMAIN <<>> |-> Unescaped(<<>>, k)] = <<>>
          OBVIOUS
        <5> QED BY <5>1 DEF PathUnescape, SeqExt!FlattenSeq
      <4> QED BY <2>2, <3>3, <4>1
    <3> QED BY <1>2, <2>1, <2>2, <3>1, <3>2, <3>4, ReadAlike
  <2> QED BY <2>2, <2>3, <2>4
<1> QED BY <1>1, <1>2

\* Whatever a client sends, an encoded separator that net/url uncovers apart: no escape,
\* no run of separators and no dot makes, hides or reorders a segment of the path the
\* mounts are matched with.
THEOREM FrontendKeepsSegments == FrontSpec => []PathKeepsItsSegments
<1>1. FrontInv => PathKeepsItsSegments
  <2> SUFFICES ASSUME FrontInv, request.path # Unsafe PROVE PathKeepsItsSegments
    BY DEF PathKeepsItsSegments
  <2>1. PICK r \in Seq(Letters) : r = client.raw
    BY TextIs DEF FrontInv, ConfigInv
  <2>2. PICK e \in Seq(Letters) : e = EscapedPath(r)
    BY EscapedNormal
  <2>3. PICK u : u = request.path /\ u = Normal(e) /\ u # Unsafe
    BY <2>1, <2>2 DEF FrontInv, ConfigInv, ServedRequest
  <2>4. NormalizePath(e) # <<>> /\ u = NormalizePath(e)[1]
    BY <2>3 DEF Normal
  <2>5. ~DotSegments(u) /\ ~containsPercentEscape(u)
    BY <2>4, NormalizeKeeps DEF Kept
  <2>6. ASSUME ~SeparatorUncovered(r) PROVE Kept(r, u)
    <3>1. NormalizePath(r) # <<>> /\ u = NormalizePath(r)[1]
      BY <2>2, <2>4, <2>6, EscapedNormal
    <3> QED BY <3>1, NormalizeKeeps
  <2> QED BY <2>1, <2>3, <2>5, <2>6 DEF PathKeepsItsSegments, Kept
<1> QED BY <1>1, FrontInvariant, PTL

-----------------------------------------------------------------------------
(***************************************************************************)
(* Normalising twice: the second pass finds nothing to decode and no run of  *)
(* separators.                                                              *)
(***************************************************************************)
\* Sequences of one element each are flattened to the sequence of those elements.
LEMMA FlattenSingles ==
  ASSUME NEW T, NEW u \in Seq(T), NEW ss \in Seq(Seq(T)), Len(ss) = Len(u),
         \A k \in 1..Len(u) : Len(ss[k]) = 1 /\ ss[k][1] = u[k]
  PROVE  SeqExt!FlattenSeq(ss) = u
<1>1. PICK n \in Nat : n = Len(u) /\ n = Len(ss) /\ DOMAIN u = 1..n
  BY LenProperties
<1>2. \A k \in 1..n : Len(ss[k]) = 1 /\ ss[k][1] = u[k]
  BY <1>1
<1>3. PICK out \in Seq(T) : out = SeqExt!FlattenSeq(ss) /\ \E L : Counts(L, ss, out)
  <2>1. ASSUME NEW k \in 1..n PROVE Len(ss[k]) <= 1
    <3>1. PICK l : l = Len(ss[k]) /\ l = 1
      BY <1>2
    <3>2. l <= 1
      BY <3>1
    <3> QED BY <3>1, <3>2
  <2> QED BY <1>1, <2>1, CountsExist
<1>4. PICK L : Counts(L, ss, out)
  BY <1>3
<1>5. L[0] = 0 /\ L[n] = Len(out) /\ \A k \in 1..n : L[k] = L[k - 1] + 1 /\ u[k] = out[L[k]]
  <2>1. /\ L[0] = 0 /\ L[n] = Len(out)
        /\ \A k \in 1..n : \/ Len(ss[k]) = 0 /\ L[k] = L[k - 1]
                           \/ Len(ss[k]) = 1 /\ L[k] = L[k - 1] + 1 /\ ss[k][1] = out[L[k]]
    BY <1>1, <1>4 DEF Counts
  <2>2. ASSUME NEW k \in 1..n PROVE L[k] = L[k - 1] + 1 /\ u[k] = out[L[k]]
    <3>1. Len(ss[k]) = 1 /\ Len(ss[k]) # 0
      <4>1. Len(ss[k]) = 1
        BY <1>2, Zenon
      <4>2. \A l : l = 1 => l # 0
        OBVIOUS
      <4> QED BY <4>1, <4>2, Zenon
    <3>2. Len(ss[k]) = 1 /\ L[k] = L[k - 1] + 1 /\ ss[k][1] = out[L[k]]
      BY <2>1, <3>1, Zenon
    <3> QED BY <1>2, <3>2, Zenon
  <2> QED BY <2>1, <2>2
<1> DEFINE S == {k \in 0..n : L[k] = k}
<1>6. 0 \in S
  BY <1>5
<1>7. ASSUME NEW k \in 0..n, k \in S, k # n PROVE k + 1 \in S
  <2>1. k + 1 \in 1..n /\ (k + 1) - 1 = k /\ L[k] = k
    BY <1>7
  <2> QED BY <1>5, <2>1
<1>8. \A k \in 0..n : k \in S
  <2> HIDE DEF S
  <2>1. 0 \in 0..n
    OBVIOUS
  <2> QED BY <1>6, <1>7, <2>1, Climbs
<1>9. Len(out) = n /\ \A k \in 1..n : out[k] = u[k]
  <2>1. \A k \in 0..n : L[k] = k
    BY <1>8
  <2>2. n \in 0..n /\ \A k \in 1..n : k \in 0..n
    OBVIOUS
  <2>3. \A k \in 1..n : L[k] = k /\ u[k] = out[L[k]]
    BY <1>5, <2>1, <2>2
  <2> QED BY <1>5, <2>1, <2>2, <2>3
<1> QED BY <1>1, <1>3, <1>9, SeqEqual

\* What path.Clean leaves of a text: its first character, characters of the text, and
\* no two separators side by side.
LEMMA CleanLeaves ==
  ASSUME NEW t \in Seq(Letters), t # <<>>, NEW u, u = CleanPath(t)
  PROVE  /\ u \in Seq(Letters) /\ u # <<>> /\ u[1] = t[1]
         /\ \A k \in 1..Len(u) : \E j \in 1..Len(t) : u[k] = t[j]
         /\ \A k \in 1..Len(u) : k > 1 /\ u[k] = "/" => u[k - 1] # "/"
<1>1. PICK n \in Nat : n = Len(t) /\ DOMAIN t = 1..n /\ 1 \in 1..n
  <2>1. PICK n \in Nat : n = Len(t) /\ DOMAIN t = 1..n
    BY LenProperties
  <2>2. n # 0
    BY <2>1, EmptySeq
  <2> QED BY <2>1, <2>2
<1>2. PICK ss : ss = [k \in DOMAIN t |-> Cleaned(t, k)]
  OBVIOUS
<1>3. \A k \in 1..n : /\ ss[k] \in Seq(Letters)
                      /\ k > 1 /\ t[k] = "/" /\ t[k - 1] = "/" => Len(ss[k]) = 0
                      /\ ~(k > 1 /\ t[k] = "/" /\ t[k - 1] = "/") => Len(ss[k]) = 1 /\ ss[k][1] = t[k]
  BY <1>1, <1>2, CleanedIs
<1>4. ss \in Seq(Seq(Letters)) /\ Len(ss) = n
  <2>1. ss \in [1..n -> Seq(Letters)]
    BY <1>1, <1>2, <1>3
  <2> QED BY <2>1, FunctionIsSeq
<1>5. PICK out \in Seq(Letters) : out = u /\ \E L : Counts(L, ss, out)
  <2>1. ASSUME NEW k \in 1..n PROVE Len(ss[k]) <= 1
    <3>1. PICK l : l = Len(ss[k])
      OBVIOUS
    <3>2. l = 0 \/ l = 1
      BY <1>3, <3>1
    <3>3. l <= 1
      BY <3>2
    <3> QED BY <3>1, <3>3
  <2>2. u = SeqExt!FlattenSeq(ss)
    BY <1>2 DEF CleanPath
  <2> QED BY <1>4, <2>1, <2>2, CountsExist
<1>6. PICK L : Counts(L, ss, out)
  BY <1>5
<1>7. PICK w \in Nat : w = Len(out)
  BY LenProperties
<1>8. /\ \A k \in 0..n : L[k] \in Nat
      /\ L[0] = 0 /\ L[n] = w
      /\ \A k \in 1..n : Len(ss[k]) = 1 => L[k] = L[k - 1] + 1 /\ ss[k][1] = out[L[k]]
  <2>1. \A k \in 1..n : \/ Len(ss[k]) = 0 /\ L[k] = L[k - 1]
                        \/ Len(ss[k]) = 1 /\ L[k] = L[k - 1] + 1 /\ ss[k][1] = out[L[k]]
    BY <1>4, <1>6 DEF Counts
  <2>2. \A k \in 1..n : Len(ss[k]) = 1 => L[k] = L[k - 1] + 1 /\ ss[k][1] = out[L[k]]
    <3> TAKE k \in 1..n
    <3>1. PICK l : l = Len(ss[k])
      OBVIOUS
    <3> QED BY <2>1, <3>1
  <2> QED BY <1>4, <1>6, <1>7, <2>2 DEF Counts
<1>9. \A j \in 0..n : \A k \in j..n : L[j] <= L[k]
  BY <1>4, <1>6, CountsGrow
<1>10. w >= 1 /\ out[1] = t[1]
  <2>1. Len(ss[1]) = 1 /\ ss[1][1] = t[1]
    BY <1>1, <1>3
  <2>2. L[1] = 1 /\ out[1] = t[1]
    BY <1>1, <1>8, <2>1
  <2>3. L[1] <= L[n]
    BY <1>1, <1>9
  <2> QED BY <1>1, <1>8, <2>2, <2>3
<1>11. ASSUME NEW k \in 1..w
       PROVE  \E p \in 1..n : L[p] = k /\ L[p - 1] = k - 1 /\ Len(ss[p]) = 1 /\ ss[p][1] = out[k] /\ out[k] = t[p]
  <2>1. Comes(k, L, ss, out)
    BY <1>4, <1>6, <1>7, CountsHit
  <2>2. PICK p \in 1..n : L[p] = k /\ L[p - 1] = k - 1 /\ Len(ss[p]) = 1 /\ ss[p][1] = out[k]
    BY <1>4, <2>1 DEF Comes
  <2>3. out[k] = t[p]
    <3>1. PICK l : l = Len(ss[p])
      OBVIOUS
    <3>2. l = 1
      BY <2>2, <3>1
    <3> QED BY <1>3, <2>2, <3>1, <3>2
  <2> QED BY <2>2, <2>3
<1>12. ASSUME NEW k \in 1..w, k > 1, out[k] = "/", out[k - 1] = "/" PROVE FALSE
  <2>1. PICK p \in 1..n : L[p] = k /\ L[p - 1] = k - 1 /\ Len(ss[p]) = 1 /\ t[p] = "/"
    <3>1. PICK p \in 1..n : L[p] = k /\ L[p - 1] = k - 1 /\ Len(ss[p]) = 1 /\ out[k] = t[p]
      BY <1>11, Zenon
    <3> QED BY <1>12, <3>1, Zenon
  <2>2. PICK j \in 1..w : j = k - 1
    BY <1>12
  <2>3. PICK q \in 1..n : L[q] = k - 1 /\ t[q] = "/"
    <3>1. PICK q \in 1..n : L[q] = j /\ out[j] = t[q]
      BY <1>11, Zenon
    <3> QED BY <1>12, <2>2, <3>1, Zenon
  <2>4. q < p
    <3>1. ASSUME p <= q PROVE FALSE
      <4>1. L[p] <= L[q]
        BY <1>9, <3>1
      <4> QED BY <2>1, <2>3, <4>1
    <3> QED BY <3>1
  <2>5. p > 1 /\ p - 1 \in 1..n /\ t[p - 1] # "/"
    <3>1. p > 1 /\ p - 1 \in 1..n
      BY <2>4
    <3>2. PICK l : l = Len(ss[p]) /\ l = 1
      BY <2>1
    <3> QED BY <1>3, <2>1, <3>1, <3>2
  <2>6. p - 2 \in q..n /\ q \in 0..n /\ (p - 1) - 1 = p - 2 /\ p - 2 \in 0..n
    <3>1. p - 1 # q
      BY <2>3, <2>5
    <3> QED BY <2>4, <3>1
  <2>7. L[p - 1] = L[p - 2] + 1
    <3>1. Len(ss[p - 1]) = 1
      BY <1>3, <2>5
    <3> QED BY <1>8, <2>5, <2>6, <3>1
  <2>8. L[q] <= L[p - 2] /\ L[p - 2] \in Nat
    BY <1>8, <1>9, <2>6
  <2> QED BY <2>1, <2>3, <2>7, <2>8
<1>13. out # <<>>
  BY <1>7, <1>10
<1>14. \A k \in 1..w : \E j \in 1..n : out[k] = t[j]
  BY <1>11
<1> QED BY <1>1, <1>5, <1>7, <1>10, <1>12, <1>13, <1>14

\* A text without a "%" and without two separators side by side is left as it is by
\* decoding and cleaning.
LEMMA NothingToDo ==
  ASSUME NEW u \in Seq(Letters), ~Mentions(u, {"%"}),
         \A k \in 1..Len(u) : k > 1 /\ u[k] = "/" => u[k - 1] # "/"
  PROVE  PathUnescape(u) = u /\ CleanPath(u) = u
<1>1. PICK n \in Nat : n = Len(u) /\ DOMAIN u = 1..n
  BY LenProperties
<1>2. \A k \in 1..n : u[k] # "%"
  BY <1>1 DEF Mentions
<1>3. PathUnescape(u) = u
  <2>1. PICK ss : ss = [k \in DOMAIN u |-> Unescaped(u, k)]
    OBVIOUS
  <2>2. \A k \in 1..n : ss[k] \in Seq(Letters) /\ Len(ss[k]) = 1 /\ ss[k][1] = u[k]
    <3> TAKE k \in 1..n
    <3>1. u[k] # "%" /\ ~IsDigit(u, k)
      BY <1>1, <1>2 DEF IsDigit
    <3>2. Unescaped(u, k) \in Seq(Letters) /\ Len(Unescaped(u, k)) = 1 /\ Unescaped(u, k)[1] = u[k]
      BY <1>1, <3>1, UnescapedIs
    <3> QED BY <1>1, <2>1, <3>2
  <2>3. ss \in Seq(Seq(Letters)) /\ Len(ss) = n
    <3>1. ss \in [1..n -> Seq(Letters)]
      BY <1>1, <2>1, <2>2
    <3> QED BY <3>1, FunctionIsSeq
  <2> QED BY <1>1, <2>1, <2>2, <2>3, FlattenSingles DEF PathUnescape
<1>4. CleanPath(u) = u
  <2>1. PICK ss : ss = [k \in DOMAIN u |-> Cleaned(u, k)]
    OBVIOUS
  <2>2. \A k \in 1..n : ss[k] \in Seq(Letters) /\ Len(ss[k]) = 1 /\ ss[k][1] = u[k]
    <3> TAKE k \in 1..n
    <3>1. ~(k > 1 /\ u[k] = "/" /\ u[k - 1] = "/")
      BY <1>1
    <3>2. Cleaned(u, k) \in Seq(Letters) /\ Len(Cleaned(u, k)) = 1 /\ Cleaned(u, k)[1] = u[k]
      BY <1>1, <3>1, CleanedIs
    <3> QED BY <1>1, <2>1, <3>2
  <2>3. ss \in Seq(Seq(Letters)) /\ Len(ss) = n
    <3>1. ss \in [1..n -> Seq(Letters)]
      BY <1>1, <2>1, <2>2
    <3> QED BY <3>1, FunctionIsSeq
  <2> QED BY <1>1, <2>1, <2>2, <2>3, FlattenSingles DEF CleanPath
<1> QED BY <1>3, <1>4

\* A path that passes NormalizePath passes again and stays as it is, if no decoded "%"
\* is left in it; one with a "%" left is refused.
LEMMA NormalTwice ==
  ASSUME NEW r \in Seq(Letters), NormalizePath(r) # <<>>, NEW u, u = NormalizePath(r)[1]
  PROVE  NormalizePath(u) = <<u>> <=> ~Mentions(u, {"%"})
<1>1. PICK t \in Seq(Letters) : t = PathUnescape(r)
  BY UnescapeCounted
<1>2. /\ r # <<>> /\ r[1] = "/" /\ ~hasEncodedSeparator(r) /\ ValidEscapes(r)
      /\ ~Mentions(t, {"bad", "ctl"}) /\ u = CleanPath(t)
  BY <1>1 DEF NormalizePath
<1>3. t # <<>> /\ t[1] = "/"
  <2>1. NoSeparators(r)
    BY <1>2, SeparatorsFound
  <2> QED BY <1>1, <1>2, <2>1, FirstLetter
<1>4. PICK v \in Seq(Letters) : v = u
  BY <1>2, <1>3, CleanLeaves
<1>5. /\ v # <<>> /\ v[1] = "/"
      /\ \A k \in 1..Len(v) : \E j \in 1..Len(t) : v[k] = t[j]
      /\ \A k \in 1..Len(v) : k > 1 /\ v[k] = "/" => v[k - 1] # "/"
  BY <1>2, <1>3, <1>4, CleanLeaves
<1>6. ~DotSegments(v) /\ ~containsPercentEscape(v)
  BY <1>4, NormalizeKeeps DEF Kept
<1>7. DOMAIN v = 1..Len(v) /\ DOMAIN t = 1..Len(t)
  BY LenProperties
<1>8. CASE Mentions(v, {"%"})
  <2>1. ~ValidEscapes(v)
    BY <1>6, <1>8 DEF Mentions, ValidEscapes, containsPercentEscape
  <2>2. NormalizePath(v) = <<>>
    BY <2>1 DEF NormalizePath
  <2>3. <<>> # <<v>>
    OBVIOUS
  <2> QED BY <1>4, <1>8, <2>2, <2>3
<1>9. CASE ~Mentions(v, {"%"})
  <2>1. ValidEscapes(v) /\ NoSeparators(v)
    BY <1>7, <1>9 DEF Mentions, ValidEscapes, NoSeparators
  <2>2. ~hasEncodedSeparator(v)
    BY <2>1, SeparatorsFound
  <2>3. PathUnescape(v) = v /\ CleanPath(v) = v
    BY <1>5, <1>9, NothingToDo
  <2>4. ~Mentions(v, {"bad", "ctl"})
    BY <1>2, <1>5, <1>7 DEF Mentions
  <2>5. NormalizePath(v) = <<v>>
    BY <1>5, <1>6, <2>1, <2>2, <2>3, <2>4 DEF NormalizePath
  <2> QED BY <1>4, <1>9, <2>5
<1> QED BY <1>4, <1>8, <1>9

\* The fuzzer's claim with its exception: the path the mounts are matched with is its own
\* normal form, unless it holds a decoded "%".
THEOREM FrontendNormalizesAgain == FrontSpec => []NormalizesAgain
<1>1. FrontInv => NormalizesAgain
  <2> SUFFICES ASSUME FrontInv, request.path # Unsafe PROVE NormalizesAgain
    BY DEF NormalizesAgain
  <2>1. PICK r \in Seq(Letters) : r = client.raw
    BY TextIs DEF FrontInv, ConfigInv
  <2>2. PICK e \in Seq(Letters) : e = EscapedPath(r)
    BY EscapedNormal
  <2>3. PICK u : u = request.path /\ u = Normal(e) /\ u # Unsafe
    BY <2>1, <2>2 DEF FrontInv, ConfigInv, ServedRequest
  <2>4. NormalizePath(e) # <<>> /\ u = NormalizePath(e)[1]
    BY <2>3 DEF Normal
  <2>5. NormalizePath(u) = <<u>> <=> ~Mentions(u, {"%"})
    BY <2>4, NormalTwice
  <2> QED BY <2>3, <2>5 DEF NormalizesAgain
<1> QED BY <1>1, FrontInvariant, PTL

-----------------------------------------------------------------------------
(***************************************************************************)
(* explain.                                                                 *)
(***************************************************************************)
\* explain looks for the mount the frontend resolves to.
LEMMA ExplainResolves ==
  ASSUME IInv, FrontInv, client.raw # <<>>, ~(client.source = None /\ SeparatorUncovered(client.raw))
  PROVE  ExplainedRequest(client) = request /\ Best(request) = Undefeated
<1>1. ExplainedRequest(client) = request
  <2>1. Normal(ExplainedPath(client)) = Normal(EscapedPath(client.raw))
    <3>1. CASE client.source # None
      BY <3>1 DEF ExplainedPath
    <3>2. CASE client.source = None
      <4>1. PICK r \in Seq(Letters) : r = client.raw
        BY TextIs DEF FrontInv, ConfigInv
      <4>2. NormalizePath(EscapedPath(r)) = NormalizePath(r)
        BY <3>2, <4>1, EscapedNormal
      <4>3. ExplainedPath(client) = r
        BY <3>2, <4>1 DEF ExplainedPath
      <4> QED BY <4>1, <4>2, <4>3 DEF Normal
    <3> QED BY <3>1, <3>2
  <2> QED BY <2>1 DEF ExplainedRequest, ServedRequest, FrontInv, ConfigInv
<1>2. Best(request) = Undefeated
  BY DEF Best, Undefeated, Applicable
<1> QED BY <1>1, <1>2

\* What a dry run tells of a request is what the frontend then does with it.
THEOREM FrontendExplained == FrontSpec => []ExplainAgrees
<1>1. IInv /\ FrontInv => ExplainAgrees
  <2> SUFFICES ASSUME IInv, FrontInv, stage = "responded", client.address, client.raw # <<>>,
                      ~(client.source = None /\ SeparatorUncovered(client.raw))
               PROVE  ExplainAgrees
    BY DEF ExplainAgrees
  <2>1. ExplainedRequest(client) = request /\ Best(request) = Undefeated
    BY ExplainResolves
  <2>2. /\ resource # <<>> => Allowed /\ Parses
        /\ resource = <<>> => EndedEarly
    BY DEF FrontInv, StageInv
  <2>3. CASE BadTarget /\ client.source # None
    <3>1. Evaluate = "error"
      BY <2>3 DEF Evaluate
    <3>2. resource = <<>> /\ status = 400
      BY <2>2, <2>3 DEF Allowed, Matched, EndedEarly
    <3> QED BY <3>1, <3>2 DEF ExplainAgrees
  <2>4. CASE BadTarget /\ client.source = None
    <3>1. ~ValidEscapes(client.raw)
      BY <2>4 DEF BadTarget, FrontInv, ConfigInv
    <3>2. request.path = Unsafe
      <4>1. EscapedPath(client.raw) = client.raw
        BY <3>1 DEF EscapedPath
      <4>2. NormalizePath(client.raw) = <<>>
        BY <3>1 DEF NormalizePath
      <4> QED BY <4>1, <4>2 DEF FrontInv, ConfigInv, ServedRequest, Normal
    <3>3. Evaluate = "unsafe_path"
      BY <2>1, <2>4, <3>2 DEF Evaluate
    <3>4. status = 400
      BY <2>2, <2>4 DEF Allowed, Matched, EndedEarly
    <3> QED BY <3>3, <3>4 DEF ExplainAgrees
  <2>5. CASE ~BadTarget
    <3>1. pc = "done"
      BY <2>2, <2>5 DEF Allowed, Matched, EndedEarly
    <3>2. CASE request.path = Unsafe
      <4>1. result.kind = "unsafe"
        BY <3>1, <3>2 DEF IInv, ResultInv, Outcome
      <4>2. status = 400
        BY <2>2, <2>5, <4>1 DEF Allowed, Matched, EndedEarly
      <4>3. Evaluate = "unsafe_path"
        BY <2>1, <2>5, <3>2 DEF Evaluate
      <4> QED BY <4>2, <4>3 DEF ExplainAgrees
    <3>3. CASE request.path # Unsafe /\ result.kind = "noMatch"
      <4>1. Undefeated = {}
        BY <3>1, <3>3, UniqueBestInv DEF ResolvedIsUniqueBest, Undefeated
      <4>2. status = 404
        BY <2>2, <2>5, <3>3 DEF Allowed, Matched, EndedEarly
      <4>3. Evaluate = "no_mount"
        BY <2>1, <2>5, <3>3, <4>1 DEF Evaluate
      <4> QED BY <4>2, <4>3 DEF ExplainAgrees
    <3>4. CASE request.path # Unsafe /\ result.kind = "ambiguous"
      <4>1. winner \in Undefeated
        BY <3>4, WinnerApplies DEF Undefeated
      <4>2. \A k \in Undefeated : Undefeated # {k}
        BY <3>1, <3>4, UniqueBestInv DEF ResolvedIsUniqueBest, Undefeated
      <4>3. status = 500
        BY <2>2, <2>5, <3>4 DEF Allowed, Matched, EndedEarly
      <4>4. Evaluate = "ambiguous_mount"
        BY <2>1, <2>5, <3>4, <4>1, <4>2 DEF Evaluate
      <4> QED BY <4>3, <4>4 DEF ExplainAgrees
    <3>5. CASE request.path # Unsafe /\ result.kind = "match"
      <4>1. Undefeated = {result.mount}
        BY <3>1, <3>5, UniqueBestInv DEF ResolvedIsUniqueBest
      <4>2. Target(mounts[CHOOSE k \in Undefeated : TRUE], request.path) = result.target
        <5>1. (CHOOSE k \in Undefeated : TRUE) = result.mount
          BY <4>1
        <5> QED BY <3>5, <5>1 DEF FrontInv, ConfigInv
      <4>3. Evaluate = IF ~Parses THEN "error"
                       ELSE IF Judged(result.target) \in permits THEN "permit" ELSE "reject"
        BY <2>1, <2>5, <3>5, <4>1, <4>2 DEF Evaluate, Parses
      <4>4. CASE ~Parses
        <5>1. resource = <<>> /\ status \in {403, 502}
          BY <2>2, <2>5, <3>5, <4>4 DEF EndedEarly
        <5> QED BY <4>3, <4>4, <5>1 DEF ExplainAgrees
      <4>5. CASE Parses /\ Judged(result.target) \in permits
        <5>1. resource # <<>> \/ status = 413
          BY <2>2, <2>5, <3>5, <4>5 DEF EndedEarly
        <5> QED BY <4>3, <4>5, <5>1 DEF ExplainAgrees
      <4>6. CASE Parses /\ Judged(result.target) \notin permits
        <5>1. status = 403
          BY <2>2, <2>5, <3>5, <4>6 DEF EndedEarly, Allowed
        <5> QED BY <4>3, <4>6, <5>1 DEF ExplainAgrees
      <4> QED BY <4>4, <4>5, <4>6
    <3>6. request.path # Unsafe => result.kind \in {"noMatch", "ambiguous", "match"}
      BY <3>1 DEF IInv, ResultInv
    <3> QED BY <3>2, <3>3, <3>4, <3>5, <3>6
  <2> QED BY <2>3, <2>4, <2>5
<1> QED BY <1>1, FrontInvariant, PTL
=============================================================================
