---------------------------- MODULE PolicyProofs ----------------------------
(***************************************************************************)
(* Proofs about Policy and about Legacy, which extends it, for any lists of  *)
(* rules or directives, chains and trusted proxies.                         *)
(***************************************************************************)
EXTENDS Legacy, TLAPS

-----------------------------------------------------------------------------
(***************************************************************************)
(* The order on rules.                                                      *)
(***************************************************************************)

\* A rule preferred to the winner is preferred to all that were not.
LEMMA NewWinner ==
  ASSUME NEW m \in Rule, NEW w \in Rule, NEW o \in Rule,
         Prefers(m, w), ~Prefers(o, w)
  PROVE  Prefers(m, o)
BY DEF Prefers, Rule, Effects

\* Preference is strict.
LEMMA Strict ==
  ASSUME NEW m \in Rule, NEW w \in Rule, Prefers(m, w)
  PROVE  ~Prefers(w, m) /\ m # w
BY DEF Prefers, Rule, Effects

\* The rules of a list are rules.
LEMMA ListTyped ==
  ASSUME TypeOK
  PROVE  /\ Len(rules) \in Nat /\ DOMAIN rules = 1..Len(rules)
         /\ \A k \in 1..Len(rules) : rules[k] \in Rule
BY PolicyAssumption DEF TypeOK

-----------------------------------------------------------------------------
(***************************************************************************)
(* The walk: every hop between the one looked at and the server is trusted. *)
(***************************************************************************)
WalkInv ==
  /\ pc \in {"parse", "walk"} =>
       request.peer \in frontend.trusted /\ request.forwarded # <<>>
  /\ pc = "walk" =>
       /\ i \in 0..Len(request.forwarded)
       /\ \A k \in DOMAIN request.forwarded : request.forwarded[k] \in Addresses
       /\ \A k \in DOMAIN request.forwarded : k > i => request.forwarded[k] \in frontend.trusted

(***************************************************************************)
(* The loop of Evaluate: of the rules before i, the winner is the matching  *)
(* one that none of them is preferred to, and it is preferred to the ones   *)
(* before it.                                                               *)
(***************************************************************************)
Heard == {k \in 1..(i - 1) : ruleMatches(rules[k], source, request)}

JudgeInv ==
  /\ pc \notin {"evaluate", "done"} => winner = 0
  /\ pc \in {"evaluate", "done"} =>
       /\ i \in 1..(Len(rules) + 1)
       /\ winner = 0 => Heard = {}
       /\ winner # 0 =>
            /\ winner \in Heard
            /\ \A k \in Heard : ~Prefers(rules[k], rules[winner])
            /\ \A k \in Heard : k < winner => Prefers(rules[winner], rules[k])
  /\ pc = "done" =>
       /\ i = Len(rules) + 1
       /\ decision = IF winner = 0 THEN "default_deny"
                     ELSE IF rules[winner].effect = "reject" THEN "explicit_reject"
                     ELSE "explicit_permit"

IInv == TypeOK /\ WalkInv /\ SourceIsVouchedFor /\ JudgeInv

\* The chain is the forwarded addresses, then the peer.
LEMMA ChainTyped ==
  ASSUME TypeOK
  PROVE  /\ Len(request.forwarded) \in Nat
         /\ DOMAIN request.forwarded = 1..Len(request.forwarded)
         /\ DOMAIN Chain = 1..(Len(request.forwarded) + 1)
         /\ Chain[Len(request.forwarded) + 1] = request.peer
         /\ \A k \in 1..Len(request.forwarded) : Chain[k] = request.forwarded[k]
<1>1. request.forwarded \in Seq(Addresses \cup {Malformed})
  BY PolicyAssumption DEF TypeOK, Request
<1> QED BY <1>1 DEF Chain

\* A request that has just arrived satisfies it, whatever the rules.
LEMMA ArrivalInv == rules \in Seq(Rule) /\ Arrival => IInv
<1> SUFFICES ASSUME rules \in Seq(Rule), Arrival PROVE IInv
  OBVIOUS
<1>1. Len(rules) \in Nat
  OBVIOUS
<1>2. TypeOK
  BY <1>1 DEF Arrival, TypeOK, Decisions
<1> QED BY <1>2 DEF Arrival, IInv, WalkInv, SourceIsVouchedFor, JudgeInv

\* Every step of the walk and of the evaluation keeps it.
LEMMA AuthorizationStep == IInv /\ [Next]_vars => IInv'
<1> SUFFICES ASSUME IInv, [Next]_vars PROVE IInv'
  OBVIOUS
<1>1. TypeOK
  BY DEF IInv
<1>2. /\ request \in Request
      /\ request.peer \in Addresses \cup {Malformed}
      /\ frontend.trusted \subseteq Addresses
  BY <1>1, PolicyAssumption DEF TypeOK, Request
<1>3. CASE Direct
  <2>1. TypeOK'
    BY <1>1, <1>2, <1>3 DEF Direct, Settle, input, TypeOK
  <2>2. WalkInv'
    BY <1>3 DEF Direct, Settle, WalkInv
  <2>3. SourceIsVouchedFor'
    <3> SUFFICES ASSUME frontend.header
                 PROVE  \E k \in DOMAIN Chain :
                          /\ request.peer = Chain[k]
                          /\ \A j \in DOMAIN Chain : j > k => Chain[j] \in frontend.trusted
                          /\ request.peer \notin frontend.trusted \/ k = 1
      BY <1>3 DEF Direct, Settle, input, SourceIsVouchedFor, Chain
    <3> DEFINE n == Len(request.forwarded) + 1
    <3>1. n \in DOMAIN Chain /\ request.peer = Chain[n]
          /\ \A j \in DOMAIN Chain : ~(j > n)
      BY <1>1, ChainTyped
    <3>2. request.peer \notin frontend.trusted \/ n = 1
      BY <1>3 DEF Direct
    <3> QED BY <3>1, <3>2
  <2>4. JudgeInv'
    <3>1. winner' = 0 /\ pc' = "evaluate" /\ i' = 1 /\ rules' = rules
      BY <1>3 DEF Direct, Settle, input, IInv, JudgeInv
    <3>2. Heard' = {}
      BY <3>1 DEF Heard
    <3> QED BY <1>1, <3>1, <3>2, ListTyped DEF JudgeInv
  <2> QED BY <2>1, <2>2, <2>3, <2>4 DEF IInv
<1>4. CASE Forwarded
  BY <1>4 DEF Forwarded, input, IInv, TypeOK, WalkInv, SourceIsVouchedFor, JudgeInv
<1>5. CASE InvalidPeer
  BY <1>5 DEF InvalidPeer, input, IInv, TypeOK, WalkInv, SourceIsVouchedFor, JudgeInv
<1>6. CASE Parse
  <2>1. \A k \in DOMAIN request.forwarded :
          request.forwarded[k] \in Addresses \cup {Malformed}
    BY <1>2 DEF Request
  <2>2. TypeOK'
    BY <1>1, <1>6, ChainTyped DEF Parse, input, TypeOK
  <2>3. WalkInv'
    BY <1>1, <1>6, <2>1, ChainTyped DEF Parse, input, IInv, WalkInv
  <2> QED BY <1>6, <2>2, <2>3 DEF Parse, input, IInv, SourceIsVouchedFor, JudgeInv
<1>7. CASE Walk
  <2> DEFINE f == request.forwarded
  <2>1. /\ pc = "walk" /\ i \in 0..Len(f) /\ f # <<>>
        /\ request.peer \in frontend.trusted
        /\ \A k \in 1..Len(f) : f[k] \in Addresses
        /\ \A k \in 1..Len(f) : k > i => f[k] \in frontend.trusted
    BY <1>1, <1>7, ChainTyped DEF Walk, IInv, WalkInv
  <2>2. 1 \in 1..Len(f)
    BY <1>2, <2>1 DEF Request
  <2>3. ASSUME i # 0, f[i] \in frontend.trusted, i' = i - 1, UNCHANGED <<pc, source>>
        PROVE  IInv'
    <3>1. WalkInv'
      BY <1>1, <1>7, <2>1, <2>3, ChainTyped DEF Walk, input, WalkInv
    <3>2. TypeOK' /\ JudgeInv' /\ SourceIsVouchedFor'
      BY <1>1, <1>7, <2>1, <2>3
         DEF Walk, input, TypeOK, IInv, JudgeInv, SourceIsVouchedFor
    <3> QED BY <3>1, <3>2 DEF IInv
  <2>4. ASSUME NEW n \in 1..Len(f), Settle(f[n]), n >= i,
               f[n] \notin frontend.trusted \/ n = 1
        PROVE  IInv'
    <3>1. /\ pc' = "evaluate" /\ source' = f[n] /\ i' = 1 /\ winner' = 0
          /\ rules' = rules /\ request' = request /\ frontend' = frontend
          /\ decision' = decision
      BY <1>7, <2>1, <2>4 DEF Walk, Settle, input, IInv, JudgeInv
    <3>2. TypeOK'
      BY <1>1, <2>1, <3>1 DEF TypeOK
    <3>3. \E k \in DOMAIN Chain :
            /\ f[n] = Chain[k]
            /\ \A j \in DOMAIN Chain : j > k => Chain[j] \in frontend.trusted
            /\ f[n] \notin frontend.trusted \/ k = 1
      <4>1. n \in DOMAIN Chain /\ f[n] = Chain[n]
        BY <1>1, ChainTyped
      <4>2. ASSUME NEW j \in DOMAIN Chain, j > n PROVE Chain[j] \in frontend.trusted
        BY <1>1, <2>1, <2>4, <4>2, ChainTyped
      <4> QED BY <2>4, <4>1, <4>2
    <3>4. SourceIsVouchedFor'
      BY <3>1, <3>3 DEF SourceIsVouchedFor, Chain
    <3>5. Heard' = {}
      BY <3>1 DEF Heard
    <3>6. WalkInv' /\ JudgeInv'
      BY <1>1, <3>1, <3>5, ListTyped DEF WalkInv, JudgeInv
    <3> QED BY <3>2, <3>4, <3>6 DEF IInv
  <2>5. CASE i = 0
    BY <1>7, <2>1, <2>2, <2>4, <2>5 DEF Walk
  <2>6. CASE i # 0
    BY <1>7, <2>1, <2>3, <2>4, <2>6 DEF Walk
  <2> QED BY <2>5, <2>6
<1>8. CASE Judge
  <2>1. /\ pc = "evaluate" /\ pc' = pc /\ i \in 1..Len(rules) /\ i' = i + 1
        /\ rules' = rules /\ request' = request /\ source' = source
        /\ Len(rules) \in Nat
    BY <1>1, <1>8, ListTyped DEF Judge, input, IInv, JudgeInv
  <2>2. /\ Heard' = IF ruleMatches(rules[i], source, request) THEN Heard \cup {i} ELSE Heard
        /\ i \notin Heard /\ Heard \subseteq 1..Len(rules)
        /\ \A k \in Heard : k < i
    BY <2>1 DEF Heard
  <2>3. TypeOK' /\ WalkInv' /\ SourceIsVouchedFor'
    BY <1>1, <1>8, <2>1 DEF Judge, input, IInv, TypeOK, WalkInv, SourceIsVouchedFor, Chain
  <2>4. CASE winner' = i /\ ruleMatches(rules[i], source, request)
             /\ (winner # 0 => Prefers(rules[i], rules[winner]))
    <3>1. ASSUME NEW k \in Heard PROVE Prefers(rules[i], rules[k])
      <4>1. winner \in Heard /\ ~Prefers(rules[k], rules[winner])
        BY <2>1, <3>1 DEF IInv, JudgeInv
      <4> QED BY <1>1, <2>1, <2>2, <2>4, <3>1, <4>1, ListTyped, NewWinner
    <3>2. ASSUME NEW k \in Heard PROVE ~Prefers(rules[k], rules[i])
      BY <1>1, <2>1, <2>2, <3>1, <3>2, ListTyped, Strict
    <3>3. ~Prefers(rules[i], rules[i])
      BY <1>1, <2>1, ListTyped, Strict
    <3> QED BY <2>1, <2>2, <2>3, <2>4, <3>1, <3>2, <3>3 DEF IInv, JudgeInv
  <2>5. CASE winner' = winner /\ ~ruleMatches(rules[i], source, request)
    BY <2>1, <2>2, <2>3, <2>5 DEF IInv, JudgeInv
  <2>6. CASE winner' = winner /\ ruleMatches(rules[i], source, request)
             /\ winner # 0 /\ ~Prefers(rules[i], rules[winner])
    <3>1. winner \in Heard /\ winner < i
      BY <2>1, <2>2, <2>6 DEF IInv, JudgeInv
    <3> QED BY <2>1, <2>2, <2>3, <2>6, <3>1 DEF IInv, JudgeInv
  <2> QED BY <1>8, <2>4, <2>5, <2>6 DEF Judge
<1>9. CASE Decide
  <2>1. i = Len(rules) + 1
    BY <1>1, <1>9, ListTyped DEF Decide, IInv, JudgeInv
  <2>2. TypeOK'
    BY <1>1, <1>9 DEF Decide, input, TypeOK, Decisions
  <2>3. WalkInv' /\ SourceIsVouchedFor'
    BY <1>9 DEF Decide, input, IInv, WalkInv, SourceIsVouchedFor, Chain
  <2>4. JudgeInv'
    BY <1>9, <2>1 DEF Decide, input, IInv, JudgeInv, Heard
  <2> QED BY <2>2, <2>3, <2>4 DEF IInv
<1>10. CASE UNCHANGED vars
  BY <1>10 DEF vars, IInv, TypeOK, WalkInv, SourceIsVouchedFor, Chain, JudgeInv, Heard
<1> QED BY <1>3, <1>4, <1>5, <1>6, <1>7, <1>8, <1>9, <1>10 DEF Next, Terminated

\* The inductive invariant of both loops holds throughout.
LEMMA AuthorizationInvariant == Spec => []IInv
<1>1. Init => IInv
  BY ArrivalInv, PolicyAssumption DEF Init
<1> QED BY <1>1, AuthorizationStep, PTL DEF Spec

\* Hops and rule indices stay in range for every chain and list.
THEOREM PolicyTyped == Spec => []TypeOK
<1>1. IInv => TypeOK
  BY DEF IInv
<1> QED BY <1>1, AuthorizationInvariant, PTL

\* For every chain and set of proxies, an address an untrusted hop wrote about
\* another is never the one that is judged.
THEOREM PolicySourceVouched == Spec => []SourceIsVouchedFor
<1>1. IInv => SourceIsVouchedFor
  BY DEF IInv
<1> QED BY <1>1, AuthorizationInvariant, PTL

\* At the end every matching rule has been heard.
LEMMA AllHeard ==
  ASSUME IInv, pc = "done"
  PROVE  /\ Heard = Matching("permit") \cup Matching("reject")
         /\ \A k \in Heard : rules[k] \in Rule
<1>1. /\ Len(rules) \in Nat /\ DOMAIN rules = 1..Len(rules)
      /\ \A k \in 1..Len(rules) : rules[k] \in Rule
  BY ListTyped DEF IInv
<1>2. i - 1 = Len(rules)
  BY <1>1 DEF IInv, JudgeInv
<1>3. Heard = {k \in 1..Len(rules) : ruleMatches(rules[k], source, request)}
  BY <1>2 DEF Heard
<1>4. \A k \in 1..Len(rules) : rules[k].effect \in {"permit", "reject"}
  BY <1>1 DEF Rule, Effects
<1> QED BY <1>1, <1>3, <1>4 DEF Matching

\* The winner's effect is that of the highest rank, rejections first.
LEMMA PermitsInv == IInv => PermittedByRules
<1> SUFFICES ASSUME IInv, pc = "done"
             PROVE  decision = "explicit_permit" <=>
                      \E p \in Matching("permit") :
                        \A q \in Matching("reject") : rules[q].priority < rules[p].priority
  BY DEF PermittedByRules
<1>1. /\ Heard = Matching("permit") \cup Matching("reject")
      /\ \A k \in Heard : rules[k] \in Rule
  BY AllHeard
<1>2. /\ winner = 0 => Heard = {}
      /\ winner # 0 => winner \in Heard /\ \A k \in Heard : ~Prefers(rules[k], rules[winner])
      /\ decision = IF winner = 0 THEN "default_deny"
                    ELSE IF rules[winner].effect = "reject" THEN "explicit_reject"
                    ELSE "explicit_permit"
  BY DEF IInv, JudgeInv
<1>3. CASE winner = 0
  BY <1>1, <1>2, <1>3
<1>4. CASE winner # 0 /\ rules[winner].effect = "reject"
  <2>1. winner \in Matching("reject")
    BY <1>1, <1>2, <1>4 DEF Matching
  <2>2. ASSUME NEW p \in Matching("permit") PROVE ~(rules[winner].priority < rules[p].priority)
    BY <1>1, <1>2, <1>4, <2>2 DEF Prefers, Rule
  <2> QED BY <1>2, <1>4, <2>1, <2>2
<1>5. CASE winner # 0 /\ rules[winner].effect # "reject"
  <2>1. winner \in Matching("permit")
    BY <1>1, <1>2, <1>5 DEF Matching
  <2>2. ASSUME NEW q \in Matching("reject") PROVE rules[q].priority < rules[winner].priority
    <3>1. rules[q] \in Rule /\ rules[winner] \in Rule /\ ~Prefers(rules[q], rules[winner])
      BY <1>1, <1>2, <1>5, <2>2
    <3>2. rules[q].effect = "reject"
      BY <2>2 DEF Matching
    <3> QED BY <1>5, <3>1, <3>2 DEF Prefers, Rule
  <2> QED BY <1>2, <1>5, <2>1, <2>2
<1> QED BY <1>3, <1>4, <1>5

\* For every list of rules, in every order, Evaluate permits exactly what a
\* permit outranks every rejection for.
THEOREM PolicyPermits == Spec => []PermittedByRules
BY PermitsInv, AuthorizationInvariant, PTL

\* The winner is a matching rule that none outranks, the first of its kind.
LEMMA NamesInv == IInv => DecisionNamesItsRule
<1> SUFFICES ASSUME IInv, pc = "done" PROVE DecisionNamesItsRule
  BY DEF DecisionNamesItsRule
<1>1. /\ Heard = Matching("permit") \cup Matching("reject")
      /\ \A k \in Heard : rules[k] \in Rule
  BY AllHeard
<1>2. /\ winner # 0 =>
           /\ winner \in Heard
           /\ \A k \in Heard : ~Prefers(rules[k], rules[winner])
           /\ \A k \in Heard : k < winner => Prefers(rules[winner], rules[k])
      /\ decision = IF winner = 0 THEN "default_deny"
                    ELSE IF rules[winner].effect = "reject" THEN "explicit_reject"
                    ELSE "explicit_permit"
  BY DEF IInv, JudgeInv
<1>3. decision = "default_deny" <=> winner = 0
  BY <1>2
<1>4. ASSUME winner # 0
      PROVE  /\ winner \in Matching(rules[winner].effect)
             /\ decision = IF rules[winner].effect = "permit"
                             THEN "explicit_permit" ELSE "explicit_reject"
  <2>1. rules[winner].effect \in {"permit", "reject"}
    BY <1>1, <1>2, <1>4 DEF Rule, Effects
  <2> QED BY <1>1, <1>2, <1>4, <2>1 DEF Matching
<1>5. ASSUME winner # 0, NEW k \in Heard
      PROVE  /\ rules[k].priority <= rules[winner].priority
             /\ k < winner /\ rules[k].priority = rules[winner].priority
                  => rules[k].effect = "permit" /\ rules[winner].effect = "reject"
  BY <1>1, <1>2, <1>5 DEF Prefers, Rule, Effects
<1> QED BY <1>1, <1>3, <1>4, <1>5 DEF DecisionNamesItsRule

\* The reported rule is the one a reader of the list would point at.
THEOREM PolicyNamesItsRule == Spec => []DecisionNamesItsRule
BY NamesInv, AuthorizationInvariant, PTL

-----------------------------------------------------------------------------
(***************************************************************************)
(* ParseLegacyArgs.  The rules are the PERMIT and REJECT directives read so  *)
(* far, in their order (f), each with the priority of its place.             *)
(***************************************************************************)
Makes(d, r, j) ==
  /\ d.kind = "policy"
  /\ r.effect = d.effect /\ r.source = d.source
  /\ r.destination = d.destination /\ r.operation = d.operation
  /\ r.priority = 1 - j

MadeBy(f) ==
  /\ \A j \in 1..Len(rules) : Makes(directives[f[j]], rules[j], j)
  /\ \A j, m \in 1..Len(rules) : j < m => f[j] < f[m]
  /\ \A k \in 1..(at - 1) : directives[k].kind = "policy" => \E j \in 1..Len(rules) : f[j] = k

ParseInv ==
  /\ directives \in Seq(Directive)
  /\ at \in 1..(Len(directives) + 1)
  /\ stage \in {"parse", "run", "refused"}
  /\ stage # "run" => pc = "source"
  /\ directives # <<>> =>
       /\ stage = "run" => at = Len(directives) + 1
       /\ \E f \in [1..Len(rules) -> 1..(at - 1)] : MadeBy(f)

LegacyInv == IInv /\ ParseInv

\* A step of the parser that makes no rule.
LEMMA NoRuleInv ==
  ASSUME LegacyInv, stage = "parse", at <= Len(directives), directives[at].kind # "policy",
         at' = at + 1, UNCHANGED <<rules, directives, stage>>
  PROVE  directives # <<>> => \E f \in [1..Len(rules') -> 1..(at' - 1)] : MadeBy(f)'
<1> SUFFICES ASSUME directives # <<>>
             PROVE  \E f \in [1..Len(rules) -> 1..at] : MadeBy(f)'
  BY DEF LegacyInv, ParseInv
<1>1. PICK f \in [1..Len(rules) -> 1..(at - 1)] : MadeBy(f)
  BY DEF LegacyInv, ParseInv
<1>2. at \in Nat \ {0}
  BY DEF LegacyInv, ParseInv
<1>3. f \in [1..Len(rules) -> 1..at]
  BY <1>2
<1>4. MadeBy(f)'
  BY <1>1, <1>2 DEF MadeBy
<1> QED BY <1>3, <1>4

\* A PERMIT or REJECT becomes the last rule, one priority below the rule before.
LEMMA NewRuleInv ==
  ASSUME LegacyInv, PermitOrReject
  PROVE  /\ rules' \in Seq(Rule)
         /\ \E f \in [1..Len(rules') -> 1..(at' - 1)] : MadeBy(f)'
<1> DEFINE d == directives[at]
           r == parseLegacyPolicy(d, rules)
           n == Len(rules)
<1>1. /\ at \in 1..Len(directives) /\ at' = at + 1 /\ directives' = directives
      /\ d.kind = "policy" /\ rules' = Append(rules, r)
  BY DEF PermitOrReject, Reads, Proceed, LegacyInv, ParseInv
<1>2. rules \in Seq(Rule) /\ n \in Nat /\ d \in Directive
  BY <1>1 DEF LegacyInv, ParseInv, IInv, TypeOK
<1>3. /\ d.effect \in Effects /\ d.source \in (SUBSET Addresses) \cup {Any}
      /\ d.destination \in Destination \cup {Any} /\ d.operation \in SUBSET Operations
  BY <1>1, <1>2 DEF Directive
<1>4. r \in Rule /\ Makes(d, r, n + 1)
  <2>1. LegacyPriority(rules) \in Int /\ LegacyPriority(rules) = 1 - (n + 1)
    BY <1>2 DEF LegacyPriority
  <2> QED BY <1>1, <1>3, <2>1 DEF parseLegacyPolicy, Rule, Makes
<1> HIDE DEF r, d
<1>5. /\ rules' \in Seq(Rule) /\ Len(rules') = n + 1 /\ rules'[n + 1] = r
      /\ \A j \in 1..n : rules'[j] = rules[j]
  BY <1>1, <1>2, <1>4
<1>6. PICK f \in [1..n -> 1..(at - 1)] : MadeBy(f)
  BY <1>1 DEF LegacyInv, ParseInv
<1>7. PICK g \in [1..(n + 1) -> 1..at] :
             /\ g[n + 1] = at
             /\ \A j \in 1..n : g[j] = f[j] /\ f[j] \in 1..(at - 1)
  <2> DEFINE h == [j \in 1..(n + 1) |-> IF j = n + 1 THEN at ELSE f[j]]
  <2> HIDE DEF n
  <2>1. n + 1 \in 1..(n + 1) /\ at \in 1..at /\ 1..(at - 1) \subseteq 1..at
    BY <1>1, <1>2
  <2>2. \A j \in 1..n : f[j] \in 1..(at - 1) /\ j \in 1..(n + 1) /\ j # n + 1
    BY <1>2
  <2>3. \A j \in 1..(n + 1) : j = n + 1 \/ j \in 1..n
    BY <1>2
  <2>4. \A j \in 1..(n + 1) : h[j] \in 1..at
    BY <2>1, <2>2, <2>3
  <2>5. h \in [1..(n + 1) -> 1..at]
    BY <2>4
  <2>6. h[n + 1] = at /\ \A j \in 1..n : h[j] = f[j] /\ f[j] \in 1..(at - 1)
    BY <2>1, <2>2
  <2> HIDE DEF h
  <2> QED BY <2>5, <2>6
<1>8. \A j \in 1..(n + 1) : Makes(directives[g[j]], rules'[j], j)
  <2>1. \A j \in 1..n : Makes(directives[g[j]], rules'[j], j)
    BY <1>5, <1>6, <1>7 DEF MadeBy
  <2>2. Makes(directives[g[n + 1]], rules'[n + 1], n + 1)
    BY <1>4, <1>5, <1>7 DEF d
  <2> QED BY <1>2, <2>1, <2>2
<1>9. ASSUME NEW j \in 1..(n + 1), NEW m \in 1..(n + 1), j < m PROVE g[j] < g[m]
  <2>1. j \in 1..n
    BY <1>2, <1>9
  <2>2. CASE m = n + 1
    BY <1>1, <1>7, <2>1, <2>2
  <2>3. CASE m # n + 1
    <3>1. m \in 1..n
      BY <1>2, <2>3
    <3> QED BY <1>6, <1>7, <1>9, <2>1, <3>1 DEF MadeBy
  <2> QED BY <2>2, <2>3
<1>10. ASSUME NEW k \in 1..at, directives[k].kind = "policy"
       PROVE  \E j \in 1..(n + 1) : g[j] = k
  <2>1. CASE k = at
    BY <1>2, <1>7, <2>1
  <2>2. CASE k # at
    <3>1. PICK j \in 1..n : f[j] = k
      BY <1>1, <1>6, <1>10, <2>2 DEF MadeBy
    <3> QED BY <1>2, <1>7, <3>1
  <2> QED BY <2>1, <2>2
<1>11. at' - 1 = at
  BY <1>1
<1>12. MadeBy(g)'
  BY <1>1, <1>5, <1>8, <1>9, <1>10, <1>11 DEF MadeBy
<1> QED BY <1>5, <1>7, <1>11, <1>12

\* While the command line is read no request is under way.
LEMMA IdleInv ==
  ASSUME LegacyInv, stage = "parse", rules' \in Seq(Rule),
         UNCHANGED <<frontend, request, pc, i, source, winner, decision>>
  PROVE  IInv'
<1>1. pc = "source" /\ winner = 0
  BY DEF LegacyInv, ParseInv, IInv, JudgeInv
<1>2. Len(rules') \in Nat
  OBVIOUS
<1>3. TypeOK'
  BY <1>1, <1>2 DEF LegacyInv, IInv, TypeOK
<1> QED BY <1>1, <1>3 DEF IInv, WalkInv, SourceIsVouchedFor, JudgeInv

\* Nothing is parsed and nothing judged yet.
LEMMA LegacyStarts == LegacyInit => LegacyInv
<1> SUFFICES ASSUME LegacyInit PROVE LegacyInv
  OBVIOUS
<1>1. rules \in Seq(Rule) /\ directives \in Seq(Directive)
  <2>1. RuleLists \subseteq Seq(Rule) /\ DirectiveLists \subseteq Seq(Directive)
    BY PolicyAssumption, LegacyAssumption
  <2>2. <<>> \in Seq(Rule) /\ <<>> \in Seq(Directive)
    OBVIOUS
  <2> QED BY <2>1, <2>2 DEF LegacyInit
<1>2. IInv
  BY <1>1, ArrivalInv DEF LegacyInit
<1>3. Len(directives) \in Nat /\ at = 1 /\ pc = "source" /\ stage \in {"run", "parse"}
  BY <1>1 DEF LegacyInit, Arrival
<1>4. ASSUME directives # <<>>
      PROVE  stage = "parse" /\ \E f \in [1..Len(rules) -> 1..(at - 1)] : MadeBy(f)
  <2>1. rules = <<>> /\ Len(rules) = 0 /\ stage = "parse"
    BY <1>4 DEF LegacyInit
  <2>2. PICK f : f = [j \in 1..0 |-> 1]
    OBVIOUS
  <2>3. f \in [1..Len(rules) -> 1..(at - 1)] /\ MadeBy(f)
    BY <1>3, <2>1, <2>2 DEF MadeBy
  <2> QED BY <2>1, <2>3
<1> QED BY <1>1, <1>2, <1>3, <1>4 DEF LegacyInv, ParseInv

\* Each step of the legacy parser keeps it.
LEMMA LegacyStep == LegacyInv /\ [LegacyNext]_legacyVars => LegacyInv'
<1> SUFFICES ASSUME LegacyInv, [LegacyNext]_legacyVars PROVE LegacyInv'
  OBVIOUS
<1>1. /\ directives \in Seq(Directive) /\ Len(directives) \in Nat
      /\ at \in 1..(Len(directives) + 1) /\ stage \in {"parse", "run", "refused"}
      /\ rules \in Seq(Rule)
  BY DEF LegacyInv, ParseInv, IInv, TypeOK
<1>2. CASE Server \/ Port \/ Mount
  <2>1. /\ stage = "parse" /\ at <= Len(directives) /\ directives[at].kind # "policy"
        /\ at' = at + 1 /\ UNCHANGED <<rules, directives, stage>>
        /\ UNCHANGED <<frontend, request, pc, i, source, winner, decision>>
    BY <1>2 DEF Server, Port, Mount, Reads, Proceed
  <2>2. directives # <<>> => \E f \in [1..Len(rules') -> 1..(at' - 1)] : MadeBy(f)'
    BY <2>1, NoRuleInv
  <2>3. IInv'
    BY <1>1, <2>1, IdleInv
  <2> QED BY <1>1, <2>1, <2>2, <2>3 DEF LegacyInv, ParseInv
<1>3. CASE PermitOrReject
  <2>1. /\ stage = "parse" /\ at <= Len(directives) /\ at' = at + 1
        /\ UNCHANGED <<directives, stage>>
        /\ UNCHANGED <<frontend, request, pc, i, source, winner, decision>>
    BY <1>3 DEF PermitOrReject, Reads, Proceed
  <2>2. /\ rules' \in Seq(Rule)
        /\ \E f \in [1..Len(rules') -> 1..(at' - 1)] : MadeBy(f)'
    BY <1>3, NewRuleInv
  <2>3. IInv'
    BY <2>1, <2>2, IdleInv
  <2> QED BY <1>1, <2>1, <2>2, <2>3 DEF LegacyInv, ParseInv
<1>4. CASE Refuse \/ Configured
  <2>1. /\ stage = "parse" /\ stage' \in {"run", "refused"} /\ pc = "source" /\ pc' = pc
        /\ stage' = "run" => at = Len(directives) + 1
        /\ UNCHANGED <<rules, directives, at>> /\ UNCHANGED vars
    BY <1>1, <1>4 DEF Refuse, Configured, vars, LegacyInv, ParseInv
  <2>2. IInv'
    BY <2>1, AuthorizationStep DEF LegacyInv
  <2>3. ASSUME NEW f PROVE MadeBy(f)' <=> MadeBy(f)
    BY <2>1 DEF MadeBy
  <2> QED BY <1>1, <2>1, <2>2, <2>3 DEF LegacyInv, ParseInv
<1>5. CASE Authorise \/ UNCHANGED legacyVars
  <2>1. [Next]_vars /\ UNCHANGED <<directives, stage, at>> /\ rules' = rules
        /\ (stage = "run" \/ pc' = pc)
    BY <1>5 DEF Authorise, legacyVars, vars, parse, Next, Direct, Forwarded, InvalidPeer, Parse,
                Walk, Judge, Decide, Terminated, input
  <2>2. IInv'
    BY <2>1, AuthorizationStep DEF LegacyInv
  <2>3. ASSUME NEW f PROVE MadeBy(f)' <=> MadeBy(f)
    BY <2>1 DEF MadeBy
  <2> QED BY <1>1, <2>1, <2>2, <2>3 DEF LegacyInv, ParseInv
<1> QED BY <1>2, <1>3, <1>4, <1>5 DEF LegacyNext, ParseLegacyArgs, NotStarted

\* So it holds throughout.
LEMMA LegacyInvariant == LegacySpec => []LegacyInv
BY LegacyStarts, LegacyStep, PTL DEF LegacySpec

\* What Evaluate promises of a TOML file's rules holds of the command line's: the
\* address judged is vouched for, and a permit outranks every rejection.
THEOREM LegacyAuthorises ==
  LegacySpec => [](SourceIsVouchedFor /\ PermittedByRules /\ DecisionNamesItsRule)
<1>1. LegacyInv => SourceIsVouchedFor /\ PermittedByRules /\ DecisionNamesItsRule
  BY PermitsInv, NamesInv DEF LegacyInv, IInv
<1> QED BY <1>1, LegacyInvariant, PTL

\* For every command line, its PERMIT and REJECT directives are tried in order.
THEOREM LegacyFirstDecides == LegacySpec => []FirstDirectiveDecides
<1>1. LegacyInv => FirstDirectiveDecides
  <2> SUFFICES ASSUME LegacyInv, pc = "done", directives # <<>> PROVE FirstDirectiveDecides
    BY DEF FirstDirectiveDecides
  <2> DEFINE hits == {k \in DOMAIN directives :
                 directives[k].kind = "policy" /\ ruleMatches(directives[k], source, request)}
  <2>1. /\ Len(rules) \in Nat /\ \A j \in 1..Len(rules) : rules[j] \in Rule
        /\ DOMAIN directives = 1..Len(directives) /\ at - 1 = Len(directives)
    BY ListTyped DEF LegacyInv, ParseInv, IInv
  <2>2. PICK f \in [1..Len(rules) -> 1..(at - 1)] : MadeBy(f)
    BY DEF LegacyInv, ParseInv
  <2>3. ASSUME NEW j \in 1..Len(rules)
        PROVE  /\ f[j] \in hits <=> ruleMatches(rules[j], source, request)
               /\ rules[j].effect = directives[f[j]].effect
               /\ rules[j].priority = 1 - j
    <3>1. f[j] \in DOMAIN directives /\ Makes(directives[f[j]], rules[j], j)
      BY <2>1, <2>2 DEF MadeBy
    <3> QED BY <3>1 DEF Makes, ruleMatches
  <2>4. \A k \in hits : \E j \in 1..Len(rules) : f[j] = k
    BY <2>1, <2>2 DEF MadeBy
  <2>5. \A j, m \in 1..Len(rules) : j < m => f[j] < f[m]
    BY <2>2 DEF MadeBy
  <2>6. Heard = {j \in 1..Len(rules) : ruleMatches(rules[j], source, request)}
    BY <2>1 DEF Heard, LegacyInv, IInv, JudgeInv
  <2>7. /\ winner = 0 => Heard = {}
        /\ winner # 0 => winner \in Heard /\ \A j \in Heard : ~Prefers(rules[j], rules[winner])
        /\ decision = IF winner = 0 THEN "default_deny"
                      ELSE IF rules[winner].effect = "reject" THEN "explicit_reject"
                      ELSE "explicit_permit"
    BY DEF LegacyInv, IInv, JudgeInv
  <2>8. decision = "explicit_permit" <=>
          \E k \in hits : directives[k].effect = "permit" /\ \A m \in hits : k <= m
    <3>1. CASE winner = 0
      <4>1. hits = {}
        BY <2>3, <2>4, <2>6, <2>7, <3>1
      <4> QED BY <2>7, <3>1, <4>1
    <3>2. CASE winner # 0
      <4>1. /\ winner \in 1..Len(rules) /\ f[winner] \in hits
            /\ f[winner] \in 1..(at - 1)
        BY <2>2, <2>3, <2>6, <2>7, <3>2
      <4>2. ASSUME NEW m \in hits PROVE f[winner] <= m
        <5>1. PICK j \in 1..Len(rules) : f[j] = m
          BY <2>4
        <5>2. j \in Heard /\ ~Prefers(rules[j], rules[winner])
          BY <2>3, <2>6, <2>7, <3>2, <5>1
        <5>3. ~(j < winner)
          BY <2>1, <2>3, <4>1, <5>2 DEF Prefers
        <5> QED BY <2>1, <2>2, <2>5, <4>1, <5>1, <5>3
      <4>3. \A k \in hits : (\A m \in hits : k <= m) => k = f[winner]
        BY <2>1, <4>1, <4>2
      <4>4. directives[f[winner]].effect \in Effects
        BY <2>1, <2>3, <4>1 DEF Rule
      <4> QED BY <2>3, <2>7, <3>2, <4>1, <4>2, <4>3, <4>4 DEF Effects
    <3> QED BY <3>1, <3>2
  <2> QED BY <2>8 DEF FirstDirectiveDecides
<1> QED BY <1>1, LegacyInvariant, PTL
=============================================================================
