------------------------------- MODULE Policy -------------------------------
(***************************************************************************)
(* The authorization of one request: policySource (src/server/http.go) and   *)
(* clientaddr.Resolve (src/clientaddr/clientaddr.go) find the address the    *)
(* policies judge, policy.Evaluate (src/policy/policy.go) judges it.         *)
(*                                                                          *)
(* An address is a parsed one; Malformed is text that does not parse.  A     *)
(* source selector is the set of addresses whose text it matches: those in   *)
(* its CIDR, or the one it spells (none, if it spells it another way than    *)
(* netip does).  A destination selector is a host or the domain of a "*."    *)
(* pattern, hosts being sequences of labels.  Any stands for "" and "*".     *)
(***************************************************************************)
EXTENDS Integers, Sequences

CONSTANTS
  Addresses, Malformed,
  Labels,        \* what host names are made of
  Operations,    \* the combinations of protocol, method and mount
  Any,
  Rules,         \* the rules a configuration may hold
  RuleLists,     \* its lists of rules
  Frontends,     \* [header, trusted]: is ClientIPHeader set, TrustedProxies
  Requests       \* [peer, forwarded, destination, operation]

Effects == {"permit", "reject"}

Destination == [host : Seq(Labels), wild : BOOLEAN]

Rule == [effect : Effects, priority : Int, source : (SUBSET Addresses) \cup {Any},
         destination : Destination \cup {Any}, operation : SUBSET Operations]

Request == [peer : Addresses \cup {Malformed}, forwarded : Seq(Addresses \cup {Malformed}),
            destination : Seq(Labels), operation : Operations]

ASSUME PolicyAssumption ==
  /\ Malformed \notin Addresses
  /\ Rules \subseteq Rule
  /\ RuleLists \subseteq Seq(Rules)
  /\ Frontends \subseteq [header : BOOLEAN, trusted : SUBSET Addresses]
  /\ Requests \subseteq Request

-----------------------------------------------------------------------------
(***************************************************************************)
(* Which rules match.                                                       *)
(***************************************************************************)
sourceMatches(pattern, value) == pattern = Any \/ value \in pattern

destinationMatches(pattern, value) ==
  \/ pattern = Any
  \/ /\ ~pattern.wild
     /\ pattern.host = value
  \/ /\ pattern.wild
     /\ Len(value) > Len(pattern.host)
     /\ SubSeq(value, Len(value) - Len(pattern.host) + 1, Len(value)) = pattern.host

\* matches on protocol, method and mount together.
matches(selected, value) == value \in selected

ruleMatches(rule, source, r) ==
  /\ sourceMatches(rule.source, source)
  /\ destinationMatches(rule.destination, r.destination)
  /\ matches(rule.operation, r.operation)

\* Seeded fault: the first rule of a priority wins, whatever its effect.
PrefersFirst(rule, w) == rule.priority > w.priority

Prefers(rule, w) ==
  \/ rule.priority > w.priority
  \/ rule.priority = w.priority /\ rule.effect = "reject" /\ w.effect # "reject"

-----------------------------------------------------------------------------
VARIABLES
  rules, frontend, request,
  pc,        \* "source", "parse", "walk", "evaluate", "done" or "invalid"
  i,         \* the hop or the rule looked at
  source,    \* the address found; Malformed until then
  winner,    \* the index of the winning rule, 0 for Evaluate's -1
  decision   \* "none", "default_deny", "explicit_permit" or "explicit_reject"

input == <<rules, frontend, request>>
vars == <<rules, frontend, request, pc, i, source, winner, decision>>

Decisions == {"none", "default_deny", "explicit_permit", "explicit_reject"}

\* Every step keeps the state well-formed; in particular the winning rule is one
\* of the list.
TypeOK ==
  /\ rules \in Seq(Rule)
  /\ frontend \in Frontends
  /\ request \in Requests
  /\ pc \in {"source", "parse", "walk", "evaluate", "done", "invalid"}
  /\ i \in Nat
  /\ source \in Addresses \cup {Malformed}
  /\ winner \in 0..Len(rules)
  /\ decision \in Decisions

\* A request before anything is known of it.
Arrival ==
  /\ frontend \in Frontends
  /\ request \in Requests
  /\ pc = "source"
  /\ i = 0
  /\ source = Malformed
  /\ winner = 0
  /\ decision = "none"

Init == rules \in RuleLists /\ Arrival

\* The source is settled; the loop over the rules starts.
Settle(address) ==
  /\ pc' = "evaluate"
  /\ source' = address
  /\ i' = 1

\* Without a configured header the peer's host is taken as it is; with one, it
\* must parse, and is taken unless it is trusted and forwarded something.
Direct ==
  /\ pc = "source"
  /\ \/ ~frontend.header
     \/ /\ request.peer \in Addresses
        /\ request.peer \notin frontend.trusted \/ request.forwarded = <<>>
  /\ Settle(request.peer)
  /\ UNCHANGED <<input, winner, decision>>

\* Seeded fault: any peer's forwarding chain is believed.
ForwardedByAnyone ==
  /\ pc = "source"
  /\ frontend.header
  /\ request.peer \in Addresses /\ request.forwarded # <<>>
  /\ pc' = "parse"
  /\ UNCHANGED <<input, i, source, winner, decision>>

Forwarded ==
  /\ pc = "source"
  /\ frontend.header
  /\ request.peer \in frontend.trusted /\ request.forwarded # <<>>
  /\ pc' = "parse"
  /\ UNCHANGED <<input, i, source, winner, decision>>

InvalidPeer ==
  /\ pc = "source"
  /\ frontend.header
  /\ request.peer = Malformed
  /\ pc' = "invalid"
  /\ UNCHANGED <<input, i, source, winner, decision>>

\* The whole chain must parse before any of it is believed.
Parse ==
  /\ pc = "parse"
  /\ \/ /\ \E k \in DOMAIN request.forwarded : request.forwarded[k] = Malformed
        /\ pc' = "invalid"
        /\ UNCHANGED i
     \/ /\ \A k \in DOMAIN request.forwarded : request.forwarded[k] # Malformed
        /\ pc' = "walk"
        /\ i' = Len(request.forwarded)
  /\ UNCHANGED <<input, source, winner, decision>>

\* One hop from the nearest proxy towards the client.
Walk ==
  /\ pc = "walk"
  /\ IF i = 0 THEN Settle(request.forwarded[1])
     ELSE IF request.forwarded[i] \notin frontend.trusted THEN Settle(request.forwarded[i])
     ELSE i' = i - 1 /\ UNCHANGED <<pc, source>>
  /\ UNCHANGED <<input, winner, decision>>

\* One iteration of Evaluate.
Judge ==
  /\ pc = "evaluate"
  /\ i <= Len(rules)
  /\ i' = i + 1
  /\ winner' = IF /\ ruleMatches(rules[i], source, request)
                  /\ winner # 0 => Prefers(rules[i], rules[winner])
                 THEN i ELSE winner
  /\ UNCHANGED <<input, pc, source, decision>>

Decide ==
  /\ pc = "evaluate"
  /\ i > Len(rules)
  /\ pc' = "done"
  /\ decision' = IF winner = 0 THEN "default_deny"
                 ELSE IF rules[winner].effect = "reject" THEN "explicit_reject"
                 ELSE "explicit_permit"
  /\ UNCHANGED <<input, i, source, winner>>

Terminated == pc \in {"done", "invalid"} /\ UNCHANGED vars

Next ==
  \/ Direct \/ Forwarded \/ InvalidPeer \/ Parse \/ Walk
  \/ Judge \/ Decide
  \/ Terminated

Spec == Init /\ [][Next]_vars

-----------------------------------------------------------------------------
(***************************************************************************)
(* Properties.                                                              *)
(***************************************************************************)

\* The hops as the server can know them, the client's end first.
Chain == Append(request.forwarded, request.peer)

\* The address judged is one that only trusted hops vouch for, down to the peer:
\* whoever is not trusted decides nothing to the right of its own address.  It
\* is itself untrusted, or nobody in the chain is and it is the farthest hop.
SourceIsVouchedFor ==
  pc \in {"evaluate", "done"} /\ frontend.header =>
    \E k \in DOMAIN Chain :
      /\ source = Chain[k]
      /\ \A j \in DOMAIN Chain : j > k => Chain[j] \in frontend.trusted
      /\ source \notin frontend.trusted \/ k = 1

Matching(effect) ==
  {k \in DOMAIN rules : rules[k].effect = effect /\ ruleMatches(rules[k], source, request)}

\* Evaluate, one pass that keeps one winner, permits exactly when some matching
\* permit has a priority above every matching rejection's, in whatever order the
\* rules are listed: it fails closed, and a rejection wins a tie.
PermittedByRules ==
  pc = "done" =>
    (decision = "explicit_permit" <=>
       \E p \in Matching("permit") :
         \A q \in Matching("reject") : rules[q].priority < rules[p].priority)

\* The rule that a decision names (Decision.RuleIndex, which explain reports) is
\* a matching rule of that effect, no matching rule outranks it, and the list
\* has no earlier one of the same rank and effect.
DecisionNamesItsRule ==
  pc = "done" =>
    /\ decision = "default_deny" <=> winner = 0
    /\ winner # 0 =>
         /\ winner \in Matching(rules[winner].effect)
         /\ decision = IF rules[winner].effect = "permit"
                         THEN "explicit_permit" ELSE "explicit_reject"
         /\ \A k \in Matching("permit") \cup Matching("reject") :
              /\ rules[k].priority <= rules[winner].priority
              /\ k < winner /\ rules[k].priority = rules[winner].priority
                   => rules[k].effect = "permit" /\ rules[winner].effect = "reject"
=============================================================================
