------------------------------- MODULE Legacy -------------------------------
(***************************************************************************)
(* config.ParseLegacyArgs (src/config/legacy.go): the directives of the       *)
(* original command line become a configuration of one server, and its        *)
(* PERMIT and REJECT directives the rules that module Policy evaluates.       *)
(*                                                                          *)
(* A directive is a record: SERVER with its protocol, -P with its port (0 if  *)
(* it does not parse), MOUNT with its scope (the protocol, or none) and       *)
(* whether it is well-formed, and policy (PERMIT or REJECT) with its          *)
(* selectors too.  What else a MOUNT says is left to module Resolver.         *)
(***************************************************************************)
EXTENDS Policy

CONSTANT DirectiveLists

Directive ==
  [kind : {"SERVER"}, value : STRING]
    \cup [kind : {"-P"}, value : Nat]
    \cup [kind : {"MOUNT"}, scope : STRING, ok : BOOLEAN]
    \cup [kind : {"unknown"}]
    \cup [kind : {"policy"}, effect : Effects, source : (SUBSET Addresses) \cup {Any},
          destination : Destination \cup {Any}, operation : SUBSET Operations, ok : BOOLEAN]

ASSUME LegacyAssumption == DirectiveLists \subseteq Seq(Directive)

Empty == ""   \* the text of a protocol that is not there

VARIABLES
  directives,  \* the arguments; <<>> for rules from a TOML file
  stage,       \* "parse", "run" or "refused"
  at,          \* the directive the loop looks at
  protocol,    \* the local variables of these names; policies is rules
  port

parse == <<directives, stage, at, protocol, port>>
legacyVars == <<vars, parse>>

LegacyInit ==
  /\ Arrival
  /\ \/ rules \in RuleLists /\ directives = <<>> /\ stage = "run"
     \/ rules = <<>> /\ directives \in DirectiveLists /\ stage = "parse"
  /\ at = 1
  /\ protocol = Empty
  /\ port = 0

-----------------------------------------------------------------------------
(***************************************************************************)
(* One iteration for each kind of directive.                                *)
(***************************************************************************)
Reads(kind) ==
  /\ stage = "parse"
  /\ at <= Len(directives)
  /\ directives[at].kind = kind

Proceed ==
  /\ at' = at + 1
  /\ UNCHANGED <<directives, stage, frontend, request, pc, i, source, winner, decision>>

Server ==
  /\ Reads("SERVER")
  /\ directives[at].value # Empty /\ protocol \in {Empty, directives[at].value}
  /\ protocol' = directives[at].value
  /\ Proceed /\ UNCHANGED <<rules, port>>

Ports == 1..65535

Port ==
  /\ Reads("-P")
  /\ directives[at].value \in Ports /\ port \in {0, directives[at].value}
  /\ port' = directives[at].value
  /\ Proceed /\ UNCHANGED <<rules, protocol>>

Mount ==
  /\ Reads("MOUNT")
  /\ directives[at].ok
  /\ Proceed /\ UNCHANGED <<rules, protocol, port>>

\* Seeded fault: later directives outrank earlier ones.
LegacyPriorityUpwards(policies) == Len(policies)

LegacyPriority(policies) == -Len(policies)

parseLegacyPolicy(d, policies) ==
  [effect |-> d.effect, priority |-> LegacyPriority(policies), source |-> d.source,
   destination |-> d.destination, operation |-> d.operation]

PermitOrReject ==
  /\ Reads("policy")
  /\ directives[at].ok
  /\ rules' = Append(rules, parseLegacyPolicy(directives[at], rules))
  /\ Proceed /\ UNCHANGED <<protocol, port>>

\* What the loop refuses: an ill-formed, conflicting or unknown directive.
Refused(d) ==
  \/ d.kind = "SERVER" /\ (d.value = Empty \/ protocol \notin {Empty, d.value})
  \/ d.kind = "-P" /\ (d.value \notin Ports \/ port \notin {0, d.value})
  \/ d.kind \in {"MOUNT", "policy"} /\ ~d.ok
  \/ d.kind = "unknown"

Refuse ==
  /\ stage = "parse"
  /\ at <= Len(directives) /\ Refused(directives[at])
  /\ stage' = "refused"
  /\ UNCHANGED <<vars, directives, at, protocol, port>>

legacyDefaultPorts == [ftp |-> 21, gopher |-> 70, http |-> 80, https |-> 443, socks |-> 1080]

\* Config.Validate of what the directives made: the scope of every mount is the
\* server there is.
Validate == \A k \in DOMAIN directives : directives[k].kind = "MOUNT" => directives[k].scope \in {Empty, protocol}

\* After the loop: a protocol is required, and a port where it has no default.
Configured ==
  /\ stage = "parse" /\ at > Len(directives)
  /\ LET complete == protocol # Empty /\ (port # 0 \/ protocol \in DOMAIN legacyDefaultPorts)
     IN  /\ stage' = IF complete /\ Validate THEN "run" ELSE "refused"
         /\ port' = IF complete /\ port = 0 THEN legacyDefaultPorts[protocol] ELSE port
  /\ UNCHANGED <<vars, directives, at, protocol>>

ParseLegacyArgs == Server \/ Port \/ Mount \/ PermitOrReject \/ Refuse \/ Configured

\* A request meets the rules when they are there.
Authorise == stage = "run" /\ Next /\ UNCHANGED parse

NotStarted == stage = "refused" /\ UNCHANGED legacyVars

LegacyNext == ParseLegacyArgs \/ Authorise \/ NotStarted

LegacySpec == LegacyInit /\ [][LegacyNext]_legacyVars

-----------------------------------------------------------------------------
\* Of the PERMIT and REJECT directives that match, the first decides, although
\* Evaluate picks by priority and lets a rejection win a tie; without one the
\* request is refused.
FirstDirectiveDecides ==
  pc = "done" /\ directives # <<>> =>
    LET hits == {k \in DOMAIN directives :
                   directives[k].kind = "policy" /\ ruleMatches(directives[k], source, request)}
    IN  decision = "explicit_permit" <=>
          \E k \in hits : directives[k].effect = "permit" /\ \A m \in hits : k <= m
=============================================================================
