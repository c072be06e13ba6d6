------------------------------ MODULE MCPolicy ------------------------------
(***************************************************************************)
(* Policy and Legacy for TLC: every list of up to three of seven rules, or   *)
(* of five PERMIT and REJECT directives, chains of up to two hops, a frontend *)
(* with and one without trusted proxies.                                      *)
(***************************************************************************)
EXTENDS Legacy

SeqExt == INSTANCE SequencesExt

CONSTANTS proxy, inner, client, get, put

Apex == <<"example">>
Sub == <<"www", "example">>

MakeRule(effect, priority, src, destination, operation) ==
  [effect |-> effect, priority |-> priority, source |-> src,
   destination |-> destination, operation |-> operation]

Domain == [host |-> Apex, wild |-> TRUE]
Host == [host |-> Apex, wild |-> FALSE]

Choice ==
  { MakeRule("permit", 0, Any, Any, {get, put}),
    MakeRule("reject", 0, {client}, Any, {get, put}),
    MakeRule("permit", 1, {client, inner}, Host, {get, put}),
    MakeRule("reject", 1, Any, Domain, {get, put}),
    MakeRule("permit", 1, Any, Domain, {get}),
    MakeRule("reject", 2, {proxy}, Any, {put}),
    MakeRule("permit", 2, {inner}, Any, {put}) }

UpToThree == UNION {[1..n -> Choice] : n \in 0..3}

PolicyDirective(effect, src, destination, operation, ok) ==
  [kind |-> "policy", effect |-> effect, source |-> src, destination |-> destination,
   operation |-> operation, ok |-> ok]

PolicyDirectives ==
  { PolicyDirective("permit", Any, Any, {get, put}, TRUE),
    PolicyDirective("reject", {client}, Any, {get, put}, TRUE),
    PolicyDirective("permit", {client, inner}, Host, {get}, TRUE),
    PolicyDirective("reject", Any, Domain, {get, put}, TRUE),
    PolicyDirective("reject", {client}, Host, {get}, FALSE) }

ServerIs(name) == [kind |-> "SERVER", value |-> name]
PortIs(number) == [kind |-> "-P", value |-> number]
MountIs(scope, ok) == [kind |-> "MOUNT", scope |-> scope, ok |-> ok]

\* SERVER given once, twice, in conflict or not at all; a port that is missing,
\* given, out of range or in conflict; a mount that fits the server or does not;
\* policies around them.
SomeDirectives ==
  {<<ServerIs("http")>> \o ps : ps \in SeqExt!SeqOf(PolicyDirectives, 3)}
    \cup {<<p>> \o around \o <<q>> : p, q \in PolicyDirectives,
            around \in {<<>>, <<ServerIs("http"), ServerIs("http")>>, <<ServerIs("http"), ServerIs("ftp")>>,
                       <<ServerIs("gateway"), PortIs(8080)>>, <<ServerIs("gateway")>>,
                       <<ServerIs(""), PortIs(80)>>, <<ServerIs("http"), PortIs(0)>>,
                       <<PortIs(80), PortIs(81), ServerIs("http")>>,
                       <<ServerIs("ftp"), MountIs("", TRUE)>>, <<MountIs("http", TRUE), ServerIs("ftp")>>,
                       <<ServerIs("ftp"), MountIs("ftp", FALSE)>>, <<[kind |-> "unknown"]>>}}

TwoFrontends == {[header |-> TRUE, trusted |-> {proxy, inner}],
                 [header |-> FALSE, trusted |-> {}]}

Chains == {<<>>, <<client>>, <<proxy>>, <<client, inner>>, <<inner, client>>,
           <<inner, proxy>>, <<Malformed, inner>>}

SomeRequests ==
  [peer : {proxy, client, Malformed}, forwarded : {<<>>}, destination : {Apex}, operation : {get}]
  \cup [peer : {proxy, client}, forwarded : Chains, destination : {Sub}, operation : {put}]
  \cup [peer : {proxy}, forwarded : {<<client, inner>>}, destination : {Apex, Sub},
        operation : {get}]
=============================================================================
