---------------------------- MODULE MCFrontend ------------------------------
(***************************************************************************)
(* Frontend for TLC.  Every short path meets two mounts; every list of up to *)
(* three mounts meets plain requests.                                        *)
(***************************************************************************)
EXTENDS Frontend

CONSTANTS s, t, http, x   \* servers, a protocol, an absolute URL's authority

PathChars == {"/", "a", "b", ".", "%", "0", "2", "3", "5", "E", "F", "?", "#", "^", "x", "h", "g"}
HTTPOnly == [n \in Servers |-> http]

Map(stem, wild, source, priority, server, protocol) ==
  [stem |-> stem, wild |-> wild, source |-> source, priority |-> priority,
   server |-> server, protocol |-> protocol,
   target |-> IF wild THEN <<"h", "/", "b", "/">> ELSE <<"g", "/", "?", "b">>, rewrite |-> wild]

Root == <<"/">>
A == <<"/", "a">>
AB == <<"/", "a", "b">>

Choice ==
  { Map(Root, TRUE, None, 0, Any, Any),  Map(Root, TRUE, None, 1, Any, Any),
    Map(A, TRUE, None, 0, Any, Any),     Map(A, TRUE, None, 1, Any, http),
    Map(A, TRUE, None, 0, s, Any),       Map(A, TRUE, None, 0, Any, http),
    Map(A, TRUE, x, 0, Any, Any),        Map(A, TRUE, x, 0, s, http),
    Map(A, FALSE, None, 0, Any, Any),    Map(A, FALSE, x, 1, Any, Any),
    Map(AB, FALSE, None, 0, t, Any) }

UpToThree == UNION {[1..n -> Choice] : n \in 0..3}

Client(raw, source, odd, address, method, size, query, server) ==
  [raw |-> raw, source |-> source, odd |-> odd, address |-> address, method |-> method,
   size |-> size, query |-> query, server |-> server]

\* Texts that net/url escapes anew, with and without an escape of their own.
Escapable ==
  {pre \o <<c>> \o post : pre \in {<<>>, <<"a">>, <<"a", "/">>}, c \in {"^", "#", "ctl", "bad"},
     post \in {<<>>, <<"/", "b">>, <<"%", "2", "F", "b">>, <<"%", "2", "F", ".", ".">>, <<"/", "%", "2", "E">>,
               <<"%", "2", "5">>, <<"%", "2", "5", "2", "F">>, <<"%", "3", "F">>, <<"%", "2">>}}

\* Every path of up to five characters, and longer ones that hide a separator, a
\* dot segment or an escape behind another.
RawPaths ==
  {Root \o p : p \in SeqExt!SeqOf({"/", "%", "2", "E", "F", ".", "a"}, 4)}
    \cup {Root \o p : p \in
      {<<"%", "%", "2", "F">>, <<"%", "2", "%", "2", "F">>, <<"%", "2", "5", "2", "F">>,
       <<"%", "2", "E", "%", "2", "E">>, <<"a", "%", "2", "E", "/", "a">>, <<"a", "%", "3", "F", "b">>,
       <<"a", "%", "2", "3", "%", "2", "5">>, <<"a", "%", "2", "5">>, <<"a", "%", "0", "2">>, <<"a", "%", "E", "2">>,
       <<"%", "2", "5", "%", "3", "2", "%", "3", "5">>, <<"%", "3", "2", "%", "5", "E">>}}
    \cup {Root \o p : p \in Escapable}

Plain(source, server) ==
  {Client(p, source, FALSE, TRUE, "GET", 0, <<>>, server) : p \in {<<>>, Root, A, AB}}

Special ==
  {Client(A, None, FALSE, FALSE, "GET", 0, <<>>, s), Client(A, x, TRUE, TRUE, "GET", 0, <<>>, s),
   Client(A, None, FALSE, TRUE, "LIST", 0, <<"b">>, s), Client(A, None, FALSE, TRUE, "HEAD", 0, <<"b">>, s),
   Client(<<"/", "b">>, None, FALSE, TRUE, "GET", 0, <<"b">>, s)}
    \cup {Client(A, None, FALSE, TRUE, "PUT", n, <<"b">>, s) : n \in {-1, MaxStore, MaxStore + 1}}

TwoMounts == <<Map(Root, TRUE, None, 0, Any, Any), Map(A, FALSE, None, 0, Any, Any)>>

\* One destination and method; every one, and what has no host.
Strict == [destination : {"h"}, method : {"GET"}]
Lenient == [destination : {"h", "g", ""}, method : {"GET", "PUT", "LIST", "HEAD"}]

SomeCases ==
  [mounts : {TwoMounts}, permits : {Strict, Lenient},
   client : {Client(p, None, FALSE, TRUE, "GET", 0, <<"b">>, s) : p \in RawPaths}
              \cup {Client(Root \o p, x, FALSE, TRUE, "GET", 0, <<>>, s) : p \in Escapable} \cup Special]
    \cup [mounts : UpToThree, permits : {Lenient}, client : Plain(None, s) \cup Plain(x, t)]

AllMounts == {c.mounts : c \in SomeCases}
AllRequests == {ServedRequest(c.client) : c \in SomeCases}
=============================================================================
