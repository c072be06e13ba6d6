------------------------------ MODULE MCReload ------------------------------
(***************************************************************************)
(* Reload for TLC: file contents that differ from the initial one in each   *)
(* way the comparisons tell apart.                                          *)
(***************************************************************************)
EXTENDS Reload

CONSTANTS a, b, f, g, h, p, q   \* server names, listen addresses, TLS policies

Server(n, at) == [name |-> n, listen |-> at, identity |-> "plain"]
Secure(n, at) == [name |-> n, listen |-> at, identity |-> "tls"]
Mount(r, t) == [route |-> r, tls |-> t]
Content(servers, mounts) ==
  [wellFormed |-> TRUE, supported |-> TRUE, servers |-> servers, mounts |-> mounts]

AllServers == [name : {a, b}, listen : {f, g, h}, identity : {"plain", "tls"}]
TwoServers == <<Server(a, f), Server(b, g)>>
OneSecureMount == {Mount("x", p), Mount("y", NoTLS)}

Start == Content(TwoServers, OneSecureMount)

Reordered  == Content(<<Server(b, g), Server(a, f)>>, {Mount("y", p)})
Duplicated == Content(<<Server(a, f), Server(a, f)>>, OneSecureMount)
Moved      == Content(<<Server(a, f), Server(b, h)>>, OneSecureMount)
Resecured  == Content(<<Server(a, f), Secure(b, g)>>, OneSecureMount)
Shared     == Content(<<Server(a, f), Secure(b, f)>>, OneSecureMount)
Fewer      == Content(<<Server(a, f)>>, OneSecureMount)
MoreTLS    == Content(TwoServers, {Mount("x", p), Mount("y", q)})
OtherTLS   == Content(TwoServers, {Mount("x", q)})
LessTLS    == Content(TwoServers, {Mount("x", NoTLS)})
Foreign    == [Start EXCEPT !.supported = FALSE]
Broken     == [Start EXCEPT !.wellFormed = FALSE]

AllContents == {Start, Reordered, Duplicated, Moved, Resecured, Shared, Fewer, MoreTLS,
                OtherTLS, LessTLS, Foreign, Broken}
=============================================================================
