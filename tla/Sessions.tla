------------------------------ MODULE Sessions ------------------------------
(***************************************************************************)
(* connectionSessions (src/server/lifecycle.go): the registry of the        *)
(* streams that net/http stops tracking once a handler has hijacked its     *)
(* client.  Each operator is one critical section under s.mu; a connection  *)
(* that add refuses is closed after the unlock, before add returns.         *)
(***************************************************************************)
CONSTANT Requests   \* the CONNECT requests that may arrive, one per connection

Sides == {"client", "backend"}
Conns == Requests \X Sides
Client(r) == <<r, "client">>
Backend(r) == <<r, "backend">>

VARIABLES
  conn,      \* state of each connection: "none", "open" or "closed"
  items,     \* s.items
  draining,  \* s.draining; s.cancel has been called exactly when it is set
  drained,   \* the channel s.drained is closed
  toClose    \* what forceClose has taken from items and not closed yet

sessions == <<items, draining, drained, toClose>>

SessionsTypeOK ==
  /\ conn \in [Conns -> {"none", "open", "closed"}]
  /\ items \subseteq Conns
  /\ draining \in BOOLEAN
  /\ drained \in BOOLEAN
  /\ toClose \subseteq Conns

newConnectionSessions ==
  /\ conn = [c \in Conns |-> "none"]
  /\ items = {}
  /\ draining = FALSE
  /\ drained = FALSE
  /\ toClose = {}

Open(c) == conn' = [conn EXCEPT ![c] = "open"]
Close(c) == conn' = [conn EXCEPT ![c] = "closed"]

add(c) ==
  /\ \/ draining /\ Close(c) /\ UNCHANGED items
     \/ ~draining /\ items' = items \cup {c} /\ UNCHANGED conn
  /\ UNCHANGED <<draining, drained, toClose>>

remove(c) ==
  /\ items' = items \ {c}
  /\ drained' = (drained \/ (draining /\ items' = {}))
  /\ UNCHANGED <<draining, toClose>>

beginDrain ==
  /\ draining' = TRUE
  /\ drained' = (drained \/ (~draining /\ items = {}))
  /\ UNCHANGED <<items, toClose>>

\* Seeded fault: forceClose forgets the connections it takes.
forceCloseForgets ==
  /\ draining' = TRUE
  /\ toClose' = {}
  /\ items' = {}
  /\ drained' = TRUE

\* The locked part of forceClose; the taken connections are closed after it.
forceClose ==
  /\ draining' = TRUE
  /\ toClose' = items
  /\ items' = {}
  /\ drained' = TRUE
=============================================================================
