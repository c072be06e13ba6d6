---------------------------- MODULE ServeContract ---------------------------
(***************************************************************************)
(* What every serving function of the gateway promises its caller: it serves *)
(* until its context is cancelled or it fails by itself, then it stops, then *)
(* it returns, once; a cancelled one does return.  link.Serve, server.Serve  *)
(* and server.ServeAll are each shown to implement it.                       *)
(***************************************************************************)
CONSTANT NilNeedsCancel   \* a nil result is kept for a cancelled context

VARIABLES ctx, phase, result

vars == <<ctx, phase, result>>

Init == ctx = FALSE /\ phase = "serving" /\ result = "none"

Cancel == ~ctx /\ ctx' = TRUE /\ UNCHANGED <<phase, result>>

Stop == phase = "serving" /\ phase' = "stopping" /\ UNCHANGED <<ctx, result>>

Return ==
  /\ phase = "stopping"
  /\ phase' = "returned"
  /\ result' \in {"nil", "error"}
  /\ NilNeedsCancel /\ result' = "nil" => ctx
  /\ UNCHANGED ctx

Next == Cancel \/ Stop \/ Return

Safe == Init /\ [][Next]_vars

Spec == Safe /\ WF_vars(ctx /\ (Stop \/ Return))
=============================================================================
