---------------------------- MODULE MCLifecycle -----------------------------
(***************************************************************************)
(* Lifecycle for TLC: the requests are the constants of the cfg.            *)
(***************************************************************************)
EXTENDS Lifecycle
=============================================================================
