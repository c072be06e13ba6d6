----------------------------- MODULE MCTailcat ------------------------------
(***************************************************************************)
(* TailcatLink for TLC: streams, backlog, dials and callers of Close are the *)
(* constants of the cfg.                                                    *)
(***************************************************************************)
EXTENDS TailcatLink
=============================================================================
