------------------------------ MODULE MCBridge ------------------------------
(***************************************************************************)
(* Bridge for TLC: which connections implement CloseWrite.                  *)
(***************************************************************************)
EXTENDS Bridge

\* Both connections of the answering streams (TCP), and none of the others.
SomeCloseWriters == Answering \X Sides
=============================================================================
