------------------------------- MODULE MCFTP --------------------------------
(***************************************************************************)
(* FTP for TLC.                                                             *)
(***************************************************************************)
EXTENDS FTP
=============================================================================
