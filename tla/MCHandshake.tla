---------------------------- MODULE MCHandshake ----------------------------
(***************************************************************************)
(* Small instances of Handshake for TLC.                                   *)
(***************************************************************************)
EXTENDS Handshake

=============================================================================
