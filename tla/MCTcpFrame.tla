----------------------------- MODULE MCTcpFrame -----------------------------
(***************************************************************************)
(* Small instances of TcpFrame for TLC.                                    *)
(***************************************************************************)
EXTENDS TcpFrame

=============================================================================
