--------------------------- MODULE MCControlPath ---------------------------
(***************************************************************************)
(* Two servers that open and close their control sockets at one time, with *)
(* one path in common and one each may be moved to.                        *)
(***************************************************************************)
EXTENDS ControlPath

=============================================================================
