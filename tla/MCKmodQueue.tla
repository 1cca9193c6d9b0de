---------------------------- MODULE MCKmodQueue ----------------------------
(***************************************************************************)
(* Small instances of KmodQueue for TLC: two processes, two threads, two   *)
(* packets to tell apart and a queue of three.  Users and packets are      *)
(* model values; no symmetry, as the run checks a liveness property.       *)
(***************************************************************************)
EXTENDS KmodQueue

=============================================================================
