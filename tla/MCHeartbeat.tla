---------------------------- MODULE MCHeartbeat -----------------------------
(***************************************************************************)
(* The monitor on a small instance; machines and polls are                 *)
(* interchangeable.                                                        *)
(***************************************************************************)
EXTENDS Heartbeat, TLC

Symmetry == Permutations(Machines) \cup Permutations(Polls)
=============================================================================
