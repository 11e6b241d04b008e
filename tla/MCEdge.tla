------------------------------- MODULE MCEdge -------------------------------
(* Edge for TLC: pages, mails and contacts are interchangeable.              *)
EXTENDS Edge, TLC

Symmetry == Permutations(Pages) \cup Permutations(Mails) \cup Permutations(Contacts)
=============================================================================
