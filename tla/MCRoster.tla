------------------------------ MODULE MCRoster ------------------------------
(* Roster for TLC: sign-ups, rotations and addresses are interchangeable.    *)
EXTENDS Roster, TLC

Symmetry == Permutations(Signups) \cup Permutations(Rotations) \cup Permutations(Addresses)
=============================================================================
