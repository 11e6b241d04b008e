----------------------------- MODULE MCInbound ------------------------------
(***************************************************************************)
(* The inbound webhook on a small instance.  POSTs, nonces and contacts    *)
(* are interchangeable, and so are the agents and the page requests.       *)
(***************************************************************************)
EXTENDS Inbound, TLC

Symmetry ==
    Permutations(Requests) \cup Permutations(NonceIds)
        \cup Permutations(Contacts) \cup Permutations(Agents)
        \cup Permutations(Operators)
=============================================================================
