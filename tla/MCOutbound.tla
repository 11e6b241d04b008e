----------------------------- MODULE MCOutbound -----------------------------
(***************************************************************************)
(* Sending on a small instance.  Requests, nonces, agents and pages are    *)
(* interchangeable; the contacts are not, since some are agents.           *)
(***************************************************************************)
EXTENDS Outbound, TLC

(* What TLC goes on from.  Of the pages that write in two steps only        *)
(* update_contact is followed: to a letter the others are pages that write  *)
(* the same column in one.  No page is followed beside a contact that is    *)
(* nobody's address, whose letters are refused at the second SELECT, or     *)
(* once every letter is answered.                                           *)
Followed ==
    /\ \A o \in Operators : op[o] = Idle \/ op[o].kind \in {"rebind", "burn"}
    /\ ops > 0 => \A a \in Agents : contact[a] # Ghost
    /\ ops > 0 => \E s \in Sends : pc[s] \notin Answers

Symmetry ==
    Permutations(Sends) \cup Permutations(NonceIds) \cup Permutations(Agents)
        \cup Permutations(Operators)
=============================================================================
