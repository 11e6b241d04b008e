-------------------------------- MODULE Door --------------------------------
(***************************************************************************)
(* What the inbound webhook promises, without its statements and awaits.   *)
(*                                                                         *)
(* A mail enters only at a moment when the recipient's channel is open; it *)
(* then lodges only if it passed the lock (with a key of that recipient,   *)
(* which works once, unless the lock was off when it entered) and paid one *)
(* credit from a purse that holds one.  Closing the channel does not evict *)
(* a mail that is already inside: that is all a kill switch can promise    *)
(* here.                                                                   *)
(***************************************************************************)
EXTENDS Naturals

CONSTANTS Agents, Requests, NonceIds, Nobody

VARIABLES
    open,     \* the channel is active and the agent approved
    locked,   \* a key is required
    ring,     \* what each key is: uncut, an agent's usable key, or spent
    purse,    \* credits
    stage,    \* how far each mail has come
    box       \* for whom it came in

vars == <<open, locked, ring, purse, stage, box>>

Init ==
    /\ open \in [Agents -> BOOLEAN]
    /\ locked \in [Agents -> BOOLEAN]
    /\ ring = [n \in NonceIds |-> "uncut"]
    /\ purse \in [Agents -> Nat]
    /\ stage = [r \in Requests |-> "outside"]
    /\ box = [r \in Requests |-> Nobody]

Moves(r, from, to) == stage[r] = from /\ stage' = [stage EXCEPT ![r] = to]

Enter(r, a) ==
    /\ open[a]
    /\ IF locked[a] THEN Moves(r, "outside", "inside") ELSE Moves(r, "outside", "keyed")
    /\ box' = [box EXCEPT ![r] = a]
    /\ UNCHANGED <<open, locked, ring, purse>>

(* A mail that only stops the channel or fetches a key stays inside.        *)
EnterAside(r, a) ==
    /\ open[a]
    /\ Moves(r, "outside", "inside")
    /\ box' = [box EXCEPT ![r] = a]
    /\ UNCHANGED <<open, locked, ring, purse>>

UseKey(r, n) ==
    /\ Moves(r, "inside", "keyed")
    /\ ring[n] = box[r]
    /\ ring' = [ring EXCEPT ![n] = "spent"]
    /\ UNCHANGED <<open, locked, purse, box>>

WrongKey(r, n) ==
    /\ Moves(r, "inside", "away")
    /\ ring[n] \notin {"uncut", "spent", box[r]}
    /\ ring' = [ring EXCEPT ![n] = "spent"]
    /\ UNCHANGED <<open, locked, purse, box>>

Pay(r) ==
    /\ Moves(r, "keyed", "paid")
    /\ purse[box[r]] > 0
    /\ purse' = [purse EXCEPT ![box[r]] = @ - 1]
    /\ UNCHANGED <<open, locked, ring, box>>

Lodge(r) == Moves(r, "paid", "lodged") /\ UNCHANGED <<open, locked, ring, purse, box>>

TurnAway(r) ==
    /\ \E from \in {"outside", "inside", "keyed"} : Moves(r, from, "away")
    /\ \E a \in Agents : box' = [box EXCEPT ![r] = IF stage[r] = "outside" THEN a ELSE @]
    /\ UNCHANGED <<open, locked, ring, purse>>

(* A mail inside closes the channel: the all-stop key.                      *)
Shut(r) ==
    /\ Moves(r, "inside", "away")
    /\ open' = [open EXCEPT ![box[r]] = FALSE]
    /\ UNCHANGED <<locked, ring, purse, box>>

CutKey(n, a) ==
    /\ ring[n] = "uncut"
    /\ ring' = [ring EXCEPT ![n] = a]
    /\ UNCHANGED <<open, locked, purse, stage, box>>

(* Keys expire or are taken back, in any number at once.                    *)
SpoilKeys(S) ==
    /\ \A n \in S : ring[n] # "uncut"
    /\ ring' = [n \in NonceIds |-> IF n \in S THEN "spent" ELSE ring[n]]
    /\ UNCHANGED <<open, locked, purse, stage, box>>

Owner ==
    /\ open' \in [Agents -> BOOLEAN]
    /\ locked' \in [Agents -> BOOLEAN]
    /\ UNCHANGED <<ring, purse, stage, box>>

TopUp(a) ==
    /\ purse' = [purse EXCEPT ![a] = @ + 1]
    /\ UNCHANGED <<open, locked, ring, stage, box>>

Next ==
    \/ \E r \in Requests :
          \/ \E a \in Agents : Enter(r, a) \/ EnterAside(r, a)
          \/ \E n \in NonceIds : UseKey(r, n) \/ WrongKey(r, n)
          \/ Pay(r) \/ Lodge(r) \/ TurnAway(r) \/ Shut(r)
    \/ \E n \in NonceIds, a \in Agents : CutKey(n, a)
    \/ \E S \in SUBSET NonceIds : SpoilKeys(S)
    \/ Owner
    \/ \E a \in Agents : TopUp(a)

Spec == Init /\ [][Next]_vars
=============================================================================
