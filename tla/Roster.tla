------------------------------- MODULE Roster -------------------------------
(***************************************************************************)
(* The agents of one owner: create_agent (a single agent or a pipe pair),  *)
(* the pages that replace an agent's API key, and the operator who deletes *)
(* agents.                                                                 *)
(*                                                                         *)
(* None of these handlers opens a transaction: create_agent counts, reads  *)
(* the limit and inserts in three statements, and cleans up after itself   *)
(* when the second insert of a pair fails; a rotation deletes the keys and *)
(* then inserts one; a deletion empties four tables before the row goes.   *)
(* Row <<r, 1>> is the first agent sign-up r inserts and <<r, 2>> the      *)
(* second.  A key is the pair of the request that made it and its agent.   *)
(***************************************************************************)
EXTENDS Naturals, FiniteSets

CONSTANTS
    Signups,     \* requests to POST /setup
    Rotations,   \* requests that replace a key
    Addresses, NoAddress,
    MaxLimit,    \* bound: values of owner_config.max_agents
    MaxDeletions,\* bound: agents the operator deletes
    MaxTraffic   \* bound: rows that mail adds to the tables of an agent

ASSUME RosterAssumption ==
    /\ IsFiniteSet(Signups) /\ Signups \cap Rotations = {}
    /\ NoAddress \notin Addresses
    /\ MaxLimit \in Nat \ {0} /\ MaxDeletions \in Nat /\ MaxTraffic \in Nat

Rows == Signups \X {1, 2}
Tables == {"nonces", "messages", "credits"}

VARIABLES
    row,        \* the agents table: none, live, gone
    address,    \* agents.address
    child,      \* for each table that refers to agents, the agents it refers to
    keys,       \* api_keys, the fourth of them
    signup,     \* each sign-up: its await, its form and the limit it read
    rotation,   \* each rotation: its await, its agent, the keys there were at its start
    deletion,   \* each agent: the DELETE the operator's request is at
    traffic,
    crowded,    \* sign-ups that have yet to insert after a count that another's insert outdated
    over,       \* sign-ups that, not crowded, took the owner over the limit they had read
    tangled,    \* agents that got a key while another request was about to insert one
    touched     \* agents that got a row in some table while they were being deleted

tableVars == <<row, address, child, keys>>
history == <<crowded, over, tangled, touched>>
vars == <<tableVars, signup, rotation, deletion, traffic, history>>

Keys == [by : Signups \cup Rotations, of : Rows]

TypeOK ==
    /\ row \in [Rows -> {"none", "live", "gone"}]
    /\ address \in [Rows -> Addresses \cup {NoAddress}]
    /\ child \in [Tables -> SUBSET Rows]
    /\ keys \subseteq Keys
    /\ \A t \in Tables : \A i \in child[t] : row[i] = "live"
    /\ \A k \in keys : row[k.of] = "live"
    /\ \A i, j \in Rows : row[i] = "live" /\ row[j] = "live" /\ address[i] = address[j] => i = j
    /\ signup \in [Signups -> [at : {"new", "count", "first", "second", "undo", "grant",
                                     "grant2", "key", "key2", "done", "refused", "error"},
                               first : Addresses \cup {NoAddress},
                               second : Addresses \cup {NoAddress},
                               limit : 0..MaxLimit]]
    /\ rotation \in [Rotations -> [at : {"new", "delete", "insert", "done", "error"},
                                   of : Rows \cup {<<>>}, old : SUBSET Keys]]
    /\ deletion \in [Rows -> {"idle", "nonces", "messages", "credits", "keys", "row", "done",
                              "broken"}]
    /\ traffic \in 0..MaxTraffic
    /\ over \subseteq Signups /\ crowded \subseteq Signups
    /\ tangled \subseteq Rows /\ touched \subseteq Rows

Init ==
    /\ row = [i \in Rows |-> "none"]
    /\ address = [i \in Rows |-> NoAddress]
    /\ child = [t \in Tables |-> {}] /\ keys = {}
    /\ signup = [r \in Signups |-> [at |-> "new", first |-> NoAddress, second |-> NoAddress,
                                    limit |-> 0]]
    /\ rotation = [q \in Rotations |-> [at |-> "new", of |-> <<>>, old |-> {}]]
    /\ deletion = [i \in Rows |-> "idle"]
    /\ traffic = 0
    /\ over = {} /\ crowded = {} /\ tangled = {} /\ touched = {}

Live == {i \in Rows : row[i] = "live"}
KeysOf(i) == {k \in keys : k.of = i}
Referenced(i) == KeysOf(i) # {} \/ \E t \in Tables : i \in child[t]
Taken(x) == \E i \in Live : address[i] = x
Pair(r) == signup[r].second # NoAddress
Goto(r, p) == signup' = [signup EXCEPT ![r].at = p]
Leave(r, p) == signup' = [signup EXCEPT ![r].at = p, ![r].limit = 0]

(* The operator's request is somewhere among its DELETEs.                   *)
Deleting(i) == deletion[i] \in {"nonces", "messages", "credits", "keys", "row"}
Touch(i) == touched' = IF Deleting(i) THEN touched \cup {i} ELSE touched

-----------------------------------------------------------------------------
(* create_agent.                                                            *)
Begin(r, x, y) ==
    /\ signup[r].at = "new" /\ x # y
    /\ signup' = [signup EXCEPT ![r] = [@ EXCEPT !.at = "count", !.first = x, !.second = y]]
    /\ UNCHANGED <<tableVars, rotation, deletion, traffic, history>>

(* The two SELECTs and the test, in one step: an insert that falls between  *)
(* the two is to this sign-up as one that comes after both.  The operator   *)
(* may have set the limit to any value by then.                             *)
Judge(r, slots) ==
    \E limit \in 1..MaxLimit :
       signup' = [signup EXCEPT ![r] =
          IF Cardinality(Live) + slots > limit
          THEN [@ EXCEPT !.at = "refused"]
          ELSE [@ EXCEPT !.at = "first", !.limit = limit]]

(* Mutant: a pair asks for one slot.                                        *)
CountForOne(r) ==
    /\ signup[r].at = "count" /\ Judge(r, 1)
    /\ UNCHANGED <<tableVars, rotation, deletion, traffic, history>>

Count(r) ==
    /\ signup[r].at = "count" /\ Judge(r, IF Pair(r) THEN 2 ELSE 1)
    /\ UNCHANGED <<tableVars, rotation, deletion, traffic, history>>

(* An INSERT INTO agents, for an address that is free, and where the        *)
(* handler goes from there.                                                 *)
AddRow(r, i, x, next) ==
    /\ ~Taken(x)
    /\ row' = [row EXCEPT ![i] = "live"]
    /\ address' = [address EXCEPT ![i] = x]
    /\ crowded' = (IF next = "second" THEN crowded ELSE crowded \ {r})
          \cup {t \in Signups \ {r} : signup[t].at \in {"first", "second"}}
    /\ over' = IF r \notin crowded /\ Cardinality(Live) >= signup[r].limit
               THEN over \cup {r} ELSE over
    /\ IF next = "second" THEN Goto(r, next) ELSE Leave(r, next)
    /\ UNCHANGED <<child, keys, rotation, deletion, traffic, tangled, touched>>

InsertFirst(r) ==
    /\ signup[r].at = "first"
    /\ \/ AddRow(r, <<r, 1>>, signup[r].first, IF Pair(r) THEN "second" ELSE "grant")
       \/ /\ Taken(signup[r].first) /\ Leave(r, "refused")
          /\ UNCHANGED <<tableVars, rotation, deletion, traffic, history>>

(* Mutant: the first agent is left where it is.                             *)
InsertSecondOrLeave(r) ==
    /\ signup[r].at = "second"
    /\ \/ AddRow(r, <<r, 2>>, signup[r].second, "grant")
       \/ /\ Taken(signup[r].second) /\ Leave(r, "refused")
          /\ UNCHANGED <<tableVars, rotation, deletion, traffic, history>>

InsertSecond(r) ==
    /\ signup[r].at = "second"
    /\ \/ AddRow(r, <<r, 2>>, signup[r].second, "grant")
       \/ /\ Taken(signup[r].second) /\ Leave(r, "undo")
          /\ UNCHANGED <<tableVars, rotation, deletion, traffic, history>>

(* "Clean up agent A if B fails": the DELETE of its row, which raises when  *)
(* some table refers to it by now.                                          *)
Undo(r) ==
    LET i == <<r, 1>> IN
    /\ signup[r].at = "undo"
    /\ \/ /\ Referenced(i) /\ Goto(r, "error") /\ UNCHANGED row
       \/ /\ ~Referenced(i) /\ Goto(r, "refused")
          /\ row' = [row EXCEPT ![i] = "gone"]
    /\ UNCHANGED <<address, child, keys, rotation, deletion, traffic, history>>

(* The ledger rows; with the agent gone the INSERT raises.                  *)
Grant(r, i, now, next) ==
    /\ signup[r].at = now
    /\ \/ /\ row[i] = "live" /\ Goto(r, next)
          /\ child' = [child EXCEPT !["credits"] = @ \cup {i}]
          /\ Touch(i)
       \/ row[i] = "gone" /\ Goto(r, "error") /\ UNCHANGED <<child, touched>>
    /\ UNCHANGED <<row, address, keys, rotation, deletion, traffic, over, crowded, tangled>>

-----------------------------------------------------------------------------
(* API keys.                                                                *)

(* Requests that have yet to insert a key for agent i.                      *)
Making(i) ==
    {q \in Rotations : rotation[q].at = "insert" /\ rotation[q].of = i}
      \cup {r \in Signups :
              \/ i = <<r, 1>> /\ signup[r].at \in {"second", "undo", "grant", "grant2", "key"}
              \/ i = <<r, 2>> /\ Pair(r) /\ signup[r].at \in {"grant", "grant2", "key", "key2"}}

(* The INSERT INTO api_keys of request w.                                   *)
AddKey(w, i) ==
    /\ row[i] = "live"
    /\ keys' = keys \cup {[by |-> w, of |-> i]}
    /\ tangled' = IF Making(i) \ {w} # {} THEN tangled \cup {i} ELSE tangled
    /\ Touch(i)

FirstKey(r, i, now, next) ==
    /\ signup[r].at = now
    /\ \/ AddKey(r, i) /\ Goto(r, next)
       \/ row[i] = "gone" /\ Goto(r, "error") /\ UNCHANGED <<keys, tangled, touched>>
    /\ UNCHANGED <<row, address, child, rotation, deletion, traffic, over, crowded>>

Handler(r) ==
    \/ Count(r) \/ InsertFirst(r) \/ InsertSecond(r) \/ Undo(r)
    \/ Grant(r, <<r, 1>>, "grant", IF Pair(r) THEN "grant2" ELSE "key")
    \/ Grant(r, <<r, 2>>, "grant2", "key")
    \/ FirstKey(r, <<r, 1>>, "key", IF Pair(r) THEN "key2" ELSE "done")
    \/ FirstKey(r, <<r, 2>>, "key2", "done")

(* A page of the owner who sees the agent, or the API call of whoever has   *)
(* one of its keys (which get_agent_id looks up in api_keys).               *)
StartRotation(q, i) ==
    /\ rotation[q].at = "new"
    /\ row[i] = "live"
    /\ rotation' = [rotation EXCEPT ![q] = [at |-> "delete", of |-> i, old |-> KeysOf(i)]]
    /\ UNCHANGED <<tableVars, signup, deletion, traffic, history>>

(* Mutants: the DELETE takes only one of the keys; nothing is deleted.      *)
DropOneKey(q) ==
    LET i == rotation[q].of IN
    /\ rotation[q].at = "delete"
    /\ keys' = IF KeysOf(i) = {} THEN keys ELSE keys \ {CHOOSE k \in KeysOf(i) : TRUE}
    /\ rotation' = [rotation EXCEPT ![q].at = "insert"]
    /\ UNCHANGED <<row, address, child, signup, deletion, traffic, history>>
DropNoKey(q) ==
    /\ rotation[q].at = "delete"
    /\ rotation' = [rotation EXCEPT ![q].at = "insert"]
    /\ UNCHANGED <<tableVars, signup, deletion, traffic, history>>

DropKeys(q) ==
    /\ rotation[q].at = "delete"
    /\ keys' = keys \ KeysOf(rotation[q].of)
    /\ rotation' = [rotation EXCEPT ![q].at = "insert"]
    /\ UNCHANGED <<row, address, child, signup, deletion, traffic, history>>

(* Mutant: the DELETE comes after the INSERT.                               *)
NewKeyThenDrop(q) ==
    LET i == rotation[q].of IN
    /\ rotation[q].at = "insert"
    /\ keys' = keys \ KeysOf(i)
    /\ rotation' = [rotation EXCEPT ![q].at = IF row[i] = "live" THEN "done" ELSE "error"]
    /\ UNCHANGED <<row, address, child, signup, deletion, traffic, history>>

NewKey(q) ==
    LET i == rotation[q].of IN
    /\ rotation[q].at = "insert"
    /\ \/ AddKey(q, i) /\ rotation' = [rotation EXCEPT ![q].at = "done"]
       \/ /\ row[i] = "gone"
          /\ rotation' = [rotation EXCEPT ![q].at = "error", ![q].old = {}]
          /\ UNCHANGED <<keys, tangled, touched>>
    /\ UNCHANGED <<row, address, child, signup, deletion, traffic, over, crowded>>

-----------------------------------------------------------------------------
(* admin_delete_agent and the delete action of admin_bulk_action.           *)
StartDeletion(i) ==
    /\ row[i] = "live" /\ deletion[i] = "idle"
    /\ Cardinality({j \in Rows : deletion[j] # "idle"}) < MaxDeletions
    /\ deletion' = [deletion EXCEPT ![i] = "nonces"]
    /\ UNCHANGED <<tableVars, signup, rotation, traffic, history>>

After == [nonces |-> "messages", messages |-> "credits", credits |-> "keys"]

ClearTable(i) ==
    /\ deletion[i] \in Tables
    /\ child' = [child EXCEPT ![deletion[i]] = @ \ {i}]
    /\ deletion' = [deletion EXCEPT ![i] = After[@]]
    /\ UNCHANGED <<row, address, keys, signup, rotation, traffic, history>>

(* Mutant: the keys are left to the last DELETE.                            *)
ClearNoKeys(i) ==
    /\ deletion[i] = "keys"
    /\ deletion' = [deletion EXCEPT ![i] = "row"]
    /\ UNCHANGED <<tableVars, signup, rotation, traffic, history>>

ClearKeys(i) ==
    /\ deletion[i] = "keys"
    /\ keys' = keys \ KeysOf(i)
    /\ deletion' = [deletion EXCEPT ![i] = "row"]
    /\ UNCHANGED <<row, address, child, signup, rotation, traffic, history>>

(* Mutant: the tables do not refer to agents.                               *)
DeleteRowForced(i) ==
    /\ deletion[i] = "row"
    /\ deletion' = [deletion EXCEPT ![i] = "done"]
    /\ row' = [row EXCEPT ![i] = "gone"]
    /\ UNCHANGED <<address, child, keys, signup, rotation, traffic, history>>

DeleteRow(i) ==
    /\ deletion[i] = "row"
    /\ \/ /\ Referenced(i)
          /\ deletion' = [deletion EXCEPT ![i] = "broken"] /\ UNCHANGED row
       \/ /\ ~Referenced(i)
          /\ deletion' = [deletion EXCEPT ![i] = "done"]
          /\ row' = [row EXCEPT ![i] = "gone"]
    /\ UNCHANGED <<address, child, keys, signup, rotation, traffic, history>>

-----------------------------------------------------------------------------
(* The mail of an agent leaves rows in the tables.  (A ledger row is what   *)
(* the grants of create_agent insert already.)                              *)
Traffic(i, t) ==
    /\ row[i] = "live" /\ traffic < MaxTraffic
    /\ traffic' = traffic + 1
    /\ child' = [child EXCEPT ![t] = @ \cup {i}]
    /\ Touch(i)
    /\ UNCHANGED <<row, address, keys, signup, rotation, deletion, over, crowded, tangled>>

Next ==
    \/ \E r \in Signups, x \in Addresses, y \in Addresses \cup {NoAddress} : Begin(r, x, y)
    \/ \E r \in Signups : Handler(r)
    \/ \E q \in Rotations, i \in Rows : StartRotation(q, i)
    \/ \E q \in Rotations : DropKeys(q) \/ NewKey(q)
    \/ \E i \in Rows : StartDeletion(i) \/ ClearTable(i) \/ ClearKeys(i) \/ DeleteRow(i)
    \/ \E i \in Rows, t \in {"nonces", "messages"} : Traffic(i, t)

Spec == Init /\ [][Next]_vars
-----------------------------------------------------------------------------
(* The limit is exceeded only in a race.  The count, the limit and the      *)
(* inserts are separate statements; all the same no insert takes the owner  *)
(* over the limit its sign-up read unless another sign-up inserted since it *)
(* counted, whatever was deleted or undone in between.                      *)
LimitOnlyInARace == over = {}

(* A pair is created whole or not at all: one of its agents is there        *)
(* without the other only while the request is between its statements (or   *)
(* stopped there), after the other was deleted, or when the clean-up found  *)
(* the first agent in use already.                                          *)
Used(i) == traffic > 0 \/ \E q \in Rotations : rotation[q].of = i

PairOrNothing ==
    \A r \in Signups :
       /\ Pair(r) /\ row[<<r, 1>>] = "live" /\ row[<<r, 2>>] # "live"
       => \/ signup[r].at \in {"second", "undo"}
          \/ row[<<r, 2>>] = "gone"
          \/ signup[r].at = "error" /\ Used(<<r, 1>>)

(* A rotation that has answered has revoked every key that was valid when   *)
(* it began, whatever other rotations and sign-ups did meanwhile.           *)
OldKeysRevoked ==
    \A q \in Rotations : rotation[q].at = "done" => rotation[q].old \cap keys = {}

(* An agent has two valid keys only after two requests crossed: one got     *)
(* its key in while the other was about to.                                 *)
OneKeyUnlessTangled ==
    \A k, l \in keys : k # l /\ k.of = l.of => k.of \in tangled

(* An agent is never locked out by requests that have all answered: if it   *)
(* has no key, some request has yet to insert one (or stopped before), the  *)
(* agent is being deleted, or it is what the clean-up of a pair left.       *)
KeylessOnlyWhile ==
    \A i \in Live :
       KeysOf(i) = {} => \/ Making(i) # {}
                         \/ deletion[i] \in {"row", "broken"}
                         \/ signup[i[1]].at = "error"

(* A deletion breaks off with half the agent gone only if a row was added   *)
(* for it while it ran.                                                     *)
DeletedWholeUnlessTouched ==
    \A i \in Rows : deletion[i] = "broken" => i \in touched
=============================================================================
