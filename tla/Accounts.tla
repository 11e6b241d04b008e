------------------------------ MODULE Accounts ------------------------------
(***************************************************************************)
(* The gate columns of the agents table and the pages that write them.     *)
(*                                                                         *)
(* Four columns decide whether mail may enter: channel_active,             *)
(* admin_approved, nonce_enabled and allowed_contact.  The owner's account *)
(* page, the operator's admin page and the kill-switch URL write them      *)
(* while webhook handlers are suspended between their own reads and        *)
(* writes.  A page that reads the row and then writes a value computed     *)
(* from it is two steps here, with what it remembers kept in op; a page    *)
(* that only issues one UPDATE is one step.                                *)
(***************************************************************************)
EXTENDS Naturals

CONSTANTS
    Agents,      \* agents that exist (rows of the agents table)
    Contacts,    \* addresses that may be an agent's allowed_contact
    Operators,   \* page requests that can be in flight at the same time
    Idle,        \* the state of an operator with no request in flight
    MaxOps       \* bound: page requests in a behaviour

ASSUME AccountsAssumption ==
    /\ Agents # {} /\ Contacts # {}
    /\ MaxOps \in Nat

VARIABLES
    active,      \* agents.channel_active
    approved,    \* agents.admin_approved
    nonceOn,     \* agents.nonce_enabled
    contact,     \* agents.allowed_contact
    op,          \* what each page request in flight has read and has yet to write
    ops          \* page requests started so far (bounded by MaxOps)

accountVars == <<active, approved, nonceOn, contact, op, ops>>

(* A pending write: the all-stop page, the two admin toggles, and the       *)
(* steps of update_contact that are still to come.                          *)
Pending == [kind : {"allstop", "channel", "approval"}, agent : Agents, to : BOOLEAN]
             \cup [kind : {"rebind", "burn"}, agent : Agents, to : Contacts]

AccountsTypeOK ==
    /\ active \in [Agents -> BOOLEAN]
    /\ approved \in [Agents -> BOOLEAN]
    /\ nonceOn \in [Agents -> BOOLEAN]
    /\ contact \in [Agents -> Contacts]
    /\ op \in [Operators -> {Idle} \cup Pending]
    /\ ops \in 0..MaxOps

(* Defaults of the columns (migrations 008 and 019); an agent may have been *)
(* created with or without the door-knock nonce.                            *)
AccountsInit ==
    /\ active = [a \in Agents |-> TRUE]
    /\ approved = [a \in Agents |-> TRUE]
    /\ nonceOn \in [Agents -> BOOLEAN]
    /\ contact \in [Agents -> Contacts]
    /\ op = [o \in Operators |-> Idle]
    /\ ops = 0

NextOp == ops < MaxOps /\ ops' = ops + 1

-----------------------------------------------------------------------------
(* Pages that issue one UPDATE.                                             *)

(* enable_nonce, disable_nonce and the two bulk actions of the same name.   *)
(* The admin toggle writes one of the same two values, after a read.        *)
SwitchNonce(a) ==
    /\ NextOp
    /\ \E v \in BOOLEAN : nonceOn' = [nonceOn EXCEPT ![a] = v]
    /\ UNCHANGED <<active, approved, contact, op>>

(* reactivate_channel, and enable_channel / disable_channel in bulk.        *)
SetChannel(a) ==
    /\ NextOp
    /\ \E v \in BOOLEAN : active' = [active EXCEPT ![a] = v]
    /\ UNCHANGED <<approved, nonceOn, contact, op>>

(* approve and unapprove in bulk.                                           *)
SetApproval(a) ==
    /\ NextOp
    /\ \E v \in BOOLEAN : approved' = [approved EXCEPT ![a] = v]
    /\ UNCHANGED <<active, nonceOn, contact, op>>

(* set_contact, the admin contact form and each half of the link forms: the *)
(* contact changes and nothing that was for the old one is removed.         *)
SetContact(a) ==
    /\ NextOp
    /\ \E c \in Contacts : contact' = [contact EXCEPT ![a] = c]
    /\ UNCHANGED <<active, approved, nonceOn, op>>

-----------------------------------------------------------------------------
(* Pages that read the row, suspend, and write.                             *)

Starts(o, k, a, v) ==
    /\ op[o] = Idle
    /\ NextOp
    /\ op' = [op EXCEPT ![o] = [kind |-> k, agent |-> a, to |-> v]]

(* GET /allstop with the right key; an inactive channel is left as it is.   *)
AllstopRead(o, a) ==
    /\ active[a]
    /\ Starts(o, "allstop", a, FALSE)
    /\ UNCHANGED <<active, approved, nonceOn, contact>>

ToggleRead(o, a) ==
    /\ \/ Starts(o, "channel", a, ~active[a])
       \/ Starts(o, "approval", a, ~approved[a])
    /\ UNCHANGED <<active, approved, nonceOn, contact>>

(* The value written is the one computed from the earlier read.             *)
ColumnWrite(o) ==
    /\ op[o] # Idle
    /\ \/ /\ op[o].kind \in {"allstop", "channel"}
          /\ active' = [active EXCEPT ![op[o].agent] = op[o].to]
          /\ approved' = approved
       \/ /\ op[o].kind = "approval"
          /\ approved' = [approved EXCEPT ![op[o].agent] = op[o].to]
          /\ active' = active
    /\ op' = [op EXCEPT ![o] = Idle]
    /\ UNCHANGED <<nonceOn, contact, ops>>

(* The column half of update_contact: it refuses the contact it already has *)
(* and writes the new one after the messages and keys are gone.  The row it *)
(* read only serves that test.                                              *)
RebindRead(o, a, c) ==
    /\ c # contact[a]
    /\ Starts(o, "rebind", a, c)
    /\ UNCHANGED <<active, approved, nonceOn, contact>>

RebindWrite(o) ==
    /\ op[o] # Idle
    /\ op[o].kind = "rebind"
    /\ contact' = [contact EXCEPT ![op[o].agent] = op[o].to]
    /\ op' = [op EXCEPT ![o].kind = "burn"]
    /\ UNCHANGED <<active, approved, nonceOn, ops>>

RebindDone(o) ==
    /\ op[o] # Idle
    /\ op[o].kind = "burn"
    /\ op' = [op EXCEPT ![o] = Idle]
    /\ UNCHANGED <<active, approved, nonceOn, contact, ops>>

AccountsStep ==
    \/ \E a \in Agents : SwitchNonce(a) \/ SetChannel(a) \/ SetApproval(a) \/ SetContact(a)
    \/ \E o \in Operators, a \in Agents : AllstopRead(o, a) \/ ToggleRead(o, a)
    \/ \E o \in Operators : ColumnWrite(o)
=============================================================================
