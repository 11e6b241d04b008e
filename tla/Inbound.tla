------------------------------ MODULE Inbound -------------------------------
(***************************************************************************)
(* POST /webhooks/inbound (cf_inbound): how a mail that the edge Worker    *)
(* forwarded becomes a message in an agent's inbox, a fresh nonce in the   *)
(* contact's mailbox, or nothing.                                          *)
(*                                                                         *)
(* The handler is a coroutine.  It reads the agents row once and then      *)
(* suspends at every database statement and at the call to Resend, so any  *)
(* number of handlers, account pages and all-stop requests interleave      *)
(* between its steps.  pc[r] is the await at which POST r is suspended, or *)
(* the reason of its answer once it has one; a handler that raised, or was *)
(* on a machine that stopped, is in dead and stays where it was.           *)
(***************************************************************************)
EXTENDS Credits, FiniteSets

CONSTANTS
    NoTok, Forged,     \* no + part in the address; a nonce nobody issued
    StopKey, BadKey,   \* allstop-<key> with the right and with a wrong key
    KnockLimit         \* KNOCK_RATE_LIMIT

ASSUME InboundAssumption ==
    /\ KnockLimit \in Nat
    /\ {NoTok, Forged, StopKey, BadKey} \cap NonceIds = {}
    /\ NoTok \notin {Forged, StopKey, BadKey}
    /\ {"uncut", "spent"} \cap Agents = {}   \* the names module Door gives a key
    /\ IsFiniteSet(Requests)

VARIABLES
    pc,        \* where each POST is
    req,       \* its recipient, nonce, the nonce_enabled it read, nonce it issued
    dead,      \* POSTs that raised or whose machine stopped
    messages,  \* POSTs whose message is in the messages table
    knocks,    \* timestamps of _knock_timestamps still inside the window
    mailed     \* nonces that reached the contact in a Reply-To address

requestVars == <<pc, req, dead>>
vars == <<accountVars, nonces, creditVars, requestVars, messages, knocks, mailed>>

Tokens == {NoTok, Forged, StopKey, BadKey} \cup NonceIds

Waiting == {"stop", "validate", "expired", "issue", "reply", "deduct", "book", "store", "attach"}
Answers == {"not_approved", "channel_inactive", "sender_not_allowed", "channel_deactivated",
            "invalid_nonce", "nonce_agent_mismatch", "bounce_rate_limited",
            "nonce_expired_bounced", "knock_rate_limited", "knock_replied",
            "insufficient_credits", "received"}

TypeOK ==
    /\ AccountsTypeOK /\ NonceTypeOK /\ CreditsTypeOK
    /\ pc \in [Requests -> {"new"} \cup Waiting \cup Answers]
    /\ req \in [Requests -> [to : Agents \cup {Nobody}, tok : Tokens, door : BOOLEAN,
                             fresh : NonceIds \cup {NoTok}]]
    /\ dead \subseteq Requests
    /\ messages \subseteq Requests
    /\ knocks \in [Agents -> 0..KnockLimit]
    /\ mailed \subseteq NonceIds

Init ==
    /\ AccountsInit /\ NonceInit /\ CreditsInit
    /\ pc = [r \in Requests |-> "new"]
    /\ req = [r \in Requests |-> [to |-> Nobody, tok |-> NoTok, door |-> FALSE, fresh |-> NoTok]]
    /\ dead = {} /\ messages = {} /\ mailed = {}
    /\ knocks = [a \in Agents |-> 0]

At(r, p) == pc[r] = p /\ r \notin dead
Goto(r, p) == pc' = [pc EXCEPT ![r] = p] /\ UNCHANGED dead

(* _check_knock_rate, which runs without suspending: the timestamp is       *)
(* recorded and the handler goes on, or it answers that it was limited.     *)
Knock(a, r, limited) ==
    \/ /\ knocks[a] < KnockLimit
       /\ knocks' = [knocks EXCEPT ![a] = @ + 1]
       /\ Goto(r, "issue")
    \/ /\ knocks[a] >= KnockLimit
       /\ knocks' = knocks
       /\ Goto(r, limited)

-----------------------------------------------------------------------------
(* Authentication, parsing and the one SELECT of the agents row, with       *)
(* everything the handler decides before it suspends again.  A sender can   *)
(* present any nonce that was ever mailed, as often as it likes, to any     *)
(* agent.  A POST that the Worker did not make, or for an address without a *)
(* row, changes nothing and is left out.                                    *)
GateWithoutSwitch(a, c) ==   \* mutant: channel_active is not looked at
    IF ~approved[a] THEN "not_approved"
    ELSE IF c # contact[a] THEN "sender_not_allowed"
    ELSE "open"

Gate(a, c) ==
    IF ~approved[a] THEN "not_approved"
    ELSE IF ~active[a] THEN "channel_inactive"
    ELSE IF c # contact[a] THEN "sender_not_allowed"
    ELSE "open"

SelectAgent(r, a, c, t) ==
    /\ At(r, "new")
    /\ req' = [req EXCEPT ![r] = [to |-> a, tok |-> t, door |-> nonceOn[a], fresh |-> NoTok]]
    /\ \/ /\ Gate(a, c) # "open"
          /\ Goto(r, Gate(a, c)) /\ UNCHANGED knocks
       \/ /\ Gate(a, c) = "open"
          /\ \/ t = StopKey /\ Goto(r, "stop") /\ UNCHANGED knocks
             \/ t = BadKey /\ Goto(r, "invalid_nonce") /\ UNCHANGED knocks
             \/ t \notin {StopKey, BadKey} /\ ~nonceOn[a] /\ Goto(r, "deduct") /\ UNCHANGED knocks
             \/ t \in NonceIds \cup {Forged} /\ nonceOn[a] /\ Goto(r, "validate") /\ UNCHANGED knocks
             \/ t = NoTok /\ nonceOn[a] /\ Knock(a, r, "knock_rate_limited")
    /\ UNCHANGED <<accountVars, nonces, creditVars, messages, mailed>>

(* The all-stop UPDATE.                                                     *)
Stop(r) ==
    /\ At(r, "stop")
    /\ active' = [active EXCEPT ![req[r].to] = FALSE]
    /\ Goto(r, "channel_deactivated")
    /\ UNCHANGED <<approved, nonceOn, contact, op, ops, nonces, creditVars, req, messages,
                   knocks, mailed>>

(* Mutant: the nonce of any agent opens this one.                           *)
ValidateForAnyone(r) ==
    /\ At(r, "validate")
    /\ \/ Validates(req[r].tok) /\ BurnValid(req[r].tok, r) /\ Goto(r, "deduct")
       \/ ~Validates(req[r].tok) /\ nonces' = nonces /\ Goto(r, "expired")
    /\ UNCHANGED <<accountVars, creditVars, req, messages, knocks, mailed>>

(* validate_nonce burns the row before the recipient is compared.           *)
Validate(r) ==
    /\ At(r, "validate")
    /\ \/ /\ Validates(req[r].tok)
          /\ BurnValid(req[r].tok, r)
          /\ Goto(r, IF nonces[req[r].tok].owner = req[r].to THEN "deduct"
                                                              ELSE "nonce_agent_mismatch")
       \/ /\ ~Validates(req[r].tok)
          /\ nonces' = nonces
          /\ Goto(r, "expired")
    /\ UNCHANGED <<accountVars, creditVars, req, messages, knocks, mailed>>

(* check_nonce_expired, and the rate check of the bounce.                   *)
CheckExpired(r) ==
    /\ At(r, "expired")
    /\ \/ /\ Expired(req[r].tok)
          /\ BurnExpired(req[r].tok, r)
          /\ \/ /\ nonces[req[r].tok].owner = req[r].to
                /\ Knock(req[r].to, r, "bounce_rate_limited")
             \/ /\ nonces[req[r].tok].owner # req[r].to
                /\ Goto(r, "invalid_nonce") /\ UNCHANGED knocks
       \/ /\ ~Expired(req[r].tok)
          /\ Goto(r, "invalid_nonce") /\ UNCHANGED <<nonces, knocks>>
    /\ UNCHANGED <<accountVars, creditVars, req, messages, mailed>>

(* generate_nonce, for a knock reply or for the bounce of an expired nonce. *)
GenerateNonce(r) ==
    /\ At(r, "issue")
    /\ \E n \in NonceIds :
          /\ Generate(n, req[r].to)
          /\ req' = [req EXCEPT ![r].fresh = n]
    /\ Goto(r, "reply")
    /\ UNCHANGED <<accountVars, creditVars, messages, knocks, mailed>>

(* send_email: Resend takes the mail, or the daily cap drops it in silence. *)
SendReply(r) ==
    /\ At(r, "reply")
    /\ Goto(r, IF req[r].tok = NoTok THEN "knock_replied" ELSE "nonce_expired_bounced")
    /\ mailed' \in {mailed, mailed \cup {req[r].fresh}}
    /\ UNCHANGED <<accountVars, nonces, creditVars, req, messages, knocks>>

(* Mutant: the ledger row is forgotten.                                     *)
DeductUnbooked(r) ==
    /\ At(r, "deduct")
    /\ \/ CanDeduct(req[r].to) /\ Deduct(req[r].to) /\ Goto(r, "store")
       \/ ~CanDeduct(req[r].to) /\ UNCHANGED creditVars /\ Goto(r, "insufficient_credits")
    /\ UNCHANGED <<accountVars, nonces, req, messages, knocks, mailed>>

(* deduct_credit: the conditional UPDATE, then the ledger row.              *)
DeductCredit(r) ==
    /\ At(r, "deduct")
    /\ \/ CanDeduct(req[r].to) /\ Deduct(req[r].to) /\ Goto(r, "book")
       \/ ~CanDeduct(req[r].to) /\ UNCHANGED creditVars /\ Goto(r, "insufficient_credits")
    /\ UNCHANGED <<accountVars, nonces, req, messages, knocks, mailed>>

BookCharge(r) ==
    /\ At(r, "book")
    /\ BookDebit(req[r].to)
    /\ Goto(r, "store")
    /\ UNCHANGED <<accountVars, nonces, req, messages, knocks, mailed>>

StoreMessage(r) ==
    /\ At(r, "store")
    /\ messages' = messages \cup {r}
    /\ \E p \in {"attach", "received"} : Goto(r, p)
    /\ UNCHANGED <<accountVars, nonces, creditVars, req, knocks, mailed>>

(* _store_inbound_attachments, for a mail that has some: rows of their own, *)
(* after the message is already visible.  If update_contact has deleted the *)
(* message meanwhile the INSERT breaks its foreign key and raises (Fail).   *)
StoreAttachments(r) ==
    /\ At(r, "attach")
    /\ r \in messages
    /\ Goto(r, "received")
    /\ UNCHANGED <<accountVars, nonces, creditVars, req, messages, knocks, mailed>>

Handler(r) ==
    \/ Stop(r) \/ Validate(r) \/ CheckExpired(r) \/ GenerateNonce(r) \/ SendReply(r)
    \/ DeductCredit(r) \/ BookCharge(r) \/ StoreMessage(r) \/ StoreAttachments(r)

-----------------------------------------------------------------------------
(* An await raises (a lost connection, a Resend error) and the POST answers *)
(* 500; or the machine stops, with every POST on it and its knock window.   *)
Fail(r) ==
    /\ pc[r] \in Waiting /\ r \notin dead
    /\ dead' = dead \cup {r}
    /\ UNCHANGED <<accountVars, nonces, creditVars, pc, req, messages, knocks, mailed>>

Restart ==
    /\ \E a \in Agents : knocks[a] > 0
    /\ dead' = dead \cup {r \in Requests : pc[r] \in Waiting}
    /\ knocks' = [a \in Agents |-> 0]
    /\ UNCHANGED <<accountVars, nonces, creditVars, pc, req, messages, mailed>>

(* A timestamp leaves the knock window; a nonce reaches its expiry.         *)
WindowSlides(a) ==
    /\ knocks[a] > 0
    /\ knocks' = [knocks EXCEPT ![a] = @ - 1]
    /\ UNCHANGED <<accountVars, nonces, creditVars, requestVars, messages, mailed>>

Expire(n) ==
    /\ PassExpiry(n)
    /\ UNCHANGED <<accountVars, creditVars, requestVars, messages, knocks, mailed>>

-----------------------------------------------------------------------------
(* The pages.  update_contact deletes the messages, writes the contact and  *)
(* then deletes the nonces, suspending between the three.                   *)
Settings == AccountsStep /\ UNCHANGED <<nonces, creditVars, requestVars, messages, knocks, mailed>>

PurgeMessages(o, a, c) ==
    /\ RebindRead(o, a, c)
    /\ messages' = {r \in messages : req[r].to # a}
    /\ UNCHANGED <<nonces, creditVars, requestVars, knocks, mailed>>

ChangeContact(o) ==
    /\ RebindWrite(o)
    /\ UNCHANGED <<nonces, creditVars, requestVars, messages, knocks, mailed>>

BurnOldNonces(o) ==
    /\ RebindDone(o)
    /\ DeleteNonces(op[o].agent)
    /\ UNCHANGED <<creditVars, requestVars, messages, knocks, mailed>>

(* The nonce of a mail that goes out for the agent: send_message, the alert *)
(* and the recovery mail each generate one for the Reply-To.  The rest of   *)
(* those handlers is not this module's.  Issuing it on a row read earlier   *)
(* is the same as having issued it earlier.                                 *)
AgentMail(n, a) ==
    /\ nonceOn[a]
    /\ Generate(n, a)
    /\ mailed' \in {mailed, mailed \cup {n}}
    /\ UNCHANGED <<accountVars, creditVars, requestVars, messages, knocks>>

(* POST /admin/credits.                                                     *)
Grant(a) ==
    /\ AddCredit(a) \/ BookGrant(a)
    /\ UNCHANGED <<accountVars, nonces, requestVars, messages, knocks, mailed>>

Next ==
    \/ \E r \in Requests, a \in Agents, c \in Contacts,
          t \in {NoTok, Forged, StopKey, BadKey} \cup mailed : SelectAgent(r, a, c, t)
    \/ \E r \in Requests : Handler(r) \/ Fail(r)
    \/ Restart
    \/ \E a \in Agents : WindowSlides(a) \/ Grant(a)
    \/ \E n \in NonceIds : Expire(n)
    \/ \E n \in NonceIds, a \in Agents : AgentMail(n, a)
    \/ Settings
    \/ \E o \in Operators, a \in Agents, c \in Contacts : PurgeMessages(o, a, c)
    \/ \E o \in Operators : ChangeContact(o) \/ BurnOldNonces(o)

Spec == Init /\ [][Next]_vars
-----------------------------------------------------------------------------
(* Positions in the handler, read off pc.                                   *)
Charged(r) == pc[r] \in {"book", "store", "attach", "received"}
Delivered(r) == pc[r] \in {"attach", "received"}
PastDoor(r) == pc[r] = "deduct" \/ pc[r] = "insufficient_credits" \/ Charged(r)
Bounced(r) == /\ req[r].tok # NoTok
              /\ pc[r] \in {"issue", "reply", "nonce_expired_bounced", "bounce_rate_limited"}

(* A nonce opens the door once.  Two POSTs that carry the same nonce (a     *)
(* reply sent twice, a mail delivered twice, a bounce of the first racing   *)
(* the second) never both get past the nonce check, neither both delivered  *)
(* nor one delivered and one bounced.                                       *)
NonceSpentOnce ==
    \A r, s \in Requests :
       /\ r # s /\ req[r].door /\ req[s].door
       /\ req[r].tok = req[s].tok /\ req[r].tok \in NonceIds
       => ~ ((PastDoor(r) \/ Bounced(r)) /\ (PastDoor(s) \/ Bounced(s)))

(* With the door-knock nonce on, what reaches the inbox came with a nonce   *)
(* issued for that very agent, burned by that very POST before its expiry;  *)
(* and a bounce answers a nonce of the agent that had expired.              *)
DoorKnock ==
    \A r \in Requests : req[r].door =>
       /\ PastDoor(r) => /\ req[r].tok \in NonceIds
                         /\ nonces[req[r].tok].by = r
                         /\ nonces[req[r].tok].owner = req[r].to
                         /\ nonces[req[r].tok].st \in {"used", "deleted"}
       /\ Bounced(r)  => /\ req[r].tok \in NonceIds
                         /\ nonces[req[r].tok].by = r
                         /\ nonces[req[r].tok].owner = req[r].to
                         /\ nonces[req[r].tok].st \in {"lapsed", "deleted"}

(* A reply is refused as invalid only for a reason: its nonce is another    *)
(* agent's, another POST burned it, or a contact change deleted it.  The    *)
(* two UPDATEs of the two services leave no gap around the expiry in which  *)
(* a good nonce is neither valid nor expired.                               *)
RefusalJustified ==
    \A r \in Requests :
       pc[r] = "invalid_nonce" /\ req[r].tok \in NonceIds =>
          LET n == nonces[req[r].tok] IN
          \/ n.st = "deleted"
          \/ n.st \in {"used", "lapsed"} /\ n.by # r
          \/ n.st = "lapsed" /\ n.by = r /\ n.owner # req[r].to

(* Every credit that left a balance is one POST that got as far as the      *)
(* charge, and the ledger differs from the balance by exactly the charges   *)
(* and grants whose second statement has not run (or never will).           *)
ChargedOnce ==
    \A a \in Agents :
       /\ balance[a] + Cardinality({r \in Requests : req[r].to = a /\ Charged(r)})
             = StartCredits + granted[a]
       /\ ledger[a] + unbooked[a]
             = balance[a] + Cardinality({r \in Requests : req[r].to = a /\ pc[r] = "book"})

(* The handler implements the promise of module Door: whatever the awaits   *)
(* let in between, a message is stored only for a POST that read the row    *)
(* while the channel was open, passed the lock it saw, and paid.  In        *)
(* particular no POST that reads the row after the kill switch stores.      *)
StageOf(p) ==
    CASE p = "new" -> "outside"
      [] p \in {"stop", "validate", "expired", "issue", "reply"} -> "inside"
      [] p = "deduct" -> "keyed"
      [] p \in {"book", "store"} -> "paid"
      [] p \in {"attach", "received"} -> "lodged"
      [] OTHER -> "away"

RingOf(n) ==
    CASE n.st = "unborn" -> "uncut"
      [] n.st = "live" -> n.owner
      [] OTHER -> "spent"

D == INSTANCE Door WITH
        open   <- [a \in Agents |-> active[a] /\ approved[a]],
        locked <- nonceOn,
        ring   <- [n \in NonceIds |-> RingOf(nonces[n])],
        purse  <- balance,
        stage  <- [r \in Requests |-> StageOf(pc[r])],
        box    <- [r \in Requests |-> req[r].to]

DoorPromise == D!Spec
=============================================================================
