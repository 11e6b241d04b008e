------------------------------ MODULE Outbound ------------------------------
(***************************************************************************)
(* POST /v1/send (send_message): an agent's letter goes out through Resend *)
(* to its contact, or, when the contact is another agent of this service,  *)
(* straight into that agent's inbox.                                       *)
(*                                                                         *)
(* The handler reads the sender's row once and checks its balance there.   *)
(* What it does about it comes several awaits later: the mail is sent      *)
(* first and paid for afterwards, the two sides of an internal delivery    *)
(* are charged one after the other, and the result of both charges is      *)
(* ignored.  pc[s] is the await at which request s is suspended or its     *)
(* answer.  Any of these awaits may raise, and the machine may stop: the   *)
(* request then takes no further step, and since none is ever forced to,   *)
(* every behaviour with failures is among those of Spec.                   *)
(***************************************************************************)
EXTENDS Credits, FiniteSets

CONSTANTS
    Sends,         \* requests to POST /v1/send
    Ghost,         \* a contact at the mail domain that is nobody's address
    MaxElsewhere   \* bound: credits of one agent the inbound webhook takes

ASSUME OutboundAssumption ==
    /\ IsFiniteSet(Sends)
    /\ Ghost \notin Agents /\ Nobody \notin Contacts
    /\ MaxElsewhere \in Nat

VARIABLES
    pc,         \* where each request is
    req,        \* its sender, the contact it read, whether it has attachments, what it paid
    mailed,     \* requests whose mail Resend accepted
    outbox,     \* the sender's copy in the messages table
    inbox,      \* the recipient's copy in the messages table
    elsewhere,  \* credits of each agent that the inbound webhook took
    crossed     \* <<s, a>>: a was charged between s's look at its balance and s's charge

requestVars == <<pc, req>>
copyVars == <<mailed, outbox, inbox>>
vars == <<accountVars, nonces, creditVars, requestVars, copyVars, elsewhere, crossed>>

(* Nothing attached, attachments that _validate_attachments decodes, or     *)
(* too many, too large, unnamed or undecodable ones.                        *)
Parcels == {"none", "good", "bad"}

Refusals == {"rate_limited", "pending_approval", "bad_attachment", "insufficient_credits",
             "no_recipient", "not_available", "recipient_inactive", "not_mutual",
             "recipient_broke"}
Answers == Refusals \cup {"sent", "delivered", "error"}
Waiting == {"recipient", "nonce", "mail", "charge", "book", "chargeTo", "bookTo",
            "out", "outFiles", "in", "inFiles", "tee"}

TypeOK ==
    /\ AccountsTypeOK /\ NonceTypeOK /\ CreditsTypeOK
    /\ pc \in [Sends -> {"new"} \cup Waiting \cup Answers]
    /\ req \in [Sends -> [from : Agents \cup {Nobody}, to : Contacts \cup {Nobody},
                          files : BOOLEAN, paid : BOOLEAN, paidTo : BOOLEAN]]
    /\ mailed \subseteq Sends
    /\ outbox \in [Sends -> {"none", "stored", "deleted"}]
    /\ inbox \in [Sends -> {"none", "stored", "deleted"}]
    /\ elsewhere \in [Agents -> 0..MaxElsewhere]
    /\ crossed \subseteq Sends \X Agents

Init ==
    /\ AccountsInit /\ NonceInit /\ CreditsInit
    /\ pc = [s \in Sends |-> "new"]
    /\ req = [s \in Sends |-> [from |-> Nobody, to |-> Nobody, files |-> FALSE,
                               paid |-> FALSE, paidTo |-> FALSE]]
    /\ mailed = {} /\ crossed = {}
    /\ outbox = [s \in Sends |-> "none"] /\ inbox = [s \in Sends |-> "none"]
    /\ elsewhere = [a \in Agents |-> 0]

Goto(s, p) == pc' = [pc EXCEPT ![s] = p]

(* The contact's address is at the mail domain.                             *)
Internal(c) == c \in Agents \cup {Ghost}

(* s has looked at a's balance, as its sender or as its recipient, and has  *)
(* yet to charge it.                                                        *)
Awaiting(s, a) ==
    \/ req[s].from = a /\ pc[s] \in {"recipient", "nonce", "mail", "charge"}
    \/ req[s].to = a /\ pc[s] \in {"charge", "book", "chargeTo"}

-----------------------------------------------------------------------------
(* Authentication, the rate limit, the one SELECT of the sender's row and   *)
(* all that is decided before the next await, the attachments included.     *)
Verdict(a, files) ==
    IF ~approved[a] THEN "pending_approval"
    ELSE IF files = "bad" THEN "bad_attachment"
    ELSE IF balance[a] < 1 THEN "insufficient_credits"
    ELSE IF Internal(contact[a]) THEN "recipient"
    ELSE IF nonceOn[a] THEN "nonce"
    ELSE "mail"

(* Mutant: the balance of the sender is not looked at.                      *)
AdmitUnchecked(s, a, files) ==
    /\ pc[s] = "new"
    /\ req' = [req EXCEPT ![s] = [@ EXCEPT !.from = a, !.to = contact[a],
                                           !.files = (files = "good")]]
    /\ Goto(s, IF Internal(contact[a]) THEN "recipient" ELSE IF nonceOn[a] THEN "nonce" ELSE "mail")
    /\ UNCHANGED <<accountVars, nonces, creditVars, copyVars, elsewhere, crossed>>

Admit(s, a, files) ==
    /\ pc[s] = "new"
    /\ req' = [req EXCEPT ![s] = [@ EXCEPT !.from = a, !.to = contact[a],
                                           !.files = (files = "good")]]
    /\ \E p \in {"rate_limited", Verdict(a, files)} : Goto(s, p)
    /\ UNCHANGED <<accountVars, nonces, creditVars, copyVars, elsewhere, crossed>>

(* Mutant: the sender pays before the recipient is looked at.               *)
ReadRecipientCharged(s) ==
    LET a == req[s].from IN
    /\ pc[s] = "recipient"
    /\ CanDeduct(a) /\ Deduct(a)
    /\ req' = [req EXCEPT ![s].paid = TRUE]
    /\ Goto(s, IF req[s].to = Ghost \/ ~approved[req[s].to] THEN "not_available" ELSE "book")
    /\ UNCHANGED <<accountVars, nonces, copyVars, elsewhere, crossed>>

(* The SELECT of the recipient's row, and the checks made on it.            *)
ReadRecipient(s) ==
    LET b == req[s].to IN
    /\ pc[s] = "recipient"
    /\ Goto(s, IF b = Ghost THEN "no_recipient"
               ELSE IF ~approved[b] THEN "not_available"
               ELSE IF ~active[b] THEN "recipient_inactive"
               ELSE IF contact[b] # req[s].from THEN "not_mutual"
               ELSE IF balance[b] < 1 THEN "recipient_broke"
               ELSE "charge")
    /\ UNCHANGED <<accountVars, nonces, creditVars, req, copyVars, elsewhere, crossed>>

IssueNonce(s) ==
    /\ pc[s] = "nonce"
    /\ \E n \in NonceIds : Generate(n, req[s].from)
    /\ Goto(s, "mail")
    /\ UNCHANGED <<accountVars, creditVars, req, copyVars, elsewhere, crossed>>

(* send_email: Resend takes the mail, or the daily cap drops it in silence. *)
SendMail(s) ==
    /\ pc[s] = "mail"
    /\ mailed' \in {mailed, mailed \cup {s}}
    /\ Goto(s, "charge")
    /\ UNCHANGED <<accountVars, nonces, creditVars, req, outbox, inbox, elsewhere, crossed>>

-----------------------------------------------------------------------------
(* The charges.  deduct_credit answers None when its UPDATE finds no        *)
(* credit; send_message goes on all the same.                               *)
AfterCharge(s) == IF Internal(req[s].to) THEN "chargeTo" ELSE "out"

(* Everyone else who has looked at a's balance and not charged it yet, and  *)
(* s itself where it is its own recipient.                                  *)
Cross(s, a) ==
    crossed' = crossed \cup
        {<<t, a>> : t \in {u \in Sends \ {s} : Awaiting(u, a)}
                           \cup {u \in {s} : pc[s] = "charge" /\ req[s].to = a}}

ChargeSender(s) ==
    LET a == req[s].from IN
    /\ pc[s] = "charge"
    /\ \/ /\ CanDeduct(a) /\ Deduct(a)
          /\ req' = [req EXCEPT ![s].paid = TRUE]
          /\ Cross(s, a)
          /\ Goto(s, "book")
       \/ /\ ~CanDeduct(a)
          /\ Goto(s, AfterCharge(s))
          /\ UNCHANGED <<creditVars, req, crossed>>
    /\ UNCHANGED <<accountVars, nonces, copyVars, elsewhere>>

BookSender(s) ==
    /\ pc[s] = "book"
    /\ BookDebit(req[s].from)
    /\ Goto(s, AfterCharge(s))
    /\ UNCHANGED <<accountVars, nonces, req, copyVars, elsewhere, crossed>>

ChargeRecipient(s) ==
    LET b == req[s].to IN
    /\ pc[s] = "chargeTo"
    /\ \/ /\ CanDeduct(b) /\ Deduct(b)
          /\ req' = [req EXCEPT ![s].paidTo = TRUE]
          /\ Cross(s, b)
          /\ Goto(s, "bookTo")
       \/ /\ ~CanDeduct(b)
          /\ Goto(s, "out")
          /\ UNCHANGED <<creditVars, req, crossed>>
    /\ UNCHANGED <<accountVars, nonces, copyVars, elsewhere>>

(* Mutant: both ledger rows are written for the sender.                     *)
BookRecipientOnSender(s) ==
    /\ pc[s] = "bookTo"
    /\ BookDebit(req[s].from)
    /\ Goto(s, "out")
    /\ UNCHANGED <<accountVars, nonces, req, copyVars, elsewhere, crossed>>

BookRecipient(s) ==
    /\ pc[s] = "bookTo"
    /\ BookDebit(req[s].to)
    /\ Goto(s, "out")
    /\ UNCHANGED <<accountVars, nonces, req, copyVars, elsewhere, crossed>>

-----------------------------------------------------------------------------
(* The copies, each followed by its attachments.  credits_remaining is an   *)
(* int in the response model, so that without a charge of the sender the    *)
(* handler ends in a validation error: 500, after everything was done.      *)
Answer(s) == IF ~req[s].paid THEN "error"
             ELSE IF Internal(req[s].to) THEN "delivered" ELSE "sent"

AfterOut(s) == IF Internal(req[s].to) THEN "in" ELSE Answer(s)

StoreOut(s) ==
    /\ pc[s] = "out"
    /\ outbox' = [outbox EXCEPT ![s] = "stored"]
    /\ Goto(s, IF req[s].files THEN "outFiles" ELSE AfterOut(s))
    /\ UNCHANGED <<accountVars, nonces, creditVars, req, mailed, inbox, elsewhere, crossed>>

(* _store_attachments: an INSERT whose message was deleted meanwhile breaks *)
(* its foreign key and raises: no step.                                     *)
FileOut(s) ==
    /\ pc[s] = "outFiles"
    /\ outbox[s] = "stored"
    /\ Goto(s, AfterOut(s))
    /\ UNCHANGED <<accountVars, nonces, creditVars, req, copyVars, elsewhere, crossed>>

StoreIn(s) ==
    /\ pc[s] = "in"
    /\ inbox' = [inbox EXCEPT ![s] = "stored"]
    /\ Goto(s, IF req[s].files THEN "inFiles" ELSE "tee")
    /\ UNCHANGED <<accountVars, nonces, creditVars, req, mailed, outbox, elsewhere, crossed>>

FileIn(s) ==
    /\ pc[s] = "inFiles"
    /\ inbox[s] = "stored"
    /\ Goto(s, "tee")
    /\ UNCHANGED <<accountVars, nonces, creditVars, req, copyVars, elsewhere, crossed>>

(* The copies to cc_email, whose failures are swallowed, and the answer.    *)
Tee(s) ==
    /\ pc[s] = "tee"
    /\ Goto(s, Answer(s))
    /\ UNCHANGED <<accountVars, nonces, creditVars, req, copyVars, elsewhere, crossed>>

Handler(s) ==
    \/ ReadRecipient(s) \/ IssueNonce(s) \/ SendMail(s)
    \/ ChargeSender(s) \/ BookSender(s) \/ ChargeRecipient(s) \/ BookRecipient(s)
    \/ StoreOut(s) \/ FileOut(s) \/ StoreIn(s) \/ FileIn(s) \/ Tee(s)

-----------------------------------------------------------------------------
(* The rest of the service: the webhook charges for a mail it lets in, the  *)
(* pages write the gate columns, and update_contact deletes the agent's     *)
(* messages before it does.                                                 *)
ReceiveElsewhere(a) ==
    /\ CanDeduct(a)
    /\ \A b \in Agents : elsewhere[b] < MaxElsewhere
    /\ balance' = [balance EXCEPT ![a] = @ - 1]
    /\ ledger' = [ledger EXCEPT ![a] = @ - 1]
    /\ elsewhere' = [elsewhere EXCEPT ![a] = @ + 1]
    /\ crossed' = crossed \cup {<<t, a>> : t \in {u \in Sends : Awaiting(u, a)}}
    /\ UNCHANGED <<accountVars, nonces, granted, unbooked, requestVars, copyVars>>

Settings ==
    /\ AccountsStep
    /\ UNCHANGED <<nonces, creditVars, requestVars, copyVars, elsewhere, crossed>>

Purged(box, sent, a) ==
    [s \in Sends |-> IF sent[s] = a /\ box[s] = "stored" THEN "deleted" ELSE box[s]]

PurgeMessages(o, a, c) ==
    /\ RebindRead(o, a, c)
    /\ outbox' = Purged(outbox, [s \in Sends |-> req[s].from], a)
    /\ inbox' = Purged(inbox, [s \in Sends |-> req[s].to], a)
    /\ UNCHANGED <<nonces, creditVars, requestVars, mailed, elsewhere, crossed>>

ChangeContact(o) ==
    /\ RebindWrite(o)
    /\ UNCHANGED <<nonces, creditVars, requestVars, copyVars, elsewhere, crossed>>

BurnOldNonces(o) ==
    /\ RebindDone(o)
    /\ DeleteNonces(op[o].agent)
    /\ UNCHANGED <<creditVars, requestVars, copyVars, elsewhere, crossed>>

Next ==
    \/ \E s \in Sends, a \in Agents, f \in Parcels : Admit(s, a, f)
    \/ \E s \in Sends : Handler(s)
    \/ \E a \in Agents : ReceiveElsewhere(a)
    \/ Settings
    \/ \E o \in Operators, a \in Agents, c \in Contacts : PurgeMessages(o, a, c)
    \/ \E o \in Operators : ChangeContact(o) \/ BurnOldNonces(o)

Spec == Init /\ [][Next]_vars
-----------------------------------------------------------------------------
PastSender(s) == pc[s] \in {"chargeTo", "bookTo", "out", "outFiles", "in", "inFiles", "tee",
                            "sent", "delivered", "error"}
PastRecipient(s) == /\ req[s].to \in Agents
                    /\ PastSender(s) /\ pc[s] \notin {"chargeTo", "bookTo"}

(* A letter goes free only in a race.  The balance is checked on a row read *)
(* awaits before the charge, and a charge that finds nothing is ignored;    *)
(* even so every request past a charge has paid it, on either side, unless  *)
(* another charge of the same agent fell between its own look at that       *)
(* balance and its own charge (for an agent that writes to itself, its own  *)
(* first charge may be that one).                                           *)
FreeOnlyInARace ==
    \A s \in Sends :
       /\ PastSender(s) => req[s].paid \/ <<s, req[s].from>> \in crossed
       /\ PastRecipient(s) => req[s].paidTo \/ <<s, req[s].to>> \in crossed

(* Every credit that left a balance is one side of one request, or a mail   *)
(* the webhook let in, and the ledger differs from the balance by exactly   *)
(* the charges whose second statement has not run.                          *)
MoneyAccounted ==
    \A a \in Agents :
       /\ balance[a] + elsewhere[a]
            + Cardinality({s \in Sends : req[s].from = a /\ req[s].paid})
            + Cardinality({s \in Sends : req[s].to = a /\ req[s].paidTo})
              = StartCredits
       /\ ledger[a]
            = balance[a] + Cardinality({s \in Sends : req[s].from = a /\ pc[s] = "book"})
                         + Cardinality({s \in Sends : req[s].to = a /\ pc[s] = "bookTo"})

(* An answer means what it says, whatever else ran meanwhile: a refusal     *)
(* left no charge, no mail and no copy on either side; any other answer,    *)
(* the error after a charge that found no credit included, left both copies *)
(* of an internal letter, or the one copy of a mail, but for those that a   *)
(* contact change deleted since.  Only a request that never answered may be *)
(* half done.                                                               *)
WholeOrNothing ==
    \A s \in Sends :
       /\ pc[s] \in Refusals =>
             /\ ~req[s].paid /\ ~req[s].paidTo /\ s \notin mailed
             /\ outbox[s] = "none" /\ inbox[s] = "none"
       /\ pc[s] \in {"sent", "delivered", "error"} =>
             /\ outbox[s] # "none"
             /\ (inbox[s] # "none") = Internal(req[s].to)
=============================================================================
