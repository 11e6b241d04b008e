-------------------------------- MODULE Edge --------------------------------
(***************************************************************************)
(* The mail address of an agent at the edge: the pages that keep a copy of *)
(* the agent's contact, nonce switch and approval in Cloudflare KV, and    *)
(* the Email Worker, which admits mail by that copy before the webhook     *)
(* judges it by the row.  The webhook repeats the Worker's checks and adds *)
(* its own, on what KV has no copy of: the kill switch, here as one more   *)
(* column, and the nonce, the credit and the limits, whose outcome is left *)
(* open here (they are module Inbound's).                                  *)
(*                                                                         *)
(* Every such page reads the row, writes one column and then pushes a      *)
(* whole value made of what it read and what it wrote.  A push that fails  *)
(* is logged and forgotten.  One address is enough to see what two pages   *)
(* can do to each other; it may be deleted and signed up for again.        *)
(***************************************************************************)
EXTENDS Naturals

CONSTANTS
    Pages,      \* page requests in flight
    Mails,      \* e-mails to the address
    Contacts,
    Nothing,    \* no row, no KV value, no page
    MaxRows,    \* bound: times the address is signed up for
    MaxLost     \* bound: pushes that fail, pages that stop, webhooks that fail

ASSUME EdgeAssumption ==
    /\ Nothing \notin Pages
    /\ Nothing \notin [contact : Contacts, nonce : BOOLEAN, approved : BOOLEAN]
    /\ MaxRows \in Nat /\ MaxLost \in Nat

VARIABLES
    row,       \* the address's row, as far as KV copies it, or Nothing
    active,    \* the row's channel_active, which is never pushed
    rows,      \* rows there have been; the number of the last one is its id
    kv,        \* the KV value, or Nothing
    page,      \* each page: its await, the row it is for, what it writes and will push
    mail,      \* each mail: how far it got, and its sender
    losses,
    solo,      \* the page that has been the only one since it began, or Nothing
    settled,   \* the last page to run was alone and its push went through
    excused    \* mails that met the service while pages were at work or had crossed

storeVars == <<row, active, rows, kv>>
vars == <<storeVars, page, mail, losses, solo, settled, excused>>

Values == [contact : Contacts, nonce : BOOLEAN, approved : BOOLEAN]
Writes == {"contact", "nonce", "approved", "create", "delete"}
MailPlaces == {"none", "sent", "bounced", "forwarded",   \* at the Worker
               "refused",                                \* by a check the Worker made too
               "dropped", "stopped", "replied", "stored", \* by what it does besides
               "lost"}
IdlePage == [at |-> "idle", id |-> 0, what |-> "create", image |-> Nothing]

TypeOK ==
    /\ row \in Values \cup {Nothing} /\ kv \in Values \cup {Nothing}
    /\ active \in BOOLEAN /\ rows \in 0..MaxRows
    /\ page \in [Pages -> [at : {"idle", "write", "push"}, id : 0..MaxRows, what : Writes,
                           image : Values \cup {Nothing}]]
    /\ \A p \in Pages : page[p].at # "idle" =>
          page[p].id \in 1..rows /\ (page[p].image = Nothing) = (page[p].what = "delete")
    /\ mail \in [Mails -> [at : MailPlaces, from : Contacts \cup {Nothing}]]
    /\ losses \in 0..MaxLost
    /\ solo \in Pages \cup {Nothing} /\ settled \in BOOLEAN /\ excused \subseteq Mails

Init ==
    /\ row = Nothing /\ active = TRUE /\ rows = 0 /\ kv = Nothing
    /\ page = [p \in Pages |-> IdlePage]
    /\ mail = [m \in Mails |-> [at |-> "none", from |-> Nothing]]
    /\ losses = 0
    /\ solo = Nothing /\ settled = TRUE /\ excused = {}

Quiet == \A p \in Pages : page[p].at = "idle"
Forwarded == {m \in Mails : mail[m].at = "forwarded"}

-----------------------------------------------------------------------------
(* The pages.                                                               *)
Begins(p, at, what, image) ==
    /\ page[p].at = "idle"
    /\ page' = [page EXCEPT ![p] = [at |-> at, id |-> rows', what |-> what, image |-> image]]
    /\ solo' = IF Quiet THEN p ELSE Nothing
    /\ settled' = (settled /\ Quiet)
    /\ excused' = excused \cup Forwarded
    /\ UNCHANGED <<kv, mail, losses>>

(* Mutant: the new row has the id of the old one.                           *)
SignUpOldId(p, v) ==
    /\ row = Nothing /\ rows < MaxRows
    /\ row' = v /\ active' = TRUE /\ rows' = rows
    /\ v.approved
    /\ Begins(p, "push", "create", v)

(* create_agent: the INSERT, with the columns' defaults.                    *)
SignUp(p, v) ==
    /\ row = Nothing /\ rows < MaxRows
    /\ row' = v /\ active' = TRUE /\ rows' = rows + 1
    /\ v.approved
    /\ Begins(p, "push", "create", v)

(* The SELECT of a page that is about to set one column: enable_nonce,      *)
(* disable_nonce, set_contact, update_contact, the two link pages, the      *)
(* admin toggles, the contact form, and the bulk actions.                   *)
ReadRow(p, what, v) ==
    /\ row # Nothing
    /\ \A field \in {"contact", "nonce", "approved"} \ {what} : v[field] = row[field]
    /\ UNCHANGED <<row, active, rows>>
    /\ Begins(p, "write", what, v)

(* The SELECT of admin_delete_agent.                                        *)
ReadDoomed(p) ==
    /\ row # Nothing
    /\ UNCHANGED <<row, active, rows>>
    /\ Begins(p, "write", "delete", Nothing)

(* The UPDATE of the one column, or the DELETE.  A row that has been        *)
(* deleted meanwhile is not matched, and the page goes on.                  *)
WriteRow(p) ==
    LET g == page[p] IN
    /\ g.at = "write"
    /\ row' = IF row = Nothing \/ g.id # rows THEN row
              ELSE IF g.what = "delete" THEN Nothing
              ELSE [row EXCEPT ![g.what] = g.image[g.what]]
    /\ page' = [page EXCEPT ![p].at = "push"]
    /\ UNCHANGED <<active, rows, kv, mail, losses, solo, settled, excused>>

Ends(p, pushed) ==
    /\ page' = [page EXCEPT ![p] = IdlePage]
    /\ settled' = (pushed /\ solo = p)
    /\ solo' = IF solo = p THEN Nothing ELSE solo

(* Mutant: only the column that was written is pushed.                      *)
PushOneField(p) ==
    LET g == page[p] IN
    /\ g.at = "push"
    /\ kv' = IF g.what \in {"create", "delete"} \/ kv = Nothing THEN g.image
             ELSE [kv EXCEPT ![g.what] = g.image[g.what]]
    /\ Ends(p, TRUE)
    /\ UNCHANGED <<row, active, rows, mail, losses, excused>>

(* _sync_agent_to_kv puts the whole value, _delete_agent_from_kv removes it *)
Push(p) ==
    /\ page[p].at = "push"
    /\ kv' = page[p].image
    /\ Ends(p, TRUE)
    /\ UNCHANGED <<row, active, rows, mail, losses, excused>>

(* Cloudflare refuses the push, which nobody tries again, or the machine    *)
(* stops with the page unfinished.                                          *)
LosePush(p) ==
    /\ page[p].at # "idle" /\ losses < MaxLost
    /\ losses' = losses + 1
    /\ Ends(p, FALSE)
    /\ UNCHANGED <<storeVars, mail, excused>>

(* The channel is disabled and reactivated by pages of their own, which     *)
(* push nothing.                                                            *)
SetChannel ==
    /\ row # Nothing
    /\ active' = ~active
    /\ UNCHANGED <<row, rows, kv, page, mail, losses, solo, settled, excused>>

-----------------------------------------------------------------------------
(* A mail: the checks that the Worker makes, and the webhook again.         *)
Admits(v, from) == v # Nothing /\ v.approved /\ v.contact = from

SendIn(m, c) ==
    /\ mail[m].at = "none"
    /\ mail' = [mail EXCEPT ![m] = [at |-> "sent", from |-> c]]
    /\ UNCHANGED <<storeVars, page, losses, solo, settled, excused>>

(* Mutant: the approval is not looked at.                                   *)
EdgeLookupContactOnly(m) ==
    /\ mail[m].at = "sent"
    /\ mail' = [mail EXCEPT ![m].at = IF kv # Nothing /\ kv.contact = mail[m].from
                                      THEN "forwarded" ELSE "bounced"]
    /\ excused' = IF settled /\ Quiet THEN excused ELSE excused \cup {m}
    /\ UNCHANGED <<storeVars, page, losses, solo, settled>>

(* The lookup in KV: setReject, or on to the webhook.                       *)
EdgeLookup(m) ==
    /\ mail[m].at = "sent"
    /\ mail' = [mail EXCEPT ![m].at = IF Admits(kv, mail[m].from) THEN "forwarded" ELSE "bounced"]
    /\ excused' = IF settled /\ Quiet THEN excused ELSE excused \cup {m}
    /\ UNCHANGED <<storeVars, page, losses, solo, settled>>

(* What the row makes of a mail, in the order of the code.  One that passes *)
(* all four checks is stored, or it bears the all-stop key and stops the    *)
(* channel, or it is a knock or comes with an expired nonce and is answered *)
(* with a fresh one, if the row asks for nonces; or a wrong nonce or key, a *)
(* missing credit or a full window drop it without a word.                  *)
Outcomes(from) ==
    IF row = Nothing \/ ~row.approved THEN {"refused"}
    ELSE IF ~active                   THEN {"dropped"}
    ELSE IF ~Admits(row, from)        THEN {"refused"}
    ELSE {"stored", "stopped", "dropped"} \cup {fate \in {"replied"} : row.nonce}

(* The Worker ignores what the response says, so that a mail the webhook    *)
(* does not keep has been accepted, and unless it is replied to is never    *)
(* heard of again.                                                          *)
Webhook(m) ==
    /\ mail[m].at = "forwarded"
    /\ \E fate \in Outcomes(mail[m].from) :
          /\ mail' = [mail EXCEPT ![m].at = fate]
          /\ active' = (active /\ fate # "stopped")
    /\ UNCHANGED <<row, rows, kv, page, losses, solo, settled, excused>>

(* The webhook answers 500, or cannot be reached: fetch raises and the      *)
(* Worker rejects the mail after all.                                       *)
WebhookFails(m) ==
    /\ mail[m].at = "forwarded" /\ losses < MaxLost
    /\ losses' = losses + 1
    /\ \E fate \in {"lost", "bounced"} : mail' = [mail EXCEPT ![m].at = fate]
    /\ UNCHANGED <<storeVars, page, solo, settled, excused>>

Next ==
    \/ \E p \in Pages, v \in Values : SignUp(p, v)
    \/ \E p \in Pages, what \in {"contact", "nonce", "approved"}, v \in Values : ReadRow(p, what, v)
    \/ \E p \in Pages : ReadDoomed(p) \/ WriteRow(p) \/ Push(p) \/ LosePush(p)
    \/ SetChannel
    \/ \E m \in Mails, c \in Contacts : SendIn(m, c)
    \/ \E m \in Mails : EdgeLookup(m) \/ Webhook(m) \/ WebhookFails(m)

Spec == Init /\ [][Next]_vars
-----------------------------------------------------------------------------
(* KV agrees with the row whenever no page is at work and the last one to   *)
(* run did so alone and got its push through: a page that runs alone        *)
(* repairs whatever pages that crossed, lost pushes and stopped pages left, *)
(* an entry of a deleted agent included.                                    *)
AgreesWhenSettled == Quiet /\ settled => kv = row

(* A mail that passed the Worker's checks on KV (the agent is known, is     *)
(* approved, has this contact) fails the same checks of the webhook on the  *)
(* row only if pages were at work, or had left KV unsettled, at some moment *)
(* between the two.  Nothing is said of what the webhook checks alone: the  *)
(* channel, nonces, credits and limits silently drop accepted mail whatever *)
(* KV says, and a webhook that fails may lose it.                           *)
ChecksDifferOnlyInARace == \A m \in Mails : mail[m].at = "refused" => m \in excused
=============================================================================
