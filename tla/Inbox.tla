------------------------------- MODULE Inbox --------------------------------
(***************************************************************************)
(* GET /v1/inbox (get_inbox) for one agent, and the client that calls it.  *)
(*                                                                         *)
(* The handler selects the unread messages, marks them read, looks for     *)
(* their attachments and answers, suspending after each.  Meanwhile mail   *)
(* arrives, attachments are inserted after their message, other polls of   *)
(* the same agent do the same, and update_contact deletes everything, the  *)
(* attachments first and the messages in a second statement.  A message    *)
(* that was marked is never selected again, so it is now in the hands of   *)
(* that one request and of the client that waits for it.                   *)
(***************************************************************************)
EXTENDS Client, FiniteSets

CONSTANTS
    Messages, Polls,
    Heavy,              \* those of Messages that come with attachments
    Plain,              \* a message that is not encrypted
    Sealable,           \* those of Messages that a sender may encrypt
    StartTime, MaxTime, \* bounds of the clock, in steps
    MaxClearing,        \* bound: contact changes in flight
    MaxFailures         \* bound: polls that fail or lose their client, and contact
                        \* changes that break off

ASSUME InboxAssumption ==
    /\ StartTime \in Nat /\ MaxTime \in Nat /\ MaxClearing \in Nat /\ MaxFailures \in Nat
    /\ Heavy \subseteq Messages /\ Sealable \subseteq Messages
    /\ Plain \notin [sealed : Int, received : Int]

VARIABLES
    box,       \* rows of the messages table: none, unread, read, deleted
    filed,     \* messages whose attachments are in the table, all of them
    stripped,  \* messages there are that a contact change took attachments of
    clearing,  \* contact changes that have deleted the attachments and not the messages
    times,     \* of an encrypted message, when it was sealed and its created_at
    poll,      \* each poll: its await, the rows it selected, the attachments it saw,
               \* and, as history, what was answered and what was complete when it began
    secret,    \* the client has a TOTP secret
    handed,    \* messages the client gave to the agent
    bare,      \* of those, the ones it gave without the attachments they have
    refused,   \* messages the client discarded, with an alert to the contact
    lost,      \* messages marked by a poll whose answer nobody got
    failures, now

clientVars == <<secret, handed, bare, refused>>
messageVars == <<box, filed, stripped, clearing, times>>
vars == <<messageVars, poll, clientVars, lost, failures, now>>

TypeOK ==
    /\ box \in [Messages -> {"none", "unread", "read", "deleted"}]
    /\ filed \subseteq Heavy /\ stripped \subseteq Heavy \ filed
    /\ clearing \in 0..MaxClearing
    /\ times \in [Messages -> {Plain} \cup [sealed : Nat, received : Nat]]
    /\ poll \in [Polls -> [at : {"idle", "select", "mark", "parts", "answer"},
                           held : SUBSET Messages, seen : SUBSET Messages,
                           known : SUBSET Messages, settled : SUBSET Messages]]
    /\ secret \in BOOLEAN
    /\ handed \subseteq Messages /\ bare \subseteq handed
    /\ refused \subseteq Messages /\ lost \subseteq Messages
    /\ failures \in 0..MaxFailures /\ now \in Nat

NoPoll == [at |-> "idle", held |-> {}, seen |-> {}, known |-> {}, settled |-> {}]

Init ==
    /\ box = [m \in Messages |-> "none"]
    /\ filed = {} /\ stripped = {} /\ clearing = 0
    /\ times = [m \in Messages |-> Plain]
    /\ poll = [p \in Polls |-> NoPoll]
    /\ secret \in BOOLEAN
    /\ handed = {} /\ bare = {} /\ refused = {} /\ lost = {}
    /\ failures = 0 /\ now = StartTime

Stored(m) == box[m] \in {"unread", "read"}
At(p, a) == poll[p].at = a

-----------------------------------------------------------------------------
(* The webhook (or an internal delivery) stores a message, and then its     *)
(* attachments, unless it was deleted meanwhile.  A sender that shares the  *)
(* client's secret may have sealed it, some time before.                    *)
Store(m) ==
    /\ box[m] = "none"
    /\ box' = [box EXCEPT ![m] = "unread"]
    /\ \/ UNCHANGED times
       \/ /\ secret /\ m \in Sealable
          /\ \E s \in StartTime..now :
                times' = [times EXCEPT ![m] = [sealed |-> s, received |-> now]]
    /\ UNCHANGED <<filed, stripped, clearing, poll, clientVars, lost, failures, now>>

(* Mutant: attachment rows for a message that has none.                     *)
StoreAttachmentsOfAny(m) ==
    /\ m \in Messages \ (filed \cup stripped) /\ Stored(m)
    /\ filed' = filed \cup {m}
    /\ UNCHANGED <<box, stripped, clearing, times, poll, clientVars, lost, failures, now>>

(* The last of its attachments.  One that lost the first of them meanwhile  *)
(* is never whole.                                                          *)
StoreAttachments(m) ==
    /\ m \in Heavy \ (filed \cup stripped) /\ Stored(m)
    /\ filed' = filed \cup {m}
    /\ UNCHANGED <<box, stripped, clearing, times, poll, clientVars, lost, failures, now>>

(* update_contact, DELETE FROM attachments: those of all messages there     *)
(* are, and what is there of those still being inserted.                    *)
ClearAttachments ==
    /\ clearing < MaxClearing
    /\ clearing' = clearing + 1
    /\ filed' = {m \in filed : ~Stored(m)}
    /\ \E half \in SUBSET {m \in Heavy \ filed : Stored(m)} :
          stripped' = stripped \cup half \cup {m \in filed : Stored(m)}
    /\ UNCHANGED <<box, times, poll, clientVars, lost, failures, now>>

(* Its next statement, DELETE FROM messages, which takes along what was     *)
(* attached since (ON DELETE CASCADE).                                      *)
ClearMessages ==
    /\ clearing > 0
    /\ clearing' = clearing - 1
    /\ box' = [m \in Messages |-> IF Stored(m) THEN "deleted" ELSE box[m]]
    /\ filed' = {m \in filed : ~Stored(m)}
    /\ stripped' = {m \in stripped : ~Stored(m)}
    /\ UNCHANGED <<times, poll, clientVars, lost, failures, now>>

(* Or that statement raises, or the machine stops before it: the messages   *)
(* stay, without their attachments.                                         *)
BreakOff ==
    /\ clearing > 0 /\ failures < MaxFailures
    /\ clearing' = clearing - 1
    /\ failures' = failures + 1
    /\ UNCHANGED <<box, filed, stripped, times, poll, clientVars, lost, now>>

-----------------------------------------------------------------------------
(* A poll that passes the key and the rate limit; the heartbeat part of the *)
(* handler is module Heartbeat's.                                           *)
Begin(p) ==
    /\ At(p, "idle")
    /\ poll' = [poll EXCEPT ![p] = [NoPoll EXCEPT !.at = "select", !.settled = filed,
                                                   !.known = handed \cup refused]]
    /\ UNCHANGED <<messageVars, clientVars, lost, failures, now>>

(* Mutant: the SELECT joins the attachments table.                          *)
SelectJoined(p) ==
    LET unread == {m \in filed : box[m] = "unread"} IN
    /\ At(p, "select")
    /\ poll' = [poll EXCEPT ![p].at = IF unread = {} THEN "answer" ELSE "mark",
                            ![p].held = unread]
    /\ UNCHANGED <<messageVars, clientVars, lost, failures, now>>

(* The SELECT.  With no row there is nothing to mark or to look for.        *)
Select(p) ==
    LET unread == {m \in Messages : box[m] = "unread"} IN
    /\ At(p, "select")
    /\ poll' = [poll EXCEPT ![p].at = IF unread = {} THEN "answer" ELSE "mark",
                            ![p].held = unread]
    /\ UNCHANGED <<messageVars, clientVars, lost, failures, now>>

(* Mutants: every unread message of the agent is marked, whether it was     *)
(* selected or not; nothing is marked.                                      *)
MarkAllUnread(p) ==
    /\ At(p, "mark")
    /\ box' = [m \in Messages |-> IF box[m] = "unread" THEN "read" ELSE box[m]]
    /\ poll' = [poll EXCEPT ![p].at = "parts"]
    /\ UNCHANGED <<filed, stripped, clearing, times, clientVars, lost, failures, now>>
MarkNothing(p) ==
    /\ At(p, "mark")
    /\ poll' = [poll EXCEPT ![p].at = "parts"]
    /\ UNCHANGED <<messageVars, clientVars, lost, failures, now>>

(* The UPDATE, by the ids that were selected.                               *)
Mark(p) ==
    /\ At(p, "mark")
    /\ box' = [m \in Messages |-> IF m \in poll[p].held /\ Stored(m) THEN "read" ELSE box[m]]
    /\ poll' = [poll EXCEPT ![p].at = "parts"]
    /\ UNCHANGED <<filed, stripped, clearing, times, clientVars, lost, failures, now>>

(* Mutant: it only looks at messages that are still unread.                 *)
FetchAttachmentsOfUnread(p) ==
    /\ At(p, "parts")
    /\ poll' = [poll EXCEPT ![p].at = "answer",
                            ![p].seen = {m \in poll[p].held \cap filed : box[m] = "unread"}]
    /\ UNCHANGED <<messageVars, clientVars, lost, failures, now>>

(* _get_attachments_for_messages.                                           *)
FetchAttachments(p) ==
    /\ At(p, "parts")
    /\ poll' = [poll EXCEPT ![p].at = "answer", ![p].seen = poll[p].held \cap filed]
    /\ UNCHANGED <<messageVars, clientVars, lost, failures, now>>

(* What SixelClient.poll makes of a message.                                *)
Readable(m) ==
    secret => times[m] # Plain /\ Opens(times[m].sealed, times[m].received, now)

(* The answer reaches the client: what it can read goes to the agent, for   *)
(* each of the others it sends an alert.                                    *)
Answer(p) ==
    LET good == {m \in poll[p].held : Readable(m)} IN
    /\ At(p, "answer")
    /\ handed' = handed \cup good
    /\ bare' = (bare \cup (good \cap Heavy)) \ poll[p].seen
    /\ refused' = refused \cup (poll[p].held \ good)
    /\ poll' = [poll EXCEPT ![p] = NoPoll]
    /\ UNCHANGED <<messageVars, secret, lost, failures, now>>

Handler(p) == Select(p) \/ Mark(p) \/ FetchAttachments(p) \/ Answer(p)

(* An await of the handler raises, its machine stops, or the client has     *)
(* stopped waiting: what the poll had marked is read and goes nowhere.      *)
Fail(p) ==
    /\ ~At(p, "idle") /\ failures < MaxFailures
    /\ failures' = failures + 1
    /\ lost' = IF poll[p].at \in {"parts", "answer"} THEN lost \cup poll[p].held ELSE lost
    /\ poll' = [poll EXCEPT ![p] = NoPoll]
    /\ UNCHANGED <<messageVars, clientVars, now>>

(* GET /v1/inbox/{id} and its attachments: an agent that has the id can     *)
(* still ask for what the poll did not show.                                *)
GetMessage(m) ==
    /\ m \in bare /\ m \in filed /\ Stored(m)
    /\ bare' = bare \ {m}
    /\ UNCHANGED <<messageVars, poll, secret, handed, refused, lost, failures, now>>

(* The clock, which only a client with a secret reads.                      *)
Tick ==
    /\ secret /\ now < MaxTime
    /\ now' = now + 1
    /\ UNCHANGED <<messageVars, poll, clientVars, lost, failures>>

Next ==
    \/ \E m \in Messages : Store(m) \/ StoreAttachments(m) \/ GetMessage(m)
    \/ ClearAttachments \/ ClearMessages \/ BreakOff
    \/ \E p \in Polls : Begin(p) \/ Handler(p) \/ Fail(p)
    \/ Tick

Spec == Init /\ [][Next]_vars

(* asyncio runs the handlers that are ready, and the agent polls again and  *)
(* again, as the loop in the documentation of the client does.              *)
FairSpec ==
    /\ Spec
    /\ \A p \in Polls : WF_vars(Handler(p)) /\ WF_vars(Begin(p))
-----------------------------------------------------------------------------
(* Polls that have taken messages out of the inbox and not answered yet.    *)
Carries(p, m) == poll[p].at \in {"parts", "answer"} /\ m \in poll[p].held

(* Nothing vanishes: a message that is no longer unread is on its way with  *)
(* a live poll, or the client had it, or it was with a poll that failed, or *)
(* the contact was changed.  A message that arrives between the SELECT and  *)
(* the UPDATE of any poll stays unread.                                     *)
NothingVanishes ==
    \A m \in Messages :
       box[m] = "read" => \/ m \in handed \cup refused \cup lost
                          \/ \E p \in Polls : Carries(p, m)

(* A message that one poll returned is not returned by a poll that began    *)
(* after that.  (Two that overlap may both return it.)                      *)
NotTwice ==
    \A p \in Polls : poll[p].held \cap poll[p].known = {}

(* An answer lacks attachments that were in the table when its poll began   *)
(* only if a contact change has deleted them since, or their message.       *)
(* (The first without the second is the state between the two DELETEs of    *)
(* update_contact, and a lasting one if the second failed.)                 *)
CompleteWhenSettled ==
    \A p \in Polls, m \in Messages :
       /\ At(p, "answer") /\ m \in poll[p].held /\ m \in poll[p].settled
       => m \in poll[p].seen \/ m \in stripped \/ box[m] = "deleted"

(* The client refuses a message only for a reason: it is not encrypted, or  *)
(* it was sealed longer ago than the window.  The midnight between the      *)
(* sealing and the poll is none.                                            *)
RefusedForAReason ==
    [][\A m \in refused' \ refused : times[m] = Plain \/ now - times[m].sealed > TotpWindow]_vars

(* As long as the agent polls, every message that is stored leaves the      *)
(* inbox in the end, to the agent, as a refusal, or lost to a failure.      *)
InboxDrains ==
    \A m \in Messages :
       (box[m] = "unread") ~> (m \in handed \cup refused \cup lost \/ box[m] = "deleted")
=============================================================================
