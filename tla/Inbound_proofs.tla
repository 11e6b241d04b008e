--------------------------- MODULE Inbound_proofs ---------------------------
(***************************************************************************)
(* Proofs about the inbound webhook, for every number of agents, POSTs and *)
(* nonces, every knock limit and every interleaving of handlers and pages. *)
(***************************************************************************)
EXTENDS Inbound, FiniteSetTheorems, TLAPS

(* Every page of the account side keeps the columns typed.                  *)
LEMMA AccountsTyped ==
    ASSUME AccountsTypeOK,
           \/ AccountsStep
           \/ \E o \in Operators, a \in Agents, c \in Contacts : RebindRead(o, a, c)
           \/ \E o \in Operators : RebindWrite(o) \/ RebindDone(o)
    PROVE  AccountsTypeOK'
<1> USE DEF AccountsTypeOK, NextOp, Pending
<1>0. ops < MaxOps /\ ops' = ops + 1 => ops' \in 0..MaxOps
  BY AccountsAssumption
<1>1. ASSUME NEW a \in Agents, SwitchNonce(a) \/ SetChannel(a) \/ SetApproval(a) \/ SetContact(a)
      PROVE  AccountsTypeOK'
  BY <1>0, <1>1 DEF SwitchNonce, SetChannel, SetApproval, SetContact
<1>2. ASSUME NEW o \in Operators, NEW k, NEW a \in Agents, NEW v, Starts(o, k, a, v),
             [kind |-> k, agent |-> a, to |-> v] \in Pending
      PROVE  op' \in [Operators -> {Idle} \cup Pending] /\ ops' \in 0..MaxOps
  BY <1>0, <1>2 DEF Starts
<1>3. ASSUME NEW o \in Operators, NEW a \in Agents, AllstopRead(o, a) PROVE AccountsTypeOK'
  BY <1>2, <1>3 DEF AllstopRead
<1>4. ASSUME NEW o \in Operators, NEW a \in Agents, ToggleRead(o, a) PROVE AccountsTypeOK'
  <2>1. active[a] \in BOOLEAN /\ approved[a] \in BOOLEAN
    OBVIOUS
  <2>2. CASE Starts(o, "channel", a, ~active[a])
    <3>1. [kind |-> "channel", agent |-> a, to |-> ~active[a]] \in Pending
      BY <2>1
    <3>2. QED
      BY <1>2, <1>4, <2>2, <3>1 DEF ToggleRead
  <2>3. CASE Starts(o, "approval", a, ~approved[a])
    <3>1. [kind |-> "approval", agent |-> a, to |-> ~approved[a]] \in Pending
      BY <2>1
    <3>2. QED
      BY <1>2, <1>4, <2>3, <3>1 DEF ToggleRead
  <2>4. QED
    BY <1>4, <2>2, <2>3 DEF ToggleRead
<1>5. ASSUME NEW o \in Operators, ColumnWrite(o) PROVE AccountsTypeOK'
  <2>1. op[o] \in Pending /\ op[o].kind \in {"allstop", "channel", "approval"}
    BY <1>5 DEF ColumnWrite
  <2>2. op[o].agent \in Agents /\ op[o].to \in BOOLEAN
    BY <2>1
  <2>3. op' \in [Operators -> {Idle} \cup Pending]
    BY <1>5 DEF ColumnWrite
  <2>4. active' \in [Agents -> BOOLEAN] /\ approved' \in [Agents -> BOOLEAN]
    BY <1>5, <2>2 DEF ColumnWrite
  <2>5. QED
    BY <1>5, <2>3, <2>4 DEF ColumnWrite
<1>6. ASSUME NEW o \in Operators, NEW a \in Agents, NEW c \in Contacts, RebindRead(o, a, c)
      PROVE  AccountsTypeOK'
  BY <1>2, <1>6 DEF RebindRead
<1>7. ASSUME NEW o \in Operators, RebindWrite(o) PROVE AccountsTypeOK'
  <2>1. op[o] \in Pending /\ op[o].kind = "rebind"
    BY <1>7 DEF RebindWrite
  <2>2. op[o].agent \in Agents /\ op[o].to \in Contacts
    BY <2>1
  <2>3. op[o] \in [kind : {"rebind", "burn"}, agent : Agents, to : Contacts]
    BY <2>1
  <2>4. [op[o] EXCEPT !.kind = "burn"] \in Pending
    BY <2>3
  <2>5. op' = [op EXCEPT ![o] = [op[o] EXCEPT !.kind = "burn"]]
    BY <1>7 DEF RebindWrite
  <2>6. op' \in [Operators -> {Idle} \cup Pending]
    BY <2>4, <2>5
  <2>7. contact' \in [Agents -> Contacts]
    BY <1>7, <2>2 DEF RebindWrite
  <2>8. QED
    BY <1>7, <2>6, <2>7 DEF RebindWrite
<1>8. ASSUME NEW o \in Operators, RebindDone(o) PROVE AccountsTypeOK'
  BY <1>8 DEF RebindDone
<1>9. QED
  BY <1>1, <1>3, <1>4, <1>5, <1>6, <1>7, <1>8 DEF AccountsStep

(* The nonce statements keep the table typed.                               *)
LEMMA NoncesTyped ==
    ASSUME NonceTypeOK,
           \/ \E n \in NonceIds, a \in Agents : Generate(n, a)
           \/ \E n \in NonceIds, r \in Requests : BurnValid(n, r) \/ BurnExpired(n, r)
           \/ \E n \in NonceIds : PassExpiry(n)
           \/ \E a \in Agents : DeleteNonces(a)
    PROVE  NonceTypeOK'
<1> DEFINE Row == [st : {"unborn", "live", "stale", "used", "lapsed", "deleted"},
                   owner : Agents \cup {Nobody}, by : Requests \cup {Nobody}]
<1>1. nonces \in [NonceIds -> Row]
  BY DEF NonceTypeOK
<1>2. ASSUME NEW n \in NonceIds, NEW row \in Row, nonces' = [nonces EXCEPT ![n] = row]
      PROVE  NonceTypeOK'
  BY <1>1, <1>2 DEF NonceTypeOK
<1>3. ASSUME NEW n \in NonceIds, NEW a \in Agents, Generate(n, a) PROVE NonceTypeOK'
  BY <1>2, <1>3 DEF Generate
<1>4. ASSUME NEW n \in NonceIds, NEW r \in Requests, NEW s \in {"used", "lapsed"},
             nonces' = [nonces EXCEPT ![n] = [@ EXCEPT !.st = s, !.by = r]]
      PROVE  NonceTypeOK'
  <2>1. nonces[n] \in Row
    BY <1>1
  <2>2. [nonces[n] EXCEPT !.st = s, !.by = r] \in Row
    BY <2>1
  <2>3. nonces' = [nonces EXCEPT ![n] = [nonces[n] EXCEPT !.st = s, !.by = r]]
    BY <1>1, <1>4
  <2>4. QED
    BY <1>2, <2>2, <2>3
<1>5. ASSUME NEW n \in NonceIds, PassExpiry(n) PROVE NonceTypeOK'
  BY <1>1, <1>5 DEF PassExpiry, NonceTypeOK
<1>6. ASSUME NEW a \in Agents, DeleteNonces(a) PROVE NonceTypeOK'
  BY <1>1, <1>6 DEF DeleteNonces, NonceTypeOK
<1>7. QED
  BY <1>3, <1>4, <1>5, <1>6 DEF BurnValid, BurnExpired

(* The statements on the balance and on the ledger keep them typed.  The    *)
(* balance stays a natural number because the UPDATE is conditional.        *)
LEMMA CreditsTyped ==
    ASSUME CreditsTypeOK, NEW a \in Agents,
           (CanDeduct(a) /\ Deduct(a)) \/ BookDebit(a) \/ AddCredit(a) \/ BookGrant(a)
    PROVE  CreditsTypeOK'
<1> USE DEF CreditsTypeOK
<1>1. CASE CanDeduct(a) /\ Deduct(a)
  BY <1>1 DEF CanDeduct, Deduct
<1>2. CASE BookDebit(a)
  BY <1>2 DEF BookDebit
<1>3. CASE AddCredit(a)
  BY <1>3, CreditsAssumption DEF AddCredit
<1>4. CASE BookGrant(a)
  BY <1>4, CreditsAssumption DEF BookGrant
<1>5. QED
  BY <1>1, <1>2, <1>3, <1>4

-----------------------------------------------------------------------------
ReqType == [to : Agents \cup {Nobody}, tok : Tokens, door : BOOLEAN, fresh : NonceIds \cup {NoTok}]

(* TypeOK is not inductive alone: what send_email puts into a Reply-To is a *)
(* nonce because generate_nonce ran in the same POST just before.           *)
HasFresh == \A r \in Requests : pc[r] = "reply" => req[r].fresh \in NonceIds

Typed == TypeOK /\ HasFresh

(* One POST moves on: what its new position and its new record must satisfy *)
(* for the handler's variables to stay typed.                               *)
LEMMA Moved ==
    ASSUME Typed, NEW r \in Requests, NEW p \in Waiting \cup Answers, NEW v \in ReqType,
           pc' = [pc EXCEPT ![r] = p], req' = [req EXCEPT ![r] = v],
           p = "reply" => v.fresh \in NonceIds
    PROVE  /\ pc' \in [Requests -> {"new"} \cup Waiting \cup Answers]
           /\ req' \in [Requests -> ReqType]
           /\ HasFresh'
<1>1. pc \in [Requests -> {"new"} \cup Waiting \cup Answers] /\ req \in [Requests -> ReqType]
  BY DEF Typed, TypeOK, ReqType
<1>2. pc' \in [Requests -> {"new"} \cup Waiting \cup Answers]
  BY <1>1
<1>3. req' \in [Requests -> ReqType]
  BY <1>1
<1>4. HasFresh'
  <2>1. SUFFICES ASSUME NEW q \in Requests, pc'[q] = "reply" PROVE req'[q].fresh \in NonceIds
    BY DEF HasFresh
  <2>2. CASE q = r
    BY <1>1, <2>1, <2>2
  <2>3. CASE q # r
    BY <1>1, <2>1, <2>3 DEF Typed, HasFresh
  <2>4. QED
    BY <2>2, <2>3
<1>5. QED
  BY <1>2, <1>3, <1>4

(* The same when the record stays as it is.                                 *)
LEMMA Advanced ==
    ASSUME Typed, NEW r \in Requests, NEW p \in Waiting \cup Answers,
           pc' = [pc EXCEPT ![r] = p], req' = req, p # "reply"
    PROVE  /\ pc' \in [Requests -> {"new"} \cup Waiting \cup Answers]
           /\ req' \in [Requests -> ReqType]
           /\ HasFresh'
  BY DEF Typed, TypeOK, HasFresh, ReqType

(* What a knock does: one more timestamp or none, and one of two positions. *)
LEMMA Knocked ==
    ASSUME Typed, NEW a \in Agents, NEW r, NEW l \in Answers, Knock(a, r, l)
    PROVE  /\ knocks' \in [Agents -> 0..KnockLimit]
           /\ dead' = dead
           /\ \E p \in {"issue", l} : pc' = [pc EXCEPT ![r] = p]
  BY InboundAssumption DEF Typed, TypeOK, Knock, Goto

(* One SelectAgent: a new record, and a first position that is no reply.    *)
LEMMA SelectTyped ==
    ASSUME Typed, NEW r \in Requests, NEW a \in Agents, NEW c \in Contacts,
           NEW t \in {NoTok, Forged, StopKey, BadKey} \cup mailed, SelectAgent(r, a, c, t)
    PROVE  Typed'
<1>1. PICK p \in (Waiting \cup Answers) \ {"reply"} : pc' = [pc EXCEPT ![r] = p]
  <2>1. Gate(a, c) \in Answers \cup {"open"}
    BY DEF Gate, Answers
  <2>2. CASE Gate(a, c) # "open"
    BY <2>1, <2>2 DEF SelectAgent, Goto, Answers
  <2>3. CASE Gate(a, c) = "open"
    BY <2>3, Knocked DEF SelectAgent, Goto, Answers, Waiting
  <2>4. QED
    BY <2>2, <2>3
<1>2. knocks' \in [Agents -> 0..KnockLimit] /\ dead' = dead
  BY Knocked DEF SelectAgent, Goto, Typed, TypeOK, Answers
<1>3. [to |-> a, tok |-> t, door |-> nonceOn[a], fresh |-> NoTok] \in ReqType
  BY DEF ReqType, Typed, TypeOK, Tokens, AccountsTypeOK
<1>4. /\ pc' \in [Requests -> {"new"} \cup Waiting \cup Answers]
      /\ req' \in [Requests -> ReqType]
      /\ HasFresh'
  BY <1>1, <1>3, Moved DEF SelectAgent
<1>5. AccountsTypeOK' /\ NonceTypeOK' /\ CreditsTypeOK'
  BY DEF SelectAgent, Typed, TypeOK, AccountsTypeOK, accountVars, NonceTypeOK, CreditsTypeOK,
         creditVars
<1>6. dead' \subseteq Requests /\ messages' \subseteq Requests /\ mailed' \subseteq NonceIds
  BY <1>2 DEF SelectAgent, Typed, TypeOK
<1>7. QED
  BY <1>2, <1>4, <1>5, <1>6 DEF Typed, TypeOK, ReqType

(* A POST whose SELECT found a row has a recipient.                         *)
Addressed == \A r \in Requests : pc[r] # "new" => req[r].to \in Agents

(* Every later step of the handler keeps the state typed.                   *)
LEMMA HandlerTyped ==
    ASSUME Typed, Addressed, NEW r \in Requests, Handler(r)
    PROVE  Typed'
<1> DEFINE Same == /\ UNCHANGED <<messages, knocks, mailed>>
           MovedOn == /\ pc' \in [Requests -> {"new"} \cup Waiting \cup Answers]
                      /\ req' \in [Requests -> ReqType]
                      /\ HasFresh'
<1>1. /\ AccountsTypeOK /\ NonceTypeOK /\ CreditsTypeOK
      /\ knocks \in [Agents -> 0..KnockLimit]
      /\ dead \subseteq Requests /\ messages \subseteq Requests /\ mailed \subseteq NonceIds
      /\ req[r] \in ReqType
      /\ HasFresh
  BY DEF Typed, TypeOK, ReqType
<1>2. UNCHANGED accountVars => AccountsTypeOK'
  BY <1>1 DEF AccountsTypeOK, accountVars
<1>3. UNCHANGED nonces => NonceTypeOK'
  BY <1>1 DEF NonceTypeOK
<1>4. UNCHANGED creditVars => CreditsTypeOK'
  BY <1>1 DEF CreditsTypeOK, creditVars
<1>5. ASSUME Same, dead' = dead
      PROVE  /\ knocks' \in [Agents -> 0..KnockLimit] /\ dead' \subseteq Requests
             /\ messages' \subseteq Requests /\ mailed' \subseteq NonceIds
  BY <1>1, <1>5
<1>6. ASSUME NEW p, At(r, p), p # "new" PROVE req[r].to \in Agents
  BY <1>6 DEF Addressed, At
<1>7. ASSUME AccountsTypeOK', NonceTypeOK', CreditsTypeOK', MovedOn,
             knocks' \in [Agents -> 0..KnockLimit], dead' = dead,
             messages' \subseteq Requests, mailed' \subseteq NonceIds
      PROVE  Typed'
  BY <1>1, <1>7 DEF Typed, TypeOK, ReqType
<1>8. CASE Stop(r)
  <2>1. AccountsTypeOK'
    BY <1>1, <1>6, <1>8 DEF Stop, AccountsTypeOK
  <2>2. MovedOn
    BY <1>8, Advanced DEF Stop, Goto, Answers
  <2>3. QED
    BY <1>1, <1>3, <1>4, <1>5, <1>7, <1>8, <2>1, <2>2 DEF Stop, Goto
<1>9. CASE Validate(r)
  <2>1. NonceTypeOK'
    BY <1>1, <1>9, NoncesTyped DEF Validate, Validates, NonceTypeOK
  <2>2. MovedOn
    BY <1>9, Advanced DEF Validate, Goto, Answers, Waiting
  <2>3. QED
    BY <1>1, <1>2, <1>4, <1>5, <1>7, <1>9, <2>1, <2>2 DEF Validate, Goto
<1>10. CASE CheckExpired(r)
  <2>1. NonceTypeOK'
    BY <1>1, <1>10, NoncesTyped DEF CheckExpired, Expired, NonceTypeOK
  <2>2. req[r].to \in Agents
    BY <1>6, <1>10 DEF CheckExpired
  <2>3. PICK p \in {"issue", "bounce_rate_limited", "invalid_nonce"} :
           pc' = [pc EXCEPT ![r] = p] /\ dead' = dead /\ knocks' \in [Agents -> 0..KnockLimit]
    <3>1. CASE Knock(req[r].to, r, "bounce_rate_limited")
      BY <2>2, <3>1, Knocked DEF Answers
    <3>2. CASE Goto(r, "invalid_nonce") /\ UNCHANGED knocks
      BY <1>1, <3>2 DEF Goto
    <3>3. QED
      BY <1>10, <3>1, <3>2 DEF CheckExpired
  <2>4. MovedOn
    BY <1>10, <2>3, Advanced DEF CheckExpired, Answers, Waiting
  <2>5. QED
    BY <1>1, <1>2, <1>4, <1>7, <1>10, <2>1, <2>3, <2>4 DEF CheckExpired
<1>11. CASE GenerateNonce(r)
  <2>1. PICK n \in NonceIds : Generate(n, req[r].to) /\ req' = [req EXCEPT ![r].fresh = n]
    BY <1>11 DEF GenerateNonce
  <2>2. NonceTypeOK'
    BY <1>1, <1>6, <1>11, <2>1, NoncesTyped DEF GenerateNonce
  <2>3. [req[r] EXCEPT !.fresh = n] \in ReqType /\ [req[r] EXCEPT !.fresh = n].fresh = n
    BY <1>1 DEF ReqType
  <2>4. req' = [req EXCEPT ![r] = [req[r] EXCEPT !.fresh = n]]
    BY <2>1
  <2>5. pc' = [pc EXCEPT ![r] = "reply"] /\ "reply" \in Waiting
    BY <1>11 DEF GenerateNonce, Goto, Waiting
  <2>6. MovedOn
    BY <2>3, <2>4, <2>5, Moved
  <2>7. QED
    BY <1>1, <1>2, <1>4, <1>5, <1>7, <1>11, <2>2, <2>6 DEF GenerateNonce, Goto
<1>12. CASE SendReply(r)
  <2>1. req[r].fresh \in NonceIds
    BY <1>1, <1>12 DEF SendReply, At, HasFresh
  <2>2. mailed' \subseteq NonceIds
    BY <1>1, <1>12, <2>1 DEF SendReply
  <2>3. MovedOn
    BY <1>12, Advanced DEF SendReply, Goto, Answers
  <2>4. QED
    BY <1>1, <1>2, <1>3, <1>4, <1>7, <1>12, <2>2, <2>3 DEF SendReply, Goto
<1>13. CASE DeductCredit(r)
  <2>1. CreditsTypeOK'
    BY <1>1, <1>4, <1>6, <1>13, CreditsTyped DEF DeductCredit
  <2>2. MovedOn
    BY <1>13, Advanced DEF DeductCredit, Goto, Answers, Waiting
  <2>3. QED
    BY <1>1, <1>2, <1>3, <1>5, <1>7, <1>13, <2>1, <2>2 DEF DeductCredit, Goto
<1>14. CASE BookCharge(r)
  <2>1. CreditsTypeOK'
    BY <1>1, <1>6, <1>14, CreditsTyped DEF BookCharge
  <2>2. MovedOn
    BY <1>14, Advanced DEF BookCharge, Goto, Waiting
  <2>3. QED
    BY <1>1, <1>2, <1>3, <1>5, <1>7, <1>14, <2>1, <2>2 DEF BookCharge, Goto
<1>15. CASE StoreMessage(r)
  <2>1. MovedOn
    BY <1>15, Advanced DEF StoreMessage, Goto, Waiting, Answers
  <2>2. QED
    BY <1>1, <1>2, <1>3, <1>4, <1>7, <1>15, <2>1 DEF StoreMessage, Goto
<1>16. CASE StoreAttachments(r)
  <2>1. MovedOn
    BY <1>16, Advanced DEF StoreAttachments, Goto, Answers
  <2>2. QED
    BY <1>1, <1>2, <1>3, <1>4, <1>5, <1>7, <1>16, <2>1 DEF StoreAttachments, Goto
<1>17. QED
  BY <1>8, <1>9, <1>10, <1>11, <1>12, <1>13, <1>14, <1>15, <1>16 DEF Handler

(* Everything that is neither the first step of a POST nor a later one: a   *)
(* failure, a restart, the clock, the pages, a grant, a stutter.            *)
LEMMA OthersTyped ==
    ASSUME Typed,
           \/ \E r \in Requests : Fail(r)
           \/ Restart
           \/ \E a \in Agents : WindowSlides(a) \/ Grant(a)
           \/ \E n \in NonceIds : Expire(n)
           \/ \E n \in NonceIds, a \in Agents : AgentMail(n, a)
           \/ Settings
           \/ \E o \in Operators, a \in Agents, c \in Contacts : PurgeMessages(o, a, c)
           \/ \E o \in Operators : ChangeContact(o) \/ BurnOldNonces(o)
           \/ UNCHANGED vars
    PROVE  Typed'
<1> DEFINE Quiet == UNCHANGED <<pc, req, mailed>>
<1>1. /\ AccountsTypeOK /\ NonceTypeOK /\ CreditsTypeOK
      /\ knocks \in [Agents -> 0..KnockLimit]
      /\ dead \subseteq Requests /\ messages \subseteq Requests
  BY DEF Typed, TypeOK
<1>2. UNCHANGED accountVars => AccountsTypeOK'
  BY <1>1 DEF AccountsTypeOK, accountVars
<1>3. UNCHANGED nonces => NonceTypeOK'
  BY <1>1 DEF NonceTypeOK
<1>4. UNCHANGED creditVars => CreditsTypeOK'
  BY <1>1 DEF CreditsTypeOK, creditVars
<1>5. ASSUME AccountsTypeOK', NonceTypeOK', CreditsTypeOK', Quiet,
             knocks' \in [Agents -> 0..KnockLimit], dead' \subseteq Requests,
             messages' \subseteq Requests
      PROVE  Typed'
  BY <1>5 DEF Typed, TypeOK, HasFresh
<1> USE DEF requestVars
<1>6. ASSUME NEW r \in Requests, Fail(r) PROVE Typed'
  BY <1>1, <1>2, <1>3, <1>4, <1>5, <1>6 DEF Fail
<1>7. ASSUME Restart PROVE Typed'
  BY <1>1, <1>2, <1>3, <1>4, <1>5, <1>7, InboundAssumption DEF Restart
<1>8. ASSUME NEW a \in Agents, WindowSlides(a) PROVE Typed'
  BY <1>1, <1>2, <1>3, <1>4, <1>5, <1>8, InboundAssumption DEF WindowSlides
<1>9. ASSUME NEW a \in Agents, Grant(a) PROVE Typed'
  <2>1. CreditsTypeOK'
    BY <1>1, <1>9, CreditsTyped DEF Grant
  <2>2. QED
    BY <1>1, <1>2, <1>3, <1>5, <1>9, <2>1 DEF Grant
<1>10. ASSUME NEW n \in NonceIds, Expire(n) PROVE Typed'
  <2>1. NonceTypeOK'
    BY <1>1, <1>10, NoncesTyped DEF Expire
  <2>2. QED
    BY <1>1, <1>2, <1>4, <1>5, <1>10, <2>1 DEF Expire
<1>11. ASSUME Settings PROVE Typed'
  <2>1. AccountsTypeOK'
    BY <1>1, <1>11, AccountsTyped DEF Settings
  <2>2. QED
    BY <1>1, <1>3, <1>4, <1>5, <1>11, <2>1 DEF Settings
<1>12. ASSUME NEW o \in Operators, NEW a \in Agents, NEW c \in Contacts, PurgeMessages(o, a, c)
       PROVE  Typed'
  <2>1. AccountsTypeOK'
    BY <1>1, <1>12, AccountsTyped DEF PurgeMessages
  <2>2. QED
    BY <1>1, <1>3, <1>4, <1>5, <1>12, <2>1 DEF PurgeMessages
<1>13. ASSUME NEW o \in Operators, ChangeContact(o) PROVE Typed'
  <2>1. AccountsTypeOK'
    BY <1>1, <1>13, AccountsTyped DEF ChangeContact
  <2>2. QED
    BY <1>1, <1>3, <1>4, <1>5, <1>13, <2>1 DEF ChangeContact
<1>14. ASSUME NEW o \in Operators, BurnOldNonces(o) PROVE Typed'
  <2>1. AccountsTypeOK'
    BY <1>1, <1>14, AccountsTyped DEF BurnOldNonces
  <2>2. op[o].agent \in Agents
    BY <1>1, <1>14 DEF BurnOldNonces, RebindDone, AccountsTypeOK, Pending
  <2>3. NonceTypeOK'
    BY <1>1, <1>14, <2>2, NoncesTyped DEF BurnOldNonces
  <2>4. QED
    BY <1>1, <1>4, <1>5, <1>14, <2>1, <2>3 DEF BurnOldNonces
<1>15. ASSUME UNCHANGED vars PROVE Typed'
  BY <1>1, <1>2, <1>3, <1>4, <1>5, <1>15 DEF vars
<1>16. ASSUME NEW n \in NonceIds, NEW a \in Agents, AgentMail(n, a) PROVE Typed'
  <2>1. NonceTypeOK'
    BY <1>1, <1>16, NoncesTyped DEF AgentMail
  <2>2. mailed' \subseteq NonceIds
    BY <1>16 DEF AgentMail, Typed, TypeOK
  <2>3. QED
    BY <1>1, <1>2, <1>4, <1>16, <2>1, <2>2 DEF AgentMail, Typed, TypeOK, HasFresh
<1>17. QED
  BY <1>6, <1>7, <1>8, <1>9, <1>10, <1>11, <1>12, <1>13, <1>14, <1>15, <1>16

(* What a step does to the part of the state the door depends on: the       *)
(* positions and records of the POSTs, the nonces, and which were mailed.   *)
Rest == UNCHANGED <<pc, req, nonces, mailed>>

Entered(r) == \E a \in Agents, t \in Tokens, p \in Waiting \cup Answers :
    /\ pc[r] = "new"
    /\ t \in NonceIds => t \in mailed
    /\ pc' = [pc EXCEPT ![r] = p]
    /\ req' = [req EXCEPT ![r] = [to |-> a, tok |-> t, door |-> nonceOn[a], fresh |-> NoTok]]
    /\ \/ p \in {"not_approved", "channel_inactive", "sender_not_allowed", "stop"}
       \/ p = "invalid_nonce" /\ t \notin NonceIds
       \/ p = "deduct" /\ ~nonceOn[a]
       \/ p = "validate"
       \/ p \in {"issue", "knock_rate_limited"} /\ t = NoTok
    /\ UNCHANGED <<nonces, mailed>>

Validated(r) == Validate(r) /\ UNCHANGED <<req, mailed>>

Checked(r) == \E p \in {"issue", "bounce_rate_limited", "invalid_nonce"} :
    /\ pc[r] = "expired"
    /\ pc' = [pc EXCEPT ![r] = p]
    /\ \/ /\ Expired(req[r].tok)
          /\ BurnExpired(req[r].tok, r)
          /\ \/ nonces[req[r].tok].owner = req[r].to /\ p # "invalid_nonce"
             \/ nonces[req[r].tok].owner # req[r].to /\ p = "invalid_nonce"
       \/ ~Expired(req[r].tok) /\ nonces' = nonces /\ p = "invalid_nonce"
    /\ UNCHANGED <<req, mailed>>

Generated(r) == \E n \in NonceIds :
    /\ pc[r] = "issue"
    /\ pc' = [pc EXCEPT ![r] = "reply"]
    /\ Generate(n, req[r].to)
    /\ req' = [req EXCEPT ![r].fresh = n]
    /\ UNCHANGED mailed

Replied(r) ==
    /\ pc[r] = "reply"
    /\ pc' = [pc EXCEPT ![r] = IF req[r].tok = NoTok THEN "knock_replied" ELSE "nonce_expired_bounced"]
    /\ mailed' \in {mailed, mailed \cup {req[r].fresh}}
    /\ UNCHANGED <<req, nonces>>

WentOn(r) == \E p \in Waiting \cup Answers :
    /\ <<pc[r], p>> \in {<<"stop", "channel_deactivated">>, <<"deduct", "insufficient_credits">>,
                         <<"deduct", "book">>, <<"book", "store">>, <<"store", "attach">>,
                         <<"store", "received">>, <<"attach", "received">>}
    /\ pc' = [pc EXCEPT ![r] = p]
    /\ UNCHANGED <<req, nonces, mailed>>

NoncesAged == /\ \/ \E n \in NonceIds : PassExpiry(n)
                 \/ \E a \in Agents : DeleteNonces(a)
              /\ UNCHANGED <<pc, req, mailed>>

Issued == \E n \in NonceIds, a \in Agents :
    /\ Generate(n, a)
    /\ mailed' \in {mailed, mailed \cup {n}}
    /\ UNCHANGED <<pc, req>>

(* The SELECT only gives the POST a record and a first position; its nonce, *)
(* if any, was mailed before.                                               *)
LEMMA EntersOnly ==
    ASSUME Typed, NEW r \in Requests, NEW a \in Agents, NEW c \in Contacts,
           NEW t \in {NoTok, Forged, StopKey, BadKey} \cup mailed, SelectAgent(r, a, c, t)
    PROVE  Entered(r)
<1>1. t \in Tokens /\ (t \in NonceIds => t \in mailed) /\ pc[r] = "new"
  BY InboundAssumption DEF SelectAgent, Typed, TypeOK, Tokens, At
<1>2. \E p \in Waiting \cup Answers :
         /\ pc' = [pc EXCEPT ![r] = p]
         /\ \/ p \in {"not_approved", "channel_inactive", "sender_not_allowed", "stop"}
            \/ p = "invalid_nonce" /\ t \notin NonceIds
            \/ p = "deduct" /\ ~nonceOn[a]
            \/ p = "validate"
            \/ p \in {"issue", "knock_rate_limited"} /\ t = NoTok
  <2>1. Gate(a, c) \in {"not_approved", "channel_inactive", "sender_not_allowed", "open"}
    BY DEF Gate
  <2>2. CASE Gate(a, c) # "open"
    BY <2>1, <2>2 DEF SelectAgent, Goto, Answers
  <2>3. CASE Gate(a, c) = "open"
    <3>1. CASE t = StopKey /\ Goto(r, "stop")
      BY <3>1 DEF Goto, Waiting
    <3>2. CASE t = BadKey /\ Goto(r, "invalid_nonce")
      BY <3>2, InboundAssumption DEF Goto, Answers
    <3>3. CASE ~nonceOn[a] /\ Goto(r, "deduct")
      BY <3>3 DEF Goto, Waiting
    <3>4. CASE Goto(r, "validate")
      BY <3>4 DEF Goto, Waiting
    <3>5. CASE t = NoTok /\ Knock(a, r, "knock_rate_limited")
      BY <3>5 DEF Knock, Goto, Waiting, Answers
    <3>6. QED
      BY <2>3, <3>1, <3>2, <3>3, <3>4, <3>5 DEF SelectAgent
  <2>4. QED
    BY <2>2, <2>3
<1>3. QED
  BY <1>1, <1>2 DEF Entered, SelectAgent

(* A later step of a POST validates, checks, issues, replies, or just goes  *)
(* on.                                                                      *)
LEMMA HandlerEffects ==
    ASSUME Typed, NEW r \in Requests, Handler(r)
    PROVE  Validated(r) \/ Checked(r) \/ Generated(r) \/ Replied(r) \/ WentOn(r)
<1> USE DEF At, Goto
<1>1. CASE Validate(r)
  BY <1>1 DEF Validated, Validate
<1>2. CASE CheckExpired(r)
  BY <1>2 DEF CheckExpired, Checked, Knock
<1>3. CASE GenerateNonce(r)
  BY <1>3 DEF GenerateNonce, Generated
<1>4. CASE SendReply(r)
  BY <1>4 DEF SendReply, Replied
<1>5. CASE Stop(r)
  BY <1>5 DEF Stop, WentOn, Answers
<1>6. CASE DeductCredit(r)
  BY <1>6 DEF DeductCredit, WentOn, Waiting, Answers
<1>7. CASE BookCharge(r)
  BY <1>7 DEF BookCharge, WentOn, Waiting
<1>8. CASE StoreMessage(r)
  BY <1>8 DEF StoreMessage, WentOn, Waiting, Answers
<1>9. CASE StoreAttachments(r)
  BY <1>9 DEF StoreAttachments, WentOn, Answers
<1>10. QED
  BY <1>1, <1>2, <1>3, <1>4, <1>5, <1>6, <1>7, <1>8, <1>9 DEF Handler

Effect ==
    \/ Rest \/ NoncesAged \/ Issued
    \/ \E r \in Requests : \/ Entered(r) \/ Validated(r) \/ Checked(r)
                           \/ Generated(r) \/ Replied(r) \/ WentOn(r)

(* Every step is one of these.                                              *)
LEMMA Effects ==
    ASSUME Typed, [Next]_vars
    PROVE  Effect
<1> USE DEF requestVars
<1>1. ASSUME NEW r \in Requests, NEW a \in Agents, NEW c \in Contacts,
             NEW t \in {NoTok, Forged, StopKey, BadKey} \cup mailed, SelectAgent(r, a, c, t)
      PROVE  Entered(r)
  BY <1>1, EntersOnly
<1>2. ASSUME NEW r \in Requests, Handler(r)
      PROVE  Validated(r) \/ Checked(r) \/ Generated(r) \/ Replied(r) \/ WentOn(r)
  BY <1>2, HandlerEffects
<1>3. ASSUME NEW r \in Requests, Fail(r) PROVE Rest
  BY <1>3 DEF Fail, Rest
<1>4. ASSUME Restart PROVE Rest
  BY <1>4 DEF Restart, Rest
<1>5. ASSUME NEW a \in Agents, WindowSlides(a) \/ Grant(a) PROVE Rest
  BY <1>5 DEF WindowSlides, Grant, Rest
<1>6. ASSUME NEW n \in NonceIds, Expire(n) PROVE NoncesAged
  BY <1>6 DEF Expire, NoncesAged
<1>7. ASSUME Settings PROVE Rest
  BY <1>7 DEF Settings, Rest
<1>8. ASSUME NEW o \in Operators, NEW a \in Agents, NEW c \in Contacts, PurgeMessages(o, a, c)
      PROVE  Rest
  BY <1>8 DEF PurgeMessages, Rest
<1>9. ASSUME NEW o \in Operators, ChangeContact(o) PROVE Rest
  BY <1>9 DEF ChangeContact, Rest
<1>10. ASSUME NEW o \in Operators, BurnOldNonces(o) PROVE NoncesAged
  <2>1. op[o].agent \in Agents
    BY <1>10 DEF BurnOldNonces, RebindDone, Typed, TypeOK, AccountsTypeOK, Pending
  <2>2. QED
    BY <1>10, <2>1 DEF BurnOldNonces, NoncesAged
<1>11. ASSUME UNCHANGED vars PROVE Rest
  BY <1>11 DEF vars, Rest
<1>12. ASSUME NEW n \in NonceIds, NEW a \in Agents, AgentMail(n, a) PROVE Issued
  BY <1>12 DEF AgentMail, Issued
<1>13. QED
  BY <1>1, <1>2, <1>3, <1>4, <1>5, <1>6, <1>7, <1>8, <1>9, <1>10, <1>11, <1>12
  DEF Next, Effect

(* The nonces table: an unburned row has no burner, an unborn one no owner, *)
(* a valid one has an agent, and only a row that exists was ever mailed.    *)
Rows ==
    \A n \in NonceIds :
       /\ nonces[n].st \in {"unborn", "live", "stale"} => nonces[n].by = Nobody
       /\ nonces[n].st = "unborn" => nonces[n].owner = Nobody
       /\ nonces[n].st = "live" => nonces[n].owner \in Agents
       /\ n \in mailed => nonces[n].st # "unborn"

(* What a POST in flight knows about the nonce it carries: it has burned    *)
(* none yet while it is being checked; the one it carries was issued; once  *)
(* validate_nonce has failed it never becomes valid again.                  *)
Held ==
    \A r \in Requests :
       /\ pc[r] \in {"new", "validate", "expired"} => \A n \in NonceIds : nonces[n].by # r
       /\ pc[r] \in {"validate", "expired"} /\ req[r].tok \in NonceIds
             => nonces[req[r].tok].st # "unborn"
       /\ pc[r] = "expired" /\ req[r].tok \in NonceIds => nonces[req[r].tok].st # "live"
       /\ pc[r] = "reply" => nonces[req[r].fresh].st # "unborn"

(* The inductive invariant of the webhook.                                  *)
IInv == Typed /\ Addressed /\ Rows /\ Held /\ DoorKnock /\ RefusalJustified

Names == /\ pc \in [Requests -> {"new"} \cup Waiting \cup Answers]
         /\ req \in [Requests -> ReqType]
         /\ nonces \in [NonceIds -> [st : {"unborn", "live", "stale", "used", "lapsed", "deleted"},
                                     owner : Agents \cup {Nobody}, by : Requests \cup {Nobody}]]
         /\ mailed \subseteq NonceIds
         /\ NoTok \notin NonceIds /\ Nobody \notin Agents /\ Nobody \notin Requests

(* IInv gives every variable its shape, without the ranges: all the SMT     *)
(* solver needs to evaluate an update.                                      *)
LEMMA Named == IInv => Names
  BY InboundAssumption, NoncesAssumption
  DEF IInv, Typed, TypeOK, ReqType, Names, NonceTypeOK

(* A POST that has left "new" keeps naming an agent as its recipient.       *)
LEMMA AddressedStep ==
    ASSUME IInv, Names, Effect
    PROVE  Addressed'
<1>1. SUFFICES ASSUME NEW q \in Requests, pc'[q] # "new" PROVE req'[q].to \in Agents
  BY DEF Addressed
<1>2. pc[q] # "new" => req[q].to \in Agents
  BY DEF IInv, Addressed
<1> USE DEF Names
<1>3. CASE Rest \/ NoncesAged \/ Issued
  BY <1>1, <1>2, <1>3 DEF Rest, NoncesAged, Issued
<1>4. ASSUME NEW r \in Requests, Entered(r) PROVE req'[q].to \in Agents
  BY <1>1, <1>2, <1>4 DEF Entered
<1>5. ASSUME NEW r \in Requests, Validated(r) \/ Checked(r) \/ Replied(r) \/ WentOn(r)
      PROVE  req'[q].to \in Agents
  <2>1. req' = req /\ pc[r] # "new"
    BY <1>5 DEF Validated, Validate, At, Checked, Replied, WentOn
  <2>2. \E p : pc' = [pc EXCEPT ![r] = p]
    BY <1>5 DEF Validated, Validate, Goto, Checked, Replied, WentOn
  <2>3. QED
    BY <1>1, <1>2, <2>1, <2>2
<1>6. ASSUME NEW r \in Requests, Generated(r) PROVE req'[q].to \in Agents
  <2>1. PICK n \in NonceIds : req' = [req EXCEPT ![r].fresh = n]
    BY <1>6 DEF Generated
  <2>2. req'[q].to = req[q].to
    BY <2>1 DEF ReqType
  <2>3. QED
    BY <1>1, <1>2, <1>6, <2>2 DEF Generated
<1>7. QED
  BY <1>3, <1>4, <1>5, <1>6 DEF Effect

(* What one step does to one nonce: it stays, is generated, is burned by a  *)
(* POST that was checking it, expires, or is deleted with its agent's.      *)
RowMoves(n) ==
    \/ nonces'[n] = nonces[n]
    \/ /\ nonces[n].st = "unborn" /\ nonces'[n].st = "live"
       /\ nonces'[n].by = Nobody /\ nonces'[n].owner \in Agents
       /\ \A r \in Requests : ~Validated(r) /\ ~Checked(r)
    \/ \E r \in Requests :
          /\ req[r].tok = n /\ nonces'[n].by = r /\ nonces'[n].owner = nonces[n].owner
          /\ \/ Validated(r) /\ nonces[n].st = "live" /\ nonces'[n].st = "used"
             \/ Checked(r) /\ nonces[n].st = "stale" /\ nonces'[n].st = "lapsed"
    \/ /\ nonces[n].st = "live" /\ nonces'[n].st = "stale"
       /\ nonces'[n].by = nonces[n].by /\ nonces'[n].owner = nonces[n].owner
       /\ UNCHANGED <<pc, req>>
    \/ /\ nonces[n].owner # Nobody /\ nonces'[n].st = "deleted"
       /\ nonces'[n].by = nonces[n].by /\ nonces'[n].owner = nonces[n].owner
       /\ UNCHANGED <<pc, req>>

(* What one step does to one row of the nonces table: nothing, birth, one   *)
(* of the two burns by the POST that presents it, expiry, or deletion.      *)
LEMMA RowEffects ==
    ASSUME Names, Addressed, NEW n \in NonceIds, Effect
    PROVE  RowMoves(n)
<1> USE DEF Names
<1>1. CASE Rest
  BY <1>1 DEF Rest, RowMoves
<1>2. ASSUME NEW m \in NonceIds, PassExpiry(m), UNCHANGED <<pc, req>> PROVE RowMoves(n)
  BY <1>2 DEF PassExpiry, RowMoves
<1>3. ASSUME NEW a \in Agents, DeleteNonces(a), UNCHANGED <<pc, req>> PROVE RowMoves(n)
  BY <1>3 DEF DeleteNonces, RowMoves
<1>4. CASE NoncesAged
  BY <1>2, <1>3, <1>4 DEF NoncesAged
<1>5. ASSUME NEW r \in Requests, Entered(r) \/ Replied(r) \/ WentOn(r) PROVE RowMoves(n)
  BY <1>5 DEF Entered, Replied, WentOn, RowMoves
<1>6. ASSUME NEW r \in Requests, Validated(r) PROVE RowMoves(n)
  <2>1. CASE Validates(req[r].tok) /\ BurnValid(req[r].tok, r)
    BY <1>6, <2>1 DEF Validates, BurnValid, RowMoves
  <2>2. CASE nonces' = nonces
    BY <2>2 DEF RowMoves
  <2>3. QED
    BY <1>6, <2>1, <2>2 DEF Validated, Validate
<1>7. ASSUME NEW r \in Requests, Checked(r) PROVE RowMoves(n)
  <2>1. CASE Expired(req[r].tok) /\ BurnExpired(req[r].tok, r)
    BY <1>7, <2>1 DEF Expired, BurnExpired, RowMoves
  <2>2. CASE nonces' = nonces
    BY <2>2 DEF RowMoves
  <2>3. QED
    BY <1>7, <2>1, <2>2 DEF Checked
<1>8. ASSUME NEW r \in Requests, Generated(r) PROVE RowMoves(n)
  <2>1. PICK m \in NonceIds : /\ pc[r] = "issue" /\ pc' = [pc EXCEPT ![r] = "reply"]
                              /\ Generate(m, req[r].to)
    BY <1>8 DEF Generated
  <2>2. \A s \in Requests : ~Validated(s) /\ ~Checked(s)
    <3>1. \A s \in Requests : Validated(s) => pc[s] = "validate" /\ pc'[s] # "validate"
      BY DEF Validated, Validate, At, Goto
    <3>2. \A s \in Requests : Checked(s) => pc[s] = "expired" /\ pc'[s] # "expired"
      BY DEF Checked
    <3>3. QED
      BY <2>1, <3>1, <3>2
  <2>3. req[r].to \in Agents
    BY <2>1 DEF Addressed
  <2>4. QED
    BY <2>1, <2>2, <2>3 DEF Generate, RowMoves
<1>9. CASE Issued
  <2>1. PICK m \in NonceIds, a \in Agents : Generate(m, a) /\ UNCHANGED pc
    BY <1>9 DEF Issued
  <2>2. \A s \in Requests : ~Validated(s) /\ ~Checked(s)
    BY <2>1 DEF Validated, Validate, At, Goto, Checked
  <2>3. QED
    BY <2>1, <2>2 DEF Generate, RowMoves
<1>10. QED
  BY <1>1, <1>4, <1>5, <1>6, <1>7, <1>8, <1>9 DEF Effect

(* The table keeps its shape.                                               *)
LEMMA RowsStep ==
    ASSUME IInv, Names, Effect
    PROVE  Rows'
<1>1. SUFFICES ASSUME NEW n \in NonceIds
               PROVE  /\ nonces'[n].st \in {"unborn", "live", "stale"} => nonces'[n].by = Nobody
                      /\ nonces'[n].st = "unborn" => nonces'[n].owner = Nobody
                      /\ nonces'[n].st = "live" => nonces'[n].owner \in Agents
                      /\ n \in mailed' => nonces'[n].st # "unborn"
  BY DEF Rows
<1>2. RowMoves(n)
  BY RowEffects DEF IInv
<1>3. /\ nonces[n].st \in {"unborn", "live", "stale"} => nonces[n].by = Nobody
      /\ nonces[n].st = "unborn" => nonces[n].owner = Nobody
      /\ nonces[n].st = "live" => nonces[n].owner \in Agents
      /\ n \in mailed => nonces[n].st # "unborn"
  BY DEF IInv, Rows
<1>4. n \in mailed' => n \in mailed \/ nonces[n].st # "unborn" \/ nonces'[n].st = "live"
  <2>1. ASSUME NEW r \in Requests, Replied(r), n \in mailed', n \notin mailed
        PROVE  nonces[n].st # "unborn"
    BY <2>1 DEF Replied, IInv, Held
  <2>2. ASSUME NEW r \in Requests,
               Entered(r) \/ Validated(r) \/ Checked(r) \/ Generated(r) \/ WentOn(r)
        PROVE  mailed' = mailed
    BY <2>2 DEF Entered, Validated, Checked, Generated, WentOn
  <2>3. Rest \/ NoncesAged => mailed' = mailed
    BY DEF Rest, NoncesAged
  <2>4. Issued => (n \in mailed' => n \in mailed \/ nonces'[n].st = "live")
    BY DEF Issued, Generate, Names
  <2>5. QED
    BY <2>1, <2>2, <2>3, <2>4 DEF Effect
<1>5. nonces[n].st # "unborn" => nonces'[n].st # "unborn"
  BY <1>2 DEF RowMoves
<1>6. /\ nonces'[n].st \in {"unborn", "live", "stale"} => nonces'[n].by = Nobody
      /\ nonces'[n].st = "unborn" => nonces'[n].owner = Nobody
      /\ nonces'[n].st = "live" => nonces'[n].owner \in Agents
  BY <1>2, <1>3 DEF RowMoves
<1>7. QED
  BY <1>3, <1>4, <1>5, <1>6

(* What one step does to one POST: nothing, or the step is that POST's own. *)
LEMMA PostEffects ==
    ASSUME Names, NEW q \in Requests, Effect
    PROVE  \/ pc'[q] = pc[q] /\ req'[q] = req[q]
           \/ Entered(q) \/ Validated(q) \/ Checked(q) \/ Generated(q) \/ Replied(q) \/ WentOn(q)
<1> USE DEF Names
<1>1. CASE Rest \/ NoncesAged \/ Issued
  BY <1>1 DEF Rest, NoncesAged, Issued
<1>2. ASSUME NEW r \in Requests, r # q,
             \/ Entered(r) \/ Validated(r) \/ Checked(r) \/ Generated(r) \/ Replied(r) \/ WentOn(r)
      PROVE  pc'[q] = pc[q] /\ req'[q] = req[q]
  <2>1. \E p : pc' = [pc EXCEPT ![r] = p]
    BY <1>2 DEF Entered, Validated, Validate, Goto, Checked, Generated, Replied, WentOn
  <2>2. req' = req \/ \E v : req' = [req EXCEPT ![r] = v]
    BY <1>2 DEF Entered, Validated, Checked, Generated, Replied, WentOn
  <2>3. QED
    BY <1>2, <2>1, <2>2
<1>3. QED
  BY <1>1, <1>2 DEF Effect

(* What a POST in flight knows stays true.                                  *)
LEMMA HeldStep ==
    ASSUME IInv, Names, Effect
    PROVE  Held'
<1> DEFINE Checking == {"new", "validate", "expired"}
<1> USE DEF Names
<1>1. SUFFICES ASSUME NEW q \in Requests
      PROVE  /\ pc'[q] \in Checking => \A n \in NonceIds : nonces'[n].by # q
             /\ pc'[q] \in {"validate", "expired"} /\ req'[q].tok \in NonceIds
                   => nonces'[req'[q].tok].st # "unborn"
             /\ pc'[q] = "expired" /\ req'[q].tok \in NonceIds
                   => nonces'[req'[q].tok].st # "live"
             /\ pc'[q] = "reply" => nonces'[req'[q].fresh].st # "unborn"
  BY DEF Held
<1>2. /\ pc[q] \in Checking => \A n \in NonceIds : nonces[n].by # q
      /\ pc[q] \in {"validate", "expired"} /\ req[q].tok \in NonceIds
            => nonces[req[q].tok].st # "unborn"
      /\ pc[q] = "expired" /\ req[q].tok \in NonceIds => nonces[req[q].tok].st # "live"
      /\ pc[q] = "reply" => nonces[req[q].fresh].st # "unborn"
      /\ pc[q] = "reply" => req[q].fresh \in NonceIds
  BY DEF IInv, Held, Typed, HasFresh
<1>3. \A n \in NonceIds : RowMoves(n)
  BY RowEffects DEF IInv
<1>4. \/ pc'[q] = pc[q] /\ req'[q] = req[q]
      \/ Entered(q) \/ Validated(q) \/ Checked(q) \/ Generated(q) \/ Replied(q) \/ WentOn(q)
  BY PostEffects
<1>5. ASSUME NEW n \in NonceIds
      PROVE  /\ nonces[n].st # "unborn" => nonces'[n].st # "unborn"
             /\ nonces[n].st \notin {"unborn", "live"} => nonces'[n].st # "live"
  BY <1>3 DEF RowMoves
<1>6. ASSUME pc'[q] \in Checking, NEW n \in NonceIds PROVE nonces'[n].by # q
  <2>1. pc[q] \in Checking
    BY <1>4, <1>6 DEF Entered, Validated, Validate, At, Goto, Checked, Generated, Replied, WentOn
  <2>2. nonces[n].by # q
    BY <1>2, <2>1
  <2>3. ASSUME NEW r \in Requests, nonces'[n].by = r,
               \/ Validated(r) /\ nonces[n].st = "live" /\ req[r].tok = n
               \/ Checked(r) /\ nonces[n].st = "stale" /\ req[r].tok = n
        PROVE  r # q
    <3>1. CASE Validated(r) /\ nonces[n].st = "live" /\ req[r].tok = n
      <4>1. Goto(r, "deduct") \/ Goto(r, "nonce_agent_mismatch")
        BY <3>1 DEF Validated, Validate, Validates
      <4>2. QED
        BY <1>6, <4>1 DEF Goto
    <3>2. CASE Checked(r) /\ nonces[n].st = "stale" /\ req[r].tok = n
      BY <1>6, <3>2 DEF Checked
    <3>3. QED
      BY <2>3, <3>1, <3>2
  <2>4. QED
    BY <1>3, <2>2, <2>3 DEF RowMoves
<1>7. ASSUME pc'[q] \in {"validate", "expired"}, req'[q].tok \in NonceIds
      PROVE  nonces'[req'[q].tok].st # "unborn"
  <2>1. CASE Entered(q)
    BY <1>5, <1>7, <2>1 DEF Entered, IInv, Rows
  <2>2. CASE ~Entered(q)
    <3>1. pc[q] \in {"validate", "expired"} /\ req'[q] = req[q]
      BY <1>4, <1>7, <2>2 DEF Validated, Validate, At, Goto, Checked, Generated, Replied, WentOn
    <3>2. QED
      BY <1>2, <1>5, <1>7, <3>1
  <2>3. QED
    BY <2>1, <2>2
<1>8. ASSUME pc'[q] = "expired", req'[q].tok \in NonceIds
      PROVE  nonces'[req'[q].tok].st # "live"
  <2>1. CASE Validated(q)
    <3>1. nonces' = nonces /\ req' = req /\ pc[q] = "validate" /\ ~Validates(req[q].tok)
      BY <1>8, <2>1 DEF Validated, Validate, At, Goto
    <3>2. QED
      BY <1>8, <3>1 DEF Validates
  <2>2. CASE ~Validated(q)
    <3>1. pc[q] = "expired" /\ req'[q] = req[q]
      BY <1>4, <1>8, <2>2 DEF Entered, Checked, Generated, Replied, WentOn
    <3>2. QED
      BY <1>2, <1>5, <1>8, <3>1
  <2>3. QED
    BY <2>1, <2>2
<1>9. ASSUME pc'[q] = "reply" PROVE nonces'[req'[q].fresh].st # "unborn"
  <2>1. CASE Generated(q)
    BY <2>1 DEF Generated, Generate, ReqType
  <2>2. CASE ~Generated(q)
    <3>1. pc[q] = "reply" /\ req'[q] = req[q]
      BY <1>4, <1>9, <2>2 DEF Entered, Validated, Validate, At, Goto, Checked, Replied, WentOn
    <3>2. QED
      BY <1>2, <1>5, <3>1
  <2>3. QED
    BY <2>1, <2>2
<1>10. QED
  BY <1>6, <1>7, <1>8, <1>9

(* The nonce a POST has burned stays burned by it, whatever others do.      *)
LEMMA BurnStays ==
    ASSUME IInv, NEW n \in NonceIds, RowMoves(n), nonces[n].by # Nobody
    PROVE  /\ nonces'[n].by = nonces[n].by
           /\ nonces'[n].owner = nonces[n].owner
           /\ nonces'[n].st \in {nonces[n].st, "deleted"}
<1>1. nonces[n].st \notin {"unborn", "live", "stale"}
  BY DEF IInv, Rows
<1>2. QED
  BY <1>1 DEF RowMoves

(* The door-knock invariant is kept.                                        *)
LEMMA DoorKnockStep ==
    ASSUME IInv, Names, Effect
    PROVE  DoorKnock'
<1> DEFINE Burned(q, s) == /\ req[q].tok \in NonceIds
                           /\ nonces[req[q].tok].by = q
                           /\ nonces[req[q].tok].owner = req[q].to
                           /\ nonces[req[q].tok].st \in {s, "deleted"}
<1> USE DEF Names
<1>1. SUFFICES ASSUME NEW q \in Requests, req'[q].door
               PROVE  (PastDoor(q)' => Burned(q, "used")') /\ (Bounced(q)' => Burned(q, "lapsed")')
  BY DEF DoorKnock
<1>2. req[q].door => (PastDoor(q) => Burned(q, "used")) /\ (Bounced(q) => Burned(q, "lapsed"))
  BY DEF IInv, DoorKnock
<1>3. \A n \in NonceIds : RowMoves(n)
  BY RowEffects DEF IInv
<1>4. \/ pc'[q] = pc[q] /\ req'[q] = req[q]
      \/ Entered(q) \/ Validated(q) \/ Checked(q) \/ Generated(q) \/ Replied(q) \/ WentOn(q)
  BY PostEffects
<1>5. ASSUME NEW s \in {"used", "lapsed"}, Burned(q, s), req'[q].tok = req[q].tok,
             req'[q].to = req[q].to
      PROVE  Burned(q, s)'
  BY <1>3, <1>5, BurnStays
<1> USE DEF PastDoor, Charged, Bounced
<1>6. CASE pc'[q] = pc[q] /\ req'[q] = req[q]
  BY <1>1, <1>2, <1>5, <1>6
<1>7. CASE Entered(q)
  BY <1>1, <1>7 DEF Entered
<1>8. CASE Validated(q)
  <2>1. CASE Validates(req[q].tok) /\ BurnValid(req[q].tok, q)
    <3>1. pc'[q] \in {"deduct", "nonce_agent_mismatch"}
          /\ (pc'[q] = "deduct" => nonces[req[q].tok].owner = req[q].to) /\ req' = req
      BY <1>8, <2>1 DEF Validated, Validate, Goto
    <3>2. req[q].tok \in NonceIds /\ nonces'[req[q].tok].by = q
          /\ nonces'[req[q].tok].st = "used" /\ nonces'[req[q].tok].owner = nonces[req[q].tok].owner
      BY <2>1 DEF Validates, BurnValid
    <3>3. QED
      BY <3>1, <3>2
  <2>2. CASE pc'[q] = "expired"
    BY <2>2
  <2>3. QED
    BY <1>8, <2>1, <2>2 DEF Validated, Validate, Goto
<1>9. CASE Checked(q)
  <2>1. CASE Expired(req[q].tok) /\ BurnExpired(req[q].tok, q)
    <3>1. pc'[q] \in {"issue", "bounce_rate_limited", "invalid_nonce"}
          /\ (pc'[q] # "invalid_nonce" => nonces[req[q].tok].owner = req[q].to) /\ req' = req
      BY <1>9, <2>1 DEF Checked
    <3>2. req[q].tok \in NonceIds /\ nonces'[req[q].tok].by = q
          /\ nonces'[req[q].tok].st = "lapsed" /\ nonces'[req[q].tok].owner = nonces[req[q].tok].owner
      BY <2>1 DEF Expired, BurnExpired
    <3>3. QED
      BY <3>1, <3>2
  <2>2. CASE pc'[q] = "invalid_nonce"
    BY <2>2
  <2>3. QED
    BY <1>9, <2>1, <2>2 DEF Checked
<1>10. CASE Generated(q)
  <2>1. /\ pc[q] = "issue" /\ pc'[q] = "reply"
        /\ req'[q].tok = req[q].tok /\ req'[q].to = req[q].to /\ req'[q].door = req[q].door
    BY <1>10 DEF Generated, ReqType
  <2>2. QED
    BY <1>1, <1>2, <1>5, <2>1
<1>11. CASE Replied(q)
  BY <1>1, <1>2, <1>5, <1>11 DEF Replied
<1>12. CASE WentOn(q)
  BY <1>1, <1>2, <1>5, <1>12 DEF WentOn
<1>13. QED
  BY <1>4, <1>6, <1>7, <1>8, <1>9, <1>10, <1>11, <1>12

(* The reasons of a refusal do not go away, and a refusal has one.          *)
LEMMA RefusalStep ==
    ASSUME IInv, Names, Effect
    PROVE  RefusalJustified'
<1> DEFINE Reason(q) == LET n == nonces[req[q].tok] IN
              \/ n.st = "deleted"
              \/ n.st \in {"used", "lapsed"} /\ n.by # q
              \/ n.st = "lapsed" /\ n.by = q /\ n.owner # req[q].to
<1> USE DEF Names
<1>1. SUFFICES ASSUME NEW q \in Requests, pc'[q] = "invalid_nonce", req'[q].tok \in NonceIds
               PROVE  Reason(q)'
  BY DEF RefusalJustified
<1>2. pc[q] = "invalid_nonce" /\ req[q].tok \in NonceIds => Reason(q)
  BY DEF IInv, RefusalJustified
<1>3. \A n \in NonceIds : RowMoves(n)
  BY RowEffects DEF IInv
<1>4. \/ pc'[q] = pc[q] /\ req'[q] = req[q]
      \/ Entered(q) \/ Validated(q) \/ Checked(q) \/ Generated(q) \/ Replied(q) \/ WentOn(q)
  BY PostEffects
<1>5. CASE pc'[q] = pc[q] /\ req'[q] = req[q]
  <2>1. Reason(q) /\ req[q].tok \in NonceIds
    BY <1>1, <1>2, <1>5
  <2>2. RowMoves(req[q].tok)
    BY <1>3, <2>1
  <2>3. QED
    BY <1>5, <2>1, <2>2 DEF RowMoves
<1>6. CASE Entered(q)
  BY <1>1, <1>6 DEF Entered
<1>7. CASE Checked(q)
  <2>1. /\ pc[q] = "expired" /\ req'[q] = req[q] /\ req[q].tok \in NonceIds
        /\ nonces[req[q].tok].st \notin {"unborn", "live"} /\ nonces[req[q].tok].by # q
    BY <1>1, <1>7 DEF Checked, IInv, Held
  <2>2. CASE Expired(req[q].tok) /\ BurnExpired(req[q].tok, q)
    <3>1. nonces[req[q].tok].owner # req[q].to
      BY <1>1, <1>7, <2>2 DEF Checked
    <3>2. /\ nonces'[req[q].tok].by = q /\ nonces'[req[q].tok].st = "lapsed"
          /\ nonces'[req[q].tok].owner = nonces[req[q].tok].owner
      BY <2>1, <2>2 DEF BurnExpired
    <3>3. QED
      BY <2>1, <3>1, <3>2
  <2>3. CASE ~Expired(req[q].tok) /\ nonces' = nonces
    <3>1. nonces[req[q].tok].st \in {"used", "lapsed", "deleted"}
      BY <2>1, <2>3 DEF Expired
    <3>2. QED
      BY <2>1, <2>3, <3>1
  <2>4. QED
    BY <1>7, <2>2, <2>3 DEF Checked
<1>8. ASSUME Validated(q) \/ Generated(q) \/ Replied(q) \/ WentOn(q) PROVE FALSE
  BY <1>1, <1>8 DEF Validated, Validate, Goto, Generated, Replied, WentOn
<1>9. QED
  BY <1>4, <1>5, <1>6, <1>7, <1>8

(* IInv is inductive.                                                       *)
LEMMA Inductive == Spec => []IInv
<1>1. Init => IInv
  <2> SUFFICES ASSUME Init PROVE IInv
    OBVIOUS
  <2> USE DEF Init
  <2>1. AccountsTypeOK /\ NonceTypeOK /\ CreditsTypeOK
    BY AccountsAssumption, CreditsAssumption
    DEF AccountsInit, NonceInit, CreditsInit, AccountsTypeOK, NonceTypeOK, CreditsTypeOK
  <2>2. Typed
    BY <2>1, InboundAssumption DEF Typed, TypeOK, HasFresh, Tokens
  <2>3. Rows /\ Held
    BY NoncesAssumption, InboundAssumption DEF NonceInit, Rows, Held
  <2>4. Addressed /\ DoorKnock /\ RefusalJustified
    BY DEF Addressed, DoorKnock, RefusalJustified, PastDoor, Bounced, Charged
  <2>5. QED
    BY <2>2, <2>3, <2>4 DEF IInv
<1>2. IInv /\ [Next]_vars => IInv'
  <2> SUFFICES ASSUME IInv, [Next]_vars PROVE IInv'
    OBVIOUS
  <2>1. Typed /\ Addressed /\ Names
    BY Named DEF IInv
  <2>2. Typed'
    BY <2>1, SelectTyped, HandlerTyped, OthersTyped DEF Next
  <2>3. Effect
    BY <2>1, Effects
  <2>4. Addressed' /\ Rows' /\ Held' /\ DoorKnock' /\ RefusalJustified'
    BY <2>1, <2>3, AddressedStep, RowsStep, HeldStep, DoorKnockStep, RefusalStep
  <2>5. QED
    BY <2>2, <2>4 DEF IInv
<1>3. QED
  BY <1>1, <1>2, PTL DEF Spec

(* The state of the webhook always has its declared shape: a balance is     *)
(* never negative, only issued nonces are ever mailed.                      *)
THEOREM TypeCorrect == Spec => []TypeOK
<1>1. IInv => TypeOK
  BY DEF IInv, Typed
<1>2. QED
  BY <1>1, Inductive, PTL

(* No mail passes a locked door without a nonce of that agent which that    *)
(* very POST burned in time.                                                *)
THEOREM DoorHolds == Spec => []DoorKnock
<1>1. IInv => DoorKnock
  BY DEF IInv
<1>2. QED
  BY <1>1, Inductive, PTL

(* Of all POSTs that carry one nonce at most one gets anywhere with it.     *)
THEOREM SpentOnce == Spec => []NonceSpentOnce
<1>1. IInv => NonceSpentOnce
  <2>1. SUFFICES ASSUME DoorKnock, NEW r \in Requests, NEW s \in Requests,
                        req[r].door, req[s].door, req[r].tok = req[s].tok,
                        PastDoor(r) \/ Bounced(r), PastDoor(s) \/ Bounced(s)
                 PROVE  r = s
    BY DEF NonceSpentOnce, IInv
  <2>2. nonces[req[r].tok].by = r /\ nonces[req[s].tok].by = s
    BY <2>1 DEF DoorKnock
  <2>3. QED
    BY <2>1, <2>2
<1>2. QED
  BY <1>1, Inductive, PTL

(* A nonce is refused as invalid only when another POST, its owner or a     *)
(* contact change took it.                                                  *)
THEOREM RefusalsJustified == Spec => []RefusalJustified
<1>1. IInv => RefusalJustified
  BY DEF IInv
<1>2. QED
  BY <1>1, Inductive, PTL
-----------------------------------------------------------------------------
(* The POSTs of one agent that were charged, and those of them whose ledger *)
(* row is still to be written.                                              *)
Paid(a) == {r \in Requests : req[r].to = a /\ Charged(r)}
Owed(a) == {r \in Requests : req[r].to = a /\ pc[r] = "book"}

(* What a step does to the charges of one agent: nothing, one more POST     *)
(* charged, one ledger row, or a grant.                                     *)
Bought(a) == \E r \in Requests :
    /\ r \notin Paid(a) /\ Paid(a)' = Paid(a) \cup {r}
    /\ r \notin Owed(a) /\ Owed(a)' = Owed(a) \cup {r}
    /\ balance'[a] = balance[a] - 1
    /\ ledger'[a] = ledger[a] /\ granted'[a] = granted[a] /\ unbooked'[a] = unbooked[a]

Booked(a) == \E r \in Requests :
    /\ Paid(a)' = Paid(a)
    /\ r \in Owed(a) /\ Owed(a)' = Owed(a) \ {r}
    /\ ledger'[a] = ledger[a] - 1
    /\ balance'[a] = balance[a] /\ granted'[a] = granted[a] /\ unbooked'[a] = unbooked[a]

Granted(a) ==
    /\ Paid(a)' = Paid(a) /\ Owed(a)' = Owed(a)
    /\ \/ /\ balance'[a] = balance[a] + 1 /\ granted'[a] = granted[a] + 1
          /\ unbooked'[a] = unbooked[a] + 1 /\ ledger'[a] = ledger[a]
       \/ /\ balance'[a] = balance[a] /\ granted'[a] = granted[a]
          /\ unbooked'[a] = unbooked[a] - 1 /\ ledger'[a] = ledger[a] + 1

Unmoved(a) ==
    /\ Paid(a)' = Paid(a) /\ Owed(a)' = Owed(a)
    /\ balance'[a] = balance[a] /\ granted'[a] = granted[a]
    /\ unbooked'[a] = unbooked[a] /\ ledger'[a] = ledger[a]

(* What one step does to the amounts of one agent: a POST of that agent     *)
(* buys or books, a grant is added or booked, or nothing about them         *)
(* changes.                                                                 *)
LEMMA ChargeEffects ==
    ASSUME IInv, Names, [Next]_vars, NEW a \in Agents
    PROVE  Bought(a) \/ Booked(a) \/ Granted(a) \/ Unmoved(a)
<1> DEFINE Quiet == UNCHANGED creditVars
           Still == UNCHANGED <<pc, req>>
<1> USE DEF Names
<1>1. CreditsTypeOK
  BY DEF IInv, Typed, TypeOK
<1>2. ASSUME Quiet, Still PROVE Unmoved(a)
  BY <1>2 DEF creditVars, Unmoved, Paid, Owed, Charged
<1>3. ASSUME Quiet, NEW r \in Requests, NEW p, pc' = [pc EXCEPT ![r] = p],
             ~Charged(r), p \notin {"book", "store", "attach", "received"},
             \A q \in Requests : q # r => req'[q] = req[q]
      PROVE  Unmoved(a)
  <2>1. \A q \in Requests : q # r => pc'[q] = pc[q]
    BY <1>3
  <2>2. pc'[r] = p
    BY <1>3
  <2>3. Paid(a)' = Paid(a) /\ Owed(a)' = Owed(a)
    BY <1>3, <2>1, <2>2 DEF Paid, Owed, Charged
  <2>4. QED
    BY <1>3, <2>3 DEF Unmoved, creditVars
<1>4. ASSUME Quiet, NEW r \in Requests, NEW p \in {"attach", "received"},
             pc' = [pc EXCEPT ![r] = p], pc[r] \in {"store", "attach"}, req' = req
      PROVE  Unmoved(a)
  BY <1>4 DEF Unmoved, creditVars, Paid, Owed, Charged
<1>5. ASSUME NEW r \in Requests, NEW b \in Agents, NEW c \in Contacts,
             NEW t \in {NoTok, Forged, StopKey, BadKey} \cup mailed, SelectAgent(r, b, c, t)
      PROVE  Unmoved(a)
  <2>1. Entered(r) /\ Quiet
    BY <1>5, EntersOnly DEF IInv, SelectAgent
  <2>2. QED
    BY <1>3, <2>1 DEF Entered, Charged
<1>6. ASSUME NEW r \in Requests, Handler(r)
      PROVE  Bought(a) \/ Booked(a) \/ Unmoved(a)
  <2> USE DEF At, Goto
  <2>1. CASE DeductCredit(r)
    <3>1. CASE ~CanDeduct(req[r].to) /\ UNCHANGED creditVars
      BY <1>3, <2>1, <3>1 DEF DeductCredit, Charged
    <3>2. CASE /\ CanDeduct(req[r].to) /\ Deduct(req[r].to)
               /\ pc' = [pc EXCEPT ![r] = "book"] /\ pc[r] = "deduct" /\ req' = req
      <4>1. CASE req[r].to = a
        BY <1>1, <3>2, <4>1 DEF Bought, Paid, Owed, Charged, Deduct, CreditsTypeOK
      <4>2. CASE req[r].to # a
        BY <1>1, <3>2, <4>2 DEF Unmoved, Paid, Owed, Charged, Deduct, CreditsTypeOK
      <4>3. QED
        BY <4>1, <4>2
    <3>3. QED
      BY <2>1, <3>1, <3>2 DEF DeductCredit
  <2>2. CASE BookCharge(r)
    <3>1. /\ pc' = [pc EXCEPT ![r] = "store"] /\ pc[r] = "book" /\ req' = req
          /\ BookDebit(req[r].to)
      BY <2>2 DEF BookCharge
    <3>2. CASE req[r].to = a
      BY <1>1, <3>1, <3>2 DEF Booked, Paid, Owed, Charged, BookDebit, CreditsTypeOK
    <3>3. CASE req[r].to # a
      BY <1>1, <3>1, <3>3 DEF Unmoved, Paid, Owed, Charged, BookDebit, CreditsTypeOK
    <3>4. QED
      BY <3>2, <3>3
  <2>3. CASE StoreMessage(r) \/ StoreAttachments(r)
    BY <1>4, <2>3 DEF StoreMessage, StoreAttachments
  <2>4. CASE Stop(r) \/ Validate(r)
    BY <1>3, <2>4 DEF Stop, Validate, Charged
  <2>5. CASE SendReply(r)
    BY <1>3, <2>5 DEF SendReply, Charged
  <2>6. CASE GenerateNonce(r)
    BY <1>3, <2>6 DEF GenerateNonce, Charged
  <2>7. CASE CheckExpired(r)
    <3>1. Checked(r) /\ Quiet
      BY <2>7 DEF CheckExpired, Checked, Knock
    <3>2. QED
      BY <1>3, <3>1 DEF Checked, Charged
  <2>8. QED
    BY <1>6, <2>1, <2>2, <2>3, <2>4, <2>5, <2>6, <2>7 DEF Handler
<1> USE DEF requestVars
<1>7. ASSUME NEW r \in Requests, Fail(r) PROVE Unmoved(a)
  BY <1>2, <1>7 DEF Fail
<1>8. ASSUME Restart PROVE Unmoved(a)
  BY <1>2, <1>8 DEF Restart
<1>9. ASSUME NEW b \in Agents, WindowSlides(b) PROVE Unmoved(a)
  BY <1>2, <1>9 DEF WindowSlides
<1>10. ASSUME NEW b \in Agents, Grant(b) PROVE Granted(a) \/ Unmoved(a)
  <2>1. Paid(a)' = Paid(a) /\ Owed(a)' = Owed(a)
    BY <1>10 DEF Grant, Paid, Owed, Charged
  <2>2. CASE b = a
    BY <1>1, <1>10, <2>1, <2>2 DEF Grant, Granted, AddCredit, BookGrant, CreditsTypeOK
  <2>3. CASE b # a
    BY <1>1, <1>10, <2>1, <2>3 DEF Grant, Unmoved, AddCredit, BookGrant, CreditsTypeOK
  <2>4. QED
    BY <2>2, <2>3
<1>11. ASSUME NEW n \in NonceIds, Expire(n) PROVE Unmoved(a)
  BY <1>2, <1>11 DEF Expire
<1>12. ASSUME NEW n \in NonceIds, NEW b \in Agents, AgentMail(n, b) PROVE Unmoved(a)
  BY <1>2, <1>12 DEF AgentMail
<1>13. ASSUME Settings PROVE Unmoved(a)
  BY <1>2, <1>13 DEF Settings
<1>14. ASSUME NEW o \in Operators, NEW b \in Agents, NEW c \in Contacts, PurgeMessages(o, b, c)
       PROVE  Unmoved(a)
  BY <1>2, <1>14 DEF PurgeMessages
<1>15. ASSUME NEW o \in Operators, ChangeContact(o) \/ BurnOldNonces(o) PROVE Unmoved(a)
  BY <1>2, <1>15 DEF ChangeContact, BurnOldNonces
<1>16. ASSUME UNCHANGED vars PROVE Unmoved(a)
  BY <1>2, <1>16 DEF vars
<1>17. QED
  BY <1>5, <1>6, <1>7, <1>8, <1>9, <1>10, <1>11, <1>12, <1>13, <1>14, <1>15, <1>16 DEF Next

(* The counts move with the amounts.                                        *)
LEMMA Counted ==
    ASSUME NEW a
    PROVE  IsFiniteSet(Paid(a)) /\ IsFiniteSet(Owed(a))
           /\ Cardinality(Paid(a)) \in Nat /\ Cardinality(Owed(a)) \in Nat
  BY InboundAssumption, FS_Subset, FS_CardinalityType DEF Paid, Owed

(* No credit is ever lost or charged twice, and the ledger lags behind the  *)
(* balance by exactly the second statements still to come.                  *)
THEOREM NoCreditLost == Spec => []ChargedOnce
<1>1. ChargedOnce <=> \A a \in Agents :
         /\ balance[a] + Cardinality(Paid(a)) = StartCredits + granted[a]
         /\ ledger[a] + unbooked[a] = balance[a] + Cardinality(Owed(a))
  BY DEF ChargedOnce, Paid, Owed
<1>2. Init => ChargedOnce
  <2>1. SUFFICES ASSUME Init, NEW a \in Agents
                 PROVE  /\ balance[a] + Cardinality(Paid(a)) = StartCredits + granted[a]
                        /\ ledger[a] + unbooked[a] = balance[a] + Cardinality(Owed(a))
    BY <1>1
  <2>2. Paid(a) = {} /\ Owed(a) = {}
    BY <2>1 DEF Init, Paid, Owed, Charged
  <2>3. QED
    BY <2>1, <2>2, FS_EmptySet, CreditsAssumption DEF Init, CreditsInit
<1>3. IInv /\ ChargedOnce /\ [Next]_vars => ChargedOnce'
  <2>1. SUFFICES ASSUME IInv, ChargedOnce, [Next]_vars, NEW a \in Agents
                 PROVE  /\ balance'[a] + Cardinality(Paid(a)') = StartCredits + granted'[a]
                        /\ ledger'[a] + unbooked'[a] = balance'[a] + Cardinality(Owed(a)')
    BY DEF ChargedOnce, Paid, Owed
  <2>2. /\ balance[a] + Cardinality(Paid(a)) = StartCredits + granted[a]
        /\ ledger[a] + unbooked[a] = balance[a] + Cardinality(Owed(a))
    BY <1>1, <2>1
  <2>3. /\ balance[a] \in Nat /\ ledger[a] \in Int /\ granted[a] \in Nat /\ unbooked[a] \in Nat
        /\ StartCredits \in Nat
    BY <2>1, CreditsAssumption DEF IInv, Typed, TypeOK, CreditsTypeOK
  <2>4. Names
    BY <2>1, Named
  <2>5. Bought(a) \/ Booked(a) \/ Granted(a) \/ Unmoved(a)
    BY <2>1, <2>4, ChargeEffects
  <2>6. /\ IsFiniteSet(Paid(a)) /\ IsFiniteSet(Owed(a))
        /\ Cardinality(Paid(a)) \in Nat /\ Cardinality(Owed(a)) \in Nat
    BY Counted
  <2>7. CASE Bought(a)
    <3>1. PICK r \in Requests :
             /\ r \notin Paid(a) /\ Paid(a)' = Paid(a) \cup {r}
             /\ r \notin Owed(a) /\ Owed(a)' = Owed(a) \cup {r}
             /\ balance'[a] = balance[a] - 1
             /\ ledger'[a] = ledger[a] /\ granted'[a] = granted[a] /\ unbooked'[a] = unbooked[a]
      BY <2>7 DEF Bought
    <3>2. /\ Cardinality(Paid(a)') = Cardinality(Paid(a)) + 1
          /\ Cardinality(Owed(a)') = Cardinality(Owed(a)) + 1
      BY <2>6, <3>1, FS_AddElement
    <3>3. QED
      BY <2>2, <2>3, <2>6, <3>1, <3>2
  <2>8. CASE Booked(a)
    <3>1. PICK r \in Requests :
             /\ Paid(a)' = Paid(a)
             /\ r \in Owed(a) /\ Owed(a)' = Owed(a) \ {r}
             /\ ledger'[a] = ledger[a] - 1
             /\ balance'[a] = balance[a] /\ granted'[a] = granted[a] /\ unbooked'[a] = unbooked[a]
      BY <2>8 DEF Booked
    <3>2. Cardinality(Owed(a)') = Cardinality(Owed(a)) - 1
      BY <2>6, <3>1, FS_RemoveElement
    <3>3. QED
      BY <2>2, <2>3, <2>6, <3>1, <3>2
  <2>9. CASE Granted(a)
    BY <2>2, <2>3, <2>6, <2>9 DEF Granted
  <2>10. CASE Unmoved(a)
    BY <2>2, <2>10 DEF Unmoved
  <2>11. QED
    BY <2>5, <2>7, <2>8, <2>9, <2>10
<1>4. QED
  BY <1>2, <1>3, Inductive, PTL DEF Spec

-----------------------------------------------------------------------------
(***************************************************************************)
(* The inbound handler implements the promise of module Door, for every    *)
(* number of agents, POSTs and nonces.                                     *)
(*                                                                         *)
(* The initial states map to initial states; every step of the handler, of *)
(* a page or of the clock maps to one step of Door or to a stutter.  The   *)
(* invariant above says what a key is worth at each step.                  *)
(***************************************************************************)

(* The variables of Door, as the handler's state gives them.                *)
Open == [a \in Agents |-> active[a] /\ approved[a]]
Ring == [n \in NonceIds |-> RingOf(nonces[n])]
Stage == [r \in Requests |-> StageOf(pc[r])]
Box == [r \in Requests |-> req[r].to]
doorVars == <<Open, nonceOn, Ring, balance, Stage, Box>>

(* The mapping, position by position and row by row.                        *)
LEMMA Stages ==
    /\ StageOf("new") = "outside"
    /\ \A p \in {"stop", "validate", "expired", "issue", "reply"} : StageOf(p) = "inside"
    /\ StageOf("deduct") = "keyed"
    /\ \A p \in {"book", "store"} : StageOf(p) = "paid"
    /\ \A p \in {"attach", "received"} : StageOf(p) = "lodged"
    /\ \A p \in Answers \ {"received"} : StageOf(p) = "away"
  BY DEF StageOf, Answers

(* How a row of the nonces table reads as a key: uncut, the owner's, or     *)
(* spent.                                                                   *)
LEMMA Rings ==
    ASSUME NEW n
    PROVE  /\ n.st = "unborn" => RingOf(n) = "uncut"
           /\ n.st = "live" => RingOf(n) = n.owner
           /\ n.st \notin {"unborn", "live"} => RingOf(n) = "spent"
  BY DEF RingOf

(* One POST moves and nothing else in the mapped stages does.               *)
LEMMA StageMoves ==
    ASSUME Names, NEW r \in Requests, NEW p, pc' = [pc EXCEPT ![r] = p]
    PROVE  Stage' = [Stage EXCEPT ![r] = StageOf(p)] /\ Stage[r] = StageOf(pc[r])
  BY DEF Names, Stage

(* A step that leaves req alone leaves every box as it is.                  *)
LEMMA BoxStays == ASSUME Names, req' = req PROVE Box' = Box
  BY DEF Box

(* A step that leaves the nonces table alone leaves the key ring as it is.  *)
LEMMA RingStays == ASSUME nonces' = nonces PROVE Ring' = Ring
  BY DEF Ring

(* A step that leaves the gate columns alone opens and closes no channel    *)
(* and turns no lock.                                                       *)
LEMMA OpenStays == ASSUME UNCHANGED accountVars PROVE Open' = Open /\ nonceOn' = nonceOn
  BY DEF Open, accountVars

-----------------------------------------------------------------------------
(* The first step: a mail comes in, or is turned away where it stands.      *)
LEMMA SelectImplements ==
    ASSUME IInv, Names, NEW r \in Requests, NEW a \in Agents, NEW c \in Contacts,
           NEW t \in {NoTok, Forged, StopKey, BadKey} \cup mailed, SelectAgent(r, a, c, t)
    PROVE  D!Next
<1> USE DEF Names
<1>1. /\ pc[r] = "new" /\ UNCHANGED <<accountVars, nonces, balance>>
      /\ req' = [req EXCEPT ![r] = [to |-> a, tok |-> t, door |-> nonceOn[a], fresh |-> NoTok]]
  BY DEF SelectAgent, At, creditVars
<1>2. Box' = [Box EXCEPT ![r] = a]
  BY <1>1 DEF Box
<1>3. Open' = Open /\ nonceOn' = nonceOn /\ Ring' = Ring /\ balance' = balance
  BY <1>1, OpenStays, RingStays
<1>4. ASSUME NEW p \in Answers \ {"received"}, pc' = [pc EXCEPT ![r] = p] PROVE D!TurnAway(r)
  <2>1. Stage[r] = "outside" /\ Stage' = [Stage EXCEPT ![r] = "away"]
    <3>1. PICK p1 : pc' = [pc EXCEPT ![r] = p1] /\ StageOf(p1) = "away" /\ StageOf(pc[r]) = "outside"
      BY <1>1, <1>4, Stages
    <3>2. QED
      BY <3>1, StageMoves
  <2>2. Box' = [Box EXCEPT ![r] = IF Stage[r] = "outside" THEN a ELSE @]
    BY <1>2, <2>1
  <2>3. QED
    BY <1>3, <2>1, <2>2 DEF D!TurnAway, D!Moves, Open, Stage, Ring, Box
<1>5. ASSUME Gate(a, c) = "open" PROVE Open[a]
  BY <1>5 DEF Gate, Open
<1>6. ASSUME Gate(a, c) = "open", NEW p \in {"stop", "validate", "issue"},
             pc' = [pc EXCEPT ![r] = p]
      PROVE  D!EnterAside(r, a)
  <2>1. Stage[r] = "outside" /\ Stage' = [Stage EXCEPT ![r] = "inside"]
    <3>1. PICK p1 : pc' = [pc EXCEPT ![r] = p1] /\ StageOf(p1) = "inside" /\ StageOf(pc[r]) = "outside"
      BY <1>1, <1>6, Stages
    <3>2. QED
      BY <3>1, StageMoves
  <2>2. QED
    BY <1>2, <1>3, <1>5, <1>6, <2>1 DEF D!EnterAside, D!Moves, Open, Stage, Ring, Box
<1>7. ASSUME Gate(a, c) = "open", ~nonceOn[a], pc' = [pc EXCEPT ![r] = "deduct"]
      PROVE  D!Enter(r, a)
  <2>1. Stage[r] = "outside" /\ Stage' = [Stage EXCEPT ![r] = "keyed"]
    <3>1. PICK p1 : pc' = [pc EXCEPT ![r] = p1] /\ StageOf(p1) = "keyed" /\ StageOf(pc[r]) = "outside"
      BY <1>1, <1>7, Stages
    <3>2. QED
      BY <3>1, StageMoves
  <2>2. QED
    BY <1>2, <1>3, <1>5, <1>7, <2>1 DEF D!Enter, D!Moves, Open, Stage, Ring, Box
<1>8. CASE Gate(a, c) # "open"
  <2>1. Gate(a, c) \in Answers \ {"received"}
    BY <1>8 DEF Gate, Answers
  <2>2. pc' = [pc EXCEPT ![r] = Gate(a, c)]
    BY <1>8 DEF SelectAgent, Goto
  <2>3. QED
    BY <1>4, <2>1, <2>2 DEF D!Next
<1>9. CASE Gate(a, c) = "open"
  <2>1. \/ pc' = [pc EXCEPT ![r] = "stop"]
        \/ pc' = [pc EXCEPT ![r] = "invalid_nonce"]
        \/ ~nonceOn[a] /\ pc' = [pc EXCEPT ![r] = "deduct"]
        \/ pc' = [pc EXCEPT ![r] = "validate"]
        \/ pc' = [pc EXCEPT ![r] = "issue"]
        \/ pc' = [pc EXCEPT ![r] = "knock_rate_limited"]
    BY <1>9 DEF SelectAgent, Knock, Goto
  <2>2. {"invalid_nonce", "knock_rate_limited"} \subseteq Answers \ {"received"}
    BY DEF Answers
  <2>3. \/ D!TurnAway(r) \/ D!EnterAside(r, a) \/ D!Enter(r, a)
    BY <1>4, <1>6, <1>7, <1>9, <2>1, <2>2
  <2>4. QED
    BY <2>3 DEF D!Next
<1>10. QED
  BY <1>8, <1>9

(* The later steps of a POST.                                               *)
LEMMA HandlerImplements ==
    ASSUME IInv, Names, NEW r \in Requests, Handler(r)
    PROVE  D!Next \/ UNCHANGED doorVars
<1> USE DEF Names, At, Goto
<1>1. /\ req[r].to \in Agents \/ pc[r] = "new"
      /\ \A n \in NonceIds : /\ nonces[n].st = "unborn" => nonces[n].owner = Nobody
                             /\ nonces[n].st = "live" => nonces[n].owner \in Agents
      /\ \A a \in Agents : a # "uncut" /\ a # "spent"
      /\ active \in [Agents -> BOOLEAN] /\ approved \in [Agents -> BOOLEAN]
      /\ balance \in [Agents -> Nat]
  BY InboundAssumption
  DEF IInv, Rows, Addressed, Typed, TypeOK, AccountsTypeOK, CreditsTypeOK
<1>2. Agents # {}
  BY AccountsAssumption
<1>3. ASSUME NEW p, pc' = [pc EXCEPT ![r] = p], req' = req, UNCHANGED <<accountVars, balance>>,
             Ring' = Ring, StageOf(pc[r]) \in {"inside", "keyed"}, StageOf(p) = "away"
      PROVE  D!TurnAway(r)
  <2>1. Stage[r] \in {"inside", "keyed"} /\ Stage' = [Stage EXCEPT ![r] = "away"]
    BY <1>3, StageMoves
  <2>2. PICK a \in Agents : TRUE
    BY <1>2
  <2>3. Box' = [Box EXCEPT ![r] = IF Stage[r] = "outside" THEN a ELSE @]
    BY <1>3, <2>1, BoxStays DEF Box
  <2>4. Open' = Open /\ nonceOn' = nonceOn
    BY <1>3, OpenStays
  <2>5. QED
    BY <1>3, <2>1, <2>3, <2>4 DEF D!TurnAway, D!Moves, Open, Stage, Ring, Box
<1>4. ASSUME NEW p, pc' = [pc EXCEPT ![r] = p], Box' = Box, UNCHANGED <<accountVars, balance>>,
             Ring' = Ring, StageOf(p) = StageOf(pc[r])
      PROVE  UNCHANGED doorVars
  <2>1. Stage' = Stage
    BY <1>4, StageMoves DEF Stage
  <2>2. Open' = Open /\ nonceOn' = nonceOn
    BY <1>4, OpenStays
  <2>3. QED
    BY <1>4, <2>1, <2>2 DEF doorVars
<1>5. CASE Stop(r)
  <2>1. Stage[r] = "inside" /\ Stage' = [Stage EXCEPT ![r] = "away"]
    <3>1. PICK p1 : pc' = [pc EXCEPT ![r] = p1] /\ StageOf(p1) = "away" /\ StageOf(pc[r]) = "inside"
      BY <1>5, Stages DEF Stop, Answers
    <3>2. QED
      BY <3>1, StageMoves
  <2>2. Box' = Box /\ Ring' = Ring /\ nonceOn' = nonceOn /\ balance' = balance /\ Box[r] = req[r].to
    BY <1>5, BoxStays, RingStays DEF Stop, creditVars, Box
  <2>3. Open' = [Open EXCEPT ![req[r].to] = FALSE]
    BY <1>1, <1>5 DEF Stop, Open
  <2>4. D!Shut(r)
    BY <2>1, <2>2, <2>3 DEF D!Shut, D!Moves, Open, Stage, Ring, Box
  <2>5. QED
    BY <2>4 DEF D!Next
<1>6. CASE Validate(r)
  <2>1. /\ Box' = Box /\ Open' = Open /\ nonceOn' = nonceOn /\ balance' = balance
        /\ Box[r] = req[r].to /\ req' = req /\ UNCHANGED accountVars
    BY <1>6, BoxStays, OpenStays DEF Validate, creditVars, Box
  <2>2. CASE Validates(req[r].tok) /\ BurnValid(req[r].tok, r)
    <3> DEFINE n == req[r].tok
    <3>1. n \in NonceIds /\ Ring[n] = nonces[n].owner /\ nonces[n].owner \in Agents
      BY <1>1, <2>2, Rings DEF Validates, Ring
    <3>2. Ring' = [Ring EXCEPT ![n] = "spent"]
      BY <2>2, <3>1, Rings DEF BurnValid, Ring
    <3>3. CASE nonces[n].owner = req[r].to
      <4>1. Stage[r] = "inside" /\ Stage' = [Stage EXCEPT ![r] = "keyed"]
        <5>1. PICK p1 : pc' = [pc EXCEPT ![r] = p1] /\ StageOf(p1) = "keyed" /\ StageOf(pc[r]) = "inside"
          BY <1>6, <2>2, <3>3, Stages DEF Validate
        <5>2. QED
          BY <5>1, StageMoves
      <4>2. D!UseKey(r, n)
        BY <2>1, <3>1, <3>2, <3>3, <4>1 DEF D!UseKey, D!Moves, Open, Stage, Ring, Box
      <4>3. QED
        BY <3>1, <4>2 DEF D!Next
    <3>4. CASE nonces[n].owner # req[r].to
      <4>1. Stage[r] = "inside" /\ Stage' = [Stage EXCEPT ![r] = "away"]
        <5>1. PICK p1 : pc' = [pc EXCEPT ![r] = p1] /\ StageOf(p1) = "away" /\ StageOf(pc[r]) = "inside"
          BY <1>6, <2>2, <3>4, Stages DEF Validate, Answers
        <5>2. QED
          BY <5>1, StageMoves
      <4>2. D!WrongKey(r, n)
        BY <1>1, <2>1, <3>1, <3>2, <3>4, <4>1 DEF D!WrongKey, D!Moves, Open, Stage, Ring, Box
      <4>3. QED
        BY <3>1, <4>2 DEF D!Next
    <3>5. QED
      BY <3>3, <3>4
  <2>3. CASE nonces' = nonces /\ pc' = [pc EXCEPT ![r] = "expired"]
    BY <1>4, <1>6, <2>1, <2>3, RingStays, Stages DEF Validate
  <2>4. QED
    BY <1>6, <2>2, <2>3 DEF Validate
<1>7. CASE CheckExpired(r)
  <2>1. req' = req /\ UNCHANGED <<accountVars, balance>> /\ pc[r] = "expired" /\ Box' = Box
    BY <1>7, BoxStays DEF CheckExpired, creditVars
  <2>2. Ring' = Ring
    <3>1. CASE Expired(req[r].tok) /\ BurnExpired(req[r].tok, r)
      BY <3>1, Rings DEF Expired, BurnExpired, Ring
    <3>2. QED
      BY <1>7, <3>1, RingStays DEF CheckExpired
  <2>3. PICK p \in {"issue", "bounce_rate_limited", "invalid_nonce"} : pc' = [pc EXCEPT ![r] = p]
    BY <1>7 DEF CheckExpired, Knock
  <2>4. CASE p = "issue"
    BY <1>4, <2>1, <2>2, <2>3, <2>4, Stages
  <2>5. CASE p # "issue"
    <3>1. D!TurnAway(r)
      BY <1>3, <2>1, <2>2, <2>3, <2>5, Stages DEF Answers
    <3>2. QED
      BY <3>1 DEF D!Next
  <2>6. QED
    BY <2>4, <2>5
<1>8. CASE GenerateNonce(r)
  <2>1. PICK n \in NonceIds : Generate(n, req[r].to) /\ req' = [req EXCEPT ![r].fresh = n]
    BY <1>8 DEF GenerateNonce
  <2>2. Box' = Box
    BY <2>1 DEF Box, ReqType
  <2>3. Stage' = Stage
    BY <1>8, StageMoves, Stages DEF GenerateNonce, Stage
  <2>4. Ring[n] = "uncut" /\ Ring' = [Ring EXCEPT ![n] = req[r].to]
    <3>1. /\ nonces[n].st = "unborn" /\ nonces'[n].st = "live" /\ nonces'[n].owner = req[r].to
          /\ \A m \in NonceIds : m # n => nonces'[m] = nonces[m]
      BY <2>1 DEF Generate
    <3>2. RingOf(nonces[n]) = "uncut" /\ RingOf(nonces'[n]) = req[r].to
      BY <3>1, Rings
    <3>3. QED
      BY <3>1, <3>2 DEF Ring
  <2>5. Open' = Open /\ nonceOn' = nonceOn /\ balance' = balance /\ req[r].to \in Agents
    BY <1>1, <1>8, OpenStays DEF GenerateNonce, creditVars
  <2>6. D!CutKey(n, req[r].to)
    BY <2>2, <2>3, <2>4, <2>5 DEF D!CutKey, Open, Stage, Ring, Box
  <2>7. QED
    BY <2>5, <2>6 DEF D!Next
<1>9. CASE SendReply(r)
  <2>1. PICK p \in {"knock_replied", "nonce_expired_bounced"} : pc' = [pc EXCEPT ![r] = p]
    BY <1>9 DEF SendReply
  <2>2. StageOf(p) = "away" /\ StageOf(pc[r]) = "inside"
    BY <1>9, <2>1, Stages DEF SendReply, Answers
  <2>3. D!TurnAway(r)
    BY <1>3, <1>9, <2>1, <2>2, RingStays DEF SendReply, creditVars
  <2>4. QED
    BY <2>3 DEF D!Next
<1>10. CASE DeductCredit(r)
  <2>1. /\ req' = req /\ UNCHANGED accountVars /\ pc[r] = "deduct" /\ Box' = Box /\ Ring' = Ring
        /\ Open' = Open /\ nonceOn' = nonceOn /\ Box[r] = req[r].to
    BY <1>10, BoxStays, RingStays, OpenStays DEF DeductCredit, Box
  <2>2. CASE /\ CanDeduct(req[r].to) /\ Deduct(req[r].to) /\ pc' = [pc EXCEPT ![r] = "book"]
    <3>1. Stage[r] = "keyed" /\ Stage' = [Stage EXCEPT ![r] = "paid"]
      <4>1. PICK p1 : pc' = [pc EXCEPT ![r] = p1] /\ StageOf(p1) = "paid" /\ StageOf(pc[r]) = "keyed"
        BY <2>1, <2>2, Stages
      <4>2. QED
        BY <4>1, StageMoves
    <3>2. balance[req[r].to] > 0 /\ balance' = [balance EXCEPT ![req[r].to] = @ - 1]
      BY <1>1, <2>1, <2>2 DEF CanDeduct, Deduct
    <3>3. D!Pay(r)
      BY <2>1, <3>1, <3>2 DEF D!Pay, D!Moves, Open, Stage, Ring, Box
    <3>4. QED
      BY <3>3 DEF D!Next
  <2>3. CASE UNCHANGED creditVars /\ pc' = [pc EXCEPT ![r] = "insufficient_credits"]
    <3>1. StageOf("insufficient_credits") = "away" /\ StageOf(pc[r]) = "keyed"
      BY <2>1, Stages DEF Answers
    <3>2. D!TurnAway(r)
      BY <1>3, <2>1, <2>3, <3>1 DEF creditVars
    <3>3. QED
      BY <3>2 DEF D!Next
  <2>4. QED
    BY <1>10, <2>2, <2>3 DEF DeductCredit
<1>11. CASE BookCharge(r)
  BY <1>4, <1>11, BoxStays, RingStays, Stages DEF BookCharge, BookDebit
<1>12. CASE StoreMessage(r)
  <2>1. PICK p \in {"attach", "received"} : pc' = [pc EXCEPT ![r] = p]
    BY <1>12 DEF StoreMessage
  <2>2. Stage[r] = "paid" /\ Stage' = [Stage EXCEPT ![r] = "lodged"]
    <3>1. PICK p1 : pc' = [pc EXCEPT ![r] = p1] /\ StageOf(p1) = "lodged" /\ StageOf(pc[r]) = "paid"
      BY <1>12, <2>1, Stages DEF StoreMessage
    <3>2. QED
      BY <3>1, StageMoves
  <2>3. /\ Box' = Box /\ Ring' = Ring /\ Open' = Open /\ nonceOn' = nonceOn /\ balance' = balance
    BY <1>12, BoxStays, RingStays, OpenStays DEF StoreMessage, creditVars
  <2>4. D!Lodge(r)
    BY <2>2, <2>3 DEF D!Lodge, D!Moves, Open, Stage, Ring, Box
  <2>5. QED
    BY <2>4 DEF D!Next
<1>13. CASE StoreAttachments(r)
  BY <1>4, <1>13, BoxStays, RingStays, Stages DEF StoreAttachments, creditVars
<1>14. QED
  BY <1>5, <1>6, <1>7, <1>8, <1>9, <1>10, <1>11, <1>12, <1>13 DEF Handler

(* Everything else: failures, the clock, the pages, mails of the agent.     *)
LEMMA OthersImplement ==
    ASSUME IInv, Names, IInv',
           \/ \E r \in Requests : Fail(r)
           \/ Restart
           \/ \E a \in Agents : WindowSlides(a) \/ Grant(a)
           \/ \E n \in NonceIds : Expire(n)
           \/ \E n \in NonceIds, a \in Agents : AgentMail(n, a)
           \/ Settings
           \/ \E o \in Operators, a \in Agents, c \in Contacts : PurgeMessages(o, a, c)
           \/ \E o \in Operators : ChangeContact(o) \/ BurnOldNonces(o)
           \/ UNCHANGED vars
    PROVE  D!Next \/ UNCHANGED doorVars
<1> USE DEF Names
<1>1. ASSUME UNCHANGED <<active, approved, nonceOn, nonces, balance, pc, req>>
      PROVE  UNCHANGED doorVars
  BY <1>1 DEF doorVars, Open, Ring, Stage, Box
<1>2. ASSUME NEW S \in SUBSET NonceIds, UNCHANGED <<active, approved, nonceOn, balance, pc, req>>,
             \A n \in S : nonces[n].st # "unborn" /\ nonces'[n].st \notin {"unborn", "live"}
                          /\ (nonces[n].st = "live" => nonces[n].owner \in Agents),
             \A n \in NonceIds \ S : nonces'[n] = nonces[n]
      PROVE  D!Next
  <2>1. \A n \in S : Ring[n] # "uncut" /\ Ring'[n] = "spent"
    BY <1>2, Rings, InboundAssumption DEF Ring
  <2>2. Ring' = [n \in NonceIds |-> IF n \in S THEN "spent" ELSE Ring[n]]
    BY <1>2, <2>1 DEF Ring
  <2>3. UNCHANGED <<Open, nonceOn, balance, Stage, Box>>
    BY <1>2 DEF Open, Stage, Box
  <2>4. D!SpoilKeys(S)
    BY <2>1, <2>2, <2>3 DEF D!SpoilKeys, Open, Stage, Ring, Box
  <2>5. QED
    BY <2>4 DEF D!Next
<1>3. ASSUME UNCHANGED <<nonces, balance, pc, req>> PROVE D!Next
  <2>1. nonceOn' \in [Agents -> BOOLEAN]
    BY DEF IInv, Typed, TypeOK, AccountsTypeOK
  <2>2. active' \in [Agents -> BOOLEAN] /\ approved' \in [Agents -> BOOLEAN]
    BY DEF IInv, Typed, TypeOK, AccountsTypeOK
  <2>3. Open' \in [Agents -> BOOLEAN]
    BY <2>2 DEF Open
  <2>4. UNCHANGED <<Ring, balance, Stage, Box>>
    BY <1>3 DEF Ring, Stage, Box
  <2>5. D!Owner
    BY <2>1, <2>3, <2>4 DEF D!Owner, Open, Stage, Ring, Box
  <2>6. QED
    BY <2>5 DEF D!Next
<1> USE DEF accountVars, creditVars, requestVars
<1>4. ASSUME NEW r \in Requests, Fail(r) PROVE UNCHANGED doorVars
  BY <1>1, <1>4 DEF Fail
<1>5. ASSUME Restart PROVE UNCHANGED doorVars
  BY <1>1, <1>5 DEF Restart
<1>6. ASSUME NEW a \in Agents, WindowSlides(a) PROVE UNCHANGED doorVars
  BY <1>1, <1>6 DEF WindowSlides
<1>7. ASSUME NEW a \in Agents, Grant(a) PROVE D!Next \/ UNCHANGED doorVars
  <2>1. CASE BookGrant(a)
    BY <1>1, <1>7, <2>1 DEF Grant, BookGrant
  <2>2. CASE AddCredit(a)
    <3>1. UNCHANGED <<Open, nonceOn, Ring, Stage, Box>>
      BY <1>7 DEF Grant, Open, Ring, Stage, Box
    <3>2. D!TopUp(a)
      BY <2>2, <3>1 DEF AddCredit, D!TopUp, Open, Stage, Ring, Box
    <3>3. QED
      BY <3>2 DEF D!Next
  <2>3. QED
    BY <1>7, <2>1, <2>2 DEF Grant
<1>8. ASSUME NEW n \in NonceIds, Expire(n) PROVE D!Next
  <2>1. /\ nonces[n].st = "live" /\ nonces'[n].st = "stale" /\ nonces[n].owner \in Agents
        /\ \A m \in NonceIds \ {n} : nonces'[m] = nonces[m]
        /\ UNCHANGED <<active, approved, nonceOn, balance, pc, req>>
    BY <1>8 DEF Expire, PassExpiry, IInv, Rows
  <2>2. \A m \in {n} : nonces[m].st # "unborn" /\ nonces'[m].st \notin {"unborn", "live"}
                       /\ (nonces[m].st = "live" => nonces[m].owner \in Agents)
    BY <2>1
  <2>3. {n} \in SUBSET NonceIds
    OBVIOUS
  <2>4. QED
    BY <1>2, <2>1, <2>2, <2>3
<1>9. ASSUME NEW n \in NonceIds, NEW a \in Agents, AgentMail(n, a) PROVE D!Next
  <2>1. UNCHANGED <<Open, nonceOn, balance, Stage, Box>>
    BY <1>9 DEF AgentMail, Open, Stage, Box
  <2>2. /\ nonces[n].st = "unborn" /\ nonces'[n].st = "live" /\ nonces'[n].owner = a
        /\ \A m \in NonceIds : m # n => nonces'[m] = nonces[m]
    BY <1>9 DEF AgentMail, Generate
  <2>3. RingOf(nonces[n]) = "uncut" /\ RingOf(nonces'[n]) = a
    BY <2>2, Rings
  <2>4. Ring[n] = "uncut" /\ Ring' = [Ring EXCEPT ![n] = a]
    BY <2>2, <2>3 DEF Ring
  <2>5. D!CutKey(n, a)
    BY <2>1, <2>4 DEF D!CutKey, Open, Stage, Ring, Box
  <2>6. QED
    BY <2>5 DEF D!Next
<1>10. ASSUME Settings PROVE D!Next
  BY <1>3, <1>10 DEF Settings
<1>11. ASSUME NEW o \in Operators, NEW a \in Agents, NEW c \in Contacts, PurgeMessages(o, a, c)
       PROVE  D!Next
  BY <1>3, <1>11 DEF PurgeMessages
<1>12. ASSUME NEW o \in Operators, ChangeContact(o) PROVE D!Next
  BY <1>3, <1>12 DEF ChangeContact
<1>13. ASSUME NEW o \in Operators, BurnOldNonces(o) PROVE D!Next
  <2> DEFINE S == {n \in NonceIds : nonces[n].owner = op[o].agent}
  <2>1. op[o].agent \in Agents
    BY <1>13 DEF BurnOldNonces, RebindDone, IInv, Typed, TypeOK, AccountsTypeOK, Pending
  <2>2. \A n \in S : nonces[n].owner \in Agents /\ nonces[n].st # "unborn"
    BY <2>1 DEF IInv, Rows
  <2>3. \A n \in S : nonces'[n].st = "deleted"
    BY <1>13 DEF BurnOldNonces, DeleteNonces
  <2>4. \A n \in NonceIds \ S : nonces'[n] = nonces[n]
    BY <1>13 DEF BurnOldNonces, DeleteNonces
  <2>5. UNCHANGED <<active, approved, nonceOn, balance, pc, req>>
    BY <1>13 DEF BurnOldNonces, RebindDone
  <2>6. QED
    BY <1>2, <2>2, <2>3, <2>4, <2>5
<1>14. ASSUME UNCHANGED vars PROVE UNCHANGED doorVars
  BY <1>1, <1>14 DEF vars
<1>15. QED
  BY <1>4, <1>5, <1>6, <1>7, <1>8, <1>9, <1>10, <1>11, <1>12, <1>13, <1>14

(* The handler implements the promise of module Door: a message is stored   *)
(* only for a POST that found the channel open, had a working key or no     *)
(* lock, and paid, with every await of the handler open to every other      *)
(* handler and page.                                                        *)
THEOREM HandlerKeepsPromise == Spec => DoorPromise
<1>1. Init => D!Init
  <2> SUFFICES ASSUME Init PROVE D!Init
    OBVIOUS
  <2>1. /\ active \in [Agents -> BOOLEAN] /\ approved \in [Agents -> BOOLEAN]
        /\ nonceOn \in [Agents -> BOOLEAN] /\ balance \in [Agents -> Nat]
    BY CreditsAssumption DEF Init, AccountsInit, CreditsInit
  <2>2. Ring = [n \in NonceIds |-> "uncut"]
    BY Rings DEF Init, NonceInit, Ring
  <2>3. Stage = [r \in Requests |-> "outside"]
    BY Stages DEF Init, Stage
  <2>4. Box = [r \in Requests |-> Nobody]
    BY DEF Init, Box
  <2>5. Open \in [Agents -> BOOLEAN]
    BY <2>1 DEF Open
  <2>6. QED
    BY <2>1, <2>2, <2>3, <2>4, <2>5 DEF D!Init, Open, Ring, Stage, Box
<1>2. IInv /\ IInv' /\ [Next]_vars => [D!Next]_(D!vars)
  <2> SUFFICES ASSUME IInv, IInv', [Next]_vars PROVE D!Next \/ UNCHANGED doorVars
    BY DEF D!vars, doorVars, Open, Ring, Stage, Box
  <2>1. Names
    BY Named
  <2>2. QED
    BY <2>1, SelectImplements, HandlerImplements, OthersImplement DEF Next
<1>3. QED
  BY <1>1, <1>2, Inductive, PTL DEF Spec, DoorPromise, D!Spec
=============================================================================
