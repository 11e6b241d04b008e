--------------------------- MODULE Outbound_proofs ---------------------------
(***************************************************************************)
(* Proofs about sending, for any number of agents, letters and pages at a  *)
(* time, and for every starting balance.                                   *)
(*                                                                         *)
(* The argument: a request that has looked at a balance and not been       *)
(* crossed since still finds the credit it saw.  What a request has done   *)
(* is written in where it is: Shape says it of its record, Copied of the   *)
(* mail and the two copies.  The money is then a matter of counting the    *)
(* requests that paid.                                                     *)
(***************************************************************************)
EXTENDS Outbound, FiniteSetTheorems, TLAPS

(* Every page of the account side keeps the columns typed.                  *)
LEMMA AccountsTyped ==
    ASSUME AccountsTypeOK,
           \/ AccountsStep
           \/ \E o \in Operators, a \in Agents, c \in Contacts : RebindRead(o, a, c)
           \/ \E o \in Operators : RebindWrite(o) \/ RebindDone(o)
    PROVE  AccountsTypeOK'
<1> USE DEF AccountsTypeOK, NextOp, Pending
<1>0. ops < MaxOps /\ ops' = ops + 1 => ops' \in 0..MaxOps
  BY AccountsAssumption
<1>1. ASSUME NEW a \in Agents, SwitchNonce(a) \/ SetChannel(a) \/ SetApproval(a) \/ SetContact(a)
      PROVE  AccountsTypeOK'
  BY <1>0, <1>1 DEF SwitchNonce, SetChannel, SetApproval, SetContact
<1>2. ASSUME NEW o \in Operators, NEW k, NEW a \in Agents, NEW v, Starts(o, k, a, v),
             [kind |-> k, agent |-> a, to |-> v] \in Pending
      PROVE  op' \in [Operators -> {Idle} \cup Pending] /\ ops' \in 0..MaxOps
  BY <1>0, <1>2 DEF Starts
<1>3. ASSUME NEW o \in Operators, NEW a \in Agents, AllstopRead(o, a) PROVE AccountsTypeOK'
  BY <1>2, <1>3 DEF AllstopRead
<1>4. ASSUME NEW o \in Operators, NEW a \in Agents, ToggleRead(o, a) PROVE AccountsTypeOK'
  <2>1. active[a] \in BOOLEAN /\ approved[a] \in BOOLEAN
    OBVIOUS
  <2>2. CASE Starts(o, "channel", a, ~active[a])
    <3>1. [kind |-> "channel", agent |-> a, to |-> ~active[a]] \in Pending
      BY <2>1
    <3>2. QED
      BY <1>2, <1>4, <2>2, <3>1 DEF ToggleRead
  <2>3. CASE Starts(o, "approval", a, ~approved[a])
    <3>1. [kind |-> "approval", agent |-> a, to |-> ~approved[a]] \in Pending
      BY <2>1
    <3>2. QED
      BY <1>2, <1>4, <2>3, <3>1 DEF ToggleRead
  <2>4. QED
    BY <1>4, <2>2, <2>3 DEF ToggleRead
<1>5. ASSUME NEW o \in Operators, ColumnWrite(o) PROVE AccountsTypeOK'
  <2>1. op[o] \in Pending /\ op[o].kind \in {"allstop", "channel", "approval"}
    BY <1>5 DEF ColumnWrite
  <2>2. op[o].agent \in Agents /\ op[o].to \in BOOLEAN
    BY <2>1
  <2>3. op' \in [Operators -> {Idle} \cup Pending]
    BY <1>5 DEF ColumnWrite
  <2>4. active' \in [Agents -> BOOLEAN] /\ approved' \in [Agents -> BOOLEAN]
    BY <1>5, <2>2 DEF ColumnWrite
  <2>5. QED
    BY <1>5, <2>3, <2>4 DEF ColumnWrite
<1>6. ASSUME NEW o \in Operators, NEW a \in Agents, NEW c \in Contacts, RebindRead(o, a, c)
      PROVE  AccountsTypeOK'
  BY <1>2, <1>6 DEF RebindRead
<1>7. ASSUME NEW o \in Operators, RebindWrite(o) PROVE AccountsTypeOK'
  <2>1. op[o] \in Pending /\ op[o].kind = "rebind"
    BY <1>7 DEF RebindWrite
  <2>2. op[o].agent \in Agents /\ op[o].to \in Contacts
    BY <2>1
  <2>3. op[o] \in [kind : {"rebind", "burn"}, agent : Agents, to : Contacts]
    BY <2>1
  <2>4. [op[o] EXCEPT !.kind = "burn"] \in Pending
    BY <2>3
  <2>5. op' = [op EXCEPT ![o] = [op[o] EXCEPT !.kind = "burn"]]
    BY <1>7 DEF RebindWrite
  <2>6. op' \in [Operators -> {Idle} \cup Pending]
    BY <2>4, <2>5
  <2>7. contact' \in [Agents -> Contacts]
    BY <1>7, <2>2 DEF RebindWrite
  <2>8. QED
    BY <1>7, <2>6, <2>7 DEF RebindWrite
<1>8. ASSUME NEW o \in Operators, RebindDone(o) PROVE AccountsTypeOK'
  BY <1>8 DEF RebindDone
<1>9. QED
  BY <1>1, <1>3, <1>4, <1>5, <1>6, <1>7, <1>8 DEF AccountsStep

(* The nonce statements keep the table typed.                               *)
LEMMA NoncesTyped ==
    ASSUME NonceTypeOK,
           \/ \E n \in NonceIds, a \in Agents : Generate(n, a)
           \/ \E n \in NonceIds, r \in Requests : BurnValid(n, r) \/ BurnExpired(n, r)
           \/ \E n \in NonceIds : PassExpiry(n)
           \/ \E a \in Agents : DeleteNonces(a)
    PROVE  NonceTypeOK'
<1> DEFINE Row == [st : {"unborn", "live", "stale", "used", "lapsed", "deleted"},
                   owner : Agents \cup {Nobody}, by : Requests \cup {Nobody}]
<1>1. nonces \in [NonceIds -> Row]
  BY DEF NonceTypeOK
<1>2. ASSUME NEW n \in NonceIds, NEW row \in Row, nonces' = [nonces EXCEPT ![n] = row]
      PROVE  NonceTypeOK'
  BY <1>1, <1>2 DEF NonceTypeOK
<1>3. ASSUME NEW n \in NonceIds, NEW a \in Agents, Generate(n, a) PROVE NonceTypeOK'
  BY <1>2, <1>3 DEF Generate
<1>4. ASSUME NEW n \in NonceIds, NEW r \in Requests, NEW s \in {"used", "lapsed"},
             nonces' = [nonces EXCEPT ![n] = [@ EXCEPT !.st = s, !.by = r]]
      PROVE  NonceTypeOK'
  <2>1. nonces[n] \in Row
    BY <1>1
  <2>2. [nonces[n] EXCEPT !.st = s, !.by = r] \in Row
    BY <2>1
  <2>3. nonces' = [nonces EXCEPT ![n] = [nonces[n] EXCEPT !.st = s, !.by = r]]
    BY <1>1, <1>4
  <2>4. QED
    BY <1>2, <2>2, <2>3
<1>5. ASSUME NEW n \in NonceIds, PassExpiry(n) PROVE NonceTypeOK'
  BY <1>1, <1>5 DEF PassExpiry, NonceTypeOK
<1>6. ASSUME NEW a \in Agents, DeleteNonces(a) PROVE NonceTypeOK'
  BY <1>1, <1>6 DEF DeleteNonces, NonceTypeOK
<1>7. QED
  BY <1>3, <1>4, <1>5, <1>6 DEF BurnValid, BurnExpired

(* The statements on the balance and on the ledger keep them typed.  The    *)
(* balance stays a natural number because the UPDATE is conditional.        *)
LEMMA CreditsTyped ==
    ASSUME CreditsTypeOK, NEW a \in Agents,
           (CanDeduct(a) /\ Deduct(a)) \/ BookDebit(a) \/ AddCredit(a) \/ BookGrant(a)
    PROVE  CreditsTypeOK'
<1> USE DEF CreditsTypeOK
<1>1. CASE CanDeduct(a) /\ Deduct(a)
  BY <1>1 DEF CanDeduct, Deduct
<1>2. CASE BookDebit(a)
  BY <1>2 DEF BookDebit
<1>3. CASE AddCredit(a)
  BY <1>3, CreditsAssumption DEF AddCredit
<1>4. CASE BookGrant(a)
  BY <1>4, CreditsAssumption DEF BookGrant
<1>5. QED
  BY <1>1, <1>2, <1>3, <1>4

(* A step that leaves the tables of another component alone.                *)
LEMMA TablesIdle ==
    /\ AccountsTypeOK /\ UNCHANGED accountVars => AccountsTypeOK'
    /\ NonceTypeOK /\ UNCHANGED nonces => NonceTypeOK'
    /\ CreditsTypeOK /\ UNCHANGED creditVars => CreditsTypeOK'
  BY DEF AccountsTypeOK, accountVars, NonceTypeOK, CreditsTypeOK, creditVars

-----------------------------------------------------------------------------
ReqStates == [from : Agents \cup {Nobody}, to : Contacts \cup {Nobody},
              files : BOOLEAN, paid : BOOLEAN, paidTo : BOOLEAN]
Places == {"new"} \cup Waiting \cup Answers

(* Where a request cannot have charged its sender, or its recipient, yet.   *)
Unpaid == {"new", "recipient", "nonce", "mail", "charge"} \cup Refusals
UnpaidTo == Unpaid \cup {"book", "chargeTo"}

Shape(s) ==
    /\ pc[s] = "new" => req[s].from = Nobody /\ req[s].to = Nobody
    /\ pc[s] # "new" => req[s].from \in Agents /\ req[s].to \in Contacts
    /\ pc[s] = "recipient" => Internal(req[s].to)
    /\ pc[s] \in {"nonce", "mail"} => ~Internal(req[s].to)
    /\ pc[s] \in {"charge", "book"} => req[s].to # Ghost
    /\ pc[s] \in {"chargeTo", "bookTo"} => req[s].to \in Agents
    /\ pc[s] \in Unpaid => ~req[s].paid
    /\ pc[s] \in UnpaidTo => ~req[s].paidTo
    /\ pc[s] = "book" => req[s].paid
    /\ pc[s] = "bookTo" => req[s].paidTo

Copied(s) ==
    /\ pc[s] \in Unpaid \ {"charge"} => s \notin mailed
    /\ pc[s] \in UnpaidTo \cup {"bookTo", "out"} => outbox[s] = "none"
    /\ pc[s] \in UnpaidTo \cup {"bookTo", "out", "outFiles", "in"} => inbox[s] = "none"
    /\ pc[s] \in {"outFiles", "in", "inFiles", "tee", "sent", "delivered", "error"} =>
          outbox[s] # "none"
    /\ pc[s] \in {"in", "inFiles", "tee"} => Internal(req[s].to)
    /\ pc[s] \in {"inFiles", "tee"} => inbox[s] # "none"
    /\ pc[s] \in {"sent", "delivered", "error"} => (inbox[s] # "none") = Internal(req[s].to)

Formed == \A s \in Sends : Shape(s) /\ Copied(s)

(* Who looked at a balance and was not crossed still finds a credit there.  *)
Secure ==
    \A s \in Sends, a \in Agents : Awaiting(s, a) /\ <<s, a>> \notin crossed => balance[a] >= 1

PaidFrom(a) == {s \in Sends : req[s].from = a /\ req[s].paid}
PaidTo(a) == {s \in Sends : req[s].to = a /\ req[s].paidTo}
BookFrom(a) == {s \in Sends : req[s].from = a /\ pc[s] = "book"}
BookTo(a) == {s \in Sends : req[s].to = a /\ pc[s] = "bookTo"}

IInv == Formed /\ Secure /\ FreeOnlyInARace /\ MoneyAccounted

-----------------------------------------------------------------------------
(* Type correctness.                                                        *)

(* A request moves on with the record it has or a new one.                  *)
LEMMA Moves ==
  ASSUME TypeOK, NEW s \in Sends, NEW p \in Places, NEW r \in ReqStates,
         Goto(s, p), req' = [req EXCEPT ![s] = r]
  PROVE  /\ pc' \in [Sends -> Places] /\ pc'[s] = p
         /\ req' \in [Sends -> ReqStates] /\ req'[s] = r
         /\ \A t \in Sends \ {s} : pc'[t] = pc[t] /\ req'[t] = req[t]
  BY DEF TypeOK, Goto, Places, ReqStates

LEMMA Stays ==
  ASSUME TypeOK, NEW s \in Sends, NEW p \in Places, Goto(s, p), req' = req
  PROVE  /\ pc' \in [Sends -> Places] /\ pc'[s] = p
         /\ req' \in [Sends -> ReqStates]
         /\ \A t \in Sends \ {s} : pc'[t] = pc[t] /\ req'[t] = req[t]
  BY DEF TypeOK, Goto, Places, ReqStates

(* What one step of a handler does to the requests: one of them moves on,   *)
(* from and to places that Shape and Copied know of.                        *)
LEMMA HandlerMoves ==
  ASSUME TypeOK, Formed, NEW s \in Sends, Handler(s)
  PROVE  /\ pc' \in [Sends -> Places] /\ req' \in [Sends -> ReqStates]
         /\ \A t \in Sends \ {s} : pc'[t] = pc[t] /\ req'[t] = req[t]
         /\ Shape(s)'
<1>a. Shape(s) /\ req[s] \in ReqStates /\ pc[s] \in Places
  BY DEF Formed, TypeOK, ReqStates, Places
<1>b. Ghost \notin Agents /\ Nobody \notin Contacts
  BY OutboundAssumption
<1> USE DEF Places, Waiting, Answers, Refusals
<1>1. CASE ReadRecipient(s)
  <2>1. PICK p \in {"no_recipient", "not_available", "recipient_inactive", "not_mutual",
                    "recipient_broke", "charge"} :
           Goto(s, p) /\ (p = "charge" => req[s].to # Ghost)
    BY <1>1 DEF ReadRecipient
  <2>2. req' = req /\ pc[s] = "recipient"
    BY <1>1 DEF ReadRecipient
  <2>3. QED
    BY <1>a, <2>1, <2>2, Stays DEF Shape, Internal, Unpaid, UnpaidTo
<1>2. CASE IssueNonce(s)
  BY <1>a, <1>2, Stays DEF IssueNonce, Shape, Internal, Unpaid, UnpaidTo
<1>3. CASE SendMail(s)
  BY <1>a, <1>3, Stays DEF SendMail, Shape, Internal, Unpaid, UnpaidTo
<1>4. CASE ChargeSender(s)
  <2>1. CASE CanDeduct(req[s].from)
    <3>1. pc[s] = "charge" /\ Goto(s, "book") /\ req' = [req EXCEPT ![s] = [req[s] EXCEPT !.paid = TRUE]]
      BY <1>4, <2>1 DEF ChargeSender, TypeOK
    <3>2. /\ [req[s] EXCEPT !.paid = TRUE] \in ReqStates
          /\ [req[s] EXCEPT !.paid = TRUE].from = req[s].from
          /\ [req[s] EXCEPT !.paid = TRUE].to = req[s].to
          /\ [req[s] EXCEPT !.paid = TRUE].paid
          /\ [req[s] EXCEPT !.paid = TRUE].paidTo = req[s].paidTo
      BY <1>a DEF ReqStates
    <3>3. /\ pc' \in [Sends -> Places] /\ pc'[s] = "book"
          /\ req' \in [Sends -> ReqStates] /\ req'[s] = [req[s] EXCEPT !.paid = TRUE]
          /\ \A t \in Sends \ {s} : pc'[t] = pc[t] /\ req'[t] = req[t]
      BY <3>1, <3>2, Moves
    <3>4. Shape(s)'
      BY <1>a, <3>1, <3>2, <3>3 DEF Shape, Internal, Unpaid, UnpaidTo
    <3>5. QED
      BY <3>3, <3>4
  <2>2. CASE ~CanDeduct(req[s].from)
    <3>1. pc[s] = "charge" /\ Goto(s, AfterCharge(s)) /\ req' = req
      BY <1>4, <2>2 DEF ChargeSender
    <3>2. AfterCharge(s) \in Places
      BY DEF AfterCharge
    <3>3. (AfterCharge(s) = "chargeTo" /\ req[s].to \in Agents) \/ AfterCharge(s) = "out"
      BY <1>a, <1>b, <3>1 DEF AfterCharge, Internal, Shape
    <3>4. QED
      BY <1>a, <3>1, <3>2, <3>3, Stays DEF Shape, Internal, Unpaid, UnpaidTo
  <2>3. QED
    BY <2>1, <2>2
<1>5. CASE BookSender(s)
  <2>1. pc[s] = "book" /\ Goto(s, AfterCharge(s)) /\ req' = req
    BY <1>5 DEF BookSender
  <2>2. AfterCharge(s) \in Places
    BY DEF AfterCharge
  <2>3. (AfterCharge(s) = "chargeTo" /\ req[s].to \in Agents) \/ AfterCharge(s) = "out"
    BY <1>a, <1>b, <2>1 DEF AfterCharge, Internal, Shape
  <2>4. QED
    BY <1>a, <2>1, <2>2, <2>3, Stays DEF Shape, Internal, Unpaid, UnpaidTo
<1>6. CASE ChargeRecipient(s)
  <2>1. CASE CanDeduct(req[s].to)
    <3>1. pc[s] = "chargeTo" /\ Goto(s, "bookTo")
          /\ req' = [req EXCEPT ![s] = [req[s] EXCEPT !.paidTo = TRUE]]
      BY <1>6, <2>1 DEF ChargeRecipient, TypeOK
    <3>2. /\ [req[s] EXCEPT !.paidTo = TRUE] \in ReqStates
          /\ [req[s] EXCEPT !.paidTo = TRUE].from = req[s].from
          /\ [req[s] EXCEPT !.paidTo = TRUE].to = req[s].to
          /\ [req[s] EXCEPT !.paidTo = TRUE].paidTo
          /\ [req[s] EXCEPT !.paidTo = TRUE].paid = req[s].paid
      BY <1>a DEF ReqStates
    <3>3. /\ pc' \in [Sends -> Places] /\ pc'[s] = "bookTo"
          /\ req' \in [Sends -> ReqStates] /\ req'[s] = [req[s] EXCEPT !.paidTo = TRUE]
          /\ \A t \in Sends \ {s} : pc'[t] = pc[t] /\ req'[t] = req[t]
      BY <3>1, <3>2, Moves
    <3>4. Shape(s)'
      BY <1>a, <3>1, <3>2, <3>3 DEF Shape, Internal, Unpaid, UnpaidTo
    <3>5. QED
      BY <3>3, <3>4
  <2>2. CASE ~CanDeduct(req[s].to)
    BY <1>a, <1>6, <2>2, Stays DEF ChargeRecipient, Shape, Internal, Unpaid, UnpaidTo
  <2>3. QED
    BY <2>1, <2>2
<1>7. CASE BookRecipient(s)
  BY <1>a, <1>7, Stays DEF BookRecipient, Shape, Internal, Unpaid, UnpaidTo
<1>8. ASSUME pc[s] \in {"out", "outFiles", "in", "inFiles", "tee"}, req' = req,
             \E p \in {"outFiles", "in", "inFiles", "tee", "sent", "delivered", "error"} : Goto(s, p)
      PROVE  /\ pc' \in [Sends -> Places] /\ req' \in [Sends -> ReqStates]
             /\ \A t \in Sends \ {s} : pc'[t] = pc[t] /\ req'[t] = req[t]
             /\ Shape(s)'
  <2>1. PICK p \in {"outFiles", "in", "inFiles", "tee", "sent", "delivered", "error"} : Goto(s, p)
    BY <1>8
  <2>2. QED
    BY <1>a, <1>8, <2>1, Stays DEF Shape, Internal, Unpaid, UnpaidTo
<1>9. CASE StoreOut(s) \/ FileOut(s) \/ StoreIn(s) \/ FileIn(s) \/ Tee(s)
  <2>1. Answer(s) \in {"sent", "delivered", "error"}
    BY DEF Answer
  <2>2. AfterOut(s) \in {"in", "sent", "delivered", "error"}
    BY <2>1 DEF AfterOut
  <2>3. \E p \in {"outFiles", "in", "inFiles", "tee", "sent", "delivered", "error"} : Goto(s, p)
    BY <1>9, <2>1, <2>2 DEF StoreOut, FileOut, StoreIn, FileIn, Tee
  <2>4. pc[s] \in {"out", "outFiles", "in", "inFiles", "tee"} /\ req' = req
    BY <1>9 DEF StoreOut, FileOut, StoreIn, FileIn, Tee
  <2>5. QED
    BY <1>8, <2>3, <2>4
<1>10. QED
  BY <1>1, <1>2, <1>3, <1>4, <1>5, <1>6, <1>7, <1>9 DEF Handler

(* The same for its mail and its copies.                                    *)
LEMMA HandlerCopies ==
  ASSUME TypeOK, Formed, NEW s \in Sends, Handler(s)
  PROVE  /\ Copied(s)'
         /\ \A t \in Sends \ {s} : /\ t \in mailed' <=> t \in mailed
                                   /\ outbox'[t] = outbox[t] /\ inbox'[t] = inbox[t]
<1>a. /\ Shape(s) /\ Copied(s) /\ pc \in [Sends -> Places]
      /\ outbox \in [Sends -> {"none", "stored", "deleted"}]
      /\ inbox \in [Sends -> {"none", "stored", "deleted"}]
  BY DEF Formed, TypeOK, Places
<1>b. \A p : Goto(s, p) => pc'[s] = p
  BY <1>a DEF Goto
<1> USE DEF Unpaid, UnpaidTo, Refusals
<1>1. CASE UNCHANGED copyVars
  <2>1. UNCHANGED <<mailed, outbox, inbox>>
    BY <1>1 DEF copyVars
  <2>2. CASE ReadRecipient(s) \/ IssueNonce(s)
    BY <1>a, <1>b, <2>1, <2>2 DEF ReadRecipient, IssueNonce, Copied
  <2>3. CASE ChargeSender(s) \/ BookSender(s) \/ ChargeRecipient(s) \/ BookRecipient(s)
    BY <1>a, <1>b, <2>1, <2>3 DEF ChargeSender, BookSender, ChargeRecipient, BookRecipient,
                                  AfterCharge, Copied
  <2>4. CASE FileOut(s)
    <3>1. pc[s] = "outFiles" /\ pc'[s] = AfterOut(s) /\ req' = req
      BY <1>b, <2>4 DEF FileOut
    <3>2. QED
      BY <1>a, <2>1, <3>1 DEF Copied, AfterOut, Answer, Internal
  <2>5. CASE FileIn(s) \/ Tee(s)
    <3>1. pc[s] \in {"inFiles", "tee"} /\ pc'[s] \in {"tee", Answer(s)} /\ req' = req
      BY <1>b, <2>5 DEF FileIn, Tee
    <3>2. QED
      BY <1>a, <2>1, <3>1 DEF Copied, Answer, Internal
  <2>6. CASE SendMail(s)
    BY <1>a, <1>b, <2>1, <2>6 DEF SendMail, Copied
  <2>7. CASE StoreOut(s) \/ StoreIn(s)
    <3>1. FALSE
      BY <1>a, <2>1, <2>7 DEF StoreOut, StoreIn, Copied
    <3>2. QED
      BY <3>1
  <2>8. QED
    BY <2>2, <2>3, <2>4, <2>5, <2>6, <2>7 DEF Handler
<1>2. CASE SendMail(s)
  BY <1>a, <1>b, <1>2 DEF SendMail, Copied
<1>3. CASE StoreOut(s)
  <2>1. /\ pc[s] = "out" /\ req' = req /\ pc'[s] \in {"outFiles", AfterOut(s)}
        /\ outbox' = [outbox EXCEPT ![s] = "stored"] /\ UNCHANGED <<inbox, mailed>>
    BY <1>b, <1>3 DEF StoreOut
  <2>2. QED
    BY <1>a, <2>1 DEF Copied, AfterOut, Answer, Internal
<1>4. CASE StoreIn(s)
  <2>1. /\ pc[s] = "in" /\ req' = req /\ pc'[s] \in {"inFiles", "tee"}
        /\ inbox' = [inbox EXCEPT ![s] = "stored"] /\ UNCHANGED <<outbox, mailed>>
    BY <1>b, <1>4 DEF StoreIn
  <2>2. QED
    BY <1>a, <2>1 DEF Copied, Internal
<1>5. Handler(s) => UNCHANGED copyVars \/ SendMail(s) \/ StoreOut(s) \/ StoreIn(s)
  BY DEF Handler, ReadRecipient, IssueNonce, ChargeSender, BookSender, ChargeRecipient,
         BookRecipient, FileOut, FileIn, Tee
<1>6. QED
  BY <1>1, <1>2, <1>3, <1>4, <1>5

(* A handler keeps the tables it writes typed.                              *)
LEMMA HandlerTables ==
  ASSUME TypeOK, Formed, NEW s \in Sends, Handler(s)
  PROVE  /\ AccountsTypeOK' /\ NonceTypeOK' /\ CreditsTypeOK'
         /\ mailed' \subseteq Sends /\ crossed' \subseteq Sends \X Agents
         /\ outbox' \in [Sends -> {"none", "stored", "deleted"}]
         /\ inbox' \in [Sends -> {"none", "stored", "deleted"}]
         /\ UNCHANGED <<accountVars, elsewhere>>
<1>a. AccountsTypeOK /\ NonceTypeOK /\ CreditsTypeOK /\ crossed \subseteq Sends \X Agents /\ Shape(s)
  BY DEF TypeOK, Formed
<1>1. UNCHANGED <<accountVars, elsewhere>>
  BY DEF Handler, ReadRecipient, IssueNonce, SendMail, ChargeSender, BookSender,
         ChargeRecipient, BookRecipient, StoreOut, FileOut, StoreIn, FileIn, Tee
<1>2. NonceTypeOK'
  <2>1. CASE IssueNonce(s)
    BY <1>a, <2>1, NoncesTyped DEF IssueNonce, Shape
  <2>2. CASE UNCHANGED nonces
    BY <1>a, <2>2, TablesIdle
  <2>3. QED
    BY <2>1, <2>2 DEF Handler, ReadRecipient, SendMail, ChargeSender, BookSender,
         ChargeRecipient, BookRecipient, StoreOut, FileOut, StoreIn, FileIn, Tee
<1>3. CreditsTypeOK'
  <2>1. CASE ChargeSender(s) \/ BookSender(s)
    <3>1. req[s].from \in Agents
      BY <1>a, <2>1 DEF ChargeSender, BookSender, Shape
    <3>2. QED
      BY <1>a, <2>1, <3>1, CreditsTyped, TablesIdle DEF ChargeSender, BookSender
  <2>2. CASE ChargeRecipient(s) \/ BookRecipient(s)
    <3>1. req[s].to \in Agents
      BY <1>a, <2>2 DEF ChargeRecipient, BookRecipient, Shape
    <3>2. QED
      BY <1>a, <2>2, <3>1, CreditsTyped, TablesIdle DEF ChargeRecipient, BookRecipient
  <2>3. CASE UNCHANGED creditVars
    BY <1>a, <2>3, TablesIdle
  <2>4. QED
    BY <2>1, <2>2, <2>3 DEF Handler, ReadRecipient, IssueNonce, SendMail,
         StoreOut, FileOut, StoreIn, FileIn, Tee
<1>4. crossed' \subseteq Sends \X Agents
  <2>1. CASE ChargeSender(s)
    BY <1>a, <2>1 DEF ChargeSender, Cross, Shape
  <2>2. CASE ChargeRecipient(s)
    BY <1>a, <2>2 DEF ChargeRecipient, Cross, Shape
  <2>3. CASE UNCHANGED crossed
    BY <1>a, <2>3
  <2>4. QED
    BY <2>1, <2>2, <2>3 DEF Handler, ReadRecipient, IssueNonce, SendMail, BookSender,
         BookRecipient, StoreOut, FileOut, StoreIn, FileIn, Tee
<1>5. /\ mailed' \subseteq Sends
      /\ outbox' \in [Sends -> {"none", "stored", "deleted"}]
      /\ inbox' \in [Sends -> {"none", "stored", "deleted"}]
  BY DEF TypeOK, Handler, ReadRecipient, IssueNonce, SendMail, ChargeSender, BookSender,
         ChargeRecipient, BookRecipient, StoreOut, FileOut, StoreIn, FileIn, Tee, copyVars
<1>6. QED
  BY <1>1, <1>2, <1>3, <1>4, <1>5, <1>a, TablesIdle

(* What the first step of a request may decide.                             *)
LEMMA Verdicts ==
  ASSUME NEW a, NEW files
  PROVE  LET v == Verdict(a, files) IN
         /\ v \in Refusals \cup {"recipient", "nonce", "mail"}
         /\ v = "recipient" => Internal(contact[a])
         /\ v \in {"nonce", "mail"} => ~Internal(contact[a])
         /\ v \in {"recipient", "nonce", "mail"} => ~(balance[a] < 1)
  BY DEF Verdict, Refusals

(* The first step of a request, in terms of the record it makes.            *)
LEMMA AdmitMoves ==
  ASSUME TypeOK, Formed, NEW s \in Sends, NEW a \in Agents, NEW f \in Parcels, Admit(s, a, f)
  PROVE  /\ pc' \in [Sends -> Places] /\ req' \in [Sends -> ReqStates]
         /\ \A t \in Sends \ {s} : pc'[t] = pc[t] /\ req'[t] = req[t]
         /\ pc[s] = "new" /\ pc'[s] \in Refusals \cup {"recipient", "nonce", "mail"}
         /\ pc'[s] \notin Refusals => balance[a] >= 1
         /\ req'[s].from = a /\ req'[s].paid = req[s].paid /\ req'[s].paidTo = req[s].paidTo
         /\ Shape(s)' /\ Copied(s)'
<1>a. Shape(s) /\ Copied(s) /\ req[s] \in ReqStates /\ contact[a] \in Contacts
  BY DEF Formed, TypeOK, ReqStates, AccountsTypeOK
<1>b. UNCHANGED copyVars /\ balance[a] \in Nat
  BY DEF Admit, TypeOK, CreditsTypeOK
<1>1. PICK p \in {"rate_limited", Verdict(a, f)} : Goto(s, p)
  BY DEF Admit
<1>2. /\ p \in Refusals \cup {"recipient", "nonce", "mail"}
      /\ p = "recipient" => Internal(contact[a])
      /\ p \in {"nonce", "mail"} => ~Internal(contact[a])
      /\ p \notin Refusals => balance[a] >= 1
  BY <1>b, Verdicts DEF Refusals
<1>3. PICK r \in ReqStates : /\ req' = [req EXCEPT ![s] = r]
                             /\ r.from = a /\ r.to = contact[a]
                             /\ r.paid = req[s].paid /\ r.paidTo = req[s].paidTo
  <2>1. (f = "good") \in BOOLEAN
    OBVIOUS
  <2>2. [req[s] EXCEPT !.from = a, !.to = contact[a], !.files = (f = "good")] \in ReqStates
    BY <1>a, <2>1 DEF ReqStates
  <2>3. req' = [req EXCEPT ![s] =
                  [req[s] EXCEPT !.from = a, !.to = contact[a], !.files = (f = "good")]]
    BY DEF Admit, TypeOK
  <2>4. QED
    BY <1>a, <2>2, <2>3 DEF ReqStates
<1>4. p \in Places
  BY <1>2 DEF Places, Waiting, Answers
<1>5. /\ pc' \in [Sends -> Places] /\ pc'[s] = p
      /\ req' \in [Sends -> ReqStates] /\ req'[s] = r
      /\ \A t \in Sends \ {s} : pc'[t] = pc[t] /\ req'[t] = req[t]
  BY <1>1, <1>3, <1>4, Moves
<1>6. pc[s] = "new"
  BY DEF Admit
<1>7. Shape(s)'
  BY <1>a, <1>2, <1>3, <1>5, <1>6 DEF Shape, Internal, Unpaid, UnpaidTo, Refusals
<1>8. Copied(s)'
  BY <1>a, <1>b, <1>2, <1>5, <1>6 DEF Copied, Unpaid, UnpaidTo, Refusals, copyVars
<1>9. QED
  BY <1>2, <1>3, <1>5, <1>6, <1>7, <1>8

(* The rest of the service touches no request, and deletes copies at most.  *)
Elsewhere ==
    \/ \E a \in Agents : ReceiveElsewhere(a)
    \/ Settings
    \/ \E o \in Operators, a \in Agents, c \in Contacts : PurgeMessages(o, a, c)
    \/ \E o \in Operators : ChangeContact(o) \/ BurnOldNonces(o)
    \/ UNCHANGED vars

LEMMA PurgedKeeps ==
  ASSUME NEW box \in [Sends -> {"none", "stored", "deleted"}], NEW sent, NEW a
  PROVE  /\ Purged(box, sent, a) \in [Sends -> {"none", "stored", "deleted"}]
         /\ \A s \in Sends : Purged(box, sent, a)[s] = "none" <=> box[s] = "none"
  BY DEF Purged

LEMMA ElsewhereMoves ==
  ASSUME TypeOK, Elsewhere
  PROVE  /\ UNCHANGED <<requestVars, mailed>>
         /\ \A s \in Sends : /\ outbox'[s] = "none" <=> outbox[s] = "none"
                             /\ inbox'[s] = "none" <=> inbox[s] = "none"
         /\ outbox' \in [Sends -> {"none", "stored", "deleted"}]
         /\ inbox' \in [Sends -> {"none", "stored", "deleted"}]
<1>1. CASE UNCHANGED <<requestVars, copyVars>>
  BY <1>1 DEF copyVars, TypeOK
<1>2. ASSUME NEW o \in Operators, NEW a \in Agents, NEW c \in Contacts, PurgeMessages(o, a, c)
      PROVE  /\ UNCHANGED <<requestVars, mailed>>
             /\ \A s \in Sends : /\ outbox'[s] = "none" <=> outbox[s] = "none"
                                 /\ inbox'[s] = "none" <=> inbox[s] = "none"
             /\ outbox' \in [Sends -> {"none", "stored", "deleted"}]
             /\ inbox' \in [Sends -> {"none", "stored", "deleted"}]
  <2>1. /\ outbox' = Purged(outbox, [s \in Sends |-> req[s].from], a)
        /\ inbox' = Purged(inbox, [s \in Sends |-> req[s].to], a)
        /\ UNCHANGED <<requestVars, mailed>>
    BY <1>2 DEF PurgeMessages
  <2>2. outbox \in [Sends -> {"none", "stored", "deleted"}]
        /\ inbox \in [Sends -> {"none", "stored", "deleted"}]
    BY DEF TypeOK
  <2>3. QED
    BY <2>1, <2>2, PurgedKeeps
<1>3. QED
  BY <1>1, <1>2 DEF Elsewhere, ReceiveElsewhere, Settings, ChangeContact, BurnOldNonces, vars

LEMMA ElsewhereTables ==
  ASSUME TypeOK, Elsewhere
  PROVE  /\ AccountsTypeOK' /\ NonceTypeOK' /\ CreditsTypeOK'
         /\ elsewhere' \in [Agents -> 0..MaxElsewhere] /\ crossed' \subseteq Sends \X Agents
<1>a. /\ AccountsTypeOK /\ NonceTypeOK /\ CreditsTypeOK
      /\ elsewhere \in [Agents -> 0..MaxElsewhere] /\ crossed \subseteq Sends \X Agents
  BY DEF TypeOK
<1>1. ASSUME NEW a \in Agents, ReceiveElsewhere(a)
      PROVE  /\ CreditsTypeOK' /\ UNCHANGED <<accountVars, nonces>>
             /\ elsewhere' \in [Agents -> 0..MaxElsewhere] /\ crossed' \subseteq Sends \X Agents
  BY <1>a, <1>1, OutboundAssumption DEF ReceiveElsewhere, CanDeduct, CreditsTypeOK
<1>2. ASSUME UNCHANGED <<creditVars, elsewhere, crossed>>, UNCHANGED nonces, AccountsTypeOK'
      PROVE  /\ NonceTypeOK' /\ CreditsTypeOK'
             /\ elsewhere' \in [Agents -> 0..MaxElsewhere] /\ crossed' \subseteq Sends \X Agents
  BY <1>a, <1>2, TablesIdle
<1>3. CASE Settings
  BY <1>a, <1>2, <1>3, AccountsTyped DEF Settings
<1>4. ASSUME NEW o \in Operators, NEW a \in Agents, NEW c \in Contacts, PurgeMessages(o, a, c)
      PROVE  AccountsTypeOK' /\ UNCHANGED <<nonces, creditVars, elsewhere, crossed>>
  BY <1>a, <1>4, AccountsTyped DEF PurgeMessages
<1>5. ASSUME NEW o \in Operators, ChangeContact(o)
      PROVE  AccountsTypeOK' /\ UNCHANGED <<nonces, creditVars, elsewhere, crossed>>
  BY <1>a, <1>5, AccountsTyped DEF ChangeContact
<1>6. ASSUME NEW o \in Operators, BurnOldNonces(o)
      PROVE  AccountsTypeOK' /\ NonceTypeOK' /\ UNCHANGED <<creditVars, elsewhere, crossed>>
  <2>1. AccountsTypeOK'
    BY <1>a, <1>6, AccountsTyped DEF BurnOldNonces
  <2>2. op[o].agent \in Agents
    BY <1>a, <1>6 DEF BurnOldNonces, RebindDone, AccountsTypeOK, Pending
  <2>3. NonceTypeOK'
    BY <1>a, <1>6, <2>2, NoncesTyped DEF BurnOldNonces
  <2>4. QED
    BY <1>6, <2>1, <2>3 DEF BurnOldNonces
<1>7. CASE UNCHANGED vars
  BY <1>a, <1>2, <1>7, TablesIdle DEF vars
<1>8. QED
  BY <1>a, <1>1, <1>2, <1>3, <1>4, <1>5, <1>6, <1>7, TablesIdle DEF Elsewhere

(* Shape and Copied only speak of the request itself.                       *)
LEMMA FormedStays ==
  ASSUME Formed, NEW s \in Sends, pc'[s] = pc[s], req'[s] = req[s],
         s \in mailed' <=> s \in mailed,
         outbox'[s] = "none" <=> outbox[s] = "none", inbox'[s] = "none" <=> inbox[s] = "none"
  PROVE  Shape(s)' /\ Copied(s)'
<1>1. Shape(s) /\ Copied(s)
  BY DEF Formed
<1>2. Shape(s)'
  BY <1>1 DEF Shape, Internal
<1>3. Copied(s)'
  BY <1>1 DEF Copied, Internal
<1>4. QED
  BY <1>2, <1>3

(* Types, and where a request is and what it has done, hold together.       *)
LEMMA Typed == Spec => [](TypeOK /\ Formed)
<1>1. Init => TypeOK /\ Formed
  BY OutboundAssumption, AccountsAssumption, CreditsAssumption
     DEF Init, AccountsInit, NonceInit, CreditsInit, TypeOK, AccountsTypeOK, NonceTypeOK,
         CreditsTypeOK, Formed, Shape, Copied, Unpaid, UnpaidTo, Refusals
<1>2. TypeOK /\ Formed /\ [Next]_vars => TypeOK' /\ Formed'
  <2> SUFFICES ASSUME TypeOK, Formed, [Next]_vars PROVE TypeOK' /\ Formed'
    OBVIOUS
  <2>1. ASSUME NEW s \in Sends, Handler(s) PROVE TypeOK' /\ Formed'
    <3>1. /\ pc' \in [Sends -> Places] /\ req' \in [Sends -> ReqStates]
          /\ \A t \in Sends \ {s} : pc'[t] = pc[t] /\ req'[t] = req[t]
          /\ Shape(s)' /\ Copied(s)'
          /\ \A t \in Sends \ {s} : /\ t \in mailed' <=> t \in mailed
                                    /\ outbox'[t] = outbox[t] /\ inbox'[t] = inbox[t]
      BY <2>1, HandlerMoves, HandlerCopies
    <3>2. TypeOK'
      BY <2>1, <3>1, HandlerTables DEF TypeOK, Places, ReqStates
    <3>3. \A t \in Sends \ {s} : Shape(t)' /\ Copied(t)'
      BY <3>1, FormedStays
    <3>4. QED
      BY <3>1, <3>2, <3>3 DEF Formed
  <2>2. ASSUME NEW s \in Sends, NEW a \in Agents, NEW f \in Parcels, Admit(s, a, f)
        PROVE  TypeOK' /\ Formed'
    <3>1. /\ pc' \in [Sends -> Places] /\ req' \in [Sends -> ReqStates]
          /\ \A t \in Sends \ {s} : pc'[t] = pc[t] /\ req'[t] = req[t]
          /\ Shape(s)' /\ Copied(s)'
      BY <2>2, AdmitMoves
    <3>2. UNCHANGED <<accountVars, nonces, creditVars, mailed, outbox, inbox, elsewhere, crossed>>
      BY <2>2 DEF Admit, copyVars
    <3>3. TypeOK'
      BY <3>1, <3>2, TablesIdle DEF TypeOK, Places, ReqStates
    <3>4. \A t \in Sends \ {s} : Shape(t)' /\ Copied(t)'
      BY <3>1, <3>2, FormedStays
    <3>5. QED
      BY <3>1, <3>3, <3>4 DEF Formed
  <2>3. CASE Elsewhere
    <3>1. UNCHANGED <<pc, req, mailed>>
      BY <2>3, ElsewhereMoves DEF requestVars
    <3>2. TypeOK'
      BY <2>3, <3>1, ElsewhereMoves, ElsewhereTables DEF TypeOK
    <3>3. Formed'
      BY <2>3, <3>1, ElsewhereMoves, FormedStays DEF Formed
    <3>4. QED
      BY <3>2, <3>3
  <2>4. QED
    BY <2>1, <2>2, <2>3 DEF Next, Elsewhere
<1>3. QED
  BY <1>1, <1>2, PTL DEF Spec

(* TypeOK is an invariant of sending.                                       *)
THEOREM TypeCorrect == Spec => []TypeOK
  BY Typed, PTL

(* WholeOrNothing is an invariant: a refusal left nothing behind, any other *)
(* answer left every copy.                                                  *)
THEOREM AnswersTell == Spec => []WholeOrNothing
<1>1. Formed => WholeOrNothing
  BY DEF Formed, Shape, Copied, WholeOrNothing, Unpaid, UnpaidTo, Refusals
<1>2. QED
  BY <1>1, Typed, PTL
-----------------------------------------------------------------------------
(* Free letters.                                                            *)
Free(s) ==
    /\ PastSender(s) => req[s].paid \/ <<s, req[s].from>> \in crossed
    /\ PastRecipient(s) => req[s].paidTo \/ <<s, req[s].to>> \in crossed

(* A request that does not move is secure as long as the balances it saw    *)
(* stay or it is crossed, and a crossing is not taken back.                 *)
LEMMA SecureStays ==
  ASSUME Secure, FreeOnlyInARace, NEW t \in Sends, pc'[t] = pc[t], req'[t] = req[t],
         crossed \subseteq crossed',
         \A a \in Agents : balance'[a] = balance[a] \/ (Awaiting(t, a) => <<t, a>> \in crossed')
  PROVE  Free(t)' /\ \A a \in Agents : Awaiting(t, a)' /\ <<t, a>> \notin crossed' => balance'[a] >= 1
<1>1. Free(t)'
  BY DEF FreeOnlyInARace, Free, PastSender, PastRecipient
<1>2. \A a \in Agents : Awaiting(t, a)' => Awaiting(t, a)
  BY DEF Awaiting
<1>3. QED
  BY <1>1, <1>2 DEF Secure

(* The charges take a credit and cross whoever had looked at it.            *)
LEMMA ChargeCrosses ==
  ASSUME TypeOK, Formed, Secure, FreeOnlyInARace, NEW s \in Sends, NEW a \in Agents,
         CanDeduct(a), Deduct(a), Cross(s, a),
         \A t \in Sends \ {s} : pc'[t] = pc[t] /\ req'[t] = req[t],
         \/ pc[s] = "charge" /\ pc'[s] = "book" /\ req[s].from = a
         \/ pc[s] = "chargeTo" /\ pc'[s] = "bookTo" /\ req[s].to = a,
         req'[s].to = req[s].to /\ req'[s].from = req[s].from,
         pc[s] = "chargeTo" => req'[s].paid = req[s].paid
  PROVE  Secure' /\ FreeOnlyInARace'
<1>1. balance'[a] = balance[a] - 1 /\ \A x \in Agents \ {a} : balance'[x] = balance[x]
  BY DEF Deduct, TypeOK, CreditsTypeOK
<1>2. crossed \subseteq crossed'
  BY DEF Cross
<1>3. ASSUME NEW t \in Sends \ {s}
      PROVE  Free(t)' /\ \A x \in Agents : Awaiting(t, x)' /\ <<t, x>> \notin crossed' => balance'[x] >= 1
  <2>1. Awaiting(t, a) => <<t, a>> \in crossed'
    BY DEF Cross
  <2>2. QED
    BY <1>1, <1>2, <2>1, SecureStays
<1>4. Free(s)'
  <2>1. Free(s)
    BY DEF FreeOnlyInARace, Free
  <2>2. ~PastRecipient(s)'
    BY DEF PastRecipient, PastSender
  <2>3. PastSender(s)' => pc[s] = "chargeTo" /\ PastSender(s)
    BY DEF PastSender
  <2>4. QED
    BY <1>2, <2>1, <2>2, <2>3 DEF Free
<1>5. ASSUME NEW x \in Agents, Awaiting(s, x)', <<s, x>> \notin crossed' PROVE balance'[x] >= 1
  <2>1. pc[s] = "charge" /\ req[s].to = x
    BY <1>5 DEF Awaiting
  <2>2. x # a
    BY <1>5, <2>1 DEF Cross
  <2>3. Awaiting(s, x) /\ <<s, x>> \notin crossed
    BY <1>2, <1>5, <2>1 DEF Awaiting
  <2>4. QED
    BY <1>1, <2>2, <2>3 DEF Secure
<1>6. QED
  BY <1>3, <1>4, <1>5 DEF Secure, FreeOnlyInARace, Free

(* A step that charges nobody leaves its request secure, and past a charge  *)
(* only with a reason.                                                      *)
LEMMA QuietStep ==
  ASSUME TypeOK, Formed, Secure, FreeOnlyInARace, NEW s \in Sends, Handler(s),
         UNCHANGED <<balance, crossed, req>>
  PROVE  Secure' /\ FreeOnlyInARace'
<1>a. /\ Shape(s) /\ req[s] \in ReqStates /\ Ghost \notin Agents
      /\ \A t \in Sends \ {s} : pc'[t] = pc[t] /\ req'[t] = req[t]
      /\ \A p : Goto(s, p) => pc'[s] = p
      /\ balance \in [Agents -> Nat]
  BY HandlerMoves, OutboundAssumption DEF Formed, TypeOK, ReqStates, Goto, CreditsTypeOK
<1>b. Free(s) /\ \A a \in Agents : Awaiting(s, a) /\ <<s, a>> \notin crossed => balance[a] >= 1
  BY DEF Secure, FreeOnlyInARace, Free
<1>1. ASSUME NEW t \in Sends \ {s}
      PROVE  Free(t)' /\ \A a \in Agents : Awaiting(t, a)' /\ <<t, a>> \notin crossed' => balance'[a] >= 1
  BY <1>a, SecureStays
<1>2. Free(s)' /\ \A a \in Agents : Awaiting(s, a)' /\ <<s, a>> \notin crossed' => balance[a] >= 1
  <2>1. CASE ReadRecipient(s)
    <3>1. pc[s] = "recipient" /\ pc'[s] \in Refusals \cup {"charge"}
      BY <1>a, <2>1 DEF ReadRecipient, Refusals
    <3>2. pc'[s] = "charge" /\ req[s].to \in Agents => balance[req[s].to] >= 1
      BY <1>a, <2>1 DEF ReadRecipient
    <3>3. QED
      BY <1>b, <3>1, <3>2 DEF Free, PastSender, PastRecipient, Awaiting, Refusals
  <2>2. CASE IssueNonce(s) \/ SendMail(s)
    BY <1>a, <1>b, <2>2 DEF IssueNonce, SendMail, Free, PastSender, PastRecipient, Awaiting,
                            Shape, Internal
  <2>3. CASE ChargeSender(s)
    <3>1. pc[s] = "charge" /\ pc'[s] = AfterCharge(s) /\ ~(balance[req[s].from] >= 1)
      <4>1. req[s].from \in Agents
        BY <1>a, <2>3 DEF ChargeSender, Shape
      <4>2. ~Deduct(req[s].from)
        BY <1>a, <4>1 DEF Deduct
      <4>3. QED
        BY <1>a, <2>3, <4>2 DEF ChargeSender, CanDeduct
    <3>2. req[s].from \in Agents /\ <<s, req[s].from>> \in crossed
      BY <1>a, <1>b, <3>1 DEF Shape, Awaiting
    <3>3. QED
      BY <1>a, <1>b, <3>1, <3>2 DEF Free, PastSender, PastRecipient, Awaiting, AfterCharge, Internal
  <2>4. CASE BookSender(s)
    <3>1. pc[s] = "book" /\ pc'[s] = AfterCharge(s) /\ req[s].paid
      BY <1>a, <2>4 DEF BookSender, Shape
    <3>2. QED
      BY <1>a, <1>b, <3>1 DEF Free, PastSender, PastRecipient, Awaiting, AfterCharge, Internal
  <2>5. CASE ChargeRecipient(s)
    <3>1. pc[s] = "chargeTo" /\ pc'[s] = "out" /\ ~(balance[req[s].to] >= 1)
      <4>1. req[s].to \in Agents
        BY <1>a, <2>5 DEF ChargeRecipient, Shape
      <4>2. ~Deduct(req[s].to)
        BY <1>a, <4>1 DEF Deduct
      <4>3. QED
        BY <1>a, <2>5, <4>2 DEF ChargeRecipient, CanDeduct
    <3>2. req[s].to \in Agents /\ <<s, req[s].to>> \in crossed
      BY <1>a, <1>b, <3>1 DEF Shape, Awaiting
    <3>3. QED
      BY <1>b, <3>1, <3>2 DEF Free, PastSender, PastRecipient, Awaiting
  <2>6. CASE BookRecipient(s)
    <3>1. pc[s] = "bookTo" /\ pc'[s] = "out" /\ req[s].paidTo
      BY <1>a, <2>6 DEF BookRecipient, Shape
    <3>2. QED
      BY <1>b, <3>1 DEF Free, PastSender, PastRecipient, Awaiting
  <2>7. CASE StoreOut(s) \/ FileOut(s) \/ StoreIn(s) \/ FileIn(s) \/ Tee(s)
    <3>1. pc[s] \in {"out", "outFiles", "in", "inFiles", "tee"}
      BY <2>7 DEF StoreOut, FileOut, StoreIn, FileIn, Tee
    <3>2. Answer(s) \in {"sent", "delivered", "error"}
      BY DEF Answer
    <3>3. pc'[s] \in {"outFiles", "in", "inFiles", "tee", "sent", "delivered", "error"}
      BY <1>a, <2>7, <3>2 DEF StoreOut, FileOut, StoreIn, FileIn, Tee, AfterOut
    <3>4. QED
      BY <1>b, <3>1, <3>3 DEF Free, PastSender, PastRecipient, Awaiting
  <2>8. QED
    BY <2>1, <2>2, <2>3, <2>4, <2>5, <2>6, <2>7 DEF Handler
<1>3. QED
  BY <1>1, <1>2 DEF Secure, FreeOnlyInARace, Free

LEMMA RaceStep ==
  ASSUME TypeOK, Formed, Secure, FreeOnlyInARace, [Next]_vars
  PROVE  Secure' /\ FreeOnlyInARace'
<1>1. ASSUME NEW s \in Sends, ChargeSender(s) PROVE Secure' /\ FreeOnlyInARace'
  <2>a. /\ Shape(s) /\ pc[s] = "charge" /\ req[s].from \in Agents /\ Handler(s)
        /\ \A t \in Sends \ {s} : pc'[t] = pc[t] /\ req'[t] = req[t]
    BY <1>1, HandlerMoves DEF Formed, ChargeSender, Shape, Handler
  <2>1. CASE CanDeduct(req[s].from)
    <3>1. pc'[s] = "book" /\ req'[s].to = req[s].to /\ req'[s].from = req[s].from
      BY <1>1, <2>1 DEF ChargeSender, Goto, TypeOK
    <3>2. CanDeduct(req[s].from) /\ Deduct(req[s].from) /\ Cross(s, req[s].from)
      BY <1>1, <2>1 DEF ChargeSender
    <3>3. QED
      BY <2>a, <3>1, <3>2, ChargeCrosses
  <2>2. CASE ~CanDeduct(req[s].from)
    BY <1>1, <2>a, <2>2, QuietStep DEF ChargeSender, creditVars
  <2>3. QED
    BY <2>1, <2>2
<1>2. ASSUME NEW s \in Sends, ChargeRecipient(s) PROVE Secure' /\ FreeOnlyInARace'
  <2>a. /\ Shape(s) /\ pc[s] = "chargeTo" /\ req[s].to \in Agents /\ Handler(s)
        /\ \A t \in Sends \ {s} : pc'[t] = pc[t] /\ req'[t] = req[t]
    BY <1>2, HandlerMoves DEF Formed, ChargeRecipient, Shape, Handler
  <2>1. CASE CanDeduct(req[s].to)
    <3>1. /\ pc'[s] = "bookTo" /\ req'[s].to = req[s].to /\ req'[s].from = req[s].from
          /\ req'[s].paid = req[s].paid
      BY <1>2, <2>1 DEF ChargeRecipient, Goto, TypeOK
    <3>2. CanDeduct(req[s].to) /\ Deduct(req[s].to) /\ Cross(s, req[s].to)
      BY <1>2, <2>1 DEF ChargeRecipient
    <3>3. QED
      BY <2>a, <3>1, <3>2, ChargeCrosses
  <2>2. CASE ~CanDeduct(req[s].to)
    BY <1>2, <2>a, <2>2, QuietStep DEF ChargeRecipient, creditVars
  <2>3. QED
    BY <2>1, <2>2
<1>3. ASSUME NEW s \in Sends, Handler(s), ~ChargeSender(s), ~ChargeRecipient(s)
      PROVE  Secure' /\ FreeOnlyInARace'
  <2>1. UNCHANGED <<balance, crossed, req>>
    BY <1>3 DEF Handler, ReadRecipient, IssueNonce, SendMail, BookSender, BookRecipient, BookDebit,
                StoreOut, FileOut, StoreIn, FileIn, Tee, creditVars
  <2>2. QED
    BY <1>3, <2>1, QuietStep
<1>4. ASSUME NEW s \in Sends, NEW a \in Agents, NEW f \in Parcels, Admit(s, a, f)
      PROVE  Secure' /\ FreeOnlyInARace'
  <2>1. /\ \A t \in Sends \ {s} : pc'[t] = pc[t] /\ req'[t] = req[t]
        /\ pc'[s] \in Refusals \cup {"recipient", "nonce", "mail"}
        /\ pc'[s] \notin Refusals => balance[a] >= 1
        /\ req'[s].from = a
    BY <1>4, AdmitMoves
  <2>2. UNCHANGED <<balance, crossed>>
    BY <1>4 DEF Admit, creditVars
  <2>3. ASSUME NEW t \in Sends \ {s}
        PROVE  Free(t)' /\ \A x \in Agents : Awaiting(t, x)' /\ <<t, x>> \notin crossed' => balance'[x] >= 1
    BY <2>1, <2>2, SecureStays
  <2>4. Free(s)' /\ \A x \in Agents : Awaiting(s, x)' => balance'[x] >= 1
    BY <2>1, <2>2 DEF Free, PastSender, PastRecipient, Awaiting, Refusals
  <2>5. QED
    BY <2>3, <2>4 DEF Secure, FreeOnlyInARace, Free
<1>5. CASE Elsewhere
  <2>1. UNCHANGED <<pc, req>>
    BY <1>5, ElsewhereMoves DEF requestVars
  <2>2. ASSUME NEW a \in Agents, ReceiveElsewhere(a), NEW t \in Sends
        PROVE  /\ crossed \subseteq crossed'
               /\ \A x \in Agents : balance'[x] = balance[x] \/ (Awaiting(t, x) => <<t, x>> \in crossed')
    <3>1. \A x \in Agents \ {a} : balance'[x] = balance[x]
      BY <2>2 DEF ReceiveElsewhere, TypeOK, CreditsTypeOK
    <3>2. crossed \subseteq crossed' /\ (Awaiting(t, a) => <<t, a>> \in crossed')
      BY <2>2 DEF ReceiveElsewhere
    <3>3. QED
      BY <3>1, <3>2
  <2>3. (\E a \in Agents : ReceiveElsewhere(a)) \/ UNCHANGED <<balance, crossed>>
    BY <1>5 DEF Elsewhere, Settings, PurgeMessages, ChangeContact, BurnOldNonces, creditVars, vars
  <2>4. ASSUME NEW t \in Sends
        PROVE  Free(t)' /\ \A x \in Agents : Awaiting(t, x)' /\ <<t, x>> \notin crossed' => balance'[x] >= 1
    BY <2>1, <2>2, <2>3, SecureStays
  <2>5. QED
    BY <2>4 DEF Secure, FreeOnlyInARace, Free
<1>6. QED
  BY <1>1, <1>2, <1>3, <1>4, <1>5 DEF Next, Elsewhere

-----------------------------------------------------------------------------
(* Money.                                                                   *)

LEMMA Counts ==
  ASSUME NEW a
  PROVE  /\ IsFiniteSet(PaidFrom(a)) /\ IsFiniteSet(PaidTo(a))
         /\ IsFiniteSet(BookFrom(a)) /\ IsFiniteSet(BookTo(a))
         /\ Cardinality(PaidFrom(a)) \in Nat /\ Cardinality(PaidTo(a)) \in Nat
         /\ Cardinality(BookFrom(a)) \in Nat /\ Cardinality(BookTo(a)) \in Nat
  BY OutboundAssumption, FS_Subset, FS_CardinalityType DEF PaidFrom, PaidTo, BookFrom, BookTo

(* What MoneyAccounted says of one agent.                                   *)
Even(a) ==
    /\ balance[a] + elsewhere[a] + Cardinality(PaidFrom(a)) + Cardinality(PaidTo(a)) = StartCredits
    /\ ledger[a] = balance[a] + Cardinality(BookFrom(a)) + Cardinality(BookTo(a))

LEMMA MoneyIsEven == MoneyAccounted <=> \A a \in Agents : Even(a)
  BY DEF MoneyAccounted, Even, PaidFrom, PaidTo, BookFrom, BookTo

(* A step that moves no money and nobody into or out of a charge.           *)
LEMMA MoneyStays ==
  ASSUME NEW a \in Agents, Even(a),
         balance'[a] = balance[a], ledger'[a] = ledger[a], elsewhere'[a] = elsewhere[a],
         PaidFrom(a)' = PaidFrom(a), PaidTo(a)' = PaidTo(a),
         BookFrom(a)' = BookFrom(a), BookTo(a)' = BookTo(a)
  PROVE  Even(a)'
  BY DEF Even

LEMMA MoneyStep ==
  ASSUME TypeOK, Formed, MoneyAccounted, [Next]_vars
  PROVE  MoneyAccounted'
<1>a. \A a \in Agents : Even(a)
  BY MoneyIsEven
<1>b. /\ balance \in [Agents -> Nat] /\ ledger \in [Agents -> Int]
      /\ elsewhere \in [Agents -> 0..MaxElsewhere] /\ StartCredits \in Nat
  BY CreditsAssumption DEF TypeOK, CreditsTypeOK
<1> SUFFICES ASSUME NEW a \in Agents PROVE Even(a)'
  BY DEF MoneyAccounted, Even, PaidFrom, PaidTo, BookFrom, BookTo
<1>c. Even(a) /\ balance[a] \in Nat /\ ledger[a] \in Int /\ elsewhere[a] \in Nat
  BY <1>a, <1>b
<1>1. ASSUME UNCHANGED <<balance, ledger, elsewhere>>,
             \A s \in Sends : /\ req'[s].from = a /\ req'[s].paid <=> req[s].from = a /\ req[s].paid
                              /\ req'[s].to = a /\ req'[s].paidTo <=> req[s].to = a /\ req[s].paidTo
                              /\ req'[s].from = a /\ pc'[s] = "book" <=> req[s].from = a /\ pc[s] = "book"
                              /\ req'[s].to = a /\ pc'[s] = "bookTo" <=> req[s].to = a /\ pc[s] = "bookTo"
      PROVE  Even(a)'
  BY <1>c, <1>1, MoneyStays DEF PaidFrom, PaidTo, BookFrom, BookTo
<1>2. ASSUME NEW s \in Sends, Handler(s)
      PROVE  /\ Shape(s) /\ \A p : Goto(s, p) => pc'[s] = p
             /\ \A t \in Sends \ {s} : pc'[t] = pc[t] /\ req'[t] = req[t]
             /\ UNCHANGED elsewhere
  BY <1>2, HandlerMoves, HandlerTables DEF Formed, Goto, TypeOK
<1>3. ASSUME NEW s \in Sends, ChargeSender(s), CanDeduct(req[s].from) PROVE Even(a)'
  <2>1. /\ Shape(s) /\ pc[s] = "charge" /\ pc'[s] = "book"
        /\ \A t \in Sends \ {s} : pc'[t] = pc[t] /\ req'[t] = req[t]
        /\ UNCHANGED elsewhere
    BY <1>2, <1>3 DEF ChargeSender, Handler
  <2>2. /\ req[s].from \in Agents /\ ~req[s].paid /\ ~req[s].paidTo
        /\ req'[s].paid /\ req'[s].from = req[s].from /\ req'[s].to = req[s].to
        /\ req'[s].paidTo = req[s].paidTo
    BY <1>3, <2>1 DEF ChargeSender, Shape, TypeOK, Unpaid, UnpaidTo
  <2>3. balance' = [balance EXCEPT ![req[s].from] = @ - 1] /\ UNCHANGED ledger
    BY <1>3 DEF ChargeSender, Deduct
  <2>4. PaidTo(a)' = PaidTo(a) /\ BookTo(a)' = BookTo(a)
    BY <2>1, <2>2 DEF PaidTo, BookTo
  <2>5. CASE a = req[s].from
    <3>1. /\ s \notin PaidFrom(a) /\ PaidFrom(a)' = PaidFrom(a) \cup {s}
          /\ s \notin BookFrom(a) /\ BookFrom(a)' = BookFrom(a) \cup {s}
      BY <2>1, <2>2, <2>5 DEF PaidFrom, BookFrom
    <3>2. /\ Cardinality(PaidFrom(a)') = Cardinality(PaidFrom(a)) + 1
          /\ Cardinality(BookFrom(a)') = Cardinality(BookFrom(a)) + 1
      BY <3>1, Counts, FS_AddElement
    <3>3. balance'[a] = balance[a] - 1 /\ ledger'[a] = ledger[a] /\ elsewhere'[a] = elsewhere[a]
      BY <1>b, <2>1, <2>3, <2>5
    <3>4. QED
      BY <1>b, <1>c, <2>4, <3>2, <3>3, Counts DEF Even
  <2>6. CASE a # req[s].from
    <3>1. PaidFrom(a)' = PaidFrom(a) /\ BookFrom(a)' = BookFrom(a)
      BY <2>1, <2>2, <2>6 DEF PaidFrom, BookFrom
    <3>2. balance'[a] = balance[a]
      BY <1>b, <2>3, <2>6
    <3>3. QED
      BY <1>c, <2>1, <2>3, <2>4, <3>1, <3>2, MoneyStays
  <2>7. QED
    BY <2>5, <2>6
<1>4. ASSUME NEW s \in Sends, ChargeRecipient(s), CanDeduct(req[s].to) PROVE Even(a)'
  <2>1. /\ Shape(s) /\ pc[s] = "chargeTo" /\ pc'[s] = "bookTo"
        /\ \A t \in Sends \ {s} : pc'[t] = pc[t] /\ req'[t] = req[t]
        /\ UNCHANGED elsewhere
    BY <1>2, <1>4 DEF ChargeRecipient, Handler
  <2>2. /\ req[s].to \in Agents /\ ~req[s].paidTo
        /\ req'[s].paidTo /\ req'[s].from = req[s].from /\ req'[s].to = req[s].to
        /\ req'[s].paid = req[s].paid
    BY <1>4, <2>1 DEF ChargeRecipient, Shape, TypeOK, Unpaid, UnpaidTo
  <2>3. balance' = [balance EXCEPT ![req[s].to] = @ - 1] /\ UNCHANGED ledger
    BY <1>4 DEF ChargeRecipient, Deduct
  <2>4. PaidFrom(a)' = PaidFrom(a) /\ BookFrom(a)' = BookFrom(a)
    BY <2>1, <2>2 DEF PaidFrom, BookFrom
  <2>5. CASE a = req[s].to
    <3>1. /\ s \notin PaidTo(a) /\ PaidTo(a)' = PaidTo(a) \cup {s}
          /\ s \notin BookTo(a) /\ BookTo(a)' = BookTo(a) \cup {s}
      BY <2>1, <2>2, <2>5 DEF PaidTo, BookTo
    <3>2. /\ Cardinality(PaidTo(a)') = Cardinality(PaidTo(a)) + 1
          /\ Cardinality(BookTo(a)') = Cardinality(BookTo(a)) + 1
      BY <3>1, Counts, FS_AddElement
    <3>3. balance'[a] = balance[a] - 1 /\ ledger'[a] = ledger[a] /\ elsewhere'[a] = elsewhere[a]
      BY <1>b, <2>1, <2>3, <2>5
    <3>4. QED
      BY <1>b, <1>c, <2>4, <3>2, <3>3, Counts DEF Even
  <2>6. CASE a # req[s].to
    <3>1. PaidTo(a)' = PaidTo(a) /\ BookTo(a)' = BookTo(a)
      BY <2>1, <2>2, <2>6 DEF PaidTo, BookTo
    <3>2. balance'[a] = balance[a]
      BY <1>b, <2>3, <2>6
    <3>3. QED
      BY <1>c, <2>1, <2>3, <2>4, <3>1, <3>2, MoneyStays
  <2>7. QED
    BY <2>5, <2>6
<1>5. ASSUME NEW s \in Sends, BookSender(s) PROVE Even(a)'
  <2>1. /\ Shape(s) /\ pc[s] = "book" /\ pc'[s] \in {"chargeTo", "out"}
        /\ \A t \in Sends \ {s} : pc'[t] = pc[t] /\ req'[t] = req[t]
        /\ UNCHANGED <<elsewhere, balance, req>>
        /\ ledger' = [ledger EXCEPT ![req[s].from] = @ - 1]
    BY <1>2, <1>5 DEF BookSender, BookDebit, Handler, AfterCharge
  <2>2. PaidFrom(a)' = PaidFrom(a) /\ PaidTo(a)' = PaidTo(a) /\ BookTo(a)' = BookTo(a)
    BY <2>1 DEF PaidFrom, PaidTo, BookTo
  <2>3. CASE a = req[s].from
    <3>1. s \in BookFrom(a) /\ BookFrom(a)' = BookFrom(a) \ {s}
      BY <2>1, <2>3 DEF BookFrom
    <3>2. Cardinality(BookFrom(a)') = Cardinality(BookFrom(a)) - 1
      BY <3>1, Counts, FS_RemoveElement
    <3>3. ledger'[a] = ledger[a] - 1
      BY <1>b, <2>1, <2>3
    <3>4. QED
      BY <1>b, <1>c, <2>1, <2>2, <3>2, <3>3, Counts DEF Even
  <2>4. CASE a # req[s].from
    <3>1. BookFrom(a)' = BookFrom(a) /\ ledger'[a] = ledger[a]
      BY <1>b, <2>1, <2>4 DEF BookFrom
    <3>2. QED
      BY <1>c, <2>1, <2>2, <3>1, MoneyStays
  <2>5. QED
    BY <2>3, <2>4
<1>6. ASSUME NEW s \in Sends, BookRecipient(s) PROVE Even(a)'
  <2>1. /\ Shape(s) /\ pc[s] = "bookTo" /\ pc'[s] = "out"
        /\ \A t \in Sends \ {s} : pc'[t] = pc[t] /\ req'[t] = req[t]
        /\ UNCHANGED <<elsewhere, balance, req>>
        /\ ledger' = [ledger EXCEPT ![req[s].to] = @ - 1]
    BY <1>2, <1>6 DEF BookRecipient, BookDebit, Handler
  <2>2. PaidFrom(a)' = PaidFrom(a) /\ PaidTo(a)' = PaidTo(a) /\ BookFrom(a)' = BookFrom(a)
    BY <2>1 DEF PaidFrom, PaidTo, BookFrom
  <2>3. CASE a = req[s].to
    <3>1. s \in BookTo(a) /\ BookTo(a)' = BookTo(a) \ {s}
      BY <2>1, <2>3 DEF BookTo
    <3>2. Cardinality(BookTo(a)') = Cardinality(BookTo(a)) - 1
      BY <3>1, Counts, FS_RemoveElement
    <3>3. ledger'[a] = ledger[a] - 1
      BY <1>b, <2>1, <2>3
    <3>4. QED
      BY <1>b, <1>c, <2>1, <2>2, <3>2, <3>3, Counts DEF Even
  <2>4. CASE a # req[s].to
    <3>1. BookTo(a)' = BookTo(a) /\ ledger'[a] = ledger[a]
      BY <1>b, <2>1, <2>4 DEF BookTo
    <3>2. QED
      BY <1>c, <2>1, <2>2, <3>1, MoneyStays
  <2>5. QED
    BY <2>3, <2>4
<1>7. ASSUME NEW s \in Sends, Handler(s), UNCHANGED <<balance, ledger, req>>,
             pc[s] \notin {"book", "bookTo"}, pc'[s] \notin {"book", "bookTo"}
      PROVE  Even(a)'
  BY <1>1, <1>2, <1>7
<1>8. ASSUME NEW s \in Sends, Handler(s) PROVE Even(a)'
  <2>a. \A p : Goto(s, p) => pc'[s] = p
    BY <1>2, <1>8
  <2>1. CASE ChargeSender(s) /\ ~CanDeduct(req[s].from)
    BY <1>7, <1>8, <2>a, <2>1 DEF ChargeSender, AfterCharge, creditVars
  <2>2. CASE ChargeRecipient(s) /\ ~CanDeduct(req[s].to)
    BY <1>7, <1>8, <2>a, <2>2 DEF ChargeRecipient, creditVars
  <2>3. CASE ReadRecipient(s) \/ IssueNonce(s) \/ SendMail(s)
    BY <1>7, <1>8, <2>a, <2>3 DEF ReadRecipient, IssueNonce, SendMail, creditVars
  <2>4. CASE StoreOut(s) \/ FileOut(s) \/ StoreIn(s) \/ FileIn(s) \/ Tee(s)
    <3>1. pc[s] \notin {"book", "bookTo"} /\ pc'[s] \notin {"book", "bookTo"}
      BY <2>a, <2>4 DEF StoreOut, FileOut, StoreIn, FileIn, Tee, AfterOut, Answer
    <3>2. UNCHANGED <<balance, ledger, req>>
      BY <2>4 DEF StoreOut, FileOut, StoreIn, FileIn, Tee, creditVars
    <3>3. QED
      BY <1>7, <1>8, <3>1, <3>2
  <2>5. QED
    BY <1>3, <1>4, <1>5, <1>6, <1>8, <2>1, <2>2, <2>3, <2>4 DEF Handler
<1>9. ASSUME NEW s \in Sends, NEW x \in Agents, NEW f \in Parcels, Admit(s, x, f) PROVE Even(a)'
  <2>1. /\ \A t \in Sends \ {s} : pc'[t] = pc[t] /\ req'[t] = req[t]
        /\ pc[s] = "new" /\ pc'[s] \notin {"book", "bookTo"}
        /\ req'[s].paid = req[s].paid /\ req'[s].paidTo = req[s].paidTo
    BY <1>9, AdmitMoves DEF Refusals
  <2>2. ~req[s].paid /\ ~req[s].paidTo
    BY <2>1 DEF Formed, Shape, Unpaid, UnpaidTo
  <2>3. UNCHANGED <<balance, ledger, elsewhere>>
    BY <1>9 DEF Admit, creditVars
  <2>4. QED
    BY <1>1, <2>1, <2>2, <2>3
<1>10. CASE Elsewhere
  <2>1. UNCHANGED <<pc, req>>
    BY <1>10, ElsewhereMoves DEF requestVars
  <2>2. /\ PaidFrom(a)' = PaidFrom(a) /\ PaidTo(a)' = PaidTo(a)
        /\ BookFrom(a)' = BookFrom(a) /\ BookTo(a)' = BookTo(a)
    BY <2>1 DEF PaidFrom, PaidTo, BookFrom, BookTo
  <2>3. ASSUME NEW x \in Agents, ReceiveElsewhere(x) PROVE Even(a)'
    <3>1. \/ /\ balance'[a] = balance[a] - 1 /\ ledger'[a] = ledger[a] - 1
             /\ elsewhere'[a] = elsewhere[a] + 1
          \/ balance'[a] = balance[a] /\ ledger'[a] = ledger[a] /\ elsewhere'[a] = elsewhere[a]
      BY <1>b, <2>3 DEF ReceiveElsewhere
    <3>2. QED
      BY <1>b, <1>c, <2>2, <3>1, Counts DEF Even
  <2>4. (\E x \in Agents : ReceiveElsewhere(x)) \/ UNCHANGED <<balance, ledger, elsewhere>>
    BY <1>10 DEF Elsewhere, Settings, PurgeMessages, ChangeContact, BurnOldNonces, creditVars, vars
  <2>5. QED
    BY <1>c, <2>2, <2>3, <2>4, MoneyStays
<1>11. QED
  BY <1>8, <1>9, <1>10 DEF Next, Elsewhere

(* The parts of the invariant hold together.                                *)
LEMMA Inductive == Spec => []IInv
<1>1. Init => Secure /\ FreeOnlyInARace /\ MoneyAccounted
  <2> SUFFICES ASSUME Init PROVE Secure /\ FreeOnlyInARace /\ MoneyAccounted
    OBVIOUS
  <2>1. Secure /\ FreeOnlyInARace
    BY DEF Init, Secure, Awaiting, FreeOnlyInARace, PastSender, PastRecipient
  <2>2. ASSUME NEW a \in Agents PROVE Even(a)
    <3>1. PaidFrom(a) = {} /\ PaidTo(a) = {} /\ BookFrom(a) = {} /\ BookTo(a) = {}
      BY DEF Init, PaidFrom, PaidTo, BookFrom, BookTo
    <3>2. QED
      BY <3>1, FS_EmptySet, CreditsAssumption DEF Init, CreditsInit, Even
  <2>3. QED
    BY <2>1, <2>2, MoneyIsEven
<1>2. ASSUME TypeOK, Formed, Secure, FreeOnlyInARace, MoneyAccounted, [Next]_vars
      PROVE  Secure' /\ FreeOnlyInARace' /\ MoneyAccounted'
  BY <1>2, RaceStep, MoneyStep
<1>3. QED
  BY <1>1, <1>2, Typed, PTL DEF Spec, IInv

(* FreeOnlyInARace is an invariant: without a charge of the same agent in   *)
(* between, a letter is paid on every side it is due.                       *)
THEOREM LettersArePaid == Spec => []FreeOnlyInARace
<1>1. IInv => FreeOnlyInARace
  BY DEF IInv
<1>2. QED
  BY <1>1, Inductive, PTL

(* MoneyAccounted is an invariant: every credit that left a balance is one  *)
(* side of one letter or a mail received, and the ledger says the same but  *)
(* for the charges half way between the two tables.                         *)
THEOREM NoCreditAstray == Spec => []MoneyAccounted
<1>1. IInv => MoneyAccounted
  BY DEF IInv
<1>2. QED
  BY <1>1, Inductive, PTL
=============================================================================
