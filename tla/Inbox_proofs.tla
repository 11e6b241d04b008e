---------------------------- MODULE Inbox_proofs ----------------------------
(***************************************************************************)
(* Proofs about the inbox and its client, for any number of messages,      *)
(* overlapping polls and failures, and every window of at most a day.      *)
(*                                                                         *)
(* The argument: a message leaves "unread" only in the UPDATE of a poll    *)
(* that had selected it, and then stays with that poll until its answer or *)
(* its failure.  Nothing ever becomes unread again, so that a later SELECT *)
(* cannot find what a client had before.                                   *)
(***************************************************************************)
EXTENDS Inbox, TLAPS

PollStates == [at : {"idle", "select", "mark", "parts", "answer"},
               held : SUBSET Messages, seen : SUBSET Messages,
               known : SUBSET Messages, settled : SUBSET Messages]

Out(m) == box[m] \in {"read", "deleted"}

(* Messages that somebody had, or that a poll took, are unread no more.     *)
OutInv ==
    /\ \A m \in handed \cup refused : Out(m)
    /\ \A p \in Polls, m \in Messages : Carries(p, m) => Out(m)
    /\ \A p \in Polls : \A m \in poll[p].held : box[m] # "none"

(* What a poll remembers of its beginning is still true.                    *)
MemoryInv ==
    /\ \A p \in Polls : poll[p].known \subseteq handed \cup refused
    /\ \A p \in Polls : \A m \in poll[p].settled :
          m \in filed \/ m \in stripped \/ box[m] = "deleted"

(* A message was sealed before it was received, and received before now.    *)
TimesInv ==
    \A m \in Messages : times[m] # Plain =>
        times[m].sealed <= times[m].received /\ times[m].received <= now

IInv == OutInv /\ MemoryInv /\ TimesInv /\ NothingVanishes /\ NotTwice /\ CompleteWhenSettled

-----------------------------------------------------------------------------
(* The client's window.                                                     *)

(* A message sealed no longer ago than the window is opened, whichever      *)
(* midnights lie between its sealing, its arrival and the poll; one sealed  *)
(* longer ago is not.                                                       *)
THEOREM WindowOpens ==
  ASSUME NEW sealed \in Nat, NEW received \in Nat, NEW t \in Nat,
         sealed <= received, received <= t
  PROVE  Opens(sealed, received, t) <=> t - sealed <= TotpWindow
<1>1. ASSUME Opens(sealed, received, t) PROVE t - sealed <= TotpWindow
  BY <1>1, ClientAssumption DEF Opens, Codes
<1>2. ASSUME t - sealed <= TotpWindow PROVE Opens(sealed, received, t)
  <2>1. sealed \in Codes(t)
    <3>1. sealed - t \in -TotpWindow..TotpWindow /\ sealed = t + (sealed - t)
      BY <1>2, ClientAssumption
    <3>2. QED
      BY <3>1 DEF Codes
  <2>2. Day(sealed) \in {Day(t), Day(t) - 1}
    BY <1>2, ClientAssumption DEF Day, StepsPerDay
  <2>3. QED
    BY <2>1, <2>2 DEF Opens, Dates
<1>3. QED
  BY <1>1, <1>2

-----------------------------------------------------------------------------
(* Type correctness.                                                        *)
LEMMA NoPollState == NoPoll \in PollStates
  BY DEF NoPoll, PollStates

(* TypeOK is an invariant of the inbox and its client.                      *)
THEOREM TypeCorrect == Spec => []TypeOK
<1>1. Init => TypeOK
  BY NoPollState, InboxAssumption DEF Init, TypeOK, PollStates
<1>2. TypeOK /\ [Next]_vars => TypeOK'
  <2> SUFFICES ASSUME TypeOK, [Next]_vars PROVE TypeOK'
    OBVIOUS
  <2>a. poll \in [Polls -> PollStates]
    BY DEF TypeOK, PollStates
  <2>1. ASSUME NEW m \in Messages, Store(m) PROVE TypeOK'
    <3>1. box' \in [Messages -> {"none", "unread", "read", "deleted"}]
      BY <2>1 DEF Store, TypeOK
    <3>2. times' \in [Messages -> {Plain} \cup [sealed : Nat, received : Nat]]
      <4>1. CASE UNCHANGED times
        BY <4>1 DEF TypeOK
      <4>2. CASE \E s \in StartTime..now :
                    times' = [times EXCEPT ![m] = [sealed |-> s, received |-> now]]
        <5>1. PICK s \in StartTime..now :
                 times' = [times EXCEPT ![m] = [sealed |-> s, received |-> now]]
          BY <4>2
        <5>2. s \in Nat /\ now \in Nat
          BY InboxAssumption DEF TypeOK
        <5>3. QED
          BY <5>1, <5>2 DEF TypeOK
      <4>3. QED
        BY <2>1, <4>1, <4>2 DEF Store
    <3>3. QED
      BY <2>1, <3>1, <3>2 DEF Store, clientVars, TypeOK
  <2>2. ASSUME NEW m \in Messages, StoreAttachments(m) PROVE TypeOK'
    BY <2>2 DEF StoreAttachments, clientVars, TypeOK
  <2>3. ASSUME NEW m \in Messages, GetMessage(m) PROVE TypeOK'
    BY <2>3 DEF GetMessage, messageVars, TypeOK
  <2>4. ASSUME ClearAttachments \/ ClearMessages \/ BreakOff PROVE TypeOK'
    <3>1. CASE ClearAttachments
      <4>1. PICK half \in SUBSET {m \in Heavy \ filed : Stored(m)} :
               stripped' = stripped \cup half \cup {m \in filed : Stored(m)}
        BY <3>1 DEF ClearAttachments
      <4>2. filed' = {m \in filed : ~Stored(m)} /\ clearing < MaxClearing /\ clearing' = clearing + 1
        BY <3>1 DEF ClearAttachments
      <4>3. filed' \subseteq Heavy /\ stripped' \subseteq Heavy \ filed'
        BY <4>1, <4>2 DEF TypeOK
      <4>4. clearing' \in 0..MaxClearing
        BY <4>2, InboxAssumption DEF TypeOK
      <4>5. QED
        BY <3>1, <4>3, <4>4 DEF ClearAttachments, clientVars, TypeOK
    <3>2. CASE ClearMessages
      <4>1. box' \in [Messages -> {"none", "unread", "read", "deleted"}]
        BY <3>2 DEF ClearMessages, TypeOK
      <4>2. filed' \subseteq Heavy /\ stripped' \subseteq Heavy \ filed'
        BY <3>2 DEF ClearMessages, TypeOK
      <4>3. clearing' \in 0..MaxClearing
        BY <3>2, InboxAssumption DEF ClearMessages, TypeOK
      <4>4. QED
        BY <3>2, <4>1, <4>2, <4>3 DEF ClearMessages, clientVars, TypeOK
    <3>3. CASE BreakOff
      BY <3>3, InboxAssumption DEF BreakOff, clientVars, TypeOK
    <3>4. QED
      BY <2>4, <3>1, <3>2, <3>3
  <2>5. ASSUME NEW p \in Polls, Begin(p) PROVE TypeOK'
    <3>1. [NoPoll EXCEPT !.at = "select", !.settled = filed, !.known = handed \cup refused]
             \in PollStates
      BY InboxAssumption DEF NoPoll, PollStates, TypeOK
    <3>2. poll' \in [Polls -> PollStates]
      BY <2>5, <2>a, <3>1 DEF Begin
    <3>3. QED
      BY <2>5, <3>2 DEF Begin, messageVars, clientVars, TypeOK, PollStates
  <2>6. ASSUME NEW p \in Polls, Select(p) PROVE TypeOK'
    <3> DEFINE unread == {m \in Messages : box[m] = "unread"}
               q == [poll[p] EXCEPT !.at = IF unread = {} THEN "answer" ELSE "mark",
                                    !.held = unread]
    <3>1. q \in PollStates
      BY <2>a DEF PollStates
    <3>2. poll' = [poll EXCEPT ![p] = q]
      BY <2>6 DEF Select
    <3>3. poll' \in [Polls -> PollStates]
      BY <2>a, <3>1, <3>2
    <3>4. QED
      BY <2>6, <3>3 DEF Select, messageVars, clientVars, TypeOK, PollStates
  <2>7. ASSUME NEW p \in Polls, Mark(p) PROVE TypeOK'
    <3>1. [poll[p] EXCEPT !.at = "parts"] \in PollStates
      BY <2>a DEF PollStates
    <3>2. poll' \in [Polls -> PollStates]
      BY <2>7, <2>a, <3>1 DEF Mark
    <3>3. QED
      BY <2>7, <3>2 DEF Mark, clientVars, TypeOK, PollStates
  <2>8. ASSUME NEW p \in Polls, FetchAttachments(p) PROVE TypeOK'
    <3> DEFINE q == [poll[p] EXCEPT !.at = "answer", !.seen = poll[p].held \cap filed]
    <3>1. q \in PollStates
      BY <2>a DEF PollStates
    <3>2. poll' = [poll EXCEPT ![p] = q]
      BY <2>8 DEF FetchAttachments
    <3>3. poll' \in [Polls -> PollStates]
      BY <2>a, <3>1, <3>2
    <3>4. QED
      BY <2>8, <3>3 DEF FetchAttachments, messageVars, clientVars, TypeOK, PollStates
  <2>9. ASSUME NEW p \in Polls, Answer(p) PROVE TypeOK'
    <3>1. poll[p].held \subseteq Messages
      BY <2>a DEF PollStates
    <3>2. poll' \in [Polls -> PollStates]
      BY <2>9, <2>a, NoPollState DEF Answer
    <3>3. handed' \subseteq Messages /\ bare' \subseteq handed' /\ refused' \subseteq Messages
      BY <2>9, <3>1 DEF Answer, TypeOK
    <3>4. QED
      BY <2>9, <3>2, <3>3 DEF Answer, messageVars, TypeOK, PollStates
  <2>10. ASSUME NEW p \in Polls, Fail(p) PROVE TypeOK'
    <3>1. poll[p].held \subseteq Messages
      BY <2>a DEF PollStates
    <3>2. poll' \in [Polls -> PollStates]
      BY <2>10, <2>a, NoPollState DEF Fail
    <3>3. lost' \subseteq Messages
      BY <2>10, <3>1 DEF Fail, TypeOK
    <3>4. failures' \in 0..MaxFailures
      BY <2>10, InboxAssumption DEF Fail, TypeOK
    <3>5. QED
      BY <2>10, <3>2, <3>3, <3>4 DEF Fail, messageVars, clientVars, TypeOK, PollStates
  <2>11. CASE Tick
    BY <2>11 DEF Tick, messageVars, clientVars, TypeOK
  <2>12. CASE UNCHANGED vars
    BY <2>12 DEF vars, messageVars, clientVars, TypeOK
  <2>13. QED
    BY <2>1, <2>2, <2>3, <2>4, <2>5, <2>6, <2>7, <2>8, <2>9, <2>10, <2>11, <2>12
       DEF Next, Handler
<1>3. QED
  BY <1>1, <1>2, PTL DEF Spec
-----------------------------------------------------------------------------
(* The rows of the table only move on.                                      *)
RowsMoveOn ==
    \A m \in Messages :
       /\ Out(m) => Out(m)'
       /\ box[m] = "deleted" => box'[m] = "deleted"
       /\ box[m] # "none" => box'[m] # "none"

(* Attachments only leave the table with a trace.                           *)
AttachmentsMoveOn ==
    /\ \A m \in stripped : m \in stripped' \/ box'[m] = "deleted"
    /\ \A m \in filed : m \in filed' \/ m \in stripped' \/ box'[m] = "deleted"

(* Every step moves the rows on, and what was filed stays so or is taken by *)
(* a contact change, alone or with its message.                             *)
LEMMA MovesOn ==
  ASSUME TypeOK, [Next]_vars
  PROVE  RowsMoveOn /\ AttachmentsMoveOn
<1> USE DEF AttachmentsMoveOn
<1>1. ASSUME NEW m \in Messages, Store(m)
      PROVE RowsMoveOn /\ UNCHANGED <<filed, stripped>>
  BY <1>1 DEF Store, RowsMoveOn, Out, TypeOK
<1>2. CASE ClearMessages
  <2>1. \A m \in Messages : box'[m] = IF Stored(m) THEN "deleted" ELSE box[m]
    BY <1>2 DEF ClearMessages
  <2>2. \A m \in Messages : m \in filed /\ m \notin filed' => Stored(m)
    BY <1>2 DEF ClearMessages
  <2>3. RowsMoveOn
    BY <2>1 DEF RowsMoveOn, Out, Stored
  <2>4. filed \subseteq Messages /\ stripped \subseteq Messages
    BY InboxAssumption DEF TypeOK
  <2>5. \A m \in Messages : m \in stripped /\ m \notin stripped' => Stored(m)
    BY <1>2 DEF ClearMessages
  <2>6. QED
    BY <2>1, <2>2, <2>3, <2>4, <2>5
<1>3. ASSUME NEW p \in Polls, Mark(p)
      PROVE RowsMoveOn /\ UNCHANGED <<filed, stripped>>
  BY <1>3 DEF Mark, RowsMoveOn, Out, Stored, TypeOK
<1>4. ASSUME UNCHANGED box PROVE RowsMoveOn
  BY <1>4 DEF RowsMoveOn, Out
<1>5. ASSUME NEW m \in Messages, StoreAttachments(m) PROVE UNCHANGED <<box, stripped>> /\ filed \subseteq filed'
  BY <1>5 DEF StoreAttachments
<1>6. ASSUME NEW m \in Messages, GetMessage(m) PROVE UNCHANGED <<box, filed, stripped>>
  BY <1>6 DEF GetMessage, messageVars
<1>7. ASSUME NEW p \in Polls,
             Begin(p) \/ Select(p) \/ FetchAttachments(p) \/ Answer(p) \/ Fail(p)
      PROVE UNCHANGED <<box, filed, stripped>>
  BY <1>7 DEF Begin, Select, FetchAttachments, Answer, Fail, messageVars
<1>8. CASE Tick \/ UNCHANGED vars
  BY <1>4, <1>8 DEF Tick, vars, messageVars
<1>9. CASE ClearAttachments
  BY <1>4, <1>9 DEF ClearAttachments
<1>10. CASE BreakOff
  BY <1>4, <1>10 DEF BreakOff
<1>11. QED
  BY <1>1, <1>2, <1>3, <1>4, <1>5, <1>6, <1>7, <1>8, <1>9, <1>10 DEF Next, Handler

(* What the agent or an alert had, and what a failure lost, stays so.       *)
LEMMA OnlyGrow ==
  ASSUME [Next]_vars
  PROVE  handed \subseteq handed' /\ refused \subseteq refused' /\ lost \subseteq lost'
  BY DEF Next, Handler, Store, StoreAttachments, GetMessage, ClearAttachments, ClearMessages, BreakOff, Begin, Select, Mark,
         FetchAttachments, Answer, Fail, Tick, vars, clientVars

(* A step that leaves the polls alone keeps everything said of them.        *)
LEMMA PollsIdle ==
  ASSUME TypeOK, IInv, [Next]_vars, UNCHANGED <<poll, handed, refused, lost>>,
         \A m \in Messages : box'[m] = "read" => box[m] = "read"
  PROVE  OutInv' /\ MemoryInv' /\ NothingVanishes' /\ NotTwice' /\ CompleteWhenSettled'
<1>1. RowsMoveOn /\ AttachmentsMoveOn
  BY MovesOn
<1>2. OutInv'
  BY <1>1 DEF IInv, OutInv, RowsMoveOn, Carries, TypeOK
<1>3. MemoryInv'
  BY <1>1 DEF IInv, MemoryInv, RowsMoveOn, AttachmentsMoveOn, TypeOK
<1>4. NothingVanishes'
  BY DEF IInv, NothingVanishes, Carries
<1>5. NotTwice'
  BY DEF IInv, NotTwice
<1>6. CompleteWhenSettled'
  BY <1>1 DEF IInv, CompleteWhenSettled, RowsMoveOn, AttachmentsMoveOn, At
<1>7. QED
  BY <1>2, <1>3, <1>4, <1>5, <1>6

(* The clock goes forward, and a message is stamped when it is stored.      *)
LEMMA TimesHold ==
  ASSUME TypeOK, TimesInv, [Next]_vars
  PROVE  TimesInv'
<1>1. ASSUME NEW m \in Messages, Store(m) PROVE TimesInv'
  <2>1. CASE UNCHANGED times
    BY <1>1, <2>1 DEF Store, TimesInv
  <2>2. CASE \E s \in StartTime..now : times' = [times EXCEPT ![m] = [sealed |-> s, received |-> now]]
    <3>1. PICK s \in StartTime..now : times' = [times EXCEPT ![m] = [sealed |-> s, received |-> now]]
      BY <2>2
    <3>2. now' = now /\ now \in Nat /\ s \in Nat /\ s <= now
      BY <1>1, InboxAssumption DEF Store, TypeOK
    <3>3. \A n \in Messages : n # m => times'[n] = times[n]
      BY <3>1 DEF TypeOK
    <3>4. times'[m] = [sealed |-> s, received |-> now]
      BY <3>1 DEF TypeOK
    <3>5. QED
      BY <3>2, <3>3, <3>4 DEF TimesInv
  <2>3. QED
    BY <1>1, <2>1, <2>2 DEF Store
<1>2. ASSUME UNCHANGED times, now' \in Nat, now <= now' PROVE TimesInv'
  <2> SUFFICES ASSUME NEW m \in Messages, times'[m] # Plain
               PROVE  times'[m].sealed <= times'[m].received /\ times'[m].received <= now'
    BY DEF TimesInv
  <2>1. times[m] \in [sealed : Nat, received : Nat] /\ now \in Nat
    BY <1>2 DEF TypeOK
  <2>2. QED
    BY <1>2, <2>1 DEF TimesInv
<1>3. CASE Tick
  BY <1>2, <1>3 DEF Tick, messageVars, TypeOK
<1>4. ASSUME UNCHANGED <<times, now>> PROVE TimesInv'
  BY <1>4 DEF TimesInv
<1>5. ASSUME NEW m \in Messages, StoreAttachments(m) \/ GetMessage(m) PROVE UNCHANGED <<times, now>>
  BY <1>5 DEF StoreAttachments, GetMessage, messageVars
<1>6. ASSUME NEW p \in Polls, Begin(p) \/ Handler(p) \/ Fail(p) PROVE UNCHANGED <<times, now>>
  BY <1>6 DEF Begin, Handler, Select, Mark, FetchAttachments, Answer, Fail, messageVars
<1>7. ClearAttachments \/ ClearMessages \/ BreakOff \/ UNCHANGED vars => UNCHANGED <<times, now>>
  BY DEF ClearAttachments, ClearMessages, BreakOff, vars, messageVars
<1>8. QED
  BY <1>1, <1>3, <1>4, <1>5, <1>6, <1>7 DEF Next

(* The parts of the invariant hold together.                                *)
THEOREM Inductive == Spec => []IInv
<1>1. Init => IInv
  BY DEF Init, IInv, OutInv, MemoryInv, TimesInv, NothingVanishes, NotTwice, CompleteWhenSettled,
         NoPoll, Carries, At
<1>2. TypeOK /\ IInv /\ [Next]_vars => IInv'
  <2> SUFFICES ASSUME TypeOK, IInv, [Next]_vars PROVE IInv'
    OBVIOUS
  <2> DEFINE PollInv == OutInv /\ MemoryInv /\ NothingVanishes /\ NotTwice /\ CompleteWhenSettled
  <2>a. TimesInv'
    BY TimesHold DEF IInv
  <2>b. poll \in [Polls -> PollStates]
    BY DEF TypeOK, PollStates
  <2>c. PollInv
    BY DEF IInv
  <2>d. RowsMoveOn /\ AttachmentsMoveOn
    BY MovesOn
  <2>e. handed \subseteq handed' /\ refused \subseteq refused' /\ lost \subseteq lost'
    BY OnlyGrow
  <2>1. ASSUME NEW m \in Messages, Store(m) PROVE PollInv'
    BY <2>1, PollsIdle DEF Store, clientVars, TypeOK
  <2>2. ASSUME NEW m \in Messages, StoreAttachments(m) \/ GetMessage(m) PROVE PollInv'
    BY <2>2, PollsIdle DEF StoreAttachments, GetMessage, clientVars, messageVars
  <2>3. ASSUME ClearAttachments \/ ClearMessages \/ BreakOff PROVE PollInv'
    <3>1. \A m \in Messages : box'[m] = "read" => box[m] = "read"
      BY <2>3 DEF ClearAttachments, ClearMessages, BreakOff, Stored
    <3>2. UNCHANGED <<poll, handed, refused, lost>>
      BY <2>3 DEF ClearAttachments, ClearMessages, BreakOff, clientVars
    <3>3. QED
      BY <3>1, <3>2, PollsIdle
  <2>4. ASSUME Tick \/ UNCHANGED vars PROVE PollInv'
    <3>1. UNCHANGED <<box, poll, handed, refused, lost>>
      BY <2>4 DEF Tick, clientVars, messageVars, vars
    <3>2. QED
      BY <3>1, PollsIdle
  <2>5. ASSUME NEW p \in Polls, Begin(p) PROVE PollInv'
    <3>1. /\ poll'[p] = [NoPoll EXCEPT !.at = "select", !.settled = filed,
                                        !.known = handed \cup refused]
          /\ \A q \in Polls \ {p} : poll'[q] = poll[q]
          /\ poll[p].at = "idle" /\ UNCHANGED <<box, filed, stripped, handed, refused, lost>>
      BY <2>5, <2>b DEF Begin, At, messageVars, clientVars
    <3>2. /\ poll'[p].at = "select" /\ poll'[p].held = {} /\ poll'[p].settled = filed
          /\ poll'[p].known = handed \cup refused
      BY <3>1 DEF NoPoll
    <3> \A q \in Polls, m \in Messages : Carries(q, m)' => Carries(q, m)
      BY <3>1, <3>2 DEF Carries
    <3>3. OutInv'
      <4>1. \A q \in Polls : \A m \in poll'[q].held : box'[m] # "none"
        BY <2>c, <3>1, <3>2 DEF OutInv
      <4>2. \A m \in handed' \cup refused' : Out(m)'
        BY <2>c, <3>1 DEF OutInv, Out
      <4>3. \A q \in Polls, m \in Messages : Carries(q, m) => Out(m)'
        BY <2>c, <3>1 DEF OutInv, Out
      <4>4. QED
        BY <4>1, <4>2, <4>3 DEF OutInv
    <3>4. MemoryInv'
      BY <2>c, <3>1, <3>2 DEF MemoryInv
    <3>5. NotTwice' /\ CompleteWhenSettled'
      <4>1. \A q \in Polls : poll'[q].held \cap poll'[q].known = {}
        BY <2>c, <3>1, <3>2 DEF NotTwice
      <4>2. \A q \in Polls : At(q, "answer")' => q # p
        BY <3>2 DEF At
      <4>3. CompleteWhenSettled'
        BY <2>c, <3>1, <4>2 DEF CompleteWhenSettled, At
      <4>4. QED
        BY <4>1, <4>3 DEF NotTwice
    <3>6. NothingVanishes'
      BY <2>c, <3>1 DEF NothingVanishes, Carries
    <3>7. QED
      BY <3>3, <3>4, <3>5, <3>6
  <2>6. ASSUME NEW p \in Polls, Select(p) PROVE PollInv'
    <3> DEFINE unread == {m \in Messages : box[m] = "unread"}
    <3>1. /\ poll[p].at = "select" /\ UNCHANGED <<box, filed, stripped, handed, refused, lost>>
          /\ \A q \in Polls \ {p} : poll'[q] = poll[q]
      BY <2>6, <2>b DEF Select, At, messageVars, clientVars
    <3>2. /\ poll'[p].held = unread /\ poll'[p].known = poll[p].known
          /\ poll'[p].settled = poll[p].settled
          /\ poll'[p].at = IF unread = {} THEN "answer" ELSE "mark"
      BY <2>6, <2>b DEF Select, PollStates
    <3>3. \A m \in unread : box[m] = "unread"
      OBVIOUS
    <3> HIDE DEF unread
    <3>4. \A m \in Messages : ~Carries(p, m)' /\ ~Carries(p, m)
      BY <3>1, <3>2 DEF Carries
    <3>5. OutInv'
      BY <2>c, <3>1, <3>2, <3>3, <3>4 DEF OutInv, Out, Carries
    <3>6. MemoryInv'
      BY <2>c, <3>1, <3>2 DEF MemoryInv
    <3>7. NotTwice'
      <4>1. poll'[p].held \cap poll'[p].known = {}
        BY <2>c, <3>2, <3>3 DEF MemoryInv, OutInv, Out
      <4>2. QED
        BY <2>c, <3>1, <4>1 DEF NotTwice
    <3>8. CompleteWhenSettled'
      BY <2>c, <3>1, <3>2 DEF CompleteWhenSettled, At
    <3>9. NothingVanishes'
      BY <2>c, <3>1, <3>4 DEF NothingVanishes, Carries
    <3>10. QED
      BY <3>5, <3>6, <3>7, <3>8, <3>9
  <2>7. ASSUME NEW p \in Polls, Mark(p) PROVE PollInv'
    <3>1. /\ poll[p].at = "mark" /\ UNCHANGED <<filed, stripped, handed, refused, lost>>
          /\ \A q \in Polls \ {p} : poll'[q] = poll[q]
      BY <2>7, <2>b DEF Mark, At, clientVars
    <3>2. /\ poll'[p].at = "parts" /\ poll'[p].held = poll[p].held
          /\ poll'[p].known = poll[p].known /\ poll'[p].settled = poll[p].settled
      BY <2>7, <2>b DEF Mark, PollStates
    <3>3. \A m \in Messages :
             box'[m] = IF m \in poll[p].held /\ Stored(m) THEN "read" ELSE box[m]
      BY <2>7 DEF Mark
    <3>4. \A m \in Messages : m \in poll[p].held => Out(m)'
      BY <2>c, <3>3 DEF OutInv, Out, Stored, TypeOK
    <3>5. \A m \in Messages : m \in handed \cup refused => Out(m)'
      BY <2>c, <2>d DEF OutInv, RowsMoveOn
    <3>6. OutInv'
      <4>1. \A q \in Polls, m \in Messages : Carries(q, m)' => Out(m)'
        BY <2>c, <2>d, <3>1, <3>2, <3>4 DEF OutInv, Carries, RowsMoveOn
      <4>2. \A q \in Polls : \A m \in poll'[q].held : box'[m] # "none"
        BY <2>b, <2>c, <2>d, <3>1, <3>2 DEF OutInv, RowsMoveOn, PollStates
      <4>3. \A m \in handed' \cup refused' : Out(m)'
        BY <3>1, <3>5 DEF TypeOK
      <4>4. QED
        BY <4>1, <4>2, <4>3 DEF OutInv
    <3>7. MemoryInv'
      BY <2>b, <2>c, <2>d, <3>1, <3>2 DEF MemoryInv, RowsMoveOn, PollStates
    <3>8. NotTwice'
      BY <2>c, <3>1, <3>2 DEF NotTwice
    <3>9. CompleteWhenSettled'
      BY <2>c, <2>d, <3>1, <3>2 DEF CompleteWhenSettled, At, RowsMoveOn
    <3>10. NothingVanishes'
      <4> SUFFICES ASSUME NEW m \in Messages, box'[m] = "read"
                   PROVE  (m \in handed \cup refused \cup lost \/ \E q \in Polls : Carries(q, m))'
        BY DEF NothingVanishes
      <4>1. CASE m \in poll[p].held
        BY <3>2, <4>1 DEF Carries
      <4>2. CASE m \notin poll[p].held
        BY <2>c, <3>1, <3>2, <3>3, <4>2 DEF NothingVanishes, Carries
      <4>3. QED
        BY <4>1, <4>2
    <3>11. QED
      BY <3>6, <3>7, <3>8, <3>9, <3>10
  <2>8. ASSUME NEW p \in Polls, FetchAttachments(p) PROVE PollInv'
    <3>1. /\ poll[p].at = "parts" /\ UNCHANGED <<box, filed, stripped, handed, refused, lost>>
          /\ \A q \in Polls \ {p} : poll'[q] = poll[q]
      BY <2>8, <2>b DEF FetchAttachments, At, messageVars, clientVars
    <3>2. /\ poll'[p].at = "answer" /\ poll'[p].held = poll[p].held
          /\ poll'[p].known = poll[p].known /\ poll'[p].settled = poll[p].settled
          /\ poll'[p].seen = poll[p].held \cap filed
      BY <2>8, <2>b DEF FetchAttachments, PollStates
    <3>3. \A q \in Polls, m \in Messages : Carries(q, m)' <=> Carries(q, m)
      BY <3>1, <3>2 DEF Carries
    <3>4. OutInv' /\ MemoryInv' /\ NotTwice' /\ NothingVanishes'
      BY <2>c, <3>1, <3>2, <3>3 DEF OutInv, MemoryInv, NotTwice, NothingVanishes, Out
    <3>5. CompleteWhenSettled'
      BY <2>c, <3>1, <3>2 DEF CompleteWhenSettled, MemoryInv, At
    <3>6. QED
      BY <3>4, <3>5
  <2>9. ASSUME NEW p \in Polls, Answer(p) \/ Fail(p) PROVE PollInv'
    <3>1. /\ UNCHANGED <<box, filed, stripped>> /\ poll'[p] = NoPoll
          /\ \A q \in Polls \ {p} : poll'[q] = poll[q]
      BY <2>9, <2>b DEF Answer, Fail, messageVars
    <3>2. /\ poll'[p].at = "idle" /\ poll'[p].held = {} /\ poll'[p].known = {}
          /\ poll'[p].settled = {}
      BY <3>1 DEF NoPoll
    <3>3. \A m \in Messages : Carries(p, m) => m \in handed' \cup refused' \cup lost'
      BY <2>9 DEF Answer, Fail, Carries, At
    <3>4. \A m \in handed' \cup refused' :
             m \in handed \cup refused \/ (poll[p].at = "answer" /\ m \in poll[p].held)
      BY <2>9 DEF Answer, Fail, At, clientVars
    <3>5. OutInv'
      <4>1. \A m \in handed' \cup refused' : Out(m)'
        BY <2>b, <2>c, <3>1, <3>4 DEF OutInv, Carries, Out, PollStates
      <4>2. QED
        BY <2>c, <3>1, <3>2, <4>1 DEF OutInv, Carries, Out
    <3>6. MemoryInv'
      BY <2>c, <2>e, <3>1, <3>2 DEF MemoryInv
    <3>7. NotTwice' /\ CompleteWhenSettled'
      BY <2>c, <3>1, <3>2 DEF NotTwice, CompleteWhenSettled, At
    <3>8. NothingVanishes'
      BY <2>c, <2>e, <3>1, <3>2, <3>3 DEF NothingVanishes, Carries
    <3>9. QED
      BY <3>5, <3>6, <3>7, <3>8
  <2>10. PollInv'
    <3> HIDE DEF PollInv
    <3>1. QED
      BY <2>1, <2>2, <2>3, <2>4, <2>5, <2>6, <2>7, <2>8, <2>9 DEF Next, Handler
  <2>11. QED
    BY <2>a, <2>10 DEF IInv
<1>3. QED
  BY <1>1, <1>2, TypeCorrect, PTL DEF Spec

(* NothingVanishes is an invariant: a message that is no longer unread is   *)
(* with a live poll, with the client, deleted, or lost to a failure.        *)
THEOREM Accounted == Spec => []NothingVanishes
<1>1. IInv => NothingVanishes
  BY DEF IInv
<1>2. QED
  BY <1>1, Inductive, PTL

(* NotTwice is an invariant: no poll returns what the client already had    *)
(* when the poll began.                                                     *)
THEOREM NoRepeats == Spec => []NotTwice
<1>1. IInv => NotTwice
  BY DEF IInv
<1>2. QED
  BY <1>1, Inductive, PTL

(* CompleteWhenSettled is an invariant: attachments that were stored before *)
(* a poll began are in its answer, unless a contact change deleted them, or *)
(* their message, meanwhile.                                                *)
THEOREM Complete == Spec => []CompleteWhenSettled
<1>1. IInv => CompleteWhenSettled
  BY DEF IInv
<1>2. QED
  BY <1>1, Inductive, PTL

(* RefusedForAReason holds of every step: the client discards nothing that  *)
(* is encrypted and younger than its window.                                *)
THEOREM RefusalsHaveReasons == Spec => RefusedForAReason
<1> DEFINE Reason == \A m \in refused' \ refused :
                        times[m] = Plain \/ now - times[m].sealed > TotpWindow
<1>1. TypeOK /\ IInv /\ [Next]_vars => [Reason]_vars
  <2> SUFFICES ASSUME TypeOK, IInv, Next, NEW m \in refused' \ refused, times[m] # Plain
               PROVE  now - times[m].sealed > TotpWindow
    OBVIOUS
  <2>1. PICK p \in Polls : Answer(p)
    BY DEF Next, Handler, Store, StoreAttachments, GetMessage, ClearAttachments, ClearMessages, BreakOff, Begin, Select, Mark,
           FetchAttachments, Fail, Tick, clientVars
  <2>2. m \in poll[p].held /\ ~Readable(m)
    BY <2>1 DEF Answer
  <2>3. m \in Messages
    BY <2>2 DEF TypeOK
  <2>4. times[m] \in [sealed : Nat, received : Nat] /\ now \in Nat
    BY <2>3 DEF TypeOK
  <2>5. times[m].sealed <= times[m].received /\ times[m].received <= now
    BY <2>3 DEF IInv, TimesInv
  <2>6. ~Opens(times[m].sealed, times[m].received, now)
    BY <2>2 DEF Readable
  <2>7. ~(now - times[m].sealed <= TotpWindow)
    BY <2>4, <2>5, <2>6, WindowOpens
  <2>8. QED
    BY <2>4, <2>7, ClientAssumption
<1>2. QED
  BY <1>1, TypeCorrect, Inductive, PTL DEF Spec, RefusedForAReason
=============================================================================
