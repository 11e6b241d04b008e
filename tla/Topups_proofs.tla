---------------------------- MODULE Topups_proofs ----------------------------
(***************************************************************************)
(* Proofs about the credits bought through Stripe, for any number of       *)
(* sessions, overlapping deliveries, repetitions and failures.             *)
(*                                                                         *)
(* The argument: each addition is a ledger row, a handler about to write   *)
(* one, or a row lost to a failure.  A lookup that finds none of the three *)
(* therefore comes before any addition, and as long as no lookup misses    *)
(* one of the last two, one delivery of the session adds and no other.     *)
(***************************************************************************)
EXTENDS Topups, FiniteSetTheorems, TLAPS

(* The statements on the balance and on the ledger keep them typed.  The    *)
(* balance stays a natural number because the UPDATE is conditional.        *)
LEMMA CreditsTyped ==
    ASSUME CreditsTypeOK, NEW a \in Agents,
           (CanDeduct(a) /\ Deduct(a)) \/ BookDebit(a) \/ AddCredit(a) \/ BookGrant(a)
    PROVE  CreditsTypeOK'
<1> USE DEF CreditsTypeOK
<1>1. CASE CanDeduct(a) /\ Deduct(a)
  BY <1>1 DEF CanDeduct, Deduct
<1>2. CASE BookDebit(a)
  BY <1>2 DEF BookDebit
<1>3. CASE AddCredit(a)
  BY <1>3, CreditsAssumption DEF AddCredit
<1>4. CASE BookGrant(a)
  BY <1>4, CreditsAssumption DEF BookGrant
<1>5. QED
  BY <1>1, <1>2, <1>3, <1>4

(* A step that leaves the balances and the ledger alone.                    *)
LEMMA TablesIdle == CreditsTypeOK /\ UNCHANGED creditVars => CreditsTypeOK'
  BY DEF CreditsTypeOK, creditVars

-----------------------------------------------------------------------------
HookStates == [at : {"idle", "lookup", "add", "record"}, of : Sessions \cup {NoSession}]

Recording(t) == {d \in Deliveries : hook[d].of = t /\ At(d, "record")}
PastLookup(d, t) == hook[d].of = t /\ hook[d].at \in {"add", "record"}

(* Every addition to the balance has left a trace.                          *)
Booked ==
    \A t \in Sessions : added[t] = rows[t] + lost[t] + Cardinality(Recording(t))

(* A session nobody raced for has one delivery past its lookup at a time,   *)
(* and none that has yet to add what was added.                             *)
RaceInv ==
    \A t \in Sessions \ raced :
       /\ added[t] <= 1
       /\ \A d \in Deliveries : PastLookup(d, t) /\ At(d, "add") => added[t] = 0
       /\ \A d, e \in Deliveries : PastLookup(d, t) /\ PastLookup(e, t) => d = e

AnsweredInv == \A t \in answered : rows[t] >= 1

IInv == Booked /\ RaceInv /\ AnsweredInv

-----------------------------------------------------------------------------
(* Type correctness.                                                        *)

(* The next state of the deliveries, beside the sessions as they are.       *)
ForPaid == \A e \in Deliveries : hook'[e].at # "idle" => session[hook'[e].of] = "paid"

(* The steps of a handler keep the states of the deliveries in range, and   *)
(* each open one with a session that was paid.                              *)
LEMMA HooksType ==
  ASSUME TypeOK, NEW d \in Deliveries
  PROVE  /\ Ends(d) => /\ hook' \in [Deliveries -> HookStates]
                       /\ \A e \in Deliveries : (At(e, "idle") <=> hook[e].of = NoSession)'
                       /\ ForPaid
         /\ \A p \in {"lookup", "add", "record"} :
               ~At(d, "idle") /\ hook' = [hook EXCEPT ![d].at = p] =>
                  /\ hook' \in [Deliveries -> HookStates]
                  /\ \A e \in Deliveries : (At(e, "idle") <=> hook[e].of = NoSession)'
                  /\ ForPaid
<1>1. Ends(d) => /\ hook' \in [Deliveries -> HookStates]
                 /\ \A e \in Deliveries : (At(e, "idle") <=> hook[e].of = NoSession)'
  BY DEF TypeOK, HookStates, Ends, At
<1>2. ASSUME NEW p \in {"lookup", "add", "record"}, ~At(d, "idle"), hook' = [hook EXCEPT ![d].at = p]
      PROVE  /\ hook' \in [Deliveries -> HookStates]
             /\ \A e \in Deliveries : (At(e, "idle") <=> hook[e].of = NoSession)'
  BY <1>2 DEF TypeOK, HookStates, At
<1>3. ASSUME \A e \in Deliveries : hook'[e].at # "idle" => hook[e].at # "idle" /\ hook'[e].of = hook[e].of
      PROVE  ForPaid
  BY <1>3 DEF TypeOK, ForPaid
<1>4. Ends(d) => ForPaid
  BY <1>3 DEF Ends, TypeOK
<1>5. ASSUME NEW p \in {"lookup", "add", "record"}, ~At(d, "idle"), hook' = [hook EXCEPT ![d].at = p]
      PROVE  ForPaid
  BY <1>3, <1>5 DEF TypeOK, At
<1>6. QED
  BY <1>1, <1>2, <1>4, <1>5

(* So do the statements of add_credits, and every other step, for the       *)
(* balances.  (A row that is not there is not updated.)                     *)
LEMMA CreditsHold ==
  ASSUME CreditsTypeOK, NEW a, AddCredit(a) \/ BookGrant(a) \/ UNCHANGED creditVars
  PROVE  CreditsTypeOK'
<1>1. CASE a \in Agents
  BY <1>1, CreditsTyped, TablesIdle
<1>2. CASE a \notin Agents
  <2>1. UNCHANGED creditVars
    BY <1>2 DEF AddCredit, BookGrant, creditVars, CreditsTypeOK
  <2>2. QED
    BY <2>1, TablesIdle
<1>3. QED
  BY <1>1, <1>2

(* TypeOK is an invariant of the top-ups.                                   *)
THEOREM TypeCorrect == Spec => []TypeOK
<1>1. Init => TypeOK
  BY CreditsAssumption, TopupsAssumption DEF Init, CreditsInit, TypeOK, CreditsTypeOK
<1>2. TypeOK /\ [Next]_vars => TypeOK'
  <2> SUFFICES ASSUME TypeOK, [Next]_vars PROVE TypeOK'
    OBVIOUS
  <2>1. ASSUME NEW t \in Sessions, Pay(t) PROVE TypeOK'
    BY <2>1 DEF Pay, TypeOK, CreditsTypeOK, creditVars
  <2>2. ASSUME NEW t \in Sessions, NEW a \in Agents, CreateCheckout(t, a) PROVE TypeOK'
    BY <2>2 DEF CreateCheckout, TypeOK, CreditsTypeOK, creditVars
  <2>3. ASSUME NEW t \in Sessions, NEW d \in Deliveries, Deliver(d, t) PROVE TypeOK'
    <3>1. hook' \in [Deliveries -> HookStates]
      BY <2>3 DEF Deliver, TypeOK, HookStates
    <3>2. \A e \in Deliveries : (At(e, "idle") <=> hook[e].of = NoSession)'
      BY <2>3, TopupsAssumption DEF Deliver, TypeOK, At
    <3>3. extra' \in 0..MaxExtra
      BY <2>3, TopupsAssumption DEF Deliver, TypeOK
    <3>4. QED
      BY <2>3, <3>1, <3>2, <3>3 DEF Deliver, TypeOK, CreditsTypeOK, creditVars, HookStates, At
  <2>4. ASSUME NEW d \in Deliveries, Lookup(d) PROVE TypeOK'
    <3>1. hook[d].of \in Sessions
      BY <2>4 DEF Lookup, TypeOK, At
    <3>2. /\ hook' \in [Deliveries -> HookStates]
          /\ \A e \in Deliveries : (At(e, "idle") <=> hook[e].of = NoSession)'
          /\ ForPaid
      BY <2>4, HooksType DEF Lookup, Reply, At
    <3>3. answered' \subseteq Sessions /\ raced' \subseteq Sessions /\ failures' \in 0..MaxFailures
      BY <2>4, <3>1, TopupsAssumption DEF Lookup, Reply, TypeOK
    <3>4. CreditsTypeOK'
      BY <2>4, CreditsHold DEF Lookup, TypeOK
    <3>5. UNCHANGED <<session, buyer, added, rows, lost, extra>>
      BY <2>4 DEF Lookup
    <3>6. QED
      BY <3>2, <3>3, <3>4, <3>5 DEF TypeOK, HookStates, At, ForPaid
  <2>5. ASSUME NEW d \in Deliveries, Add(d) PROVE TypeOK'
    <3>1. CreditsTypeOK'
      BY <2>5, CreditsHold DEF Add, TypeOK
    <3>2. /\ hook' \in [Deliveries -> HookStates]
          /\ \A e \in Deliveries : (At(e, "idle") <=> hook[e].of = NoSession)'
          /\ ForPaid
      BY <2>5, HooksType DEF Add, At
    <3>3. added' \in [Sessions -> Nat]
      <4>1. hook[d].of \in Sessions /\ added \in [Sessions -> Nat]
        BY <2>5 DEF Add, TypeOK, At
      <4>2. QED
        BY <2>5, <4>1 DEF Add
    <3>4. UNCHANGED <<session, buyer, answered, rows, lost, raced, extra, failures>>
      BY <2>5 DEF Add
    <3>5. QED
      BY <3>1, <3>2, <3>3, <3>4 DEF TypeOK, HookStates, At, ForPaid
  <2>6. ASSUME NEW d \in Deliveries, Record(d) PROVE TypeOK'
    <3>1. CreditsTypeOK'
      BY <2>6, CreditsHold DEF Record, TypeOK
    <3>2. /\ hook' \in [Deliveries -> HookStates]
          /\ \A e \in Deliveries : (At(e, "idle") <=> hook[e].of = NoSession)'
          /\ ForPaid
      BY <2>6, HooksType DEF Record, Reply
    <3>3. hook[d].of \in Sessions
      BY <2>6 DEF Record, TypeOK, At
    <3>4. /\ rows' \in [Sessions -> Nat]
          /\ answered' \subseteq Sessions /\ failures' \in 0..MaxFailures
      BY <2>6, <3>3, TopupsAssumption DEF Record, Reply, TypeOK
    <3>5. UNCHANGED <<session, buyer, added, lost, raced, extra>>
      BY <2>6 DEF Record
    <3>6. QED
      BY <3>1, <3>2, <3>4, <3>5 DEF TypeOK, HookStates, At, ForPaid
  <2>7. ASSUME NEW d \in Deliveries, Fail(d) PROVE TypeOK'
    <3>1. /\ hook' \in [Deliveries -> HookStates]
          /\ \A e \in Deliveries : (At(e, "idle") <=> hook[e].of = NoSession)'
          /\ ForPaid
      BY <2>7, HooksType DEF Fail
    <3>2. lost' \in [Sessions -> Nat] /\ failures' \in 0..MaxFailures
      <4>1. /\ hook[d].of \in Sessions /\ lost \in [Sessions -> Nat]
            /\ failures \in Nat /\ MaxFailures \in Nat
        BY <2>7, TopupsAssumption DEF Fail, TypeOK, At
      <4>2. QED
        BY <2>7, <4>1 DEF Fail
    <3>3. QED
      BY <2>7, <3>1, <3>2 DEF Fail, TypeOK, CreditsTypeOK, creditVars, HookStates, At, ForPaid
  <2>8. CASE UNCHANGED vars
    BY <2>8 DEF vars, topupVars, creditVars, TypeOK, CreditsTypeOK, At
  <2>9. QED
    BY <2>1, <2>2, <2>3, <2>4, <2>5, <2>6, <2>7, <2>8 DEF Next, Handler
<1>3. QED
  BY <1>1, <1>2, PTL DEF Spec
-----------------------------------------------------------------------------
(* A step that leaves the ledger and those past their lookup alone.         *)
LEMMA NothingBooked ==
  ASSUME TypeOK, IInv, UNCHANGED <<added, rows, lost>>,
         \A e \in Deliveries, t \in Sessions : PastLookup(e, t)' <=> PastLookup(e, t),
         \A e \in Deliveries, t \in Sessions : PastLookup(e, t) => hook'[e].at = hook[e].at
  PROVE  /\ Booked' /\ AnsweredInv' = (\A t \in answered' : rows[t] >= 1)
         /\ raced \subseteq raced' => RaceInv'
<1>1. ASSUME NEW t \in Sessions PROVE Recording(t)' = Recording(t)
  BY DEF Recording, PastLookup, At
<1>2. Booked'
  BY <1>1 DEF IInv, Booked
<1>3. raced \subseteq raced' => RaceInv'
  BY DEF IInv, RaceInv, At
<1>4. QED
  BY <1>2, <1>3 DEF AnsweredInv

(* The parts of the invariant hold together.                                *)
THEOREM Inductive == Spec => []IInv
<1>1. Init => IInv
  <2> SUFFICES ASSUME Init PROVE IInv
    OBVIOUS
  <2>1. \A t \in Sessions : Recording(t) = {}
    BY DEF Init, Recording, At
  <2>2. Booked
    BY <2>1, FS_EmptySet DEF Init, Booked
  <2>3. RaceInv /\ AnsweredInv
    BY DEF Init, RaceInv, AnsweredInv, PastLookup
  <2>4. QED
    BY <2>2, <2>3 DEF IInv
<1>2. TypeOK /\ IInv /\ [Next]_vars => IInv'
  <2> SUFFICES ASSUME TypeOK, IInv, [Next]_vars PROVE IInv'
    OBVIOUS
  <2>a. \A t \in Sessions : /\ IsFiniteSet(Recording(t)) /\ Cardinality(Recording(t)) \in Nat
                            /\ (Cardinality(Recording(t)) = 0 <=> Recording(t) = {})
    BY TopupsAssumption, FS_Subset, FS_CardinalityType, FS_EmptySet DEF Recording
  <2>b. hook \in [Deliveries -> HookStates]
    BY DEF TypeOK, HookStates
  <2>c. /\ added \in [Sessions -> Nat] /\ rows \in [Sessions -> Nat] /\ lost \in [Sessions -> Nat]
        /\ answered \subseteq Sessions
    BY DEF TypeOK
  <2>1. ASSUME NEW t \in Sessions, Pay(t) \/ \E a \in Agents : CreateCheckout(t, a) PROVE IInv'
    <3>1. UNCHANGED <<hook, answered, added, rows, lost, raced>>
      BY <2>1 DEF Pay, CreateCheckout
    <3>2. QED
      BY <3>1, NothingBooked DEF IInv, PastLookup, AnsweredInv
  <2>2. ASSUME NEW t \in Sessions, NEW d \in Deliveries, Deliver(d, t) PROVE IInv'
    <3>1. /\ At(d, "idle") /\ hook'[d].at = "lookup" /\ \A e \in Deliveries \ {d} : hook'[e] = hook[e]
          /\ UNCHANGED <<answered, added, rows, lost, raced>>
      BY <2>2, <2>b DEF Deliver
    <3>2. QED
      BY <3>1, NothingBooked DEF IInv, PastLookup, AnsweredInv, At
  <2>3. ASSUME NEW d \in Deliveries, Lookup(d), rows[hook[d].of] > 0 PROVE IInv'
    <3>1. hook[d].of \in Sessions
      BY <2>3 DEF Lookup, TypeOK, At
    <3>2. /\ At(d, "lookup") /\ hook'[d].at = "idle" /\ \A e \in Deliveries \ {d} : hook'[e] = hook[e]
          /\ UNCHANGED <<added, rows, lost, raced>> /\ answered' \subseteq answered \cup {hook[d].of}
      BY <2>3, <2>b, <2>c, <3>1 DEF Lookup, Reply, Ends
    <3>3. \A t \in answered' : rows[t] >= 1
      BY <2>3, <2>c, <3>1, <3>2 DEF IInv, AnsweredInv
    <3>4. QED
      BY <3>2, <3>3, NothingBooked DEF IInv, PastLookup, At
  <2>4. ASSUME NEW d \in Deliveries, Lookup(d), ~(rows[hook[d].of] > 0) PROVE IInv'
    <3>1. PICK u \in Sessions : u = hook[d].of
      BY <2>4 DEF Lookup, TypeOK, At
    <3>2. /\ rows[u] = 0 /\ At(d, "lookup") /\ hook'[d].at = "add" /\ hook'[d].of = u
          /\ \A e \in Deliveries \ {d} : hook'[e] = hook[e]
          /\ UNCHANGED <<answered, added, rows, lost>> /\ raced \subseteq raced'
          /\ u \notin raced' => lost[u] = 0 /\ \A e \in Deliveries : ~PastLookup(e, u)
      BY <2>4, <2>b, <2>c, <3>1 DEF Lookup, PastLookup, TypeOK, At
    <3>3. ASSUME NEW t \in Sessions PROVE Recording(t)' = Recording(t)
      BY <3>2 DEF Recording, At
    <3>4. Booked' /\ AnsweredInv'
      BY <3>2, <3>3 DEF IInv, Booked, AnsweredInv
    <3>5. u \notin raced' => added[u] = 0
      <4>1. (\A e \in Deliveries : ~PastLookup(e, u)) => Recording(u) = {}
        BY DEF Recording, PastLookup, At
      <4>2. added[u] = rows[u] + lost[u] + Cardinality(Recording(u))
        BY DEF IInv, Booked
      <4>3. QED
        BY <2>a, <2>c, <3>2, <4>1, <4>2
    <3>6. RaceInv'
      <4> SUFFICES ASSUME NEW t \in Sessions, t \notin raced'
                   PROVE  /\ added'[t] <= 1
                          /\ \A e \in Deliveries : (PastLookup(e, t) /\ At(e, "add"))' => added'[t] = 0
                          /\ \A e, f \in Deliveries : PastLookup(e, t)' /\ PastLookup(f, t)' => e = f
        BY DEF RaceInv
      <4>1. CASE t = u
        BY <3>2, <3>5, <4>1 DEF PastLookup, At
      <4>2. CASE t # u
        BY <3>2, <4>2 DEF IInv, RaceInv, PastLookup, At
      <4>3. QED
        BY <4>1, <4>2
    <3>7. QED
      BY <3>4, <3>6 DEF IInv
  <2>5. ASSUME NEW d \in Deliveries, Add(d) PROVE IInv'
    <3>1. PICK u \in Sessions : u = hook[d].of
      BY <2>5 DEF Add, TypeOK, At
    <3>2. /\ At(d, "add") /\ hook'[d].at = "record" /\ hook'[d].of = u
          /\ \A e \in Deliveries \ {d} : hook'[e] = hook[e]
          /\ UNCHANGED <<answered, rows, lost, raced>>
          /\ added'[u] = added[u] + 1 /\ \A t \in Sessions \ {u} : added'[t] = added[t]
      BY <2>5, <2>b, <2>c, <3>1 DEF Add
    <3>3. d \notin Recording(u) /\ Recording(u)' = Recording(u) \cup {d}
      BY <3>2 DEF Recording, At
    <3>4. ASSUME NEW t \in Sessions, t # u PROVE Recording(t)' = Recording(t)
      BY <3>2, <3>4 DEF Recording, At
    <3>5. Cardinality(Recording(u)') = Cardinality(Recording(u)) + 1
      BY <2>a, <3>1, <3>3, FS_AddElement
    <3>6. Booked'
      <4>1. ASSUME NEW t \in Sessions, t # u
            PROVE  added'[t] = rows'[t] + lost'[t] + Cardinality(Recording(t))'
        BY <3>2, <3>4, <4>1 DEF IInv, Booked
      <4>2. added'[u] = rows'[u] + lost'[u] + Cardinality(Recording(u))'
        <5>1. added[u] = rows[u] + lost[u] + Cardinality(Recording(u))
          BY DEF IInv, Booked
        <5>2. QED
          BY <2>a, <2>c, <3>2, <3>5, <5>1
      <4>3. QED
        BY <4>1, <4>2 DEF Booked
    <3>7. AnsweredInv'
      BY <3>2 DEF IInv, AnsweredInv
    <3>8. RaceInv'
      <4>1. \A e \in Deliveries, t \in Sessions : PastLookup(e, t)' <=> PastLookup(e, t)
        BY <3>1, <3>2 DEF PastLookup, At
      <4>2. PastLookup(d, u)
        BY <3>1, <3>2 DEF PastLookup, At
      <4>3. ASSUME u \notin raced
            PROVE  added'[u] = 1 /\ \A e \in Deliveries : ~(PastLookup(e, u) /\ At(e, "add"))'
        <5>1. added[u] = 0 /\ \A e \in Deliveries : PastLookup(e, u) => e = d
          BY <3>2, <4>2, <4>3 DEF IInv, RaceInv
        <5>2. QED
          BY <3>2, <4>1, <5>1 DEF At
      <4>4. QED
        BY <3>2, <4>1, <4>3 DEF IInv, RaceInv, At, PastLookup
    <3>9. QED
      BY <3>6, <3>7, <3>8 DEF IInv
  <2>6. ASSUME NEW d \in Deliveries, Record(d) \/ (Fail(d) /\ At(d, "record")) PROVE IInv'
    <3>1. PICK u \in Sessions : u = hook[d].of
      BY <2>6 DEF Record, Fail, TypeOK, At
    <3>2. /\ At(d, "record") /\ hook'[d].at = "idle" /\ hook'[d].of = NoSession
          /\ \A e \in Deliveries \ {d} : hook'[e] = hook[e]
          /\ UNCHANGED <<added, raced>>
      BY <2>6, <2>b DEF Record, Fail, Reply, Ends
    <3>3. /\ rows'[u] + lost'[u] = rows[u] + lost[u] + 1 /\ rows'[u] \in Nat /\ lost'[u] \in Nat
          /\ \A t \in Sessions : rows'[t] >= rows[t]
          /\ \A t \in Sessions \ {u} : rows'[t] = rows[t] /\ lost'[t] = lost[t]
          /\ \A t \in answered' : t \in answered \/ (t = u /\ rows'[t] >= 1)
      BY <2>6, <2>c, <3>1 DEF Record, Fail, Reply
    <3>4. d \in Recording(u) /\ Recording(u)' = Recording(u) \ {d}
      BY <3>1, <3>2, TopupsAssumption DEF Recording, At
    <3>5. ASSUME NEW t \in Sessions, t # u PROVE Recording(t)' = Recording(t)
      BY <3>1, <3>2, <3>5, TopupsAssumption DEF Recording, At
    <3>6. Cardinality(Recording(u)') = Cardinality(Recording(u)) - 1
      BY <2>a, <3>1, <3>4, FS_RemoveElement
    <3>7. Booked'
      <4>1. ASSUME NEW t \in Sessions, t # u
            PROVE  added'[t] = rows'[t] + lost'[t] + Cardinality(Recording(t))'
        BY <3>2, <3>3, <3>5, <4>1 DEF IInv, Booked
      <4>2. added'[u] = rows'[u] + lost'[u] + Cardinality(Recording(u))'
        <5>1. added[u] = rows[u] + lost[u] + Cardinality(Recording(u))
          BY DEF IInv, Booked
        <5>2. QED
          BY <2>a, <2>c, <3>2, <3>3, <3>6, <5>1
      <4>3. QED
        BY <4>1, <4>2 DEF Booked
    <3>8. AnsweredInv'
      BY <2>c, <3>3 DEF IInv, AnsweredInv
    <3>9. RaceInv'
      BY <3>2, TopupsAssumption DEF IInv, RaceInv, PastLookup, At
    <3>10. QED
      BY <3>7, <3>8, <3>9 DEF IInv
  <2>7. ASSUME NEW d \in Deliveries, Fail(d), ~At(d, "record") PROVE IInv'
    <3>1. /\ hook'[d].at = "idle" /\ \A e \in Deliveries \ {d} : hook'[e] = hook[e]
          /\ UNCHANGED <<answered, added, rows, lost, raced>>
      BY <2>7, <2>b DEF Fail, Ends
    <3>2. ASSUME NEW t \in Sessions PROVE Recording(t)' = Recording(t)
      BY <2>7, <3>1 DEF Recording, At
    <3>3. Booked' /\ AnsweredInv'
      BY <3>1, <3>2 DEF IInv, Booked, AnsweredInv
    <3>4. RaceInv'
      BY <3>1 DEF IInv, RaceInv, PastLookup, At
    <3>5. QED
      BY <3>3, <3>4 DEF IInv
  <2>8. CASE UNCHANGED vars
    BY <2>8, NothingBooked DEF vars, topupVars, IInv, PastLookup, AnsweredInv
  <2>9. QED
    BY <2>1, <2>2, <2>3, <2>4, <2>5, <2>6, <2>7, <2>8 DEF Next, Handler
<1>3. QED
  BY <1>1, <1>2, TypeCorrect, PTL DEF Spec

(* TwiceOnlyInARace is an invariant: deliveries of an event that follow one *)
(* another, as many as Stripe likes, credit it once.                        *)
THEOREM CreditsOnce == Spec => []TwiceOnlyInARace
<1>1. TypeOK /\ IInv => TwiceOnlyInARace
  BY DEF IInv, RaceInv, TwiceOnlyInARace
<1>2. QED
  BY <1>1, TypeCorrect, Inductive, PTL

(* AnsweredIsCredited is an invariant: what Stripe takes for done is in the *)
(* ledger and in the balance.                                               *)
THEOREM AnsweredMeansDone == Spec => []AnsweredIsCredited
<1>1. TypeOK /\ IInv => AnsweredIsCredited
  <2> SUFFICES ASSUME TypeOK, IInv, NEW t \in answered
               PROVE  rows[t] >= 1 /\ added[t] >= rows[t]
    BY DEF AnsweredIsCredited
  <2>1. t \in Sessions /\ added[t] \in Nat /\ rows[t] \in Nat /\ lost[t] \in Nat
    BY DEF TypeOK
  <2>2. Cardinality(Recording(t)) \in Nat
    BY <2>1, TopupsAssumption, FS_Subset, FS_CardinalityType DEF Recording
  <2>3. QED
    BY <2>1, <2>2 DEF IInv, AnsweredInv, Booked
<1>2. QED
  BY <1>1, TypeCorrect, Inductive, PTL
=============================================================================
