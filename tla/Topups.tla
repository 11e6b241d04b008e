------------------------------- MODULE Topups -------------------------------
(***************************************************************************)
(* Credits bought through Stripe: create_checkout opens a session with the *)
(* agent in its metadata, the buyer pays it, and Stripe delivers the event *)
(* to POST /webhooks/stripe until it has been answered with 200.           *)
(*                                                                         *)
(* The handler looks for a ledger row of the session, adds the credits and *)
(* writes that row, in three statements.  Stripe may deliver an event      *)
(* again while an earlier delivery is still being handled, and a handler   *)
(* may fail at any of the three.                                           *)
(***************************************************************************)
EXTENDS Credits, FiniteSets

CONSTANTS
    Sessions,     \* Checkout sessions
    Deliveries,   \* deliveries of an event that can be in flight at a time
    NoSession,    \* the session of an idle delivery
    MaxExtra,     \* bound: deliveries Stripe makes although one is open or was answered
    MaxFailures   \* bound: handlers that fail

ASSUME TopupsAssumption ==
    /\ NoSession \notin Sessions
    /\ IsFiniteSet(Sessions) /\ IsFiniteSet(Deliveries)
    /\ MaxExtra \in Nat /\ MaxFailures \in Nat

VARIABLES
    session,   \* each session: not created yet, open, paid
    buyer,     \* the agent in its metadata
    hook,      \* each delivery: where its handler is, and its session
    answered,  \* sessions for which Stripe has seen a 200
    added,     \* how often the credits of a session were added to the balance
    rows,      \* ledger rows with the session's id
    lost,      \* additions whose ledger row will never be written
    raced,     \* sessions that were looked up while an addition was under way or lost
    extra, failures

topupVars == <<session, buyer, hook, answered, added, rows, lost, raced, extra, failures>>
vars == <<accountVars, nonces, creditVars, topupVars>>

TypeOK ==
    /\ CreditsTypeOK
    /\ session \in [Sessions -> {"none", "open", "paid"}]
    /\ buyer \in [Sessions -> Agents \cup {Nobody}]
    /\ hook \in [Deliveries -> [at : {"idle", "lookup", "add", "record"},
                                of : Sessions \cup {NoSession}]]
    /\ \A d \in Deliveries : hook[d].at = "idle" <=> hook[d].of = NoSession
    /\ \A d \in Deliveries : hook[d].at # "idle" => session[hook[d].of] = "paid"
    /\ \A t \in Sessions : session[t] # "none" => buyer[t] \in Agents
    /\ answered \subseteq Sessions /\ raced \subseteq Sessions
    /\ added \in [Sessions -> Nat] /\ rows \in [Sessions -> Nat] /\ lost \in [Sessions -> Nat]
    /\ extra \in 0..MaxExtra /\ failures \in 0..MaxFailures

Init ==
    /\ AccountsInit /\ NonceInit /\ CreditsInit
    /\ session = [t \in Sessions |-> "none"]
    /\ buyer = [t \in Sessions |-> Nobody]
    /\ hook = [d \in Deliveries |-> [at |-> "idle", of |-> NoSession]]
    /\ answered = {} /\ raced = {}
    /\ added = [t \in Sessions |-> 0]
    /\ rows = [t \in Sessions |-> 0]
    /\ lost = [t \in Sessions |-> 0]
    /\ extra = 0 /\ failures = 0

At(d, p) == hook[d].at = p

Ends(d) == hook' = [hook EXCEPT ![d] = [at |-> "idle", of |-> NoSession]]
Open(t) == \E d \in Deliveries : hook[d].of = t

-----------------------------------------------------------------------------
(* create_checkout, and the buyer who pays.                                 *)
CreateCheckout(t, a) ==
    /\ session[t] = "none"
    /\ session' = [session EXCEPT ![t] = "open"]
    /\ buyer' = [buyer EXCEPT ![t] = a]
    /\ UNCHANGED <<accountVars, nonces, creditVars, hook, answered, added, rows, lost, raced,
                   extra, failures>>

Pay(t) ==
    /\ session[t] = "open"
    /\ session' = [session EXCEPT ![t] = "paid"]
    /\ UNCHANGED <<accountVars, nonces, creditVars, buyer, hook, answered, added, rows, lost,
                   raced, extra, failures>>

(* Mutant: the type of the event is not looked at, and one about a session  *)
(* that has expired or waits for its money is handled like a paid one.      *)
DeliverAnyEvent(d, t) ==
    /\ At(d, "idle") /\ session[t] # "none"
    /\ \/ t \notin answered /\ ~Open(t) /\ extra' = extra
       \/ (t \in answered \/ Open(t)) /\ extra < MaxExtra /\ extra' = extra + 1
    /\ hook' = [hook EXCEPT ![d] = [at |-> "lookup", of |-> t]]
    /\ UNCHANGED <<accountVars, nonces, creditVars, session, buyer, answered, added, rows, lost,
                   raced, failures>>

(* Stripe delivers an event, and the handler finds it to be a               *)
(* checkout.session.completed: as long as it has no 200 and no delivery of  *)
(* it is open, and now and then although it has or one is.                  *)
Deliver(d, t) ==
    /\ At(d, "idle") /\ session[t] = "paid"
    /\ \/ t \notin answered /\ ~Open(t) /\ extra' = extra
       \/ (t \in answered \/ Open(t)) /\ extra < MaxExtra /\ extra' = extra + 1
    /\ hook' = [hook EXCEPT ![d] = [at |-> "lookup", of |-> t]]
    /\ UNCHANGED <<accountVars, nonces, creditVars, session, buyer, answered, added, rows, lost,
                   raced, failures>>

(* The handler answers 200, and Stripe hears it or gives up waiting.        *)
Reply(d, t) ==
    /\ Ends(d)
    /\ \/ answered' = answered \cup {t} /\ failures' = failures
       \/ failures < MaxFailures /\ failures' = failures + 1 /\ answered' = answered

-----------------------------------------------------------------------------
(* Mutants: the session is not looked up; the test is off by one.           *)
LookupNothing(d) ==
    /\ At(d, "lookup")
    /\ hook' = [hook EXCEPT ![d].at = "add"]
    /\ UNCHANGED <<accountVars, nonces, creditVars, session, buyer, answered, added, rows, lost,
                   raced, extra, failures>>
LookupOffByOne(d) ==
    /\ At(d, "lookup") /\ rows[hook[d].of] >= 0
    /\ Reply(d, hook[d].of)
    /\ UNCHANGED <<accountVars, nonces, creditVars, session, buyer, added, rows, lost, raced, extra>>

(* The SELECT of the ledger rows with this session.                         *)
Lookup(d) ==
    LET t == hook[d].of IN
    /\ At(d, "lookup")
    /\ \/ /\ rows[t] > 0
          /\ Reply(d, t)
          /\ UNCHANGED raced
       \/ /\ rows[t] = 0
          /\ hook' = [hook EXCEPT ![d].at = "add"]
          /\ raced' = IF lost[t] > 0 \/ \E e \in Deliveries : hook[e].of = t /\ hook[e].at # "lookup"
                      THEN raced \cup {t} ELSE raced
          /\ UNCHANGED <<answered, failures>>
    /\ UNCHANGED <<accountVars, nonces, creditVars, session, buyer, added, rows, lost, extra>>

(* add_credits: the UPDATE, then the ledger row with the session's id.      *)
Add(d) ==
    LET t == hook[d].of IN
    /\ At(d, "add")
    /\ AddCredit(buyer[t])
    /\ added' = [added EXCEPT ![t] = @ + 1]
    /\ hook' = [hook EXCEPT ![d].at = "record"]
    /\ UNCHANGED <<accountVars, nonces, session, buyer, answered, rows, lost, raced, extra, failures>>

(* Mutant: the ledger row carries no session id.                            *)
RecordUnnamed(d) ==
    /\ At(d, "record")
    /\ BookGrant(buyer[hook[d].of])
    /\ Reply(d, hook[d].of)
    /\ UNCHANGED <<accountVars, nonces, session, buyer, added, rows, lost, raced, extra>>

Record(d) ==
    LET t == hook[d].of IN
    /\ At(d, "record")
    /\ BookGrant(buyer[t])
    /\ rows' = [rows EXCEPT ![t] = @ + 1]
    /\ Reply(d, t)
    /\ UNCHANGED <<accountVars, nonces, session, buyer, added, lost, raced, extra>>

Handler(d) == Lookup(d) \/ Add(d) \/ Record(d)

(* A statement raises or the machine stops: Stripe sees no 200.             *)
Fail(d) ==
    LET t == hook[d].of IN
    /\ ~At(d, "idle")
    /\ failures < MaxFailures
    /\ failures' = failures + 1
    /\ Ends(d)
    /\ lost' = IF At(d, "record") THEN [lost EXCEPT ![t] = @ + 1] ELSE lost
    /\ UNCHANGED <<accountVars, nonces, creditVars, session, buyer, answered, added, rows, raced, extra>>

Next ==
    \/ \E t \in Sessions : Pay(t)
    \/ \E t \in Sessions, a \in Agents : CreateCheckout(t, a)
    \/ \E t \in Sessions, d \in Deliveries : Deliver(d, t)
    \/ \E d \in Deliveries : Handler(d) \/ Fail(d)

Spec == Init /\ [][Next]_vars

(* asyncio runs every handler that is ready, and Stripe goes on delivering  *)
(* an event until it is answered.  Nobody has to buy anything.              *)
FairSpec ==
    /\ Spec
    /\ \A d \in Deliveries : WF_vars(Handler(d))
    /\ \A t \in Sessions :
          WF_vars(t \notin answered /\ ~Open(t) /\ \E d \in Deliveries : Deliver(d, t))
-----------------------------------------------------------------------------
(* A session is credited twice only if one of its deliveries looked for the *)
(* row while the credits of another were already on their way, or after     *)
(* they were added and the row was lost to a failure.  Deliveries that      *)
(* follow one another, as many as Stripe likes, credit once.                *)
TwiceOnlyInARace ==
    \A t \in Sessions : added[t] <= 1 \/ t \in raced

(* What Stripe takes for done is done: an event it has a 200 for has its    *)
(* ledger row, and the balance of its agent its credits.                    *)
AnsweredIsCredited ==
    \A t \in answered : rows[t] >= 1 /\ added[t] >= rows[t]

(* A session that was paid is credited in the end, whatever handlers failed *)
(* on the way and whichever answers were lost.                              *)
PaidIsCredited ==
    \A t \in Sessions : (session[t] = "paid") ~> (rows[t] >= 1)
=============================================================================
