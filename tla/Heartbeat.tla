----------------------------- MODULE Heartbeat ------------------------------
(***************************************************************************)
(* The heartbeat monitor: an agent that stops polling its inbox is         *)
(* reported to its contact, once, and reported back when it polls again.   *)
(*                                                                         *)
(* Three kinds of process share the agents table.  A poll (get_inbox)      *)
(* reads the row, writes last_seen_at unless this machine wrote it less    *)
(* than HEARTBEAT_INTERVAL ago, and clears agent_down_notified.  The       *)
(* checker, one loop per machine behind a Postgres advisory lock, wakes    *)
(* every minute, selects the silent agents, mails and flags them one by    *)
(* one, and records the last_seen_at it observed.  The owner switches      *)
(* monitoring and pauses alerts.  Each action below is one statement, or   *)
(* one call to Resend, between two awaits.                                 *)
(***************************************************************************)
EXTENDS Integers, FiniteSets

CONSTANTS
    Agents, Machines, Polls,
    NoOne,          \* neither an agent nor a machine
    Interval,       \* HEARTBEAT_INTERVAL: a machine's own writes are this far apart
    Timeout,        \* agents.heartbeat_timeout
    Period,         \* the checker's sleep
    Spans,          \* how long an alert can be paused
    Undeliverable,  \* agents to whose contact every mail is refused by Resend
    Faults,         \* which faults may happen: "crash", "raise", "cap", "db"
    MaxFaults,      \* bound: faults in a behaviour
    MaxGap,         \* bound: the longest an agent goes without an answered poll
    Horizon,        \* bound: after this time no agent polls
    OwnerHorizon,   \* bound: after this time no owner changes a setting
    MaxTime         \* bound: the clock stops here

ASSUME HeartbeatAssumption ==
    /\ Interval \in Nat /\ Timeout \in Nat /\ Period \in Nat \ {0}
    /\ Spans \subseteq Nat /\ IsFiniteSet(Polls)
    /\ NoOne \notin Agents /\ NoOne \notin Machines
    /\ Undeliverable \subseteq Agents
    /\ MaxFaults \in Nat /\ MaxGap \in Nat /\ Horizon \in Nat
    /\ OwnerHorizon \in Nat /\ MaxTime \in Nat

VARIABLES
    now,        \* the time, for Postgres and for every machine's monotonic clock
    enabled,    \* agents.heartbeat_enabled
    lastSeen,   \* agents.last_seen_at
    checkedAt,  \* agents.heartbeat_checked_at
    notified,   \* agents.agent_down_notified
    paused,     \* agents.alert_status # 'active'
    muteUntil,  \* agents.alert_mute_until
    cache,      \* _heartbeat_cache of each machine
    poll,       \* the get_inbox calls in flight
    checker,    \* where each machine's heartbeat_loop is
    nap,        \* what is left of its sleep
    todo,       \* the candidates its SELECT returned and it has not dealt with
    current,    \* the candidate it has just mailed
    lock,       \* which machine's session holds the advisory lock
    alerts,     \* "stopped responding" mails sent for each agent
    greets,     \* "is back online" mails sent for each agent
    served,     \* when a poll of each monitored agent was last answered in time
    faults      \* faults so far

rowVars == <<enabled, lastSeen, checkedAt, notified, paused, muteUntil>>
checkerVars == <<checker, nap, todo, current, lock>>
mailVars == <<alerts, greets>>
vars == <<now, rowVars, cache, poll, checkerVars, mailVars, served, faults>>

Never == -1        \* NULL, and the -inf of an empty cache
Time == 0..MaxTime
Instant == Time \cup {Never}

NoPoll == [step |-> "idle", agent |-> NoOne, machine |-> NoOne, at |-> Never, down |-> FALSE]
PollState == {NoPoll} \cup
    [step : {"beat", "clear", "greet"}, agent : Agents, machine : Machines, at : Time, down : BOOLEAN]

TypeOK ==
    /\ now \in Time
    /\ enabled \in [Agents -> BOOLEAN]
    /\ lastSeen \in [Agents -> Instant]
    /\ checkedAt \in [Agents -> Instant]
    /\ notified \in [Agents -> BOOLEAN]
    /\ paused \in [Agents -> BOOLEAN]
    /\ muteUntil \in [Agents -> Nat \cup {Never}]
    /\ cache \in [Machines -> [Agents -> Instant]]
    /\ poll \in [Polls -> PollState]
    /\ checker \in [Machines -> {"asleep", "scan", "alert", "flag", "unmute", "unlock"}]
    /\ nap \in [Machines -> 0..Period]
    /\ todo \in [Machines -> SUBSET Agents]
    /\ current \in [Machines -> Agents \cup {NoOne}]
    /\ lock \in Machines \cup {NoOne}
    /\ alerts \in [Agents -> Nat]
    /\ greets \in [Agents -> Nat]
    /\ served \in [Agents -> Instant]
    /\ faults \in 0..MaxFaults

Init ==
    /\ now = 0
    /\ enabled \in [Agents -> BOOLEAN]
    /\ lastSeen = [a \in Agents |-> Never]
    /\ checkedAt = [a \in Agents |-> Never]
    /\ notified = [a \in Agents |-> FALSE]
    /\ paused = [a \in Agents |-> FALSE]
    /\ muteUntil = [a \in Agents |-> Never]
    /\ cache = [m \in Machines |-> [a \in Agents |-> Never]]
    /\ poll = [p \in Polls |-> NoPoll]
    /\ checker = [m \in Machines |-> "asleep"]
    /\ nap = [m \in Machines |-> 0]
    /\ todo = [m \in Machines |-> {}]
    /\ current = [m \in Machines |-> NoOne]
    /\ lock = NoOne
    /\ alerts = [a \in Agents |-> 0]
    /\ greets = [a \in Agents |-> 0]
    /\ served = [a \in Agents |-> Never]
    /\ faults = 0

Fault(kind) == kind \in Faults /\ faults < MaxFaults /\ faults' = faults + 1
NoFault == UNCHANGED faults

-----------------------------------------------------------------------------
(* get_inbox.  A poll of an agent that is not monitored touches none of     *)
(* this and is not modelled.                                                *)

Stale(m, a) == cache[m][a] = Never \/ now - cache[m][a] >= Interval

(* After the write, or without it, comes the recovery: only if the row that *)
(* was read said the agent was reported down.                               *)
Onward(p, q) == poll' = [poll EXCEPT ![p] = IF q.down THEN [q EXCEPT !.step = "clear"] ELSE NoPoll]

ReadAgent(p, a, m) ==
    /\ now <= Horizon
    /\ poll[p] = NoPoll
    /\ enabled[a]
    /\ LET q == [step |-> "beat", agent |-> a, machine |-> m, at |-> now, down |-> notified[a]] IN
       \/ /\ Stale(m, a)
          /\ poll' = [poll EXCEPT ![p] = q]
          /\ UNCHANGED served
       \/ /\ ~Stale(m, a)
          /\ Onward(p, q)
          /\ served' = [served EXCEPT ![a] = now]
    /\ NoFault
    /\ UNCHANGED <<now, rowVars, cache, checkerVars, mailVars>>

(* Mutant: the cache is refreshed although the write failed.                *)
BeatCachedAnyway(p) ==
    LET q == poll[p] IN
    /\ q.step = "beat"
    /\ \/ lastSeen' = [lastSeen EXCEPT ![q.agent] = now] /\ NoFault
       \/ lastSeen' = lastSeen /\ Fault("db")
    /\ cache' = [cache EXCEPT ![q.machine][q.agent] = q.at]
    /\ served' = [served EXCEPT ![q.agent] = now]
    /\ Onward(p, q)
    /\ UNCHANGED <<now, enabled, checkedAt, notified, paused, muteUntil, checkerVars, mailVars>>

(* The throttled write.  If it raises, whether or not the statement ran,    *)
(* the exception is swallowed and the cache is left alone.                  *)
Beat(p) ==
    LET q == poll[p] IN
    /\ q.step = "beat"
    /\ \/ /\ lastSeen' = [lastSeen EXCEPT ![q.agent] = now]
          /\ cache' = [cache EXCEPT ![q.machine][q.agent] = q.at]
          /\ served' = [served EXCEPT ![q.agent] = now]
          /\ NoFault
       \/ /\ Fault("db")
          /\ lastSeen' \in {lastSeen, [lastSeen EXCEPT ![q.agent] = now]}
          /\ UNCHANGED <<cache, served>>
    /\ Onward(p, q)
    /\ UNCHANGED <<now, enabled, checkedAt, notified, paused, muteUntil, checkerVars, mailVars>>

(* The conditional UPDATE that clears the flag.  The cache is refreshed     *)
(* even when another poll has cleared it first.  If it raises the poll      *)
(* answers 500, with the statement run or not.                              *)
ClearDown(p) ==
    LET q == poll[p] IN
    /\ q.step = "clear"
    /\ \/ /\ notified[q.agent]
          /\ notified' = [notified EXCEPT ![q.agent] = FALSE]
          /\ lastSeen' = [lastSeen EXCEPT ![q.agent] = now]
          /\ \/ /\ NoFault
                /\ cache' = [cache EXCEPT ![q.machine][q.agent] = q.at]
                /\ served' = [served EXCEPT ![q.agent] = now]
                /\ poll' = [poll EXCEPT ![p].step = "greet"]
             \/ /\ Fault("db")
                /\ poll' = [poll EXCEPT ![p] = NoPoll]
                /\ UNCHANGED <<cache, served>>
       \/ /\ ~notified[q.agent]
          /\ cache' = [cache EXCEPT ![q.machine][q.agent] = q.at]
          /\ poll' = [poll EXCEPT ![p] = NoPoll]
          /\ NoFault
          /\ UNCHANGED <<notified, lastSeen, served>>
       \/ /\ Fault("db")
          /\ poll' = [poll EXCEPT ![p] = NoPoll]
          /\ UNCHANGED <<notified, lastSeen, cache, served>>
    /\ UNCHANGED <<now, enabled, checkedAt, paused, muteUntil, checkerVars, mailVars>>

(* The recovery mail: sent, refused (the poll answers 500), or dropped by   *)
(* the daily cap.                                                           *)
Greet(p) ==
    LET q == poll[p] IN
    /\ q.step = "greet"
    /\ \/ /\ q.agent \notin Undeliverable
          /\ greets' = [greets EXCEPT ![q.agent] = @ + 1]
          /\ NoFault
       \/ q.agent \in Undeliverable /\ NoFault /\ UNCHANGED greets
       \/ (Fault("raise") \/ Fault("cap")) /\ UNCHANGED greets
    /\ poll' = [poll EXCEPT ![p] = NoPoll]
    /\ UNCHANGED <<now, rowVars, cache, checkerVars, alerts, served>>

-----------------------------------------------------------------------------
(* heartbeat_loop and _run_heartbeat_check.  A sleep that would end after   *)
(* the last modelled instant ends there.                                    *)
Due(m) == nap[m] = 0 \/ now = MaxTime

TryLockTwice(m) ==   \* mutant: after a failed attempt it sleeps a period too long
    /\ checker[m] = "asleep" /\ Due(m)
    /\ \/ lock = NoOne /\ lock' = m /\ checker' = [checker EXCEPT ![m] = "scan"] /\ UNCHANGED nap
       \/ lock # NoOne /\ nap' = [nap EXCEPT ![m] = 2 * Period] /\ UNCHANGED <<lock, checker>>
    /\ NoFault
    /\ UNCHANGED <<now, rowVars, cache, poll, todo, current, mailVars, served>>

TryLockUnlocked(m) ==   \* mutant: no advisory lock
    /\ checker[m] = "asleep" /\ Due(m)
    /\ checker' = [checker EXCEPT ![m] = "scan"]
    /\ NoFault
    /\ UNCHANGED <<now, rowVars, cache, poll, nap, todo, current, lock, mailVars, served>>

TryLock(m) ==
    /\ checker[m] = "asleep" /\ Due(m)
    /\ \/ /\ lock = NoOne
          /\ lock' = m
          /\ checker' = [checker EXCEPT ![m] = "scan"]
          /\ UNCHANGED nap
       \/ /\ lock # NoOne
          /\ nap' = [nap EXCEPT ![m] = Period]
          /\ UNCHANGED <<lock, checker>>
    /\ NoFault
    /\ UNCHANGED <<now, rowVars, cache, poll, todo, current, mailVars, served>>

Candidate(a) ==
    /\ ~paused[a] /\ enabled[a]
    /\ lastSeen[a] # Never /\ now - lastSeen[a] > Timeout
    /\ checkedAt[a] # Never /\ lastSeen[a] <= checkedAt[a]
    /\ ~notified[a]
    /\ muteUntil[a] = Never \/ muteUntil[a] < now

Scan(m) ==
    /\ checker[m] = "scan"
    /\ todo' = [todo EXCEPT ![m] = {a \in Agents : Candidate(a)}]
    /\ checker' = [checker EXCEPT ![m] = "alert"]
    /\ NoFault
    /\ UNCHANGED <<now, rowVars, cache, poll, nap, current, lock, mailVars, served>>

(* One turn of the for loop, up to the mail.  A mail that Resend refuses    *)
(* ends the whole cycle; one dropped by the daily cap looks like one sent.  *)
SendAlert(m, a) ==
    /\ checker[m] = "alert" /\ a \in todo[m]
    /\ \/ /\ \/ /\ a \notin Undeliverable
                /\ alerts' = [alerts EXCEPT ![a] = @ + 1]
                /\ NoFault
             \/ Fault("cap") /\ UNCHANGED alerts
          /\ checker' = [checker EXCEPT ![m] = "flag"]
          /\ current' = [current EXCEPT ![m] = a]
          /\ UNCHANGED todo
       \/ /\ (a \in Undeliverable /\ NoFault) \/ Fault("raise")
          /\ checker' = [checker EXCEPT ![m] = "unlock"]
          /\ todo' = [todo EXCEPT ![m] = {}]
          /\ UNCHANGED <<current, alerts>>
    /\ UNCHANGED <<now, rowVars, cache, poll, nap, lock, greets, served>>

SetNotified(m) ==
    /\ checker[m] = "flag"
    /\ notified' = [notified EXCEPT ![current[m]] = TRUE]
    /\ todo' = [todo EXCEPT ![m] = @ \ {current[m]}]
    /\ current' = [current EXCEPT ![m] = NoOne]
    /\ checker' = [checker EXCEPT ![m] = "alert"]
    /\ NoFault
    /\ UNCHANGED <<now, enabled, lastSeen, checkedAt, paused, muteUntil, cache, poll, nap, lock,
                   mailVars, served>>

(* heartbeat_checked_at = last_seen_at, as it is at this statement.         *)
RecordSeen(m) ==
    /\ checker[m] = "alert" /\ todo[m] = {}
    /\ checkedAt' = [a \in Agents |-> IF enabled[a] /\ lastSeen[a] # Never THEN lastSeen[a]
                                                                         ELSE checkedAt[a]]
    /\ checker' = [checker EXCEPT ![m] = "unmute"]
    /\ NoFault
    /\ UNCHANGED <<now, enabled, lastSeen, notified, paused, muteUntil, cache, poll, nap, todo,
                   current, lock, mailVars, served>>

UnmuteForgotten(m) ==   \* mutant: the pause is erased but alert_status is not reset
    LET over == {a \in Agents : muteUntil[a] # Never /\ muteUntil[a] < now} IN
    /\ checker[m] = "unmute"
    /\ muteUntil' = [a \in Agents |-> IF a \in over THEN Never ELSE muteUntil[a]]
    /\ checker' = [checker EXCEPT ![m] = "unlock"]
    /\ NoFault
    /\ UNCHANGED <<now, enabled, lastSeen, checkedAt, notified, paused, cache, poll, nap, todo,
                   current, lock, mailVars, served>>

Unmute(m) ==
    LET over == {a \in Agents : muteUntil[a] # Never /\ muteUntil[a] < now} IN
    /\ checker[m] = "unmute"
    /\ paused' = [a \in Agents |-> paused[a] /\ a \notin over]
    /\ muteUntil' = [a \in Agents |-> IF a \in over THEN Never ELSE muteUntil[a]]
    /\ checker' = [checker EXCEPT ![m] = "unlock"]
    /\ NoFault
    /\ UNCHANGED <<now, enabled, lastSeen, checkedAt, notified, cache, poll, nap, todo, current,
                   lock, mailVars, served>>

Unlock(m) ==
    /\ checker[m] = "unlock"
    /\ lock' = NoOne
    /\ checker' = [checker EXCEPT ![m] = "asleep"]
    /\ nap' = [nap EXCEPT ![m] = Period]
    /\ NoFault
    /\ UNCHANGED <<now, rowVars, cache, poll, todo, current, mailVars, served>>

Checker(m) ==
    \/ TryLock(m) \/ Scan(m) \/ (\E a \in Agents : SendAlert(m, a)) \/ SetNotified(m)
    \/ RecordSeen(m) \/ Unmute(m) \/ Unlock(m)

(* A statement of the cycle raises: the rest of the cycle is skipped, the   *)
(* loop logs the exception and the finally clause unlocks.                  *)
Abort(m) ==
    /\ checker[m] \in {"scan", "alert", "flag", "unmute"}
    /\ Fault("db")
    /\ checker' = [checker EXCEPT ![m] = "unlock"]
    /\ todo' = [todo EXCEPT ![m] = {}]
    /\ current' = [current EXCEPT ![m] = NoOne]
    /\ UNCHANGED <<now, rowVars, cache, poll, nap, lock, mailVars, served>>

(* A machine stops and starts again: its polls and its cache are gone, and  *)
(* Postgres drops the lock with the session.                                *)
Crash(m) ==
    /\ Fault("crash")
    /\ poll' = [p \in Polls |-> IF poll[p].machine = m THEN NoPoll ELSE poll[p]]
    /\ cache' = [cache EXCEPT ![m] = [a \in Agents |-> Never]]
    /\ checker' = [checker EXCEPT ![m] = "asleep"]
    /\ nap' = [nap EXCEPT ![m] = 0]
    /\ todo' = [todo EXCEPT ![m] = {}]
    /\ current' = [current EXCEPT ![m] = NoOne]
    /\ lock' = IF lock = m THEN NoOne ELSE lock
    /\ UNCHANGED <<now, rowVars, mailVars, served>>

-----------------------------------------------------------------------------
(* enable_heartbeat and disable_heartbeat: the column and nothing else.     *)
SwitchHeartbeat(a) ==
    /\ now <= OwnerHorizon
    /\ enabled' = [enabled EXCEPT ![a] = ~@]
    /\ NoFault
    /\ UNCHANGED <<now, lastSeen, checkedAt, notified, paused, muteUntil, cache, poll, checkerVars,
                   mailVars, served>>

(* The links in an alert mail: pause for a while, or alerts on.             *)
HandleAlert(a) ==
    /\ now <= OwnerHorizon
    /\ \/ /\ paused' = [paused EXCEPT ![a] = TRUE]
          /\ \E d \in Spans : muteUntil' = [muteUntil EXCEPT ![a] = now + d]
       \/ /\ paused' = [paused EXCEPT ![a] = FALSE]
          /\ muteUntil' = [muteUntil EXCEPT ![a] = Never]
    /\ NoFault
    /\ UNCHANGED <<now, enabled, lastSeen, checkedAt, notified, cache, poll, checkerVars, mailVars,
                   served>>

Tick ==
    /\ now < MaxTime
    /\ \A a \in Agents : now + 1 - (IF served[a] = Never THEN 0 ELSE served[a]) <= MaxGap
    /\ now' = now + 1
    /\ nap' = [m \in Machines |-> IF nap[m] > 0 THEN nap[m] - 1 ELSE 0]
    /\ NoFault
    /\ UNCHANGED <<rowVars, cache, poll, checker, todo, current, lock, mailVars, served>>

Poll(p) == Beat(p) \/ ClearDown(p) \/ Greet(p)

Next ==
    \/ \E p \in Polls, a \in Agents, m \in Machines : ReadAgent(p, a, m)
    \/ \E p \in Polls : Poll(p)
    \/ \E m \in Machines : Checker(m) \/ Abort(m) \/ Crash(m)
    \/ \E a \in Agents : SwitchHeartbeat(a) \/ HandleAlert(a)
    \/ Tick

Spec == Init /\ [][Next]_vars

(* The event loop runs every task that is ready, and time passes.           *)
FairSpec ==
    /\ Spec
    /\ \A p \in Polls : WF_vars(Poll(p))
    /\ \A m \in Machines : WF_vars(Checker(m))
    /\ WF_vars(Tick)
-----------------------------------------------------------------------------
(* No false alarm.  Whatever the interleaving of polls on several machines  *)
(* with their private caches, and whatever fails, the checker selects an    *)
(* agent only if none of its polls was answered during the last             *)
(* Timeout - Interval.                                                      *)
AlertJustified ==
    [][\A m \in Machines : \A a \in todo'[m] \ todo[m] :
          served[a] # Never => now - served[a] > Timeout - Interval]_vars

(* An agent whose polls are never more than MaxGap apart is never selected. *)
(* It follows from AlertJustified for MaxGap <= Timeout - Interval, and not *)
(* for the ten minutes the skill's documentation recommends.                *)
PollingKeepsAlive == \A m \in Machines : todo[m] = {}

(* The contact hears of an outage once and of its end once: without faults  *)
(* the mails alternate, whatever machines and polls race for the flag.      *)
Reporting(a) == notified[a] \/ \E m \in Machines : checker[m] = "flag" /\ current[m] = a
OneMailPerOutage ==
    faults = 0 => \A a \in Agents \ Undeliverable :
        alerts[a] = greets[a]
                     + Cardinality({p \in Polls : poll[p].step = "greet" /\ poll[p].agent = a})
                     + (IF Reporting(a) THEN 1 ELSE 0)

(* Silence is reported.  A monitored agent that stays overdue is in the end *)
(* flagged for good, also when its alerts were paused for a while and when  *)
(* a machine stopped or a mail was refused: the next cycle tries again.     *)
Overdue(a) == enabled[a] /\ lastSeen[a] # Never /\ now - lastSeen[a] > Timeout
SilenceReported == \A a \in Agents \ Undeliverable : <>[]Overdue(a) => <>[]notified[a]
=============================================================================
