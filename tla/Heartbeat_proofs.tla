-------------------------- MODULE Heartbeat_proofs --------------------------
(***************************************************************************)
(* Proofs about the heartbeat monitor, for every number of agents,         *)
(* machines and polls, every timeout and interval, and every bound.        *)
(*                                                                         *)
(* The argument: the throttle lets a poll go unwritten only while this     *)
(* machine's cache entry is younger than Interval, and a cache entry is    *)
(* never newer than last_seen_at.  The last is what could go wrong, since  *)
(* a poll also refreshes the cache when its recovery UPDATE matched no     *)
(* row; it holds because the row was then cleared, and last_seen_at        *)
(* written, after that poll took its time.                                 *)
(*                                                                         *)
(* And that outages and recoveries are mailed in turn: the lock gives one  *)
(* machine at a time a cycle, so what it selected nobody else flags before *)
(* it has mailed (Cycle); each mailed outage is then either still flagged, *)
(* or in the hands of the one poll that cleared the flag, or greeted       *)
(* (Even).                                                                 *)
(***************************************************************************)
EXTENDS Heartbeat, FiniteSetTheorems, TLAPS

(* Instants are numbers, and NULL is none of the clock's.                   *)
LEMMA Instants == /\ Time \subseteq Instant /\ Never \in Instant /\ Instant \subseteq Int
                  /\ \A t \in Time : t # Never /\ t >= 0
                  /\ \A t \in Instant : t # Never => t \in Time
  BY HeartbeatAssumption DEF Time, Instant, Never

(* Type correctness of the monitor: TypeOK is an invariant.                 *)
THEOREM TypeCorrect == Spec => []TypeOK
<1>1. Init => TypeOK
  BY HeartbeatAssumption DEF Init, TypeOK, PollState, Time, Instant
<1>2. TypeOK /\ [Next]_vars => TypeOK'
  <2> SUFFICES ASSUME TypeOK, [Next]_vars PROVE TypeOK'
    OBVIOUS
  <2> USE DEF TypeOK, rowVars, mailVars, checkerVars, Fault, NoFault
  <2>1. ASSUME NEW p \in Polls, NEW a \in Agents, NEW m \in Machines, ReadAgent(p, a, m)
        PROVE TypeOK'
    <3> DEFINE q == [step |-> "beat", agent |-> a, machine |-> m, at |-> now, down |-> notified[a]]
    <3>1. q \in PollState /\ [q EXCEPT !.step = "clear"] \in PollState /\ NoPoll \in PollState
      BY DEF PollState
    <3>2. poll' \in [Polls -> PollState]
      BY <2>1, <3>1 DEF ReadAgent, Onward
    <3>3. served' \in [Agents -> Instant]
      BY <2>1, Instants DEF ReadAgent
    <3>4. QED
      BY <2>1, <3>2, <3>3 DEF ReadAgent
  <2>2. ASSUME NEW p \in Polls, Beat(p) PROVE TypeOK'
    <3>1. poll[p] \in PollState /\ poll[p] # NoPoll
      BY <2>2 DEF Beat, NoPoll
    <3>2. /\ [poll[p] EXCEPT !.step = "clear"] \in PollState /\ NoPoll \in PollState
          /\ poll[p].agent \in Agents /\ poll[p].machine \in Machines /\ poll[p].at \in Time
      BY <3>1 DEF PollState
    <3>3. poll' \in [Polls -> PollState]
      BY <2>2, <3>2 DEF Beat, Onward
    <3>4. /\ lastSeen' \in [Agents -> Instant] /\ served' \in [Agents -> Instant]
          /\ cache' \in [Machines -> [Agents -> Instant]]
      <4>1. poll[p].at \in Instant /\ now \in Instant
        BY <3>2, Instants
      <4>2. CASE lastSeen' \in {lastSeen, [lastSeen EXCEPT ![poll[p].agent] = now]}
                   /\ UNCHANGED <<cache, served>>
        BY <4>1, <4>2
      <4>3. CASE /\ lastSeen' = [lastSeen EXCEPT ![poll[p].agent] = now]
                 /\ cache' = [cache EXCEPT ![poll[p].machine][poll[p].agent] = poll[p].at]
                 /\ served' = [served EXCEPT ![poll[p].agent] = now]
        BY <3>2, <4>1, <4>3
      <4>4. QED
        BY <2>2, <4>2, <4>3 DEF Beat
    <3>5. faults' \in 0..MaxFaults
      BY <2>2, HeartbeatAssumption DEF Beat
    <3>6. QED
      BY <2>2, <3>3, <3>4, <3>5 DEF Beat
  <2>3. ASSUME NEW p \in Polls, ClearDown(p) PROVE TypeOK'
    <3>1. poll[p] \in PollState /\ poll[p] # NoPoll
      BY <2>3 DEF ClearDown, NoPoll
    <3>2. /\ [poll[p] EXCEPT !.step = "greet"] \in PollState /\ NoPoll \in PollState
          /\ poll[p].agent \in Agents /\ poll[p].machine \in Machines /\ poll[p].at \in Time
      BY <3>1 DEF PollState
    <3>3. poll' \in [Polls -> PollState]
      BY <2>3, <3>2 DEF ClearDown
    <3>4. poll[p].at \in Instant /\ now \in Instant
      BY <3>2, Instants
    <3>5. cache' \in [Machines -> [Agents -> Instant]]
      <4>1. \/ cache' = cache
            \/ cache' = [cache EXCEPT ![poll[p].machine][poll[p].agent] = poll[p].at]
        BY <2>3 DEF ClearDown
      <4>2. CASE cache' = [cache EXCEPT ![poll[p].machine][poll[p].agent] = poll[p].at]
        BY <3>2, <3>4, <4>2
      <4>3. QED
        BY <4>1, <4>2
    <3>6. lastSeen' \in [Agents -> Instant] /\ served' \in [Agents -> Instant]
      <4>1. /\ lastSeen' \in {lastSeen, [lastSeen EXCEPT ![poll[p].agent] = now]}
            /\ served' \in {served, [served EXCEPT ![poll[p].agent] = now]}
        BY <2>3 DEF ClearDown
      <4>2. [lastSeen EXCEPT ![poll[p].agent] = now] \in [Agents -> Instant]
        BY <3>2, <3>4
      <4>3. [served EXCEPT ![poll[p].agent] = now] \in [Agents -> Instant]
        BY <3>2, <3>4
      <4>4. QED
        BY <4>1, <4>2, <4>3
    <3>7. notified' \in [Agents -> BOOLEAN]
      BY <2>3, <3>2 DEF ClearDown
    <3>8. faults' \in 0..MaxFaults
      BY <2>3, HeartbeatAssumption DEF ClearDown
    <3>9. QED
      BY <2>3, <3>3, <3>5, <3>6, <3>7, <3>8 DEF ClearDown
  <2>4. ASSUME NEW p \in Polls, Greet(p) PROVE TypeOK'
    <3>1. poll' \in [Polls -> PollState]
      BY <2>4 DEF Greet, PollState
    <3>2. greets' \in [Agents -> Nat] /\ faults' \in 0..MaxFaults
      BY <2>4, HeartbeatAssumption DEF Greet
    <3>3. QED
      BY <2>4, <3>1, <3>2 DEF Greet
  <2>5. ASSUME NEW m \in Machines, TryLock(m) PROVE TypeOK'
    <3>1. checker' \in {checker, [checker EXCEPT ![m] = "scan"]} /\ lock' \in {lock, m}
      BY <2>5 DEF TryLock
    <3>2. nap' \in [Machines -> 0..Period]
      <4>1. nap' \in {nap, [nap EXCEPT ![m] = Period]}
        BY <2>5 DEF TryLock
      <4>2. Period \in 0..Period
        BY HeartbeatAssumption
      <4>3. nap \in [Machines -> 0..Period]
        OBVIOUS
      <4>4. QED
        BY <4>1, <4>2, <4>3
    <3>3. QED
      BY <2>5, <3>1, <3>2 DEF TryLock
  <2>6. ASSUME NEW m \in Machines, Scan(m) PROVE TypeOK'
    BY <2>6 DEF Scan
  <2>7. ASSUME NEW m \in Machines, NEW a \in Agents, SendAlert(m, a) PROVE TypeOK'
    <3>1. alerts' \in [Agents -> Nat] /\ faults' \in 0..MaxFaults
      <4>1. alerts' \in [Agents -> Nat]
        <5>1. alerts' \in {alerts, [alerts EXCEPT ![a] = @ + 1]}
          BY <2>7 DEF SendAlert
        <5>2. QED
          BY <5>1
      <4>2. faults' \in 0..MaxFaults
        <5>1. faults' \in {faults, faults + 1} /\ (faults' = faults \/ faults < MaxFaults)
          BY <2>7 DEF SendAlert
        <5>2. QED
          BY <5>1, HeartbeatAssumption
      <4>3. QED
        BY <4>1, <4>2
    <3>2. checker' \in {[checker EXCEPT ![m] = "flag"], [checker EXCEPT ![m] = "unlock"]}
      BY <2>7 DEF SendAlert
    <3>3. /\ current' \in {current, [current EXCEPT ![m] = a]}
          /\ todo' \in {todo, [todo EXCEPT ![m] = {}]}
      BY <2>7 DEF SendAlert
    <3>4. /\ checker' \in [Machines -> {"asleep", "scan", "alert", "flag", "unmute", "unlock"}]
          /\ current' \in [Machines -> Agents \cup {NoOne}]
          /\ todo' \in [Machines -> SUBSET Agents]
      BY <3>2, <3>3
    <3>5. QED
      BY <2>7, <3>1, <3>4 DEF SendAlert
  <2>8. ASSUME NEW m \in Machines, SetNotified(m) PROVE TypeOK'
    BY <2>8 DEF SetNotified
  <2>9. ASSUME NEW m \in Machines, RecordSeen(m) PROVE TypeOK'
    BY <2>9 DEF RecordSeen
  <2>10. ASSUME NEW m \in Machines, Unmute(m) PROVE TypeOK'
    BY <2>10 DEF Unmute
  <2>11. ASSUME NEW m \in Machines, Unlock(m) PROVE TypeOK'
    BY <2>11, HeartbeatAssumption DEF Unlock
  <2>12. ASSUME NEW m \in Machines, Crash(m) PROVE TypeOK'
    <3>1. poll' \in [Polls -> PollState]
      BY <2>12 DEF Crash, PollState
    <3>2. cache' \in [Machines -> [Agents -> Instant]]
      BY <2>12, Instants DEF Crash
    <3>3. nap' \in [Machines -> 0..Period] /\ faults' \in 0..MaxFaults
      BY <2>12, HeartbeatAssumption DEF Crash
    <3>4. QED
      BY <2>12, <3>1, <3>2, <3>3 DEF Crash
  <2>13. ASSUME NEW a \in Agents, SwitchHeartbeat(a) PROVE TypeOK'
    BY <2>13 DEF SwitchHeartbeat
  <2>14. ASSUME NEW a \in Agents, HandleAlert(a) PROVE TypeOK'
    <3>1. muteUntil' \in [Agents -> Nat \cup {Never}]
      BY <2>14, HeartbeatAssumption DEF HandleAlert, Time
    <3>2. QED
      BY <2>14, <3>1 DEF HandleAlert
  <2>15. ASSUME Tick PROVE TypeOK'
    <3>1. now' \in Time /\ nap' \in [Machines -> 0..Period]
      BY <2>15, HeartbeatAssumption DEF Tick, Time
    <3>2. QED
      BY <2>15, <3>1 DEF Tick
  <2>16. ASSUME UNCHANGED vars PROVE TypeOK'
    BY <2>16 DEF vars
  <2>17. ASSUME NEW m \in Machines, Abort(m) PROVE TypeOK'
    BY <2>17, HeartbeatAssumption DEF Abort
  <2>18. QED
    BY <2>1, <2>2, <2>3, <2>4, <2>5, <2>6, <2>7, <2>8, <2>9, <2>10, <2>11, <2>12, <2>13, <2>14,
       <2>15, <2>16, <2>17 DEF Next, Poll, Checker
<1>3. QED
  BY <1>1, <1>2, PTL DEF Spec

-----------------------------------------------------------------------------
(* The strengthening that makes the no-false-alarm argument inductive.      *)

SeenPast == \A a \in Agents : lastSeen[a] <= now

(* No machine believes in a write newer than the one in the database.       *)
CacheBehind ==
    \A m \in Machines, a \in Agents :
       cache[m][a] # Never => lastSeen[a] # Never /\ cache[m][a] <= lastSeen[a]

(* A poll that read the flag, once the flag is clear, finds last_seen_at at *)
(* least as new as the time it is about to put in the cache.                *)
ClearedSince ==
    \A p \in Polls : poll[p] # NoPoll =>
       /\ poll[p].at <= now
       /\ poll[p].step = "clear" => poll[p].down
       /\ poll[p].down /\ ~notified[poll[p].agent] =>
             lastSeen[poll[p].agent] # Never /\ poll[p].at <= lastSeen[poll[p].agent]

(* An answered poll is written, or was throttled by a write of less than    *)
(* Interval before it.                                                      *)
ServedFresh ==
    \A a \in Agents : served[a] # Never =>
       /\ lastSeen[a] # Never /\ served[a] <= now
       /\ served[a] <= lastSeen[a] \/ served[a] - lastSeen[a] < Interval

IInv == TypeOK /\ SeenPast /\ CacheBehind /\ ClearedSince /\ ServedFresh

(* What a step may do to the five variables without disturbing IInv: the    *)
(* clock and last_seen_at only grow, the flag is cleared only together with *)
(* a write, and nothing else moves.                                         *)
LEMMA QuietStep ==
  ASSUME IInv, TypeOK',
         UNCHANGED <<now, lastSeen, cache, served>>,
         \A p \in Polls : poll'[p] \in {poll[p], NoPoll},
         \A a \in Agents : notified[a] => notified'[a]
  PROVE  IInv'
<1> USE DEF IInv
<1>1. SeenPast' /\ CacheBehind' /\ ServedFresh'
  BY DEF SeenPast, CacheBehind, ServedFresh
<1>2. ASSUME NEW p \in Polls, poll'[p] # NoPoll PROVE poll[p] # NoPoll /\ poll'[p] = poll[p]
  BY <1>2
<1>3. ASSUME NEW p \in Polls, poll[p] # NoPoll PROVE poll[p].agent \in Agents
  BY <1>3 DEF TypeOK, PollState
<1>4. ClearedSince'
  BY <1>2, <1>3 DEF ClearedSince
<1>5. QED
  BY <1>1, <1>4

(* What type correctness says of the numbers the argument compares.         *)
LEMMA Numbers ==
  ASSUME TypeOK
  PROVE  /\ now \in Int /\ now \in Instant /\ now # Never /\ Interval \in Int
         /\ \A a \in Agents : lastSeen[a] \in Int /\ served[a] \in Int
         /\ \A m \in Machines, a \in Agents : cache[m][a] \in Int
<1>1. now \in Time
  BY DEF TypeOK
<1>2. \A a \in Agents : lastSeen[a] \in Instant /\ served[a] \in Instant
  BY DEF TypeOK
<1>3. \A m \in Machines, a \in Agents : cache[m][a] \in Instant
  BY DEF TypeOK
<1>4. \A t \in Instant : t \in Int
  BY Instants
<1>5. Interval \in Int
  BY HeartbeatAssumption
<1>6. now \in Instant /\ now # Never
  BY <1>1, Instants
<1>7. QED
  BY <1>2, <1>3, <1>4, <1>5, <1>6

(* last_seen_at is only ever overwritten by the present.                    *)
LEMMA Grows ==
  ASSUME IInv, now' = now, \A a \in Agents : lastSeen'[a] \in {lastSeen[a], now}
  PROVE  /\ SeenPast'
         /\ \A a \in Agents : /\ lastSeen[a] \in Int /\ lastSeen'[a] \in Int
                              /\ lastSeen[a] <= lastSeen'[a]
                              /\ lastSeen[a] # Never => lastSeen'[a] # Never
<1>1. now \in Int /\ now # Never
  BY Instants DEF IInv, TypeOK
<1>2. \A a \in Agents : lastSeen[a] \in Int /\ lastSeen[a] <= now
  BY Instants DEF IInv, TypeOK, SeenPast
<1>3. QED
  BY <1>1, <1>2 DEF SeenPast

(* The strengthening is an invariant: what carries NoFalseAlarm.            *)
LEMMA Inductive == Spec => []IInv
<1>1. Init => IInv
  <2> SUFFICES ASSUME Init PROVE IInv
    OBVIOUS
  <2>1. TypeOK
    BY HeartbeatAssumption DEF Init, TypeOK, PollState, Time, Instant
  <2>2. SeenPast /\ CacheBehind /\ ClearedSince /\ ServedFresh
    BY DEF Init, SeenPast, CacheBehind, ClearedSince, ServedFresh, Never
  <2>3. QED
    BY <2>1, <2>2 DEF IInv
<1>2. TypeOK' /\ IInv /\ [Next]_vars => IInv'
  <2> SUFFICES ASSUME TypeOK', IInv, [Next]_vars PROVE IInv'
    OBVIOUS
  <2> USE DEF IInv
  <2>1. ASSUME NEW p \in Polls, NEW a \in Agents, NEW m \in Machines, ReadAgent(p, a, m)
        PROVE IInv'
    <3> DEFINE q == [step |-> "beat", agent |-> a, machine |-> m, at |-> now, down |-> notified[a]]
    <3>1. now \in Time /\ now \in Int /\ now # Never /\ Interval \in Int
      BY Instants, HeartbeatAssumption DEF TypeOK
    <3>2. UNCHANGED <<now, lastSeen, cache, notified>>
      BY <2>1 DEF ReadAgent, rowVars
    <3>3. SeenPast' /\ CacheBehind'
      BY <3>2 DEF SeenPast, CacheBehind
    <3>4. ClearedSince'
      <4>1. poll'[p] \in {q, [q EXCEPT !.step = "clear"], NoPoll}
        <5>1. \/ poll' = [poll EXCEPT ![p] = q]
              \/ poll' = [poll EXCEPT ![p] = [q EXCEPT !.step = "clear"]]
              \/ poll' = [poll EXCEPT ![p] = NoPoll]
          BY <2>1 DEF ReadAgent, Onward
        <5>2. poll \in [Polls -> PollState]
          BY DEF TypeOK
        <5>3. QED
          BY <5>1, <5>2
      <4>2. poll'[p] = [q EXCEPT !.step = "clear"] => notified[a]
        <5>1. \/ poll' = [poll EXCEPT ![p] = q]
              \/ notified[a]
              \/ poll' = [poll EXCEPT ![p] = NoPoll]
          BY <2>1 DEF ReadAgent, Onward
        <5>2. poll \in [Polls -> PollState]
          BY DEF TypeOK
        <5>3. q # [q EXCEPT !.step = "clear"] /\ NoPoll # [q EXCEPT !.step = "clear"]
          BY DEF NoPoll
        <5>4. QED
          BY <5>1, <5>2, <5>3
      <4>3. \A x \in Polls : x # p => poll'[x] = poll[x]
        BY <2>1 DEF ReadAgent, Onward, TypeOK
      <4>4. ASSUME NEW x \in Polls, x # p, poll'[x] # NoPoll
            PROVE  /\ poll'[x].at <= now'
                   /\ poll'[x].step = "clear" => poll'[x].down
                   /\ poll'[x].down /\ ~notified'[poll'[x].agent] =>
                         /\ lastSeen'[poll'[x].agent] # Never
                         /\ poll'[x].at <= lastSeen'[poll'[x].agent]
        BY <3>2, <4>3, <4>4 DEF ClearedSince
      <4>5. poll'[p] # NoPoll =>
                   /\ poll'[p].at <= now'
                   /\ poll'[p].step = "clear" => poll'[p].down
                   /\ ~(poll'[p].down /\ ~notified'[poll'[p].agent])
        BY <3>1, <3>2, <4>1, <4>2
      <4>6. QED
        BY <4>4, <4>5 DEF ClearedSince
    <3>5. ServedFresh'
      <4>1. CASE UNCHANGED served
        BY <3>2, <4>1 DEF ServedFresh
      <4>2. CASE ~Stale(m, a) /\ served' = [served EXCEPT ![a] = now]
        <5>1. /\ cache[m][a] # Never /\ now - cache[m][a] < Interval
              /\ lastSeen[a] # Never /\ cache[m][a] <= lastSeen[a]
          <6>1. cache[m][a] \in Int
            BY Numbers
          <6>2. QED
            BY <3>1, <4>2, <6>1 DEF Stale, CacheBehind
        <5>2. lastSeen[a] \in Int /\ cache[m][a] \in Int
          BY Numbers
        <5>3. now - lastSeen[a] < Interval
          BY <3>1, <5>1, <5>2
        <5>4. \A b \in Agents : served'[b] = IF b = a THEN now ELSE served[b]
          BY <4>2 DEF TypeOK
        <5>5. QED
          BY <3>1, <3>2, <5>1, <5>3, <5>4 DEF ServedFresh
      <4>3. QED
        BY <2>1, <4>1, <4>2 DEF ReadAgent
    <3>6. QED
      BY <3>3, <3>4, <3>5
  <2>2. ASSUME NEW p \in Polls, Beat(p) PROVE IInv'
    <3> DEFINE q == poll[p]
    <3>1. now \in Int /\ now # Never /\ now \in Instant
      BY Numbers
    <3>2. /\ q # NoPoll /\ q \in PollState /\ q.agent \in Agents /\ q.machine \in Machines
          /\ q.at \in Time /\ q.at \in Int /\ q.at # Never /\ q.at <= now
      <4>1. q # NoPoll /\ q \in PollState
        BY <2>2 DEF Beat, NoPoll, TypeOK
      <4>2. q.agent \in Agents /\ q.machine \in Machines /\ q.at \in Time
        BY <4>1 DEF PollState
      <4>3. QED
        BY <4>1, <4>2, Instants DEF ClearedSince
    <3>3. UNCHANGED <<now, notified>>
      BY <2>2 DEF Beat
    <3>4. \A a \in Agents : lastSeen'[a] \in {lastSeen[a], now}
      BY <2>2 DEF Beat, TypeOK
    <3>5. /\ SeenPast'
          /\ \A a \in Agents : /\ lastSeen[a] \in Int /\ lastSeen'[a] \in Int
                               /\ lastSeen[a] <= lastSeen'[a]
                               /\ lastSeen[a] # Never => lastSeen'[a] # Never
      BY <3>3, <3>4, Grows
    <3>6. CacheBehind'
      <4>1. ASSUME NEW m \in Machines, NEW a \in Agents, cache'[m][a] # Never
            PROVE  lastSeen'[a] # Never /\ cache'[m][a] <= lastSeen'[a]
        <5>1. cache[m][a] \in Int
          BY Numbers
        <5>2. CASE cache'[m][a] = cache[m][a]
          BY <3>5, <4>1, <5>1, <5>2 DEF CacheBehind
        <5>3. CASE cache'[m][a] # cache[m][a]
          <6>1. a = q.agent /\ cache'[m][a] = q.at /\ lastSeen'[a] = now
            <7>1. cache' = [cache EXCEPT ![q.machine][q.agent] = q.at]
                    /\ lastSeen' = [lastSeen EXCEPT ![q.agent] = now]
              BY <2>2, <5>3 DEF Beat
            <7>2. cache \in [Machines -> [Agents -> Instant]] /\ lastSeen \in [Agents -> Instant]
              BY DEF TypeOK
            <7>3. m = q.machine /\ a = q.agent
              BY <3>2, <5>3, <7>1, <7>2
            <7>4. QED
              BY <3>2, <7>1, <7>2, <7>3
          <6>2. QED
            BY <3>1, <3>2, <6>1
        <5>4. QED
          BY <5>2, <5>3
      <4>2. QED
        BY <4>1 DEF CacheBehind
    <3>7. ClearedSince'
      <4>1. poll'[p] \in {[q EXCEPT !.step = "clear"], NoPoll}
        BY <2>2 DEF Beat, Onward, TypeOK
      <4>2. poll'[p] = [q EXCEPT !.step = "clear"] => q.down
        BY <2>2, <3>2 DEF Beat, Onward, TypeOK, NoPoll
      <4>3. \A x \in Polls : x # p => poll'[x] = poll[x]
        BY <2>2 DEF Beat, Onward, TypeOK
      <4>4. ASSUME NEW x \in Polls, x # p, poll'[x] # NoPoll
            PROVE  /\ poll'[x].at <= now'
                   /\ poll'[x].step = "clear" => poll'[x].down
                   /\ poll'[x].down /\ ~notified'[poll'[x].agent] =>
                         /\ lastSeen'[poll'[x].agent] # Never
                         /\ poll'[x].at <= lastSeen'[poll'[x].agent]
        <5>1. poll[x].agent \in Agents /\ poll[x].at \in Int
          BY <4>3, <4>4, Instants DEF TypeOK, PollState
        <5>2. QED
          BY <3>3, <3>5, <4>3, <4>4, <5>1 DEF ClearedSince
      <4>5. poll'[p] # NoPoll =>
                   /\ poll'[p].at = q.at /\ poll'[p].agent = q.agent /\ poll'[p].down = q.down
                   /\ q.down
        <5>1. [q EXCEPT !.step = "clear"].at = q.at /\ [q EXCEPT !.step = "clear"].agent = q.agent
              /\ [q EXCEPT !.step = "clear"].down = q.down
          BY <3>2 DEF PollState, NoPoll
        <5>2. QED
          BY <4>1, <4>2, <5>1
      <4>6. q.down /\ ~notified[q.agent] => lastSeen[q.agent] # Never /\ q.at <= lastSeen[q.agent]
        BY <3>2 DEF ClearedSince
      <4>7. QED
        BY <3>2, <3>3, <3>5, <4>4, <4>5, <4>6 DEF ClearedSince
    <3>8. ServedFresh'
      <4>1. ASSUME NEW a \in Agents, served'[a] # Never
            PROVE  /\ lastSeen'[a] # Never /\ served'[a] <= now'
                   /\ served'[a] <= lastSeen'[a] \/ served'[a] - lastSeen'[a] < Interval
        <5>1. served[a] \in Int /\ Interval \in Int
          BY Numbers
        <5>2. CASE served'[a] = served[a]
          BY <3>3, <3>5, <4>1, <5>1, <5>2 DEF ServedFresh
        <5>3. CASE served'[a] # served[a]
          <6>1. a = q.agent /\ served'[a] = now /\ lastSeen'[a] = now
            BY <2>2, <3>2, <5>3 DEF Beat, TypeOK
          <6>2. QED
            BY <3>1, <3>3, <6>1
        <5>4. QED
          BY <5>2, <5>3
      <4>2. QED
        BY <4>1 DEF ServedFresh
    <3>9. QED
      BY <3>5, <3>6, <3>7, <3>8
  <2>3. ASSUME NEW p \in Polls, ClearDown(p) PROVE IInv'
    <3> DEFINE q == poll[p]
    <3>1. now \in Int /\ now # Never /\ now \in Instant
      BY Numbers
    <3>2. /\ q # NoPoll /\ q \in PollState /\ q.agent \in Agents /\ q.machine \in Machines
          /\ q.at \in Int /\ q.at # Never /\ q.at <= now /\ q.step = "clear" /\ q.down
      <4>1. q # NoPoll /\ q \in PollState /\ q.step = "clear"
        BY <2>3 DEF ClearDown, NoPoll, TypeOK
      <4>2. q.agent \in Agents /\ q.machine \in Machines /\ q.at \in Time
        BY <4>1 DEF PollState
      <4>3. QED
        BY <4>1, <4>2, Instants DEF ClearedSince
    <3>3. now' = now /\ \A a \in Agents : a # q.agent => notified'[a] = notified[a]
      BY <2>3 DEF ClearDown, TypeOK
    <3>4. /\ lastSeen' \in {lastSeen, [lastSeen EXCEPT ![q.agent] = now]}
          /\ served' \in {served, [served EXCEPT ![q.agent] = now]}
          /\ cache' \in {cache, [cache EXCEPT ![q.machine][q.agent] = q.at]}
          /\ poll' \in {[poll EXCEPT ![p].step = "greet"], [poll EXCEPT ![p] = NoPoll]}
      BY <2>3 DEF ClearDown
    <3>5. \A a \in Agents : lastSeen'[a] \in {lastSeen[a], now}
      BY <3>4 DEF TypeOK
    <3>6. /\ SeenPast'
          /\ \A a \in Agents : /\ lastSeen[a] \in Int /\ lastSeen'[a] \in Int
                               /\ lastSeen[a] <= lastSeen'[a]
                               /\ lastSeen[a] # Never => lastSeen'[a] # Never
      BY <3>3, <3>5, Grows
    <3>7. \/ lastSeen'[q.agent] = now
          \/ notified' = notified /\ lastSeen' = lastSeen
      BY <2>3, <3>2 DEF ClearDown, TypeOK
    <3>8. CacheBehind'
      <4>1. ASSUME NEW m \in Machines, NEW a \in Agents, cache'[m][a] # Never
            PROVE  lastSeen'[a] # Never /\ cache'[m][a] <= lastSeen'[a]
        <5>1. cache[m][a] \in Int
          BY Numbers
        <5>2. CASE cache'[m][a] = cache[m][a]
          BY <3>6, <4>1, <5>1, <5>2 DEF CacheBehind
        <5>3. CASE cache'[m][a] # cache[m][a]
          <6>1. a = q.agent /\ cache'[m][a] = q.at
            <7>1. cache' = [cache EXCEPT ![q.machine][q.agent] = q.at]
              BY <3>4, <5>3
            <7>2. cache \in [Machines -> [Agents -> Instant]]
              BY DEF TypeOK
            <7>3. m = q.machine /\ a = q.agent
              BY <3>2, <5>3, <7>1, <7>2
            <7>4. QED
              BY <3>2, <7>1, <7>2, <7>3
          <6>2. lastSeen'[q.agent] = now \/ (~notified[q.agent] /\ lastSeen' = lastSeen)
            <7>1. cache' # cache
              BY <5>3
            <7>2. \/ lastSeen' = [lastSeen EXCEPT ![q.agent] = now]
                  \/ ~notified[q.agent] /\ lastSeen' = lastSeen
              BY <2>3, <7>1 DEF ClearDown
            <7>3. lastSeen \in [Agents -> Instant]
              BY DEF TypeOK
            <7>4. QED
              BY <3>2, <7>2, <7>3
          <6>3. ~notified[q.agent] => lastSeen[q.agent] # Never /\ q.at <= lastSeen[q.agent]
            BY <3>2 DEF ClearedSince
          <6>4. QED
            BY <3>1, <3>2, <6>1, <6>2, <6>3
        <5>4. QED
          BY <5>2, <5>3
      <4>2. QED
        BY <4>1 DEF CacheBehind
    <3>9. ClearedSince'
      <4>1. \A x \in Polls : x # p => poll'[x] = poll[x]
        BY <3>4 DEF TypeOK
      <4>2. ASSUME NEW x \in Polls, x # p, poll'[x] # NoPoll
            PROVE  /\ poll'[x].at <= now'
                   /\ poll'[x].step = "clear" => poll'[x].down
                   /\ poll'[x].down /\ ~notified'[poll'[x].agent] =>
                         /\ lastSeen'[poll'[x].agent] # Never
                         /\ poll'[x].at <= lastSeen'[poll'[x].agent]
        <5>1. poll[x].agent \in Agents /\ poll[x].at \in Int /\ poll[x].at <= now
          BY <4>1, <4>2, Instants DEF TypeOK, PollState, ClearedSince
        <5>2. poll'[x] = poll[x] /\ poll[x] # NoPoll
          BY <4>1, <4>2
        <5>3. CASE poll[x].agent = q.agent /\ lastSeen'[q.agent] = now
          BY <3>1, <3>3, <5>1, <5>2, <5>3 DEF ClearedSince
        <5>4. CASE ~(poll[x].agent = q.agent /\ lastSeen'[q.agent] = now)
          <6>1. notified'[poll[x].agent] = notified[poll[x].agent]
            BY <3>3, <3>7, <5>1, <5>4
          <6>2. QED
            BY <3>3, <3>6, <5>1, <5>2, <6>1 DEF ClearedSince
        <5>5. QED
          BY <5>3, <5>4
      <4>3. ASSUME poll'[p] # NoPoll
            PROVE  /\ poll'[p].at <= now' /\ poll'[p].step # "clear"
                   /\ poll'[p].agent = q.agent /\ poll'[p].at = q.at
                   /\ lastSeen'[q.agent] = now
        <5>1. poll'[p] = [q EXCEPT !.step = "greet"]
          BY <3>4, <4>3 DEF TypeOK
        <5>2. lastSeen'[q.agent] = now
          <6>1. poll' # [poll EXCEPT ![p] = NoPoll]
            BY <4>3 DEF TypeOK
          <6>2. lastSeen' = [lastSeen EXCEPT ![q.agent] = now]
            BY <2>3, <6>1 DEF ClearDown
          <6>3. QED
            BY <3>2, <6>2 DEF TypeOK
        <5>3. QED
          BY <3>2, <3>3, <5>1, <5>2 DEF PollState, NoPoll
      <4>4. QED
        BY <3>1, <3>2, <3>3, <4>2, <4>3 DEF ClearedSince
    <3>10. ServedFresh'
      <4>1. ASSUME NEW a \in Agents, served'[a] # Never
            PROVE  /\ lastSeen'[a] # Never /\ served'[a] <= now'
                   /\ served'[a] <= lastSeen'[a] \/ served'[a] - lastSeen'[a] < Interval
        <5>1. served[a] \in Int /\ Interval \in Int
          BY Numbers
        <5>2. CASE served'[a] = served[a]
          BY <3>3, <3>6, <4>1, <5>1, <5>2 DEF ServedFresh
        <5>3. CASE served'[a] # served[a]
          <6>1. a = q.agent /\ served'[a] = now /\ served' # served
            BY <3>2, <3>4, <5>3 DEF TypeOK
          <6>2. lastSeen' = [lastSeen EXCEPT ![q.agent] = now]
            BY <2>3, <6>1 DEF ClearDown
          <6>3. lastSeen'[a] = now
            BY <3>2, <6>1, <6>2 DEF TypeOK
          <6>4. QED
            BY <3>1, <3>3, <6>1, <6>3
        <5>4. QED
          BY <5>2, <5>3
      <4>2. QED
        BY <4>1 DEF ServedFresh
    <3>11. QED
      BY <3>6, <3>8, <3>9, <3>10
  <2>4. ASSUME NEW p \in Polls, Greet(p) PROVE IInv'
    BY <2>4, QuietStep DEF Greet, rowVars, TypeOK
  <2>5. ASSUME NEW m \in Machines, TryLock(m) PROVE IInv'
    BY <2>5, QuietStep DEF TryLock, rowVars, TypeOK
  <2>6. ASSUME NEW m \in Machines, Scan(m) PROVE IInv'
    BY <2>6, QuietStep DEF Scan, rowVars, TypeOK
  <2>7. ASSUME NEW m \in Machines, NEW a \in Agents, SendAlert(m, a) PROVE IInv'
    BY <2>7, QuietStep DEF SendAlert, rowVars, TypeOK
  <2>8. ASSUME NEW m \in Machines, SetNotified(m) PROVE IInv'
    <3>1. \A a \in Agents : notified[a] => notified'[a]
      BY <2>8 DEF SetNotified, TypeOK
    <3>2. QED
      BY <2>8, <3>1, QuietStep DEF SetNotified
  <2>9. ASSUME NEW m \in Machines, RecordSeen(m) PROVE IInv'
    BY <2>9, QuietStep DEF RecordSeen
  <2>10. ASSUME NEW m \in Machines, Unmute(m) PROVE IInv'
    BY <2>10, QuietStep DEF Unmute
  <2>11. ASSUME NEW m \in Machines, Unlock(m) PROVE IInv'
    BY <2>11, QuietStep DEF Unlock, rowVars
  <2>12. ASSUME NEW m \in Machines, Crash(m) PROVE IInv'
    <3>1. UNCHANGED <<now, lastSeen, served, notified>>
      BY <2>12 DEF Crash, rowVars
    <3>2. \A x \in Polls : poll'[x] \in {poll[x], NoPoll}
      BY <2>12 DEF Crash
    <3>3. \A k \in Machines, a \in Agents : cache'[k][a] \in {cache[k][a], Never}
      BY <2>12 DEF Crash, TypeOK
    <3>4. SeenPast' /\ ServedFresh'
      BY <3>1 DEF SeenPast, ServedFresh
    <3>5. CacheBehind'
      BY <3>1, <3>3 DEF CacheBehind
    <3>6. ClearedSince'
      BY <3>1, <3>2 DEF ClearedSince
    <3>7. QED
      BY <3>4, <3>5, <3>6
  <2>13. ASSUME NEW a \in Agents, SwitchHeartbeat(a) PROVE IInv'
    BY <2>13, QuietStep DEF SwitchHeartbeat
  <2>14. ASSUME NEW a \in Agents, HandleAlert(a) PROVE IInv'
    BY <2>14, QuietStep DEF HandleAlert
  <2>15. ASSUME Tick PROVE IInv'
    <3>1. now' = now + 1 /\ UNCHANGED <<lastSeen, cache, poll, served, notified>>
      BY <2>15 DEF Tick, rowVars
    <3>2. now \in Int /\ \A a \in Agents : lastSeen[a] \in Int /\ served[a] \in Int
      BY Numbers
    <3>3. \A x \in Polls : poll[x] # NoPoll => poll[x].at \in Int
      BY Instants DEF TypeOK, PollState
    <3>4. SeenPast' /\ CacheBehind'
      BY <3>1, <3>2 DEF SeenPast, CacheBehind
    <3>5. ClearedSince'
      BY <3>1, <3>2, <3>3 DEF ClearedSince
    <3>6. ServedFresh'
      BY <3>1, <3>2 DEF ServedFresh
    <3>7. QED
      BY <3>4, <3>5, <3>6
  <2>16. ASSUME UNCHANGED vars PROVE IInv'
    BY <2>16, QuietStep DEF vars, rowVars
  <2>17. ASSUME NEW m \in Machines, Abort(m) PROVE IInv'
    BY <2>17, QuietStep DEF Abort, rowVars
  <2>18. QED
    BY <2>1, <2>2, <2>3, <2>4, <2>5, <2>6, <2>7, <2>8, <2>9, <2>10, <2>11, <2>12, <2>13, <2>14,
       <2>15, <2>16, <2>17 DEF Next, Poll, Checker
<1>3. QED
  BY <1>1, <1>2, TypeCorrect, PTL DEF Spec

(* Only Scan adds to todo, and only agents that are overdue.                *)
LEMMA Selected ==
  ASSUME TypeOK, Next, NEW k \in Machines, NEW a \in todo'[k] \ todo[k]
  PROVE  /\ a \in Agents /\ lastSeen[a] # Never /\ now - lastSeen[a] > Timeout
         /\ UNCHANGED <<now, served>>
<1>1. \E m \in Machines : Scan(m)
  <2>1. todo \in [Machines -> SUBSET Agents]
    BY DEF TypeOK
  <2>2. ASSUME NEW m \in Machines, NEW b \in Agents, SendAlert(m, b) PROVE FALSE
    BY <2>1, <2>2 DEF SendAlert
  <2>3. ASSUME NEW m \in Machines, SetNotified(m) PROVE FALSE
    BY <2>1, <2>3 DEF SetNotified
  <2>4. ASSUME NEW m \in Machines, Crash(m) PROVE FALSE
    BY <2>1, <2>4 DEF Crash
  <2>5. ASSUME NEW m \in Machines, Abort(m) PROVE FALSE
    BY <2>1, <2>5 DEF Abort
  <2>6. todo' # todo
    OBVIOUS
  <2>7. QED
    BY <2>2, <2>3, <2>4, <2>5, <2>6
    DEF Next, Poll, Checker, ReadAgent, Beat, ClearDown, Greet, TryLock, RecordSeen, Unmute,
        Unlock, SwitchHeartbeat, HandleAlert, Tick, checkerVars
<1>2. a \in Agents /\ Candidate(a)
  BY <1>1 DEF Scan, TypeOK
<1>3. QED
  BY <1>1, <1>2 DEF Candidate, Scan

(* No false alarm, for every number of machines and polls, every timeout    *)
(* and interval, and whatever faults happen: when the checker selects an    *)
(* agent, none of its monitored polls was answered during the last          *)
(* Timeout - Interval.                                                      *)
THEOREM NoFalseAlarm == Spec => AlertJustified
<1>1. IInv /\ [Next]_vars =>
        [\A m \in Machines : \A a \in todo'[m] \ todo[m] :
            served[a] # Never => now - served[a] > Timeout - Interval]_vars
  <2> SUFFICES ASSUME IInv, Next, NEW k \in Machines, NEW a \in todo'[k] \ todo[k],
                      served[a] # Never
               PROVE  now - served[a] > Timeout - Interval
    BY DEF vars
  <2>1. a \in Agents /\ lastSeen[a] # Never /\ now - lastSeen[a] > Timeout
    BY Selected DEF IInv
  <2>2. /\ now \in Int /\ lastSeen[a] \in Int /\ served[a] \in Int
        /\ Timeout \in Nat /\ Interval \in Nat
    BY <2>1, Numbers, HeartbeatAssumption DEF IInv
  <2>3. served[a] <= lastSeen[a] \/ served[a] - lastSeen[a] < Interval
    BY <2>1 DEF IInv, ServedFresh
  <2>4. QED
    BY <2>1, <2>2, <2>3
<1>2. QED
  BY <1>1, Inductive, PTL DEF Spec, AlertJustified

(* The clock never runs more than MaxGap ahead of an agent's last answered  *)
(* poll: what it means that the agent keeps polling.                        *)
Punctual == \A a \in Agents : now - (IF served[a] = Never THEN 0 ELSE served[a]) <= MaxGap

(* An agent whose polls are at most Timeout - Interval apart is never       *)
(* selected for an alert.  The run with the documented ten minutes shows    *)
(* that the condition is needed.                                            *)
THEOREM PunctualNeverAlerted ==
  ASSUME MaxGap <= Timeout - Interval
  PROVE  Spec => []PollingKeepsAlive
<1> DEFINE P == Punctual /\ PollingKeepsAlive
<1>1. Init => P
  <2> SUFFICES ASSUME Init PROVE P
    OBVIOUS
  <2>1. Punctual
    BY HeartbeatAssumption DEF Init, Punctual, Never
  <2>2. PollingKeepsAlive
    BY DEF Init, PollingKeepsAlive
  <2>3. QED
    BY <2>1, <2>2
<1>2. IInv /\ IInv' /\ P /\ [Next]_vars => P'
  <2> SUFFICES ASSUME IInv, IInv', P, [Next]_vars PROVE P'
    OBVIOUS
  <2> USE DEF IInv
  <2>1. Punctual'
    <3> SUFFICES ASSUME NEW a \in Agents
                 PROVE  now' - (IF served'[a] = Never THEN 0 ELSE served'[a]) <= MaxGap
      BY DEF Punctual
    <3>1. /\ now \in Int /\ now' \in Int /\ served[a] \in Int /\ served'[a] \in Int
          /\ MaxGap \in Nat
      <4>1. now \in Int /\ served[a] \in Int
        BY Numbers
      <4>2. now' \in Time /\ served'[a] \in Instant
        BY DEF TypeOK
      <4>3. QED
        BY <4>1, <4>2, Instants, HeartbeatAssumption
    <3>2. CASE Tick
      BY <3>1, <3>2 DEF Tick
    <3>3. CASE ~Tick
      <4>1. now' = now /\ (served'[a] = served[a] \/ served'[a] = now)
        BY <3>3 DEF Next, Poll, Checker, ReadAgent, Beat, ClearDown, Greet, TryLock, Scan,
           SendAlert, SetNotified, RecordSeen, Unmute, Unlock, Abort, Crash,
           SwitchHeartbeat,
           HandleAlert, vars, TypeOK
      <4>2. now # Never
        BY Numbers
      <4>3. QED
        BY <3>1, <4>1, <4>2 DEF Punctual
    <3>4. QED
      BY <3>2, <3>3
  <2>2. PollingKeepsAlive'
    <3> SUFFICES ASSUME NEW m \in Machines, NEW a \in todo'[m] PROVE FALSE
      BY DEF PollingKeepsAlive, TypeOK
    <3>1. todo[m] = {} /\ todo' # todo
      BY DEF PollingKeepsAlive
    <3>2. Next
      BY <3>1 DEF vars, checkerVars
    <3>3. a \in Agents /\ lastSeen[a] # Never /\ now - lastSeen[a] > Timeout
      BY <3>1, <3>2, Selected
    <3>4. /\ now \in Int /\ lastSeen[a] \in Int /\ lastSeen[a] >= 0 /\ served[a] \in Int
          /\ Timeout \in Nat /\ Interval \in Nat /\ MaxGap \in Nat
      <4>1. lastSeen[a] \in Instant
        BY <3>3 DEF TypeOK
      <4>2. QED
        BY <3>3, <4>1, Numbers, Instants, HeartbeatAssumption
    <3>5. now - (IF served[a] = Never THEN 0 ELSE served[a]) <= MaxGap
      BY <3>3 DEF Punctual
    <3>6. CASE served[a] = Never
      BY <3>3, <3>4, <3>5, <3>6
    <3>7. CASE served[a] # Never
      <4>1. served[a] <= lastSeen[a] \/ served[a] - lastSeen[a] < Interval
        BY <3>3, <3>7 DEF ServedFresh
      <4>2. QED
        BY <3>3, <3>4, <3>5, <3>7, <4>1
    <3>8. QED
      BY <3>6, <3>7
  <2>3. QED
    BY <2>1, <2>2
<1>3. QED
  BY <1>1, <1>2, Inductive, PTL DEF Spec

-----------------------------------------------------------------------------
(* What the advisory lock is worth: one machine at a time is in a cycle,    *)
(* and nobody else flags an agent that this machine has selected.           *)
Cycle ==
    /\ \A m \in Machines : checker[m] # "asleep" => lock = m
    /\ \A m \in Machines : todo[m] # {} => checker[m] \in {"alert", "flag"}
    /\ \A m \in Machines : \A a \in todo[m] : ~notified[a]
    /\ \A m \in Machines : checker[m] = "flag" => current[m] \in todo[m]

(* Only the machine that holds the lock selects, mails and flags, so what   *)
(* it has selected is still unflagged when it is mailed.                    *)
LEMMA CycleAlways == Spec => []Cycle
<1>1. Init => Cycle
  BY DEF Init, Cycle
<1>2. TypeOK /\ Cycle /\ [Next]_vars => Cycle'
  <2>1. SUFFICES ASSUME TypeOK, Cycle, [Next]_vars
                 PROVE  Cycle'
    OBVIOUS
  <2>2. /\ checker \in [Machines -> {"asleep", "scan", "alert", "flag", "unmute", "unlock"}]
        /\ todo \in [Machines -> SUBSET Agents] /\ current \in [Machines -> Agents \cup {NoOne}]
        /\ notified \in [Agents -> BOOLEAN] /\ poll \in [Polls -> PollState]
        /\ NoOne \notin Machines
    BY <2>1, HeartbeatAssumption DEF TypeOK
  <2>3. ASSUME UNCHANGED <<checker, todo, current, lock>>,
               \A a \in Agents : notified'[a] => notified[a]
        PROVE  Cycle'
    BY <2>1, <2>2, <2>3 DEF Cycle
  <2>5. ASSUME NEW m \in Machines, TryLock(m)
        PROVE  Cycle'
    BY <2>1, <2>2, <2>5 DEF TryLock, rowVars, Cycle
  <2>6. ASSUME NEW m \in Machines, Scan(m)
        PROVE  Cycle'
    BY <2>1, <2>2, <2>6 DEF Scan, Candidate, rowVars, Cycle
  <2>7. ASSUME NEW m \in Machines, NEW a \in Agents, SendAlert(m, a)
        PROVE  Cycle'
    BY <2>1, <2>2, <2>7 DEF SendAlert, rowVars, Cycle
  <2>8. ASSUME NEW m \in Machines, SetNotified(m)
        PROVE  Cycle'
    BY <2>1, <2>2, <2>8 DEF SetNotified, Cycle
  <2>9. ASSUME NEW m \in Machines, RecordSeen(m) \/ Unmute(m)
        PROVE  Cycle'
    BY <2>1, <2>2, <2>9 DEF RecordSeen, Unmute, Cycle
  <2>10. ASSUME NEW m \in Machines, Unlock(m) \/ Abort(m) \/ Crash(m)
        PROVE  Cycle'
    BY <2>1, <2>2, <2>10 DEF Unlock, Abort, Crash, rowVars, Cycle
  <2>11. ASSUME NEW p \in Polls, ClearDown(p)
        PROVE  Cycle'
    <3>1. poll[p].agent \in Agents
      BY <2>2, <2>11 DEF ClearDown, PollState, NoPoll
    <3>2. QED
      BY <2>2, <2>3, <2>11, <3>1 DEF ClearDown, checkerVars
  <2>12. QED
    <3>1. ASSUME NEW p, NEW a, NEW m, ReadAgent(p, a, m) \/ Beat(p) \/ Greet(p)
          PROVE  Cycle'
      BY <2>3, <3>1 DEF ReadAgent, Beat, Greet, rowVars, checkerVars
    <3>2. ASSUME NEW a, SwitchHeartbeat(a) \/ HandleAlert(a)
          PROVE  Cycle'
      BY <2>3, <3>2 DEF SwitchHeartbeat, HandleAlert, rowVars, checkerVars
    <3>3. CASE Tick \/ UNCHANGED vars
      BY <2>3, <3>3 DEF Tick, vars, rowVars, checkerVars
    <3>4. QED
      BY <2>1, <2>5, <2>6, <2>7, <2>8, <2>9, <2>10, <2>11, <3>1, <3>2, <3>3 DEF Next, Poll, Checker
<1>3. QED
  BY <1>1, <1>2, TypeCorrect, PTL DEF Spec

(* The polls about to send the recovery mail of agent a.                    *)
Greeters(a) == {p \in Polls : poll[p].step = "greet" /\ poll[p].agent = a}

(* The balance of the mails of agent a.                                     *)
Even(a) == alerts[a] = greets[a] + Cardinality(Greeters(a)) + (IF Reporting(a) THEN 1 ELSE 0)

(* A step that sends no mail about a, and leaves what is due to be sent.    *)
LEMMA EvenKept ==
    ASSUME NEW a, Even(a), alerts'[a] = alerts[a], greets'[a] = greets[a],
           Greeters(a)' = Greeters(a), Reporting(a)' <=> Reporting(a)
    PROVE  Even(a)'
  BY DEF Even

(* Who is about to greet, when only poll p moves.                           *)
LEMMA PollMoves ==
    ASSUME NEW p \in Polls, NEW a, \A o \in Polls \ {p} : poll'[o] = poll[o]
    PROVE  /\ poll'[p].step = "greet" /\ poll'[p].agent = a => Greeters(a)' = Greeters(a) \cup {p}
           /\ ~(poll'[p].step = "greet" /\ poll'[p].agent = a) => Greeters(a)' = Greeters(a) \ {p}
  BY DEF Greeters

(* The contact hears of an outage once and of its end once, however many    *)
(* machines run the loop and however many polls find the agent down         *)
(* (_run_heartbeat_check, get_inbox).                                       *)
THEOREM MailsAlternate == Spec => []OneMailPerOutage
<1> DEFINE Balanced == faults = 0 => \A a \in Agents \ Undeliverable : Even(a)
<1>1. Init => Balanced
  <2>1. SUFFICES ASSUME Init, NEW a \in Agents
                 PROVE  Even(a)
    OBVIOUS
  <2>2. Greeters(a) = {} /\ ~Reporting(a) /\ alerts[a] = 0 /\ greets[a] = 0
    BY <2>1 DEF Init, Greeters, Reporting, NoPoll
  <2>3. QED
    BY <2>2, FS_EmptySet DEF Even
<1>2. TypeOK /\ TypeOK' /\ Cycle /\ Balanced /\ [Next]_vars => Balanced'
  <2>1. SUFFICES ASSUME TypeOK, TypeOK', Cycle, Balanced, [Next]_vars, faults' = 0,
                        NEW a \in Agents \ Undeliverable
                 PROVE  Even(a)'
    OBVIOUS
  <2>2. /\ checker \in [Machines -> {"asleep", "scan", "alert", "flag", "unmute", "unlock"}]
        /\ todo \in [Machines -> SUBSET Agents] /\ current \in [Machines -> Agents \cup {NoOne}]
        /\ notified \in [Agents -> BOOLEAN] /\ poll \in [Polls -> PollState]
        /\ alerts \in [Agents -> Nat] /\ greets \in [Agents -> Nat] /\ faults \in Nat
    BY <2>1, HeartbeatAssumption DEF TypeOK
  <2>3. IsFiniteSet(Greeters(a)) /\ Cardinality(Greeters(a)) \in Nat
    BY HeartbeatAssumption, FS_Subset, FS_CardinalityType DEF Greeters
  <2>4. \A kind : ~Fault(kind)
    BY <2>1, <2>2 DEF Fault
  <2>5. CASE UNCHANGED faults
    <3>1. Even(a)
      BY <2>1, <2>5
    <3>2. ASSUME UNCHANGED <<alerts, greets, poll, notified>>,
                 \A m \in Machines : checker[m] = "flag" \/ checker'[m] = "flag" =>
                     checker'[m] = checker[m] /\ current'[m] = current[m]
          PROVE  Even(a)'
      BY <3>1, <3>2, EvenKept DEF Greeters, Reporting
    <3>3. ASSUME NEW p \in Polls, NEW q, poll' = [poll EXCEPT ![p] = q], p \notin Greeters(a),
                 q.step # "greet", UNCHANGED <<alerts, greets, notified, checker, current>>
          PROVE  Even(a)'
      <4>1. Greeters(a)' = Greeters(a) \ {p}
        BY <2>2, <3>3, PollMoves
      <4>2. Greeters(a)' = Greeters(a)
        BY <3>3, <4>1
      <4>3. QED
        BY <3>1, <3>3, <4>2, EvenKept DEF Reporting
    <3>4. ASSUME NEW p \in Polls, NEW b \in Agents, NEW m \in Machines, ReadAgent(p, b, m)
          PROVE  Even(a)'
      <4> DEFINE q == [step |-> "beat", agent |-> b, machine |-> m, at |-> now, down |-> notified[b]]
      <4>1. PICK r \in {q, [q EXCEPT !.step = "clear"], NoPoll} : poll' = [poll EXCEPT ![p] = r]
        BY <3>4 DEF ReadAgent, Onward
      <4>2. r.step # "greet" /\ p \notin Greeters(a)
        BY <3>4 DEF ReadAgent, NoPoll, Greeters
      <4>3. QED
        BY <3>3, <3>4, <4>1, <4>2 DEF ReadAgent, rowVars, checkerVars, mailVars
    <3>5. ASSUME NEW p \in Polls, Beat(p)
          PROVE  Even(a)'
      <4>1. PICK r \in {[poll[p] EXCEPT !.step = "clear"], NoPoll} : poll' = [poll EXCEPT ![p] = r]
        BY <3>5 DEF Beat, Onward
      <4>2. r.step # "greet" /\ p \notin Greeters(a)
        BY <2>2, <3>5 DEF Beat, NoPoll, Greeters, PollState
      <4>3. QED
        BY <3>3, <3>5, <4>1, <4>2 DEF Beat, checkerVars, mailVars
    <3>6. ASSUME NEW p \in Polls, ClearDown(p)
          PROVE  Even(a)'
      <4>1. /\ poll[p].agent \in Agents /\ poll[p].step = "clear" /\ p \notin Greeters(a)
            /\ UNCHANGED <<alerts, greets, checker, current>>
        BY <2>2, <3>6 DEF ClearDown, NoPoll, PollState, Greeters, checkerVars, mailVars
      <4>2. CASE UNCHANGED notified
        <5>1. poll' = [poll EXCEPT ![p] = NoPoll]
          <6>1. notified[poll[p].agent] => notified' # [notified EXCEPT ![poll[p].agent] = FALSE]
            BY <2>2, <4>1, <4>2
          <6>2. QED
            BY <2>4, <3>6, <6>1 DEF ClearDown
        <5>2. NoPoll.step # "greet"
          BY DEF NoPoll
        <5>3. QED
          BY <3>3, <4>1, <4>2, <5>1, <5>2
      <4>3. CASE ~UNCHANGED notified
        <5>1. /\ notified[poll[p].agent] /\ notified' = [notified EXCEPT ![poll[p].agent] = FALSE]
              /\ poll' = [poll EXCEPT ![p] = [poll[p] EXCEPT !.step = "greet"]]
          BY <2>4, <3>6, <4>3 DEF ClearDown
        <5>2. CASE poll[p].agent = a
          <6>1. Greeters(a)' = Greeters(a) \cup {p}
            <7>1. /\ poll'[p].step = "greet" /\ poll'[p].agent = a
                  /\ \A o \in Polls \ {p} : poll'[o] = poll[o]
              BY <2>2, <4>1, <5>1, <5>2 DEF PollState, NoPoll
            <7>2. QED
              BY <7>1, PollMoves
          <6>2. Cardinality(Greeters(a)') = Cardinality(Greeters(a)) + 1
            BY <2>3, <4>1, <6>1, FS_AddElement
          <6>3. Reporting(a) /\ ~Reporting(a)'
            BY <2>1, <2>2, <4>1, <5>1, <5>2 DEF Reporting, Cycle
          <6>4. QED
            BY <2>2, <2>3, <3>1, <4>1, <6>2, <6>3 DEF Even
        <5>3. CASE poll[p].agent # a
          <6>1. Greeters(a)' = Greeters(a)
            <7>1. /\ poll'[p].agent # a
                  /\ \A o \in Polls \ {p} : poll'[o] = poll[o]
              BY <2>2, <4>1, <5>1, <5>3 DEF PollState, NoPoll
            <7>2. QED
              BY <4>1, <7>1, PollMoves
          <6>2. QED
            BY <2>2, <3>1, <4>1, <5>1, <5>3, <6>1, EvenKept DEF Reporting
        <5>4. QED
          BY <5>2, <5>3
      <4>4. QED
        BY <4>2, <4>3
    <3>7. ASSUME NEW p \in Polls, Greet(p)
          PROVE  Even(a)'
      <4>1. /\ poll[p].agent \in Agents /\ poll[p].step = "greet" /\ poll' = [poll EXCEPT ![p] = NoPoll]
            /\ UNCHANGED <<alerts, notified, checker, current>>
            /\ Greeters(a)' = Greeters(a) \ {p}
        <5>1. /\ poll[p].agent \in Agents /\ poll[p].step = "greet" /\ poll' = [poll EXCEPT ![p] = NoPoll]
              /\ UNCHANGED <<alerts, notified, checker, current>>
          BY <2>2, <3>7 DEF Greet, NoPoll, PollState, rowVars, checkerVars
        <5>2. poll'[p].step # "greet" /\ \A o \in Polls \ {p} : poll'[o] = poll[o]
          BY <2>2, <5>1 DEF NoPoll
        <5>3. QED
          BY <5>1, <5>2, PollMoves
      <4>2. Reporting(a)' <=> Reporting(a)
        BY <4>1 DEF Reporting
      <4>3. CASE poll[p].agent = a
        <5>1. greets' = [greets EXCEPT ![a] = @ + 1] /\ p \in Greeters(a)
          BY <2>1, <2>4, <3>7, <4>1, <4>3 DEF Greet, Greeters
        <5>2. Cardinality(Greeters(a)') = Cardinality(Greeters(a)) - 1
          BY <2>3, <4>1, <5>1, FS_RemoveElement
        <5>3. QED
          BY <2>2, <2>3, <3>1, <4>1, <4>2, <5>1, <5>2 DEF Even
      <4>4. CASE poll[p].agent # a
        <5>1. greets'[a] = greets[a] /\ p \notin Greeters(a)
          BY <2>2, <3>7, <4>4 DEF Greet, Greeters
        <5>2. QED
          BY <3>1, <4>1, <4>2, <5>1, EvenKept
      <4>5. QED
        BY <4>3, <4>4
    <3>8. ASSUME NEW m \in Machines, NEW b \in Agents, SendAlert(m, b)
          PROVE  Even(a)'
      <4>1. /\ checker[m] = "alert" /\ b \in todo[m]
            /\ UNCHANGED <<greets, poll, notified>> /\ Greeters(a)' = Greeters(a)
            /\ \A n \in Machines \ {m} : checker'[n] = checker[n] /\ current'[n] = current[n]
        BY <2>2, <3>8 DEF SendAlert, rowVars, Greeters
      <4>2. CASE b \in Undeliverable
        BY <2>2, <2>4, <3>2, <3>8, <4>1, <4>2 DEF SendAlert
      <4>3. CASE b \notin Undeliverable
        <5>1. /\ alerts' = [alerts EXCEPT ![b] = @ + 1]
              /\ checker'[m] = "flag" /\ current'[m] = b
          BY <2>2, <2>4, <3>8, <4>3 DEF SendAlert
        <5>2. CASE b = a
          <6>1. Reporting(a)'
            BY <5>1, <5>2 DEF Reporting
          <6>2. ~notified[a] /\ lock = m
            BY <2>1, <4>1, <5>2 DEF Cycle
          <6>3. \A n \in Machines : checker[n] # "flag"
            BY <2>1, <4>1, <6>2 DEF Cycle
          <6>4. ~Reporting(a)
            BY <6>2, <6>3 DEF Reporting
          <6>5. QED
            BY <2>2, <2>3, <3>1, <4>1, <5>1, <5>2, <6>1, <6>4 DEF Even
        <5>3. CASE b # a
          <6>1. Reporting(a)' <=> Reporting(a)
            BY <4>1, <5>1, <5>3 DEF Reporting
          <6>2. QED
            BY <2>2, <3>1, <4>1, <5>1, <5>3, <6>1, EvenKept
        <5>4. QED
          BY <5>2, <5>3
      <4>4. QED
        BY <4>2, <4>3
    <3>9. ASSUME NEW m \in Machines, SetNotified(m)
          PROVE  Even(a)'
      <4>1. /\ current[m] \in Agents /\ checker[m] = "flag" /\ checker'[m] = "alert"
            /\ \A n \in Machines \ {m} : checker'[n] = checker[n] /\ current'[n] = current[n]
            /\ UNCHANGED <<alerts, greets>> /\ Greeters(a)' = Greeters(a)
        BY <2>1, <2>2, <3>9 DEF SetNotified, mailVars, Greeters, Cycle
      <4>2. CASE current[m] = a
        <5>1. Reporting(a) /\ Reporting(a)'
          BY <2>2, <3>9, <4>1, <4>2 DEF SetNotified, Reporting
        <5>2. QED
          BY <3>1, <4>1, <5>1, EvenKept
      <4>3. CASE current[m] # a
        <5>1. Reporting(a)' <=> Reporting(a)
          BY <2>2, <3>9, <4>1, <4>3 DEF SetNotified, Reporting
        <5>2. QED
          BY <3>1, <4>1, <5>1, EvenKept
      <4>4. QED
        BY <4>2, <4>3
    <3>10. ASSUME NEW m \in Machines,
                  TryLock(m) \/ Scan(m) \/ RecordSeen(m) \/ Unmute(m) \/ Unlock(m)
           PROVE  Even(a)'
      BY <2>2, <3>2, <3>10 DEF TryLock, Scan, RecordSeen, Unmute, Unlock, rowVars, mailVars
    <3>11. ASSUME NEW m, Abort(m) \/ Crash(m)
           PROVE  FALSE
      BY <2>4, <3>11 DEF Abort, Crash
    <3>12. ASSUME NEW b, SwitchHeartbeat(b) \/ HandleAlert(b)
           PROVE  Even(a)'
      BY <3>2, <3>12 DEF SwitchHeartbeat, HandleAlert, checkerVars, mailVars
    <3>13. CASE Tick \/ UNCHANGED vars
      BY <3>2, <3>13 DEF Tick, vars, rowVars, checkerVars, mailVars
    <3>14. QED
      BY <2>1, <3>4, <3>5, <3>6, <3>7, <3>8, <3>9, <3>10, <3>11, <3>12, <3>13 DEF Next, Poll, Checker
  <2>6. faults' = faults \/ \E kind : Fault(kind)
    BY <2>1 DEF Next, Poll, Checker, ReadAgent, Beat, ClearDown, Greet, TryLock, Scan, SendAlert,
       SetNotified, RecordSeen, Unmute, Unlock, Abort, Crash, SwitchHeartbeat, HandleAlert, Tick,
       NoFault, vars
  <2>7. QED
    BY <2>4, <2>5, <2>6
<1>3. Balanced => OneMailPerOutage
  BY DEF OneMailPerOutage, Even, Greeters
<1>4. QED
  BY <1>1, <1>2, <1>3, TypeCorrect, CycleAlways, PTL DEF Spec
=============================================================================
