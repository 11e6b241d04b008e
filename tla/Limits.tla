------------------------------- MODULE Limits -------------------------------
(***************************************************************************)
(* What a machine counts in its memory: the requests of a sliding window   *)
(* (RateLimiter for polls and sends, _check_knock_rate for knocks: the     *)
(* same test, with their own limits) and the mails of the day              *)
(* (_check_daily_limit).  One key of one limiter is enough, keys do not    *)
(* touch one another.  A restart forgets everything, and the machines do   *)
(* not know of each other's counts.                                        *)
(***************************************************************************)
EXTENDS Startup

CONSTANTS
    Limit, Window,          \* SEND_LIMIT and SEND_WINDOW, or those of polls or knocks
    DailyLimit, DayLength,  \* DAILY_EMAIL_LIMIT, and the 86400 seconds of a day
    MaxTime, MaxCalls       \* bounds of the clock and of the calls counted

ASSUME LimitsAssumption ==
    /\ Limit \in Nat /\ DailyLimit \in Nat
    /\ Window \in Nat \ {0} /\ DayLength \in Nat \ {0}
    /\ MaxTime \in Nat /\ MaxCalls \in Nat

VARIABLES
    now,      \* time.time()
    calls,    \* calls so far, which tell entries of one instant apart
    life,     \* how often each machine was stopped
    log,      \* _windows[key] of each machine
    counter,  \* _daily_counter of each machine
    passed,   \* the requests that were allowed, on which machine, in which life
    mails     \* the mails that were not dropped

memoryVars == <<log, counter>>
limitVars == <<now, calls, life, memoryVars, passed, mails>>

Entries == [id : Nat, at : Nat, on : Machines, life : Nat]

LimitsTypeOK ==
    /\ now \in Nat /\ calls \in Nat
    /\ life \in [Machines -> Nat]
    /\ log \in [Machines -> SUBSET Entries]
    /\ counter \in [Machines -> [count : 0..DailyLimit, day : Nat]]
    /\ passed \subseteq Entries /\ mails \subseteq Entries
    /\ IsFiniteSet(passed) /\ IsFiniteSet(mails)

LimitsInit ==
    /\ now = 0 /\ calls = 0
    /\ life = [m \in Machines |-> 0]
    /\ log = [m \in Machines |-> {}]
    /\ counter = [m \in Machines |-> [count |-> 0, day |-> 0]]
    /\ passed = {} /\ mails = {}

Today == now \div DayLength
Entry(m) == [id |-> calls, at |-> now, on |-> m, life |-> life[m]]
NextCall == calls < MaxCalls /\ calls' = calls + 1

(* Mutant: the window is one instant too short.                             *)
KeptShort(m) == {e \in log[m] : e.at > now - Window + 1}

(* _cleanup, and the pruning of _check_knock_rate.                          *)
Kept(m) == {e \in log[m] : e.at > now - Window}

(* Mutant: a call that is refused is entered in the log.                    *)
CheckCountingAll(m) ==
    /\ NextCall
    /\ log' = [log EXCEPT ![m] = Kept(m) \cup {Entry(m)}]
    /\ passed' = IF Cardinality(Kept(m)) < Limit THEN passed \cup {Entry(m)} ELSE passed
    /\ UNCHANGED <<now, life, counter, mails>>

(* check: the entries that are left are counted, and the call added.        *)
Check(m) ==
    /\ NextCall
    /\ IF Cardinality(Kept(m)) < Limit
       THEN /\ log' = [log EXCEPT ![m] = Kept(m) \cup {Entry(m)}]
            /\ passed' = passed \cup {Entry(m)}
       ELSE /\ log' = [log EXCEPT ![m] = Kept(m)]
            /\ UNCHANGED passed
    /\ UNCHANGED <<now, life, counter, mails>>

(* The count of _check_daily_limit, once the day has been looked at.        *)
Count(m) == IF counter[m].day = Today THEN counter[m].count ELSE 0

(* Mutant: a mail that is dropped is counted.                               *)
SendEmailCountingAll(m) ==
    /\ NextCall
    /\ counter' = [counter EXCEPT ![m] = [count |-> Count(m) + 1, day |-> Today]]
    /\ mails' = IF Count(m) < DailyLimit THEN mails \cup {Entry(m)} ELSE mails
    /\ UNCHANGED <<now, life, log, passed>>

SendEmail(m) ==
    /\ NextCall
    /\ IF Count(m) < DailyLimit
       THEN /\ counter' = [counter EXCEPT ![m] = [count |-> Count(m) + 1, day |-> Today]]
            /\ mails' = mails \cup {Entry(m)}
       ELSE /\ counter' = [counter EXCEPT ![m] = [count |-> Count(m), day |-> Today]]
            /\ UNCHANGED mails
    /\ UNCHANGED <<now, life, log, passed>>

(* A stopped process takes its memory along.                                *)
Forget(m) ==
    /\ life' = [life EXCEPT ![m] = @ + 1]
    /\ log' = [log EXCEPT ![m] = {}]
    /\ counter' = [counter EXCEPT ![m] = [count |-> 0, day |-> 0]]
    /\ UNCHANGED <<now, calls, passed, mails>>

Tick ==
    /\ now < MaxTime
    /\ now' = now + 1
    /\ UNCHANGED <<calls, life, memoryVars, passed, mails>>

(* What one process of machine m let through after instant t and within one *)
(* window, or on one day.                                                   *)
Admitted(m, k, t) == {e \in passed : e.on = m /\ e.life = k /\ t < e.at /\ e.at <= t + Window}
MailedOn(m, k, d) == {e \in mails : e.on = m /\ e.life = k /\ e.at \div DayLength = d}
=============================================================================
