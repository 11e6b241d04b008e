------------------------------ MODULE Machines ------------------------------
(***************************************************************************)
(* The machines the service runs on: each migrates the database before it  *)
(* serves (Startup), and limits what it serves by what it remembers        *)
(* (Limits).  Stopping one sets it back in both.                           *)
(***************************************************************************)
EXTENDS Limits

CONSTANT MaxStops   \* bound: machines stopped in a behaviour

ASSUME MachinesAssumption == MaxStops \in Nat

VARIABLE stops

vars == <<startupVars, limitVars, stops>>

TypeOK == StartupTypeOK /\ LimitsTypeOK /\ stops \in 0..MaxStops

Init == StartupInit /\ LimitsInit /\ stops = 0

BootStep(m) == Boot(m) /\ UNCHANGED <<limitVars, stops>>

Work(m) ==
    /\ boot[m].at = "up"
    /\ Check(m) \/ SendEmail(m)
    /\ UNCHANGED <<startupVars, stops>>

StopMachine(m) ==
    /\ stops < MaxStops /\ stops' = stops + 1
    /\ Stop(m) /\ Forget(m)

Time == Tick /\ UNCHANGED <<startupVars, stops>>

Next == Time \/ \E m \in Machines : BootStep(m) \/ Work(m) \/ StopMachine(m)

Spec == Init /\ [][Next]_vars

(* A machine that was told to start goes on starting, and one whose start   *)
(* failed is started again.                                                 *)
FairSpec == Spec /\ \A m \in Machines : WF_vars(BootStep(m))
-----------------------------------------------------------------------------
(* A file is executed twice only for one of two reasons: two machines that  *)
(* were starting had both seen it missing, or the one that executed it was  *)
(* stopped before it inserted the name.  (The files are not all fit for it: *)
(* 007 would add its credits again, 013 approve everybody again.)           *)
TwiceOnlyInARace ==
    \A f \in Files : runs[f] > 1 => f \in doubted \cup orphaned

(* A machine that serves serves a database in which every file was          *)
(* executed, whoever executed it, and no file before the ones it builds on. *)
ServedOnMigrated ==
    /\ \A m \in Machines : boot[m].at = "up" => \A f \in Files : runs[f] > 0
    /\ \A f, g \in Files : f < g /\ runs[g] > 0 => runs[f] > 0

(* One process never lets more than Limit requests through in any window,   *)
(* wherever the window begins, and never more than DailyLimit mails on a    *)
(* day.  The bounds hold for the service only times the processes: a        *)
(* restart begins a new one.                                                *)
WindowBound ==
    \A m \in Machines : \A k \in 0..life[m], t \in -Window..now :
        Cardinality(Admitted(m, k, t)) <= Limit

DayBound ==
    \A m \in Machines : \A k \in 0..life[m], d \in 0..Today :
        Cardinality(MailedOn(m, k, d)) <= DailyLimit

WithinLimits == WindowBound /\ DayBound

(* Nobody is refused early: a call is refused only if the process let a     *)
(* full Limit of calls through within the window that ends now.             *)
RefusedOnlyWhenFull ==
    [][\A m \in Machines :
          Check(m) /\ UNCHANGED passed
          => Cardinality(Admitted(m, life[m], now - Window)) >= Limit]_vars

(* Every machine serves in the end, unless it is stopped once more: two     *)
(* that lose the race for a name do not restart each other for ever.        *)
EveryoneServes == \A m \in Machines : <>[](boot[m].at = "up")
=============================================================================
