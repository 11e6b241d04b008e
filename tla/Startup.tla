------------------------------ MODULE Startup -------------------------------
(***************************************************************************)
(* app/main.py: what a machine does before it serves.                      *)
(*                                                                         *)
(* run_migrations reads the names in _migrations once and then, for every  *)
(* file that was not among them, executes the file and inserts its name,   *)
(* in two statements.  Two machines may be starting at the same time, and  *)
(* a machine may be stopped anywhere.  The name is a primary key: whoever  *)
(* inserts it second gets an error, its start fails, and it starts again.  *)
(* Files are numbered in the order in which sorted() yields them.          *)
(***************************************************************************)
EXTENDS Integers, FiniteSets

CONSTANTS
    Machines,
    LastFile     \* the migration files are 1..LastFile

ASSUME StartupAssumption == LastFile \in Nat /\ IsFiniteSet(Machines)

VARIABLES
    boot,        \* each machine: its await, and the files it takes for applied
    applied,     \* the _migrations table
    runs,        \* how often each file was executed
    doubted,     \* files that two starting machines both had seen missing
    orphaned     \* files whose executor died before it inserted the name

startupVars == <<boot, applied, runs, doubted, orphaned>>

Files == 1..LastFile

StartupTypeOK ==
    /\ boot \in [Machines -> [at : {"off", "select", "run", "record", "up"}, seen : SUBSET Files]]
    /\ applied \subseteq Files
    /\ runs \in [Files -> Nat]
    /\ doubted \subseteq Files /\ orphaned \subseteq Files

StartupInit ==
    /\ boot = [m \in Machines |-> [at |-> "off", seen |-> {}]]
    /\ applied = {}
    /\ runs = [f \in Files |-> 0]
    /\ doubted = {} /\ orphaned = {}

Missing(m) == Files \ boot[m].seen
Migrating(m) == boot[m].at \in {"run", "record"}

(* Mutant: glob without sorted.                                             *)
Unsorted(files) == CHOOSE f \in files : \A g \in files : f >= g

First(files) == CHOOSE f \in files : \A g \in files : f <= g
Off(m) == boot' = [boot EXCEPT ![m] = [at |-> "off", seen |-> {}]]

(* get_pool, and CREATE TABLE IF NOT EXISTS _migrations.                    *)
Start(m) ==
    /\ boot[m].at = "off"
    /\ boot' = [boot EXCEPT ![m].at = "select"]
    /\ UNCHANGED <<applied, runs, doubted, orphaned>>

(* Mutant: the names are not looked at.                                     *)
SelectNothing(m) ==
    /\ boot[m].at = "select"
    /\ boot' = [boot EXCEPT ![m] = [at |-> "run", seen |-> {}]]
    /\ UNCHANGED <<applied, runs, doubted, orphaned>>

SelectApplied(m) ==
    /\ boot[m].at = "select"
    /\ boot' = [boot EXCEPT ![m] = [at |-> "run", seen |-> applied]]
    /\ doubted' = doubted \cup {f \in Files \ applied :
                                  \E n \in Machines : Migrating(n) /\ f \in Missing(n)}
    /\ UNCHANGED <<applied, runs, orphaned>>

(* One turn of the loop: the next file, or none is left and the machine     *)
(* serves.                                                                  *)
RunFile(m) ==
    /\ boot[m].at = "run" /\ Missing(m) # {}
    /\ runs' = [runs EXCEPT ![First(Missing(m))] = @ + 1]
    /\ boot' = [boot EXCEPT ![m].at = "record"]
    /\ UNCHANGED <<applied, doubted, orphaned>>

(* Mutant: a name that is there already is waited for.                      *)
RecordNewOnly(m) ==
    LET f == First(Missing(m)) IN
    /\ boot[m].at = "record" /\ f \notin applied
    /\ applied' = applied \cup {f}
    /\ boot' = [boot EXCEPT ![m] = [at |-> "run", seen |-> @.seen \cup {f}]]
    /\ UNCHANGED <<runs, doubted, orphaned>>

RecordFile(m) ==
    LET f == First(Missing(m)) IN
    /\ boot[m].at = "record"
    /\ \/ /\ f \notin applied
          /\ applied' = applied \cup {f}
          /\ boot' = [boot EXCEPT ![m] = [at |-> "run", seen |-> @.seen \cup {f}]]
       \/ f \in applied /\ Off(m) /\ UNCHANGED applied
    /\ UNCHANGED <<runs, doubted, orphaned>>

Serve(m) ==
    /\ boot[m].at = "run" /\ Missing(m) = {}
    /\ boot' = [boot EXCEPT ![m].at = "up"]
    /\ UNCHANGED <<applied, runs, doubted, orphaned>>

Boot(m) == Start(m) \/ SelectApplied(m) \/ RunFile(m) \/ RecordFile(m) \/ Serve(m)

(* The machine is stopped: by a fault, by a deployment, or because nobody   *)
(* uses it.                                                                 *)
Stop(m) ==
    /\ boot[m].at # "off"
    /\ orphaned' = IF boot[m].at = "record" THEN orphaned \cup {First(Missing(m))} ELSE orphaned
    /\ Off(m)
    /\ UNCHANGED <<applied, runs, doubted>>
=============================================================================
