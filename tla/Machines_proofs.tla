-------------------------- MODULE Machines_proofs ---------------------------
(***************************************************************************)
(* Proofs about the machines, for any number of them, of migration files   *)
(* and of restarts, every limit and every length of window and day.        *)
(*                                                                         *)
(* The argument, for the migrations: a machine learns what is missing only *)
(* once, so what another does behind its back concerns files both had seen *)
(* missing, and those are doubted from the moment the second one looks.    *)
(* For the limits: the log of a process holds exactly those of its calls   *)
(* that the window still covers, and its counter covers its last day.      *)
(***************************************************************************)
EXTENDS Machines, FiniteSetTheorems, WellFoundedInduction, TLAPS

(* First, which picks the next file as sorted() does, finds the smallest.   *)
LEMMA FirstFile ==
    ASSUME NEW S \in SUBSET Files, S # {}
    PROVE  First(S) \in S /\ \A g \in S : First(S) <= g
<1> DEFINE Less == {p \in Nat \X Nat : p[1] < p[2]}
<1>1. S \subseteq Nat
  BY StartupAssumption DEF Files
<1>2. IsWellFoundedOn(Less, Nat)
  BY NatLessThanWellFounded, Zenon DEF OpToRel
<1>3. PICK f \in S : \A g \in S : <<g, f>> \notin Less
  <2> HIDE DEF Less
  <2> QED
    BY <1>1, <1>2, WFMin
<1>4. ASSUME NEW g \in S PROVE f <= g
  <2>1. <<g, f>> \in Nat \X Nat /\ <<g, f>>[1] = g /\ <<g, f>>[2] = f
    BY <1>1
  <2>2. ~(g < f)
    BY <1>3, <2>1
  <2>3. QED
    BY <1>1, <2>2
<1>5. QED
  BY <1>4 DEF First

-----------------------------------------------------------------------------
(* What two machines that start together may know of each other: a file     *)
(* that both have not seen is doubted, so is one that was recorded behind   *)
(* the back of a machine that has yet to come to it, and an executed file   *)
(* is recorded, about to be, or left by a machine that was stopped.         *)
Racing ==
    /\ \A m, n \in Machines :
           m # n /\ Migrating(m) /\ Migrating(n) => Missing(m) \cap Missing(n) \subseteq doubted
    /\ \A m \in Machines : Migrating(m) => Missing(m) \cap applied \subseteq doubted
    /\ \A f \in Files : runs[f] > 0 =>
           \/ f \in applied \cup orphaned
           \/ \E m \in Machines : boot[m].at = "record" /\ f = First(Missing(m))

(* What the names in _migrations are worth: they, and with them what a      *)
(* machine has seen, stand for files that were executed, in order.          *)
Migrated ==
    /\ \A f \in applied : runs[f] > 0
    /\ \A m \in Machines :
           /\ boot[m].seen \subseteq applied
           /\ boot[m].at = "record" => Missing(m) # {} /\ runs[First(Missing(m))] > 0
           /\ boot[m].at = "up" => Missing(m) = {}
    /\ \A f, g \in Files : f < g /\ runs[g] > 0 => runs[f] > 0

StartInv == StartupTypeOK /\ TwiceOnlyInARace /\ Racing /\ Migrated

BootState == [at : {"off", "select", "run", "record", "up"}, seen : SUBSET Files]

(* A step of one machine's start moves that machine only.                   *)
LEMMA OneMoves ==
    ASSUME NEW m \in Machines, boot \in [Machines -> BootState],
           NEW r \in BootState, boot' = [boot EXCEPT ![m] = r]
    PROVE  /\ boot' \in [Machines -> BootState] /\ boot'[m] = r
           /\ Missing(m)' = Files \ r.seen
           /\ Migrating(m)' <=> r.at \in {"run", "record"}
           /\ \A n \in Machines \ {m} : /\ boot'[n] = boot[n] /\ Missing(n)' = Missing(n)
                                        /\ Migrating(n)' <=> Migrating(n)
  BY DEF Missing, Migrating

(* A machine that leaves its start, or has not begun it, and runs nothing.  *)
LEMMA Rests ==
    ASSUME StartInv, NEW m \in Machines, NEW r \in BootState, boot' = [boot EXCEPT ![m] = r],
           r.at \in {"off", "select", "up"}, r.seen \subseteq applied,
           r.at = "up" => r.seen = Files,
           UNCHANGED <<applied, runs, doubted>>,
           orphaned \subseteq orphaned', orphaned' \subseteq Files,
           boot[m].at = "record" => First(Missing(m)) \in applied \cup orphaned'
    PROVE  StartInv'
<1>1. /\ boot' \in [Machines -> BootState] /\ boot'[m] = r
      /\ Missing(m)' = Files \ r.seen /\ ~Migrating(m)'
      /\ \A n \in Machines \ {m} : /\ boot'[n] = boot[n] /\ Missing(n)' = Missing(n)
                                   /\ Migrating(n)' <=> Migrating(n)
  BY OneMoves DEF StartInv, StartupTypeOK, BootState
<1>2. StartupTypeOK'
  BY <1>1 DEF StartInv, StartupTypeOK, BootState
<1>3. TwiceOnlyInARace'
  BY DEF StartInv, TwiceOnlyInARace
<1>4. Racing'
  <2>1. ASSUME NEW n \in Machines, NEW o \in Machines, n # o, Migrating(n)', Migrating(o)'
        PROVE  Missing(n)' \cap Missing(o)' \subseteq doubted'
    BY <1>1, <2>1 DEF StartInv, Racing
  <2>2. ASSUME NEW n \in Machines, Migrating(n)' PROVE Missing(n)' \cap applied' \subseteq doubted'
    BY <1>1, <2>2 DEF StartInv, Racing
  <2>3. ASSUME NEW f \in Files, runs'[f] > 0
        PROVE  \/ f \in applied' \cup orphaned'
               \/ \E n \in Machines : boot'[n].at = "record" /\ f = First(Missing(n)')
    BY <1>1, <2>3 DEF StartInv, Racing
  <2>4. QED
    BY <2>1, <2>2, <2>3 DEF Racing, First
<1>5. Migrated'
  <2>1. ASSUME NEW n \in Machines \ {m}
        PROVE  /\ boot'[n].seen \subseteq applied'
               /\ boot'[n].at = "record" => Missing(n)' # {} /\ runs'[First(Missing(n)')] > 0
               /\ boot'[n].at = "up" => Missing(n)' = {}
    BY <1>1 DEF StartInv, Migrated
  <2>2. QED
    BY <1>1, <2>1 DEF StartInv, Migrated, First
<1>6. QED
  BY <1>2, <1>3, <1>4, <1>5 DEF StartInv

(* Every step of a start, and a stop, keeps the argument going.             *)
LEMMA StartStep ==
    ASSUME StartInv, NEW m \in Machines, Boot(m) \/ Stop(m)
    PROVE  StartInv'
<1> DEFINE f == First(Missing(m))
<1>1. /\ StartupTypeOK /\ boot \in [Machines -> BootState] /\ boot[m] \in BootState
      /\ boot[m].seen \subseteq applied /\ runs \in [Files -> Nat]
      /\ applied \subseteq Files /\ doubted \subseteq Files /\ orphaned \subseteq Files
  BY DEF StartInv, StartupTypeOK, Migrated, BootState
<1>2. Missing(m) # {} => f \in Missing(m) /\ f \in Files /\ \A g \in Missing(m) : f <= g
  BY FirstFile DEF Missing
<1>3. boot[m].at = "record" => Missing(m) # {} /\ runs[f] > 0
  BY DEF StartInv, Migrated
<1>4. CASE Start(m)
  <2>1. [boot[m] EXCEPT !.at = "select"] \in BootState
    BY <1>1 DEF BootState
  <2>2. boot' = [boot EXCEPT ![m] = [boot[m] EXCEPT !.at = "select"]]
    BY <1>4 DEF Start
  <2>3. [boot[m] EXCEPT !.at = "select"].seen = boot[m].seen
    BY <1>1 DEF BootState
  <2>4. QED
    BY <1>1, <1>4, <2>1, <2>2, <2>3, Rests DEF Start, BootState
<1>5. CASE Serve(m)
  <2>1. [boot[m] EXCEPT !.at = "up"] \in BootState
    BY <1>1 DEF BootState
  <2>2. boot' = [boot EXCEPT ![m] = [boot[m] EXCEPT !.at = "up"]]
    BY <1>5 DEF Serve
  <2>3. [boot[m] EXCEPT !.at = "up"].seen = Files
    BY <1>1, <1>5 DEF BootState, Serve, Missing
  <2>4. Files \subseteq applied
    BY <1>1, <1>5 DEF BootState, Serve, Missing
  <2>5. QED
    BY <1>1, <1>5, <2>1, <2>2, <2>3, <2>4, Rests DEF Serve, BootState
<1>6. CASE Stop(m) \/ (RecordFile(m) /\ f \in applied)
  <2> DEFINE r == [at |-> "off", seen |-> {}]
  <2>1. r \in BootState /\ r.at = "off" /\ r.seen = {}
    BY DEF BootState
  <2>2. boot' = [boot EXCEPT ![m] = r]
    BY <1>6 DEF Stop, RecordFile, Off
  <2>3. /\ UNCHANGED <<applied, runs, doubted>> /\ orphaned \subseteq orphaned'
        /\ orphaned' \subseteq Files
        /\ boot[m].at = "record" => f \in applied \cup orphaned'
    BY <1>1, <1>2, <1>3, <1>6 DEF Stop, RecordFile
  <2> HIDE DEF r
  <2>4. QED
    BY <2>1, <2>2, <2>3, Rests
<1>7. CASE SelectApplied(m)
  <2> DEFINE r == [at |-> "run", seen |-> applied]
  <2>1. /\ r \in BootState /\ boot' = [boot EXCEPT ![m] = r] /\ ~Migrating(m)
        /\ r.at = "run" /\ r.seen = applied
    BY <1>1, <1>7 DEF BootState, SelectApplied, Migrating
  <2> HIDE DEF r
  <2>2. /\ boot' \in [Machines -> BootState] /\ boot'[m] = r
        /\ Missing(m)' = Files \ applied /\ Migrating(m)'
        /\ \A n \in Machines \ {m} : /\ boot'[n] = boot[n] /\ Missing(n)' = Missing(n)
                                     /\ Migrating(n)' <=> Migrating(n)
    BY <1>1, <2>1, OneMoves
  <2>3. /\ UNCHANGED <<applied, runs, orphaned>> /\ doubted \subseteq doubted'
        /\ doubted' \subseteq Files
        /\ \A n \in Machines : Migrating(n) => Missing(n) \cap (Files \ applied) \subseteq doubted'
    BY <1>1, <1>7 DEF SelectApplied
  <2>4. StartupTypeOK'
    BY <1>1, <2>2, <2>3 DEF StartupTypeOK, BootState
  <2>5. TwiceOnlyInARace'
    BY <2>3 DEF StartInv, TwiceOnlyInARace
  <2>6. Racing'
    <3>1. ASSUME NEW n \in Machines, NEW o \in Machines, n # o, Migrating(n)', Migrating(o)'
          PROVE  Missing(n)' \cap Missing(o)' \subseteq doubted'
      BY <2>2, <2>3, <3>1 DEF StartInv, Racing
    <3>2. ASSUME NEW n \in Machines, Migrating(n)'
          PROVE  Missing(n)' \cap applied' \subseteq doubted'
      BY <2>2, <2>3, <3>2 DEF StartInv, Racing
    <3>3. ASSUME NEW g \in Files, runs'[g] > 0
          PROVE  \/ g \in applied' \cup orphaned'
                 \/ \E n \in Machines : boot'[n].at = "record" /\ g = First(Missing(n)')
      BY <1>7, <2>2, <2>3, <3>3 DEF StartInv, Racing, SelectApplied
    <3>4. QED
      BY <3>1, <3>2, <3>3 DEF Racing, First
  <2>7. Migrated'
    <3>1. ASSUME NEW n \in Machines \ {m}
          PROVE  /\ boot'[n].seen \subseteq applied'
                 /\ boot'[n].at = "record" => Missing(n)' # {} /\ runs'[First(Missing(n)')] > 0
                 /\ boot'[n].at = "up" => Missing(n)' = {}
      BY <2>2, <2>3 DEF StartInv, Migrated
    <3>2. QED
      BY <2>1, <2>2, <2>3, <3>1 DEF StartInv, Migrated, First
  <2>8. QED
    BY <2>4, <2>5, <2>6, <2>7 DEF StartInv
<1>8. CASE RunFile(m)
  <2> DEFINE r == [boot[m] EXCEPT !.at = "record"]
  <2>1. /\ r \in BootState /\ boot' = [boot EXCEPT ![m] = r]
        /\ r.at = "record" /\ r.seen = boot[m].seen
    BY <1>1, <1>8 DEF BootState, RunFile
  <2>2. /\ boot' \in [Machines -> BootState] /\ boot'[m] = r
        /\ Missing(m)' = Missing(m) /\ Migrating(m)' /\ Migrating(m)
        /\ \A n \in Machines \ {m} : /\ boot'[n] = boot[n] /\ Missing(n)' = Missing(n)
                                     /\ Migrating(n)' <=> Migrating(n)
    BY <1>1, <1>8, <2>1, OneMoves DEF RunFile, Migrating, Missing
  <2>3. UNCHANGED <<applied, doubted, orphaned>> /\ f \in Missing(m) /\ f \in Files
    BY <1>2, <1>8 DEF RunFile
  <2>4. /\ runs' \in [Files -> Nat] /\ runs'[f] = runs[f] + 1
        /\ \A g \in Files \ {f} : runs'[g] = runs[g]
    BY <1>1, <1>8, <2>3 DEF RunFile
  <2>5. StartupTypeOK'
    BY <1>1, <2>2, <2>3, <2>4 DEF StartupTypeOK, BootState
  <2>6. TwiceOnlyInARace'
    <3>1. runs[f] > 0 => f \in doubted \cup orphaned
      <4>1. CASE f \in applied
        BY <2>2, <2>3, <4>1 DEF StartInv, Racing
      <4>2. ASSUME NEW n \in Machines, boot[n].at = "record", f = First(Missing(n))
            PROVE  f \in doubted
        <5>1. n # m /\ Migrating(n)
          BY <1>8, <4>2 DEF RunFile, Migrating
        <5>2. Missing(n) # {}
          BY <4>2 DEF StartInv, Migrated
        <5>3. f \in Missing(n)
          BY <4>2, <5>2, FirstFile DEF Missing
        <5>4. QED
          BY <2>2, <2>3, <5>1, <5>3 DEF StartInv, Racing
      <4>3. QED
        BY <2>3, <4>1, <4>2 DEF StartInv, Racing
    <3>2. runs'[f] > 1 => runs[f] > 0
      BY <1>1, <2>3, <2>4
    <3>3. ASSUME NEW g \in Files, runs'[g] > 1 PROVE g \in doubted' \cup orphaned'
      <4>1. CASE g = f
        BY <2>3, <3>1, <3>2, <3>3, <4>1
      <4>2. CASE g # f
        BY <2>3, <2>4, <3>3, <4>2 DEF StartInv, TwiceOnlyInARace
      <4>3. QED
        BY <4>1, <4>2
    <3>4. QED
      BY <3>3 DEF TwiceOnlyInARace
  <2>7. Racing'
    <3>1. ASSUME NEW n \in Machines, NEW o \in Machines, n # o, Migrating(n)', Migrating(o)'
          PROVE  Missing(n)' \cap Missing(o)' \subseteq doubted'
      <4>1. Migrating(n) /\ Migrating(o) /\ Missing(n)' = Missing(n) /\ Missing(o)' = Missing(o)
        BY <2>2, <3>1
      <4>2. QED
        BY <2>3, <3>1, <4>1 DEF StartInv, Racing
    <3>2. ASSUME NEW n \in Machines, Migrating(n)'
          PROVE  Missing(n)' \cap applied' \subseteq doubted'
      <4>1. Migrating(n) /\ Missing(n)' = Missing(n)
        BY <2>2, <3>2
      <4>2. QED
        BY <2>3, <4>1 DEF StartInv, Racing
    <3>3. ASSUME NEW g \in Files, runs'[g] > 0
          PROVE  \/ g \in applied' \cup orphaned'
                 \/ \E n \in Machines : boot'[n].at = "record" /\ g = First(Missing(n)')
      <4>1. CASE g = f
        BY <2>1, <2>2, <4>1
      <4>2. CASE g # f
        <5>1. \/ g \in applied \cup orphaned
              \/ \E n \in Machines : boot[n].at = "record" /\ g = First(Missing(n))
          BY <2>4, <3>3, <4>2 DEF StartInv, Racing
        <5>2. boot[m].at # "record"
          BY <1>8 DEF RunFile
        <5>3. QED
          BY <2>2, <2>3, <5>1, <5>2
      <4>3. QED
        BY <4>1, <4>2
    <3>4. QED
      BY <3>1, <3>2, <3>3 DEF Racing, First
  <2>8. Migrated'
    <3>1. \A g \in Files : runs'[g] > 0 <=> g = f \/ runs[g] > 0
      BY <1>1, <2>3, <2>4
    <3>2. \A g \in applied' : runs'[g] > 0
      BY <1>1, <2>3, <3>1 DEF StartInv, Migrated
    <3>3. ASSUME NEW n \in Machines
          PROVE  /\ boot'[n].seen \subseteq applied'
                 /\ boot'[n].at = "record" => Missing(n)' # {} /\ runs'[First(Missing(n)')] > 0
                 /\ boot'[n].at = "up" => Missing(n)' = {}
      <4>1. CASE n = m
        BY <1>1, <2>1, <2>2, <2>3, <3>1, <4>1
      <4>2. CASE n # m
        <5>1. boot'[n] = boot[n] /\ Missing(n)' = Missing(n)
          BY <2>2, <4>2
        <5>2. boot[n].at = "record" => Missing(n) # {} /\ First(Missing(n)) \in Files
          BY FirstFile DEF StartInv, Migrated, Missing
        <5>3. QED
          BY <2>3, <3>1, <5>1, <5>2 DEF StartInv, Migrated
      <4>3. QED
        BY <4>1, <4>2
    <3>4. ASSUME NEW g \in Files, NEW h \in Files, g < h, runs'[h] > 0 PROVE runs'[g] > 0
      <4>1. CASE h = f
        <5>1. g \notin Missing(m)
          BY <1>2, <2>3, <3>4, <4>1, StartupAssumption DEF Files
        <5>2. g \in applied
          BY <1>1, <5>1 DEF Missing
        <5>3. QED
          BY <2>3, <3>2, <5>2
      <4>2. CASE h # f
        BY <3>1, <3>4, <4>2 DEF StartInv, Migrated
      <4>3. QED
        BY <4>1, <4>2
    <3>5. QED
      BY <3>2, <3>3, <3>4 DEF Migrated, First
  <2>9. QED
    BY <2>5, <2>6, <2>7, <2>8 DEF StartInv
<1>9. CASE RecordFile(m) /\ f \notin applied
  <2> DEFINE r == [at |-> "run", seen |-> boot[m].seen \cup {f}]
  <2>1. boot[m].at = "record" /\ f \in Missing(m) /\ f \in Files /\ runs[f] > 0
    BY <1>2, <1>3, <1>9 DEF RecordFile
  <2>2. r \in BootState /\ boot' = [boot EXCEPT ![m] = r]
    BY <1>1, <1>9, <2>1 DEF BootState, RecordFile
  <2>3. /\ boot' \in [Machines -> BootState] /\ boot'[m] = r
        /\ Missing(m)' = Missing(m) \ {f} /\ Migrating(m)' /\ Migrating(m)
        /\ \A n \in Machines \ {m} : /\ boot'[n] = boot[n] /\ Missing(n)' = Missing(n)
                                     /\ Migrating(n)' <=> Migrating(n)
    BY <1>1, <2>1, <2>2, OneMoves DEF Migrating, Missing
  <2>4. UNCHANGED <<runs, doubted, orphaned>> /\ applied' = applied \cup {f}
    BY <1>9 DEF RecordFile
  <2>5. StartupTypeOK'
    BY <1>1, <2>1, <2>3, <2>4 DEF StartupTypeOK, BootState
  <2>6. TwiceOnlyInARace'
    BY <2>4 DEF StartInv, TwiceOnlyInARace
  <2>7. \A n \in Machines : Migrating(n)' => Migrating(n) /\ Missing(n)' \subseteq Missing(n)
    BY <2>3
  <2>8. Racing'
    <3>1. ASSUME NEW n \in Machines, NEW o \in Machines, n # o, Migrating(n)', Migrating(o)'
          PROVE  Missing(n)' \cap Missing(o)' \subseteq doubted'
      BY <2>4, <2>7, <3>1 DEF StartInv, Racing
    <3>2. ASSUME NEW n \in Machines, Migrating(n)'
          PROVE  Missing(n)' \cap applied' \subseteq doubted'
      <4>1. Missing(n)' \cap applied \subseteq doubted
        BY <2>7, <3>2 DEF StartInv, Racing
      <4>2. n # m => Missing(n)' \cap {f} \subseteq doubted
        BY <2>1, <2>3, <2>7, <3>2 DEF StartInv, Racing
      <4>3. QED
        BY <2>3, <2>4, <4>1, <4>2
    <3>3. ASSUME NEW g \in Files, runs'[g] > 0
          PROVE  \/ g \in applied' \cup orphaned'
                 \/ \E n \in Machines : boot'[n].at = "record" /\ g = First(Missing(n)')
      <4>1. \/ g \in applied \cup orphaned
            \/ \E n \in Machines : boot[n].at = "record" /\ g = First(Missing(n))
        BY <2>4, <3>3 DEF StartInv, Racing
      <4>2. QED
        BY <2>3, <2>4, <4>1
    <3>4. QED
      BY <3>1, <3>2, <3>3 DEF Racing, First
  <2>9. Migrated'
    <3>1. \A g \in applied' : runs'[g] > 0
      BY <2>1, <2>4 DEF StartInv, Migrated
    <3>2. ASSUME NEW n \in Machines
          PROVE  /\ boot'[n].seen \subseteq applied'
                 /\ boot'[n].at = "record" => Missing(n)' # {} /\ runs'[First(Missing(n)')] > 0
                 /\ boot'[n].at = "up" => Missing(n)' = {}
      <4>1. CASE n = m
        BY <1>1, <2>3, <2>4, <4>1
      <4>2. CASE n # m
        <5>1. boot'[n] = boot[n] /\ Missing(n)' = Missing(n)
          BY <2>3, <4>2
        <5>2. QED
          BY <2>4, <5>1 DEF StartInv, Migrated
      <4>3. QED
        BY <4>1, <4>2
    <3>3. QED
      BY <2>4, <3>1, <3>2 DEF StartInv, Migrated, First
  <2>10. QED
    BY <2>5, <2>6, <2>8, <2>9 DEF StartInv
<1>10. QED
  BY <1>4, <1>5, <1>6, <1>7, <1>8, <1>9 DEF Boot

-----------------------------------------------------------------------------
(* A whole number of days: time goes by and the day does not go back.       *)
LEMMA Days ==
    ASSUME NEW t \in Nat
    PROVE  t \div DayLength \in Nat /\ t \div DayLength <= (t + 1) \div DayLength
<1>1. ASSUME NEW D \in Nat \ {0} PROVE t \div D \in Nat /\ t \div D <= (t + 1) \div D
  BY <1>1, Z3
<1>2. QED
  BY <1>1, LimitsAssumption

(* What the process that now runs on a machine remembers: of its own calls, *)
(* all that the window still holds, and nothing else.  (No call of a life   *)
(* yet to come is on record, so a new process does start from nothing.)     *)
Remembered ==
    /\ \A m \in Machines : \A e \in log[m] : e \in passed /\ e.on = m /\ e.life = life[m]
    /\ \A e \in passed : e.life = life[e.on] /\ e.at > now - Window => e \in log[e.on]
    /\ \A e \in passed : e.id < calls
    /\ \A e \in passed \cup mails : e.at <= now /\ e.life <= life[e.on]

(* What its counter is worth: no mail of this life is of a later day, and   *)
(* those of that day are all in the count.                                  *)
Tallied ==
    \A m \in Machines :
        /\ counter[m].day <= Today
        /\ \A e \in mails : e.on = m /\ e.life = life[m] => e.at \div DayLength <= counter[m].day
        /\ Cardinality(MailedOn(m, life[m], counter[m].day)) <= counter[m].count

(* The bounds of WithinLimits, at every instant and in every life.          *)
Windows == \A m \in Machines, k \in Nat, t \in Int : Cardinality(Admitted(m, k, t)) <= Limit
DaysKept == \A m \in Machines, k \in Nat, d \in Nat : Cardinality(MailedOn(m, k, d)) <= DailyLimit

LimitInv == LimitsTypeOK /\ Remembered /\ Tallied /\ Windows /\ DaysKept

(* The call under way is an entry, and not one of those on record.          *)
LEMMA NewEntry ==
    ASSUME LimitInv, NEW m \in Machines
    PROVE  /\ Entry(m) \in Entries /\ Entry(m) \notin passed
           /\ Entry(m).on = m /\ Entry(m).at = now /\ Entry(m).life = life[m] /\ Entry(m).id = calls
           /\ now \in Nat /\ calls \in Nat /\ life[m] \in Nat
  BY DEF LimitInv, LimitsTypeOK, Remembered, Entries, Entry

(* Counting what one more call adds.                                        *)
LEMMA OneMore ==
    ASSUME NEW S, IsFiniteSet(S), NEW e, NEW T, T \subseteq S \cup {e}
    PROVE  /\ IsFiniteSet(T) /\ Cardinality(T) \in Nat /\ Cardinality(S) \in Nat
           /\ Cardinality(T) <= Cardinality(S) + 1
<1>1. Cardinality(S) \in Nat
  BY FS_CardinalityType
<1>2. IsFiniteSet(S \cup {e}) /\ Cardinality(S \cup {e}) \in {Cardinality(S), Cardinality(S) + 1}
  BY FS_AddElement
<1>3. IsFiniteSet(T) /\ Cardinality(T) <= Cardinality(S \cup {e})
  BY <1>2, FS_Subset
<1>4. Cardinality(T) \in Nat
  BY <1>3, FS_CardinalityType
<1>5. QED
  BY <1>1, <1>2, <1>3, <1>4

(* A smaller set has no more elements.                                      *)
LEMMA NoMore ==
    ASSUME NEW S, IsFiniteSet(S), NEW T, T \subseteq S
    PROVE  /\ IsFiniteSet(T) /\ Cardinality(T) \in Nat /\ Cardinality(S) \in Nat
           /\ Cardinality(T) <= Cardinality(S)
  BY FS_Subset, FS_CardinalityType

(* What is kept is what was let through within the window that ends now, so *)
(* the window of any later instant holds no more of it.                     *)
LEMMA KeptHolds ==
    ASSUME LimitInv, NEW m \in Machines
    PROVE  /\ \A t \in Int : t >= now - Window => Admitted(m, life[m], t) \subseteq Kept(m)
           /\ Kept(m) \subseteq Admitted(m, life[m], now - Window)
           /\ Kept(m) \subseteq passed /\ IsFiniteSet(Kept(m)) /\ Cardinality(Kept(m)) \in Nat
<1>1. /\ now \in Nat /\ Window \in Nat /\ passed \subseteq Entries /\ IsFiniteSet(passed)
      /\ \A e \in Entries : e.at \in Nat
  BY LimitsAssumption DEF LimitInv, LimitsTypeOK, Entries
<1>2. ASSUME NEW t \in Int, t >= now - Window, NEW e \in Admitted(m, life[m], t)
      PROVE  e \in Kept(m)
  <2>1. e \in passed /\ e.on = m /\ e.life = life[m] /\ e.at \in Nat /\ t < e.at
    BY <1>1, <1>2 DEF Admitted
  <2>2. e.at > now - Window
    BY <1>1, <1>2, <2>1
  <2>3. QED
    BY <2>1, <2>2 DEF LimitInv, Remembered, Kept
<1>3. ASSUME NEW e \in Kept(m)
      PROVE  e \in passed /\ e \in Admitted(m, life[m], now - Window)
  <2>1. e \in passed /\ e.on = m /\ e.life = life[m] /\ e.at > now - Window /\ e.at <= now
    BY <1>3 DEF LimitInv, Remembered, Kept
  <2>2. e.at \in Nat /\ e.at <= (now - Window) + Window
    BY <1>1, <2>1
  <2>3. QED
    BY <1>1, <2>1, <2>2 DEF Admitted
<1>4. QED
  BY <1>1, <1>2, <1>3, NoMore

(* A request, let through or refused.                                       *)
LEMMA CheckStep ==
    ASSUME LimitInv, NEW m \in Machines, Check(m)
    PROVE  LimitInv'
<1> DEFINE e0 == Entry(m)
<1>1. /\ e0 \in Entries /\ e0 \notin passed
      /\ e0.on = m /\ e0.at = now /\ e0.life = life[m] /\ e0.id = calls
      /\ now \in Nat /\ calls \in Nat /\ life[m] \in Nat
  BY NewEntry
<1>2. /\ passed \subseteq Entries /\ IsFiniteSet(passed) /\ log \in [Machines -> SUBSET Entries]
      /\ Kept(m) \subseteq log[m] /\ IsFiniteSet(Kept(m)) /\ Cardinality(Kept(m)) \in Nat
  BY KeptHolds DEF LimitInv, LimitsTypeOK, Kept
<1>3. UNCHANGED <<now, life, counter, mails>> /\ calls' = calls + 1
  BY DEF Check, NextCall
<1>4. \/ /\ Cardinality(Kept(m)) < Limit
         /\ log' = [log EXCEPT ![m] = Kept(m) \cup {e0}] /\ passed' = passed \cup {e0}
      \/ log' = [log EXCEPT ![m] = Kept(m)] /\ passed' = passed
  BY DEF Check
<1> HIDE DEF e0
<1>5. /\ log' \in [Machines -> SUBSET Entries] /\ \A n \in Machines \ {m} : log'[n] = log[n]
      /\ \/ log'[m] = Kept(m) /\ passed' = passed
         \/ log'[m] = Kept(m) \cup {e0} /\ passed' = passed \cup {e0}
  BY <1>1, <1>2, <1>4
<1>6. passed' \subseteq Entries /\ IsFiniteSet(passed')
  BY <1>1, <1>2, <1>5, FS_AddElement
<1>7. LimitsTypeOK'
  BY <1>1, <1>3, <1>5, <1>6 DEF LimitInv, LimitsTypeOK
<1>8. Remembered'
  <2>1. ASSUME NEW n \in Machines, NEW e \in log'[n]
        PROVE  e \in passed' /\ e.on = n /\ e.life = life'[n]
    <3>1. (e = e0 /\ n = m /\ e0 \in passed') \/ e \in log[n]
      BY <1>2, <1>5, <2>1
    <3>2. QED
      BY <1>1, <1>3, <1>5, <3>1 DEF LimitInv, Remembered
  <2>2. ASSUME NEW e \in passed', e.life = life'[e.on], e.at > now' - Window
        PROVE  e \in log'[e.on]
    <3>1. CASE e = e0
      BY <1>1, <1>5, <2>2, <3>1
    <3>2. CASE e \in passed
      <4>1. e \in log[e.on] /\ e.on \in Machines
        BY <1>2, <1>3, <2>2, <3>2 DEF LimitInv, Remembered, Entries
      <4>2. e.on = m => e \in Kept(m)
        BY <1>3, <2>2, <4>1 DEF Kept
      <4>3. QED
        BY <1>5, <4>1, <4>2
    <3>3. QED
      BY <1>5, <2>2, <3>1, <3>2
  <2>3. ASSUME NEW e \in passed' PROVE e.id < calls'
    <3>1. e = e0 \/ e \in passed
      BY <1>5, <2>3
    <3>2. e \in passed => e.id < calls /\ e.id \in Nat
      BY <1>2 DEF LimitInv, Remembered, Entries
    <3>3. QED
      BY <1>1, <1>3, <3>1, <3>2
  <2>4. ASSUME NEW e \in passed' \cup mails' PROVE e.at <= now' /\ e.life <= life'[e.on]
    <3>1. e = e0 \/ e \in passed \cup mails
      BY <1>3, <1>5, <2>4
    <3>2. QED
      BY <1>1, <1>3, <3>1 DEF LimitInv, Remembered
  <2>5. QED
    BY <2>1, <2>2, <2>3, <2>4 DEF Remembered
<1>9. Tallied'
  BY <1>3 DEF LimitInv, Tallied, Today, MailedOn
<1>10. Windows'
  <2>1. SUFFICES ASSUME NEW n \in Machines, NEW k \in Nat, NEW t \in Int
                 PROVE  Cardinality(Admitted(n, k, t)') <= Limit
    BY DEF Windows
  <2>2. /\ Admitted(n, k, t) \subseteq passed /\ Cardinality(Admitted(n, k, t)) <= Limit
        /\ IsFiniteSet(Admitted(n, k, t))
    BY <1>2, NoMore DEF LimitInv, Windows, Admitted
  <2>3. CASE e0 \notin Admitted(n, k, t)' \/ passed' = passed
    <3>1. Admitted(n, k, t)' = Admitted(n, k, t)
      <4>1. Admitted(n, k, t) \subseteq Admitted(n, k, t)'
        BY <1>5 DEF Admitted
      <4>2. Admitted(n, k, t)' \subseteq Admitted(n, k, t)
        BY <1>5, <2>3 DEF Admitted
      <4>3. QED
        BY <4>1, <4>2
    <3>2. QED
      BY <2>2, <3>1
  <2>4. CASE e0 \in Admitted(n, k, t)' /\ passed' # passed
    <3>1. n = m /\ k = life[m] /\ t < now /\ now <= t + Window
      BY <1>1, <2>4 DEF Admitted
    <3>2. t >= now - Window
      BY <1>1, <3>1, LimitsAssumption
    <3>3. Admitted(n, k, t) \subseteq Kept(m)
      BY <3>1, <3>2, KeptHolds
    <3>4. Admitted(n, k, t)' \subseteq Admitted(n, k, t) \cup {e0}
      BY <1>5 DEF Admitted
    <3>5. Cardinality(Admitted(n, k, t)') <= Cardinality(Kept(m)) + 1
          /\ Cardinality(Admitted(n, k, t)') \in Nat
      <4>1. Admitted(n, k, t)' \subseteq Kept(m) \cup {e0}
        BY <3>3, <3>4
      <4>2. QED
        BY <1>2, <4>1, OneMore
    <3>6. QED
      BY <1>2, <1>4, <2>4, <3>5, LimitsAssumption
  <2>5. QED
    BY <2>3, <2>4
<1>11. DaysKept'
  BY <1>3 DEF LimitInv, DaysKept, MailedOn
<1>12. QED
  BY <1>7, <1>8, <1>9, <1>10, <1>11 DEF LimitInv

(* A mail, sent or dropped.                                                 *)
LEMMA SendStep ==
    ASSUME LimitInv, NEW m \in Machines, SendEmail(m)
    PROVE  LimitInv'
<1> DEFINE e0 == Entry(m)
<1> DEFINE now0 == MailedOn(m, life[m], Today)
<1>1. /\ e0 \in Entries /\ e0.on = m /\ e0.at = now /\ e0.life = life[m]
      /\ now \in Nat /\ calls \in Nat /\ life[m] \in Nat /\ Today \in Nat
  BY NewEntry, Days DEF Today
<1>2. /\ mails \subseteq Entries /\ IsFiniteSet(mails)
      /\ counter \in [Machines -> [count : 0..DailyLimit, day : Nat]]
      /\ \A e \in Entries : e.at \div DayLength \in Nat /\ e.id \in Nat
  BY Days DEF LimitInv, LimitsTypeOK, Entries
<1>3. UNCHANGED <<now, life, log, passed>> /\ calls' = calls + 1
  BY DEF SendEmail, NextCall
<1>4. PICK c \in 0..DailyLimit :
         /\ counter' = [counter EXCEPT ![m] = [count |-> c, day |-> Today]]
         /\ \/ c = Count(m) /\ mails' = mails
            \/ c = Count(m) + 1 /\ mails' = mails \cup {e0}
  <2>1. Count(m) \in 0..DailyLimit
    BY <1>2, LimitsAssumption DEF Count
  <2>2. Count(m) < DailyLimit => Count(m) + 1 \in 0..DailyLimit
    BY <2>1, LimitsAssumption
  <2>3. QED
    BY <2>1, <2>2 DEF SendEmail
<1>5. IsFiniteSet(now0) /\ Cardinality(now0) \in Nat /\ Cardinality(now0) <= Count(m)
  <2>1. IsFiniteSet(now0) /\ Cardinality(now0) \in Nat
    BY <1>2, NoMore DEF MailedOn
  <2>2. CASE counter[m].day = Today
    BY <2>1, <2>2 DEF LimitInv, Tallied, Count
  <2>3. CASE counter[m].day # Today
    <3>1. counter[m].day < Today /\ counter[m].day \in Nat
      BY <1>1, <1>2, <2>3 DEF LimitInv, Tallied
    <3>2. ASSUME NEW e \in now0 PROVE FALSE
      <4>1. e \in mails /\ e.on = m /\ e.life = life[m] /\ e.at \div DayLength = Today
        BY <3>2 DEF MailedOn
      <4>2. e.at \div DayLength <= counter[m].day
        BY <4>1 DEF LimitInv, Tallied
      <4>3. QED
        BY <1>1, <3>1, <4>1, <4>2
    <3>3. QED
      BY <2>1, <2>3, <3>2, FS_EmptySet DEF Count
  <2>4. QED
    BY <2>2, <2>3
<1> HIDE DEF e0, now0
<1>6. /\ counter' \in [Machines -> [count : 0..DailyLimit, day : Nat]]
      /\ counter'[m].count = c /\ counter'[m].day = Today
      /\ \A n \in Machines \ {m} : counter'[n] = counter[n]
  BY <1>1, <1>2, <1>4
<1>7. LimitsTypeOK'
  <2>1. mails' \subseteq Entries /\ IsFiniteSet(mails')
    BY <1>1, <1>2, <1>4, FS_AddElement
  <2>2. QED
    BY <1>1, <1>3, <1>6, <2>1 DEF LimitInv, LimitsTypeOK
<1>8. Remembered'
  <2>1. ASSUME NEW e \in passed' PROVE e.id < calls'
    <3>1. e.id < calls /\ e.id \in Nat
      BY <1>2, <1>3, <2>1 DEF LimitInv, LimitsTypeOK, Remembered
    <3>2. QED
      BY <1>1, <1>3, <3>1
  <2>2. ASSUME NEW e \in passed' \cup mails' PROVE e.at <= now' /\ e.life <= life'[e.on]
    <3>1. e = e0 \/ e \in passed \cup mails
      BY <1>3, <1>4, <2>2
    <3>2. QED
      BY <1>1, <1>3, <3>1 DEF LimitInv, Remembered
  <2>3. QED
    BY <1>3, <2>1, <2>2 DEF LimitInv, Remembered
<1>9. ASSUME NEW n \in Machines, NEW k \in Nat, NEW d \in Nat
      PROVE  \/ MailedOn(n, k, d)' = MailedOn(n, k, d)
             \/ n = m /\ k = life[m] /\ d = Today
  BY <1>1, <1>4 DEF MailedOn, Today
<1>10. Cardinality(MailedOn(m, life[m], Today)') \in Nat
       /\ Cardinality(MailedOn(m, life[m], Today)') <= c
  <2>1. CASE c = Count(m) /\ mails' = mails
    <3>1. MailedOn(m, life[m], Today)' = now0
      BY <1>3, <2>1 DEF MailedOn, Today, now0
    <3>2. QED
      BY <1>5, <2>1, <3>1
  <2>2. CASE c = Count(m) + 1 /\ mails' = mails \cup {e0}
    <3>1. MailedOn(m, life[m], Today)' = now0 \cup {e0}
      BY <1>1, <1>3, <2>2 DEF MailedOn, Today, now0
    <3>2. Count(m) \in Nat
      BY <1>1, <1>2 DEF Count
    <3>3. QED
      BY <1>5, <2>2, <3>1, <3>2, OneMore
  <2>3. QED
    BY <1>4, <2>1, <2>2
<1>11. Tallied'
  <2>1. ASSUME NEW n \in Machines
        PROVE  /\ counter'[n].day <= Today'
               /\ \A e \in mails' : e.on = n /\ e.life = life'[n] =>
                      e.at \div DayLength <= counter'[n].day
               /\ Cardinality(MailedOn(n, life[n], counter[n].day)') <= counter'[n].count
    <3>0. Today' = Today /\ life' = life
      BY <1>3 DEF Today
    <3>1. CASE n = m
      <4>1. ASSUME NEW e \in mails', e.on = n, e.life = life'[n]
            PROVE  e.at \div DayLength <= Today
        <5>1. CASE e \in mails
          <6>1. e.at \div DayLength <= counter[m].day /\ counter[m].day <= Today
            BY <3>0, <3>1, <4>1, <5>1 DEF LimitInv, Tallied
          <6>2. e.at \div DayLength \in Nat /\ counter[m].day \in Nat
            BY <1>2, <5>1
          <6>3. QED
            BY <1>1, <6>1, <6>2
        <5>2. CASE e = e0
          BY <1>1, <5>2 DEF Today
        <5>3. QED
          BY <1>4, <4>1, <5>1, <5>2
      <4>2. MailedOn(n, life[n], counter[n].day)' = MailedOn(m, life[m], Today)'
        BY <1>6, <3>0, <3>1 DEF MailedOn
      <4>3. QED
        BY <1>1, <1>6, <1>10, <3>0, <3>1, <4>1, <4>2
    <3>2. CASE n # m
      <4>1. counter'[n] = counter[n]
        BY <1>6, <3>2
      <4>2. MailedOn(n, life[n], counter[n].day)' = MailedOn(n, life[n], counter[n].day)
        BY <1>1, <1>4, <3>0, <3>2, <4>1 DEF MailedOn
      <4>3. \A e \in mails' : e.on = n => e \in mails
        BY <1>1, <1>4, <3>2
      <4>4. QED
        BY <3>0, <4>1, <4>2, <4>3 DEF LimitInv, Tallied
    <3>3. QED
      BY <3>1, <3>2
  <2>2. QED
    BY <2>1 DEF Tallied
<1>12. Windows'
  BY <1>3 DEF LimitInv, Windows, Admitted
<1>13. DaysKept'
  <2>1. SUFFICES ASSUME NEW n \in Machines, NEW k \in Nat, NEW d \in Nat
                 PROVE  Cardinality(MailedOn(n, k, d)') <= DailyLimit
    BY DEF DaysKept
  <2>2. CASE MailedOn(n, k, d)' = MailedOn(n, k, d)
    BY <2>2 DEF LimitInv, DaysKept
  <2>3. CASE n = m /\ k = life[m] /\ d = Today
    <3>1. MailedOn(n, k, d)' = MailedOn(m, life[m], Today)'
      BY <1>3, <2>3 DEF MailedOn, Today
    <3>2. QED
      BY <1>4, <1>10, <3>1, LimitsAssumption
  <2>4. QED
    BY <1>9, <2>2, <2>3
<1>14. QED
  BY <1>7, <1>8, <1>11, <1>12, <1>13 DEF LimitInv

(* A restart: the new process has nothing to remember.                      *)
LEMMA ForgetStep ==
    ASSUME LimitInv, NEW m \in Machines, Forget(m)
    PROVE  LimitInv'
<1>1. /\ UNCHANGED <<now, calls, passed, mails>>
      /\ life' \in [Machines -> Nat] /\ life'[m] = life[m] + 1 /\ life[m] \in Nat
      /\ \A n \in Machines \ {m} : life'[n] = life[n]
  BY DEF Forget, LimitInv, LimitsTypeOK
<1>2. /\ log' \in [Machines -> SUBSET Entries] /\ log'[m] = {}
      /\ \A n \in Machines \ {m} : log'[n] = log[n]
  BY DEF Forget, LimitInv, LimitsTypeOK
<1>3. /\ counter' \in [Machines -> [count : 0..DailyLimit, day : Nat]]
      /\ counter'[m] = [count |-> 0, day |-> 0]
      /\ \A n \in Machines \ {m} : counter'[n] = counter[n]
  <2>1. [count |-> 0, day |-> 0] \in [count : 0..DailyLimit, day : Nat]
    BY LimitsAssumption
  <2>2. QED
    BY <2>1 DEF Forget, LimitInv, LimitsTypeOK
<1>4. LimitsTypeOK'
  BY <1>1, <1>2, <1>3 DEF LimitInv, LimitsTypeOK
<1>5. ASSUME NEW e \in passed \cup mails
      PROVE  /\ e.on \in Machines /\ e.life \in Nat /\ e.life <= life[e.on] /\ e.at <= now
             /\ e.on = m => e.life < life'[m]
  <2>1. e.on \in Machines /\ e.life \in Nat /\ e.life <= life[e.on] /\ e.at <= now
    BY <1>5 DEF LimitInv, LimitsTypeOK, Entries, Remembered
  <2>2. QED
    BY <1>1, <2>1
<1>6. Remembered'
  <2>1. ASSUME NEW n \in Machines, NEW e \in log'[n]
        PROVE  e \in passed' /\ e.on = n /\ e.life = life'[n]
    BY <1>1, <1>2, <2>1 DEF LimitInv, Remembered
  <2>2. ASSUME NEW e \in passed', e.life = life'[e.on], e.at > now' - Window
        PROVE  e \in log'[e.on]
    <3>1. e.on \in Machines \ {m}
      BY <1>1, <1>5, <2>2
    <3>2. QED
      BY <1>1, <1>2, <2>2, <3>1 DEF LimitInv, Remembered
  <2>3. ASSUME NEW e \in passed' \cup mails' PROVE e.at <= now' /\ e.life <= life'[e.on]
    BY <1>1, <1>5, <2>3
  <2>4. QED
    BY <1>1, <2>1, <2>2, <2>3 DEF LimitInv, Remembered
<1>7. Tallied'
  <2>1. ASSUME NEW n \in Machines
        PROVE  /\ counter'[n].day <= Today'
               /\ \A e \in mails' : e.on = n /\ e.life = life'[n] =>
                      e.at \div DayLength <= counter'[n].day
               /\ Cardinality(MailedOn(n, life[n], counter[n].day)') <= counter'[n].count
    <3>1. CASE n = m
      <4>1. \A e \in mails' : ~(e.on = m /\ e.life = life'[m])
        BY <1>1, <1>5
      <4>2. MailedOn(n, life[n], counter[n].day)' = {}
        BY <3>1, <4>1 DEF MailedOn
      <4>3. Today' \in Nat
        BY <1>1, Days DEF Today, LimitInv, LimitsTypeOK
      <4>4. counter'[n].day = 0 /\ counter'[n].count = 0
        BY <1>3, <3>1
      <4>5. QED
        BY <3>1, <4>1, <4>2, <4>3, <4>4, FS_EmptySet
    <3>2. CASE n # m
      <4>1. Today' = Today /\ counter'[n] = counter[n] /\ life'[n] = life[n] /\ mails' = mails
        BY <1>1, <1>3, <3>2 DEF Today
      <4>2. MailedOn(n, life[n], counter[n].day)' = MailedOn(n, life[n], counter[n].day)
        BY <4>1 DEF MailedOn
      <4>3. QED
        BY <4>1, <4>2 DEF LimitInv, Tallied
    <3>3. QED
      BY <3>1, <3>2
  <2>2. QED
    BY <2>1 DEF Tallied
<1>8. Windows' /\ DaysKept'
  BY <1>1 DEF LimitInv, Windows, DaysKept, Admitted, MailedOn
<1>9. QED
  BY <1>4, <1>6, <1>7, <1>8 DEF LimitInv

(* Time goes by: the window only moves on, and the day does not go back.    *)
LEMMA TickStep ==
    ASSUME LimitInv, Tick
    PROVE  LimitInv'
<1>1. /\ now' = now + 1 /\ now \in Nat /\ UNCHANGED <<calls, life, log, counter, passed, mails>>
      /\ Window \in Nat
  BY LimitsAssumption DEF Tick, memoryVars, LimitInv, LimitsTypeOK
<1>2. passed \subseteq Entries /\ mails \subseteq Entries /\ \A e \in Entries : e.at \in Nat
  BY DEF LimitInv, LimitsTypeOK, Entries
<1>3. LimitsTypeOK'
  BY <1>1 DEF LimitInv, LimitsTypeOK
<1>4. Remembered'
  <2>1. ASSUME NEW e \in passed, e.at > now' - Window PROVE e.at > now - Window
    BY <1>1, <1>2, <2>1
  <2>2. ASSUME NEW e \in passed \cup mails PROVE e.at <= now'
    <3>1. e.at \in Nat /\ e.at <= now
      BY <1>2, <2>2 DEF LimitInv, Remembered
    <3>2. QED
      BY <1>1, <3>1
  <2>3. QED
    BY <1>1, <2>1, <2>2 DEF LimitInv, Remembered
<1>5. Tallied'
  <2>1. Today <= Today' /\ Today \in Nat /\ Today' \in Nat
    BY <1>1, Days DEF Today
  <2>2. \A n \in Machines : counter[n].day \in Nat /\ counter[n].day <= Today'
    <3>1. \A n \in Machines : counter[n].day \in Nat /\ counter[n].day <= Today
      BY DEF LimitInv, LimitsTypeOK, Tallied
    <3>2. QED
      BY <2>1, <3>1
  <2>3. QED
    BY <1>1, <2>2 DEF LimitInv, Tallied, MailedOn
<1>6. Windows' /\ DaysKept'
  BY <1>1 DEF LimitInv, Windows, DaysKept, Admitted, MailedOn
<1>7. QED
  BY <1>3, <1>4, <1>5, <1>6 DEF LimitInv

-----------------------------------------------------------------------------
IInv == StartInv /\ LimitInv /\ stops \in 0..MaxStops

(* The strengthening is an invariant.                                       *)
LEMMA Inductive == Spec => []IInv
<1>1. Init => IInv
  <2>1. SUFFICES ASSUME Init PROVE IInv
    OBVIOUS
  <2>2. StartInv
    BY <2>1 DEF Init, StartupInit, StartInv, StartupTypeOK, TwiceOnlyInARace, Racing, Migrated,
       Migrating
  <2>3. /\ LimitsTypeOK /\ now = 0 /\ passed = {} /\ mails = {} /\ \A m \in Machines : log[m] = {}
        /\ \A m \in Machines : counter[m].day = 0 /\ counter[m].count = 0
    BY <2>1, LimitsAssumption, FS_EmptySet DEF Init, LimitsInit, LimitsTypeOK
  <2>4. Today \in Nat
    BY <2>3, Days DEF Today
  <2>5. Remembered
    BY <2>3 DEF Remembered
  <2>6. \A m, k, t : /\ Cardinality(Admitted(m, k, t)) = 0
                     /\ Cardinality(MailedOn(m, k, t)) = 0
    BY <2>3, FS_EmptySet DEF Admitted, MailedOn
  <2>7. Tallied /\ Windows /\ DaysKept
    BY <2>3, <2>4, <2>6, LimitsAssumption DEF Tallied, Windows, DaysKept
  <2>8. QED
    BY <2>1, <2>2, <2>3, <2>5, <2>7, MachinesAssumption DEF Init, IInv, LimitInv
<1>2. IInv /\ [Next]_vars => IInv'
  <2>1. SUFFICES ASSUME IInv, [Next]_vars PROVE IInv'
    OBVIOUS
  <2>2. UNCHANGED startupVars => StartInv'
    BY <2>1 DEF startupVars, IInv, StartInv, StartupTypeOK, TwiceOnlyInARace, Racing, Migrated,
       Migrating, Missing
  <2>3. UNCHANGED limitVars => LimitInv'
    <3>1. SUFFICES ASSUME UNCHANGED limitVars PROVE LimitInv'
      OBVIOUS
    <3> USE <2>1, <3>1 DEF limitVars, memoryVars, IInv, LimitInv
    <3>2. LimitsTypeOK' /\ Remembered'
      BY DEF LimitsTypeOK, Remembered
    <3>3. Tallied'
      BY DEF Tallied, Today, MailedOn
    <3>4. Windows' /\ DaysKept'
      BY DEF Windows, DaysKept, Admitted, MailedOn
    <3>5. QED
      BY <3>2, <3>3, <3>4
  <2>4. CASE Time
    BY <2>1, <2>2, <2>4, TickStep DEF Time, IInv
  <2>5. ASSUME NEW m \in Machines, BootStep(m) PROVE IInv'
    BY <2>1, <2>3, <2>5, StartStep DEF BootStep, IInv
  <2>6. ASSUME NEW m \in Machines, Work(m) PROVE IInv'
    BY <2>1, <2>2, <2>6, CheckStep, SendStep DEF Work, IInv
  <2>7. ASSUME NEW m \in Machines, StopMachine(m) PROVE IInv'
    <3>1. stops' \in 0..MaxStops
      BY <2>1, <2>7, MachinesAssumption DEF StopMachine, IInv
    <3>2. QED
      BY <2>1, <2>7, <3>1, StartStep, ForgetStep DEF StopMachine, IInv
  <2>8. CASE UNCHANGED vars
    BY <2>1, <2>2, <2>3, <2>8 DEF vars, IInv
  <2>9. QED
    BY <2>1, <2>4, <2>5, <2>6, <2>7, <2>8 DEF Next
<1>3. QED
  BY <1>1, <1>2, PTL DEF Spec

(* Type correctness of the machines: TypeOK is an invariant.                *)
THEOREM TypeCorrect == Spec => []TypeOK
<1>1. IInv => TypeOK
  BY DEF IInv, StartInv, LimitInv, TypeOK
<1>2. QED
  BY <1>1, Inductive, PTL

(* Whatever machines start together and wherever they are stopped, a        *)
(* migration file is executed twice only if two of them had both seen it    *)
(* missing or one died between its two statements (run_migrations).         *)
THEOREM MigratedOnce == Spec => []TwiceOnlyInARace
<1>1. IInv => TwiceOnlyInARace
  BY DEF IInv, StartInv
<1>2. QED
  BY <1>1, Inductive, PTL

(* A machine that serves does so on a database in which every file was      *)
(* executed, and files are executed in the order of their numbers.          *)
THEOREM MigratedFirst == Spec => []ServedOnMigrated
<1>1. IInv => ServedOnMigrated
  <2>1. SUFFICES ASSUME IInv PROVE ServedOnMigrated
    OBVIOUS
  <2>2. ASSUME NEW m \in Machines, boot[m].at = "up", NEW f \in Files PROVE runs[f] > 0
    <3>1. f \in boot[m].seen
      BY <2>1, <2>2 DEF IInv, StartInv, Migrated, Missing
    <3>2. QED
      BY <2>1, <3>1 DEF IInv, StartInv, Migrated
  <2>3. QED
    BY <2>1, <2>2 DEF IInv, StartInv, Migrated, ServedOnMigrated
<1>2. QED
  BY <1>1, Inductive, PTL

(* One process never exceeds a limit, in any window and on any day          *)
(* (RateLimiter.check, _check_knock_rate, _check_daily_limit).              *)
THEOREM LimitsHold == Spec => []WithinLimits
<1>1. IInv => WithinLimits
  <2>1. SUFFICES ASSUME IInv PROVE WithinLimits
    OBVIOUS
  <2>2. /\ now \in Nat /\ Window \in Nat /\ Today \in Nat
        /\ \A m \in Machines : life[m] \in Nat
    BY <2>1, Days, LimitsAssumption DEF IInv, LimitInv, LimitsTypeOK, Today
  <2>3. (-Window..now) \subseteq Int /\ (0..Today) \subseteq Nat
        /\ \A m \in Machines : (0..life[m]) \subseteq Nat
    BY <2>2
  <2>4. WindowBound
    BY <2>1, <2>3 DEF IInv, LimitInv, Windows, WindowBound
  <2>5. DayBound
    BY <2>1, <2>3 DEF IInv, LimitInv, DaysKept, DayBound
  <2>6. QED
    BY <2>4, <2>5 DEF WithinLimits
<1>2. QED
  BY <1>1, Inductive, PTL

(* And it refuses nobody before the limit is reached.                       *)
THEOREM NobodyRefusedEarly == Spec => RefusedOnlyWhenFull
<1>1. ASSUME IInv, NEW m \in Machines, Check(m), UNCHANGED passed
      PROVE  Cardinality(Admitted(m, life[m], now - Window)) >= Limit
  <2>1. LimitInv
    BY <1>1 DEF IInv
  <2>2. ~(Cardinality(Kept(m)) < Limit)
    BY <1>1, <2>1, NewEntry DEF Check
  <2>3. /\ Kept(m) \subseteq Admitted(m, life[m], now - Window)
        /\ Cardinality(Kept(m)) \in Nat
    BY <2>1, KeptHolds
  <2>4. IsFiniteSet(Admitted(m, life[m], now - Window))
    BY <2>1, NoMore DEF LimitInv, LimitsTypeOK, Admitted
  <2>5. QED
    BY <2>2, <2>3, <2>4, NoMore, LimitsAssumption
<1>2. IInv /\ [Next]_vars =>
          [\A m \in Machines :
              Check(m) /\ UNCHANGED passed
              => Cardinality(Admitted(m, life[m], now - Window)) >= Limit]_vars
  BY <1>1
<1>3. QED
  BY <1>2, Inductive, PTL DEF Spec, RefusedOnlyWhenFull
=============================================================================
