---------------------------- MODULE Roster_proofs ----------------------------
(***************************************************************************)
(* Proofs about sign-up, keys and deletion, for any number of sign-ups,    *)
(* rotations, deletions and addresses, and for every limit.                *)
(*                                                                         *)
(* The argument: Placed says which rows a sign-up has inserted where it    *)
(* is, and no row and no key is ever inserted twice.  Each property then   *)
(* has a reason of its own.  A count stays good until another insert       *)
(* (Fits); a key that a rotation found at its start has been inserted for  *)
(* good (Spent); a request that is about to insert a key left the agent    *)
(* without one, and only another request can have changed that             *)
(* (Entangled); what the clean-up of a pair finds in its way was brought   *)
(* by a visitor (Guests); a table that a deletion has emptied stays empty  *)
(* unless somebody touches the agent (Emptied).                            *)
(***************************************************************************)
EXTENDS Roster, FiniteSetTheorems, TLAPS

(* Which rows there are where a sign-up is.                                 *)
Place(r) ==
    /\ signup[r].at \in {"new", "count", "first"} => row[<<r, 1>>] = "none"
    /\ signup[r].at \in {"new", "count", "first", "second", "undo", "refused"} =>
          row[<<r, 2>>] = "none"
    /\ signup[r].at \in {"second", "undo", "grant", "grant2", "key", "key2", "done"} =>
          row[<<r, 1>>] # "none"
    /\ signup[r].at = "refused" => row[<<r, 1>>] # "live"
    /\ signup[r].at \in {"second", "undo", "grant2", "key2"} => Pair(r)
    /\ Pair(r) /\ signup[r].at \in {"grant", "grant2", "key", "key2", "done"} =>
          row[<<r, 2>>] # "none"

Placed == \A r \in Signups : Place(r)

(* A sign-up that nobody inserted after finds the room it counted.          *)
Fit(r) ==
    /\ signup[r].at = "first" =>
          Cardinality(Live) + (IF Pair(r) THEN 2 ELSE 1) <= signup[r].limit
    /\ signup[r].at = "second" => Cardinality(Live) + 1 <= signup[r].limit

Fits == \A r \in Signups \ crowded : Fit(r)

(* Somebody other than its sign-up has worked on agent i.                   *)
Visited(i) == traffic > 0 \/ \E q \in Rotations : rotation[q].at # "new" /\ rotation[q].of = i

(* Until a pair is whole, what refers to its first agent came from outside, *)
(* and a clean-up that broke off has met it.                                *)
Guest(r) ==
    /\ signup[r].at \in {"second", "undo"} /\ Referenced(<<r, 1>>) => Visited(<<r, 1>>)
    /\ Pair(r) /\ signup[r].at = "error" /\ row[<<r, 2>>] = "none" => Visited(<<r, 1>>)

Guests == \A r \in Signups : Guest(r)

(* The request that made key k will not insert it again.                    *)
Spent(k) ==
    /\ k.by \in Rotations => rotation[k.by].at = "done"
    /\ k.by \in Signups =>
          \/ k.of = <<k.by, 1>> /\ signup[k.by].at \in {"key2", "done", "error"}
          \/ k.of = <<k.by, 2>> /\ signup[k.by].at \in {"done", "error"}

Revoked ==
    /\ \A k \in keys : Spent(k)
    /\ \A q \in Rotations :
          /\ \A k \in rotation[q].old : Spent(k) /\ k.of = rotation[q].of
          /\ rotation[q].at \in {"insert", "done"} => rotation[q].old \cap keys = {}

(* An agent with a key for which another is about to be inserted.           *)
Entangled == \A i \in Rows : KeysOf(i) # {} /\ Making(i) # {} => i \in tangled

(* What the deletion of agent i has emptied so far.                         *)
Empty(i) ==
    /\ deletion[i] \in {"messages", "credits", "keys", "row"} => i \notin child["nonces"]
    /\ deletion[i] \in {"credits", "keys", "row"} => i \notin child["messages"]
    /\ deletion[i] \in {"keys", "row"} => i \notin child["credits"]
    /\ deletion[i] = "row" => KeysOf(i) = {}

Emptied == \A i \in Rows \ touched : Empty(i)

-----------------------------------------------------------------------------
(* The two rows of a sign-up.                                               *)
LEMMA RowsOfSignups ==
    /\ \A r \in Signups : <<r, 1>> \in Rows /\ <<r, 2>> \in Rows
    /\ \A r, t : <<r, 1>> # <<t, 2>>
    /\ \A r, t : <<r, 1>> = <<t, 1>> \/ <<r, 2>> = <<t, 2>> => r = t
  BY DEF Rows

(* The sign-up of a row.                                                    *)
LEMMA SignupsOfRows ==
    \A i \in Rows : i[1] \in Signups /\ (i = <<i[1], 1>> \/ i = <<i[1], 2>>)
  BY DEF Rows

(* TypeOK in five parts: the tables, the requests and what is remembered    *)
(* of them, the foreign keys of the four tables, and the unique address.    *)
Positions == {"new", "count", "first", "second", "undo", "grant", "grant2", "key", "key2",
              "done", "refused", "error"}
SignupType == [at : Positions, first : Addresses \cup {NoAddress},
               second : Addresses \cup {NoAddress}, limit : 0..MaxLimit]
RotationType == [at : {"new", "delete", "insert", "done", "error"},
                 of : Rows \cup {<<>>}, old : SUBSET Keys]

TablesTyped ==
    /\ row \in [Rows -> {"none", "live", "gone"}]
    /\ address \in [Rows -> Addresses \cup {NoAddress}]
    /\ child \in [Tables -> SUBSET Rows]
    /\ keys \subseteq Keys

RestTyped ==
    /\ rotation \in [Rotations -> RotationType]
    /\ deletion \in [Rows -> {"idle", "nonces", "messages", "credits", "keys", "row", "done",
                              "broken"}]
    /\ traffic \in 0..MaxTraffic
    /\ over \subseteq Signups /\ crowded \subseteq Signups
    /\ tangled \subseteq Rows /\ touched \subseteq Rows

References ==
    /\ \A t \in Tables : \A i \in child[t] : row[i] = "live"
    /\ \A k \in keys : row[k.of] = "live"

Unique ==
    \A i, j \in Rows : row[i] = "live" /\ row[j] = "live" /\ address[i] = address[j] => i = j

(* They are all of TypeOK.                                                  *)
LEMMA Parts ==
    TypeOK <=> /\ signup \in [Signups -> SignupType]
               /\ TablesTyped /\ RestTyped /\ References /\ Unique
  BY DEF TypeOK, TablesTyped, RestTyped, References, Unique, Positions, SignupType, RotationType

(* What a request works on once it has begun; TypeOK needs the first of it. *)
Aimed ==
    /\ \A q \in Rotations : rotation[q].at # "new" => rotation[q].of \in Rows
    /\ \A i \in Rows : deletion[i] # "idle" => row[i] # "none"

(* The parts together, as a step keeps them.                                *)
Good ==
    /\ signup \in [Signups -> SignupType]
    /\ TablesTyped /\ RestTyped /\ References /\ Unique /\ Aimed

(* One sign-up moves, and its record stays one.                             *)
LEMMA Walks ==
    ASSUME signup \in [Signups -> SignupType], NEW r \in Signups, NEW p \in Positions,
           Goto(r, p) \/ Leave(r, p)
    PROVE  signup' \in [Signups -> SignupType]
  BY RosterAssumption DEF Goto, Leave, SignupType

(* There are finitely many agents, so they can be counted.                  *)
LEMMA LiveCounted == IsFiniteSet(Live) /\ Cardinality(Live) \in Nat
<1>1. IsFiniteSet({1, 2})
  <2>1. IsFiniteSet({1}) /\ {1, 2} = {1} \cup {2}
    BY FS_Singleton
  <2>2. IsFiniteSet({1} \cup {2})
    BY <2>1, FS_AddElement
  <2>3. QED
    BY <2>1, <2>2
<1>2. IsFiniteSet(Rows)
  BY <1>1, RosterAssumption, FS_Product DEF Rows
<1>3. QED
  BY <1>2, FS_Subset, FS_CardinalityType DEF Live

(* The count refuses a sign-up, or lets it on with the limit it has read.   *)
LEMMA Judged ==
    ASSUME signup \in [Signups -> SignupType], NEW r \in Signups, Count(r)
    PROVE  /\ signup' \in [Signups -> SignupType]
           /\ \A t \in Signups \ {r} : signup'[t] = signup[t]
           /\ signup'[r].at \in {"first", "refused"}
           /\ signup'[r].first = signup[r].first /\ signup'[r].second = signup[r].second
           /\ signup'[r].at = "first" =>
                 Cardinality(Live) + (IF Pair(r) THEN 2 ELSE 1) <= signup'[r].limit
<1> DEFINE n == Cardinality(Live) + (IF Pair(r) THEN 2 ELSE 1)
<1>1. PICK limit \in 1..MaxLimit :
         signup' = [signup EXCEPT ![r] =
            IF n > limit
            THEN [@ EXCEPT !.at = "refused"]
            ELSE [@ EXCEPT !.at = "first", !.limit = limit]]
  BY DEF Count, Judge
<1>2. n \in Nat
  BY LiveCounted
<1> HIDE DEF n
<1>3. CASE n > limit
  <2>1. signup' = [signup EXCEPT ![r] = [signup[r] EXCEPT !.at = "refused"]]
    BY <1>1, <1>3
  <2>2. [signup[r] EXCEPT !.at = "refused"] \in SignupType
    BY DEF SignupType, Positions
  <2>3. QED
    BY <2>1, <2>2 DEF SignupType
<1>4. CASE ~(n > limit)
  <2>1. signup' = [signup EXCEPT ![r] = [signup[r] EXCEPT !.at = "first", !.limit = limit]]
    BY <1>1, <1>4
  <2>2. [signup[r] EXCEPT !.at = "first", !.limit = limit] \in SignupType
    <3>1. signup[r] \in SignupType /\ limit \in 0..MaxLimit
      BY RosterAssumption
    <3>2. QED
      BY <3>1 DEF SignupType, Positions
  <2>3. n <= limit
    BY <1>2, <1>4
  <2>4. /\ signup' \in [Signups -> SignupType]
        /\ \A t \in Signups \ {r} : signup'[t] = signup[t]
        /\ signup'[r] = [signup[r] EXCEPT !.at = "first", !.limit = limit]
    BY <2>1, <2>2
  <2>5. signup'[r].limit = limit
    BY <2>4 DEF SignupType
  <2>6. n <= signup'[r].limit
    BY <2>3, <2>5
  <2>7. QED
    BY <2>4, <2>6 DEF SignupType, n
<1>5. QED
  BY <1>3, <1>4

(* An agent is created under an address that is free.                       *)
LEMMA RowAdded ==
    ASSUME TablesTyped, References, Unique, NEW i \in Rows,
           NEW x \in Addresses \cup {NoAddress}, ~Taken(x),
           row' = [row EXCEPT ![i] = "live"], address' = [address EXCEPT ![i] = x],
           UNCHANGED <<child, keys>>
    PROVE  TablesTyped' /\ References' /\ Unique'
<1>1. TablesTyped'
  BY DEF TablesTyped
<1>2. References'
  BY DEF TablesTyped, References, Keys
<1>3. Unique'
  BY DEF TablesTyped, Unique, Taken, Live
<1>4. QED
  BY <1>1, <1>2, <1>3

(* The row of an agent goes when nothing refers to it.                      *)
LEMMA RowRemoved ==
    ASSUME TablesTyped, References, Unique, NEW i \in Rows, ~Referenced(i),
           row' = [row EXCEPT ![i] = "gone"], UNCHANGED <<address, child, keys>>
    PROVE  TablesTyped' /\ References' /\ Unique'
<1>1. TablesTyped'
  BY DEF TablesTyped
<1>2. References'
  <2>1. ASSUME NEW t \in Tables, NEW j \in child[t] PROVE row'[j] = "live"
    BY <2>1 DEF TablesTyped, References, Referenced
  <2>2. ASSUME NEW k \in keys PROVE row'[k.of] = "live"
    BY <2>2 DEF TablesTyped, References, Referenced, KeysOf, Keys
  <2>3. QED
    BY <2>1, <2>2 DEF References
<1>3. Unique'
  BY DEF TablesTyped, Unique
<1>4. QED
  BY <1>1, <1>2, <1>3

(* The tables as they are.                                                  *)
LEMMA TablesUntouched ==
    ASSUME TablesTyped, References, Unique, UNCHANGED tableVars
    PROVE  TablesTyped' /\ References' /\ Unique'
  BY DEF TablesTyped, References, Unique, tableVars

(* A key of agent i.                                                        *)
LEMMA KeyAdded ==
    ASSUME TablesTyped, References, Unique, NEW w \in Signups \cup Rotations, NEW i \in Rows,
           AddKey(w, i), UNCHANGED <<row, address, child>>
    PROVE  TablesTyped' /\ References' /\ Unique'
  BY DEF AddKey, TablesTyped, References, Unique, Keys

(* Some keys go.                                                            *)
LEMMA KeysRemoved ==
    ASSUME TablesTyped, References, Unique, keys' \subseteq keys, UNCHANGED <<row, address, child>>
    PROVE  TablesTyped' /\ References' /\ Unique'
  BY DEF TablesTyped, References, Unique

(* A row that refers to agent i.                                            *)
LEMMA ChildAdded ==
    ASSUME TablesTyped, References, Unique, NEW i \in Rows, row[i] = "live", NEW t \in Tables,
           child' = [child EXCEPT ![t] = @ \cup {i}], UNCHANGED <<row, address, keys>>
    PROVE  TablesTyped' /\ References' /\ Unique'
  BY DEF TablesTyped, References, Unique

(* TypeOK, made inductive: one step per statement of a handler.             *)
LEMMA GoodAlways == Spec => []Good
<1> USE RosterAssumption, RowsOfSignups
<1>1. Init => Good
  <2>1. Init => TypeOK /\ Aimed
    BY DEF Init, TypeOK, Keys, Aimed
  <2>2. QED
    BY <2>1, Parts DEF Good
<1>2. Good /\ [Next]_vars => Good'
  <2>1. SUFFICES ASSUME signup \in [Signups -> SignupType],
                        TablesTyped, RestTyped, References, Unique, Aimed, [Next]_vars
                 PROVE  Good'
    BY DEF Good
  <2>2. ASSUME NEW r \in Signups, NEW x \in Addresses,
               NEW y \in Addresses \cup {NoAddress}, Begin(r, x, y)
        PROVE  Good'
    <3>1. signup' \in [Signups -> SignupType]
      BY <2>1, <2>2 DEF Begin, SignupType, Positions
    <3>2. TablesTyped' /\ References' /\ Unique'
      BY <2>1, <2>2, TablesUntouched DEF Begin
    <3>3. RestTyped' /\ Aimed'
      BY <2>1, <2>2 DEF Begin, history, tableVars, RestTyped, TablesTyped, Aimed
    <3>4. QED
      BY <3>1, <3>2, <3>3 DEF Good
  <2>3. ASSUME NEW r \in Signups, Count(r)
        PROVE  Good'
    <3>1. signup' \in [Signups -> SignupType]
      BY <2>1, <2>3, Judged
    <3>2. TablesTyped' /\ References' /\ Unique'
      BY <2>1, <2>3, TablesUntouched DEF Count
    <3>3. RestTyped' /\ Aimed'
      BY <2>1, <2>3 DEF Count, history, tableVars, RestTyped, TablesTyped, Aimed
    <3>4. QED
      BY <3>1, <3>2, <3>3 DEF Good
  <2>4. ASSUME NEW r \in Signups, InsertFirst(r)
        PROVE  Good'
    <3>1. signup' \in [Signups -> SignupType]
      BY <2>1, <2>4, Walks DEF InsertFirst, AddRow, Positions
    <3>2. TablesTyped' /\ References' /\ Unique'
      BY <2>1, <2>4, RowAdded, TablesUntouched DEF InsertFirst, AddRow, SignupType
    <3>3. RestTyped' /\ Aimed'
      BY <2>1, <2>4 DEF InsertFirst, AddRow, history, tableVars, RestTyped, TablesTyped, Aimed
    <3>4. QED
      BY <3>1, <3>2, <3>3 DEF Good
  <2>5. ASSUME NEW r \in Signups, InsertSecond(r)
        PROVE  Good'
    <3>1. signup' \in [Signups -> SignupType]
      BY <2>1, <2>5, Walks DEF InsertSecond, AddRow, Positions
    <3>2. TablesTyped' /\ References' /\ Unique'
      BY <2>1, <2>5, RowAdded, TablesUntouched DEF InsertSecond, AddRow, SignupType
    <3>3. RestTyped' /\ Aimed'
      BY <2>1, <2>5 DEF InsertSecond, AddRow, history, tableVars, RestTyped, TablesTyped, Aimed
    <3>4. QED
      BY <3>1, <3>2, <3>3 DEF Good
  <2>6. ASSUME NEW r \in Signups, Undo(r)
        PROVE  Good'
    <3>1. signup' \in [Signups -> SignupType]
      BY <2>1, <2>6, Walks DEF Undo, Positions
    <3>2. TablesTyped' /\ References' /\ Unique'
      BY <2>1, <2>6, RowRemoved, TablesUntouched DEF Undo, tableVars
    <3>3. RestTyped' /\ Aimed'
      BY <2>1, <2>6 DEF Undo, history, RestTyped, TablesTyped, Aimed
    <3>4. QED
      BY <3>1, <3>2, <3>3 DEF Good
  <2>7. ASSUME NEW r \in Signups, NEW i \in Rows, NEW now,
               NEW next \in {"grant2", "key"}, Grant(r, i, now, next)
        PROVE  Good'
    <3>1. signup' \in [Signups -> SignupType]
      BY <2>1, <2>7, Walks DEF Grant, Positions
    <3>2. TablesTyped' /\ References' /\ Unique'
      BY <2>1, <2>7, ChildAdded, TablesUntouched DEF Grant, tableVars, Tables
    <3>3. RestTyped' /\ Aimed'
      BY <2>1, <2>7 DEF Grant, Touch, RestTyped, TablesTyped, Aimed
    <3>4. QED
      BY <3>1, <3>2, <3>3 DEF Good
  <2>8. ASSUME NEW r \in Signups, NEW i \in Rows, NEW now,
               NEW next \in {"key2", "done"}, FirstKey(r, i, now, next)
        PROVE  Good'
    <3>1. signup' \in [Signups -> SignupType]
      BY <2>1, <2>8, Walks DEF FirstKey, Positions
    <3>2. TablesTyped' /\ References' /\ Unique'
      BY <2>1, <2>8, KeyAdded, TablesUntouched DEF FirstKey, tableVars
    <3>3. RestTyped' /\ Aimed'
      BY <2>1, <2>8 DEF FirstKey, AddKey, Touch, RestTyped, TablesTyped, Aimed
    <3>4. QED
      BY <3>1, <3>2, <3>3 DEF Good
  <2>9. ASSUME NEW q \in Rotations, NEW i \in Rows, StartRotation(q, i)
        PROVE  Good'
    <3>1. signup' \in [Signups -> SignupType]
      BY <2>1, <2>9 DEF StartRotation
    <3>2. TablesTyped' /\ References' /\ Unique'
      BY <2>1, <2>9, TablesUntouched DEF StartRotation
    <3>3. RestTyped' /\ Aimed'
      <4>1. RestTyped'
        BY <2>1, <2>9 DEF StartRotation, KeysOf, RotationType, history, RestTyped, TablesTyped
      <4>2. Aimed'
        BY <2>1, <2>9 DEF StartRotation, tableVars, RestTyped, Aimed
      <4>3. QED
        BY <4>1, <4>2
    <3>4. QED
      BY <3>1, <3>2, <3>3 DEF Good
  <2>10. ASSUME NEW q \in Rotations, DropKeys(q)
        PROVE  Good'
    <3>1. signup' \in [Signups -> SignupType]
      BY <2>1, <2>10 DEF DropKeys
    <3>2. TablesTyped' /\ References' /\ Unique'
      BY <2>1, <2>10, KeysRemoved DEF DropKeys
    <3>3. RestTyped' /\ Aimed'
      BY <2>1, <2>10 DEF DropKeys, RotationType, history, RestTyped, TablesTyped, Aimed
    <3>4. QED
      BY <3>1, <3>2, <3>3 DEF Good
  <2>11. ASSUME NEW q \in Rotations, NewKey(q)
        PROVE  Good'
    <3>1. signup' \in [Signups -> SignupType]
      BY <2>1, <2>11 DEF NewKey
    <3>2. TablesTyped' /\ References' /\ Unique'
      BY <2>1, <2>11, KeyAdded, TablesUntouched DEF NewKey, tableVars, Aimed
    <3>3. RestTyped' /\ Aimed'
      <4>1. RestTyped'
        BY <2>1, <2>11 DEF NewKey, AddKey, Touch, RotationType, RestTyped, Aimed
      <4>2. Aimed'
        BY <2>1, <2>11 DEF NewKey, AddKey, RotationType, RestTyped, Aimed
      <4>3. QED
        BY <4>1, <4>2
    <3>4. QED
      BY <3>1, <3>2, <3>3 DEF Good
  <2>12. ASSUME NEW i \in Rows, StartDeletion(i)
        PROVE  Good'
    <3>1. signup' \in [Signups -> SignupType]
      BY <2>1, <2>12 DEF StartDeletion
    <3>2. TablesTyped' /\ References' /\ Unique'
      BY <2>1, <2>12, TablesUntouched DEF StartDeletion
    <3>3. RestTyped' /\ Aimed'
      BY <2>1, <2>12 DEF StartDeletion, history, tableVars, RestTyped, TablesTyped, Aimed
    <3>4. QED
      BY <3>1, <3>2, <3>3 DEF Good
  <2>13. ASSUME NEW i \in Rows, ClearTable(i)
        PROVE  Good'
    <3>1. signup' \in [Signups -> SignupType]
      BY <2>1, <2>13 DEF ClearTable
    <3>2. TablesTyped' /\ References' /\ Unique'
      BY <2>1, <2>13 DEF ClearTable, TablesTyped, References, Unique
    <3>3. RestTyped' /\ Aimed'
      BY <2>1, <2>13 DEF ClearTable, After, Tables, history, RestTyped, TablesTyped, Aimed
    <3>4. QED
      BY <3>1, <3>2, <3>3 DEF Good
  <2>14. ASSUME NEW i \in Rows, ClearKeys(i)
        PROVE  Good'
    <3>1. signup' \in [Signups -> SignupType]
      BY <2>1, <2>14 DEF ClearKeys
    <3>2. TablesTyped' /\ References' /\ Unique'
      BY <2>1, <2>14, KeysRemoved DEF ClearKeys
    <3>3. RestTyped' /\ Aimed'
      BY <2>1, <2>14 DEF ClearKeys, history, RestTyped, TablesTyped, Aimed
    <3>4. QED
      BY <3>1, <3>2, <3>3 DEF Good
  <2>15. ASSUME NEW i \in Rows, DeleteRow(i)
        PROVE  Good'
    <3>1. signup' \in [Signups -> SignupType]
      BY <2>1, <2>15 DEF DeleteRow
    <3>2. TablesTyped' /\ References' /\ Unique'
      BY <2>1, <2>15, RowRemoved, TablesUntouched DEF DeleteRow, tableVars
    <3>3. RestTyped' /\ Aimed'
      BY <2>1, <2>15 DEF DeleteRow, history, RestTyped, TablesTyped, Aimed
    <3>4. QED
      BY <3>1, <3>2, <3>3 DEF Good
  <2>16. ASSUME NEW i \in Rows, NEW t \in {"nonces", "messages"}, Traffic(i, t)
        PROVE  Good'
    <3>1. signup' \in [Signups -> SignupType]
      BY <2>1, <2>16 DEF Traffic
    <3>2. TablesTyped' /\ References' /\ Unique'
      BY <2>1, <2>16, ChildAdded DEF Traffic, Tables
    <3>3. RestTyped' /\ Aimed'
      BY <2>1, <2>16 DEF Traffic, Touch, RestTyped, TablesTyped, Aimed
    <3>4. QED
      BY <3>1, <3>2, <3>3 DEF Good
  <2>17. CASE UNCHANGED vars
    BY <2>1, <2>17 DEF Good, vars, TablesTyped, RestTyped, References, Unique, Aimed,
       tableVars, history
  <2>18. QED
    <3>1. \A r \in Signups : Handler(r) => Good'
      BY <2>3, <2>4, <2>5, <2>6, <2>7, <2>8 DEF Handler
    <3>2. QED
      BY <3>1, <2>1, <2>2, <2>9, <2>10, <2>11, <2>12, <2>13, <2>14, <2>15, <2>16, <2>17 DEF Next
<1>3. QED
  BY <1>1, <1>2, PTL DEF Spec

(* The state has its type in every reachable state.                         *)
THEOREM TypeCorrect == Spec => []TypeOK
<1>1. Good => TypeOK
  BY Parts DEF Good
<1>2. QED
  BY <1>1, GoodAlways, PTL

(* What a move of one sign-up leaves of the others and of itself.           *)
LEMMA OneWalks ==
    ASSUME signup \in [Signups -> SignupType], NEW r \in Signups, NEW p,
           Goto(r, p) \/ Leave(r, p)
    PROVE  /\ \A t \in Signups \ {r} : signup'[t] = signup[t]
           /\ signup'[r].at = p
           /\ signup'[r].first = signup[r].first /\ signup'[r].second = signup[r].second
           /\ Goto(r, p) => signup'[r].limit = signup[r].limit
  BY DEF Goto, Leave, SignupType

(* What happens to the rows of one sign-up while it stays where it is.      *)
Stays(t) ==
    /\ signup'[t] = signup[t]
    /\ \/ row'[<<t, 1>>] = row[<<t, 1>>]
       \/ row[<<t, 1>>] = "live" /\ row'[<<t, 1>>] = "gone"
    /\ \/ row'[<<t, 2>>] = row[<<t, 2>>]
       \/ row[<<t, 2>>] = "live" /\ row'[<<t, 2>>] = "gone"

(* How the request of a sign-up moves on, and what that does to its rows.   *)
RowsKept(r) == row'[<<r, 1>>] = row[<<r, 1>>] /\ row'[<<r, 2>>] = row[<<r, 2>>]

Advances(r) ==
    \/ signup[r].at = "new" /\ signup'[r].at = "count" /\ RowsKept(r)
    \/ /\ Pair(r)' = Pair(r)
       /\ \/ /\ RowsKept(r)
             /\ \/ signup[r].at = "count" /\ signup'[r].at \in {"first", "refused"}
                \/ signup[r].at = "first" /\ signup'[r].at = "refused"
                \/ signup[r].at = "second" /\ signup'[r].at = "undo"
                \/ signup[r].at = "grant" /\ Pair(r) /\ signup'[r].at = "grant2"
                \/ signup[r].at = "grant" /\ ~Pair(r) /\ signup'[r].at = "key"
                \/ signup[r].at = "grant2" /\ signup'[r].at = "key"
                \/ signup[r].at = "key" /\ Pair(r) /\ signup'[r].at = "key2"
                \/ signup[r].at = "key" /\ ~Pair(r) /\ signup'[r].at = "done"
                \/ signup[r].at = "key2" /\ signup'[r].at = "done"
                \/ /\ signup[r].at \in {"undo", "grant", "grant2", "key", "key2"}
                   /\ signup'[r].at = "error"
          \/ /\ signup[r].at = "first" /\ row'[<<r, 1>>] = "live"
             /\ row'[<<r, 2>>] = row[<<r, 2>>]
             /\ signup'[r].at = IF Pair(r) THEN "second" ELSE "grant"
          \/ /\ signup[r].at = "second" /\ row'[<<r, 2>>] = "live"
             /\ row'[<<r, 1>>] = row[<<r, 1>>] /\ signup'[r].at = "grant"
          \/ /\ signup[r].at = "undo" /\ row'[<<r, 1>>] = "gone"
             /\ row'[<<r, 2>>] = row[<<r, 2>>] /\ signup'[r].at = "refused"

Moves(r) == Advances(r) /\ \A t \in Signups \ {r} : Stays(t)

(* At most one sign-up moves in a step, and only its own rows are inserted. *)
LEMMA SignupSteps ==
    ASSUME Good, [Next]_vars
    PROVE  (\A t \in Signups : Stays(t)) \/ \E r \in Signups : Moves(r)
<1> USE RowsOfSignups
<1>1. signup \in [Signups -> SignupType] /\ row \in [Rows -> {"none", "live", "gone"}]
  BY DEF Good, TablesTyped
<1>2. ASSUME NEW r \in Signups, NEW x \in Addresses, NEW y \in Addresses \cup {NoAddress},
             Begin(r, x, y)
      PROVE  Moves(r)
  BY <1>1, <1>2 DEF Begin, tableVars, SignupType, Moves, Advances, RowsKept, Stays
<1>3. ASSUME NEW r \in Signups, Count(r)
      PROVE  Moves(r)
  BY <1>1, <1>3, Judged DEF Count, tableVars, Moves, Advances, RowsKept, Stays, Pair
<1>4. ASSUME NEW r \in Signups, InsertFirst(r)
      PROVE  Moves(r)
  <2>1. ASSUME NEW t \in Signups \ {r}
        PROVE <<t, 1>> # <<r, 1>> /\ <<t, 2>> # <<r, 1>>
    OBVIOUS
  <2>2. CASE AddRow(r, <<r, 1>>, signup[r].first, IF Pair(r) THEN "second" ELSE "grant")
    BY <1>1, <1>4, <2>1, <2>2, OneWalks DEF InsertFirst, AddRow, Moves, Advances, Stays, Pair
  <2>3. CASE Leave(r, "refused") /\ UNCHANGED row
    BY <1>1, <1>4, <2>3, OneWalks DEF InsertFirst, Moves, Advances, RowsKept, Stays, Pair
  <2>4. QED
    BY <1>4, <2>2, <2>3 DEF InsertFirst, tableVars
<1>5. ASSUME NEW r \in Signups, InsertSecond(r)
      PROVE  Moves(r)
  <2>1. ASSUME NEW t \in Signups \ {r}
        PROVE <<t, 1>> # <<r, 2>> /\ <<t, 2>> # <<r, 2>>
    OBVIOUS
  <2>2. CASE AddRow(r, <<r, 2>>, signup[r].second, "grant")
    BY <1>1, <1>5, <2>1, <2>2, OneWalks DEF InsertSecond, AddRow, Moves, Advances, Stays, Pair
  <2>3. CASE Leave(r, "undo") /\ UNCHANGED row
    BY <1>1, <1>5, <2>3, OneWalks DEF InsertSecond, Moves, Advances, RowsKept, Stays, Pair
  <2>4. QED
    BY <1>5, <2>2, <2>3 DEF InsertSecond, tableVars
<1>6. ASSUME NEW r \in Signups, Undo(r)
      PROVE  Moves(r)
  <2>1. ASSUME NEW t \in Signups \ {r}
        PROVE <<t, 1>> # <<r, 1>> /\ <<t, 2>> # <<r, 1>>
    OBVIOUS
  <2>2. CASE Goto(r, "refused") /\ row' = [row EXCEPT ![<<r, 1>>] = "gone"]
    BY <1>1, <1>6, <2>1, <2>2, OneWalks DEF Undo, Moves, Advances, Stays, Pair
  <2>3. CASE Goto(r, "error") /\ UNCHANGED row
    BY <1>1, <1>6, <2>3, OneWalks DEF Undo, Moves, Advances, RowsKept, Stays, Pair
  <2>4. QED
    BY <1>6, <2>2, <2>3 DEF Undo
<1>7. ASSUME NEW r \in Signups, NEW i, Grant(r, i, "grant", IF Pair(r) THEN "grant2" ELSE "key")
      PROVE  Moves(r)
  BY <1>1, <1>7, OneWalks DEF Grant, Moves, Advances, RowsKept, Stays, Pair
<1>8. ASSUME NEW r \in Signups, NEW i, Grant(r, i, "grant2", "key")
      PROVE  Moves(r)
  BY <1>1, <1>8, OneWalks DEF Grant, Moves, Advances, RowsKept, Stays, Pair
<1>9. ASSUME NEW r \in Signups, NEW i,
             FirstKey(r, i, "key", IF Pair(r) THEN "key2" ELSE "done")
      PROVE  Moves(r)
  BY <1>1, <1>9, OneWalks DEF FirstKey, Moves, Advances, RowsKept, Stays, Pair
<1>10. ASSUME NEW r \in Signups, NEW i, FirstKey(r, i, "key2", "done")
      PROVE  Moves(r)
  BY <1>1, <1>10, OneWalks DEF FirstKey, Moves, Advances, RowsKept, Stays, Pair
<1>11. ASSUME NEW q, NEW i, StartRotation(q, i) \/ DropKeys(q) \/ NewKey(q)
       PROVE  \A t \in Signups : Stays(t)
  BY <1>11 DEF StartRotation, DropKeys, NewKey, tableVars, Stays
<1>12. ASSUME NEW i, NEW t, StartDeletion(i) \/ ClearTable(i) \/ ClearKeys(i) \/ Traffic(i, t)
       PROVE  \A u \in Signups : Stays(u)
  BY <1>12 DEF StartDeletion, ClearTable, ClearKeys, Traffic, tableVars, Stays
<1>13. ASSUME NEW i \in Rows, DeleteRow(i)
       PROVE  \A t \in Signups : Stays(t)
  <2>1. row[i] \in {"live", "gone"}
    BY <1>1, <1>13 DEF DeleteRow, Good, Aimed
  <2>2. QED
    BY <1>1, <1>13, <2>1 DEF DeleteRow, Stays
<1>14. CASE UNCHANGED vars
  BY <1>14 DEF vars, tableVars, Stays
<1>15. QED
  <2>1. ASSUME NEW r \in Signups, Handler(r) PROVE Moves(r)
    BY <2>1, <1>3, <1>4, <1>5, <1>6, <1>7, <1>8, <1>9, <1>10 DEF Handler
  <2>2. QED
    BY <2>1, <1>2, <1>11, <1>12, <1>13, <1>14 DEF Next

(* Place and the rows stay in step, whoever deletes what.                   *)
LEMMA Kept == ASSUME NEW t, Place(t), Stays(t) PROVE Place(t)'
  BY DEF Stays, Place, Pair

(* Which rows there are where a sign-up is, in every reachable state.       *)
LEMMA PlacedAlways == Spec => []Placed
<1>1. Init => Placed
  <2>1. SUFFICES ASSUME Init, NEW r \in Signups PROVE Place(r)
    BY DEF Placed
  <2>2. row[<<r, 1>>] = "none" /\ row[<<r, 2>>] = "none"
    BY <2>1, RowsOfSignups DEF Init
  <2>3. signup[r].at = "new" /\ ~Pair(r)
    BY <2>1 DEF Init, Pair
  <2>4. QED
    BY <2>2, <2>3 DEF Place
<1>2. Good /\ Placed /\ [Next]_vars => Placed'
  <2>1. SUFFICES ASSUME Good, Placed, [Next]_vars, NEW t \in Signups
                 PROVE  Place(t)'
    BY DEF Placed
  <2>2. CASE Stays(t)
    BY <2>1, <2>2, Kept DEF Placed
  <2>3. CASE Advances(t)
    BY <2>1, <2>3 DEF Placed, Place, Advances, RowsKept
  <2>4. QED
    BY <2>1, <2>2, <2>3, SignupSteps DEF Moves
<1>3. QED
  BY <1>1, <1>2, GoodAlways, PTL DEF Spec

-----------------------------------------------------------------------------
(* A count stays good while the owner has no more agents than before.       *)
LEMMA FitKept ==
    ASSUME Good, NEW t \in Signups, Fit(t), signup'[t] = signup[t],
           Cardinality(Live') \in Nat, Cardinality(Live') <= Cardinality(Live)
    PROVE  Fit(t)'
<1>1. signup[t].limit \in Nat
  BY RosterAssumption DEF Good, SignupType
<1>2. Cardinality(Live) \in Nat
  BY LiveCounted
<1>3. QED
  BY <1>1, <1>2 DEF Fit, Pair

(* What the insert of one sign-up does to the count of the others: none     *)
(* that is still to insert relies on it.                                    *)
LEMMA Inserted ==
    ASSUME Good, Fits, over = {}, NEW r \in Signups, NEW i \in Rows, row[i] = "none", NEW x,
           NEW next, AddRow(r, i, x, next),
           \/ signup[r].at = "first" /\ next = IF Pair(r) THEN "second" ELSE "grant"
           \/ signup[r].at = "second" /\ next = "grant"
    PROVE  Fits' /\ over' = {}
<1>1. signup \in [Signups -> SignupType] /\ row \in [Rows -> {"none", "live", "gone"}]
  BY DEF Good, TablesTyped
<1>2. Cardinality(Live) \in Nat /\ signup[r].limit \in Nat
  BY <1>1, LiveCounted, RosterAssumption DEF SignupType
<1>3. Cardinality(Live') = Cardinality(Live) + 1
  <2>1. i \notin Live /\ Live' = Live \cup {i}
    BY <1>1 DEF Live, AddRow
  <2>2. QED
    BY <2>1, LiveCounted, FS_AddElement
<1>4. over' = {}
  BY <1>2 DEF AddRow, Fits, Fit
<1>5. ASSUME NEW t \in Signups \ crowded' PROVE Fit(t)'
  <2>1. CASE t = r
    <3>1. CASE next = "second"
      <4>1. r \notin crowded
        BY <1>5, <2>1, <3>1 DEF AddRow
      <4>2. Cardinality(Live) + 2 <= signup[r].limit
        BY <3>1, <4>1 DEF Fits, Fit
      <4>3. signup'[r].at = "second" /\ signup'[r].limit = signup[r].limit
        BY <1>1, <3>1, OneWalks DEF AddRow
      <4>4. QED
        BY <1>2, <1>3, <2>1, <4>2, <4>3 DEF Fit
    <3>2. CASE next = "grant"
      BY <1>1, <2>1, <3>2, OneWalks DEF AddRow, Fit
    <3>3. QED
      BY <3>1, <3>2
  <2>2. CASE t # r
    BY <1>1, <1>5, <2>2, OneWalks DEF AddRow, Fit
  <2>3. QED
    BY <2>1, <2>2
<1>6. QED
  BY <1>4, <1>5 DEF Fits

(* No insert takes the owner over the limit its sign-up read, unless the    *)
(* insert of another came in between (create_agent's count, then INSERTs).  *)
THEOREM LimitHolds == Spec => []LimitOnlyInARace
<1> DEFINE Limited == Fits /\ over = {}
<1>1. Init => Limited
  BY DEF Init, Fits, Fit
<1>2. Good /\ Placed /\ Limited /\ [Next]_vars => Limited'
  <2>1. SUFFICES ASSUME Good, Placed, Fits, over = {}, [Next]_vars
                 PROVE  Fits' /\ over' = {}
    OBVIOUS
  <2>2. signup \in [Signups -> SignupType] /\ row \in [Rows -> {"none", "live", "gone"}]
    BY <2>1 DEF Good, TablesTyped
  <2>3. ASSUME crowded' = crowded, over' = over, Live' \subseteq Live,
               NEW r \in Signups, Fit(r)', \A t \in Signups \ {r} : signup'[t] = signup[t]
        PROVE  Fits' /\ over' = {}
    <3>1. Cardinality(Live') \in Nat /\ Cardinality(Live') <= Cardinality(Live)
      BY <2>3, LiveCounted, FS_Subset, FS_CardinalityType
    <3>2. QED
      BY <2>1, <2>3, <3>1, FitKept DEF Fits
  <2>4. ASSUME crowded' = crowded, over' = over, Live' \subseteq Live, signup' = signup
        PROVE  Fits' /\ over' = {}
    <3>1. Cardinality(Live') \in Nat /\ Cardinality(Live') <= Cardinality(Live)
      BY <2>4, LiveCounted, FS_Subset, FS_CardinalityType
    <3>2. QED
      BY <2>1, <2>4, <3>1, FitKept DEF Fits
  <2>5. ASSUME NEW r \in Signups, NEW x \in Addresses, NEW y \in Addresses \cup {NoAddress},
               Begin(r, x, y)
        PROVE  Fits' /\ over' = {}
    BY <2>1, <2>2, <2>3, <2>5 DEF Begin, history, tableVars, Live, Fit, SignupType
  <2>6. ASSUME NEW r \in Signups, Count(r)
        PROVE  Fits' /\ over' = {}
    <3>1. Live' = Live /\ crowded' = crowded /\ over' = over
      BY <2>6 DEF Count, history, tableVars, Live
    <3>2. Fit(r)'
      BY <2>2, <2>6, <3>1, Judged DEF Fit, Pair
    <3>3. QED
      BY <2>2, <2>3, <2>6, <3>1, <3>2, Judged
  <2>7. ASSUME NEW r \in Signups, InsertFirst(r)
        PROVE  Fits' /\ over' = {}
    <3>1. CASE AddRow(r, <<r, 1>>, signup[r].first, IF Pair(r) THEN "second" ELSE "grant")
      <4>1. <<r, 1>> \in Rows /\ row[<<r, 1>>] = "none" /\ signup[r].at = "first"
        BY <2>1, <2>7, RowsOfSignups DEF InsertFirst, Placed, Place
      <4>2. QED
        BY <2>1, <3>1, <4>1, Inserted
    <3>2. CASE Leave(r, "refused") /\ UNCHANGED <<row, crowded, over>>
      <4>1. signup'[r].at = "refused" /\ \A t \in Signups \ {r} : signup'[t] = signup[t]
        BY <2>2, <3>2, OneWalks
      <4>2. Fit(r)' /\ Live' = Live
        BY <3>2, <4>1 DEF Fit, Live
      <4>3. QED
        BY <2>3, <3>2, <4>1, <4>2
    <3>3. QED
      BY <2>7, <3>1, <3>2 DEF InsertFirst, history, tableVars
  <2>8. ASSUME NEW r \in Signups, InsertSecond(r)
        PROVE  Fits' /\ over' = {}
    <3>1. CASE AddRow(r, <<r, 2>>, signup[r].second, "grant")
      <4>1. <<r, 2>> \in Rows /\ row[<<r, 2>>] = "none" /\ signup[r].at = "second"
        BY <2>1, <2>8, RowsOfSignups DEF InsertSecond, Placed, Place
      <4>2. QED
        BY <2>1, <3>1, <4>1, Inserted
    <3>2. CASE Leave(r, "undo") /\ UNCHANGED <<row, crowded, over>>
      <4>1. signup'[r].at = "undo" /\ \A t \in Signups \ {r} : signup'[t] = signup[t]
        BY <2>2, <3>2, OneWalks
      <4>2. Fit(r)' /\ Live' = Live
        BY <3>2, <4>1 DEF Fit, Live
      <4>3. QED
        BY <2>3, <3>2, <4>1, <4>2
    <3>3. QED
      BY <2>8, <3>1, <3>2 DEF InsertSecond, history, tableVars
  <2>9. ASSUME NEW r \in Signups, Undo(r)
        PROVE  Fits' /\ over' = {}
    <3>1. crowded' = crowded /\ over' = over /\ Live' \subseteq Live
      BY <2>2, <2>9 DEF Undo, history, Live
    <3>2. QED
      BY <2>2, <2>3, <2>9, <3>1, OneWalks DEF Undo, Fit
  <2>10. ASSUME NEW r \in Signups, NEW i, NEW now, NEW next \in {"grant2", "key"},
                Grant(r, i, now, next)
         PROVE  Fits' /\ over' = {}
    <3>1. signup'[r].at \in {next, "error"} /\ \A t \in Signups \ {r} : signup'[t] = signup[t]
      BY <2>2, <2>10, OneWalks DEF Grant
    <3>2. Fit(r)' /\ Live' = Live /\ crowded' = crowded /\ over' = over
      BY <2>10, <3>1 DEF Grant, Fit, Live
    <3>3. QED
      BY <2>3, <3>1, <3>2
  <2>11. ASSUME NEW r \in Signups, NEW i, NEW now, NEW next \in {"key2", "done"},
                FirstKey(r, i, now, next)
         PROVE  Fits' /\ over' = {}
    <3>1. signup'[r].at \in {next, "error"} /\ \A t \in Signups \ {r} : signup'[t] = signup[t]
      BY <2>2, <2>11, OneWalks DEF FirstKey
    <3>2. Fit(r)' /\ Live' = Live /\ crowded' = crowded /\ over' = over
      BY <2>11, <3>1 DEF FirstKey, Fit, Live
    <3>3. QED
      BY <2>3, <3>1, <3>2
  <2>12. ASSUME NEW q, NEW i, StartRotation(q, i) \/ DropKeys(q) \/ NewKey(q)
         PROVE  Fits' /\ over' = {}
    BY <2>4, <2>12 DEF StartRotation, DropKeys, NewKey, history, tableVars, Live
  <2>13. ASSUME NEW i, NEW t, StartDeletion(i) \/ ClearTable(i) \/ ClearKeys(i) \/ Traffic(i, t)
         PROVE  Fits' /\ over' = {}
    BY <2>4, <2>13 DEF StartDeletion, ClearTable, ClearKeys, Traffic, history, tableVars, Live
  <2>14. ASSUME NEW i \in Rows, DeleteRow(i)
         PROVE  Fits' /\ over' = {}
    BY <2>2, <2>4, <2>14 DEF DeleteRow, history, Live
  <2>15. CASE UNCHANGED vars
    BY <2>4, <2>15 DEF vars, history, tableVars, Live
  <2>16. QED
    <3>1. ASSUME NEW r \in Signups, Handler(r) PROVE Fits' /\ over' = {}
      BY <3>1, <2>6, <2>7, <2>8, <2>9, <2>10, <2>11 DEF Handler
    <3>2. QED
      BY <3>1, <2>1, <2>5, <2>12, <2>13, <2>14, <2>15 DEF Next
<1>3. Limited => LimitOnlyInARace
  BY DEF LimitOnlyInARace
<1>4. QED
  BY <1>1, <1>2, <1>3, GoodAlways, PlacedAlways, PTL DEF Spec

-----------------------------------------------------------------------------
(* What is empty stays empty while nothing is added for the agent.          *)
EmptyKept(j) ==
    /\ deletion'[j] = deletion[j]
    /\ \A t \in Tables : j \in child'[t] => j \in child[t]
    /\ KeysOf(j)' \subseteq KeysOf(j)

(* What is added for an agent under deletion touches it.                    *)
TouchedFirst(j) ==
    /\ deletion'[j] = deletion[j]
    /\ j \in touched' \/ ~Deleting(j)

(* The two keep what a deletion has emptied.                                *)
LEMMA EmptyStays ==
    ASSUME Emptied, DeletedWholeUnlessTouched, touched \subseteq touched',
           \A j \in Rows : EmptyKept(j) \/ TouchedFirst(j)
    PROVE  Emptied' /\ DeletedWholeUnlessTouched'
<1>1. ASSUME NEW j \in Rows \ touched' PROVE Empty(j)'
  <2>1. CASE EmptyKept(j)
    BY <1>1, <2>1 DEF Emptied, Empty, EmptyKept, Tables
  <2>2. CASE TouchedFirst(j)
    BY <1>1, <2>2 DEF TouchedFirst, Deleting, Empty
  <2>3. QED
    BY <2>1, <2>2
<1>2. \A j \in Rows : deletion'[j] = deletion[j]
  BY DEF EmptyKept, TouchedFirst
<1>3. QED
  BY <1>1, <1>2 DEF Emptied, DeletedWholeUnlessTouched

(* The operator's DELETEs break off half-way only when a row was added for  *)
(* the agent while they ran (admin_delete_agent, admin_bulk_action).        *)
THEOREM DeletionWhole == Spec => []DeletedWholeUnlessTouched
<1> DEFINE Whole == Emptied /\ DeletedWholeUnlessTouched
<1>1. Init => Whole
  BY DEF Init, Emptied, Empty, DeletedWholeUnlessTouched
<1>2. Good /\ Whole /\ [Next]_vars => Whole'
  <2>1. SUFFICES ASSUME Good, Emptied, DeletedWholeUnlessTouched, [Next]_vars
                 PROVE  Emptied' /\ DeletedWholeUnlessTouched'
    OBVIOUS
  <2>2. /\ deletion \in [Rows -> {"idle", "nonces", "messages", "credits", "keys", "row", "done",
                                  "broken"}]
        /\ child \in [Tables -> SUBSET Rows]
    BY <2>1 DEF Good, RestTyped, TablesTyped
  <2>3. ASSUME UNCHANGED <<child, keys, deletion, touched>>
        PROVE  Emptied' /\ DeletedWholeUnlessTouched'
    BY <2>1, <2>3 DEF Emptied, Empty, KeysOf, DeletedWholeUnlessTouched
  <2>4. ASSUME NEW r \in Signups, NEW i \in Rows, NEW now, NEW next, Grant(r, i, now, next)
        PROVE  Emptied' /\ DeletedWholeUnlessTouched'
    <3>1. touched \subseteq touched' /\ \A j \in Rows : EmptyKept(j) \/ TouchedFirst(j)
      BY <2>2, <2>4 DEF Grant, Touch, Tables, EmptyKept, TouchedFirst, KeysOf
    <3>2. QED
      BY <2>1, <3>1, EmptyStays
  <2>5. ASSUME NEW i \in Rows, NEW t \in {"nonces", "messages"}, Traffic(i, t)
        PROVE  Emptied' /\ DeletedWholeUnlessTouched'
    <3>1. touched \subseteq touched' /\ \A j \in Rows : EmptyKept(j) \/ TouchedFirst(j)
      BY <2>2, <2>5 DEF Traffic, Touch, Tables, EmptyKept, TouchedFirst, KeysOf
    <3>2. QED
      BY <2>1, <3>1, EmptyStays
  <2>6. ASSUME NEW w, NEW i, AddKey(w, i), UNCHANGED <<child, deletion>>
        PROVE  Emptied' /\ DeletedWholeUnlessTouched'
    <3>1. touched \subseteq touched' /\ \A j \in Rows : EmptyKept(j) \/ TouchedFirst(j)
      BY <2>6 DEF AddKey, Touch, EmptyKept, TouchedFirst, KeysOf
    <3>2. QED
      BY <2>1, <3>1, EmptyStays
  <2>7. ASSUME NEW r, NEW i, NEW now, NEW next, FirstKey(r, i, now, next)
        PROVE  Emptied' /\ DeletedWholeUnlessTouched'
    BY <2>3, <2>6, <2>7 DEF FirstKey
  <2>8. ASSUME NEW q, NewKey(q)
        PROVE  Emptied' /\ DeletedWholeUnlessTouched'
    BY <2>3, <2>6, <2>8 DEF NewKey
  <2>9. ASSUME NEW q, DropKeys(q)
        PROVE  Emptied' /\ DeletedWholeUnlessTouched'
    <3>1. touched \subseteq touched' /\ \A j \in Rows : EmptyKept(j)
      BY <2>9 DEF DropKeys, history, EmptyKept, KeysOf
    <3>2. QED
      BY <2>1, <3>1, EmptyStays
  <2>10. ASSUME NEW i \in Rows, StartDeletion(i) \/ ClearTable(i) \/ ClearKeys(i) \/ DeleteRow(i)
         PROVE  Emptied' /\ DeletedWholeUnlessTouched'
    <3>1. touched' = touched /\ \A j \in Rows \ {i} : EmptyKept(j)
      BY <2>2, <2>10 DEF StartDeletion, ClearTable, ClearKeys, DeleteRow, history,
                        tableVars, KeysOf, EmptyKept, Tables
    <3>2. i \notin touched => Empty(i)' /\ deletion'[i] # "broken"
      <4>1. SUFFICES ASSUME i \notin touched, Empty(i) PROVE Empty(i)' /\ deletion'[i] # "broken"
        BY <2>1 DEF Emptied
      <4>2. CASE StartDeletion(i)
        BY <2>2, <4>2 DEF StartDeletion, Empty
      <4>3. CASE ClearTable(i)
        BY <2>2, <4>1, <4>3 DEF ClearTable, After, Tables, Empty
      <4>4. CASE ClearKeys(i)
        BY <2>2, <4>1, <4>4 DEF ClearKeys, KeysOf, Empty
      <4>5. CASE DeleteRow(i)
        BY <2>2, <4>1, <4>5 DEF DeleteRow, Referenced, Tables, Empty
      <4>6. QED
        BY <2>10, <4>2, <4>3, <4>4, <4>5
    <3>3. ASSUME NEW j \in Rows \ touched, j # i PROVE Empty(j)' /\ deletion'[j] # "broken"
      BY <2>1, <3>1, <3>3 DEF Emptied, Empty, EmptyKept, Tables, DeletedWholeUnlessTouched
    <3>4. QED
      BY <3>1, <3>2, <3>3 DEF Emptied, DeletedWholeUnlessTouched
  <2>11. QED
    <3>1. ASSUME NEW r \in Signups, Handler(r) PROVE Emptied' /\ DeletedWholeUnlessTouched'
      <4>1. CASE Count(r) \/ InsertFirst(r) \/ InsertSecond(r) \/ Undo(r)
        BY <2>3, <4>1 DEF Count, InsertFirst, InsertSecond, AddRow, Undo, history, tableVars
      <4>2. QED
        BY <2>4, <2>7, <3>1, <4>1, RowsOfSignups DEF Handler
    <3>2. CASE UNCHANGED vars
      BY <2>3, <3>2 DEF vars, history, tableVars
    <3>3. ASSUME NEW r, NEW x, NEW y, Begin(r, x, y) PROVE Emptied' /\ DeletedWholeUnlessTouched'
      BY <2>3, <3>3 DEF Begin, history, tableVars
    <3>4. ASSUME NEW q, NEW i, StartRotation(q, i) PROVE Emptied' /\ DeletedWholeUnlessTouched'
      BY <2>3, <3>4 DEF StartRotation, history, tableVars
    <3>5. QED
      BY <2>1, <2>5, <2>8, <2>9, <2>10, <3>1, <3>2, <3>3, <3>4 DEF Next
<1>3. QED
  BY <1>1, <1>2, GoodAlways, PTL DEF Spec

-----------------------------------------------------------------------------
(* An agent for which a sign-up begins to have a key to insert is new.      *)
LEMMA MakingGrows ==
    ASSUME Good, Placed, [Next]_vars, NEW t \in Signups, NEW j \in Rows,
           t \in Making(j)', t \notin Making(j)
    PROVE  row[j] = "none"
<1>1. t \notin Rotations
  BY RosterAssumption
<1>2. CASE Stays(t)
  BY <1>1, <1>2 DEF Stays, Making, Pair
<1>3. CASE Advances(t)
  <2>1. CASE j = <<t, 1>>
    <3>1. signup[t].at = "first"
      BY <1>1, <1>3, <2>1, RowsOfSignups DEF Advances, Making
    <3>2. QED
      BY <2>1, <3>1 DEF Placed, Place
  <2>2. CASE j = <<t, 2>>
    <3>1. signup[t].at = "second"
      BY <1>1, <1>3, <2>2, RowsOfSignups DEF Advances, Making, Placed, Place
    <3>2. QED
      BY <2>2, <3>1 DEF Placed, Place
  <2>3. QED
    BY <1>1, <2>1, <2>2 DEF Making
<1>4. QED
  BY <1>2, <1>3, SignupSteps DEF Moves

(* A key goes to an agent, and the request that inserts it is done with it. *)
LEMMA KeyedByOne ==
    ASSUME Good, Entangled, OneKeyUnlessTangled, NEW w, NEW i \in Rows, w \in Making(i), AddKey(w, i),
           w \notin Making(i)', \A j \in Rows : Making(j)' \subseteq Making(j)
    PROVE  Entangled' /\ OneKeyUnlessTangled'
<1>1. tangled \subseteq tangled' /\ (Making(i) \ {w} # {} => i \in tangled')
  BY DEF AddKey
<1>2. \A j \in Rows \ {i} : KeysOf(j)' = KeysOf(j)
  BY DEF AddKey, KeysOf
<1>3. ASSUME NEW j \in Rows, KeysOf(j)' # {}, Making(j)' # {} PROVE j \in tangled'
  <2>1. CASE j = i
    <3>1. Making(i) \ {w} # {}
      BY <1>3, <2>1
    <3>2. QED
      BY <1>1, <2>1, <3>1
  <2>2. CASE j # i
    <3>1. KeysOf(j) # {} /\ Making(j) # {}
      BY <1>2, <1>3, <2>2
    <3>2. QED
      BY <1>1, <3>1 DEF Entangled
  <2>3. QED
    BY <2>1, <2>2
<1>4. ASSUME NEW k \in keys', NEW l \in keys', k # l, k.of = l.of PROVE k.of \in tangled'
  <2>1. CASE k \in keys /\ l \in keys
    BY <1>1, <1>4, <2>1 DEF OneKeyUnlessTangled
  <2>2. CASE k \notin keys \/ l \notin keys
    <3>1. k.of = i /\ KeysOf(i) # {}
      BY <1>4, <2>2 DEF AddKey, KeysOf
    <3>2. QED
      BY <1>1, <3>1 DEF Entangled
  <2>3. QED
    BY <2>1, <2>2
<1>5. QED
  BY <1>3, <1>4 DEF Entangled, OneKeyUnlessTangled

(* An agent gets a second key only when two requests crossed (create_agent, *)
(* the rotate handlers: the DELETE and the INSERT are separate statements). *)
THEOREM OneKeyHolds == Spec => []OneKeyUnlessTangled
<1> DEFINE Single == Entangled /\ OneKeyUnlessTangled
<1>1. Init => Single
  BY DEF Init, Entangled, KeysOf, OneKeyUnlessTangled
<1>2. Good /\ Placed /\ Single /\ [Next]_vars => Single'
  <2>1. SUFFICES ASSUME Good, Placed, Entangled, OneKeyUnlessTangled, [Next]_vars
                 PROVE  Entangled' /\ OneKeyUnlessTangled'
    OBVIOUS
  <2>2. /\ signup \in [Signups -> SignupType] /\ rotation \in [Rotations -> RotationType]
        /\ Signups \cap Rotations = {}
        /\ \A i \in Rows : row[i] = "none" => KeysOf(i) = {}
    BY <2>1, RosterAssumption DEF Good, RestTyped, References, KeysOf
  <2>3. ASSUME keys' \subseteq keys, tangled' = tangled,
               \A i \in Rows, q \in Rotations :
                  KeysOf(i)' # {} /\ q \in Making(i)' => q \in Making(i)
        PROVE  Entangled' /\ OneKeyUnlessTangled'
    <3>1. ASSUME NEW i \in Rows, KeysOf(i)' # {}, NEW w \in Making(i)' PROVE i \in tangled'
      <4>1. w \in Signups \/ w \in Rotations
        BY <3>1 DEF Making
      <4>2. KeysOf(i) # {} /\ row[i] # "none"
        BY <2>2, <2>3, <3>1 DEF KeysOf
      <4>3. w \in Making(i)
        BY <2>1, <2>3, <3>1, <4>1, <4>2, MakingGrows
      <4>4. QED
        BY <2>1, <2>3, <4>2, <4>3 DEF Entangled
    <3>2. QED
      BY <2>1, <2>3, <3>1 DEF Entangled, OneKeyUnlessTangled
  <2>4. ASSUME UNCHANGED <<keys, tangled, rotation>>
        PROVE  Entangled' /\ OneKeyUnlessTangled'
    BY <2>2, <2>3, <2>4 DEF Making
  <2>5. ASSUME NEW r \in Signups, NEW i \in Rows, NEW now, NEW next,
               FirstKey(r, i, now, next),
               \/ i = <<r, 1>> /\ now = "key" /\ next = IF Pair(r) THEN "key2" ELSE "done"
               \/ i = <<r, 2>> /\ now = "key2" /\ next = "done"
        PROVE  Entangled' /\ OneKeyUnlessTangled'
    <3>1. CASE AddKey(r, i) /\ Goto(r, next)
      <4>1. r \in Making(i)
        BY <2>1, <2>5 DEF FirstKey, Making, Placed, Place
      <4>2. signup'[r].at = next /\ \A t \in Signups \ {r} : signup'[t] = signup[t]
        BY <2>2, <3>1, OneWalks
      <4>3. r \notin Making(i)'
        BY <2>2, <2>5, <4>2, RowsOfSignups DEF Making
      <4>4. \A j \in Rows : Making(j)' \subseteq Making(j)
        <5>1. signup'[r].second = signup[r].second /\ rotation' = rotation
          BY <2>2, <2>5, <3>1, OneWalks DEF FirstKey
        <5>2. QED
          BY <2>2, <2>5, <4>2, <5>1, RowsOfSignups DEF Making, Pair, FirstKey
      <4>5. QED
        BY <2>1, <3>1, <4>1, <4>3, <4>4, KeyedByOne
    <3>2. CASE UNCHANGED <<keys, tangled>>
      BY <2>4, <2>5, <3>2 DEF FirstKey
    <3>3. QED
      BY <2>5, <3>1, <3>2 DEF FirstKey
  <2>6. ASSUME NEW q \in Rotations, NEW i \in Rows, StartRotation(q, i)
        PROVE  Entangled' /\ OneKeyUnlessTangled'
    BY <2>2, <2>3, <2>6 DEF StartRotation, tableVars, history, Making
  <2>7. ASSUME NEW q \in Rotations, DropKeys(q)
        PROVE  Entangled' /\ OneKeyUnlessTangled'
    <3>1. \A i \in Rows, p \in Rotations :
             KeysOf(i)' # {} /\ p \in Making(i)' => p \in Making(i)
      BY <2>2, <2>7 DEF DropKeys, KeysOf, Making
    <3>2. QED
      BY <2>3, <2>7, <3>1 DEF DropKeys, history
  <2>8. ASSUME NEW q \in Rotations, NewKey(q)
        PROVE  Entangled' /\ OneKeyUnlessTangled'
    <3>1. \A j \in Rows : Making(j)' \subseteq Making(j) /\ q \notin Making(j)'
      <4>1. /\ rotation'[q].at \in {"done", "error"} /\ signup' = signup
            /\ \A p \in Rotations \ {q} : rotation'[p] = rotation[p]
        BY <2>2, <2>8 DEF NewKey, RotationType
      <4>2. QED
        BY <2>2, <2>8, <4>1 DEF NewKey, Making, Pair
    <3>2. CASE AddKey(q, rotation[q].of)
      <4>1. rotation[q].of \in Rows /\ q \in Making(rotation[q].of)
        BY <2>1, <2>8 DEF NewKey, Making, Good, Aimed
      <4>2. QED
        BY <2>1, <3>1, <3>2, <4>1, KeyedByOne
    <3>3. CASE UNCHANGED <<keys, tangled>>
      BY <2>3, <3>1, <3>3
    <3>4. QED
      BY <2>8, <3>2, <3>3 DEF NewKey
  <2>9. ASSUME NEW i \in Rows, ClearKeys(i)
        PROVE  Entangled' /\ OneKeyUnlessTangled'
    BY <2>2, <2>3, <2>9 DEF ClearKeys, history, Making
  <2>10. QED
    <3>1. ASSUME NEW r \in Signups, Handler(r) PROVE Entangled' /\ OneKeyUnlessTangled'
      <4>1. CASE Count(r) \/ InsertFirst(r) \/ InsertSecond(r) \/ Undo(r)
        BY <2>4, <4>1 DEF Count, InsertFirst, InsertSecond, AddRow, Undo, history, tableVars
      <4>2. ASSUME NEW i, NEW now, NEW next, Grant(r, i, now, next)
            PROVE  Entangled' /\ OneKeyUnlessTangled'
        BY <2>4, <4>2 DEF Grant
      <4>3. QED
        <5>1. CASE FirstKey(r, <<r, 1>>, "key", IF Pair(r) THEN "key2" ELSE "done")
          BY <2>5, <5>1, RowsOfSignups
        <5>2. CASE FirstKey(r, <<r, 2>>, "key2", "done")
          BY <2>5, <5>2, RowsOfSignups
        <5>3. QED
          BY <3>1, <4>1, <4>2, <5>1, <5>2 DEF Handler
    <3>2. CASE UNCHANGED vars
      BY <2>4, <3>2 DEF vars, history, tableVars
    <3>3. ASSUME NEW r, NEW x, NEW y, Begin(r, x, y) PROVE Entangled' /\ OneKeyUnlessTangled'
      BY <2>4, <3>3 DEF Begin, history, tableVars
    <3>4. ASSUME NEW i, NEW t, StartDeletion(i) \/ ClearTable(i) \/ DeleteRow(i) \/ Traffic(i, t)
          PROVE  Entangled' /\ OneKeyUnlessTangled'
      BY <2>4, <3>4 DEF StartDeletion, ClearTable, DeleteRow, Traffic, history, tableVars
    <3>5. QED
      BY <2>1, <2>6, <2>7, <2>8, <2>9, <3>1, <3>2, <3>3, <3>4 DEF Next
<1>3. QED
  BY <1>1, <1>2, GoodAlways, PlacedAlways, PTL DEF Spec

-----------------------------------------------------------------------------
(* A request that is done with its keys stays done, whatever step is taken. *)
LEMMA SpentStays == ASSUME Good, [Next]_vars, NEW k \in Keys, Spent(k) PROVE Spent(k)'
<1>1. ASSUME k.by \in Rotations PROVE rotation'[k.by].at = "done"
  <2>1. rotation \in [Rotations -> RotationType] /\ rotation[k.by].at = "done"
    BY <1>1 DEF Good, RestTyped, Spent
  <2>2. ASSUME NEW r, Handler(r) PROVE rotation' = rotation
    BY <2>2 DEF Handler, Count, InsertFirst, InsertSecond, AddRow, Undo, Grant, FirstKey
  <2>3. ASSUME NEW q, NEW i, StartRotation(q, i) \/ DropKeys(q) \/ NewKey(q)
        PROVE  rotation'[k.by].at = "done"
    BY <1>1, <2>1, <2>3 DEF StartRotation, DropKeys, NewKey
  <2>4. ASSUME NEW i, NEW t, \/ StartDeletion(i) \/ ClearTable(i) \/ ClearKeys(i) \/ DeleteRow(i)
                            \/ Traffic(i, t)
        PROVE  rotation' = rotation
    BY <2>4 DEF StartDeletion, ClearTable, ClearKeys, DeleteRow, Traffic
  <2>5. ASSUME NEW r, NEW x, NEW y, Begin(r, x, y) PROVE rotation' = rotation
    BY <2>5 DEF Begin
  <2>6. CASE UNCHANGED vars
    BY <2>1, <2>6 DEF vars
  <2>7. QED
    BY <2>1, <2>2, <2>3, <2>4, <2>5, <2>6 DEF Next
<1>2. ASSUME k.by \in Signups
      PROVE  (k.of = <<k.by, 1>> /\ signup[k.by].at \in {"key2", "done", "error"}
                 => signup'[k.by].at \in {"key2", "done", "error"})
          /\ (k.of = <<k.by, 2>> /\ signup[k.by].at \in {"done", "error"}
                 => signup'[k.by].at \in {"done", "error"})
  <2>1. CASE Stays(k.by)
    BY <2>1 DEF Stays
  <2>2. CASE Advances(k.by)
    BY <2>2 DEF Advances
  <2>3. QED
    BY <1>2, <2>1, <2>2, SignupSteps DEF Moves
<1>3. QED
  BY <1>1, <1>2 DEF Spent

(* A new key is new to everybody.                                           *)
LEMMA NewKeyIsFresh ==
    ASSUME Good, Revoked, [Next]_vars, NEW w, NEW i, [by |-> w, of |-> i] \in Keys,
           ~Spent([by |-> w, of |-> i]), Spent([by |-> w, of |-> i])', AddKey(w, i),
           \A q \in Rotations : rotation'[q].old = rotation[q].old /\ rotation'[q].of = rotation[q].of,
           \A q \in Rotations : rotation'[q].at \in {"insert", "done"} =>
              rotation[q].at \in {"insert", "done"}
    PROVE  Revoked'
<1>1. ASSUME NEW k \in keys' PROVE Spent(k)'
  BY <1>1, SpentStays DEF AddKey, Revoked, Good, TablesTyped
<1>2. ASSUME NEW q \in Rotations
      PROVE  /\ \A k \in rotation'[q].old : Spent(k)' /\ k.of = rotation'[q].of
             /\ rotation'[q].at \in {"insert", "done"} => rotation'[q].old \cap keys' = {}
  <2>1. rotation[q].old \subseteq Keys
    BY DEF Good, RestTyped, RotationType
  <2>2. [by |-> w, of |-> i] \notin rotation[q].old
    BY DEF Revoked
  <2>3. \A k \in rotation[q].old : Spent(k)'
    BY <2>1, SpentStays DEF Revoked
  <2>4. QED
    BY <2>2, <2>3 DEF Revoked, AddKey
<1>3. QED
  BY <1>1, <1>2 DEF Revoked

(* A rotation that has answered has revoked every key it found, and none of *)
(* them comes back (the rotate handlers).                                   *)
THEOREM RevocationHolds == Spec => []OldKeysRevoked
<1>1. Init => Revoked
  BY DEF Init, Revoked
<1>2. Good /\ Revoked /\ [Next]_vars => Revoked'
  <2>1. SUFFICES ASSUME Good, Revoked, [Next]_vars
                 PROVE  Revoked'
    OBVIOUS
  <2>2. /\ signup \in [Signups -> SignupType] /\ rotation \in [Rotations -> RotationType]
        /\ keys \subseteq Keys /\ Signups \cap Rotations = {}
    BY <2>1, RosterAssumption DEF Good, RestTyped, TablesTyped
  <2>3. \A k \in Keys : Spent(k) => Spent(k)'
    BY <2>1, SpentStays
  <2>4. ASSUME keys' \subseteq keys,
               NEW q \in Rotations, \A p \in Rotations \ {q} : rotation'[p] = rotation[p],
               \A k \in rotation'[q].old : Spent(k) /\ k \in Keys /\ k.of = rotation'[q].of,
               rotation'[q].at \in {"insert", "done"} => rotation'[q].old \cap keys' = {}
        PROVE  Revoked'
    <3>1. \A p \in Rotations : rotation[p].old \subseteq Keys
      BY <2>2 DEF RotationType
    <3>2. QED
      BY <2>1, <2>2, <2>3, <2>4, <3>1 DEF Revoked
  <2>5. ASSUME keys' \subseteq keys, rotation' = rotation
        PROVE  Revoked'
    <3>1. \A p \in Rotations : rotation[p].old \subseteq Keys
      BY <2>2 DEF RotationType
    <3>2. QED
      BY <2>1, <2>2, <2>3, <2>5, <3>1 DEF Revoked
  <2>6. ASSUME NEW r \in Signups, NEW i \in Rows, NEW now, NEW next,
               FirstKey(r, i, now, next),
               \/ i = <<r, 1>> /\ now = "key" /\ next = IF Pair(r) THEN "key2" ELSE "done"
               \/ i = <<r, 2>> /\ now = "key2" /\ next = "done"
        PROVE  Revoked'
    <3>1. CASE AddKey(r, i) /\ Goto(r, next)
      <4>1. r \notin Rotations /\ [by |-> r, of |-> i] \in Keys
        BY <2>2 DEF Keys
      <4>2. signup'[r].at = next /\ signup[r].at = now
        BY <2>2, <2>6, <3>1, OneWalks DEF FirstKey
      <4>3. ~Spent([by |-> r, of |-> i])
        BY <2>6, <4>2, RowsOfSignups DEF Spent
      <4>4. Spent([by |-> r, of |-> i])'
        BY <2>6, <4>1, <4>2, RowsOfSignups DEF Spent
      <4>5. rotation' = rotation
        BY <2>6 DEF FirstKey
      <4>6. QED
        BY <2>1, <3>1, <4>1, <4>3, <4>4, <4>5, NewKeyIsFresh
    <3>2. CASE keys' = keys
      BY <2>5, <2>6, <3>2 DEF FirstKey
    <3>3. QED
      BY <2>6, <3>1, <3>2 DEF FirstKey
  <2>7. ASSUME NEW q \in Rotations, NEW i \in Rows, StartRotation(q, i)
        PROVE  Revoked'
    <3>1. /\ rotation'[q] = [at |-> "delete", of |-> i, old |-> KeysOf(i)] /\ keys' = keys
          /\ \A p \in Rotations \ {q} : rotation'[p] = rotation[p]
      BY <2>2, <2>7 DEF StartRotation, tableVars
    <3>2. \A k \in KeysOf(i) : Spent(k) /\ k \in Keys /\ k.of = i
      BY <2>1, <2>2 DEF Revoked, KeysOf
    <3>3. QED
      BY <2>4, <3>1, <3>2
  <2>8. ASSUME NEW q \in Rotations, DropKeys(q)
        PROVE  Revoked'
    <3>1. /\ rotation'[q].of = rotation[q].of /\ rotation'[q].old = rotation[q].old
          /\ rotation[q].old \subseteq Keys
          /\ \A p \in Rotations \ {q} : rotation'[p] = rotation[p]
      BY <2>2, <2>8 DEF DropKeys, RotationType
    <3>2. \A k \in rotation[q].old : Spent(k) /\ k.of = rotation[q].of
      BY <2>1 DEF Revoked
    <3>3. keys' = keys \ KeysOf(rotation[q].of) /\ rotation[q].old \cap keys' = {}
      BY <2>8, <3>2 DEF DropKeys, KeysOf
    <3>4. QED
      BY <2>4, <3>1, <3>2, <3>3
  <2>9. ASSUME NEW q \in Rotations, NewKey(q)
        PROVE  Revoked'
    <3>1. /\ rotation[q].at = "insert" /\ rotation[q].old \subseteq Keys
          /\ \A p \in Rotations \ {q} : rotation'[p] = rotation[p]
      BY <2>2, <2>9 DEF NewKey, RotationType
    <3>2. CASE AddKey(q, rotation[q].of) /\ rotation' = [rotation EXCEPT ![q].at = "done"]
      <4>1. q \notin Signups /\ [by |-> q, of |-> rotation[q].of] \in Keys
        BY <2>1, <2>2, <3>1 DEF Good, Aimed, Keys
      <4>2. /\ rotation'[q].at = "done" /\ rotation'[q].old = rotation[q].old
            /\ rotation'[q].of = rotation[q].of
        BY <2>2, <3>2 DEF RotationType
      <4>3. ~Spent([by |-> q, of |-> rotation[q].of])
        BY <3>1 DEF Spent
      <4>4. Spent([by |-> q, of |-> rotation[q].of])'
        BY <4>1, <4>2 DEF Spent
      <4>5. QED
        BY <2>1, <3>1, <3>2, <4>1, <4>2, <4>3, <4>4, NewKeyIsFresh
    <3>3. CASE keys' = keys /\ rotation' = [rotation EXCEPT ![q].at = "error", ![q].old = {}]
      <4>1. rotation'[q].at = "error" /\ rotation'[q].old = {}
        BY <2>2, <3>3 DEF RotationType
      <4>2. QED
        BY <2>4, <3>1, <3>3, <4>1
    <3>4. QED
      BY <2>9, <3>2, <3>3 DEF NewKey
  <2>10. ASSUME NEW i, ClearKeys(i)
        PROVE  Revoked'
    BY <2>5, <2>10 DEF ClearKeys
  <2>11. QED
    <3>1. ASSUME NEW r \in Signups, Handler(r) PROVE Revoked'
      <4>1. CASE Count(r) \/ InsertFirst(r) \/ InsertSecond(r) \/ Undo(r)
        BY <2>5, <4>1 DEF Count, InsertFirst, InsertSecond, AddRow, Undo, tableVars
      <4>2. ASSUME NEW i, NEW now, NEW next, Grant(r, i, now, next)
            PROVE  Revoked'
        BY <2>5, <4>2 DEF Grant
      <4>3. CASE FirstKey(r, <<r, 1>>, "key", IF Pair(r) THEN "key2" ELSE "done")
        BY <2>6, <4>3, RowsOfSignups
      <4>4. CASE FirstKey(r, <<r, 2>>, "key2", "done")
        BY <2>6, <4>4, RowsOfSignups
      <4>5. QED
        BY <3>1, <4>1, <4>2, <4>3, <4>4 DEF Handler
    <3>2. CASE UNCHANGED vars
      BY <2>5, <3>2 DEF vars, tableVars
    <3>3. ASSUME NEW r, NEW x, NEW y, Begin(r, x, y) PROVE Revoked'
      BY <2>5, <3>3 DEF Begin, tableVars
    <3>4. ASSUME NEW i, NEW t, StartDeletion(i) \/ ClearTable(i) \/ DeleteRow(i) \/ Traffic(i, t)
          PROVE  Revoked'
      BY <2>5, <3>4 DEF StartDeletion, ClearTable, DeleteRow, Traffic, tableVars
    <3>5. QED
      BY <2>1, <2>7, <2>8, <2>9, <2>10, <3>1, <3>2, <3>3, <3>4 DEF Next
<1>3. Revoked => OldKeysRevoked
  BY DEF Revoked, OldKeysRevoked
<1>4. QED
  BY <1>1, <1>2, <1>3, GoodAlways, PTL DEF Spec

-----------------------------------------------------------------------------
(* Why an agent may be without a key.                                       *)
Excused(i) ==
    \/ Making(i) # {}
    \/ deletion[i] \in {"row", "broken"}
    \/ signup[i[1]].at = "error"

(* A sign-up that inserts no key in this step leaves its agents excused.    *)
LEMMA SignupExcuses ==
    ASSUME Good, Placed, [Next]_vars, NEW j \in Rows, row'[j] = "live",
           UNCHANGED <<rotation, deletion>>,
           \/ signup'[j[1]] = signup[j[1]]
           \/ ~(signup[j[1]].at \in {"key", "key2"} /\ signup'[j[1]].at \in {"key2", "done"})
    PROVE  Excused(j)' \/ (row[j] = "live" /\ (Excused(j) => Excused(j)'))
<1> DEFINE t == j[1]
<1>1. t \in Signups /\ (j = <<t, 1>> \/ j = <<t, 2>>)
  BY SignupsOfRows
<1>2. t \notin Rotations /\ Signups \cap Rotations = {}
  BY <1>1, RosterAssumption
<1> HIDE DEF t
<1>3. \A u \in Signups \ {t} : u \notin Making(j)
  BY <1>1, <1>2, RowsOfSignups DEF Making
<1>4. \A q \in Rotations : q \in Making(j) <=> q \in Making(j)'
  BY <1>2 DEF Making
<1>5. Making(j) \subseteq Rotations \cup {t}
  BY <1>1, <1>3 DEF Making
<1>6. row \in [Rows -> {"none", "live", "gone"}] /\ Place(t)
  BY <1>1 DEF Good, TablesTyped, Placed
<1>7. CASE Stays(t)
  <2>1. row[j] = "live"
    BY <1>1, <1>6, <1>7 DEF Stays
  <2>2. t \in Making(j) => t \in Making(j)'
    BY <1>1, <1>2, <1>7 DEF Stays, Making, Pair
  <2>3. QED
    BY <1>4, <1>5, <1>7, <2>1, <2>2 DEF Excused, Stays, t
<1>8. CASE Advances(t)
  <2>1. CASE j = <<t, 1>>
    <3>1. CASE signup'[t].at \in {"second", "undo", "grant", "grant2", "key"}
      BY <1>1, <2>1, <3>1, RowsOfSignups DEF Excused, Making
    <3>2. CASE signup'[t].at = "error"
      BY <3>2 DEF Excused, t
    <3>3. CASE signup'[t].at \in {"count", "first", "refused"}
      BY <1>6, <1>8, <2>1, <3>3 DEF Advances, RowsKept, Place
    <3>4. QED
      BY <1>8, <3>1, <3>2, <3>3 DEF Advances, t
  <2>2. CASE j = <<t, 2>>
    <3>1. CASE signup'[t].at = "error"
      BY <3>1 DEF Excused, t
    <3>2. CASE signup'[t].at \in {"count", "first", "second", "undo", "refused"}
      BY <1>6, <1>8, <2>2, <3>2 DEF Advances, RowsKept, Place
    <3>3. CASE signup'[t].at \in {"grant", "grant2", "key"} /\ Pair(t)'
      BY <1>1, <2>2, <3>3, RowsOfSignups DEF Excused, Making, Pair
    <3>4. CASE signup'[t].at \in {"grant", "grant2", "key"} /\ ~Pair(t)'
      <4>1. ~Pair(t) /\ row[j] = "live"
        BY <1>6, <1>8, <2>2, <3>4 DEF Advances, RowsKept, Place
      <4>2. t \notin Making(j)
        BY <1>2, <2>2, <4>1, RowsOfSignups DEF Making
      <4>3. signup[t].at # "error"
        BY <1>8 DEF Advances
      <4>4. QED
        BY <1>4, <1>5, <4>1, <4>2, <4>3 DEF Excused, t
    <3>5. QED
      BY <1>8, <3>1, <3>2, <3>3, <3>4 DEF Advances, t
  <2>3. QED
    BY <1>1, <2>1, <2>2
<1>9. QED
  BY <1>1, <1>7, <1>8, SignupSteps DEF Moves

(* A key that is added is a key of its agent, and of no other.              *)
LEMMA KeyOfItsOwn ==
    ASSUME NEW w, NEW i, AddKey(w, i)
    PROVE  KeysOf(i)' # {} /\ \A j : j # i => KeysOf(j)' = KeysOf(j)
<1>1. [by |-> w, of |-> i] \in keys' /\ [by |-> w, of |-> i].of = i
  BY DEF AddKey
<1>2. [by |-> w, of |-> i] \in KeysOf(i)'
  BY <1>1 DEF KeysOf
<1>3. QED
  BY <1>2 DEF AddKey, KeysOf

(* An agent is never locked out by requests that have all answered          *)
(* (create_agent, the rotate handlers, the operator's DELETEs).             *)
THEOREM KeylessHolds == Spec => []KeylessOnlyWhile
<1>1. Init => KeylessOnlyWhile
  BY DEF Init, KeylessOnlyWhile, Live
<1>2. Good /\ Placed /\ KeylessOnlyWhile /\ [Next]_vars => KeylessOnlyWhile'
  <2>1. SUFFICES ASSUME Good, Placed, [Next]_vars, NEW j \in Rows,
                        row[j] = "live" /\ KeysOf(j) = {} => Excused(j),
                        row'[j] = "live", KeysOf(j)' = {}
                 PROVE  Excused(j)'
    BY DEF KeylessOnlyWhile, Live, Excused
  <2>2. /\ signup \in [Signups -> SignupType] /\ rotation \in [Rotations -> RotationType]
        /\ row \in [Rows -> {"none", "live", "gone"}]
        /\ deletion \in [Rows -> {"idle", "nonces", "messages", "credits", "keys", "row", "done",
                                  "broken"}]
        /\ Signups \cap Rotations = {}
    BY <2>1, RosterAssumption DEF Good, RestTyped, TablesTyped
  <2>3. ASSUME UNCHANGED <<rotation, deletion>>, KeysOf(j) = {},
               \/ signup'[j[1]] = signup[j[1]]
               \/ ~(signup[j[1]].at \in {"key", "key2"} /\ signup'[j[1]].at \in {"key2", "done"})
        PROVE  Excused(j)'
    BY <2>1, <2>3, SignupExcuses
  <2>4. ASSUME NEW r \in Signups, UNCHANGED <<keys, rotation, deletion>>,
               signup[r].at \notin {"key", "key2"},
               \A t \in Signups \ {r} : signup'[t] = signup[t]
        PROVE  Excused(j)'
    BY <2>1, <2>3, <2>4, SignupsOfRows DEF KeysOf
  <2>5. ASSUME NEW r \in Signups, NEW i \in Rows, NEW now, NEW next,
               FirstKey(r, i, now, next),
               \/ i = <<r, 1>> /\ now = "key" /\ next = IF Pair(r) THEN "key2" ELSE "done"
               \/ i = <<r, 2>> /\ now = "key2" /\ next = "done"
        PROVE  Excused(j)'
    <3>1. CASE AddKey(r, i) /\ Goto(r, next)
      <4>1. KeysOf(i)' # {} /\ j # i /\ KeysOf(j) = {}
        <5>1. KeysOf(i)' # {} /\ j # i
          BY <2>1, <3>1, KeyOfItsOwn
        <5>2. QED
          BY <2>1, <3>1, <5>1, KeyOfItsOwn
      <4>2. /\ \A t \in Signups \ {r} : signup'[t] = signup[t]
            /\ signup'[r].at = next /\ signup'[r].second = signup[r].second /\ signup[r].at = now
            /\ UNCHANGED <<row, rotation, deletion>>
        BY <2>2, <2>5, <3>1, OneWalks DEF FirstKey
      <4>3. Excused(j)
        BY <2>1, <4>1, <4>2
      <4>4. Making(j) \subseteq Making(j)'
        BY <2>2, <2>5, <4>1, <4>2, RowsOfSignups DEF Making, Pair
      <4>5. signup[j[1]].at = "error" => signup'[j[1]].at = "error"
        BY <2>5, <4>2, SignupsOfRows
      <4>6. QED
        BY <4>2, <4>3, <4>4, <4>5 DEF Excused
    <3>2. CASE Goto(r, "error") /\ keys' = keys
      <4>1. signup'[r].at = "error" /\ \A t \in Signups \ {r} : signup'[t] = signup[t]
        BY <2>2, <3>2, OneWalks
      <4>2. KeysOf(j) = {} /\ UNCHANGED <<rotation, deletion>>
        BY <2>1, <2>5, <3>2 DEF KeysOf, FirstKey
      <4>3. QED
        BY <2>3, <4>1, <4>2, SignupsOfRows
    <3>3. QED
      BY <2>5, <3>1, <3>2 DEF FirstKey
  <2>6. ASSUME NEW q \in Rotations, NEW i \in Rows, StartRotation(q, i)
        PROVE  Excused(j)'
    <3>1. Excused(j)
      BY <2>1, <2>6 DEF StartRotation, tableVars, KeysOf
    <3>2. Making(j) \subseteq Making(j)'
      BY <2>2, <2>6 DEF StartRotation, Making, Pair
    <3>3. QED
      BY <2>6, <3>1, <3>2 DEF StartRotation, Excused
  <2>7. ASSUME NEW q \in Rotations, DropKeys(q)
        PROVE  Excused(j)'
    <3>1. Making(j) \subseteq Making(j)'
      BY <2>2, <2>7 DEF DropKeys, Making, Pair
    <3>2. CASE rotation[q].of = j
      <4>1. q \in Making(j)'
        BY <2>2, <2>7, <3>2 DEF DropKeys, Making, RotationType
      <4>2. QED
        BY <4>1 DEF Excused
    <3>3. CASE rotation[q].of # j
      <4>1. Excused(j)
        BY <2>1, <2>7, <3>3 DEF DropKeys, KeysOf
      <4>2. QED
        BY <2>7, <3>1, <4>1 DEF DropKeys, Excused
    <3>4. QED
      BY <3>2, <3>3
  <2>8. ASSUME NEW q \in Rotations, NewKey(q)
        PROVE  Excused(j)'
    <3>1. rotation[q].of # j /\ Excused(j)
      <4>1. CASE AddKey(q, rotation[q].of)
        BY <2>1, <2>8, <4>1, KeyOfItsOwn DEF NewKey
      <4>2. CASE row[rotation[q].of] = "gone" /\ keys' = keys
        BY <2>1, <2>8, <4>2 DEF NewKey, KeysOf
      <4>3. QED
        BY <2>8, <4>1, <4>2 DEF NewKey
    <3>2. \A p \in Rotations \ {q} : rotation'[p] = rotation[p]
      BY <2>2, <2>8 DEF NewKey
    <3>3. Making(j) \subseteq Making(j)'
      BY <2>2, <2>8, <3>1, <3>2 DEF NewKey, Making, Pair
    <3>4. QED
      BY <2>8, <3>1, <3>3 DEF NewKey, Excused
  <2>9. ASSUME NEW i \in Rows,
               StartDeletion(i) \/ ClearTable(i) \/ ClearKeys(i) \/ DeleteRow(i)
        PROVE  Excused(j)'
    <3>1. UNCHANGED <<signup, rotation>> /\ Making(j)' = Making(j)
      BY <2>9 DEF StartDeletion, ClearTable, ClearKeys, DeleteRow, Making, Pair
    <3>2. CASE j = i
      BY <2>1, <2>2, <2>9, <3>1, <3>2 DEF StartDeletion, ClearTable, ClearKeys, DeleteRow, tableVars,
         KeysOf, After, Tables, Excused
    <3>3. CASE j # i
      BY <2>1, <2>2, <2>9, <3>1, <3>3 DEF StartDeletion, ClearTable, ClearKeys, DeleteRow, tableVars,
         KeysOf, Excused
    <3>4. QED
      BY <3>2, <3>3
  <2>10. ASSUME UNCHANGED <<row, keys, signup, rotation, deletion>>
         PROVE  Excused(j)'
    BY <2>1, <2>10 DEF KeysOf, Excused, Making, Pair
  <2>11. QED
    <3>1. ASSUME NEW r \in Signups, Handler(r) PROVE Excused(j)'
      <4>1. CASE Count(r)
        BY <2>2, <2>4, <4>1, Judged DEF Count, tableVars
      <4>2. CASE InsertFirst(r)
        BY <2>2, <2>4, <4>2, OneWalks DEF InsertFirst, AddRow, tableVars
      <4>3. CASE InsertSecond(r)
        BY <2>2, <2>4, <4>3, OneWalks DEF InsertSecond, AddRow, tableVars
      <4>4. CASE Undo(r)
        BY <2>2, <2>4, <4>4, OneWalks DEF Undo
      <4>5. ASSUME NEW i, NEW now \in {"grant", "grant2"}, NEW next, Grant(r, i, now, next)
            PROVE  Excused(j)'
        BY <2>2, <2>4, <4>5, OneWalks DEF Grant
      <4>6. CASE FirstKey(r, <<r, 1>>, "key", IF Pair(r) THEN "key2" ELSE "done")
        BY <2>5, <4>6, RowsOfSignups
      <4>7. CASE FirstKey(r, <<r, 2>>, "key2", "done")
        BY <2>5, <4>7, RowsOfSignups
      <4>8. QED
        BY <3>1, <4>1, <4>2, <4>3, <4>4, <4>5, <4>6, <4>7 DEF Handler
    <3>2. CASE UNCHANGED vars
      BY <2>10, <3>2 DEF vars, tableVars
    <3>3. ASSUME NEW r \in Signups, NEW x, NEW y, Begin(r, x, y) PROVE Excused(j)'
      BY <2>2, <2>4, <3>3 DEF Begin, tableVars
    <3>4. ASSUME NEW i, NEW t, Traffic(i, t) PROVE Excused(j)'
      BY <2>10, <3>4 DEF Traffic
    <3>5. QED
      BY <2>1, <2>6, <2>7, <2>8, <2>9, <3>1, <3>2, <3>3, <3>4 DEF Next
<1>3. QED
  BY <1>1, <1>2, GoodAlways, PlacedAlways, PTL DEF Spec

-----------------------------------------------------------------------------
(* What refers to the first agent of a pair before the pair is whole.       *)
LEMMA Visits ==
    ASSUME Good, [Next]_vars, NEW i, Visited(i) PROVE Visited(i)'
<1>1. rotation \in [Rotations -> RotationType] /\ traffic \in Nat
  BY RosterAssumption DEF Good, RestTyped
<1>2. ASSUME NEW r, Handler(r) PROVE UNCHANGED <<rotation, traffic>>
  BY <1>2 DEF Handler, Count, InsertFirst, InsertSecond, AddRow, Undo, Grant, FirstKey
<1>3. ASSUME NEW q \in Rotations, NEW j, StartRotation(q, j) PROVE Visited(i)'
  BY <1>1, <1>3 DEF StartRotation, Visited
<1>4. ASSUME NEW q \in Rotations, DropKeys(q) PROVE Visited(i)'
  BY <1>1, <1>4 DEF DropKeys, Visited, RotationType
<1>5. ASSUME NEW q \in Rotations, NewKey(q) PROVE Visited(i)'
  <2>1. /\ rotation'[q].at # "new" /\ rotation'[q].of = rotation[q].of /\ traffic' = traffic
        /\ \A p \in Rotations \ {q} : rotation'[p] = rotation[p]
    BY <1>1, <1>5 DEF NewKey, RotationType
  <2>2. QED
    BY <2>1 DEF Visited
<1>6. ASSUME NEW j, NEW t, Traffic(j, t) PROVE Visited(i)'
  BY <1>1, <1>6 DEF Traffic, Visited
<1>7. ASSUME NEW j, StartDeletion(j) \/ ClearTable(j) \/ ClearKeys(j) \/ DeleteRow(j)
      PROVE  UNCHANGED <<rotation, traffic>>
  BY <1>7 DEF StartDeletion, ClearTable, ClearKeys, DeleteRow
<1>8. ASSUME NEW r, NEW x, NEW y, Begin(r, x, y) PROVE UNCHANGED <<rotation, traffic>>
  BY <1>8 DEF Begin
<1>9. CASE UNCHANGED <<rotation, traffic>>
  BY <1>9 DEF Visited
<1>10. QED
  BY <1>2, <1>3, <1>4, <1>5, <1>6, <1>7, <1>8, <1>9 DEF Next, vars

(* The first row that refers to an agent of an unfinished pair comes from   *)
(* a visit.                                                                 *)
LEMMA Arrivals ==
    ASSUME Good, [Next]_vars, NEW r \in Signups, signup[r].at \in {"first", "second", "undo"},
           ~Referenced(<<r, 1>>), Referenced(<<r, 1>>)'
    PROVE  Visited(<<r, 1>>)'
<1> DEFINE i == <<r, 1>>
<1>1. /\ signup \in [Signups -> SignupType] /\ rotation \in [Rotations -> RotationType]
      /\ child \in [Tables -> SUBSET Rows] /\ traffic \in Nat /\ i \in Rows
  <2>1. traffic \in 0..MaxTraffic /\ i \in Rows
    BY RowsOfSignups DEF Good, RestTyped
  <2>2. QED
    BY <2>1, RosterAssumption DEF Good, RestTyped, TablesTyped
<1>2. ASSUME keys' \subseteq keys, \A t \in Tables : child'[t] \subseteq child[t] PROVE FALSE
  BY <1>2 DEF Referenced, KeysOf
<1>3. ASSUME NEW t \in Signups, NEW now \in {"grant", "grant2"}, NEW next,
             Grant(t, <<t, 1>>, now, next) \/ Grant(t, <<t, 2>>, now, next)
      PROVE  FALSE
  <2>1. t # r
    BY <1>3 DEF Grant
  <2>2. <<t, 1>> # i /\ <<t, 2>> # i
    BY <2>1
  <2>3. keys' = keys /\ \A u \in Tables : i \in child'[u] => i \in child[u]
    BY <1>1, <1>3, <2>2 DEF Grant, Tables
  <2>4. QED
    BY <2>3 DEF Referenced, KeysOf
<1>4. ASSUME NEW t \in Signups, NEW j \in {<<t, 1>>, <<t, 2>>}, NEW now \in {"key", "key2"}, NEW next,
             FirstKey(t, j, now, next)
      PROVE  FALSE
  <2>1. t # r
    BY <1>4 DEF FirstKey
  <2>2. i # j
    BY <2>1
  <2>3. child' = child /\ (keys' = keys \/ AddKey(t, j))
    BY <1>4 DEF FirstKey
  <2>4. CASE keys' = keys
    BY <1>2, <2>3, <2>4
  <2>5. CASE AddKey(t, j)
    BY <2>2, <2>3, <2>5, KeyOfItsOwn DEF Referenced
  <2>6. QED
    BY <2>3, <2>4, <2>5
<1>5. ASSUME NEW q \in Rotations, NewKey(q) PROVE Visited(i)'
  <2>1. rotation'[q].at # "new" /\ rotation'[q].of = rotation[q].of /\ child' = child
    BY <1>1, <1>5 DEF NewKey, RotationType
  <2>2. rotation[q].of = i
    <3>1. CASE AddKey(q, rotation[q].of)
      BY <2>1, <3>1, KeyOfItsOwn DEF Referenced
    <3>2. CASE keys' = keys
      BY <1>2, <2>1, <3>2
    <3>3. QED
      BY <1>5, <3>1, <3>2 DEF NewKey
  <2>3. QED
    BY <2>1, <2>2 DEF Visited
<1>6. ASSUME NEW j, NEW t, Traffic(j, t) PROVE Visited(i)'
  BY <1>1, <1>6 DEF Traffic, Visited
<1>7. ASSUME NEW t \in Signups, Handler(t) PROVE FALSE
  <2>1. CASE Count(t) \/ InsertFirst(t) \/ InsertSecond(t) \/ Undo(t)
    BY <1>2, <2>1 DEF Count, InsertFirst, InsertSecond, AddRow, Undo, tableVars
  <2>2. QED
    BY <1>3, <1>4, <1>7, <2>1 DEF Handler
<1>8. ASSUME NEW q, NEW j, StartRotation(q, j) \/ DropKeys(q) PROVE FALSE
  BY <1>2, <1>8 DEF StartRotation, DropKeys, tableVars
<1>9. ASSUME NEW j \in Rows, StartDeletion(j) \/ ClearTable(j) \/ ClearKeys(j) \/ DeleteRow(j)
      PROVE  FALSE
  BY <1>1, <1>2, <1>9 DEF StartDeletion, ClearTable, ClearKeys, DeleteRow, tableVars
<1>10. ASSUME NEW t, NEW x, NEW y, Begin(t, x, y) PROVE FALSE
  BY <1>2, <1>10 DEF Begin, tableVars
<1>11. CASE UNCHANGED vars
  BY <1>2, <1>11 DEF vars, tableVars
<1>12. QED
  BY <1>5, <1>6, <1>7, <1>8, <1>9, <1>10, <1>11 DEF Next

(* A clean-up breaks off only over a row that refers to the agent.          *)
LEMMA BrokenOff ==
    ASSUME Good, [Next]_vars, NEW r \in Signups, signup[r].at = "undo", signup'[r].at = "error"
    PROVE  Referenced(<<r, 1>>)
<1>1. signup \in [Signups -> SignupType]
  BY DEF Good
<1>2. ASSUME NEW t \in Signups, Handler(t) PROVE Referenced(<<r, 1>>)
  <2>1. CASE t = r
    <3>1. Undo(r)
      BY <1>2, <2>1 DEF Handler, Count, InsertFirst, InsertSecond, Grant, FirstKey
    <3>2. QED
      BY <1>1, <3>1, OneWalks DEF Undo
  <2>2. CASE t # r
    <3>1. signup'[r] = signup[r]
      <4>1. CASE Count(t)
        BY <1>1, <2>2, <4>1, Judged
      <4>2. CASE ~Count(t)
        <5>1. \E p : Goto(t, p) \/ Leave(t, p)
          BY <1>2, <4>2 DEF Handler, InsertFirst, InsertSecond, AddRow, Undo, Grant, FirstKey
        <5>2. QED
          BY <1>1, <2>2, <5>1, OneWalks
      <4>3. QED
        BY <4>1, <4>2
    <3>2. QED
      BY <3>1
  <2>3. QED
    BY <2>1, <2>2
<1>3. ASSUME NEW t \in Signups, NEW x, NEW y, Begin(t, x, y) PROVE FALSE
  BY <1>1, <1>3 DEF Begin
<1>4. ASSUME UNCHANGED signup PROVE FALSE
  BY <1>4
<1>5. QED
  BY <1>2, <1>3, <1>4 DEF Next, StartRotation, DropKeys, NewKey, StartDeletion, ClearTable, ClearKeys,
     DeleteRow, Traffic, vars

(* A pair is created whole or not at all, but for what create_agent's       *)
(* clean-up could not take back.                                            *)
THEOREM PairHolds == Spec => []PairOrNothing
<1>1. Init => Guests
  BY DEF Init, Guests, Guest, Pair
<1>2. Good /\ Placed /\ Guests /\ [Next]_vars => Guests'
  <2>1. SUFFICES ASSUME Good, Placed, Guests, [Next]_vars, NEW t \in Signups
                 PROVE  Guest(t)'
    BY DEF Guests
  <2>2. /\ Place(t) /\ Guest(t)
        /\ row[<<t, 1>>] = "none" => ~Referenced(<<t, 1>>)
    BY <2>1 DEF Placed, Guests, Good, References, Referenced, KeysOf
  <2>3. /\ Visited(<<t, 1>>) => Visited(<<t, 1>>)'
        /\ /\ signup[t].at \in {"first", "second", "undo"}
           /\ ~Referenced(<<t, 1>>) /\ Referenced(<<t, 1>>)'
           => Visited(<<t, 1>>)'
        /\ signup[t].at = "undo" /\ signup'[t].at = "error" => Referenced(<<t, 1>>)
    BY <2>1, Visits, Arrivals, BrokenOff
  <2>4. CASE Stays(t)
    BY <2>2, <2>3, <2>4 DEF Stays, Guest, Pair
  <2>5. CASE Advances(t)
    BY <2>2, <2>3, <2>5 DEF Advances, RowsKept, Guest, Place
  <2>6. QED
    BY <2>1, <2>4, <2>5, SignupSteps DEF Moves
<1>3. Good /\ Placed /\ Guests => PairOrNothing
  <2>1. SUFFICES ASSUME Good, Placed, Guests, NEW r \in Signups, Pair(r),
                        row[<<r, 1>>] = "live", row[<<r, 2>>] # "live"
                 PROVE  \/ signup[r].at \in {"second", "undo"}
                        \/ row[<<r, 2>>] = "gone"
                        \/ signup[r].at = "error" /\ Used(<<r, 1>>)
    BY DEF PairOrNothing
  <2>2. row[<<r, 2>>] \in {"none", "gone"} /\ signup[r].at \in Positions /\ Place(r) /\ Guest(r)
    BY <2>1, RowsOfSignups DEF Good, TablesTyped, SignupType, Placed, Guests
  <2>3. Visited(<<r, 1>>) => Used(<<r, 1>>)
    BY DEF Visited, Used
  <2>4. QED
    BY <2>1, <2>2, <2>3 DEF Place, Guest, Positions
<1>4. QED
  BY <1>1, <1>2, <1>3, GoodAlways, PlacedAlways, PTL DEF Spec
=============================================================================
