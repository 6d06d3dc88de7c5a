-------------------------- MODULE BridgeRx_proofs --------------------------
(* What TLAPS proves of BridgeRx: the bridge finds the station of every     *)
(* entity, and the station answers a message that came twice once.  And of  *)
(* Pacer, which it extends: frames leave in order and in their intervals.   *)
EXTENDS BridgeRx, FiniteSetTheorems, SequenceTheorems, WellFoundedInduction, TLAPS

(***************************************************************************)
(* The inductive invariants.                                               *)
(***************************************************************************)
Entries == [id : Entity \cup {None}, sta : Sta \cup {None}, left : Nat \cup {Unused}]
Runs    == [sta : Sta \cup {None}, left : Nat]
Memory  == [msg : Msg, age : 0..Window]
Try     == [since : 0..Retry, came : BOOLEAN, answers : Nat]

ControlType ==
  /\ table \in [Slot -> Entries]
  /\ runs \in [Entity -> Runs]
  /\ air \subseteq [msg : Msg, to : {"group"} \cup Sta]
  /\ recent \in [Entity -> Seq(Memory)]
  /\ tries \in [Msg -> Try]

\* The table of the bridge and the stations agree: an entity has one slot, the
\* slot of one that runs expires when the entity does, and no other is valid.
TableInv ==
  /\ \A i, j \in Slot :
       /\ table[i].left # Unused /\ table[j].left # Unused
       /\ table[i].id = table[j].id
       => i = j
  /\ \A e \in Entity : runs[e].left > 0 =>
       \E i \in Slot : table[i] = [id |-> e, sta |-> runs[e].sta, left |-> runs[e].left]
  /\ \A i \in Slot : table[i].left > 0 =>
       table[i].id \in Entity /\ runs[table[i].id].left = table[i].left
  /\ \A e \in Entity : runs[e].left = 0 => runs[e].sta = None

(***************************************************************************)
(* Numbers.                                                                *)
(***************************************************************************)
\* A set of numbers has a least one: the minimal-element theorem of
\* well-founded relations takes the place of induction.
LEMMA LeastNumber ==
  ASSUME NEW T \in SUBSET Nat, T # {}
  PROVE  \E n \in T : \A m \in T : n <= m
<1> DEFINE R == OpToRel(<, Nat)
<1>1. IsWellFoundedOn(R, Nat)
  BY NatLessThanWellFounded
<1>2. R = {ss \in Nat \X Nat : ss[1] < ss[2]}
  BY DEF OpToRel
<1> HIDE DEF R
<1>3. PICK n \in T : \A m \in T : ~(<<m, n>> \in R)
  BY <1>1, WFMin
<1>4. ASSUME NEW m \in T PROVE n <= m
  <2>1. ~(m < n)
    BY <1>2, <1>3
  <2> QED
    BY <2>1
<1> QED
  BY <1>4

\* The first slot of some.
LEMMA FirstSlot ==
  ASSUME NEW S \in SUBSET Slot, S # {}
  PROVE  Min(S) \in S /\ \A i \in S : Min(S) <= i
<1>1. S \in SUBSET Nat
  BY BridgeRxAssumption, FS_CardinalityType
<1>2. \E n \in S : \A m \in S : n <= m
  BY <1>1, LeastNumber
<1> QED
  BY <1>2 DEF Min

\* avb_wifi_entity_learn has always a slot to take, and it is one that expires
\* no later than any other.
LEMMA OldestExpires ==
  ASSUME ControlType, NEW id, Slot # {}
  PROVE  Oldest(id) \in Slot /\ \A j \in Slot : table[Oldest(id)].left <= table[j].left
<1> DEFINE first == {i \in Slot : \A j \in Slot : table[i].left <= table[j].left}
           T == {table[i].left + 1 : i \in Slot}
<1>1. \A i \in Slot : table[i].left \in Nat \cup {Unused} /\ table[i].left \in Int
  BY DEF ControlType, Entries, Unused
<1>2. T \in SUBSET Nat /\ T # {}
  BY <1>1 DEF Unused
<1>3. PICK n \in T : \A m \in T : n <= m
  BY <1>2, LeastNumber
<1>4. PICK i \in Slot : n = table[i].left + 1
  BY <1>3
<1>5. \A j \in Slot : table[i].left <= table[j].left
  <2> TAKE j \in Slot
  <2>1. table[j].left + 1 \in T
    OBVIOUS
  <2>2. n <= table[j].left + 1
    BY <1>3, <2>1
  <2> QED
    BY <1>1, <1>4, <2>2
<1>6. first \in SUBSET Slot /\ first # {}
  BY <1>5
<1> HIDE DEF first
<1>7. Min(first) \in first
  BY <1>6, FirstSlot
<1> QED
  BY <1>7 DEF first, Oldest

(***************************************************************************)
(* The table of entities.                                                  *)
(***************************************************************************)
LEMMA ControlTypeInit == ControlInit => ControlType
BY BridgeRxAssumption DEF ControlInit, ControlType, FreeSlot, Entries, Unused, Gone, Runs,
   FirstTry, Try, Memory

LEMMA TableInit == ControlInit => TableInv
BY DEF ControlInit, TableInv, FreeSlot, Unused, Gone

\* What avb_wifi_entity_learn does to the table.
LEMMA LearnSlot ==
  ASSUME ControlType, TableInv, NEW id \in Entity, NEW sta \in Sta, Slot # {}, Learn(id, sta)
  PROVE  \E slot \in Slot :
           /\ table' = [table EXCEPT ![slot] = [id |-> id, sta |-> sta, left |-> Valid]]
           /\ \A j \in Slot : table[j].left # Unused /\ table[j].id = id => j = slot
           /\ \/ table[slot].left # Unused /\ table[slot].id = id
              \/ \A j \in Slot : table[slot].left <= table[j].left
<1> DEFINE slot == IF Known(id) # {} THEN Min(Known(id)) ELSE Oldest(id)
<1>1. table' = [table EXCEPT ![slot] = [id |-> id, sta |-> sta, left |-> Valid]]
  BY DEF Learn
<1>2. CASE Known(id) # {}
  <2>1. Known(id) \in SUBSET Slot
    BY DEF Known
  <2>2. slot \in Known(id)
    BY <1>2, <2>1, FirstSlot
  <2> QED
    BY <1>1, <2>2 DEF Known, TableInv
<1>3. CASE Known(id) = {}
  <2>1. slot = Oldest(id)
    BY <1>3
  <2>2. slot \in Slot /\ \A j \in Slot : table[slot].left <= table[j].left
    BY <2>1, OldestExpires
  <2> HIDE DEF slot
  <2> QED
    BY <1>1, <1>3, <2>2 DEF Known
<1> QED
  BY <1>2, <1>3

\* With fewer entities about than slots, some slot is of none of them.
LEMMA SpareSlot ==
  ASSUME ControlType, TableInv, NEW id \in Entity,
         Cardinality({e \in Entity \ {id} : runs[e].left > 0}) < Cardinality(Slot),
         \A j \in Slot : table[j].left # Unused => table[j].id # id
  PROVE  \E j \in Slot : ~(table[j].left > 0)
<1> DEFINE live == {e \in Entity \ {id} : runs[e].left > 0}
           f == [i \in Slot |-> table[i].id]
<1>1. SUFFICES ASSUME \A j \in Slot : table[j].left > 0 PROVE FALSE
  OBVIOUS
<1>2. \A j \in Slot : table[j].left # Unused
  BY <1>1 DEF Unused
<1>3. f \in [Slot -> live]
  BY <1>1, <1>2 DEF TableInv
<1>4. \A e \in live : \E i \in Slot : f[i] = e
  <2> TAKE e \in live
  <2>1. PICK i \in Slot :
          table[i] = [id |-> e, sta |-> runs[e].sta, left |-> runs[e].left]
    BY DEF TableInv
  <2>2. table[i].id = e
    BY <2>1
  <2> QED
    BY <2>2
<1>5. \A i, j \in Slot : f[i] = f[j] => i = j
  BY <1>2 DEF TableInv
<1>6. Cardinality(live) < Cardinality(Slot)
  OBVIOUS
<1> HIDE DEF live, f
<1>7. f \in Surjection(Slot, live)
  BY <1>3, <1>4 DEF Surjection
<1>8. f \in Injection(Slot, live)
  BY <1>3, <1>5 DEF Injection, IsInjective
<1>9. Cardinality(live) = Cardinality(Slot) /\ IsFiniteSet(live)
  BY <1>7, <1>8, FS_Surjection, BridgeRxAssumption
<1>10. Cardinality(Slot) \in Nat
  BY FS_CardinalityType, BridgeRxAssumption
<1> QED
  BY <1>6, <1>9, <1>10

\* What a slot and an entity that others do not concern keep.
LEMMA ControlStepType ==
  ASSUME ControlType, TableInv, Control PROVE ControlType'
<1>0. /\ \A i \in Slot : table[i] \in Entries
      /\ \A e \in Entity : runs[e] \in Runs
      /\ Valid \in Nat /\ Gone \in Runs
  BY BridgeRxAssumption DEF ControlType, Gone, Runs
<1>1. ASSUME NEW id \in Entity, NEW sta \in Sta, Available(id, sta) PROVE ControlType'
  <2>1. /\ Learn(id, sta) /\ UNCHANGED <<air, recent, tries>>
        /\ runs' = [runs EXCEPT ![id] = [sta |-> sta, left |-> Valid]]
    BY <1>1 DEF Available
  <2>2. runs' \in [Entity -> Runs]
    BY <1>0, <2>1 DEF ControlType, Runs
  <2>3. [id |-> id, sta |-> sta, left |-> Valid] \in Entries
    BY <1>0 DEF Entries
  <2>4. table' \in [Slot -> Entries]
    BY <2>1, <2>3 DEF Learn, ControlType
  <2> QED
    BY <2>1, <2>2, <2>4 DEF ControlType
<1>2. ASSUME NEW id \in Entity, Departing(id) PROVE ControlType'
  <2>1. /\ Unlearn(id) /\ UNCHANGED <<air, recent, tries>>
        /\ runs' = [runs EXCEPT ![id] = Gone]
    BY <1>2 DEF Departing
  <2>2. runs' \in [Entity -> Runs]
    BY <1>0, <2>1 DEF ControlType
  <2>3. \A i \in Slot : [table[i] EXCEPT !.left = Unused] \in Entries
    BY <1>0 DEF Entries
  <2>4. table' \in [Slot -> Entries]
    BY <1>0, <2>1, <2>3 DEF Unlearn, ControlType
  <2> QED
    BY <2>1, <2>2, <2>4 DEF ControlType
<1>3. ASSUME NEW m \in Msg, RxAcmp(m) PROVE ControlType'
  <2>1. /\ UNCHANGED <<table, runs, recent>>
        /\ tries' = [tries EXCEPT ![m] = [FirstTry EXCEPT !.since = 0]]
        /\ air' = air \cup {[msg |-> m, to |-> "group"]}
                      \cup IF Station(Target(m)) = None THEN {}
                           ELSE {[msg |-> m, to |-> Station(Target(m))]}
    BY <1>3 DEF RxAcmp
  <2>2. Station(Target(m)) = None \/ Station(Target(m)) \in Sta
    <3> DEFINE found == {i \in Slot : table[i].left > 0 /\ table[i].id = Target(m)}
    <3>1. CASE found = {}
      BY <3>1 DEF Station
    <3>2. CASE found # {}
      <4>1. Min(found) \in Slot
        BY <3>2, FirstSlot
      <4>2. Station(Target(m)) = table[Min(found)].sta
        BY <3>2 DEF Station
      <4> QED
        BY <1>0, <4>1, <4>2 DEF Entries
    <3> QED
      BY <3>1, <3>2
  <2>3. [FirstTry EXCEPT !.since = 0] \in Try
    <3>1. FirstTry \in Try
      BY BridgeRxAssumption DEF FirstTry, Try
    <3>2. \A t \in Try : [t EXCEPT !.since = 0] \in Try
      BY BridgeRxAssumption DEF Try
    <3> QED
      BY <3>1, <3>2
  <2>4. tries' \in [Msg -> Try]
    BY <2>1, <2>3 DEF ControlType
  <2>5. air' \subseteq [msg : Msg, to : {"group"} \cup Sta]
    BY <2>1, <2>2 DEF ControlType
  <2> QED
    BY <2>1, <2>4, <2>5 DEF ControlType
<1>4. ASSUME NEW f \in air, Arrive(f) PROVE ControlType'
  <2> DEFINE m == f.msg
             id == Target(f.msg)
  <2>1. m \in Msg /\ air' = air \ {f} /\ UNCHANGED <<table, runs>>
    BY <1>4 DEF Arrive, ControlType
  <2>2. id \in Entity
    BY <2>1, BridgeRxAssumption DEF Target, TargetRole, Role
  <2>3. [msg |-> m, age |-> 0] \in Memory
    BY <2>1, BridgeRxAssumption DEF Memory
  <2>4. Remembered(recent[id], m) \in Seq(Memory)
    <3>1. recent[id] \in Seq(Memory)
      BY <2>2 DEF ControlType
    <3> QED
      BY <2>3, <3>1 DEF Remembered
  <2>5. tries[m] \in Try
    BY <2>1 DEF ControlType
  <2> HIDE DEF m, id
  <2>6. /\ \/ recent' = recent
           \/ recent' = [recent EXCEPT ![id] = Remembered(@, m)]
        /\ \/ tries' = tries
           \/ tries' = [tries EXCEPT ![m].came = TRUE, ![m].answers = @]
           \/ tries' = [tries EXCEPT ![m].came = TRUE, ![m].answers = @ + 1]
    BY <1>4 DEF Arrive, m, id
  <2>7. recent' \in [Entity -> Seq(Memory)]
    BY <2>2, <2>4, <2>6 DEF ControlType
  <2>8. /\ [tries[m] EXCEPT !.came = TRUE, !.answers = @] \in Try
        /\ [tries[m] EXCEPT !.came = TRUE, !.answers = @ + 1] \in Try
    <3>1. \A t \in Try : [t EXCEPT !.came = TRUE] \in Try
      BY DEF Try
    <3>2. \A t \in Try, n \in Nat : [t EXCEPT !.answers = n] \in Try
      BY DEF Try
    <3>3. tries[m].answers \in Nat /\ tries[m].answers + 1 \in Nat
      BY <2>5 DEF Try
    <3>4. \A n : [tries[m] EXCEPT !.came = TRUE, !.answers = n]
                   = [[tries[m] EXCEPT !.came = TRUE] EXCEPT !.answers = n]
      OBVIOUS
    <3> QED
      BY <2>5, <3>1, <3>2, <3>3, <3>4
  <2>9. tries' \in [Msg -> Try]
    BY <2>1, <2>6, <2>8 DEF ControlType
  <2> QED
    BY <2>1, <2>7, <2>9 DEF ControlType
<1>5. ASSUME NEW f \in air, Lose(f) PROVE ControlType'
  BY <1>5 DEF Lose, ControlType
<1>6. CASE Pass
  <2>1. /\ air' = air
        /\ table' = [i \in Slot |-> [table[i] EXCEPT !.left = IF @ > 0 THEN @ - 1 ELSE @]]
        /\ runs' = [e \in Entity |-> IF runs[e].left > 1
                                     THEN [runs[e] EXCEPT !.left = @ - 1] ELSE Gone]
        /\ recent' = [e \in Entity |-> [i \in DOMAIN recent[e] |->
                        [recent[e][i] EXCEPT !.age = Aged(@, Window)]]]
        /\ tries' = [m \in Msg |-> [tries[m] EXCEPT !.since = Aged(@, Retry)]]
    BY <1>6 DEF Pass
  <2>2. table' \in [Slot -> Entries]
    <3>1. ASSUME NEW i \in Slot
          PROVE  [table[i] EXCEPT !.left = IF @ > 0 THEN @ - 1 ELSE @] \in Entries
      BY <1>0 DEF Entries, Unused
    <3> QED
      BY <2>1, <3>1
  <2>3. runs' \in [Entity -> Runs]
    <3>1. ASSUME NEW e \in Entity, runs[e].left > 1
          PROVE  [runs[e] EXCEPT !.left = @ - 1] \in Runs
      BY <1>0, <3>1 DEF Runs
    <3> QED
      BY <1>0, <2>1, <3>1
  <2>4. recent' \in [Entity -> Seq(Memory)]
    <3>1. ASSUME NEW e \in Entity
          PROVE  [i \in DOMAIN recent[e] |-> [recent[e][i] EXCEPT !.age = Aged(@, Window)]]
                   \in Seq(Memory)
      <4>1. recent[e] \in Seq(Memory)
        BY DEF ControlType
      <4>2. \A i \in DOMAIN recent[e] :
              [recent[e][i] EXCEPT !.age = Aged(@, Window)] \in Memory
        <5>1. \A r \in Memory, n \in 0..Window : [r EXCEPT !.age = n] \in Memory
          BY DEF Memory
        <5>2. \A r \in Memory : Aged(r.age, Window) \in 0..Window
          BY BridgeRxAssumption DEF Memory, Aged
        <5>3. \A i \in DOMAIN recent[e] : recent[e][i] \in Memory
          BY <4>1
        <5> QED
          BY <5>1, <5>2, <5>3
      <4>3. DOMAIN recent[e] = 1..Len(recent[e]) /\ Len(recent[e]) \in Nat
        BY <4>1
      <4> QED
        BY <4>2, <4>3, IsASeq
    <3> QED
      BY <2>1, <3>1
  <2>5. tries' \in [Msg -> Try]
    <3>1. ASSUME NEW m \in Msg
          PROVE  [tries[m] EXCEPT !.since = Aged(@, Retry)] \in Try
      <4>1. \A n \in 0..Retry : Aged(n, Retry) \in 0..Retry
        BY BridgeRxAssumption DEF Aged
      <4>2. \A t \in Try, n \in 0..Retry : [t EXCEPT !.since = n] \in Try
        BY DEF Try
      <4>3. tries[m] \in Try /\ tries[m].since \in 0..Retry
        BY DEF Try, ControlType
      <4> QED
        BY <4>1, <4>2, <4>3
    <3> QED
      BY <2>1, <3>1
  <2> QED
    BY <2>1, <2>2, <2>3, <2>4, <2>5 DEF ControlType
<1> QED
  BY <1>1, <1>2, <1>3, <1>4, <1>5, <1>6 DEF Control

\* An entity that announces itself, at whatever station.
LEMMA TableAvailable ==
  ASSUME ControlType, TableInv, NEW id \in Entity, NEW sta \in Sta, Available(id, sta)
  PROVE  TableInv'
<1>1. /\ runs' = [runs EXCEPT ![id] = [sta |-> sta, left |-> Valid]]
      /\ Learn(id, sta)
      /\ Cardinality({e \in Entity \ {id} : runs[e].left > 0}) < Cardinality(Slot)
  BY DEF Available
<1>2. Slot # {}
  <2>1. CASE Slot = {}
    <3>1. Cardinality(Slot) = 0
      BY <2>1, FS_EmptySet
    <3>2. \A j \in Slot : table[j].left # Unused => table[j].id # id
      BY <2>1
    <3>3. \E j \in Slot : ~(table[j].left > 0)
      BY <1>1, <3>2, SpareSlot
    <3> QED
      BY <2>1, <3>3
  <2> QED
    BY <2>1
<1> DEFINE new == [id |-> id, sta |-> sta, left |-> Valid]
<1>3. PICK slot \in Slot :
        /\ table' = [table EXCEPT ![slot] = new]
        /\ \A j \in Slot : table[j].left # Unused /\ table[j].id = id => j = slot
        /\ \/ table[slot].left # Unused /\ table[slot].id = id
           \/ \A j \in Slot : table[slot].left <= table[j].left
  BY <1>1, <1>2, LearnSlot
<1>4. /\ \A i \in Slot : table[i].left \in Nat \cup {Unused}
      /\ \A e \in Entity : runs[e].left \in Nat
      /\ Valid \in Nat /\ Valid > 0 /\ Unused = -1
  BY BridgeRxAssumption DEF ControlType, Entries, Runs, Unused
<1>5. /\ new.id = id /\ new.sta = sta /\ new.left = Valid
  OBVIOUS
<1>6. /\ table'[slot] = new /\ \A j \in Slot \ {slot} : table'[j] = table[j]
      /\ runs'[id].left = Valid /\ runs'[id].sta = sta
      /\ \A e \in Entity \ {id} : runs'[e] = runs[e]
  BY <1>1, <1>3 DEF ControlType
<1> HIDE DEF new
\* The slot was of no entity but this one that still runs.
<1>7. table[slot].left > 0 => table[slot].id = id
  <2>1. CASE table[slot].left # Unused /\ table[slot].id = id
    BY <2>1
  <2>2. CASE \A j \in Slot : table[j].left # Unused => table[j].id # id
    <3>1. PICK j \in Slot : ~(table[j].left > 0)
      BY <1>1, <2>2, SpareSlot
    <3>2. CASE table[slot].left # Unused /\ table[slot].id = id
      BY <3>2
    <3>3. CASE \A i \in Slot : table[slot].left <= table[i].left
      BY <1>4, <3>1, <3>3
    <3> QED
      BY <1>3, <3>2, <3>3
  <2>3. CASE \E j \in Slot : table[j].left # Unused /\ table[j].id = id
    BY <1>3, <2>3
  <2> QED
    BY <2>2, <2>3
<1>8. ASSUME NEW i \in Slot, NEW j \in Slot, table'[i].left # Unused,
             table'[j].left # Unused, table'[i].id = table'[j].id
      PROVE  i = j
  <2>1. CASE i # slot /\ j # slot
    BY <1>6, <1>8, <2>1 DEF TableInv
  <2>2. CASE i = slot \/ j = slot
    BY <1>3, <1>5, <1>6, <1>8, <2>2
  <2> QED
    BY <2>1, <2>2
<1>9. ASSUME NEW e \in Entity, runs'[e].left > 0
      PROVE  \E i \in Slot :
               table'[i] = [id |-> e, sta |-> runs'[e].sta, left |-> runs'[e].left]
  <2>1. CASE e = id
    BY <1>6, <2>1 DEF new
  <2>2. CASE e # id
    <3>1. runs'[e] = runs[e] /\ runs[e].left > 0
      BY <1>6, <1>9, <2>2
    <3>2. PICK i \in Slot :
            table[i] = [id |-> e, sta |-> runs[e].sta, left |-> runs[e].left]
      BY <3>1 DEF TableInv
    <3>3. i # slot
      BY <1>7, <2>2, <3>1, <3>2
    <3> QED
      BY <1>6, <3>1, <3>2, <3>3
  <2> QED
    BY <2>1, <2>2
<1>10. ASSUME NEW i \in Slot, table'[i].left > 0
       PROVE  table'[i].id \in Entity /\ runs'[table'[i].id].left = table'[i].left
  <2>1. CASE i = slot
    BY <1>5, <1>6, <2>1
  <2>2. CASE i # slot
    <3>1. table'[i] = table[i] /\ table[i].left > 0
      BY <1>6, <1>10, <2>2
    <3>2. table[i].id # id
      BY <1>3, <1>4, <2>2, <3>1
    <3> QED
      BY <1>6, <3>1, <3>2 DEF TableInv
  <2> QED
    BY <2>1, <2>2
<1>11. ASSUME NEW e \in Entity, runs'[e].left = 0 PROVE runs'[e].sta = None
  BY <1>4, <1>6, <1>11 DEF TableInv
<1> QED
  BY <1>8, <1>9, <1>10, <1>11 DEF TableInv

\* An entity that departs.
LEMMA TableDeparting ==
  ASSUME ControlType, TableInv, NEW id \in Entity, Departing(id) PROVE TableInv'
<1>1. /\ runs' = [runs EXCEPT ![id] = Gone] /\ Unlearn(id) /\ runs[id].left > 0
  BY DEF Departing
<1>2. /\ \A i \in Slot : table[i] \in Entries /\ table[i].left \in Nat \cup {Unused}
      /\ Unused = -1
  BY DEF ControlType, Entries, Unused
<1>3. PICK slot \in Slot : table[slot].id = id /\ table[slot].left > 0
  <2>1. PICK i \in Slot : table[i] = [id |-> id, sta |-> runs[id].sta, left |-> runs[id].left]
    BY <1>1 DEF TableInv
  <2>2. table[i].id = id /\ table[i].left = runs[id].left
    BY <2>1
  <2> QED
    BY <1>1, <2>2
<1>4. Known(id) = {slot}
  BY <1>2, <1>3 DEF Known, TableInv
<1>5. Min(Known(id)) = slot
  BY <1>4, FirstSlot
<1>6. \A i \in Slot : table'[i] = IF i = slot THEN [table[i] EXCEPT !.left = Unused]
                                  ELSE table[i]
  BY <1>1, <1>4, <1>5 DEF Unlearn
<1>7. /\ table'[slot].left = Unused /\ \A j \in Slot \ {slot} : table'[j] = table[j]
      /\ runs'[id].left = 0 /\ runs'[id].sta = None
      /\ \A e \in Entity \ {id} : runs'[e] = runs[e]
  <2>1. table'[slot].left = Unused
    BY <1>2, <1>6 DEF Entries
  <2> QED
    BY <1>1, <1>6, <2>1 DEF ControlType, Gone
<1>8. ASSUME NEW i \in Slot, NEW j \in Slot, table'[i].left # Unused,
             table'[j].left # Unused, table'[i].id = table'[j].id
      PROVE  i = j
  BY <1>7, <1>8 DEF TableInv
<1>9. ASSUME NEW e \in Entity, runs'[e].left > 0
      PROVE  \E i \in Slot :
               table'[i] = [id |-> e, sta |-> runs'[e].sta, left |-> runs'[e].left]
  <2>1. e # id /\ runs'[e] = runs[e] /\ runs[e].left > 0
    BY <1>7, <1>9
  <2>2. PICK i \in Slot :
          table[i] = [id |-> e, sta |-> runs[e].sta, left |-> runs[e].left]
    BY <2>1 DEF TableInv
  <2>3. i # slot
    BY <1>3, <2>1, <2>2
  <2> QED
    BY <1>7, <2>1, <2>2, <2>3
<1>10. ASSUME NEW i \in Slot, table'[i].left > 0
       PROVE  table'[i].id \in Entity /\ runs'[table'[i].id].left = table'[i].left
  <2>1. i # slot /\ table'[i] = table[i]
    BY <1>2, <1>7, <1>10
  <2>2. table[i].id # id
    BY <1>2, <1>3, <1>10, <2>1 DEF TableInv
  <2> QED
    BY <1>7, <1>10, <2>1, <2>2 DEF TableInv
<1>11. ASSUME NEW e \in Entity, runs'[e].left = 0 PROVE runs'[e].sta = None
  BY <1>7, <1>11 DEF TableInv
<1> QED
  BY <1>8, <1>9, <1>10, <1>11 DEF TableInv

\* Time that passes: an entity is no longer valid when its slot is not.
LEMMA TablePass ==
  ASSUME ControlType, TableInv, Pass PROVE TableInv'
<1>1. /\ \A i \in Slot : table'[i] = [table[i] EXCEPT !.left = IF @ > 0 THEN @ - 1 ELSE @]
      /\ \A e \in Entity : runs'[e] = IF runs[e].left > 1
                                      THEN [runs[e] EXCEPT !.left = @ - 1] ELSE Gone
  BY DEF Pass
<1>2. /\ \A i \in Slot : table[i] \in Entries /\ table[i].left \in Nat \cup {Unused}
      /\ \A e \in Entity : runs[e] \in Runs /\ runs[e].left \in Nat
      /\ Unused = -1
  BY DEF ControlType, Entries, Runs, Unused
<1>3. \A i \in Slot : /\ table'[i].id = table[i].id /\ table'[i].sta = table[i].sta
                      /\ table'[i].left = IF table[i].left > 0 THEN table[i].left - 1
                                          ELSE table[i].left
  BY <1>1, <1>2 DEF Entries
<1>4. \A e \in Entity : runs[e].left > 1 => /\ runs'[e].sta = runs[e].sta
                                            /\ runs'[e].left = runs[e].left - 1
  BY <1>1, <1>2 DEF Runs
<1>5. \A e \in Entity : ~(runs[e].left > 1) => runs'[e].sta = None /\ runs'[e].left = 0
  <2>1. Gone.sta = None /\ Gone.left = 0
    BY DEF Gone
  <2>2. \A e \in Entity : ~(runs[e].left > 1) => runs'[e] = Gone
    BY <1>1
  <2> QED
    BY <2>1, <2>2
<1>6. ASSUME NEW i \in Slot, NEW j \in Slot, table'[i].left # Unused,
             table'[j].left # Unused, table'[i].id = table'[j].id
      PROVE  i = j
  <2>1. table[i].left # Unused /\ table[j].left # Unused
    BY <1>2, <1>3, <1>6
  <2> QED
    BY <1>3, <1>6, <2>1 DEF TableInv
<1>7. ASSUME NEW e \in Entity, runs'[e].left > 0
      PROVE  \E i \in Slot :
               table'[i] = [id |-> e, sta |-> runs'[e].sta, left |-> runs'[e].left]
  <2>1. runs[e].left > 1 /\ runs[e].left > 0
    BY <1>2, <1>5, <1>7
  <2>2. PICK i \in Slot :
          table[i] = [id |-> e, sta |-> runs[e].sta, left |-> runs[e].left]
    BY <2>1 DEF TableInv
  <2>3. table[i].id = e /\ table[i].sta = runs[e].sta /\ table[i].left = runs[e].left
    BY <2>2
  <2>4. table'[i] = [table[i] EXCEPT !.left = runs[e].left - 1]
    BY <1>1, <2>1, <2>3
  <2> QED
    BY <1>4, <2>1, <2>2, <2>4
<1>8. ASSUME NEW i \in Slot, table'[i].left > 0
      PROVE  table'[i].id \in Entity /\ runs'[table'[i].id].left = table'[i].left
  <2>1. table[i].left > 1
    BY <1>2, <1>3, <1>8
  <2>2. table[i].id \in Entity /\ runs[table[i].id].left = table[i].left
    BY <1>2, <2>1 DEF TableInv
  <2> QED
    BY <1>2, <1>3, <1>4, <2>1, <2>2
<1>9. ASSUME NEW e \in Entity, runs'[e].left = 0 PROVE runs'[e].sta = None
  BY <1>2, <1>4, <1>5, <1>9
<1> QED
  BY <1>6, <1>7, <1>8, <1>9 DEF TableInv

LEMMA ControlStutters == [AllNext]_allVars => Control \/ UNCHANGED control
<1>1. \A s \in Stream, cls \in {"A", "B"} : RxStream(s, cls) => UNCHANGED control
  BY DEF RxStream
<1> QED
  BY <1>1 DEF AllNext, Streams, allVars

LEMMA TableStep == ControlType /\ TableInv /\ [AllNext]_allVars => (ControlType /\ TableInv)'
<1> SUFFICES ASSUME ControlType, TableInv, [AllNext]_allVars PROVE (ControlType /\ TableInv)'
  OBVIOUS
<1>1. CASE UNCHANGED control
  BY <1>1 DEF control, ControlType, TableInv
<1>2. CASE Control
  <2>1. ControlType'
    BY <1>2, ControlStepType
  <2>2. (\E m \in Msg : RxAcmp(m)) \/ (\E f \in air : Arrive(f) \/ Lose(f))
          => UNCHANGED <<table, runs>>
    BY DEF RxAcmp, Arrive, Lose
  <2>3. UNCHANGED <<table, runs>> => TableInv'
    BY DEF TableInv
  <2> QED
    BY <1>2, <2>1, <2>2, <2>3, TableAvailable, TableDeparting, TablePass DEF Control
<1> QED
  BY <1>1, <1>2, ControlStutters

\* With no more entities about than the table has slots, the bridge finds the
\* station that runs an entity, and none for any other, whatever moved, departed
\* or went silent (avb_wifi_entity_learn, avb_wifi_entity_station).
THEOREM EntityKnown == AllSpec => []KnownEntity
<1>1. ControlType /\ TableInv => KnownEntity
  <2> SUFFICES ASSUME ControlType, TableInv, NEW id \in Entity
               PROVE  Station(id) = runs[id].sta
    BY DEF KnownEntity
  <2> DEFINE found == {i \in Slot : table[i].left > 0 /\ table[i].id = id}
  <2>0. \A i \in Slot : table[i].left > 0 => table[i].left # Unused
    BY DEF Unused
  <2>1. runs[id].left \in Nat
    BY DEF ControlType, Runs
  <2>2. CASE runs[id].left = 0
    <3>1. found = {}
      BY <2>2 DEF TableInv
    <3> QED
      BY <2>2, <3>1 DEF Station, TableInv
  <2>3. CASE runs[id].left > 0
    <3>1. PICK i \in Slot :
            table[i] = [id |-> id, sta |-> runs[id].sta, left |-> runs[id].left]
      BY <2>3 DEF TableInv
    <3>2. table[i].id = id /\ table[i].sta = runs[id].sta /\ table[i].left > 0
      BY <2>3, <3>1
    <3>3. found = {i}
      BY <2>0, <3>2 DEF TableInv
    <3>4. Min(found) = i
      BY <3>3, FirstSlot
    <3>5. Station(id) = table[Min(found)].sta
      BY <3>3 DEF Station
    <3> QED
      BY <3>2, <3>4, <3>5
  <2> QED
    BY <2>1, <2>2, <2>3
<1>2. AllInit => ControlType /\ TableInv
  BY ControlTypeInit, TableInit DEF AllInit
<1> QED
  BY <1>1, <1>2, TableStep, PTL DEF AllSpec

(***************************************************************************)
(* A message that came twice.                                              *)
(***************************************************************************)
\* An entity is sent no more messages within a window than its ring remembers.
Few ==
  \A e \in Entity :
    LET late == {m \in Msg : Target(m) = e /\ tries[m].since < Window}
    IN  IsFiniteSet(late) /\ Cardinality(late) <= Ring

Young(e, i) == recent[e][i].age < Window

\* The ring holds the messages that came within a window, in the order they
\* came and each once; a copy on the air is of a message just sent.
RecentInv ==
  /\ \A e \in Entity : \A i \in DOMAIN recent[e] : LET m == recent[e][i].msg IN
       Young(e, i) => /\ Target(m) = e /\ tries[m].came
                      /\ tries[m].since = recent[e][i].age
  /\ \A e \in Entity : \A i, j \in DOMAIN recent[e] :
       i < j => recent[e][j].age <= recent[e][i].age
  /\ \A e \in Entity : \A i, j \in DOMAIN recent[e] :
       Young(e, i) /\ Young(e, j) /\ recent[e][i].msg = recent[e][j].msg => i = j
  /\ \A e \in Entity : Len(recent[e]) <= Ring
  /\ \A m \in Msg : tries[m].came /\ tries[m].since < Window => Twice(Target(m), m)
  /\ \A f \in air : tries[f.msg].since = 0
  /\ \A m \in Msg :
       tries[m].answers = IF tries[m].came /\ m.type \in Handled THEN 1 ELSE 0

LEMMA RecentInit == ControlInit => RecentInv
<1> SUFFICES ASSUME ControlInit PROVE RecentInv
  OBVIOUS
<1>1. /\ \A e \in Entity : recent[e] = << >> /\ DOMAIN recent[e] = {} /\ Len(recent[e]) = 0
      /\ air = {}
  BY DEF ControlInit
<1>2. \A m \in Msg : tries[m] = FirstTry
  BY DEF ControlInit
<1>3. ~FirstTry.came /\ FirstTry.answers = 0
  BY DEF FirstTry
<1> QED
  BY <1>1, <1>2, <1>3, BridgeRxAssumption DEF RecentInv

LEMMA TargetFits == \A m \in Msg : Target(m) \in Entity
BY BridgeRxAssumption DEF Target, TargetRole, Role

\* A full ring forgets a message whose window is over.
LEMMA Forgets ==
  ASSUME ControlType, RecentInv, Few, NEW m \in Msg, tries[m].since = 0,
         ~Twice(Target(m), m), Len(recent[Target(m)]) >= Ring
  PROVE  ~Young(Target(m), 1)
<1> DEFINE e == Target(m)
           r == recent[e]
           late == {x \in Msg : Target(x) = e /\ tries[x].since < Window}
           g == [k \in 1..Ring + 1 |-> IF k <= Ring THEN r[k].msg ELSE m]
<1>1. /\ e \in Entity /\ Ring \in Nat \ {0} /\ Window \in Nat \ {0}
      /\ r \in Seq(Memory)
  BY TargetFits, BridgeRxAssumption DEF ControlType
<1>2. Len(r) = Ring /\ DOMAIN r = 1..Ring
  BY <1>1 DEF RecentInv
<1>3. \A k \in 1..Ring : r[k].msg \in Msg /\ r[k].age \in Nat
  <2>1. \A x \in Memory : x.msg \in Msg /\ x.age \in 0..Window
    BY DEF Memory
  <2>2. \A k \in 1..Ring : r[k] \in Memory
    BY <1>1, <1>2, ElementOfSeq
  <2> HIDE DEF r
  <2> QED
    BY <1>1, <2>1, <2>2
<1>4. SUFFICES ASSUME Young(e, 1) PROVE FALSE
  OBVIOUS
<1>5. \A k \in 1..Ring : Young(e, k)
  <2> TAKE k \in 1..Ring
  <2>1. 1 \in DOMAIN r /\ k \in DOMAIN r /\ 1 \in 1..Ring
    BY <1>1, <1>2
  <2>2. k = 1 \/ 1 < k
    OBVIOUS
  <2>3. 1 < k => r[k].age <= r[1].age
    BY <1>1, <2>1 DEF RecentInv
  <2>4. r[1].age \in Nat /\ r[k].age \in Nat
    BY <1>3, <2>1
  <2> QED
    BY <1>1, <1>4, <2>2, <2>3, <2>4 DEF Young
<1>6. \A k \in 1..Ring : /\ Target(r[k].msg) = e
                         /\ tries[r[k].msg].since = r[k].age
                         /\ r[k].age < Window
  BY <1>1, <1>2, <1>5 DEF RecentInv, Young
<1>7. \A k \in 1..Ring : r[k].msg # m
  BY <1>2, <1>6 DEF Twice
<1>8. \A j, k \in 1..Ring : r[j].msg = r[k].msg => j = k
  BY <1>1, <1>2, <1>5 DEF RecentInv
<1>9. IsFiniteSet(late) /\ Cardinality(late) <= Ring
  BY <1>1 DEF Few
<1>10. m \in late /\ \A k \in 1..Ring : r[k].msg \in late
  BY <1>1, <1>3, <1>6
<1> HIDE DEF e, r, late
<1>11. g \in [1..Ring + 1 -> late]
  BY <1>1, <1>10
<1>12. \A j, k \in 1..Ring + 1 : g[j] = g[k] => j = k
  BY <1>1, <1>7, <1>8
<1> HIDE DEF g
<1>13. g \in Injection(1..Ring + 1, late)
  BY <1>11, <1>12 DEF Injection, IsInjective
<1>14. Cardinality(1..Ring + 1) <= Cardinality(late)
  BY <1>9, <1>13, FS_Injection
<1>15. Cardinality(1..Ring + 1) = Ring + 1
  BY <1>1, FS_Interval
<1>16. Cardinality(late) \in Nat
  BY <1>9, FS_CardinalityType
<1> QED
  BY <1>1, <1>9, <1>14, <1>15, <1>16

\* avb_acmp_received_twice remembers a message behind those before it, of which
\* at most the first is forgotten.
LEMMA Remembers ==
  ASSUME NEW r \in Seq(Memory), NEW m \in Msg, Len(r) <= Ring
  PROVE  \E d \in {0, 1} :
           /\ Remembered(r, m) \in Seq(Memory)
           /\ Len(Remembered(r, m)) = Len(r) + 1 - d /\ Len(r) + 1 - d <= Ring
           /\ d = 1 => Len(r) >= Ring /\ Len(r) # 0
           /\ \A k \in 1..Len(r) + 1 - d :
                Remembered(r, m)[k] = IF k + d <= Len(r) THEN r[k + d]
                                      ELSE [msg |-> m, age |-> 0]
<1> DEFINE new == [msg |-> m, age |-> 0]
           all == Append(r, new)
<1>1. new \in Memory /\ Len(r) \in Nat /\ Ring \in Nat \ {0}
  BY BridgeRxAssumption DEF Memory
<1>2. /\ all \in Seq(Memory) /\ Len(all) = Len(r) + 1
      /\ \A k \in 1..Len(r) + 1 : all[k] = IF k <= Len(r) THEN r[k] ELSE new
  <2> HIDE DEF new
  <2> QED
    BY <1>1
<1>3. Remembered(r, m) = IF Len(all) > Ring THEN Tail(all) ELSE all
  BY DEF Remembered
<1> HIDE DEF new, all
<1>4. CASE Len(all) > Ring
  <2>1. /\ Remembered(r, m) = Tail(all) /\ Len(r) >= Ring /\ all # << >>
        /\ Tail(all) \in Seq(Memory) /\ Len(Tail(all)) = Len(r)
        /\ \A k \in 1..Len(r) : Tail(all)[k] = all[k + 1]
    BY <1>1, <1>2, <1>3, <1>4
  <2>2. \A k \in 1..Len(r) : all[k + 1] = IF k + 1 <= Len(r) THEN r[k + 1] ELSE new
    BY <1>1, <1>2
  <2> WITNESS 1 \in {0, 1}
  <2> QED
    BY <1>1, <2>1, <2>2 DEF new
<1>5. CASE ~(Len(all) > Ring)
  <2> WITNESS 0 \in {0, 1}
  <2> QED
    BY <1>1, <1>2, <1>3, <1>5 DEF new
<1> QED
  BY <1>4, <1>5

\* A message that came the first time: it is remembered, and what is forgotten
\* for it no longer matters.
LEMMA FirstArrives ==
  ASSUME ControlType, RecentInv, Few, NEW f \in air, Arrive(f),
         runs[Target(f.msg)].left > 0, f.to \in {"group", runs[Target(f.msg)].sta},
         ~Twice(Target(f.msg), f.msg)
  PROVE  RecentInv'
<1> DEFINE m == f.msg
           e == Target(f.msg)
           r == recent[e]
           new == [msg |-> m, age |-> 0]
<1>1. /\ m \in Msg /\ e \in Entity /\ r \in Seq(Memory) /\ Len(r) <= Ring
      /\ tries[m].since = 0 /\ Window \in Nat \ {0}
  BY TargetFits, BridgeRxAssumption DEF ControlType, RecentInv
<1>2. ~tries[m].came /\ tries[m].answers = 0
  BY <1>1 DEF RecentInv
<1>3. /\ air' = air \ {f} /\ recent' = [recent EXCEPT ![e] = Remembered(@, m)]
      /\ tries' = [tries EXCEPT ![m].came = TRUE,
                                ![m].answers = IF m.type \in Handled THEN @ + 1 ELSE @]
  BY DEF Arrive
<1>4. /\ \A x \in Msg \ {m} : tries'[x] = tries[x]
      /\ tries'[m].came /\ tries'[m].since = 0
      /\ tries'[m].answers = IF m.type \in Handled THEN 1 ELSE 0
  <2>1. tries \in [Msg -> Try] /\ tries[m] \in Try
    BY <1>1 DEF ControlType
  <2>2. tries'[m] = [tries[m] EXCEPT !.came = TRUE,
                       !.answers = IF m.type \in Handled THEN @ + 1 ELSE @]
    BY <1>1, <1>3, <2>1
  <2>3. \A x \in Msg \ {m} : tries'[x] = tries[x]
    BY <1>3, <2>1
  <2>4. tries'[m].since = tries[m].since
    BY <2>1, <2>2 DEF Try
  <2>5. tries'[m].answers = IF m.type \in Handled THEN tries[m].answers + 1
                            ELSE tries[m].answers
    BY <2>1, <2>2 DEF Try
  <2>6. tries'[m].came = TRUE
    BY <2>1, <2>2 DEF Try
  <2> QED
    BY <1>1, <1>2, <2>3, <2>4, <2>5, <2>6
<1>5. recent'[e] = Remembered(r, m) /\ \A x \in Entity \ {e} : recent'[x] = recent[x]
  BY <1>1, <1>3 DEF ControlType
<1>6. PICK d \in {0, 1} :
        /\ recent'[e] \in Seq(Memory)
        /\ Len(recent'[e]) = Len(r) + 1 - d /\ Len(r) + 1 - d <= Ring
        /\ d = 1 => Len(r) >= Ring /\ Len(r) # 0
        /\ \A k \in 1..Len(r) + 1 - d :
             recent'[e][k] = IF k + d <= Len(r) THEN r[k + d] ELSE new
  BY <1>1, <1>5, Remembers
<1>7. d = 1 => ~Young(e, 1)
  BY <1>1, <1>6, Forgets
<1>8. /\ Len(r) \in Nat /\ d \in Nat /\ DOMAIN r = 1..Len(r)
      /\ DOMAIN recent'[e] = 1..Len(r) + 1 - d
      /\ \A k \in 1..Len(r) : r[k] \in Memory /\ r[k].msg \in Msg /\ r[k].age \in Nat
      /\ new.msg = m /\ new.age = 0
  <2>1. \A x \in Memory : x.msg \in Msg /\ x.age \in Nat
    BY DEF Memory
  <2>2. \A k \in 1..Len(r) : r[k] \in Memory
    BY <1>1, ElementOfSeq
  <2>3. DOMAIN r = 1..Len(r) /\ Len(r) \in Nat
    BY <1>1
  <2>4. DOMAIN recent'[e] = 1..Len(r) + 1 - d
    BY <1>6, <2>3
  <2> QED
    BY <1>6, <2>1, <2>2, <2>3, <2>4
<1> HIDE DEF m, e, r, new
\* An index of the ring afterwards is the new message or an older one.
<1>9. \A k \in DOMAIN recent'[e] :
        \/ k = Len(r) + 1 - d /\ recent'[e][k] = new
        \/ k + d \in DOMAIN r /\ k + d <= Len(r) /\ recent'[e][k] = r[k + d]
  BY <1>6, <1>8
<1>10. \A k \in DOMAIN r : Young(e, k) => r[k].msg # m
  BY <1>8 DEF Twice, Young, r, e, m
<1>11. \A k \in DOMAIN r : /\ Young(e, k) <=> r[k].age < Window
                           /\ Young(e, k) =>
                                /\ Target(r[k].msg) = e /\ tries[r[k].msg].came
                                /\ tries[r[k].msg].since = r[k].age
  BY <1>1 DEF RecentInv, Young, r
<1>12. ASSUME NEW x \in Entity, NEW k \in DOMAIN recent'[x], recent'[x][k].age < Window
       PROVE  LET msg == recent'[x][k].msg
              IN  /\ Target(msg) = x /\ tries'[msg].came
                  /\ tries'[msg].since = recent'[x][k].age
  <2>0. Target(m) = e
    BY DEF e, m
  <2>1. CASE x = e /\ recent'[e][k] = new
    BY <1>4, <1>8, <2>0, <2>1
  <2>2. CASE x = e /\ recent'[e][k] # new
    <3>1. k + d \in DOMAIN r /\ recent'[e][k] = r[k + d]
      BY <1>9, <1>12, <2>2
    <3>2. Young(e, k + d) /\ r[k + d].msg # m /\ r[k + d].msg \in Msg
      BY <1>8, <1>10, <1>11, <1>12, <2>2, <3>1
    <3> QED
      BY <1>4, <1>11, <2>2, <3>1, <3>2
  <2>3. CASE x # e
    <3>1. recent'[x] = recent[x]
      BY <1>5, <2>3
    <3>2. Young(x, k) /\ recent[x][k].msg \in Msg
      <4>1. recent[x] \in Seq(Memory)
        BY DEF ControlType
      <4>2. recent[x][k] \in Memory
        BY <1>12, <3>1, <4>1
      <4> QED
        BY <1>12, <3>1, <4>2 DEF Young, Memory
    <3>3. /\ Target(recent[x][k].msg) = x /\ tries[recent[x][k].msg].came
          /\ tries[recent[x][k].msg].since = recent[x][k].age
      BY <1>12, <3>1, <3>2 DEF RecentInv
    <3>4. recent[x][k].msg # m
      BY <2>0, <2>3, <3>3
    <3> QED
      BY <1>4, <3>1, <3>2, <3>3, <3>4
  <2> QED
    BY <2>1, <2>2, <2>3
<1>13. ASSUME NEW x \in Entity, NEW i \in DOMAIN recent'[x], NEW j \in DOMAIN recent'[x],
              i < j
       PROVE  recent'[x][j].age <= recent'[x][i].age
  <2>1. CASE x # e
    BY <1>5, <1>13, <2>1 DEF RecentInv
  <2>2. CASE x = e
    <3>0. \A a, b \in DOMAIN r : a < b => r[b].age <= r[a].age
      BY <1>1 DEF RecentInv, r
    <3>1. i + d \in DOMAIN r /\ recent'[e][i] = r[i + d]
      BY <1>8, <1>9, <1>13, <2>2
    <3>2. CASE recent'[e][j] = new
      BY <1>8, <2>2, <3>1, <3>2
    <3>3. CASE j + d \in DOMAIN r /\ recent'[e][j] = r[j + d]
      <4>1. i + d < j + d
        BY <1>8, <1>13, <2>2
      <4> QED
        BY <2>2, <3>0, <3>1, <3>3, <4>1
    <3> QED
      BY <1>9, <1>13, <2>2, <3>2, <3>3
  <2> QED
    BY <2>1, <2>2
<1>14. ASSUME NEW x \in Entity, NEW i \in DOMAIN recent'[x], NEW j \in DOMAIN recent'[x],
              recent'[x][i].age < Window, recent'[x][j].age < Window,
              recent'[x][i].msg = recent'[x][j].msg
       PROVE  i = j
  <2>1. CASE x # e
    BY <1>5, <1>14, <2>1 DEF RecentInv, Young
  <2>2. CASE x = e
    <3>1. \A k \in DOMAIN recent'[e] : recent'[e][k].age < Window =>
            \/ k = Len(r) + 1 - d /\ recent'[e][k].msg = m
            \/ k + d \in DOMAIN r /\ Young(e, k + d)
                 /\ recent'[e][k].msg = r[k + d].msg /\ r[k + d].msg # m
      BY <1>8, <1>9, <1>10, <1>11
    <3>2. \A a, b \in DOMAIN r : Young(e, a) /\ Young(e, b) /\ r[a].msg = r[b].msg => a = b
      BY <1>1 DEF RecentInv, r
    <3>3. CASE recent'[e][i].msg = m
      BY <1>14, <2>2, <3>1, <3>3
    <3>4. CASE recent'[e][i].msg # m
      <4>1. i + d = j + d
        BY <1>14, <2>2, <3>1, <3>2, <3>4
      <4> QED
        BY <1>8, <2>2, <4>1
    <3> QED
      BY <3>3, <3>4
  <2> QED
    BY <2>1, <2>2
<1>15. ASSUME NEW x \in Entity PROVE Len(recent'[x]) <= Ring
  BY <1>5, <1>6, <1>15 DEF RecentInv
<1>16. ASSUME NEW x \in Msg, tries'[x].came, tries'[x].since < Window
       PROVE  \E k \in DOMAIN recent'[Target(x)] :
                recent'[Target(x)][k].msg = x /\ recent'[Target(x)][k].age < Window
  <2>1. CASE x = m
    <3>1. Target(x) = e
      BY <2>1 DEF e, m
    <3>2. Len(r) + 1 - d \in DOMAIN recent'[e]
      BY <1>6, <1>8
    <3>3. recent'[e][Len(r) + 1 - d] = new
      BY <1>6, <1>8, <3>2
    <3> QED
      BY <1>1, <1>8, <2>1, <3>1, <3>2, <3>3
  <2>2. CASE x # m
    <3>1. Twice(Target(x), x)
      BY <1>4, <1>16, <2>2 DEF RecentInv
    <3>2. CASE Target(x) # e
      <4>1. Target(x) \in Entity
        BY TargetFits
      <4> QED
        BY <1>5, <3>1, <3>2, <4>1 DEF Twice
    <3>3. CASE Target(x) = e
      <4>1. PICK k \in DOMAIN r : r[k].msg = x /\ r[k].age < Window
        BY <3>1, <3>3 DEF Twice, r
      <4>2. ~(d = 1 /\ k = 1)
        BY <1>7, <1>11, <4>1
      <4>3. k - d \in DOMAIN recent'[e] /\ (k - d) + d <= Len(r) /\ (k - d) + d = k
        BY <1>8, <4>1, <4>2
      <4>4. recent'[e][k - d] = r[k]
        BY <1>6, <1>8, <4>3
      <4> QED
        BY <3>3, <4>1, <4>3, <4>4
    <3> QED
      BY <3>2, <3>3
  <2> QED
    BY <2>1, <2>2
<1>17. ASSUME NEW g \in air' PROVE tries'[g.msg].since = 0
  <2>1. g \in air /\ g.msg \in Msg
    BY <1>3 DEF ControlType
  <2>2. tries[g.msg].since = 0
    BY <2>1 DEF RecentInv
  <2> QED
    BY <1>4, <2>1, <2>2
<1>18. ASSUME NEW x \in Msg
       PROVE  tries'[x].answers = IF tries'[x].came /\ x.type \in Handled THEN 1 ELSE 0
  BY <1>4, <1>18 DEF RecentInv
<1> QED
  BY <1>12, <1>13, <1>14, <1>15, <1>16, <1>17, <1>18 DEF RecentInv, Young, Twice

\* A copy of a message that came already: nothing is remembered or answered.
LEMMA AgainArrives ==
  ASSUME ControlType, RecentInv, NEW f \in air, Arrive(f),
         runs[Target(f.msg)].left > 0, f.to \in {"group", runs[Target(f.msg)].sta},
         Twice(Target(f.msg), f.msg)
  PROVE  UNCHANGED <<recent, tries>> /\ air' = air \ {f}
<1> DEFINE m == f.msg
           e == Target(f.msg)
<1>1. m \in Msg /\ e \in Entity /\ tries[m] \in Try /\ tries \in [Msg -> Try]
  BY TargetFits DEF ControlType
<1>2. /\ recent' = recent /\ air' = air \ {f}
      /\ tries' = [tries EXCEPT ![m].came = TRUE, ![m].answers = @]
  BY DEF Arrive
<1>3. tries[m].came = TRUE
  <2>1. PICK i \in DOMAIN recent[e] : recent[e][i].msg = m /\ Young(e, i)
    BY DEF Twice, Young
  <2>2. tries[m].came
    BY <1>1, <2>1 DEF RecentInv
  <2>3. tries[m].came \in BOOLEAN
    BY <1>1 DEF Try
  <2> QED
    BY <2>2, <2>3
<1> HIDE DEF m
<1>4. [tries[m] EXCEPT !.came = TRUE, !.answers = @] = tries[m]
  BY <1>1, <1>3 DEF Try
<1>5. tries' = [tries EXCEPT ![m] = [tries[m] EXCEPT !.came = TRUE, !.answers = @]]
  BY <1>2
<1> QED
  BY <1>1, <1>2, <1>4, <1>5

\* A command, or its retry: the window of what came of it before is over.
LEMMA RecentRxAcmp ==
  ASSUME Window <= Retry, ControlType, RecentInv, NEW m \in Msg, RxAcmp(m)
  PROVE  RecentInv'
<1>1. /\ recent' = recent /\ tries[m].since >= Retry
      /\ tries' = [tries EXCEPT ![m] = [FirstTry EXCEPT !.since = 0]]
      /\ \A g \in air' : g \in air \/ g.msg = m
  BY DEF RxAcmp
<1>2. /\ tries \in [Msg -> Try] /\ Window \in Nat \ {0} /\ Retry \in Nat
      /\ \A x \in Msg : tries[x].since \in Nat
  BY BridgeRxAssumption DEF ControlType, Try
<1>3. /\ \A x \in Msg \ {m} : tries'[x] = tries[x]
      /\ ~tries'[m].came /\ tries'[m].since = 0 /\ tries'[m].answers = 0
  <2>1. /\ ~FirstTry.came /\ FirstTry.answers = 0
        /\ FirstTry = [since |-> FirstTry.since, came |-> FirstTry.came,
                       answers |-> FirstTry.answers]
    BY DEF FirstTry
  <2>2. tries'[m] = [FirstTry EXCEPT !.since = 0]
    BY <1>1, <1>2
  <2> QED
    BY <1>1, <1>2, <2>1, <2>2
<1>4. ASSUME NEW e \in Entity, NEW i \in DOMAIN recent[e], Young(e, i)
      PROVE  recent[e][i].msg \in Msg \ {m}
  <2>1. recent[e] \in Seq(Memory)
    BY DEF ControlType
  <2>2. recent[e][i] \in Memory
    BY <1>4, <2>1
  <2>3. recent[e][i].msg \in Msg
    BY <2>2 DEF Memory
  <2>4. tries[recent[e][i].msg].since < Window
    BY <1>4 DEF RecentInv, Young
  <2> QED
    BY <1>1, <1>2, <2>3, <2>4
<1>5. \A g \in air' : tries'[g.msg].since = 0
  BY <1>1, <1>3 DEF RecentInv, ControlType
<1>6. \A e \in Entity : \A i \in DOMAIN recent'[e] : LET x == recent'[e][i].msg IN
        recent'[e][i].age < Window =>
          Target(x) = e /\ tries'[x].came /\ tries'[x].since = recent'[e][i].age
  BY <1>1, <1>3, <1>4 DEF RecentInv, Young
<1>7. \A x \in Msg : tries'[x].came /\ tries'[x].since < Window => Twice(Target(x), x)'
  BY <1>1, <1>3 DEF RecentInv, Twice
<1>8. \A x \in Msg :
        tries'[x].answers = IF tries'[x].came /\ x.type \in Handled THEN 1 ELSE 0
  BY <1>3 DEF RecentInv
<1> QED
  BY <1>1, <1>5, <1>6, <1>7, <1>8 DEF RecentInv, Young

\* Time passes: a message and what is remembered of it age together.
LEMMA RecentPass ==
  ASSUME Window <= Retry, ControlType, RecentInv, Pass PROVE RecentInv'
<1>1. /\ air' = {}
      /\ recent' = [e \in Entity |-> [i \in DOMAIN recent[e] |->
                      [recent[e][i] EXCEPT !.age = Aged(@, Window)]]]
      /\ tries' = [m \in Msg |-> [tries[m] EXCEPT !.since = Aged(@, Retry)]]
  BY DEF Pass
<1>2. /\ Window \in Nat \ {0} /\ Retry \in Nat
      /\ \A m \in Msg : tries[m] \in Try /\ tries[m].since \in 0..Retry
  BY BridgeRxAssumption DEF ControlType, Try
<1>3. ASSUME NEW e \in Entity
      PROVE  /\ DOMAIN recent'[e] = DOMAIN recent[e]
             /\ Len(recent'[e]) = Len(recent[e])
             /\ \A i \in DOMAIN recent[e] :
                  /\ recent[e][i].msg \in Msg /\ recent[e][i].age \in 0..Window
                  /\ recent'[e][i].msg = recent[e][i].msg
                  /\ recent'[e][i].age = Aged(recent[e][i].age, Window)
  <2>1. recent[e] \in Seq(Memory) /\ \A i \in DOMAIN recent[e] : recent[e][i] \in Memory
    BY DEF ControlType
  <2>2. recent'[e] = [i \in DOMAIN recent[e] |->
                        [recent[e][i] EXCEPT !.age = Aged(@, Window)]]
    BY <1>1
  <2>3. DOMAIN recent[e] = 1..Len(recent[e]) /\ Len(recent[e]) \in Nat
    BY <2>1
  <2>4. Len(recent'[e]) = Len(recent[e])
    BY <2>2, <2>3
  <2>5. \A x \in Memory : /\ x.msg \in Msg /\ x.age \in 0..Window
                          /\ [x EXCEPT !.age = Aged(@, Window)].msg = x.msg
                          /\ [x EXCEPT !.age = Aged(@, Window)].age = Aged(x.age, Window)
    BY DEF Memory
  <2> QED
    BY <2>1, <2>2, <2>4, <2>5
<1>4. \A m \in Msg : /\ tries'[m].came = tries[m].came
                     /\ tries'[m].answers = tries[m].answers
                     /\ tries'[m].since = Aged(tries[m].since, Retry)
  BY <1>1, <1>2 DEF Try
<1>5. /\ \A n \in 0..Window : /\ Aged(n, Window) < Window => n < Window
                              /\ n < Window => Aged(n, Window) = n + 1
      /\ \A n \in 0..Retry : n < Window => Aged(n, Retry) = n + 1
      /\ \A n \in 0..Retry : Aged(n, Retry) < Window => Aged(n, Retry) = n + 1
      /\ \A a, b \in 0..Window : a <= b => Aged(a, Window) <= Aged(b, Window)
  BY <1>2 DEF Aged
<1>6. ASSUME NEW e \in Entity, NEW i \in DOMAIN recent'[e], recent'[e][i].age < Window
      PROVE  LET x == recent'[e][i].msg
             IN  Target(x) = e /\ tries'[x].came /\ tries'[x].since = recent'[e][i].age
  <2> DEFINE x == recent[e][i].msg
  <2>1. i \in DOMAIN recent[e] /\ x \in Msg /\ recent[e][i].age \in 0..Window
        /\ recent'[e][i].msg = x /\ recent'[e][i].age = Aged(recent[e][i].age, Window)
    BY <1>3, <1>6
  <2>2. recent[e][i].age < Window
    BY <1>5, <1>6, <2>1
  <2>3. Target(x) = e /\ tries[x].came /\ tries[x].since = recent[e][i].age
    BY <2>1, <2>2 DEF RecentInv, Young
  <2>4. tries'[x].since = recent'[e][i].age
    BY <1>2, <1>4, <1>5, <2>1, <2>2, <2>3
  <2> QED
    BY <1>4, <2>1, <2>3, <2>4
<1>7. ASSUME NEW e \in Entity, NEW i \in DOMAIN recent'[e], NEW j \in DOMAIN recent'[e],
             i < j
      PROVE  recent'[e][j].age <= recent'[e][i].age
  <2>1. recent[e][j].age <= recent[e][i].age
    BY <1>3, <1>7 DEF RecentInv
  <2> QED
    BY <1>3, <1>5, <1>7, <2>1
<1>8. ASSUME NEW e \in Entity, NEW i \in DOMAIN recent'[e], NEW j \in DOMAIN recent'[e],
             recent'[e][i].age < Window, recent'[e][j].age < Window,
             recent'[e][i].msg = recent'[e][j].msg
      PROVE  i = j
  <2>1. recent[e][i].age < Window /\ recent[e][j].age < Window
    BY <1>3, <1>5, <1>8
  <2> QED
    BY <1>3, <1>8, <2>1 DEF RecentInv, Young
<1>9. \A e \in Entity : Len(recent'[e]) <= Ring
  BY <1>3 DEF RecentInv
<1>10. ASSUME NEW m \in Msg, tries'[m].came, tries'[m].since < Window
       PROVE  Twice(Target(m), m)'
  <2>1. tries[m].came /\ tries'[m].since = tries[m].since + 1 /\ tries[m].since < Window
    BY <1>2, <1>4, <1>5, <1>10
  <2>2. PICK i \in DOMAIN recent[Target(m)] :
          recent[Target(m)][i].msg = m /\ recent[Target(m)][i].age < Window
    BY <2>1 DEF RecentInv, Twice
  <2>3. Target(m) \in Entity
    BY TargetFits
  <2>4. recent[Target(m)][i].age = tries[m].since
    BY <2>2, <2>3 DEF RecentInv, Young
  <2>5. recent'[Target(m)][i].age < Window
    BY <1>3, <1>5, <1>10, <2>1, <2>2, <2>3, <2>4
  <2> QED
    BY <1>3, <2>2, <2>3, <2>5 DEF Twice
<1>11. \A m \in Msg :
         tries'[m].answers = IF tries'[m].came /\ m.type \in Handled THEN 1 ELSE 0
  BY <1>4 DEF RecentInv
<1>12. /\ \A f \in air' : tries'[f.msg].since = 0
       /\ \A m \in Msg : tries'[m].came /\ tries'[m].since < Window
                           => Twice(Target(m), m)'
  BY <1>1, <1>10
<1>13. /\ \A e \in Entity : \A i \in DOMAIN recent'[e] :
            LET x == recent'[e][i].msg
            IN  recent'[e][i].age < Window
                  => /\ Target(x) = e /\ tries'[x].came
                     /\ tries'[x].since = recent'[e][i].age
       /\ \A e \in Entity : \A i, j \in DOMAIN recent'[e] :
            i < j => recent'[e][j].age <= recent'[e][i].age
       /\ \A e \in Entity : \A i, j \in DOMAIN recent'[e] :
            /\ recent'[e][i].age < Window /\ recent'[e][j].age < Window
            /\ recent'[e][i].msg = recent'[e][j].msg
            => i = j
  BY <1>6, <1>7, <1>8
<1> QED
  BY <1>9, <1>11, <1>12, <1>13 DEF RecentInv, Young

LEMMA RecentStep ==
  ASSUME Window <= Retry
  PROVE  ControlType /\ RecentInv /\ Few /\ [AllNext]_allVars => RecentInv'
<1> SUFFICES ASSUME ControlType, RecentInv, Few, [AllNext]_allVars PROVE RecentInv'
  OBVIOUS
<1>1. ASSUME UNCHANGED <<recent, tries>>, air' \subseteq air PROVE RecentInv'
  BY <1>1 DEF RecentInv, Young, Twice
<1>2. CASE UNCHANGED control
  BY <1>1, <1>2 DEF control
<1>3. ASSUME NEW id \in Entity, Departing(id) \/ \E sta \in Sta : Available(id, sta)
      PROVE  RecentInv'
  BY <1>1, <1>3 DEF Departing, Available
<1>4. ASSUME NEW f \in air, Lose(f) PROVE RecentInv'
  BY <1>1, <1>4 DEF Lose
<1>5. ASSUME NEW f \in air, Arrive(f) PROVE RecentInv'
  <2>1. CASE ~(runs[Target(f.msg)].left > 0 /\ f.to \in {"group", runs[Target(f.msg)].sta})
    BY <1>1, <1>5, <2>1 DEF Arrive
  <2>2. CASE runs[Target(f.msg)].left > 0 /\ f.to \in {"group", runs[Target(f.msg)].sta}
    BY <1>1, <1>5, <2>2, FirstArrives, AgainArrives
  <2> QED
    BY <2>1, <2>2
<1> QED
  BY <1>2, <1>3, <1>4, <1>5, ControlStutters, RecentRxAcmp, RecentPass DEF Control

\* A message that came to its station, once or twice, over the group address or
\* its own, is answered once, and a retry of it again: when a controller waits
\* out the window before it repeats a command, and an entity is sent no more
\* messages within one than its ring remembers (avb_acmp_received_twice).
THEOREM AnswersOnce ==
  ASSUME Window <= Retry
  PROVE  AllSpec /\ []Few => []AnsweredOnce
<1>1. RecentInv => AnsweredOnce
  BY DEF RecentInv, AnsweredOnce
<1>2. AllInit => ControlType /\ TableInv /\ RecentInv
  BY ControlTypeInit, TableInit, RecentInit DEF AllInit
<1>3. ControlType /\ TableInv /\ RecentInv /\ Few /\ [AllNext]_allVars
        => (ControlType /\ TableInv /\ RecentInv)'
  BY TableStep, RecentStep
<1> QED
  BY <1>1, <1>2, <1>3, PTL DEF AllSpec

(***************************************************************************)
(* The pacer (Pacer).  What holds of its entries whatever was sent.        *)
(***************************************************************************)
Frame  == [n : Nat, age : Nat, how : {"paced", "early", "unpaced"}]
Pacing == [stream : Stream \cup {None}, slots : BOOLEAN,
           slot : [0..Depth - 1 -> Nat], head : 0..Depth - 1, count : 0..Depth,
           flight : Nat, max : Nat, sent : Seq(Nat), interval : Nat \ {0},
           idle : Nat]
Forwarding == {Resting} \cup [at : {"queue", "send"}, entry : Entry, n : Nat]
                \cup [at : {"head"}, entry : Entry, n : Nat, slot : 0..Depth - 1]
Drainings == {Resting} \cup [at : {"look"}] \cup [at : {"arm"}, wait : Nat]
               \cup [at : {"send"}, entry : Entry, slot : 0..Depth - 1, n : Nat]

PacerType ==
  /\ pacer \in [Entry -> Pacing]
  /\ rx \in Forwarding
  /\ drain \in [Task -> Drainings]
  /\ talker \in [Stream -> [sent : Nat, tspec : Tspecs]]
  /\ wire \in [Stream -> [recent : Seq(Frame), crossed : BOOLEAN]]

\* The frames of e that a task has taken and not yet sent.
OneIf(b) == IF b THEN 1 ELSE 0
RxOut(e) == rx.at \in {"send", "head"} /\ rx.entry = e
TaskOut(k, e) == drain[k].at = "send" /\ drain[k].entry = e
Out(e) == OneIf(RxOut(e)) + OneIf(TaskOut("rx", e)) + OneIf(TaskOut("timer", e))

EntryOk(p) ==
  /\ p.count + p.flight <= Depth
  /\ p.stream = None => p.count = 0 /\ p.flight = 0
  /\ p.stream # None => p.max > 0 /\ p.interval = Interval[p.stream]
  /\ Len(p.sent) = p.max

\* One task forwards and drains, or the other does; what the forwarding task
\* has in hand is the newest frame of the stream of its entry.
PacerInv ==
  /\ \A e \in Entry : EntryOk(pacer[e]) /\ pacer[e].flight = Out(e)
  /\ \A e, f \in Entry :
       pacer[e].stream = pacer[f].stream /\ pacer[e].stream # None => e = f
  /\ rx.at # "off" => /\ drain["rx"].at = "off"
                      /\ pacer[rx.entry].stream # None
                      /\ rx.n = talker[pacer[rx.entry].stream].sent
                      /\ rx.at = "send" => pacer[rx.entry].count = 0
  /\ \A j, k \in Task :
       drain[j].at \in {"look", "send"} /\ drain[k].at \in {"look", "send"}
       => j = k

(***************************************************************************)
(* The order of the frames.                                                *)
(***************************************************************************)
\* The newest frame that is in the queue, on its way out or out.
Newest(e) ==
  talker[pacer[e].stream].sent
    - OneIf(rx.at \in {"queue", "head"} /\ rx.entry = e)

\* The j-th place of the ring from place h on.
At(h, j) == (h + j) % Depth

\* The queue holds the newest frames in order.
QueueLine(p, newest) ==
  \A j \in 0..p.count - 1 : p.slot[At(p.head, j)] = newest - p.count + 1 + j

\* A task sends from slot q of e.
From(e, q) ==
  \/ rx.at = "head" /\ rx.entry = e /\ rx.slot = q
  \/ \E k \in Task : TaskOut(k, e) /\ drain[k].slot = q

\* What is sent from slot q is the frame before those in the queue.
Before(p, q, newest) ==
  At(q, 1) = p.head /\ p.slot[q] = newest - p.count

\* Frames leave one after the other.
Consecutive(r) == \A i \in 2..Len(r) : r[i].n = r[i - 1].n + 1

EntryLine(e) ==
  LET p == pacer[e]  r == wire[pacer[e].stream].recent IN
  /\ p.flight <= 1
  /\ QueueLine(p, Newest(e))
  /\ \A q \in 0..Depth - 1 : From(e, q) => Before(p, q, Newest(e))
  /\ r # << >> => r[Len(r)].n = Newest(e) - p.count - p.flight

StreamLine(s) ==
  LET r == wire[s].recent IN
  /\ Consecutive(r)
  /\ \A e \in Of(s) : EntryLine(e)
  /\ Of(s) = {} /\ r # << >> => r[Len(r)].n = talker[s].sent

OrderInv == \A s \in Stream : ~wire[s].crossed => StreamLine(s)

(***************************************************************************)
(* Places in the ring, and what a change of an entry leaves.               *)
(***************************************************************************)
LEMMA DepthType == Depth \in Nat /\ Depth > 1
BY PacerAssumption

LEMMA RingWrap ==
  ASSUME NEW x \in 0..(2 * Depth - 1)
  PROVE  x % Depth = IF x < Depth THEN x ELSE x - Depth
BY DepthType

LEMMA PlaceIs ==
  ASSUME NEW h \in 0..Depth - 1, NEW j \in 0..Depth
  PROVE  /\ At(h, j) = IF h + j < Depth THEN h + j ELSE h + j - Depth
         /\ At(h, j) \in 0..Depth - 1
<1> DEFINE x == h + j
<1>1. x \in 0..(2 * Depth - 1)
  BY DepthType
<1> HIDE DEF x
<1>2. x % Depth = IF x < Depth THEN x ELSE x - Depth
  BY <1>1, RingWrap
<1>3. x % Depth \in 0..Depth - 1
  BY <1>1, <1>2, DepthType
<1> QED
  BY <1>2, <1>3, DepthType DEF x, At

\* The head moves on by one, and no two places of the queue are the same slot.
LEMMA NextPlace ==
  ASSUME NEW h \in 0..Depth - 1, NEW j \in 0..Depth - 1
  PROVE  At(At(h, 1), j) = At(h, j + 1)
<1> DEFINE g == At(h, 1)
<1>1. 1 \in 0..Depth /\ j + 1 \in 0..Depth /\ j \in 0..Depth
  BY DepthType
<1>2. g = (IF h + 1 < Depth THEN h + 1 ELSE h + 1 - Depth) /\ g \in 0..Depth - 1
  BY <1>1, PlaceIs
<1> HIDE DEF g
<1>3. At(g, j) = IF g + j < Depth THEN g + j ELSE g + j - Depth
  BY <1>1, <1>2, PlaceIs
<1>4. At(h, j + 1)
        = IF h + (j + 1) < Depth THEN h + (j + 1) ELSE h + (j + 1) - Depth
  BY <1>1, PlaceIs
<1>5. At(g, j) = At(h, j + 1)
  BY <1>2, <1>3, <1>4, DepthType
<1> QED
  BY <1>5 DEF g

LEMMA OtherPlace ==
  ASSUME NEW h \in 0..Depth - 1, NEW i \in 0..Depth - 1, NEW j \in 0..Depth - 1,
         i # j
  PROVE  At(h, i) # At(h, j)
<1>1. i \in 0..Depth /\ j \in 0..Depth
  BY DepthType
<1>2. /\ At(h, i) = IF h + i < Depth THEN h + i ELSE h + i - Depth
      /\ At(h, j) = IF h + j < Depth THEN h + j ELSE h + j - Depth
  BY <1>1, PlaceIs
<1> QED
  BY <1>2, DepthType

LEMMA NotedIs ==
  ASSUME NEW p \in Pacing, p.max > 0, Len(p.sent) = p.max
  PROVE  /\ Noted(p) \in Pacing
         /\ Noted(p) = [p EXCEPT !.sent = Append(Tail(p.sent), 0)]
         /\ Len(Noted(p).sent) = p.max
<1>1. p.sent \in Seq(Nat) /\ p.max \in Nat /\ p.sent # << >>
  BY DEF Pacing
<1>2. Append(Tail(p.sent), 0) \in Seq(Nat) /\ Len(Append(Tail(p.sent), 0)) = p.max
  BY <1>1
<1> QED
  BY <1>2 DEF Noted, Pacing

LEMMA TakenIs ==
  ASSUME NEW p \in Pacing, EntryOk(p), p.count > 0
  PROVE  /\ Taken(p) \in Pacing /\ EntryOk(Taken(p))
         /\ Taken(p).head = At(p.head, 1)
         /\ Taken(p).count = p.count - 1 /\ Taken(p).flight = p.flight + 1
         /\ Taken(p).slot = p.slot /\ Taken(p).stream = p.stream
         /\ Taken(p).max = p.max /\ Taken(p).interval = p.interval
         /\ Taken(p).sent = Noted(p).sent
<1>1. p.max > 0 /\ Len(p.sent) = p.max
  BY DEF EntryOk, Pacing
<1>2. Noted(p) \in Pacing /\ Len(Noted(p).sent) = p.max
      /\ Noted(p) = [p EXCEPT !.sent = Append(Tail(p.sent), 0)]
  BY <1>1, NotedIs
<1>3. At(p.head, 1) \in 0..Depth - 1
  BY PlaceIs, DepthType DEF Pacing
<1> DEFINE q == Noted(p)
<1>4. Taken(p) = [q EXCEPT !.head = At(q.head, 1), !.count = q.count - 1,
                           !.flight = q.flight + 1]
  BY DEF Taken, At
<1>5. /\ q \in Pacing /\ q.head = p.head /\ q.count = p.count /\ q.flight = p.flight
      /\ q.slot = p.slot /\ q.stream = p.stream /\ q.max = p.max
      /\ q.interval = p.interval /\ Len(q.sent) = q.max
  BY <1>2 DEF Pacing
<1> HIDE DEF q
<1> DEFINE h == At(q.head, 1)  c == q.count - 1  f == q.flight + 1
<1>6. h \in 0..Depth - 1 /\ c \in 0..Depth /\ f \in Nat
  <2>1. p.count \in 0..Depth /\ p.flight \in Nat
    BY DEF Pacing
  <2>2. c \in 0..Depth
    BY <2>1, <1>5, DepthType
  <2>3. f \in Nat
    BY <2>1, <1>5
  <2>4. h \in 0..Depth - 1
    BY <1>3, <1>5
  <2> QED
    BY <2>2, <2>3, <2>4
<1>7. /\ h = At(p.head, 1) /\ c = p.count - 1 /\ f = p.flight + 1
  BY <1>5
<1> HIDE DEF h, c, f
<1>8. /\ [q EXCEPT !.head = h, !.count = c, !.flight = f] \in Pacing
      /\ LET t == [q EXCEPT !.head = h, !.count = c, !.flight = f]
         IN  /\ t.head = h /\ t.count = c /\ t.flight = f /\ t.slot = q.slot
             /\ t.stream = q.stream /\ t.max = q.max
             /\ t.interval = q.interval /\ t.sent = q.sent
  BY <1>5, <1>6 DEF Pacing
<1>9. Taken(p) = [q EXCEPT !.head = h, !.count = c, !.flight = f]
  BY <1>4 DEF h, c, f
<1>10. /\ Taken(p) \in Pacing
       /\ Taken(p).head = At(p.head, 1)
       /\ Taken(p).count = p.count - 1 /\ Taken(p).flight = p.flight + 1
       /\ Taken(p).slot = p.slot /\ Taken(p).stream = p.stream
       /\ Taken(p).max = p.max /\ Taken(p).interval = p.interval
       /\ Taken(p).sent = q.sent
  BY <1>5, <1>7, <1>8, <1>9
<1>11. p.count \in Int /\ p.flight \in Int
  BY DEF Pacing
<1>12. EntryOk(Taken(p))
  BY <1>5, <1>10, <1>11, DepthType DEF EntryOk
<1> QED
  BY <1>10, <1>12 DEF q

LEMMA UsedIs ==
  ASSUME NEW p \in Pacing, NEW s \in Stream, talker[s].tspec \in Nat \ {0},
         Len(p.sent) = p.max \/ p.max = 0, p.count + p.flight <= Depth
  PROVE  /\ Used(p, s) \in Pacing /\ EntryOk(Used(p, s))
         /\ Used(p, s).stream = s /\ Used(p, s).slot = p.slot
         /\ Used(p, s).head = p.head /\ Used(p, s).count = p.count
         /\ Used(p, s).flight = p.flight /\ Used(p, s).max = talker[s].tspec
         /\ Used(p, s).interval = Interval[s]
         /\ Used(p, s).sent = IF p.max = talker[s].tspec THEN p.sent
                              ELSE [i \in 1..talker[s].tspec |-> Interval[s]]
<1> DEFINE max == talker[s].tspec
           fresh == [i \in 1..max |-> Interval[s]]
           sent == IF p.max = max THEN p.sent ELSE fresh
<1>1. Interval[s] \in Nat \ {0} /\ s # None
  BY PacerAssumption
<1>2. fresh \in Seq(Nat) /\ Len(fresh) = max
  BY <1>1
<1>3. sent \in Seq(Nat) /\ Len(sent) = max
  BY <1>2 DEF Pacing
<1>4. Used(p, s) = [p EXCEPT !.stream = s, !.interval = Interval[s], !.idle = 0,
                             !.max = max, !.sent = sent]
  BY DEF Used, Pacing
<1> HIDE DEF max, fresh, sent
<1>5. max \in Nat /\ max > 0
  BY DEF max
<1> DEFINE u == [p EXCEPT !.stream = s, !.interval = Interval[s], !.idle = 0,
                          !.max = max, !.sent = sent]
<1>6. /\ u \in Pacing
      /\ u.stream = s /\ u.slot = p.slot /\ u.head = p.head /\ u.count = p.count
      /\ u.flight = p.flight /\ u.max = max /\ u.interval = Interval[s]
      /\ u.sent = sent
  BY <1>1, <1>3, <1>5 DEF Pacing
<1>7. /\ Used(p, s) \in Pacing
      /\ Used(p, s).stream = s /\ Used(p, s).slot = p.slot
      /\ Used(p, s).head = p.head /\ Used(p, s).count = p.count
      /\ Used(p, s).flight = p.flight /\ Used(p, s).max = max
      /\ Used(p, s).interval = Interval[s] /\ Used(p, s).sent = sent
  BY <1>4, <1>6
<1>8. EntryOk(Used(p, s))
  BY <1>1, <1>3, <1>5, <1>7 DEF EntryOk
<1> QED
  BY <1>7, <1>8 DEF max, sent, fresh

LEMMA ResetIs ==
  ASSUME NEW p \in Pacing, NEW s \in Stream
  PROVE  /\ Reset(p, s) \in Pacing /\ Reset(p, s).max = 0
         /\ Reset(p, s).head = 0 /\ Reset(p, s).count = 0
         /\ Reset(p, s).flight = p.flight /\ Reset(p, s).slot = p.slot
BY DepthType DEF Reset, Pacing

\* The first entry of some.
LEMMA FirstEntry ==
  ASSUME NEW S \in SUBSET Entry, S # {}
  PROVE  Min(S) \in S /\ Min(S) \in Entry /\ \A e \in S : Min(S) <= e
<1>1. S \in SUBSET Nat
  BY PacerAssumption, FS_CardinalityType
<1>2. \E n \in S : \A m \in S : n <= m
  BY <1>1, LeastNumber
<1> QED
  BY <1>2 DEF Min

(***************************************************************************)
(* Every step keeps the types and the entries.                             *)
(***************************************************************************)
\* A task that may drain looks, unless the other one is at it.
LEMMA DrainIs ==
  ASSUME PacerType, PacerInv, NEW k \in Task, drain[k].at = "off", Drain(k)
  PROVE  /\ drain' \in [Task -> Drainings]
         /\ \A j \in Task \ {k} : drain'[j] = drain[j]
         /\ drain'[k].at \in {"off", "look"}
         /\ \A i, j \in Task :
              drain'[i].at \in {"look", "send"} /\ drain'[j].at \in {"look", "send"}
              => i = j
<1>1. drain \in [Task -> Drainings]
  BY DEF PacerType
<1>2. drain' = [drain EXCEPT ![k] = IF Draining THEN Resting ELSE [at |-> "look"]]
  BY DEF Drain
<1>3. Resting \in Drainings /\ [at |-> "look"] \in Drainings /\ Resting.at = "off"
  BY DEF Drainings, Resting
<1>4. /\ drain' \in [Task -> Drainings]
      /\ \A j \in Task \ {k} : drain'[j] = drain[j]
      /\ drain'[k] = IF Draining THEN Resting ELSE [at |-> "look"]
  BY <1>1, <1>2, <1>3
<1>5. drain'[k].at = IF Draining THEN "off" ELSE "look"
  BY <1>3, <1>4
<1>6. ASSUME NEW i \in Task, NEW j \in Task, drain'[i].at \in {"look", "send"},
             drain'[j].at \in {"look", "send"}, i # j
      PROVE  FALSE
  <2>1. CASE i # k /\ j # k
    BY <1>4, <1>6, <2>1 DEF PacerInv
  <2>2. CASE i = k
    BY <1>4, <1>5, <1>6, <2>2 DEF Draining
  <2>3. CASE j = k
    BY <1>4, <1>5, <1>6, <2>3 DEF Draining
  <2> QED
    BY <2>1, <2>2, <2>3
<1> QED
  BY <1>4, <1>5, <1>6

\* What the tasks have in hand, spelled out.
LEMMA InHand ==
  ASSUME PacerType
  PROVE  /\ rx.at \in {"off", "queue", "send", "head"}
         /\ rx.at # "off" => rx.entry \in Entry /\ rx.n \in Nat
         /\ rx.at = "head" => rx.slot \in 0..Depth - 1
         /\ \A k \in Task :
              /\ drain[k].at \in {"off", "look", "arm", "send"}
              /\ drain[k].at = "send" =>
                   /\ drain[k].entry \in Entry /\ drain[k].slot \in 0..Depth - 1
                   /\ drain[k].n \in Nat
<1>1. rx \in Forwarding /\ \A k \in Task : drain[k] \in Drainings
  BY DEF PacerType
<1> QED
  BY <1>1 DEF Forwarding, Drainings, Resting

\* The same count of frames on their way, when the tasks have the same.
LEMMA OutSame ==
  ASSUME NEW e \in Entry, RxOut(e)' <=> RxOut(e),
         \A k \in Task : TaskOut(k, e)' <=> TaskOut(k, e)
  PROVE  Out(e)' = Out(e)
BY DEF Out, OneIf, Task

LEMMA OutIs ==
  ASSUME PacerInv, PacerType, NEW e \in Entry
  PROVE  /\ Out(e) \in 0..2
         /\ Out(e) = 0 <=> ~RxOut(e) /\ \A k \in Task : ~TaskOut(k, e)
<1>1. ~(TaskOut("rx", e) /\ TaskOut("timer", e))
  BY DEF PacerInv, TaskOut, Task
<1> QED
  BY <1>1 DEF Out, OneIf, Task

LEMMA PacerInit == Init => PacerType /\ PacerInv
<1> SUFFICES ASSUME Init PROVE PacerType /\ PacerInv
  OBVIOUS
<1>1. NoEntry \in Pacing /\ EntryOk(NoEntry) /\ NoEntry.flight = 0
      /\ NoEntry.stream = None
  BY DepthType DEF NoEntry, Pacing, EntryOk
<1>2. rx = Resting /\ Resting.at = "off" /\ Resting \in Forwarding
      /\ Resting \in Drainings
  BY DEF Init, Resting, Forwarding, Drainings
<1>3. \A e \in Entry : pacer[e] = NoEntry
  BY DEF Init
<1>4. \A k \in Task : drain[k] = Resting
  BY DEF Init
<1>5. \A e \in Entry : Out(e) = 0
  BY <1>2, <1>4 DEF Out, OneIf, RxOut, TaskOut, Task
<1>6. PacerType
  <2>1. talker \in [Stream -> [sent : Nat, tspec : Tspecs]]
    <3>1. [sent : {0}, tspec : Tspecs] \subseteq [sent : Nat, tspec : Tspecs]
      OBVIOUS
    <3> QED
      BY <3>1 DEF Init
  <2>2. << >> \in Seq(Frame)
    OBVIOUS
  <2> QED
    BY <1>1, <1>2, <2>1, <2>2 DEF PacerType, Init
<1>7. PacerInv
  BY <1>1, <1>2, <1>3, <1>4, <1>5 DEF PacerInv
<1> QED
  BY <1>6, <1>7

\* A frame of an entry leaves the port, from its queue or not.
LEMMA LeftIs ==
  ASSUME PacerType, NEW s \in Stream, NEW n \in Nat,
         NEW how \in {"paced", "early", "unpaced"}, Left(s, n, how)
  PROVE  /\ wire' \in [Stream -> [recent : Seq(Frame), crossed : BOOLEAN]]
         /\ wire'[s].recent = Append(wire[s].recent, [n |-> n, age |-> 0, how |-> how])
         /\ wire'[s].crossed = wire[s].crossed
         /\ \A t \in Stream \ {s} : wire'[t] = wire[t]
<1> DEFINE f == [n |-> n, age |-> 0, how |-> how]
<1>1. f \in Frame
  BY DEF Frame
<1>2. wire' = [wire EXCEPT ![s] =
                 [wire[s] EXCEPT !.recent = Append(wire[s].recent, f)]]
  BY DEF Left, PacerType
<1> HIDE DEF f
<1>3. wire[s] \in [recent : Seq(Frame), crossed : BOOLEAN]
  BY DEF PacerType
<1>4. Append(wire[s].recent, f) \in Seq(Frame)
  BY <1>1, <1>3
<1> DEFINE w == [wire[s] EXCEPT !.recent = Append(wire[s].recent, f)]
<1>5. /\ w \in [recent : Seq(Frame), crossed : BOOLEAN]
      /\ w.recent = Append(wire[s].recent, f) /\ w.crossed = wire[s].crossed
  BY <1>3, <1>4
<1> HIDE DEF w
<1>6. wire' = [wire EXCEPT ![s] = w]
  BY <1>2 DEF w
<1>7. /\ wire' \in [Stream -> [recent : Seq(Frame), crossed : BOOLEAN]]
      /\ wire'[s] = w /\ \A t \in Stream \ {s} : wire'[t] = wire[t]
  BY <1>5, <1>6 DEF PacerType
<1> QED
  BY <1>5, <1>7 DEF f

\* Two tasks may have a frame of one entry.
LEMMA CrossedIs ==
  ASSUME PacerType, NEW e \in Entry, pacer[e].stream \in Stream, Crossed(e)
  PROVE  /\ wire' \in [Stream -> [recent : Seq(Frame), crossed : BOOLEAN]]
         /\ \A t \in Stream : wire'[t].recent = wire[t].recent
         /\ \A t \in Stream \ {pacer[e].stream} : wire'[t] = wire[t]
         /\ wire'[pacer[e].stream].crossed
              = (wire[pacer[e].stream].crossed \/ pacer[e].flight > 0)
<1> DEFINE s == pacer[e].stream
           c == wire[s].crossed \/ pacer[e].flight > 0
<1>1. wire[s] \in [recent : Seq(Frame), crossed : BOOLEAN]
  BY DEF PacerType
<1>2. wire' = [wire EXCEPT ![s] = [wire[s] EXCEPT !.crossed = c]]
  BY DEF Crossed, PacerType
<1> DEFINE w == [wire[s] EXCEPT !.crossed = c]
<1>3. c \in BOOLEAN
  BY <1>1
<1> HIDE DEF c
<1>4. /\ w \in [recent : Seq(Frame), crossed : BOOLEAN]
      /\ w.recent = wire[s].recent /\ w.crossed = c
  BY <1>1, <1>3
<1> HIDE DEF w
<1>5. wire' = [wire EXCEPT ![s] = w]
  BY <1>2 DEF w
<1>6. /\ wire' \in [Stream -> [recent : Seq(Frame), crossed : BOOLEAN]]
      /\ wire'[s] = w /\ \A t \in Stream \ {s} : wire'[t] = wire[t]
  BY <1>4, <1>5 DEF PacerType
<1> QED
  BY <1>4, <1>6 DEF c

\* A queue with a frame in it belongs to a stream.
LEMMA QueuedIs ==
  ASSUME PacerType, PacerInv, NEW e \in Entry
  PROVE  /\ pacer[e] \in Pacing /\ EntryOk(pacer[e])
         /\ pacer[e].count \in Nat /\ pacer[e].flight = Out(e)
         /\ pacer[e].flight \in 0..2
         /\ pacer[e].count > 0 \/ pacer[e].flight > 0 => pacer[e].stream \in Stream
<1>1. pacer[e] \in Pacing /\ EntryOk(pacer[e]) /\ pacer[e].flight = Out(e)
  BY DEF PacerType, PacerInv
<1>2. pacer[e].count \in Nat
  BY <1>1, DepthType DEF Pacing
<1>3. pacer[e].flight \in 0..2
  BY <1>1, OutIs
<1>4. pacer[e].count > 0 \/ pacer[e].flight > 0 => pacer[e].stream # None
  BY <1>1, <1>2, <1>3 DEF EntryOk
<1> QED
  BY <1>1, <1>2, <1>3, <1>4 DEF Pacing

\* The head of a queue is taken.
LEMMA TakeHead ==
  ASSUME PacerType, PacerInv, NEW e \in Entry, pacer[e].count > 0,
         pacer' = [pacer EXCEPT ![e] = Taken(pacer[e])]
  PROVE  /\ pacer' \in [Entry -> Pacing]
         /\ pacer'[e] = Taken(pacer[e]) /\ EntryOk(pacer'[e])
         /\ pacer'[e].stream = pacer[e].stream
         /\ pacer'[e].count = pacer[e].count - 1
         /\ pacer'[e].flight = pacer[e].flight + 1
         /\ \A f \in Entry \ {e} : pacer'[f] = pacer[f]
<1>1. pacer[e] \in Pacing /\ EntryOk(pacer[e])
  BY QueuedIs
<1>2. pacer'[e] = Taken(pacer[e]) /\ \A f \in Entry \ {e} : pacer'[f] = pacer[f]
  BY DEF PacerType
<1>3. pacer' \in [Entry -> Pacing]
  BY <1>1, TakenIs DEF PacerType
<1> QED
  BY <1>1, <1>2, <1>3, TakenIs

\* A frame of e is out.
LEMMA SentIs ==
  ASSUME PacerType, PacerInv, NEW e \in Entry, pacer[e].flight > 0, Sent(e)
  PROVE  /\ pacer' \in [Entry -> Pacing]
         /\ pacer'[e] = [pacer[e] EXCEPT !.flight = pacer[e].flight - 1]
         /\ EntryOk(pacer'[e])
         /\ pacer'[e].stream = pacer[e].stream /\ pacer'[e].slot = pacer[e].slot
         /\ pacer'[e].head = pacer[e].head /\ pacer'[e].count = pacer[e].count
         /\ pacer'[e].flight = pacer[e].flight - 1
         /\ pacer'[e].max = pacer[e].max /\ pacer'[e].sent = pacer[e].sent
         /\ pacer'[e].interval = pacer[e].interval
         /\ \A f \in Entry \ {e} : pacer'[f] = pacer[f]
<1> DEFINE p == pacer[e]  q == [p EXCEPT !.flight = p.flight - 1]
<1>1. p \in Pacing /\ EntryOk(p) /\ p.flight \in 0..2 /\ p.flight > 0
      /\ p.count \in Nat
  BY QueuedIs
<1>2. pacer' = [pacer EXCEPT ![e] = q]
  BY DEF Sent, PacerType
<1> HIDE DEF p
<1>3. p.flight - 1 \in Nat
  BY <1>1
<1>4. /\ q \in Pacing /\ q.flight = p.flight - 1
      /\ q.stream = p.stream /\ q.slot = p.slot
      /\ q.head = p.head /\ q.count = p.count
      /\ q.max = p.max /\ q.sent = p.sent /\ q.interval = p.interval
  BY <1>1, <1>3 DEF Pacing
<1>5. EntryOk(q)
  BY <1>1, <1>3, <1>4, DepthType DEF EntryOk
<1>6. pacer' \in [Entry -> Pacing] /\ pacer'[e] = q
      /\ \A f \in Entry \ {e} : pacer'[f] = pacer[f]
  BY <1>2, <1>4 DEF PacerType
<1> QED
  BY <1>4, <1>5, <1>6 DEF p

\* What the invariant takes when one entry changes and keeps its stream.
LEMMA EntryStep ==
  ASSUME PacerType, PacerInv, NEW e \in Entry, PacerType',
         EntryOk(pacer'[e]), pacer'[e].stream = pacer[e].stream,
         \A f \in Entry \ {e} : pacer'[f] = pacer[f] /\ Out(f)' = Out(f),
         pacer'[e].flight = Out(e)',
         \A s \in Stream : talker'[s].sent = talker[s].sent,
         rx'.at # "off" => /\ drain'["rx"].at = "off"
                           /\ rx.at # "off" /\ rx'.entry = rx.entry /\ rx'.n = rx.n
                           /\ rx'.at = "send" => pacer'[rx'.entry].count = 0,
         \A j, k \in Task :
           drain'[j].at \in {"look", "send"} /\ drain'[k].at \in {"look", "send"}
           => j = k
  PROVE  PacerInv'
<1>1. \A f \in Entry : EntryOk(pacer'[f]) /\ pacer'[f].flight = Out(f)'
                       /\ pacer'[f].stream = pacer[f].stream
  BY DEF PacerInv
<1>2. rx'.at # "off" => /\ pacer'[rx'.entry].stream # None
                        /\ rx'.n = talker'[pacer'[rx'.entry].stream].sent
  <2> SUFFICES ASSUME rx'.at # "off"
               PROVE  /\ pacer'[rx'.entry].stream # None
                      /\ rx'.n = talker'[pacer'[rx'.entry].stream].sent
    OBVIOUS
  <2>1. rx.at # "off" /\ rx'.entry = rx.entry /\ rx'.n = rx.n /\ rx.entry \in Entry
    BY InHand
  <2>2. /\ pacer[rx.entry].stream # None /\ pacer[rx.entry] \in Pacing
        /\ rx.n = talker[pacer[rx.entry].stream].sent
    BY <2>1 DEF PacerInv, PacerType
  <2>3. PICK t \in Stream : t = pacer[rx.entry].stream
    BY <2>2 DEF Pacing
  <2>4. pacer'[rx'.entry].stream = t /\ t # None
    BY <1>1, <2>1, <2>2, <2>3
  <2>5. talker'[t].sent = talker[t].sent /\ rx'.n = talker[t].sent
    BY <2>1, <2>2, <2>3
  <2> QED
    BY <2>4, <2>5
<1>3. \A f, g \in Entry :
        pacer'[f].stream = pacer'[g].stream /\ pacer'[f].stream # None => f = g
  BY <1>1 DEF PacerInv
<1> QED
  BY <1>1, <1>2, <1>3 DEF PacerInv

LEMMA PacerTake ==
  ASSUME PacerType, PacerInv, NEW k \in Task, Take(k)
  PROVE  PacerType' /\ PacerInv'
<1>1. /\ rx' = rx /\ talker' = talker /\ timer' = timer /\ drain[k].at = "look"
      /\ drain \in [Task -> Drainings]
  BY DEF Take, PacerType
<1>2. Due # {} => Queued # {}
  BY DEF Due
<1>3. ASSUME Due # {}
      PROVE  PacerType' /\ PacerInv'
  <2>1. PICK e \in Entry : e = Min(Due)
    BY <1>3, FirstEntry DEF Due, Queued
  <2>2. e \in Entry /\ pacer[e].count > 0
    BY <1>3, <2>1, FirstEntry DEF Due, Queued
  <2> DEFINE d == [at |-> "send", entry |-> e, slot |-> pacer[e].head,
                   n |-> pacer[e].slot[pacer[e].head]]
  <2>3. /\ drain' = [drain EXCEPT ![k] = d]
        /\ pacer' = [pacer EXCEPT ![e] = Taken(pacer[e])] /\ Crossed(e)
    <3>1. /\ drain' = [drain EXCEPT ![k] =
                [at |-> "send", entry |-> Min(Due), slot |-> pacer[Min(Due)].head,
                 n |-> pacer[Min(Due)].slot[pacer[Min(Due)].head]]]
          /\ pacer' = [pacer EXCEPT ![Min(Due)] = Taken(@)]
          /\ Crossed(Min(Due))
      BY <1>3, <1>2 DEF Take
    <3> QED
      BY <2>1, <3>1
  <2>4. pacer[e] \in Pacing /\ pacer[e].stream \in Stream
    BY <2>2, QueuedIs
  <2>5. d \in Drainings /\ d.at = "send" /\ d.entry = e
    BY <2>2, <2>4 DEF Drainings, Pacing
  <2> HIDE DEF d
  <2>6. /\ drain' \in [Task -> Drainings] /\ drain'[k] = d
        /\ \A j \in Task \ {k} : drain'[j] = drain[j]
    BY <1>1, <2>3, <2>5
  <2>7. PacerType'
    BY <1>1, <2>2, <2>3, <2>4, <2>6, TakeHead, CrossedIs DEF PacerType
  <2>8. \A f \in Entry \ {e} : pacer'[f] = pacer[f] /\ Out(f)' = Out(f)
    <3> TAKE f \in Entry \ {e}
    <3>1. RxOut(f)' <=> RxOut(f)
      BY <1>1 DEF RxOut
    <3>2. \A j \in Task : TaskOut(j, f)' <=> TaskOut(j, f)
      BY <1>1, <2>5, <2>6 DEF TaskOut
    <3> QED
      BY <3>1, <3>2, OutSame, <2>2, <2>3, TakeHead
  <2>9. pacer'[e].flight = Out(e)'
    <3>1. RxOut(e)' <=> RxOut(e)
      BY <1>1 DEF RxOut
    <3>2. TaskOut(k, e)' /\ ~TaskOut(k, e)
      BY <1>1, <2>5, <2>6 DEF TaskOut
    <3>3. \A j \in Task \ {k} : TaskOut(j, e)' <=> TaskOut(j, e)
      BY <2>6 DEF TaskOut
    <3>4. Out(e)' = Out(e) + 1
      BY <3>1, <3>2, <3>3 DEF Out, OneIf, Task
    <3> QED
      BY <2>2, <2>3, <3>4, TakeHead, QueuedIs
  <2>10. rx'.at # "off" => /\ drain'["rx"].at = "off" /\ rx.at # "off"
                           /\ rx'.entry = rx.entry /\ rx'.n = rx.n
                           /\ rx'.at = "send" => pacer'[rx'.entry].count = 0
    <3> SUFFICES ASSUME rx.at # "off"
                 PROVE  /\ drain'["rx"].at = "off"
                        /\ rx.at = "send" => pacer'[rx.entry].count = 0
      BY <1>1
    <3>1. drain["rx"].at = "off" /\ rx.entry \in Entry
          /\ (rx.at = "send" => pacer[rx.entry].count = 0)
      BY InHand DEF PacerInv
    <3>2. "rx" \in Task \ {k}
      BY <1>1, <3>1 DEF Task
    <3> QED
      BY <3>1, <3>2, <2>2, <2>3, <2>6, TakeHead
  <2>11. \A i, j \in Task :
           drain'[i].at \in {"look", "send"} /\ drain'[j].at \in {"look", "send"}
           => i = j
    BY <1>1, <2>6 DEF PacerInv
  <2>12. EntryOk(pacer'[e]) /\ pacer'[e].stream = pacer[e].stream
    BY <2>2, <2>3, TakeHead
  <2> QED
    BY <1>1, <2>2, <2>7, <2>8, <2>9, <2>10, <2>11, <2>12, EntryStep
<1>4. ASSUME Due = {}
      PROVE  PacerType' /\ PacerInv'
  <2>1. pacer' = pacer /\ wire' = wire
    BY <1>4 DEF Take
  <2>2. drain' \in [Task -> Drainings] /\ drain'[k].at \in {"arm", "off"}
        /\ \A j \in Task \ {k} : drain'[j] = drain[j]
    <3>1. CASE Queued # {}
      <4> DEFINE W == {Wait(pacer[e]) : e \in Queued}
                 d == [at |-> "arm", wait |-> Min(W)]
      <4>1. W \in SUBSET Nat
        <5> SUFFICES ASSUME NEW e \in Queued PROVE Wait(pacer[e]) \in Nat
          OBVIOUS
        <5>1. pacer[e] \in Pacing /\ EntryOk(pacer[e]) /\ pacer[e].count > 0
              /\ pacer[e].stream \in Stream
          BY QueuedIs DEF Queued
        <5>2. pacer[e].sent \in Seq(Nat) /\ pacer[e].sent # << >>
              /\ pacer[e].interval \in Nat
          BY <5>1, PacerAssumption DEF EntryOk, Pacing
        <5>3. Head(pacer[e].sent) \in Nat
          BY <5>2
        <5> QED
          BY <5>2, <5>3 DEF Wait
      <4>2. W # {}
        BY <3>1
      <4> HIDE DEF W
      <4>3. \E n \in W : \A m \in W : n <= m
        BY <4>1, <4>2, LeastNumber
      <4>4. Min(W) \in Nat
        BY <4>1, <4>3 DEF Min
      <4>5. d \in Drainings /\ d.at = "arm"
        BY <4>4 DEF Drainings
      <4>6. drain' = [drain EXCEPT ![k] = d]
        BY <1>4, <3>1 DEF Take, W
      <4> HIDE DEF d
      <4> QED
        BY <1>1, <4>5, <4>6
    <3>2. CASE Queued = {}
      <4>1. drain' = [drain EXCEPT ![k] = Resting]
        BY <1>4, <3>2 DEF Take
      <4>2. Resting \in Drainings /\ Resting.at = "off"
        BY DEF Resting, Drainings
      <4> QED
        BY <1>1, <4>1, <4>2
    <3> QED
      BY <3>1, <3>2
  <2>3. PacerType'
    BY <1>1, <2>1, <2>2 DEF PacerType
  <2>4. \A e \in Entry : Out(e)' = Out(e)
    <3> TAKE e \in Entry
    <3>1. RxOut(e)' <=> RxOut(e)
      BY <1>1 DEF RxOut
    <3>2. \A j \in Task : TaskOut(j, e)' <=> TaskOut(j, e)
      BY <1>1, <2>2 DEF TaskOut
    <3> QED
      BY <3>1, <3>2, OutSame
  <2>5. rx.at # "off" => drain'["rx"].at = "off"
    BY <1>1, <2>2 DEF PacerInv, Task
  <2>6. \A i, j \in Task :
          drain'[i].at \in {"look", "send"} /\ drain'[j].at \in {"look", "send"}
          => i = j
    BY <2>2 DEF PacerInv
  <2> QED
    BY <1>1, <2>1, <2>3, <2>4, <2>5, <2>6 DEF PacerInv
<1> QED
  BY <1>3, <1>4

\* Steps that leave the entries and what the tasks have of them.
LEMMA DrainsOnly ==
  ASSUME PacerType, PacerInv, UNCHANGED <<pacer, rx, talker, wire>>,
         drain' \in [Task -> Drainings],
         \A k \in Task : \/ drain'[k] = drain[k]
                         \/ drain[k].at # "send" /\ drain'[k].at # "send",
         rx.at # "off" => drain'["rx"].at = "off",
         \A j, k \in Task :
           drain'[j].at \in {"look", "send"} /\ drain'[k].at \in {"look", "send"}
           => j = k
  PROVE  PacerType' /\ PacerInv'
<1>1. PacerType'
  BY DEF PacerType
<1>2. \A e \in Entry : Out(e)' = Out(e)
  <2> TAKE e \in Entry
  <2>1. RxOut(e)' <=> RxOut(e)
    BY DEF RxOut
  <2>2. \A j \in Task : TaskOut(j, e)' <=> TaskOut(j, e)
    BY DEF TaskOut
  <2> QED
    BY <2>1, <2>2, OutSame
<1> QED
  BY <1>1, <1>2 DEF PacerInv

LEMMA PacerArm ==
  ASSUME PacerType, PacerInv, NEW k \in Task, Arm(k)
  PROVE  PacerType' /\ PacerInv'
<1>1. drain[k].at = "arm" /\ drain' = [drain EXCEPT ![k] = Resting]
      /\ UNCHANGED <<pacer, rx, talker, wire>> /\ drain \in [Task -> Drainings]
  BY DEF Arm, PacerType
<1>2. Resting \in Drainings /\ Resting.at = "off"
  BY DEF Resting, Drainings
<1>3. /\ drain' \in [Task -> Drainings] /\ drain'[k].at = "off"
      /\ \A j \in Task \ {k} : drain'[j] = drain[j]
  BY <1>1, <1>2
<1>4. rx.at # "off" => drain'["rx"].at = "off"
  BY <1>3 DEF PacerInv, Task
<1>5. \A i, j \in Task :
        drain'[i].at \in {"look", "send"} /\ drain'[j].at \in {"look", "send"}
        => i = j
  BY <1>3 DEF PacerInv
<1> QED
  BY <1>1, <1>3, <1>4, <1>5, DrainsOnly

LEMMA PacerWake ==
  ASSUME PacerType, PacerInv, Wake
  PROVE  PacerType' /\ PacerInv'
<1>1. drain["timer"].at = "off" /\ Drain("timer") /\ "timer" \in Task
      /\ "rx" \in Task \ {"timer"}
      /\ UNCHANGED <<pacer, rx, talker, wire>>
  BY DEF Wake, Task
<1>2. /\ drain' \in [Task -> Drainings]
      /\ \A j \in Task \ {"timer"} : drain'[j] = drain[j]
      /\ drain'["timer"].at \in {"off", "look"}
      /\ \A i, j \in Task :
           drain'[i].at \in {"look", "send"} /\ drain'[j].at \in {"look", "send"}
           => i = j
  BY <1>1, DrainIs
<1>3. rx.at # "off" => drain'["rx"].at = "off"
  BY <1>1, <1>2 DEF PacerInv
<1> QED
  BY <1>1, <1>2, <1>3, DrainsOnly

LEMMA PacerDeclare ==
  ASSUME PacerType, PacerInv, NEW s \in Stream, NEW max \in Tspecs, Declare(s, max)
  PROVE  PacerType' /\ PacerInv' /\ \A t \in Stream : talker'[t].sent = talker[t].sent
<1>1. UNCHANGED <<pacer, rx, drain, timer, wire>>
      /\ talker' = [talker EXCEPT ![s] = [talker[s] EXCEPT !.tspec = max]]
  BY DEF Declare, PacerType
<1>2. talker[s] \in [sent : Nat, tspec : Tspecs]
  BY DEF PacerType
<1> DEFINE t0 == [talker[s] EXCEPT !.tspec = max]
<1>3. t0 \in [sent : Nat, tspec : Tspecs] /\ t0.sent = talker[s].sent
  BY <1>2
<1> HIDE DEF t0
<1>4. talker' = [talker EXCEPT ![s] = t0]
  BY <1>1 DEF t0
<1>5. talker' \in [Stream -> [sent : Nat, tspec : Tspecs]]
      /\ \A t \in Stream : talker'[t].sent = talker[t].sent
  BY <1>3, <1>4 DEF PacerType
<1>6. PacerType'
  BY <1>1, <1>5 DEF PacerType
<1>7. \A e \in Entry : Out(e)' = Out(e)
  BY <1>1 DEF Out, OneIf, RxOut, TaskOut
<1>8. rx.at # "off" => rx.entry \in Entry /\ pacer[rx.entry].stream # None
                       /\ pacer[rx.entry].stream \in Stream
  BY InHand DEF PacerInv, PacerType, Pacing
<1> QED
  BY <1>1, <1>5, <1>6, <1>7, <1>8 DEF PacerInv

LEMMA PacerSend ==
  ASSUME PacerType, PacerInv, NEW k \in Task, Send(k)
  PROVE  PacerType' /\ PacerInv'
<1>1. /\ drain[k].at = "send" /\ rx' = rx /\ talker' = talker
      /\ drain \in [Task -> Drainings]
      /\ drain' = [drain EXCEPT ![k] = [at |-> "look"]]
  BY DEF Send, PacerType
<1>2. PICK e \in Entry : e = drain[k].entry
  BY <1>1, InHand
<1>3. PICK q \in 0..Depth - 1 : q = drain[k].slot
  BY <1>1, InHand
<1>4. Left(pacer[e].stream, pacer[e].slot[q], "paced") /\ Sent(e)
  BY <1>2, <1>3 DEF Send
<1>5. /\ TaskOut(k, e)
      /\ pacer[e] \in Pacing /\ pacer[e].flight = Out(e) /\ Out(e) \in 0..2
      /\ pacer[e].flight > 0 /\ pacer[e].stream \in Stream
  BY <1>1, <1>2, QueuedIs, OutIs DEF TaskOut
<1>6. pacer[e].slot[q] \in Nat
  BY <1>3, <1>5 DEF Pacing
<1>7. /\ drain' \in [Task -> Drainings] /\ drain'[k].at = "look"
      /\ \A j \in Task \ {k} : drain'[j] = drain[j]
  <2>1. [at |-> "look"] \in Drainings
    BY DEF Drainings
  <2> QED
    BY <1>1, <2>1
<1>8. PacerType'
  BY <1>1, <1>4, <1>5, <1>6, <1>7, SentIs, LeftIs DEF PacerType
<1>9. \A f \in Entry \ {e} : pacer'[f] = pacer[f] /\ Out(f)' = Out(f)
  <2> TAKE f \in Entry \ {e}
  <2>1. RxOut(f)' <=> RxOut(f)
    BY <1>1 DEF RxOut
  <2>2. \A j \in Task : TaskOut(j, f)' <=> TaskOut(j, f)
    BY <1>1, <1>2, <1>7 DEF TaskOut
  <2> QED
    BY <1>4, <1>5, <2>1, <2>2, OutSame, SentIs
<1>10. pacer'[e].flight = Out(e)'
  <2>1. RxOut(e)' <=> RxOut(e)
    BY <1>1 DEF RxOut
  <2>2. ~TaskOut(k, e)'
    BY <1>7 DEF TaskOut
  <2>3. \A j \in Task \ {k} : TaskOut(j, e)' <=> TaskOut(j, e)
    BY <1>7 DEF TaskOut
  <2>4. Out(e)' = Out(e) - 1
    BY <1>5, <2>1, <2>2, <2>3 DEF Out, OneIf, Task
  <2> QED
    BY <1>4, <1>5, <2>4, SentIs
<1>11. rx'.at # "off" => /\ drain'["rx"].at = "off" /\ rx.at # "off"
                         /\ rx'.entry = rx.entry /\ rx'.n = rx.n
                         /\ rx'.at = "send" => pacer'[rx'.entry].count = 0
  <2> SUFFICES ASSUME rx.at # "off"
               PROVE  /\ drain'["rx"].at = "off"
                      /\ rx.at = "send" => pacer'[rx.entry].count = 0
    BY <1>1
  <2>1. drain["rx"].at = "off" /\ rx.entry \in Entry
        /\ (rx.at = "send" => pacer[rx.entry].count = 0)
    BY InHand DEF PacerInv
  <2>2. "rx" \in Task \ {k}
    BY <1>1, <2>1 DEF Task
  <2> QED
    BY <1>4, <1>5, <1>7, <2>1, <2>2, SentIs
<1>12. \A i, j \in Task :
         drain'[i].at \in {"look", "send"} /\ drain'[j].at \in {"look", "send"}
         => i = j
  BY <1>1, <1>7 DEF PacerInv
<1>13. EntryOk(pacer'[e]) /\ pacer'[e].stream = pacer[e].stream
  BY <1>4, <1>5, SentIs
<1> QED
  BY <1>1, <1>8, <1>9, <1>10, <1>11, <1>12, <1>13, EntryStep

LEMMA PacerSendHead ==
  ASSUME PacerType, PacerInv, SendHead
  PROVE  PacerType' /\ PacerInv'
<1>1. /\ rx.at = "head" /\ drain' = drain /\ talker' = talker
      /\ rx' = [at |-> "queue", entry |-> rx.entry, n |-> rx.n]
      /\ rx.entry \in Entry /\ rx.n \in Nat /\ rx.slot \in 0..Depth - 1
  BY InHand DEF SendHead
<1>2. PICK e \in Entry : e = rx.entry
  BY <1>1
<1>3. Left(pacer[e].stream, pacer[e].slot[rx.slot], "early") /\ Sent(e)
  BY <1>2 DEF SendHead
<1>4. /\ RxOut(e)
      /\ pacer[e] \in Pacing /\ pacer[e].flight = Out(e) /\ Out(e) \in 0..2
      /\ pacer[e].flight > 0 /\ pacer[e].stream \in Stream
  BY <1>1, <1>2, QueuedIs, OutIs DEF RxOut
<1>5. pacer[e].slot[rx.slot] \in Nat
  BY <1>1, <1>4 DEF Pacing
<1>6. rx' \in Forwarding /\ rx'.at = "queue" /\ rx'.entry = rx.entry /\ rx'.n = rx.n
  BY <1>1 DEF Forwarding
<1>7. PacerType'
  BY <1>1, <1>3, <1>4, <1>5, <1>6, SentIs, LeftIs DEF PacerType
<1>8. \A f \in Entry \ {e} : pacer'[f] = pacer[f] /\ Out(f)' = Out(f)
  <2> TAKE f \in Entry \ {e}
  <2>1. RxOut(f)' <=> RxOut(f)
    BY <1>2, <1>6 DEF RxOut
  <2>2. \A j \in Task : TaskOut(j, f)' <=> TaskOut(j, f)
    BY <1>1 DEF TaskOut
  <2> QED
    BY <1>3, <1>4, <2>1, <2>2, OutSame, SentIs
<1>9. pacer'[e].flight = Out(e)'
  <2>1. ~RxOut(e)'
    BY <1>6 DEF RxOut
  <2>2. \A j \in Task : TaskOut(j, e)' <=> TaskOut(j, e)
    BY <1>1 DEF TaskOut
  <2>3. Out(e)' = Out(e) - 1
    BY <1>4, <2>1, <2>2 DEF Out, OneIf, Task
  <2> QED
    BY <1>3, <1>4, <2>3, SentIs
<1>10. EntryOk(pacer'[e]) /\ pacer'[e].stream = pacer[e].stream
  BY <1>3, <1>4, SentIs
<1>11. drain'["rx"].at = "off" /\ \A i, j \in Task :
         drain'[i].at \in {"look", "send"} /\ drain'[j].at \in {"look", "send"}
         => i = j
  BY <1>1 DEF PacerInv
<1> QED
  BY <1>1, <1>6, <1>7, <1>8, <1>9, <1>10, <1>11, EntryStep

LEMMA PacerSendNow ==
  ASSUME PacerType, PacerInv, SendNow
  PROVE  PacerType' /\ PacerInv'
<1>1. /\ rx.at = "send" /\ Drain("rx") /\ talker' = talker /\ rx' = Resting
      /\ rx.entry \in Entry /\ rx.n \in Nat
      /\ "rx" \in Task /\ drain["rx"].at = "off"
  BY InHand DEF SendNow, PacerInv, Task
<1>2. PICK e \in Entry : e = rx.entry
  BY <1>1
<1>3. Left(pacer[e].stream, rx.n, "paced") /\ Sent(e)
  BY <1>2 DEF SendNow
<1>4. /\ RxOut(e)
      /\ pacer[e] \in Pacing /\ pacer[e].flight = Out(e) /\ Out(e) \in 0..2
      /\ pacer[e].flight > 0 /\ pacer[e].stream \in Stream
  BY <1>1, <1>2, QueuedIs, OutIs DEF RxOut
<1>5. rx' \in Forwarding /\ rx'.at = "off"
  BY <1>1 DEF Forwarding, Resting
<1>6. /\ drain' \in [Task -> Drainings]
      /\ \A j \in Task \ {"rx"} : drain'[j] = drain[j]
      /\ drain'["rx"].at \in {"off", "look"}
      /\ \A i, j \in Task :
           drain'[i].at \in {"look", "send"} /\ drain'[j].at \in {"look", "send"}
           => i = j
  BY <1>1, DrainIs
<1>7. PacerType'
  BY <1>1, <1>3, <1>4, <1>5, <1>6, SentIs, LeftIs DEF PacerType
<1>8. \A f \in Entry, j \in Task : TaskOut(j, f)' <=> TaskOut(j, f)
  BY <1>1, <1>6 DEF TaskOut
<1>9. \A f \in Entry \ {e} : pacer'[f] = pacer[f] /\ Out(f)' = Out(f)
  <2> TAKE f \in Entry \ {e}
  <2>1. RxOut(f)' <=> RxOut(f)
    BY <1>2, <1>5 DEF RxOut
  <2> QED
    BY <1>3, <1>4, <1>8, <2>1, OutSame, SentIs
<1>10. pacer'[e].flight = Out(e)'
  <2>1. ~RxOut(e)'
    BY <1>5 DEF RxOut
  <2>2. Out(e)' = Out(e) - 1
    BY <1>4, <1>8, <2>1 DEF Out, OneIf, Task
  <2> QED
    BY <1>3, <1>4, <2>2, SentIs
<1>11. EntryOk(pacer'[e]) /\ pacer'[e].stream = pacer[e].stream
  BY <1>3, <1>4, SentIs
<1> QED
  BY <1>1, <1>5, <1>6, <1>7, <1>9, <1>10, <1>11, EntryStep

\* What becomes of the frame at hand: it goes now, it waits, or the queue is full.
AtOnce(p) == Clear(p) /\ Wait(p) = 0

LEMMA PlaceCases ==
  ASSUME Place, NEW e, e = rx.entry
  PROVE  \/ /\ AtOnce(pacer[e])
            /\ rx' = [rx EXCEPT !.at = "send"]
            /\ pacer' = [pacer EXCEPT ![e] =
                 [Noted(pacer[e]) EXCEPT !.flight = Noted(pacer[e]).flight + 1]]
            /\ UNCHANGED <<drain, wire, talker>>
         \/ /\ ~AtOnce(pacer[e]) /\ pacer[e].count + pacer[e].flight < Depth
            /\ pacer' = [pacer EXCEPT
                 ![e].slot[At(pacer[e].head, pacer[e].count)] = rx.n,
                 ![e].count = @ + 1]
            /\ rx' = Resting /\ Drain("rx") /\ wire' = wire /\ talker' = talker
         \/ /\ ~AtOnce(pacer[e]) /\ pacer[e].count + pacer[e].flight >= Depth
            /\ rx' = [at |-> "head", entry |-> e, n |-> rx.n, slot |-> pacer[e].head]
            /\ pacer' = [pacer EXCEPT ![e] = Taken(pacer[e])]
            /\ Crossed(e) /\ UNCHANGED <<drain, talker>>
BY DEF Place, AtOnce, At

LEMMA PacerPlace ==
  ASSUME PacerType, PacerInv, Place
  PROVE  PacerType' /\ PacerInv'
<1>1. /\ rx.at = "queue" /\ talker' = talker /\ rx.entry \in Entry /\ rx.n \in Nat
      /\ "rx" \in Task /\ drain["rx"].at = "off" /\ rx \in Forwarding
      /\ drain \in [Task -> Drainings]
  BY InHand DEF Place, PacerInv, PacerType, Task
<1>2. PICK e \in Entry : e = rx.entry
  BY <1>1
<1> DEFINE p == pacer[e]
<1>3. /\ p \in Pacing /\ EntryOk(p) /\ p.count \in 0..Depth /\ p.flight = Out(e)
      /\ p.stream \in Stream /\ p.flight \in 0..2
      /\ p.max > 0 /\ Len(p.sent) = p.max
  BY <1>1, <1>2, QueuedIs DEF PacerInv, Pacing, EntryOk
<1>4. ~RxOut(e) /\ \A f \in Entry : ~RxOut(f)
  BY <1>1 DEF RxOut
<1>5. \A i, j \in Task :
        drain[i].at \in {"look", "send"} /\ drain[j].at \in {"look", "send"}
        => i = j
  BY DEF PacerInv
<1>6. \/ /\ AtOnce(p)
         /\ rx' = [rx EXCEPT !.at = "send"]
         /\ pacer' = [pacer EXCEPT ![e] =
              [Noted(p) EXCEPT !.flight = Noted(p).flight + 1]]
         /\ UNCHANGED <<drain, wire, talker>>
      \/ /\ ~AtOnce(p) /\ p.count + p.flight < Depth
         /\ pacer' = [pacer EXCEPT ![e].slot[At(p.head, p.count)] = rx.n,
                                   ![e].count = @ + 1]
         /\ rx' = Resting /\ Drain("rx") /\ wire' = wire /\ talker' = talker
      \/ /\ ~AtOnce(p) /\ p.count + p.flight >= Depth
         /\ rx' = [at |-> "head", entry |-> e, n |-> rx.n, slot |-> p.head]
         /\ pacer' = [pacer EXCEPT ![e] = Taken(p)]
         /\ Crossed(e) /\ UNCHANGED <<drain, talker>>
  BY <1>2, PlaceCases
<1> HIDE DEF p
<1>7. CASE AtOnce(p)
  <2>1. /\ rx' = [rx EXCEPT !.at = "send"] /\ UNCHANGED <<drain, wire, talker>>
        /\ pacer' = [pacer EXCEPT ![e] =
             [Noted(pacer[e]) EXCEPT !.flight = Noted(pacer[e]).flight + 1]]
    BY <1>2, <1>7, <1>6 DEF p
  <2>2. p.count = 0 /\ p.flight = 0
    BY <1>7 DEF Clear, AtOnce
  <2> DEFINE m == Noted(p)  q == [m EXCEPT !.flight = m.flight + 1]
  <2>3. /\ m \in Pacing /\ m.flight = 0 /\ m.count = 0 /\ Len(m.sent) = m.max
        /\ m.stream = p.stream /\ m.max = p.max /\ m.interval = p.interval
    BY <1>3, <2>2, NotedIs DEF Pacing
  <2>4. pacer' = [pacer EXCEPT ![e] = q]
    BY <2>1 DEF p
  <2> HIDE DEF m
  <2>5. /\ q \in Pacing /\ q.flight = 1 /\ q.count = 0 /\ Len(q.sent) = q.max
        /\ q.stream = p.stream /\ q.max = p.max /\ q.interval = p.interval
    BY <2>3 DEF Pacing
  <2> HIDE DEF q
  <2>6. EntryOk(q)
    BY <1>3, <2>5, PacerAssumption DEF EntryOk
  <2>7. /\ pacer' \in [Entry -> Pacing] /\ pacer'[e] = q
        /\ \A f \in Entry \ {e} : pacer'[f] = pacer[f]
    BY <2>4, <2>5 DEF PacerType
  <2>8. rx' \in Forwarding /\ rx'.at = "send" /\ rx'.entry = rx.entry /\ rx'.n = rx.n
    BY <1>1, <2>1 DEF Forwarding, Resting
  <2>9. PacerType'
    BY <2>1, <2>7, <2>8 DEF PacerType
  <2>10. \A f \in Entry, j \in Task : TaskOut(j, f)' <=> TaskOut(j, f)
    BY <2>1 DEF TaskOut
  <2>11. \A f \in Entry \ {e} : pacer'[f] = pacer[f] /\ Out(f)' = Out(f)
    <3> TAKE f \in Entry \ {e}
    <3>1. RxOut(f)' <=> RxOut(f)
      BY <1>2, <1>4, <2>8 DEF RxOut
    <3> QED
      BY <2>7, <2>10, <3>1, OutSame
  <2>12. pacer'[e].flight = Out(e)'
    <3>1. RxOut(e)'
      BY <1>2, <2>8 DEF RxOut
    <3>2. Out(e)' = Out(e) + 1
      BY <1>4, <2>10, <3>1 DEF Out, OneIf, Task
    <3>3. Out(e) = 0
      BY <1>3, <2>2
    <3>4. Out(e)' = 1
      BY <3>2, <3>3
    <3> QED
      BY <2>5, <2>7, <3>4
  <2>13. /\ EntryOk(pacer'[e]) /\ pacer'[e].stream = pacer[e].stream
         /\ pacer'[rx'.entry].count = 0
    BY <1>2, <2>5, <2>6, <2>7, <2>8 DEF p
  <2> QED
    BY <1>1, <1>5, <2>1, <2>8, <2>9, <2>11, <2>12, <2>13, EntryStep
<1>8. CASE ~AtOnce(p) /\ p.count + p.flight < Depth
  <2> DEFINE i == At(p.head, p.count)
  <2>1. /\ rx' = Resting /\ Drain("rx") /\ wire' = wire
        /\ pacer' = [pacer EXCEPT ![e].slot[i] = rx.n, ![e].count = @ + 1]
    BY <1>2, <1>3, <1>8, <1>6, DepthType
  <2>2. i \in 0..Depth - 1
    BY <1>3, PlaceIs DEF Pacing
  <2> HIDE DEF i
  <2> DEFINE c == p.count + 1
             q == [p EXCEPT !.slot = [p.slot EXCEPT ![i] = rx.n], !.count = c]
  <2>3. c \in 0..Depth /\ c + p.flight <= Depth
    BY <1>3, <1>8, DepthType
  <2>4. pacer' = [pacer EXCEPT ![e] = q]
    BY <2>1 DEF PacerType, Pacing, p
  <2> HIDE DEF c
  <2>5. /\ q \in Pacing /\ q.flight = p.flight /\ q.count = c /\ q.sent = p.sent
        /\ q.stream = p.stream /\ q.max = p.max /\ q.interval = p.interval
    BY <1>1, <1>3, <2>2, <2>3 DEF Pacing
  <2>6. EntryOk(q)
    BY <1>3, <2>3, <2>5, PacerAssumption DEF EntryOk
  <2> HIDE DEF q
  <2>7. /\ pacer' \in [Entry -> Pacing] /\ pacer'[e] = q
        /\ \A f \in Entry \ {e} : pacer'[f] = pacer[f]
    BY <2>4, <2>5 DEF PacerType
  <2>8. rx' \in Forwarding /\ rx'.at = "off"
    BY <2>1 DEF Forwarding, Resting
  <2>9. /\ drain' \in [Task -> Drainings]
        /\ \A j \in Task \ {"rx"} : drain'[j] = drain[j]
        /\ drain'["rx"].at \in {"off", "look"}
        /\ \A k, j \in Task :
             drain'[k].at \in {"look", "send"} /\ drain'[j].at \in {"look", "send"}
             => k = j
    BY <1>1, <2>1, DrainIs
  <2>10. PacerType'
    BY <1>1, <2>1, <2>7, <2>8, <2>9 DEF PacerType
  <2>11. \A f \in Entry : Out(f)' = Out(f)
    <3> TAKE f \in Entry
    <3>1. RxOut(f)' <=> RxOut(f)
      BY <1>4, <2>8 DEF RxOut
    <3>2. \A j \in Task : TaskOut(j, f)' <=> TaskOut(j, f)
      BY <1>1, <2>9 DEF TaskOut
    <3> QED
      BY <3>1, <3>2, OutSame
  <2>12. /\ EntryOk(pacer'[e]) /\ pacer'[e].stream = pacer[e].stream
         /\ pacer'[e].flight = Out(e)'
    BY <1>3, <2>5, <2>6, <2>7, <2>11 DEF p
  <2> QED
    BY <1>1, <2>7, <2>8, <2>9, <2>10, <2>11, <2>12, EntryStep
<1>9. CASE ~AtOnce(p) /\ p.count + p.flight >= Depth
  <2>1. /\ rx' = [at |-> "head", entry |-> rx.entry, n |-> rx.n, slot |-> p.head]
        /\ pacer' = [pacer EXCEPT ![e] = Taken(pacer[e])]
        /\ Crossed(e) /\ UNCHANGED <<drain, talker>>
    BY <1>2, <1>3, <1>9, <1>6, DepthType DEF p
  <2>2. Out(e) <= 1
    BY <1>1, <1>4 DEF Out, OneIf, TaskOut
  <2>3. p.count > 0
    BY <1>3, <1>9, <2>2, DepthType
  <2>4. /\ rx' \in Forwarding /\ rx'.at = "head" /\ rx'.entry = rx.entry
        /\ rx'.n = rx.n
    BY <1>1, <1>3, <2>1 DEF Forwarding, Pacing
  <2>5. /\ pacer' \in [Entry -> Pacing] /\ EntryOk(pacer'[e])
        /\ pacer'[e].stream = pacer[e].stream
        /\ pacer'[e].flight = pacer[e].flight + 1
        /\ \A f \in Entry \ {e} : pacer'[f] = pacer[f]
    BY <2>1, <2>3, TakeHead DEF p
  <2>6. PacerType'
    BY <1>3, <2>1, <2>4, <2>5, CrossedIs DEF PacerType, p
  <2>7. \A f \in Entry, j \in Task : TaskOut(j, f)' <=> TaskOut(j, f)
    BY <2>1 DEF TaskOut
  <2>8. \A f \in Entry \ {e} : pacer'[f] = pacer[f] /\ Out(f)' = Out(f)
    <3> TAKE f \in Entry \ {e}
    <3>1. RxOut(f)' <=> RxOut(f)
      BY <1>2, <1>4, <2>4 DEF RxOut
    <3> QED
      BY <2>5, <2>7, <3>1, OutSame
  <2>9. pacer'[e].flight = Out(e)'
    <3>1. RxOut(e)'
      BY <1>2, <2>4 DEF RxOut
    <3>2. Out(e)' = Out(e) + 1
      BY <1>4, <2>7, <3>1 DEF Out, OneIf, Task
    <3> QED
      BY <1>3, <2>5, <3>2 DEF p
  <2> QED
    BY <1>1, <1>5, <2>1, <2>4, <2>5, <2>6, <2>8, <2>9, EntryStep
<1> QED
  BY <1>7, <1>8, <1>9, <1>6

\* A frame of s has come: what its talker sent, as n.
LEMMA CameIs ==
  ASSUME PacerType, NEW s \in Stream, NEW n \in Nat,
         talker' = [talker EXCEPT ![s].sent = n]
  PROVE  /\ talker' \in [Stream -> [sent : Nat, tspec : Tspecs]]
         /\ talker'[s].sent = n
         /\ \A t \in Stream \ {s} : talker'[t] = talker[t]
         /\ \A t \in Stream : talker'[t].tspec = talker[t].tspec
<1> DEFINE w == [talker[s] EXCEPT !.sent = n]
<1>1. talker[s] \in [sent : Nat, tspec : Tspecs]
  BY DEF PacerType
<1>2. w \in [sent : Nat, tspec : Tspecs] /\ w.sent = n /\ w.tspec = talker[s].tspec
  BY <1>1
<1>3. talker' = [talker EXCEPT ![s] = w]
  BY DEF PacerType
<1> HIDE DEF w
<1> QED
  BY <1>2, <1>3 DEF PacerType

\* A stream's record of what left is written anew.
LEMMA WireIs ==
  ASSUME PacerType, NEW s \in Stream, NEW r \in Seq(Frame), NEW c \in BOOLEAN,
         wire' = [wire EXCEPT ![s] = [recent |-> r, crossed |-> c]]
  PROVE  /\ wire' \in [Stream -> [recent : Seq(Frame), crossed : BOOLEAN]]
         /\ wire'[s].recent = r /\ wire'[s].crossed = c
         /\ \A t \in Stream \ {s} : wire'[t] = wire[t]
<1> DEFINE w == [recent |-> r, crossed |-> c]
<1>1. w \in [recent : Seq(Frame), crossed : BOOLEAN] /\ w.recent = r /\ w.crossed = c
  OBVIOUS
<1>2. wire' = [wire EXCEPT ![s] = w]
  OBVIOUS
<1> HIDE DEF w
<1> QED
  BY <1>1, <1>2 DEF PacerType

\* A frame passes the queues.
LEMMA PacerUnpaced ==
  ASSUME PacerType, PacerInv, NEW s \in Stream, rx.at = "off", UNCHANGED <<rx, drain>>,
         talker' \in [Stream -> [sent : Nat, tspec : Tspecs]],
         wire' \in [Stream -> [recent : Seq(Frame), crossed : BOOLEAN]],
         pacer' \in [Entry -> Pacing],
         \A e \in Entry : pacer'[e] \in {pacer[e], [pacer[e] EXCEPT !.slots = TRUE]}
  PROVE  PacerType' /\ PacerInv'
<1>1. PacerType'
  BY DEF PacerType
<1>2. \A e \in Entry : EntryOk(pacer'[e]) /\ pacer'[e].flight = pacer[e].flight
                       /\ pacer'[e].stream = pacer[e].stream
  <2> TAKE e \in Entry
  <2>1. pacer[e] \in Pacing /\ EntryOk(pacer[e])
    BY QueuedIs
  <2> DEFINE q == [pacer[e] EXCEPT !.slots = TRUE]
  <2>2. /\ q.count = pacer[e].count /\ q.flight = pacer[e].flight
        /\ q.stream = pacer[e].stream /\ q.max = pacer[e].max
        /\ q.interval = pacer[e].interval /\ q.sent = pacer[e].sent
    BY <2>1 DEF Pacing
  <2>3. pacer'[e] \in {pacer[e], q}
    OBVIOUS
  <2> HIDE DEF q
  <2>4. EntryOk(q)
    BY <2>1, <2>2 DEF EntryOk
  <2> QED
    BY <2>1, <2>2, <2>3, <2>4
<1>3. \A e \in Entry : Out(e)' = Out(e)
  BY DEF Out, OneIf, RxOut, TaskOut
<1>4. \A e \in Entry : pacer'[e].flight = Out(e)'
  BY <1>2, <1>3 DEF PacerInv
<1>5. \A e, f \in Entry :
        pacer'[e].stream = pacer'[f].stream /\ pacer'[e].stream # None => e = f
  <2>1. \A e, f \in Entry :
          pacer[e].stream = pacer[f].stream /\ pacer[e].stream # None => e = f
    BY DEF PacerInv
  <2>2. \A e \in Entry : pacer'[e].stream = pacer[e].stream
    BY <1>2
  <2> QED
    BY <2>1, <2>2
<1> QED
  BY <1>1, <1>2, <1>4, <1>5 DEF PacerInv

\* A frame goes to the queue of its stream, whose entry may be a new one.
LEMMA PacerPaced ==
  ASSUME PacerType, PacerInv, NEW s \in Stream, rx.at = "off", drain["rx"].at = "off",
         drain' = drain,
         NEW n \in Nat, talker' \in [Stream -> [sent : Nat, tspec : Tspecs]],
         talker'[s].sent = n, talker[s].tspec \in Nat \ {0},
         wire' \in [Stream -> [recent : Seq(Frame), crossed : BOOLEAN]],
         NEW e \in Entry, Of(s) \subseteq {e},
         NEW p \in Pacing, Len(p.sent) = p.max \/ p.max = 0,
         p.count + p.flight <= Depth, p.flight = pacer[e].flight,
         rx' = [at |-> "queue", entry |-> e, n |-> n],
         pacer' = [pacer EXCEPT ![e] = Used(p, s)]
  PROVE  /\ PacerType' /\ PacerInv'
         /\ pacer'[e] = Used(p, s) /\ \A f \in Entry \ {e} : pacer'[f] = pacer[f]
<1>1. rx' \in Forwarding /\ rx'.at = "queue" /\ rx'.entry = e /\ rx'.n = n
  BY DEF Forwarding
<1>2. /\ Used(p, s) \in Pacing /\ EntryOk(Used(p, s))
      /\ Used(p, s).stream = s /\ Used(p, s).flight = p.flight
  BY UsedIs
<1>3. /\ pacer' \in [Entry -> Pacing] /\ pacer'[e] = Used(p, s)
      /\ \A f \in Entry \ {e} : pacer'[f] = pacer[f]
  BY <1>2 DEF PacerType
<1>4. PacerType'
  BY <1>1, <1>3 DEF PacerType
<1>5. \A f \in Entry : Out(f)' = Out(f)
  <2> TAKE f \in Entry
  <2>1. RxOut(f)' <=> RxOut(f)
    BY <1>1 DEF RxOut
  <2>2. \A j \in Task : TaskOut(j, f)' <=> TaskOut(j, f)
    BY DEF TaskOut
  <2> QED
    BY <2>1, <2>2, OutSame
<1>6. \A f \in Entry : EntryOk(pacer'[f]) /\ pacer'[f].flight = Out(f)'
  <2> TAKE f \in Entry
  <2>1. EntryOk(pacer[f]) /\ pacer[f].flight = Out(f)
    BY DEF PacerInv
  <2>2. CASE f = e
    BY <1>2, <1>3, <1>5, <2>1, <2>2
  <2>3. CASE f # e
    BY <1>3, <1>5, <2>1, <2>3
  <2> QED
    BY <2>2, <2>3
<1>7. \A f, g \in Entry :
        pacer'[f].stream = pacer'[g].stream /\ pacer'[f].stream # None => f = g
  BY <1>2, <1>3 DEF PacerInv, Of
<1>8. s # None
  BY PacerAssumption
<1>9. PacerInv'
  BY <1>1, <1>2, <1>3, <1>6, <1>7, <1>8 DEF PacerInv
<1> QED
  BY <1>3, <1>4, <1>9

\* What a frame n of s does that arrives: it passes the queues, or it is for the
\* queue of e, which is then used from p on.
Passes(s, n) ==
  /\ rx' = rx
  /\ \E c \in BOOLEAN :
       /\ wire' = [wire EXCEPT ![s] =
            [recent |-> Append(wire[s].recent, [n |-> n, age |-> 0, how |-> "unpaced"]),
             crossed |-> c]]
       /\ c = (wire[s].crossed \/ \E e \in Of(s) : ~Clear(pacer[e]))
  /\ pacer' \in [Entry -> Pacing]
  /\ \A e \in Entry : pacer'[e] \in {pacer[e], [pacer[e] EXCEPT !.slots = TRUE]}

Usable(s, e, p) ==
  /\ talker[s].tspec \in Nat \ {0} /\ Of(s) \subseteq {e}
  /\ \/ e \in Of(s) /\ p = pacer[e]
     \/ /\ Of(s) = {} /\ e \in Spare /\ p = Reset(pacer[e], s)
        /\ pacer[e].count = 0 /\ pacer[e].flight = 0
  /\ Len(p.sent) = p.max \/ p.max = 0
  /\ p.count + p.flight <= Depth /\ p.flight = pacer[e].flight

Queues(s, n, e, p) ==
  /\ rx' = [at |-> "queue", entry |-> e, n |-> n]
  /\ pacer' = [pacer EXCEPT ![e] = Used(p, s)]
  /\ wire' = IF p.max = talker[s].tspec THEN wire
             ELSE [wire EXCEPT ![s] = [recent |-> << >>,
                                       crossed |-> wire[s].crossed \/ p.flight > 0]]

LEMMA ForwardIs ==
  ASSUME PacerType, PacerInv, NEW s \in Stream, Forward(s)
  PROVE  \E n \in Nat :
           /\ n = talker[s].sent + 1 /\ rx.at = "off" /\ drain["rx"].at = "off"
           /\ drain' = drain /\ talker' = [talker EXCEPT ![s].sent = n]
           /\ \/ Passes(s, n)
              \/ \E e \in Entry, p \in Pacing : Usable(s, e, p) /\ Queues(s, n, e, p)
<1>1. talker[s].sent + 1 \in Nat /\ talker[s].tspec \in Nat
  <2>1. talker[s].sent \in Nat /\ talker[s].tspec \in Tspecs /\ Tspecs \subseteq Nat
    BY PacerAssumption DEF PacerType
  <2>2. talker[s].tspec \in Nat
    BY <2>1, Zenon
  <2>3. talker[s].sent + 1 \in Nat
    BY <2>1
  <2> QED
    BY <2>2, <2>3
<1>2. PICK n \in Nat : n = talker[s].sent + 1
  BY <1>1
<1>3. /\ rx.at = "off" /\ drain["rx"].at = "off" /\ drain' = drain
      /\ talker' = [talker EXCEPT ![s].sent = n]
  BY <1>2 DEF Forward
<1> DEFINE Unpaced ==
             /\ wire' = [wire EXCEPT ![s] =
                  [recent |-> Append(wire[s].recent,
                     [n |-> n, age |-> 0, how |-> "unpaced"]),
                   crossed |-> wire[s].crossed \/ \E e \in Of(s) : ~Clear(pacer[e])]]
             /\ rx' = rx
<1>4. \/ Unpaced /\ pacer' = pacer
      \/ talker[s].tspec > 0 /\ \E e \in Of(s) : Queues(s, n, e, pacer[e])
      \/ /\ talker[s].tspec > 0 /\ Of(s) = {} /\ Spare # {}
         /\ Queues(s, n, Min(Spare), Reset(pacer[Min(Spare)], s))
      \/ /\ Unpaced
         /\ pacer' = [e \in Entry |-> IF Spare # {} /\ e = Min(Spare)
                                      THEN [pacer[e] EXCEPT !.slots = TRUE]
                                      ELSE pacer[e]]
  <2>1. wire[s] = [recent |-> wire[s].recent, crossed |-> wire[s].crossed]
    BY DEF PacerType
  <2>2. wire \in [Stream -> [recent : Seq(Frame), crossed : BOOLEAN]]
    BY DEF PacerType
  <2> QED
    BY <1>2, <2>1, <2>2 DEF Forward, Queues
<1>5. ASSUME Unpaced, pacer' \in [Entry -> Pacing],
             \A e \in Entry : pacer'[e] \in {pacer[e], [pacer[e] EXCEPT !.slots = TRUE]}
      PROVE  Passes(s, n)
  <2> DEFINE c == wire[s].crossed \/ \E e \in Of(s) : ~Clear(pacer[e])
  <2>1. wire[s].crossed \in BOOLEAN
    BY DEF PacerType
  <2>2. c \in BOOLEAN
    BY <2>1
  <2>3. rx' = rx /\ wire' = [wire EXCEPT ![s] =
                       [recent |-> Append(wire[s].recent,
                          [n |-> n, age |-> 0, how |-> "unpaced"]),
                        crossed |-> c]]
    BY <1>5
  <2> HIDE DEF c
  <2>4. \E d \in BOOLEAN :
          /\ wire' = [wire EXCEPT ![s] =
               [recent |-> Append(wire[s].recent,
                  [n |-> n, age |-> 0, how |-> "unpaced"]),
                crossed |-> d]]
          /\ d = c
    BY <2>2, <2>3
  <2> QED
    BY <1>5, <2>3, <2>4 DEF Passes, c
<1> HIDE DEF Unpaced
<1>6. CASE Unpaced /\ pacer' = pacer
  <2>1. pacer' \in [Entry -> Pacing]
    BY <1>6 DEF PacerType
  <2> QED
    BY <1>2, <1>3, <1>5, <1>6, <2>1
<1>7. CASE talker[s].tspec > 0 /\ \E e \in Of(s) : Queues(s, n, e, pacer[e])
  <2>1. PICK e \in Of(s) : Queues(s, n, e, pacer[e])
    BY <1>7
  <2>2. e \in Entry /\ pacer[e].stream = s /\ s # None
    BY PacerAssumption DEF Of
  <2>3. pacer[e] \in Pacing /\ EntryOk(pacer[e])
    BY <2>2, QueuedIs
  <2>4. Of(s) \subseteq {e}
    BY <2>2 DEF Of, PacerInv
  <2>5. Usable(s, e, pacer[e])
    BY <1>1, <1>7, <2>3, <2>4 DEF EntryOk, Usable
  <2> QED
    BY <1>2, <1>3, <2>1, <2>2, <2>3, <2>5
<1>8. CASE /\ talker[s].tspec > 0 /\ Of(s) = {} /\ Spare # {}
           /\ Queues(s, n, Min(Spare), Reset(pacer[Min(Spare)], s))
  <2>1. PICK e \in Entry : e = Min(Spare) /\ e \in Spare
    BY <1>8, FirstEntry DEF Spare
  <2>2. pacer[e] \in Pacing /\ EntryOk(pacer[e])
    BY QueuedIs
  <2>3. pacer[e].count = 0 /\ pacer[e].flight = 0
    BY <2>1, <2>2 DEF Spare, EntryOk
  <2>4. PICK p \in Pacing : p = Reset(pacer[e], s)
    BY <2>2, ResetIs
  <2>5. p.max = 0 /\ p.count = 0 /\ p.flight = 0
    BY <2>2, <2>3, <2>4, ResetIs
  <2>6. Usable(s, e, p)
    BY <1>1, <1>8, <2>1, <2>3, <2>4, <2>5, DepthType DEF Usable
  <2> QED
    BY <1>2, <1>3, <1>8, <2>1, <2>4, <2>6
<1>9. CASE /\ Unpaced
           /\ pacer' = [e \in Entry |-> IF Spare # {} /\ e = Min(Spare)
                                        THEN [pacer[e] EXCEPT !.slots = TRUE]
                                        ELSE pacer[e]]
  <2>1. \A e \in Entry : pacer'[e] \in {pacer[e], [pacer[e] EXCEPT !.slots = TRUE]}
    BY <1>9
  <2>2. \A e \in Entry : [pacer[e] EXCEPT !.slots = TRUE] \in Pacing /\ pacer[e] \in Pacing
    BY DEF PacerType, Pacing
  <2>3. pacer' \in [Entry -> Pacing]
    BY <1>9, <2>2
  <2> QED
    BY <1>2, <1>3, <1>5, <1>9, <2>1, <2>3
<1> QED
  BY <1>4, <1>6, <1>7, <1>8, <1>9

LEMMA PacerForward ==
  ASSUME PacerType, PacerInv, NEW s \in Stream, Forward(s)
  PROVE  PacerType' /\ PacerInv'
<1>1. PICK n \in Nat :
        /\ n = talker[s].sent + 1 /\ rx.at = "off" /\ drain["rx"].at = "off"
        /\ drain' = drain /\ talker' = [talker EXCEPT ![s].sent = n]
        /\ \/ Passes(s, n)
           \/ \E e \in Entry, p \in Pacing : Usable(s, e, p) /\ Queues(s, n, e, p)
  BY ForwardIs
<1>2. talker' \in [Stream -> [sent : Nat, tspec : Tspecs]] /\ talker'[s].sent = n
  BY <1>1, CameIs
<1>3. CASE Passes(s, n)
  <2>1. PICK c \in BOOLEAN : wire' = [wire EXCEPT ![s] =
           [recent |-> Append(wire[s].recent, [n |-> n, age |-> 0, how |-> "unpaced"]),
            crossed |-> c]]
    BY <1>3 DEF Passes
  <2>2. Append(wire[s].recent, [n |-> n, age |-> 0, how |-> "unpaced"]) \in Seq(Frame)
    <3>1. wire[s].recent \in Seq(Frame)
      BY DEF PacerType
    <3>2. [n |-> n, age |-> 0, how |-> "unpaced"] \in Frame
      BY DEF Frame
    <3> QED
      BY <3>1, <3>2
  <2>3. wire' \in [Stream -> [recent : Seq(Frame), crossed : BOOLEAN]]
    BY <2>1, <2>2, WireIs
  <2> QED
    BY <1>1, <1>2, <1>3, <2>3, PacerUnpaced DEF Passes
<1>4. ASSUME NEW e \in Entry, NEW p \in Pacing, Usable(s, e, p), Queues(s, n, e, p)
      PROVE  PacerType' /\ PacerInv'
  <2>1. wire' \in [Stream -> [recent : Seq(Frame), crossed : BOOLEAN]]
    <3>1. CASE p.max = talker[s].tspec
      BY <1>4, <3>1 DEF Queues, PacerType
    <3>2. CASE p.max # talker[s].tspec
      <4>1. PICK c \in BOOLEAN : c = (wire[s].crossed \/ p.flight > 0)
        BY DEF PacerType
      <4>2. << >> \in Seq(Frame)
        OBVIOUS
      <4>3. wire' = [wire EXCEPT ![s] = [recent |-> << >>, crossed |-> c]]
        BY <1>4, <3>2, <4>1 DEF Queues
      <4> QED
        BY <4>2, <4>3, WireIs
    <3> QED
      BY <3>1, <3>2
  <2> QED
    BY <1>1, <1>2, <1>4, <2>1, PacerPaced DEF Usable, Queues
<1> QED
  BY <1>1, <1>3, <1>4

\* A tick forgets the oldest frames, and the last one never.
LEMMA AgedIs ==
  ASSUME NEW t \in Nat, NEW max \in Nat
  PROVE  Aged(t, max) \in Nat
BY DEF Aged

LEMMA RecentIs ==
  ASSUME NEW s \in Stream, NEW r \in Seq(Frame)
  PROVE  /\ Recent(s, r) \in Seq(Frame)
         /\ r = << >> => Recent(s, r) = << >>
         /\ r # << >> => \E c \in 0..Len(r) - 1 :
              /\ Len(Recent(s, r)) = Len(r) - c
              /\ \A i \in 1..Len(r) - c : Recent(s, r)[i] = r[i + c]
<1> DEFINE old == {i \in DOMAIN r : r[i].age >= Interval[s] /\ i < Len(r)}
           c == Cardinality(old)
<1>1. Recent(s, r) = SubSeq(r, c + 1, Len(r))
  BY DEF Recent
<1>2. DOMAIN r = 1..Len(r) /\ Len(r) \in Nat
  OBVIOUS
<1>3. CASE r = << >>
  <2>1. old = {}
    BY <1>3
  <2>2. c = 0
    BY <2>1, FS_EmptySet
  <2> HIDE DEF c
  <2>3. Recent(s, r) = << >>
    BY <1>1, <1>3, <2>2
  <2>4. << >> \in Seq(Frame)
    OBVIOUS
  <2> QED
    BY <1>3, <2>3, <2>4
<1>4. CASE r # << >>
  <2>1. Len(r) > 0
    BY <1>4
  <2>2. old \subseteq 1..Len(r) - 1
    BY <1>2
  <2>3. IsFiniteSet(1..Len(r) - 1) /\ Cardinality(1..Len(r) - 1) = Len(r) - 1
    BY <1>2, <2>1, FS_Interval
  <2>4. c \in Nat /\ c <= Len(r) - 1
    BY <2>2, <2>3, FS_Subset, FS_CardinalityType
  <2> HIDE DEF c
  <2>5. /\ SubSeq(r, c + 1, Len(r)) \in Seq(Frame)
        /\ Len(SubSeq(r, c + 1, Len(r))) = Len(r) - c
        /\ \A i \in 1..Len(r) - c : SubSeq(r, c + 1, Len(r))[i] = r[i + c]
    BY <1>2, <2>1, <2>4, SubSeqProperties
  <2> QED
    BY <1>1, <1>4, <2>4, <2>5
<1> QED
  BY <1>3, <1>4

LEMMA TickWire ==
  ASSUME PacerType, Tick
  PROVE  /\ wire' \in [Stream -> [recent : Seq(Frame), crossed : BOOLEAN]]
         /\ \A s \in Stream :
              /\ wire'[s].crossed = wire[s].crossed
              /\ wire[s].recent = << >> => wire'[s].recent = << >>
              /\ wire[s].recent # << >> =>
                   \E c \in 0..Len(wire[s].recent) - 1 :
                     /\ Len(wire'[s].recent) = Len(wire[s].recent) - c
                     /\ \A i \in 1..Len(wire[s].recent) - c :
                          wire'[s].recent[i] = [wire[s].recent[i + c] EXCEPT !.age =
                            Aged(wire[s].recent[i + c].age, Interval[s])]
<1> DEFINE w(s) == [wire[s] EXCEPT !.recent = Recent(s, Older(wire[s].recent, Interval[s]))]
<1>1. wire' = [s \in Stream |-> w(s)]
  BY DEF Tick
<1>2. ASSUME NEW s \in Stream
      PROVE  /\ wire'[s] \in [recent : Seq(Frame), crossed : BOOLEAN]
             /\ wire'[s].crossed = wire[s].crossed
             /\ wire[s].recent = << >> => wire'[s].recent = << >>
             /\ wire[s].recent # << >> =>
                  \E c \in 0..Len(wire[s].recent) - 1 :
                    /\ Len(wire'[s].recent) = Len(wire[s].recent) - c
                    /\ \A i \in 1..Len(wire[s].recent) - c :
                         wire'[s].recent[i] = [wire[s].recent[i + c] EXCEPT !.age =
                           Aged(wire[s].recent[i + c].age, Interval[s])]
  <2>1. wire[s] \in [recent : Seq(Frame), crossed : BOOLEAN] /\ Interval[s] \in Nat
    BY PacerAssumption DEF PacerType
  <2> DEFINE r == wire[s].recent  g == Older(wire[s].recent, Interval[s])
  <2>2. r \in Seq(Frame) /\ DOMAIN r = 1..Len(r) /\ Len(r) \in Nat
    BY <2>1
  <2>3. \A i \in 1..Len(r) : [r[i] EXCEPT !.age = Aged(r[i].age, Interval[s])] \in Frame
    <3> TAKE i \in 1..Len(r)
    <3>1. r[i] \in Frame
      BY <2>2
    <3>2. Aged(r[i].age, Interval[s]) \in Nat
      BY <2>1, <3>1, AgedIs DEF Frame
    <3> QED
      BY <3>1, <3>2 DEF Frame
  <2>4. g = [i \in 1..Len(r) |-> [r[i] EXCEPT !.age = Aged(r[i].age, Interval[s])]]
    BY <2>2 DEF Older
  <2> HIDE DEF g
  <2>5. g \in Seq(Frame) /\ Len(g) = Len(r)
    BY <2>2, <2>3, <2>4
  <2>6. \A i \in 1..Len(r) :
          g[i] = [r[i] EXCEPT !.age = Aged(r[i].age, Interval[s])]
    BY <2>4
  <2>7. wire'[s] = [wire[s] EXCEPT !.recent = Recent(s, g)]
    BY <1>1 DEF g
  <2>8. Recent(s, g) \in Seq(Frame)
    BY <2>5, RecentIs
  <2>9. /\ wire'[s] \in [recent : Seq(Frame), crossed : BOOLEAN]
        /\ wire'[s].crossed = wire[s].crossed /\ wire'[s].recent = Recent(s, g)
    BY <2>1, <2>7, <2>8
  <2>10. r = << >> => wire'[s].recent = << >>
    <3> SUFFICES ASSUME r = << >> PROVE Recent(s, g) = << >>
      BY <2>9
    <3>1. g = << >>
      BY <2>5
    <3> QED
      BY <2>5, <3>1, RecentIs
  <2>11. ASSUME r # << >>
         PROVE  \E c \in 0..Len(r) - 1 :
                  /\ Len(wire'[s].recent) = Len(r) - c
                  /\ \A i \in 1..Len(r) - c :
                       wire'[s].recent[i] = [r[i + c] EXCEPT !.age =
                           Aged(r[i + c].age, Interval[s])]
    <3>1. g # << >>
      BY <2>2, <2>5, <2>11
    <3>2. PICK c \in 0..Len(g) - 1 :
            /\ Len(Recent(s, g)) = Len(g) - c
            /\ \A i \in 1..Len(g) - c : Recent(s, g)[i] = g[i + c]
      BY <2>5, <3>1, RecentIs
    <3>3. \A i \in 1..Len(r) - c : i + c \in 1..Len(r)
      BY <2>2, <2>5, <3>2
    <3>4. \A i \in 1..Len(r) - c :
            wire'[s].recent[i] = [r[i + c] EXCEPT !.age = Aged(r[i + c].age, Interval[s])]
      BY <2>5, <2>6, <2>9, <3>2, <3>3
    <3>5. c \in 0..Len(r) - 1 /\ Len(wire'[s].recent) = Len(r) - c
      BY <2>5, <2>9, <3>2
    <3> QED
      BY <3>4, <3>5
  <2> QED
    BY <2>9, <2>10, <2>11
<1> HIDE DEF w
<1>3. wire' \in [Stream -> [recent : Seq(Frame), crossed : BOOLEAN]]
  BY <1>1, <1>2
<1> QED
  BY <1>2, <1>3

LEMMA TickPacer ==
  ASSUME PacerType, Tick
  PROVE  /\ pacer' \in [Entry -> Pacing]
         /\ \A e \in Entry :
              /\ pacer'[e].stream = pacer[e].stream /\ pacer'[e].slot = pacer[e].slot
              /\ pacer'[e].head = pacer[e].head /\ pacer'[e].count = pacer[e].count
              /\ pacer'[e].flight = pacer[e].flight /\ pacer'[e].max = pacer[e].max
              /\ pacer'[e].interval = pacer[e].interval
              /\ pacer'[e].sent = [i \in 1..Len(pacer[e].sent) |->
                                    Aged(pacer[e].sent[i], pacer[e].interval)]
<1> DEFINE sent(e) == [i \in DOMAIN pacer[e].sent |->
                        Aged(pacer[e].sent[i], pacer[e].interval)]
           idle(e) == IF pacer[e].stream = None THEN 0 ELSE Aged(pacer[e].idle, Idle + 1)
           p(e) == [pacer[e] EXCEPT !.sent = sent(e), !.idle = idle(e)]
<1>1. pacer' = [e \in Entry |-> p(e)]
  BY DEF Tick, PacerType, Pacing
<1>2. ASSUME NEW e \in Entry
      PROVE  /\ p(e) \in Pacing
             /\ p(e).stream = pacer[e].stream /\ p(e).slot = pacer[e].slot
             /\ p(e).head = pacer[e].head /\ p(e).count = pacer[e].count
             /\ p(e).flight = pacer[e].flight /\ p(e).max = pacer[e].max
             /\ p(e).interval = pacer[e].interval
             /\ p(e).sent = [i \in 1..Len(pacer[e].sent) |->
                              Aged(pacer[e].sent[i], pacer[e].interval)]
  <2>1. pacer[e] \in Pacing
    BY DEF PacerType
  <2>2. idle(e) \in Nat
    <3>1. pacer[e].idle \in Nat
      BY <2>1 DEF Pacing
    <3>2. Idle \in Nat
      BY PacerAssumption
    <3>3. Idle + 1 \in Nat
      BY <3>2
    <3>4. Aged(pacer[e].idle, Idle + 1) \in Nat
      BY <3>1, <3>3, AgedIs
    <3> QED
      BY <3>4
  <2>3. pacer[e].sent \in Seq(Nat) /\ pacer[e].interval \in Nat
    BY <2>1 DEF Pacing
  <2>4. \A i \in 1..Len(pacer[e].sent) :
          Aged(pacer[e].sent[i], pacer[e].interval) \in Nat
    <3> TAKE i \in 1..Len(pacer[e].sent)
    <3>1. pacer[e].sent[i] \in Nat
      BY <2>3
    <3> QED
      BY <2>3, <3>1, AgedIs
  <2>5. sent(e) = [i \in 1..Len(pacer[e].sent) |->
                    Aged(pacer[e].sent[i], pacer[e].interval)]
    BY <2>3
  <2>6. sent(e) \in Seq(Nat)
    <3>1. PICK l \in Nat : l = Len(pacer[e].sent)
      BY <2>3
    <3>2. sent(e) \in [1..l -> Nat]
      BY <2>4, <2>5, <3>1
    <3> QED
      BY <3>1, <3>2
  <2> HIDE DEF sent, idle
  <2> QED
    BY <2>1, <2>2, <2>5, <2>6 DEF Pacing
<1> HIDE DEF p
<1> QED
  BY <1>1, <1>2

LEMMA PacerTick ==
  ASSUME PacerType, PacerInv, Tick
  PROVE  PacerType' /\ PacerInv'
<1>1. UNCHANGED <<rx, drain, talker>>
  BY DEF Tick
<1>2. PacerType'
  BY <1>1, TickPacer, TickWire DEF PacerType
<1>3. \A e \in Entry : EntryOk(pacer'[e]) /\ pacer'[e].flight = pacer[e].flight
                       /\ pacer'[e].stream = pacer[e].stream
                       /\ pacer'[e].count = pacer[e].count
  <2> TAKE e \in Entry
  <2>1. pacer[e] \in Pacing /\ EntryOk(pacer[e])
    BY QueuedIs
  <2>2. pacer'[e].sent = [i \in 1..Len(pacer[e].sent) |->
                           Aged(pacer[e].sent[i], pacer[e].interval)]
        /\ pacer[e].sent \in Seq(Nat) /\ pacer'[e] \in Pacing
    BY <2>1, TickPacer DEF Pacing
  <2>3. Len(pacer'[e].sent) = Len(pacer[e].sent)
    BY <2>2
  <2>4. EntryOk(pacer'[e])
    BY <2>1, <2>3, TickPacer DEF EntryOk
  <2> QED
    BY <2>4, TickPacer
<1>4. \A e \in Entry : Out(e)' = Out(e)
  BY <1>1 DEF Out, OneIf, RxOut, TaskOut
<1>5. \A e \in Entry : pacer'[e].flight = Out(e)'
  BY <1>3, <1>4 DEF PacerInv
<1>6. \A e, f \in Entry :
        pacer'[e].stream = pacer'[f].stream /\ pacer'[e].stream # None => e = f
  <2>1. \A e, f \in Entry :
          pacer[e].stream = pacer[f].stream /\ pacer[e].stream # None => e = f
    BY DEF PacerInv
  <2>2. \A e \in Entry : pacer'[e].stream = pacer[e].stream
    BY <1>3
  <2> QED
    BY <2>1, <2>2
<1>7. rx.at = "off"
  BY DEF Tick
<1> QED
  BY <1>1, <1>2, <1>3, <1>5, <1>6, <1>7 DEF PacerInv

LEMMA PacerStep == PacerType /\ PacerInv /\ [Next]_vars => PacerType' /\ PacerInv'
<1> SUFFICES ASSUME PacerType, PacerInv, [Next]_vars PROVE PacerType' /\ PacerInv'
  OBVIOUS
<1>1. CASE UNCHANGED vars
  BY <1>1 DEF vars, PacerType, PacerInv, Out, OneIf, RxOut, TaskOut
<1>2. CASE Next
  BY <1>2, PacerForward, PacerDeclare, PacerPlace, PacerSendHead, PacerSendNow,
     PacerWake, PacerTick, PacerTake, PacerSend, PacerArm DEF Next
<1> QED
  BY <1>1, <1>2

(***************************************************************************)
(* Every step keeps the frames in order.                                   *)
(***************************************************************************)
LEMMA AppendLine ==
  ASSUME NEW r \in Seq(Frame), NEW f \in Frame, Consecutive(r),
         r # << >> => f.n = r[Len(r)].n + 1
  PROVE  /\ Append(r, f) \in Seq(Frame) /\ Append(r, f) # << >>
         /\ Consecutive(Append(r, f))
         /\ Append(r, f)[Len(Append(r, f))] = f
<1> DEFINE a == Append(r, f)
<1>1. /\ a \in Seq(Frame) /\ Len(a) = Len(r) + 1 /\ Len(r) \in Nat
      /\ \A i \in 1..Len(r) : a[i] = r[i]
      /\ a[Len(r) + 1] = f
  OBVIOUS
<1> HIDE DEF a
<1>2. ASSUME NEW i \in 2..Len(a) PROVE a[i].n = a[i - 1].n + 1
  <2>1. CASE i = Len(a)
    <3>1. r # << >> /\ i - 1 = Len(r) /\ Len(r) \in 1..Len(r)
      BY <1>1, <1>2, <2>1
    <3> QED
      BY <1>1, <2>1, <3>1
  <2>2. CASE i # Len(a)
    <3>1. i \in 2..Len(r) /\ i \in 1..Len(r) /\ i - 1 \in 1..Len(r)
      BY <1>1, <1>2, <2>2
    <3> QED
      BY <1>1, <3>1 DEF Consecutive
  <2> QED
    BY <2>1, <2>2
<1>3. a # << >>
  BY <1>1
<1> QED
  BY <1>1, <1>2, <1>3 DEF a, Consecutive

\* Who sends from a slot has a frame on its way.
LEMMA FromIs ==
  ASSUME PacerType, PacerInv, NEW e \in Entry, NEW q, From(e, q)
  PROVE  pacer[e].flight > 0
<1>1. RxOut(e) \/ \E k \in Task : TaskOut(k, e)
  BY DEF From, RxOut
<1>2. pacer[e].flight = Out(e) /\ Out(e) \in 0..2 /\ Out(e) # 0
  BY <1>1, QueuedIs, OutIs
<1> QED
  BY <1>2

\* A step that leaves a stream its queue, and of its record the last frame.
LEMMA StreamSame ==
  ASSUME OrderInv, NEW s \in Stream,
         ~wire'[s].crossed => ~wire[s].crossed,
         Consecutive(wire[s].recent) => Consecutive(wire'[s].recent),
         wire'[s].recent # << >> =>
           /\ wire[s].recent # << >>
           /\ wire'[s].recent[Len(wire'[s].recent)].n
                = wire[s].recent[Len(wire[s].recent)].n,
         Of(s) = {} => talker'[s].sent = talker[s].sent,
         Of(s)' = Of(s),
         \A e \in Of(s) :
           /\ pacer'[e].head = pacer[e].head /\ pacer'[e].count = pacer[e].count
           /\ pacer'[e].flight = pacer[e].flight /\ pacer'[e].slot = pacer[e].slot
           /\ Newest(e)' = Newest(e)
           /\ \A q \in 0..Depth - 1 : From(e, q)' => From(e, q)
  PROVE  ~wire'[s].crossed => StreamLine(s)'
<1> SUFFICES ASSUME ~wire'[s].crossed PROVE StreamLine(s)'
  OBVIOUS
<1>1. StreamLine(s)
  BY DEF OrderInv
<1>2. ASSUME NEW e \in Of(s) PROVE EntryLine(e)'
  <2>1. EntryLine(e) /\ pacer[e].stream = s /\ pacer'[e].stream = s
    BY <1>1 DEF StreamLine, Of
  <2>2. QueueLine(pacer[e], Newest(e)) => QueueLine(pacer'[e], Newest(e)')
    BY DEF QueueLine
  <2>3. \A q \in 0..Depth - 1 :
          Before(pacer[e], q, Newest(e)) => Before(pacer'[e], q, Newest(e)')
    BY DEF Before
  <2> QED
    BY <2>1, <2>2, <2>3 DEF EntryLine
<1> QED
  BY <1>1, <1>2 DEF StreamLine

\* The streams of other entries.
LEMMA OtherStream ==
  ASSUME PacerType, PacerInv, OrderInv, NEW e \in Entry, NEW s \in Stream,
         pacer[e].stream # s, pacer'[e].stream # s,
         wire'[s] = wire[s], talker'[s].sent = talker[s].sent,
         \A f \in Entry \ {e} :
           /\ pacer'[f] = pacer[f]
           /\ rx'.at \in {"queue", "head"} /\ rx'.entry = f
                <=> rx.at \in {"queue", "head"} /\ rx.entry = f
           /\ \A q \in 0..Depth - 1 : From(f, q)' => From(f, q)
  PROVE  ~wire'[s].crossed => StreamLine(s)'
<1>1. Of(s)' = Of(s) /\ e \notin Of(s) /\ Of(s) \subseteq Entry
  BY DEF Of
<1>2. \A f \in Of(s) : Newest(f)' = Newest(f)
  BY <1>1 DEF Newest, OneIf, Of
<1> QED
  BY <1>1, <1>2, StreamSame

LEMMA OrderInit == Init => OrderInv
<1> SUFFICES ASSUME Init, NEW s \in Stream PROVE StreamLine(s)
  BY DEF OrderInv
<1>1. wire[s].recent = << >>
  BY DEF Init
<1>2. s # None /\ \A e \in Entry : pacer[e].stream = None
  BY PacerAssumption DEF Init, NoEntry
<1>3. Of(s) = {}
  BY <1>2 DEF Of
<1>4. Consecutive(<< >>)
  BY DEF Consecutive
<1> QED
  BY <1>1, <1>3, <1>4 DEF StreamLine

\* The head of a queue that no other task sends from.
LEMMA HeadTaken ==
  ASSUME PacerType, PacerInv, OrderInv, NEW e \in Entry, pacer[e].count > 0,
         NEW s \in Stream, s = pacer[e].stream,
         pacer' = [pacer EXCEPT ![e] = Taken(pacer[e])], Crossed(e),
         talker' = talker, rx.at \in {"queue", "head"} /\ rx.entry = e
           <=> rx'.at \in {"queue", "head"} /\ rx'.entry = e,
         \A q \in 0..Depth - 1 : From(e, q)' => From(e, q) \/ q = pacer[e].head
  PROVE  ~wire'[s].crossed => StreamLine(s)'
<1>1. s = pacer[e].stream
  OBVIOUS
<1> SUFFICES ASSUME ~wire'[s].crossed PROVE StreamLine(s)'
  OBVIOUS
<1> DEFINE p == pacer[e]
<1>2. p \in Pacing /\ EntryOk(p) /\ p.count \in 1..Depth /\ p.head \in 0..Depth - 1
  BY QueuedIs DEF Pacing
<1>3. /\ wire'[s].recent = wire[s].recent /\ ~wire[s].crossed /\ p.flight = 0
  <2>1. wire'[s].crossed = (wire[s].crossed \/ p.flight > 0)
        /\ wire'[s].recent = wire[s].recent
    BY <1>1, CrossedIs
  <2>2. p.flight \in 0..2 /\ wire[s].crossed \in BOOLEAN
    BY QueuedIs DEF PacerType
  <2>3. ~(wire[s].crossed \/ p.flight > 0)
    BY <2>1, Zenon
  <2> QED
    BY <2>1, <2>2, <2>3
<1>4. StreamLine(s) /\ e \in Of(s)
  BY <1>1, <1>3 DEF OrderInv, Of
<1>5. EntryLine(e)
  BY <1>4 DEF StreamLine
<1>6. Newest(e)' = Newest(e) /\ Newest(e) \in Int
  <2>1. pacer'[e].stream = pacer[e].stream
    BY TakeHead
  <2>2. talker[s].sent \in Nat
    BY DEF PacerType
  <2> QED
    BY <1>1, <2>1, <2>2 DEF Newest, OneIf
<1>7. /\ Taken(p).head = At(p.head, 1) /\ Taken(p).count = p.count - 1
      /\ Taken(p).flight = 1 /\ Taken(p).slot = p.slot
  BY <1>2, <1>3, TakenIs
<1> DEFINE m == Newest(e)  t == Taken(p)
<1>8. QueueLine(t, m)
  <2> SUFFICES ASSUME NEW j \in 0..t.count - 1
               PROVE  t.slot[At(t.head, j)] = m - t.count + 1 + j
    BY DEF QueueLine
  <2>1. j \in 0..Depth - 1 /\ j + 1 \in 0..p.count - 1
    BY <1>2, <1>7, DepthType
  <2>2. At(t.head, j) = At(p.head, j + 1)
    BY <1>2, <1>7, <2>1, NextPlace
  <2>3. p.slot[At(p.head, j + 1)] = m - p.count + 1 + (j + 1)
    BY <1>5, <2>1 DEF EntryLine, QueueLine
  <2> QED
    BY <1>2, <1>6, <1>7, <2>1, <2>2, <2>3, DepthType
<1>9. Before(t, p.head, m)
  <2>1. At(p.head, 0) = p.head
    BY <1>2, PlaceIs, DepthType
  <2>2. p.slot[At(p.head, 0)] = m - p.count + 1 + 0
    BY <1>2, <1>5, DepthType DEF EntryLine, QueueLine
  <2> QED
    BY <1>2, <1>6, <1>7, <2>1, <2>2, DepthType DEF Before
<1>10. \A q \in 0..Depth - 1 : From(e, q)' => q = p.head
  <2> TAKE q \in 0..Depth - 1
  <2>1. ~From(e, q)
    BY <1>3, FromIs
  <2> QED
    BY <2>1
<1>11. pacer'[e] = t /\ pacer'[e].stream = s
  BY <1>1, TakeHead
<1>12. m - p.count - p.flight = m - t.count - t.flight
  BY <1>2, <1>3, <1>6, <1>7, DepthType
<1> HIDE DEF t, m
<1>13. EntryLine(e)'
  BY <1>1, <1>3, <1>5, <1>6, <1>7, <1>8, <1>9, <1>10, <1>11, <1>12
     DEF EntryLine, m, t
<1>14. Of(s)' = {e}
  BY <1>1, <1>11, TakeHead, PacerAssumption DEF Of, PacerInv
<1> QED
  BY <1>3, <1>4, <1>13, <1>14 DEF StreamLine

\* A frame leaves the slot it was taken from.
LEMMA SlotLeft ==
  ASSUME PacerType, PacerInv, OrderInv, PacerType', PacerInv', NEW e \in Entry,
         NEW s \in Stream, s = pacer[e].stream, NEW q \in 0..Depth - 1, From(e, q),
         NEW how \in {"paced", "early"}, Left(s, pacer[e].slot[q], how), Sent(e),
         talker' = talker, rx.at \in {"queue", "head"} /\ rx.entry = e
           <=> rx'.at \in {"queue", "head"} /\ rx'.entry = e
  PROVE  ~wire'[s].crossed => StreamLine(s)'
<1> SUFFICES ASSUME ~wire'[s].crossed PROVE StreamLine(s)'
  OBVIOUS
<1> DEFINE p == pacer[e]  n == p.slot[q]  r == wire[s].recent
           f == [n |-> n, age |-> 0, how |-> how]
<1>1. p \in Pacing /\ p.count \in Nat /\ p.flight > 0 /\ p.flight \in 0..2
  BY QueuedIs, FromIs
<1>2. n \in Nat
  BY <1>1 DEF Pacing
<1>3. wire'[s].recent = Append(r, f) /\ ~wire[s].crossed
  BY <1>2, LeftIs
<1>4. StreamLine(s) /\ e \in Of(s)
  BY <1>3 DEF OrderInv, Of
<1>5. EntryLine(e) /\ Consecutive(r) /\ r \in Seq(Frame)
  BY <1>4 DEF StreamLine, PacerType
<1>6. p.flight = 1 /\ n = Newest(e) - p.count /\ Before(p, q, Newest(e))
  BY <1>1, <1>5 DEF EntryLine, Before
<1>7. Newest(e)' = Newest(e) /\ Newest(e) \in Int
  <2>1. pacer'[e].stream = pacer[e].stream
    BY <1>1, SentIs
  <2>2. talker[s].sent \in Nat
    BY DEF PacerType
  <2> QED
    BY <2>1, <2>2 DEF Newest, OneIf
<1>8. r # << >> => n = r[Len(r)].n + 1
  <2>1. r # << >> => r[Len(r)].n = Newest(e) - p.count - p.flight
    BY <1>5 DEF EntryLine
  <2>2. r # << >> => r[Len(r)].n = Newest(e) - p.count - 1
    BY <1>6, <2>1
  <2> HIDE DEF r, n
  <2> QED
    BY <1>1, <1>6, <1>7, <2>2
<1>9. f \in Frame /\ f.n = n
  BY <1>2 DEF Frame
<1> HIDE DEF f, n
<1>10. /\ Consecutive(wire'[s].recent) /\ wire'[s].recent # << >>
       /\ wire'[s].recent[Len(wire'[s].recent)].n = n
  BY <1>3, <1>5, <1>8, <1>9, AppendLine
<1>11. /\ pacer'[e].head = p.head /\ pacer'[e].count = p.count
       /\ pacer'[e].flight = 0 /\ pacer'[e].slot = p.slot /\ pacer'[e].stream = s
  <2>1. /\ pacer'[e].head = p.head /\ pacer'[e].count = p.count
        /\ pacer'[e].flight = p.flight - 1 /\ pacer'[e].slot = p.slot
        /\ pacer'[e].stream = s
    BY <1>1, SentIs
  <2> QED
    BY <1>6, <2>1
<1>12. \A k \in 0..Depth - 1 : ~From(e, k)'
  <2> SUFFICES ASSUME NEW k \in 0..Depth - 1, From(e, k)' PROVE FALSE
    OBVIOUS
  <2>1. RxOut(e)' \/ \E j \in Task : TaskOut(j, e)'
    BY DEF From, RxOut
  <2>2. pacer'[e].flight = Out(e)' /\ Out(e)' # 0
    BY <2>1 DEF PacerInv, Out, OneIf, Task
  <2> QED
    BY <1>11, <2>2
<1>13. QueueLine(pacer'[e], Newest(e)')
  BY <1>5, <1>7, <1>11 DEF EntryLine, QueueLine
<1>14. EntryLine(e)'
  BY <1>1, <1>6, <1>7, <1>10, <1>11, <1>12, <1>13 DEF EntryLine
<1>15. Of(s)' = {e}
  BY <1>11, PacerAssumption DEF Of, PacerInv
<1> QED
  BY <1>10, <1>14, <1>15 DEF StreamLine

LEMMA OrderTake ==
  ASSUME PacerType, PacerInv, OrderInv, NEW k \in Task, Take(k)
  PROVE  OrderInv'
<1> SUFFICES ASSUME NEW s \in Stream PROVE ~wire'[s].crossed => StreamLine(s)'
  BY DEF OrderInv
<1>1. rx' = rx /\ talker' = talker /\ drain[k].at = "look"
      /\ drain \in [Task -> Drainings]
  BY DEF Take, PacerType
<1>2. CASE Due = {}
  <2>1. pacer' = pacer /\ wire' = wire
    BY <1>2 DEF Take
  <2>2. drain'[k].at # "send" /\ \A j \in Task \ {k} : drain'[j] = drain[j]
    BY <1>1, <1>2 DEF Take, Resting
  <2>3. \A e \in Entry, q \in 0..Depth - 1 : From(e, q)' => From(e, q)
    BY <1>1, <2>2 DEF From, TaskOut
  <2>4. Of(s)' = Of(s) /\ Of(s) \subseteq Entry
    BY <2>1 DEF Of
  <2>5. \A e \in Entry : Newest(e)' = Newest(e)
    BY <1>1, <2>1 DEF Newest
  <2> QED
    BY <1>1, <2>1, <2>3, <2>4, <2>5, StreamSame
<1>3. CASE Due # {}
  <2>1. PICK e \in Entry : e = Min(Due) /\ e \in Due
    BY <1>3, FirstEntry DEF Due, Queued
  <2>2. pacer[e].count > 0 /\ Queued # {}
    BY <2>1 DEF Due, Queued
  <2>3. /\ drain' = [drain EXCEPT ![k] =
              [at |-> "send", entry |-> Min(Due), slot |-> pacer[Min(Due)].head,
               n |-> pacer[Min(Due)].slot[pacer[Min(Due)].head]]]
        /\ pacer' = [pacer EXCEPT ![Min(Due)] = Taken(@)]
        /\ Crossed(Min(Due))
    BY <1>3, <2>2 DEF Take
  <2>4. PICK h \in 0..Depth - 1, n \in Nat :
          /\ h = pacer[e].head
          /\ drain' = [drain EXCEPT ![k] =
               [at |-> "send", entry |-> e, slot |-> h, n |-> n]]
    <3>1. pacer[e] \in Pacing
      BY DEF PacerType
    <3>2. pacer[e].head \in 0..Depth - 1 /\ pacer[e].slot[pacer[e].head] \in Nat
      BY <3>1 DEF Pacing
    <3> QED
      BY <2>1, <2>3, <3>2
  <2>5. pacer' = [pacer EXCEPT ![e] = Taken(pacer[e])] /\ Crossed(e)
    BY <2>1, <2>3
  <2>6. /\ \A j \in Task \ {k} : drain'[j] = drain[j]
        /\ drain'[k].at = "send" /\ drain'[k].entry = e /\ drain'[k].slot = h
    BY <1>1, <2>4
  <2>7. \A q \in 0..Depth - 1 : From(e, q)' => From(e, q) \/ q = pacer[e].head
    BY <1>1, <2>4, <2>6 DEF From, TaskOut
  <2>8. CASE pacer[e].stream = s
    BY <1>1, <2>2, <2>5, <2>7, <2>8, HeadTaken
  <2>9. CASE pacer[e].stream # s
    <3>1. pacer'[e].stream # s /\ \A f \in Entry \ {e} : pacer'[f] = pacer[f]
      BY <2>2, <2>5, <2>9, TakeHead
    <3>2. pacer[e].stream \in Stream
      BY <2>2, QueuedIs
    <3>3. wire'[s] = wire[s]
      BY <2>5, <2>9, <3>2, CrossedIs
    <3>4. \A f \in Entry \ {e}, q \in 0..Depth - 1 : From(f, q)' => From(f, q)
      BY <1>1, <2>6 DEF From, TaskOut
    <3> QED
      BY <1>1, <2>9, <3>1, <3>3, <3>4, OtherStream
  <2> QED
    BY <2>8, <2>9
<1> QED
  BY <1>2, <1>3

LEMMA OrderSend ==
  ASSUME PacerType, PacerInv, OrderInv, PacerType', PacerInv', NEW k \in Task, Send(k)
  PROVE  OrderInv'
<1> SUFFICES ASSUME NEW s \in Stream PROVE ~wire'[s].crossed => StreamLine(s)'
  BY DEF OrderInv
<1>1. /\ drain[k].at = "send" /\ rx' = rx /\ talker' = talker
      /\ drain \in [Task -> Drainings]
      /\ drain' = [drain EXCEPT ![k] = [at |-> "look"]]
  BY DEF Send, PacerType
<1>2. PICK e \in Entry : e = drain[k].entry
  BY <1>1, InHand
<1>3. PICK q \in 0..Depth - 1 : q = drain[k].slot
  BY <1>1, InHand
<1>4. Left(pacer[e].stream, pacer[e].slot[q], "paced") /\ Sent(e)
  BY <1>2, <1>3 DEF Send
<1>5. From(e, q)
  BY <1>1, <1>2, <1>3 DEF From, TaskOut
<1>6. pacer[e].flight > 0 /\ pacer[e].stream \in Stream /\ pacer[e] \in Pacing
  BY <1>5, FromIs, QueuedIs
<1>7. drain'[k].at = "look" /\ \A j \in Task \ {k} : drain'[j] = drain[j]
  BY <1>1
<1>8. CASE pacer[e].stream = s
  BY <1>1, <1>4, <1>5, <1>8, SlotLeft
<1>9. CASE pacer[e].stream # s
  <2>1. pacer'[e].stream # s /\ \A f \in Entry \ {e} : pacer'[f] = pacer[f]
    BY <1>4, <1>6, <1>9, SentIs
  <2>2. pacer[e].slot[q] \in Nat
    BY <1>6 DEF Pacing
  <2>3. wire'[s] = wire[s]
    BY <1>4, <1>6, <1>9, <2>2, LeftIs
  <2>4. \A f \in Entry \ {e}, i \in 0..Depth - 1 : From(f, i)' => From(f, i)
    BY <1>1, <1>7 DEF From, TaskOut
  <2> QED
    BY <1>1, <1>9, <2>1, <2>3, <2>4, OtherStream
<1> QED
  BY <1>8, <1>9

LEMMA OrderSendHead ==
  ASSUME PacerType, PacerInv, OrderInv, PacerType', PacerInv', SendHead
  PROVE  OrderInv'
<1> SUFFICES ASSUME NEW s \in Stream PROVE ~wire'[s].crossed => StreamLine(s)'
  BY DEF OrderInv
<1>1. /\ rx.at = "head" /\ drain' = drain /\ talker' = talker
      /\ rx' = [at |-> "queue", entry |-> rx.entry, n |-> rx.n]
  BY DEF SendHead
<1>2. PICK e \in Entry : e = rx.entry
  BY <1>1, InHand
<1>3. PICK q \in 0..Depth - 1 : q = rx.slot
  BY <1>1, InHand
<1>4. Left(pacer[e].stream, pacer[e].slot[q], "early") /\ Sent(e)
  BY <1>2, <1>3 DEF SendHead
<1>5. From(e, q)
  BY <1>1, <1>2, <1>3 DEF From
<1>6. pacer[e].flight > 0 /\ pacer[e].stream \in Stream /\ pacer[e] \in Pacing
  BY <1>5, FromIs, QueuedIs
<1>7. rx'.at = "queue" /\ rx'.entry = e
  BY <1>1, <1>2
<1>8. CASE pacer[e].stream = s
  BY <1>1, <1>2, <1>4, <1>5, <1>7, <1>8, SlotLeft
<1>9. CASE pacer[e].stream # s
  <2>1. pacer'[e].stream # s /\ \A f \in Entry \ {e} : pacer'[f] = pacer[f]
    BY <1>4, <1>6, <1>9, SentIs
  <2>2. pacer[e].slot[q] \in Nat
    BY <1>6 DEF Pacing
  <2>3. wire'[s] = wire[s]
    BY <1>4, <1>6, <1>9, <2>2, LeftIs
  <2>4. \A f \in Entry \ {e}, i \in 0..Depth - 1 : From(f, i)' => From(f, i)
    BY <1>1, <1>7 DEF From, TaskOut
  <2> QED
    BY <1>1, <1>2, <1>7, <1>9, <2>1, <2>3, <2>4, OtherStream
<1> QED
  BY <1>8, <1>9

\* The frame that did not wait is out.
LEMMA OrderSendNow ==
  ASSUME PacerType, PacerInv, OrderInv, PacerType', PacerInv', SendNow
  PROVE  OrderInv'
<1> SUFFICES ASSUME NEW s \in Stream PROVE ~wire'[s].crossed => StreamLine(s)'
  BY DEF OrderInv
<1>1. /\ rx.at = "send" /\ talker' = talker /\ rx' = Resting /\ Drain("rx")
      /\ rx.n \in Nat /\ drain["rx"].at = "off" /\ "rx" \in Task
  BY InHand DEF SendNow, PacerInv, Task
<1>2. PICK e \in Entry : e = rx.entry
  BY <1>1, InHand
<1>3. Left(pacer[e].stream, rx.n, "paced") /\ Sent(e)
  BY <1>2 DEF SendNow
<1>4. /\ pacer[e] \in Pacing /\ pacer[e].flight > 0 /\ pacer[e].flight \in 0..2
      /\ pacer[e].stream \in Stream /\ pacer[e].count = 0
      /\ rx.n = talker[pacer[e].stream].sent
  <2>1. RxOut(e) /\ pacer[e].flight = Out(e) /\ Out(e) # 0 /\ pacer[e].flight \in 0..2
    BY <1>1, <1>2, QueuedIs, OutIs DEF RxOut
  <2> QED
    BY <1>1, <1>2, <2>1, QueuedIs DEF PacerInv
<1>5. rx'.at = "off"
  BY <1>1 DEF Resting
<1>6. /\ \A j \in Task \ {"rx"} : drain'[j] = drain[j]
      /\ drain'["rx"].at \in {"off", "look"}
  BY <1>1, DrainIs
<1>7. \A f \in Entry, i \in 0..Depth - 1 : From(f, i)' => From(f, i)
  BY <1>5, <1>6 DEF From, TaskOut
<1>8. CASE pacer[e].stream # s
  <2>1. pacer'[e].stream # s /\ \A f \in Entry \ {e} : pacer'[f] = pacer[f]
    BY <1>3, <1>4, <1>8, SentIs
  <2>2. wire'[s] = wire[s]
    BY <1>1, <1>3, <1>4, <1>8, LeftIs
  <2> QED
    BY <1>1, <1>5, <1>7, <1>8, <2>1, <2>2, OtherStream
<1>9. CASE pacer[e].stream = s
  <2> SUFFICES ASSUME ~wire'[s].crossed PROVE StreamLine(s)'
    OBVIOUS
  <2> DEFINE n == rx.n  r == wire[s].recent
             f == [n |-> n, age |-> 0, how |-> "paced"]
  <2>1. wire'[s].recent = Append(r, f) /\ ~wire[s].crossed
    BY <1>1, <1>3, <1>9, LeftIs
  <2>2. StreamLine(s) /\ e \in Of(s) /\ r \in Seq(Frame)
    BY <1>9, <2>1 DEF OrderInv, Of, PacerType
  <2>3. EntryLine(e) /\ Consecutive(r)
    BY <2>2 DEF StreamLine
  <2>4. pacer[e].flight = 1
    BY <1>4, <2>3 DEF EntryLine
  <2>5. Newest(e) = n /\ Newest(e)' = n
    <3>1. pacer'[e].stream = pacer[e].stream
      BY <1>3, <1>4, SentIs
    <3> QED
      BY <1>1, <1>4, <1>5, <3>1 DEF Newest, OneIf
  <2>6. r # << >> => n = r[Len(r)].n + 1
    <3>1. r # << >> => r[Len(r)].n = Newest(e) - pacer[e].count - pacer[e].flight
      BY <1>9, <2>3 DEF EntryLine
    <3>2. r # << >> => r[Len(r)].n = n - 0 - 1
      BY <1>4, <2>4, <2>5, <3>1
    <3> HIDE DEF r
    <3> QED
      BY <1>1, <3>2
  <2>7. f \in Frame /\ f.n = n
    BY <1>1 DEF Frame
  <2> HIDE DEF f
  <2>8. /\ Consecutive(wire'[s].recent) /\ wire'[s].recent # << >>
        /\ wire'[s].recent[Len(wire'[s].recent)].n = n
    BY <2>1, <2>2, <2>3, <2>6, <2>7, AppendLine
  <2>9. /\ pacer'[e].count = 0 /\ pacer'[e].flight = 0 /\ pacer'[e].stream = s
    <3>1. /\ pacer'[e].count = pacer[e].count
          /\ pacer'[e].flight = pacer[e].flight - 1 /\ pacer'[e].stream = s
      BY <1>3, <1>4, <1>9, SentIs
    <3> QED
      BY <1>4, <2>4, <3>1
  <2>10. \A k \in 0..Depth - 1 : ~From(e, k)'
    <3> SUFFICES ASSUME NEW k \in 0..Depth - 1, From(e, k)' PROVE FALSE
      OBVIOUS
    <3>1. RxOut(e)' \/ \E j \in Task : TaskOut(j, e)'
      BY DEF From, RxOut
    <3>2. pacer'[e].flight = Out(e)' /\ Out(e)' # 0
      BY <3>1 DEF PacerInv, Out, OneIf, Task
    <3> QED
      BY <2>9, <3>2
  <2>11. QueueLine(pacer'[e], Newest(e)')
    BY <2>9 DEF QueueLine
  <2>12. EntryLine(e)'
    BY <1>1, <2>5, <2>8, <2>9, <2>10, <2>11 DEF EntryLine
  <2>13. Of(s)' = {e}
    BY <2>9, PacerAssumption DEF Of, PacerInv
  <2> QED
    BY <2>8, <2>12, <2>13 DEF StreamLine
<1> QED
  BY <1>8, <1>9

\* Steps of the other task, the clock and the talker's declarations.
LEMMA OrderQuiet ==
  ASSUME PacerType, PacerInv, OrderInv, rx' = rx,
         \A s \in Stream : talker'[s].sent = talker[s].sent,
         pacer' = pacer, wire' = wire,
         \A e \in Entry, q \in 0..Depth - 1 : From(e, q)' => From(e, q)
  PROVE  OrderInv'
<1> SUFFICES ASSUME NEW s \in Stream PROVE ~wire'[s].crossed => StreamLine(s)'
  BY DEF OrderInv
<1>1. Of(s)' = Of(s) /\ Of(s) \subseteq Entry
  BY DEF Of
<1>2. \A e \in Of(s) : Newest(e)' = Newest(e)
  BY DEF Of, Newest
<1> QED
  BY <1>1, <1>2, StreamSame

LEMMA OrderArm ==
  ASSUME PacerType, PacerInv, OrderInv, NEW k \in Task, Arm(k)
  PROVE  OrderInv'
<1>1. /\ drain' = [drain EXCEPT ![k] = Resting] /\ drain \in [Task -> Drainings]
      /\ rx' = rx /\ talker' = talker /\ pacer' = pacer /\ wire' = wire
  BY DEF Arm, PacerType
<1>2. drain'[k].at = "off" /\ \A j \in Task \ {k} : drain'[j] = drain[j]
  BY <1>1 DEF Resting
<1>3. \A e \in Entry, q \in 0..Depth - 1 : From(e, q)' => From(e, q)
  BY <1>1, <1>2 DEF From, TaskOut
<1> QED
  BY <1>1, <1>3, OrderQuiet

LEMMA OrderWake ==
  ASSUME PacerType, PacerInv, OrderInv, Wake
  PROVE  OrderInv'
<1>1. /\ drain["timer"].at = "off" /\ Drain("timer") /\ "timer" \in Task
      /\ rx' = rx /\ talker' = talker /\ pacer' = pacer /\ wire' = wire
  BY DEF Wake, Task
<1>2. /\ drain'["timer"].at \in {"off", "look"}
      /\ \A j \in Task \ {"timer"} : drain'[j] = drain[j]
  BY <1>1, DrainIs
<1>3. \A e \in Entry, q \in 0..Depth - 1 : From(e, q)' => From(e, q)
  BY <1>1, <1>2 DEF From, TaskOut
<1> QED
  BY <1>1, <1>3, OrderQuiet

LEMMA OrderDeclare ==
  ASSUME PacerType, PacerInv, OrderInv, NEW s \in Stream, NEW max \in Tspecs,
         Declare(s, max)
  PROVE  OrderInv'
<1>1. UNCHANGED <<pacer, rx, drain, wire>>
  BY DEF Declare
<1>2. \A t \in Stream : talker'[t].sent = talker[t].sent
  BY PacerDeclare
<1>3. \A e \in Entry, q \in 0..Depth - 1 : From(e, q)' => From(e, q)
  BY <1>1 DEF From, TaskOut
<1> QED
  BY <1>1, <1>2, <1>3, OrderQuiet

LEMMA OrderTick ==
  ASSUME PacerType, PacerInv, OrderInv, Tick
  PROVE  OrderInv'
<1> SUFFICES ASSUME NEW s \in Stream PROVE ~wire'[s].crossed => StreamLine(s)'
  BY DEF OrderInv
<1>1. UNCHANGED <<rx, drain, talker>>
  BY DEF Tick
<1>2. Of(s)' = Of(s) /\ Of(s) \subseteq Entry
  BY TickPacer DEF Of
<1>3. \A e \in Entry : Newest(e)' = Newest(e)
  BY <1>1, TickPacer DEF Newest
<1>4. \A e \in Entry, q \in 0..Depth - 1 : From(e, q)' => From(e, q)
  BY <1>1 DEF From, TaskOut
<1>5. wire[s].recent = << >> => wire'[s].recent = << >>
      /\ wire'[s].crossed = wire[s].crossed
  BY TickWire
<1>6. /\ Consecutive(wire[s].recent) => Consecutive(wire'[s].recent)
      /\ wire'[s].recent # << >> =>
           /\ wire[s].recent # << >>
           /\ wire'[s].recent[Len(wire'[s].recent)].n
                = wire[s].recent[Len(wire[s].recent)].n
  <2>1. CASE wire[s].recent = << >>
    BY <1>5, <2>1
  <2>2. CASE wire[s].recent # << >>
    <3> DEFINE r == wire[s].recent  a == wire'[s].recent
    <3>1. r \in Seq(Frame) /\ a \in Seq(Frame)
      BY TickWire DEF PacerType
    <3>2. PICK c \in 0..Len(r) - 1 :
            /\ Len(a) = Len(r) - c
            /\ \A i \in 1..Len(r) - c :
                 a[i] = [r[i + c] EXCEPT !.age = Aged(r[i + c].age, Interval[s])]
      BY <2>2, TickWire
    <3>3. Len(r) \in Nat /\ Len(r) > 0
      BY <2>2, <3>1
    <3>4. \A i \in 1..Len(a) : a[i].n = r[i + c].n
      <4> TAKE i \in 1..Len(a)
      <4>1. i + c \in 1..Len(r) /\ i \in 1..Len(r) - c
        BY <3>2, <3>3
      <4>2. r[i + c] \in Frame
        BY <3>1, <4>1
      <4> QED
        BY <3>2, <4>1, <4>2 DEF Frame
    <3> HIDE DEF r, a
    <3>5. Consecutive(r) => Consecutive(a)
      <4> SUFFICES ASSUME Consecutive(r), NEW i \in 2..Len(a)
                   PROVE  a[i].n = a[i - 1].n + 1
        BY DEF Consecutive
      <4>1. /\ i \in 1..Len(a) /\ i - 1 \in 1..Len(a)
            /\ i + c \in 2..Len(r) /\ (i - 1) + c = (i + c) - 1
        BY <3>2, <3>3
      <4>2. r[i + c].n = r[(i + c) - 1].n + 1
        BY <4>1 DEF Consecutive
      <4> QED
        BY <3>4, <4>1, <4>2
    <3>6. a[Len(a)].n = r[Len(r)].n
      <4>1. Len(a) \in 1..Len(a) /\ Len(a) + c = Len(r)
        BY <3>2, <3>3
      <4> QED
        BY <3>4, <4>1
    <3> QED
      BY <2>2, <3>5, <3>6 DEF r, a
  <2> QED
    BY <2>1, <2>2
<1>7. /\ wire'[s].crossed = wire[s].crossed
      /\ \A e \in Of(s) :
           /\ pacer'[e].head = pacer[e].head /\ pacer'[e].count = pacer[e].count
           /\ pacer'[e].flight = pacer[e].flight /\ pacer'[e].slot = pacer[e].slot
  BY <1>2, TickPacer, TickWire
<1> QED
  BY <1>1, <1>2, <1>3, <1>4, <1>6, <1>7, StreamSame

\* The newest frame goes at once, to the end of the queue, or waits while the
\* oldest of a full queue goes.
LEMMA OrderPlace ==
  ASSUME PacerType, PacerInv, OrderInv, PacerType', PacerInv', Place
  PROVE  OrderInv'
<1> SUFFICES ASSUME NEW s \in Stream PROVE ~wire'[s].crossed => StreamLine(s)'
  BY DEF OrderInv
<1>1. /\ rx.at = "queue" /\ talker' = talker /\ rx \in Forwarding /\ rx.n \in Nat
      /\ drain["rx"].at = "off" /\ "rx" \in Task
  BY InHand DEF Place, PacerType, PacerInv, Task
<1>2. PICK e \in Entry : e = rx.entry
  BY <1>1, InHand
<1> DEFINE p == pacer[e]
<1>3. /\ p \in Pacing /\ EntryOk(p) /\ p.flight \in 0..2 /\ p.stream \in Stream
      /\ p.count \in 0..Depth /\ p.head \in 0..Depth - 1
      /\ p.max > 0 /\ Len(p.sent) = p.max
      /\ rx.n = talker[p.stream].sent
  BY <1>1, <1>2, QueuedIs DEF PacerInv, Pacing, EntryOk
<1>4. \/ /\ AtOnce(p)
         /\ rx' = [rx EXCEPT !.at = "send"]
         /\ pacer' = [pacer EXCEPT ![e] =
              [Noted(p) EXCEPT !.flight = Noted(p).flight + 1]]
         /\ UNCHANGED <<drain, wire, talker>>
      \/ /\ ~AtOnce(p) /\ p.count + p.flight < Depth
         /\ pacer' = [pacer EXCEPT ![e].slot[At(p.head, p.count)] = rx.n,
                                   ![e].count = @ + 1]
         /\ rx' = Resting /\ Drain("rx") /\ wire' = wire /\ talker' = talker
      \/ /\ ~AtOnce(p) /\ p.count + p.flight >= Depth
         /\ rx' = [at |-> "head", entry |-> e, n |-> rx.n, slot |-> p.head]
         /\ pacer' = [pacer EXCEPT ![e] = Taken(p)]
         /\ Crossed(e) /\ UNCHANGED <<drain, talker>>
  BY <1>2, PlaceCases
<1>5. /\ p.stream = s => Newest(e) = rx.n - 1
      /\ \A q \in 0..Depth - 1 : From(e, q) => p.flight > 0
  BY <1>1, <1>2, <1>3, FromIs DEF Newest, OneIf
<1> HIDE DEF p
<1>6. CASE AtOnce(p)
  <2>1. /\ rx' = [rx EXCEPT !.at = "send"] /\ UNCHANGED <<drain, wire, talker>>
        /\ pacer' = [pacer EXCEPT ![e] =
             [Noted(p) EXCEPT !.flight = Noted(p).flight + 1]]
    BY <1>4, <1>6
  <2>2. p.count = 0 /\ p.flight = 0
    BY <1>6 DEF AtOnce, Clear
  <2> DEFINE m == Noted(p)  t == [m EXCEPT !.flight = m.flight + 1]
  <2>3. /\ m \in Pacing /\ m.flight = 0 /\ m.count = 0 /\ m.stream = p.stream
    BY <1>3, <2>2, NotedIs DEF Pacing
  <2>4. t.flight = 1 /\ t.count = 0 /\ t.stream = p.stream
    BY <2>3 DEF Pacing
  <2>5. pacer'[e] = t /\ \A f \in Entry \ {e} : pacer'[f] = pacer[f]
    BY <2>1 DEF PacerType
  <2> HIDE DEF t
  <2>6. rx'.at = "send" /\ rx'.entry = e /\ rx'.n = rx.n
    BY <1>1, <1>2, <2>1 DEF Forwarding, Resting
  <2>7. \A f \in Entry, q \in 0..Depth - 1 : From(f, q)' => From(f, q)
    BY <2>1, <2>6 DEF From, TaskOut
  <2>8. CASE p.stream # s
    BY <1>1, <1>2, <2>1, <2>4, <2>5, <2>6, <2>7, <2>8, OtherStream DEF p
  <2>9. CASE p.stream = s
    <3> SUFFICES ASSUME ~wire'[s].crossed PROVE StreamLine(s)'
      OBVIOUS
    <3>1. StreamLine(s) /\ e \in Of(s) /\ wire' = wire
      BY <2>1, <2>9 DEF OrderInv, Of, p
    <3>2. EntryLine(e) /\ Consecutive(wire[s].recent)
      BY <3>1 DEF StreamLine
    <3>3. Newest(e)' = rx.n
      <4>1. talker'[pacer'[e].stream].sent = rx.n
        BY <1>3, <2>1, <2>4, <2>5
      <4>2. ~(rx'.at \in {"queue", "head"} /\ rx'.entry = e)
        BY <2>6
      <4> QED
        BY <1>1, <4>1, <4>2 DEF Newest, OneIf
    <3> DEFINE r == wire[s].recent
    <3>4. r # << >> => r[Len(r)].n = Newest(e) - p.count - p.flight
      BY <2>9, <3>2 DEF EntryLine, p
    <3>5. r # << >> => r[Len(r)].n = rx.n - 1 - 0 - 0
      BY <1>5, <2>2, <2>9, <3>4
    <3> HIDE DEF r
    <3>6. r # << >> => r[Len(r)].n = rx.n - 0 - 1
      BY <1>1, <3>5
    <3>7. QueueLine(pacer'[e], Newest(e)')
      BY <2>4, <2>5 DEF QueueLine
    <3>8. EntryLine(e)'
      BY <1>5, <2>2, <2>4, <2>5, <2>7, <2>9, <3>1, <3>3, <3>6, <3>7 DEF EntryLine, r
    <3>9. Of(s)' = {e}
      BY <2>4, <2>5, <2>9, PacerAssumption DEF Of, PacerInv
    <3> QED
      BY <3>1, <3>2, <3>8, <3>9 DEF StreamLine
  <2> QED
    BY <2>8, <2>9
<1>7. CASE ~AtOnce(p) /\ p.count + p.flight < Depth
  <2> DEFINE i == At(p.head, p.count)
  <2>1. /\ rx' = Resting /\ Drain("rx") /\ wire' = wire /\ talker' = talker
        /\ pacer' = [pacer EXCEPT ![e].slot[i] = rx.n, ![e].count = @ + 1]
    BY <1>3, <1>4, <1>7, DepthType
  <2>2. i \in 0..Depth - 1
    BY <1>3, PlaceIs
  <2> HIDE DEF i
  <2> DEFINE c == p.count + 1
             t == [p EXCEPT !.slot = [p.slot EXCEPT ![i] = rx.n], !.count = c]
  <2>3. pacer' = [pacer EXCEPT ![e] = t]
    BY <2>1 DEF PacerType, Pacing, p
  <2>4. p.slot \in [0..Depth - 1 -> Nat]
    BY <1>3 DEF Pacing
  <2>5. /\ t.flight = p.flight /\ t.count = c /\ t.stream = p.stream /\ t.head = p.head
        /\ t.slot[i] = rx.n /\ \A q \in 0..Depth - 1 : q # i => t.slot[q] = p.slot[q]
    BY <1>3, <2>2, <2>4 DEF Pacing
  <2>6. pacer'[e] = t /\ \A f \in Entry \ {e} : pacer'[f] = pacer[f]
    BY <2>3 DEF PacerType
  <2> HIDE DEF t
  <2>7. rx'.at = "off"
    BY <2>1 DEF Resting
  <2>8. /\ \A j \in Task \ {"rx"} : drain'[j] = drain[j]
        /\ drain'["rx"].at \in {"off", "look"}
    BY <1>1, <2>1, DrainIs
  <2>9. \A f \in Entry, q \in 0..Depth - 1 : From(f, q)' => From(f, q)
    BY <2>7, <2>8 DEF From, TaskOut
  <2>10. CASE p.stream # s
    BY <1>1, <1>2, <2>1, <2>5, <2>6, <2>7, <2>9, <2>10, OtherStream DEF p
  <2>11. CASE p.stream = s
    <3> SUFFICES ASSUME ~wire'[s].crossed PROVE StreamLine(s)'
      OBVIOUS
    <3>1. StreamLine(s) /\ e \in Of(s) /\ wire' = wire
      BY <2>1, <2>11 DEF OrderInv, Of, p
    <3>2. EntryLine(e) /\ Consecutive(wire[s].recent)
      BY <3>1 DEF StreamLine
    <3>3. Newest(e)' = rx.n /\ Newest(e) = rx.n - 1
      <4>1. talker'[pacer'[e].stream].sent = rx.n
        BY <1>3, <2>1, <2>5, <2>6
      <4>2. ~(rx'.at \in {"queue", "head"} /\ rx'.entry = e)
        BY <2>7
      <4> QED
        BY <1>1, <1>5, <2>11, <4>1, <4>2 DEF Newest, OneIf
    <3>4. p.flight <= 1 /\ QueueLine(p, Newest(e))
      BY <3>2 DEF EntryLine, p
    <3>5. QueueLine(t, rx.n)
      <4> SUFFICES ASSUME NEW j \in 0..t.count - 1
                   PROVE  t.slot[At(t.head, j)] = rx.n - t.count + 1 + j
        BY DEF QueueLine
      <4>1. /\ c \in 1..Depth /\ t.count = c /\ j \in 0..Depth - 1 /\ p.count \in 0..Depth - 1
        BY <1>3, <1>7, <2>5, DepthType
      <4>2. CASE j = p.count
        BY <1>1, <2>5, <4>1, <4>2 DEF i
      <4>3. CASE j # p.count
        <5>1. j \in 0..p.count - 1
          BY <4>1, <4>3
        <5>2. At(p.head, j) \in 0..Depth - 1 /\ At(p.head, j) # i
          <6>1. j \in 0..Depth - 1 /\ p.count \in 0..Depth - 1 /\ j \in 0..Depth
            BY <4>1, DepthType
          <6> QED
            BY <1>3, <4>3, <6>1, PlaceIs, OtherPlace DEF i
        <5>3. p.slot[At(p.head, j)] = (rx.n - 1) - p.count + 1 + j
          BY <3>3, <3>4, <5>1 DEF QueueLine
        <5>4. t.slot[At(t.head, j)] = p.slot[At(p.head, j)]
          BY <2>5, <5>2
        <5> QED
          <6>1. t.slot[At(t.head, j)] = (rx.n - 1) - p.count + 1 + j
            BY <5>3, <5>4
          <6>2. t.count = p.count + 1
            BY <4>1
          <6>3. p.count \in Int /\ j \in Int
            BY <4>1, DepthType
          <6> QED
            BY <1>1, <6>1, <6>2, <6>3
      <4> QED
        BY <4>2, <4>3
    <3>6. ASSUME NEW q \in 0..Depth - 1, From(e, q)' PROVE Before(t, q, rx.n)
      <4>1. From(e, q) /\ p.flight = 1
        BY <1>3, <1>5, <2>9, <3>4, <3>6
      <4>2. At(q, 1) = p.head /\ p.slot[q] = (rx.n - 1) - p.count
        BY <3>2, <3>3, <4>1 DEF EntryLine, Before, p
      <4>3. p.count \in 0..Depth - 2 /\ p.count + 1 \in 1..Depth - 1
        BY <1>3, <1>7, <4>1, DepthType
      <4>4. i # q
        <5>1. At(At(q, 1), p.count) = At(q, p.count + 1)
          BY <4>3, NextPlace, DepthType
        <5>2. At(q, 0) = q
          BY PlaceIs, DepthType
        <5>3. At(q, p.count + 1) # At(q, 0)
          BY <4>3, OtherPlace, DepthType
        <5> QED
          BY <4>2, <5>1, <5>2, <5>3 DEF i
      <4>5. t.slot[q] = (rx.n - 1) - p.count
        BY <2>5, <4>2, <4>4
      <4> QED
        BY <1>1, <1>3, <2>5, <4>2, <4>5 DEF Before
    <3> DEFINE r == wire[s].recent
    <3>7. r # << >> => r[Len(r)].n = (rx.n - 1) - p.count - p.flight
      BY <2>11, <3>2, <3>3 DEF EntryLine, p
    <3> HIDE DEF r
    <3>8. r # << >> => r[Len(r)].n = rx.n - c - p.flight
      <4>1. rx.n \in Int /\ p.count \in Int /\ p.flight \in Int /\ c = p.count + 1
        BY <1>1, <1>3, DepthType
      <4>2. (rx.n - 1) - p.count - p.flight = rx.n - c - p.flight
        BY <4>1
      <4> QED
        BY <3>7, <4>2
    <3>9. EntryLine(e)'
      BY <2>5, <2>6, <2>11, <3>1, <3>3, <3>4, <3>5, <3>6, <3>8 DEF EntryLine, r
    <3>10. Of(s)' = {e}
      BY <2>5, <2>6, <2>11, PacerAssumption DEF Of, PacerInv
    <3> QED
      BY <3>1, <3>2, <3>9, <3>10 DEF StreamLine
  <2> QED
    BY <2>10, <2>11
<1>8. CASE ~AtOnce(p) /\ p.count + p.flight >= Depth
  <2>1. /\ rx' = [at |-> "head", entry |-> e, n |-> rx.n, slot |-> p.head]
        /\ pacer' = [pacer EXCEPT ![e] = Taken(p)]
        /\ Crossed(e) /\ UNCHANGED <<drain, talker>>
    BY <1>3, <1>4, <1>8, DepthType
  <2>2. p.count > 0
    <3>1. p.flight = Out(e) /\ ~RxOut(e)
      BY <1>1, QueuedIs DEF p, RxOut
    <3>2. Out(e) <= 1
      BY <1>1, <3>1 DEF Out, OneIf, TaskOut
    <3> QED
      BY <1>3, <1>8, <3>1, <3>2, DepthType
  <2>3. rx'.at = "head" /\ rx'.entry = e /\ rx'.slot = p.head
    BY <2>1
  <2>4. \A q \in 0..Depth - 1 : From(e, q)' => From(e, q) \/ q = p.head
    BY <2>1, <2>3 DEF From, TaskOut
  <2>5. CASE p.stream = s
    BY <1>1, <1>2, <2>1, <2>2, <2>3, <2>4, <2>5, HeadTaken DEF p
  <2>6. CASE p.stream # s
    <3>1. pacer'[e].stream # s /\ \A f \in Entry \ {e} : pacer'[f] = pacer[f]
      BY <2>1, <2>2, <2>6, TakeHead DEF p
    <3>2. wire'[s] = wire[s]
      BY <1>3, <2>1, <2>6, CrossedIs DEF p
    <3>3. \A f \in Entry \ {e}, q \in 0..Depth - 1 : From(f, q)' => From(f, q)
      BY <2>1, <2>3 DEF From, TaskOut
    <3> QED
      BY <1>1, <1>2, <2>1, <2>3, <2>6, <3>1, <3>2, <3>3, OtherStream DEF p
  <2> QED
    BY <2>5, <2>6
<1> QED
  BY <1>4, <1>6, <1>7, <1>8

\* A frame that passes the queues of its stream: they are empty, or it crosses.
LEMMA OrderPasses ==
  ASSUME PacerType, PacerInv, OrderInv, NEW s \in Stream, NEW n \in Nat,
         n = talker[s].sent + 1, rx.at = "off", drain' = drain,
         talker' = [talker EXCEPT ![s].sent = n], Passes(s, n),
         NEW t \in Stream, ~wire'[t].crossed
  PROVE  StreamLine(t)'
<1>1. rx' = rx /\ talker'[s].sent = n
      /\ \A u \in Stream \ {s} : talker'[u] = talker[u]
  BY CameIs DEF Passes
<1>2. \A e \in Entry :
        /\ pacer'[e].head = pacer[e].head /\ pacer'[e].count = pacer[e].count
        /\ pacer'[e].flight = pacer[e].flight /\ pacer'[e].slot = pacer[e].slot
        /\ pacer'[e].stream = pacer[e].stream
  <2> TAKE e \in Entry
  <2>1. pacer[e] \in Pacing
    BY DEF PacerType
  <2>2. pacer'[e] \in {pacer[e], [pacer[e] EXCEPT !.slots = TRUE]}
    BY DEF Passes
  <2> QED
    BY <2>1, <2>2 DEF Pacing
<1>3. \A u \in Stream : Of(u)' = Of(u) /\ Of(u) \subseteq Entry
  BY <1>2 DEF Of
<1>4. \A e \in Entry, q \in 0..Depth - 1 : From(e, q)' => From(e, q)
  BY <1>1 DEF From, TaskOut
<1> DEFINE f == [n |-> n, age |-> 0, how |-> "unpaced"]
<1>5. PICK c \in BOOLEAN :
        /\ wire' = [wire EXCEPT ![s] = [recent |-> Append(wire[s].recent, f),
                                        crossed |-> c]]
        /\ c = (wire[s].crossed \/ \E e \in Of(s) : ~Clear(pacer[e]))
  BY DEF Passes
<1>6. f \in Frame /\ f.n = n /\ wire[s].recent \in Seq(Frame)
  BY DEF Frame, PacerType
<1> HIDE DEF f
<1>7. Append(wire[s].recent, f) \in Seq(Frame)
  BY <1>6
<1>8. /\ wire'[s].recent = Append(wire[s].recent, f) /\ wire'[s].crossed = c
      /\ \A u \in Stream \ {s} : wire'[u] = wire[u]
  BY <1>5, <1>7, WireIs
<1>9. CASE t # s
  <2>1. wire'[t] = wire[t] /\ talker'[t] = talker[t]
    BY <1>1, <1>8, <1>9
  <2>2. \A e \in Of(t) : Newest(e)' = Newest(e)
    BY <1>1, <1>2, <1>3, <2>1 DEF Newest, Of
  <2> QED
    BY <1>2, <1>3, <1>4, <2>1, <2>2, StreamSame
<1>10. CASE t = s
  <2>1. ~wire[s].crossed /\ \A e \in Of(s) : Clear(pacer[e])
    BY <1>5, <1>8, <1>10
  <2>2. \A e \in Of(s) : pacer[e].count = 0 /\ pacer[e].flight = 0
    BY <2>1 DEF Clear
  <2>3. StreamLine(s)
    BY <2>1 DEF OrderInv
  <2> DEFINE r == wire[s].recent  m == talker[s].sent
  <2>4. m \in Nat
    BY DEF PacerType
  <2>5. \A e \in Of(s) : Newest(e) = m /\ Newest(e)' = n
    <3> TAKE e \in Of(s)
    <3>1. e \in Entry /\ pacer[e].stream = s /\ pacer'[e].stream = s
      BY <1>2 DEF Of
    <3>2. rx.at \notin {"queue", "head"}
      OBVIOUS
    <3>3. talker'[pacer'[e].stream].sent = n /\ talker[pacer[e].stream].sent = m
      BY <1>1, <3>1
    <3> QED
      BY <1>1, <2>4, <3>2, <3>3 DEF Newest, OneIf
  <2>6. r # << >> => r[Len(r)].n = m
    <3>1. CASE Of(s) = {}
      BY <2>3, <3>1 DEF StreamLine
    <3>2. ASSUME NEW e \in Of(s) PROVE r # << >> => r[Len(r)].n = m
      <4>1. EntryLine(e) /\ pacer[e].stream = s
        BY <2>3, <3>2 DEF StreamLine, Of
      <4>2. r # << >> => r[Len(r)].n = m - 0 - 0
        BY <2>2, <2>5, <3>2, <4>1 DEF EntryLine
      <4> HIDE DEF r
      <4> QED
        BY <2>4, <4>2
    <3> QED
      BY <3>1, <3>2
  <2>7. r \in Seq(Frame) /\ Consecutive(r) /\ n = m + 1
    BY <1>6, <2>3 DEF StreamLine
  <2> HIDE DEF r, m
  <2>8. r # << >> => f.n = r[Len(r)].n + 1
    BY <1>6, <2>6, <2>7
  <2>9. /\ Consecutive(wire'[s].recent) /\ wire'[s].recent # << >>
        /\ wire'[s].recent[Len(wire'[s].recent)].n = n
    BY <1>6, <1>8, <2>7, <2>8, AppendLine DEF r
  <2>10. ASSUME NEW e \in Of(s) PROVE EntryLine(e)'
    <3>1. e \in Entry /\ pacer'[e].stream = s /\ pacer'[e].count = 0
          /\ pacer'[e].flight = 0
      BY <1>2, <2>2 DEF Of
    <3>2. \A q \in 0..Depth - 1 : ~From(e, q)'
      <4>1. ~(pacer[e].flight > 0)
        BY <2>2
      <4> QED
        BY <1>4, <3>1, <4>1, FromIs
    <3>3. QueueLine(pacer'[e], Newest(e)')
      BY <3>1 DEF QueueLine
    <3>4. n = Newest(e)' - pacer'[e].count - pacer'[e].flight
      BY <2>5, <3>1
    <3> QED
      BY <2>9, <3>1, <3>2, <3>3, <3>4 DEF EntryLine
  <2> QED
    BY <1>1, <1>3, <1>10, <2>9, <2>10 DEF StreamLine
<1> QED
  BY <1>9, <1>10

\* A frame that goes to its queue, of which the stream may be new.
LEMMA OrderQueues ==
  ASSUME PacerType, PacerInv, OrderInv, PacerType', PacerInv',
         NEW s \in Stream, NEW n \in Nat,
         n = talker[s].sent + 1, rx.at = "off", drain' = drain,
         talker' = [talker EXCEPT ![s].sent = n],
         NEW e \in Entry, NEW p \in Pacing, Usable(s, e, p), Queues(s, n, e, p),
         NEW t \in Stream, ~wire'[t].crossed
  PROVE  StreamLine(t)'
<1>1. /\ talker'[s].sent = n /\ talker[s].sent \in Nat
      /\ \A u \in Stream \ {s} : talker'[u] = talker[u]
  BY CameIs DEF PacerType
<1>2. rx'.at = "queue" /\ rx'.entry = e
  BY DEF Queues
<1>3. /\ Used(p, s).stream = s /\ Used(p, s).slot = p.slot
      /\ Used(p, s).head = p.head /\ Used(p, s).count = p.count
      /\ Used(p, s).flight = p.flight
  BY UsedIs DEF Usable
<1>4. pacer'[e] = Used(p, s) /\ \A f \in Entry \ {e} : pacer'[f] = pacer[f]
  BY DEF Queues, PacerType
<1>5. /\ p.max = talker[s].tspec => wire' = wire
      /\ p.max # talker[s].tspec =>
           /\ wire'[s].recent = << >>
           /\ wire'[s].crossed = (wire[s].crossed \/ p.flight > 0)
      /\ \A u \in Stream \ {s} : wire'[u] = wire[u]
  <2>1. CASE p.max = talker[s].tspec
    BY <2>1 DEF Queues
  <2>2. CASE p.max # talker[s].tspec
    <3>1. PICK c \in BOOLEAN : c = (wire[s].crossed \/ p.flight > 0)
      BY DEF PacerType
    <3>2. << >> \in Seq(Frame)
      OBVIOUS
    <3>3. wire' = [wire EXCEPT ![s] = [recent |-> << >>, crossed |-> c]]
      BY <2>2, <3>1 DEF Queues
    <3> QED
      BY <2>2, <3>1, <3>2, <3>3, WireIs
  <2> QED
    BY <2>1, <2>2
<1>6. \A f \in Entry, q \in 0..Depth - 1 : From(f, q)' => From(f, q)
  BY <1>2 DEF From, TaskOut
<1>7. CASE t # s /\ pacer[e].stream # t
  <2>1. wire'[t] = wire[t] /\ talker'[t] = talker[t] /\ pacer'[e].stream # t
    BY <1>1, <1>3, <1>4, <1>5, <1>7
  <2>2. \A f \in Entry \ {e} :
           rx'.at \in {"queue", "head"} /\ rx'.entry = f
             <=> rx.at \in {"queue", "head"} /\ rx.entry = f
    BY <1>2
  <2> QED
    BY <1>4, <1>6, <1>7, <2>1, <2>2, OtherStream
<1>8. CASE t # s /\ pacer[e].stream = t
  <2>1. wire'[t] = wire[t] /\ talker'[t] = talker[t]
    BY <1>1, <1>5, <1>8
  <2>2. pacer[e].count = 0 /\ pacer[e].flight = 0
    BY <1>8 DEF Usable, Of
  <2>3. StreamLine(t) /\ e \in Of(t)
    BY <1>8, <2>1 DEF OrderInv, Of
  <2>4. EntryLine(e)
    BY <2>3 DEF StreamLine
  <2> DEFINE r == wire[t].recent  m == talker[t].sent
  <2>5. Newest(e) = m /\ m \in Nat
    <3>1. m \in Nat
      BY DEF PacerType
    <3> QED
      BY <1>8, <3>1 DEF Newest, OneIf
  <2>6. r # << >> => r[Len(r)].n = m - 0 - 0
    BY <1>8, <2>2, <2>4, <2>5 DEF EntryLine
  <2> HIDE DEF r, m
  <2>7. r # << >> => r[Len(r)].n = m
    BY <2>5, <2>6
  <2>8. Of(t)' = {}
    <3>1. \A f \in Entry : pacer[f].stream = t => f = e
      BY <1>8, PacerAssumption DEF PacerInv
    <3>2. \A f \in Entry : pacer'[f].stream # t
      BY <1>3, <1>4, <1>8, <3>1
    <3> QED
      BY <3>2 DEF Of
  <2> QED
    BY <2>1, <2>3, <2>7, <2>8 DEF StreamLine, r, m
<1>9. CASE t = s
  <2>1. ~wire[s].crossed
    <3>1. CASE p.max = talker[s].tspec
      BY <1>5, <1>9, <3>1
    <3>2. CASE p.max # talker[s].tspec
      <4>1. ~(wire[s].crossed \/ p.flight > 0)
        BY <1>5, <1>9, <3>2, Zenon
      <4> QED
        BY <4>1
    <3> QED
      BY <3>1, <3>2
  <2>2. StreamLine(s)
    BY <2>1 DEF OrderInv
  <2>3. Newest(e)' = talker[s].sent
    <3>1. talker'[pacer'[e].stream].sent = n
      BY <1>1, <1>3, <1>4
    <3> QED
      BY <1>1, <1>2, <3>1 DEF Newest, OneIf
  <2>4. CASE e \in Of(s) /\ p = pacer[e]
    <3>1. pacer[e].stream = s /\ Newest(e) = talker[s].sent
      <4>1. pacer[e].stream = s
        BY <2>4 DEF Of
      <4> QED
        BY <1>1, <4>1 DEF Newest, OneIf
    <3>2. Of(s)' = Of(s) /\ Of(s) = {e}
      <4>1. Of(s) = {e}
        BY <2>4 DEF Usable
      <4>2. \A f \in Entry : pacer'[f].stream = pacer[f].stream
        BY <1>3, <1>4, <3>1
      <4> QED
        BY <4>1, <4>2 DEF Of
    <3>3. /\ Consecutive(wire[s].recent) => Consecutive(wire'[s].recent)
          /\ wire'[s].recent # << >> => wire'[s].recent = wire[s].recent
      BY <1>5 DEF Consecutive
    <3> QED
      BY <1>3, <1>4, <1>6, <1>9, <2>1, <2>3, <2>4, <3>1, <3>2, <3>3, StreamSame
  <2>5. CASE Of(s) = {} /\ p = Reset(pacer[e], s) /\ pacer[e].flight = 0
    <3>1. p.max = 0 /\ p.count = 0 /\ p.flight = 0
      BY <2>5, ResetIs DEF PacerType
    <3>2. wire'[s].recent = << >>
      BY <1>5, <3>1 DEF Usable
    <3>3. \A q \in 0..Depth - 1 : ~From(e, q)'
      BY <1>6, <2>5, FromIs
    <3>4. EntryLine(e)'
      <4>1. pacer'[e].count = 0 /\ pacer'[e].flight = 0 /\ pacer'[e].stream = s
        BY <1>3, <1>4, <3>1
      <4>2. QueueLine(pacer'[e], Newest(e)')
        BY <4>1 DEF QueueLine
      <4> QED
        BY <3>2, <3>3, <4>1, <4>2 DEF EntryLine
    <3>5. Of(s)' = {e}
      BY <1>3, <1>4, PacerAssumption DEF Of, PacerInv
    <3>6. Consecutive(<< >>)
      BY DEF Consecutive
    <3> QED
      BY <1>9, <3>2, <3>4, <3>5, <3>6 DEF StreamLine
  <2> QED
    BY <2>4, <2>5 DEF Usable
<1> QED
  BY <1>7, <1>8, <1>9

LEMMA OrderForward ==
  ASSUME PacerType, PacerInv, OrderInv, PacerType', PacerInv',
         NEW s \in Stream, Forward(s)
  PROVE  OrderInv'
<1> SUFFICES ASSUME NEW t \in Stream, ~wire'[t].crossed PROVE StreamLine(t)'
  BY DEF OrderInv
<1>1. PICK n \in Nat :
        /\ n = talker[s].sent + 1 /\ rx.at = "off" /\ drain["rx"].at = "off"
        /\ drain' = drain /\ talker' = [talker EXCEPT ![s].sent = n]
        /\ \/ Passes(s, n)
           \/ \E e \in Entry, p \in Pacing : Usable(s, e, p) /\ Queues(s, n, e, p)
  BY ForwardIs
<1> QED
  BY <1>1, OrderPasses, OrderQueues

LEMMA OrderStep ==
  PacerType /\ PacerInv /\ OrderInv /\ [Next]_vars => OrderInv'
<1> SUFFICES ASSUME PacerType, PacerInv, OrderInv, [Next]_vars PROVE OrderInv'
  OBVIOUS
<1>1. PacerType' /\ PacerInv'
  BY PacerStep
<1>2. CASE UNCHANGED vars
  <2>1. UNCHANGED <<pacer, rx, drain, talker, wire>>
    BY <1>2 DEF vars
  <2>2. \A e \in Entry, q \in 0..Depth - 1 : From(e, q)' => From(e, q)
    BY <2>1 DEF From, TaskOut
  <2> QED
    BY <2>1, <2>2, OrderQuiet
<1>3. CASE Next
  BY <1>1, <1>3, OrderForward, OrderDeclare, OrderPlace, OrderSendHead, OrderSendNow,
     OrderWake, OrderTick, OrderTake, OrderSend, OrderArm DEF Next
<1> QED
  BY <1>2, <1>3

\* A bridge that paces a stream sends its frames in the order they came,
\* whichever task sends them (station_pacer_forward, station_pacer_drain).
THEOREM InOrderKept == Spec => []InOrder
<1>1. OrderInv => InOrder
  BY DEF OrderInv, StreamLine, Consecutive, InOrder
<1> QED
  BY <1>1, PacerInit, PacerStep, OrderInit, OrderStep, PTL DEF Spec

(***************************************************************************)
(* The spacing of the frames.                                              *)
(***************************************************************************)
\* What the pacer counts: the frames out for no more than a ticks, those of no
\* reservation not among them.
Late(r, a) == {j \in DOMAIN r : r[j].age <= a /\ r[j].how # "unpaced"}
Lates(r, a) == Cardinality(Late(r, a))

\* The send history of p and what left the port, r: when the m-th last send in
\* the history is older than a, what is out for no more than a or on its way out
\* are the sends after it.  A paced frame on its way out has room.
Spaced(p, r, out) ==
  /\ \A m \in 1..p.max, a \in 0..p.interval - 1 :
       p.sent[m] > a => Lates(r, a) + p.flight <= p.max - m
  /\ out => Lates(r, p.interval - 1) < p.max
  /\ \A i \in DOMAIN r : r[i].how = "paced" /\ r[i].age = 0 =>
       Cardinality({j \in Late(r, p.interval - 1) : j < i}) < p.max

\* A frame is on its way out that leaves no sooner than it may.
PacedOut(e) ==
  \/ rx.at = "send" /\ rx.entry = e
  \/ \E k \in Task : drain[k].at = "send" /\ drain[k].entry = e

EntrySpace(e) == Spaced(pacer[e], wire[pacer[e].stream].recent, PacedOut(e))

SpaceInv == \A e \in Entry :
  pacer[e].stream \in Stream /\ ~wire[pacer[e].stream].crossed => EntrySpace(e)

LEMMA LateType ==
  ASSUME NEW r \in Seq(Frame), NEW a \in Nat
  PROVE  /\ Late(r, a) \subseteq 1..Len(r)
         /\ IsFiniteSet(Late(r, a)) /\ Lates(r, a) \in Nat
<1>1. Late(r, a) \subseteq 1..Len(r)
  BY DEF Late
<1>2. IsFiniteSet(1..Len(r))
  BY FS_Interval
<1>3. IsFiniteSet(Late(r, a))
  BY <1>1, <1>2, FS_Subset
<1> QED
  BY <1>1, <1>3, FS_CardinalityType DEF Lates

\* A frame leaves after the others.
LEMMA LateAppend ==
  ASSUME NEW r \in Seq(Frame), NEW a \in Nat, NEW f \in Frame, f.age = 0
  PROVE  /\ f.how = "unpaced" => Late(Append(r, f), a) = Late(r, a)
         /\ f.how # "unpaced" => Lates(Append(r, f), a) = Lates(r, a) + 1
         /\ \A i \in 1..Len(r) + 1 :
              {j \in Late(Append(r, f), a) : j < i} = {j \in Late(r, a) : j < i}
         /\ {j \in Late(r, a) : j < Len(r) + 1} = Late(r, a)
<1> DEFINE q == Append(r, f)  l == Len(r) + 1
<1>1. /\ Len(r) \in Nat /\ DOMAIN q = 1..l /\ DOMAIN r = 1..Len(r)
      /\ q[l] = f /\ \A j \in 1..Len(r) : q[j] = r[j]
  OBVIOUS
<1> HIDE DEF q
<1>2. f.how = "unpaced" => Late(q, a) = Late(r, a)
  BY <1>1 DEF Late
<1>3. f.how # "unpaced" => Late(q, a) = Late(r, a) \cup {l}
  BY <1>1 DEF Late
<1>4. ~(l \in Late(r, a)) /\ IsFiniteSet(Late(r, a))
  BY <1>1, LateType
<1>5. f.how # "unpaced" => Lates(q, a) = Lates(r, a) + 1
  BY <1>3, <1>4, FS_AddElement DEF Lates
<1>6. \A i \in 1..Len(r) + 1 :
        {j \in Late(q, a) : j < i} = {j \in Late(r, a) : j < i}
  BY <1>1, <1>2, <1>3
<1>7. {j \in Late(r, a) : j < Len(r) + 1} = Late(r, a)
  BY <1>1, LateType
<1> QED
  BY <1>2, <1>5, <1>6, <1>7 DEF q

\* The sends of an entry are as many as MaxIntervalFrames.
LEMMA SentType ==
  ASSUME NEW p \in Pacing, Len(p.sent) = p.max
  PROVE  /\ p.sent \in Seq(Nat) /\ DOMAIN p.sent = 1..p.max
         /\ p.max \in Nat /\ p.flight \in Nat
         /\ p.interval \in Nat /\ p.interval > 0
         /\ \A m \in 1..p.max : p.sent[m] \in Nat
BY DEF Pacing

\* A frame that is due has room.
LEMMA DueRoom ==
  ASSUME NEW p \in Pacing, Len(p.sent) = p.max, p.max > 0, NEW r \in Seq(Frame),
         NEW out, Spaced(p, r, out), Wait(p) = 0
  PROVE  Lates(r, p.interval - 1) < p.max
<1>1. /\ p.sent \in Seq(Nat) /\ p.max \in Nat /\ p.flight \in Nat
      /\ p.interval \in Nat /\ p.interval > 0 /\ 1 \in 1..p.max
      /\ p.sent[1] \in Nat
  BY SentType
<1>2. Head(p.sent) = p.sent[1]
  BY <1>1
<1>3. p.sent[1] >= p.interval
  BY <1>1, <1>2 DEF Wait
<1>4. p.interval - 1 \in 0..p.interval - 1 /\ p.sent[1] > p.interval - 1
  BY <1>1, <1>3
<1>5. Lates(r, p.interval - 1) + p.flight <= p.max - 1
  BY <1>1, <1>4 DEF Spaced
<1>6. p.interval - 1 \in Nat
  BY <1>1
<1>7. Lates(r, p.interval - 1) \in Nat
  BY <1>6, LateType
<1> QED
  BY <1>1, <1>5, <1>7

\* A frame is counted as it is taken to be sent.
LEMMA SpacedNoted ==
  ASSUME NEW p \in Pacing, Len(p.sent) = p.max, p.max > 0, NEW r \in Seq(Frame),
         NEW out, Spaced(p, r, out), NEW new,
         new => Lates(r, p.interval - 1) < p.max,
         NEW q, q.sent = Append(Tail(p.sent), 0), q.max = p.max,
         q.interval = p.interval, q.flight = p.flight + 1
  PROVE  Spaced(q, r, new)
<1>1. /\ p.sent \in Seq(Nat) /\ p.max \in Nat /\ p.flight \in Nat
      /\ p.interval \in Nat /\ p.sent # << >>
  BY SentType
<1>2. /\ q.sent[p.max] = 0
      /\ \A m \in 1..p.max : m # p.max => q.sent[m] = p.sent[m + 1]
  BY <1>1
<1>3. ASSUME NEW m \in 1..q.max, NEW a \in 0..q.interval - 1, q.sent[m] > a
      PROVE  Lates(r, a) + q.flight <= q.max - m
  <2>1. m # p.max /\ m + 1 \in 1..p.max /\ a \in 0..p.interval - 1 /\ a \in Nat
    BY <1>1, <1>2, <1>3
  <2>2. p.sent[m + 1] > a
    BY <1>2, <1>3, <2>1
  <2>3. Lates(r, a) + p.flight <= p.max - (m + 1)
    BY <2>1, <2>2 DEF Spaced
  <2>4. PICK late \in Nat : late = Lates(r, a)
    BY <2>1, LateType
  <2>5. m \in Nat /\ q.flight = p.flight + 1 /\ q.max = p.max
    BY <1>1, <2>1
  <2>6. late + p.flight <= p.max - (m + 1)
    BY <2>3, <2>4
  <2>7. late + (p.flight + 1) <= p.max - m
    BY <1>1, <2>5, <2>6
  <2> QED
    BY <2>4, <2>5, <2>7
<1> QED
  BY <1>3 DEF Spaced

\* A frame of the entry is out.
LEMMA SpacedLeft ==
  ASSUME NEW p \in Pacing, Len(p.sent) = p.max, NEW r \in Seq(Frame),
         NEW out, Spaced(p, r, out),
         NEW f \in Frame, f.age = 0, f.how # "unpaced", f.how = "paced" => out,
         NEW q, q.sent = p.sent, q.max = p.max,
         q.interval = p.interval, q.flight = p.flight - 1
  PROVE  Spaced(q, Append(r, f), FALSE)
<1> DEFINE g == Append(r, f)  n == p.interval - 1
<1>1. /\ p.max \in Nat /\ p.flight \in Nat /\ n \in Nat
  BY SentType
<1>2. ASSUME NEW m \in 1..q.max, NEW a \in 0..q.interval - 1, q.sent[m] > a
      PROVE  Lates(g, a) + q.flight <= q.max - m
  <2>1. Lates(r, a) + p.flight <= p.max - m /\ a \in Nat
    BY <1>2 DEF Spaced
  <2>2. Lates(r, a) \in Nat /\ Lates(g, a) = Lates(r, a) + 1
    BY <2>1, LateType, LateAppend
  <2> HIDE DEF g
  <2> QED
    BY <1>1, <2>1, <2>2
<1>3. ASSUME NEW i \in DOMAIN g, g[i].how = "paced", g[i].age = 0
      PROVE  Cardinality({j \in Late(g, n) : j < i}) < p.max
  <2>1. i \in 1..Len(r) + 1 /\ Len(r) \in Nat
    BY <1>3
  <2>2. {j \in Late(g, n) : j < i} = {j \in Late(r, n) : j < i}
    BY <1>1, <2>1, LateAppend
  <2>3. CASE i = Len(r) + 1
    <3>1. g[i] = f
      BY <2>3
    <3>2. out
      BY <1>3, <3>1
    <3>3. {j \in Late(r, n) : j < i} = Late(r, n)
      BY <1>1, <2>3, LateAppend
    <3> QED
      BY <2>2, <3>2, <3>3 DEF Spaced, Lates
  <2>4. CASE i # Len(r) + 1
    <3>1. i \in DOMAIN r /\ g[i] = r[i]
      BY <2>1, <2>4
    <3> QED
      BY <1>3, <2>2, <3>1 DEF Spaced
  <2> QED
    BY <2>3, <2>4
<1> HIDE DEF g
<1>4. Spaced(q, g, FALSE)
  BY <1>2, <1>3 DEF Spaced
<1> QED
  BY <1>4 DEF g

\* A frame passes that is not counted.
LEMMA SpacedUnpaced ==
  ASSUME NEW p \in Pacing, Len(p.sent) = p.max, NEW r \in Seq(Frame),
         NEW out, Spaced(p, r, out),
         NEW f \in Frame, f.age = 0, f.how = "unpaced",
         NEW q, q.sent = p.sent, q.max = p.max,
         q.interval = p.interval, q.flight = p.flight
  PROVE  Spaced(q, Append(r, f), out)
<1> DEFINE g == Append(r, f)  n == p.interval - 1
<1>1. n \in Nat
  BY SentType
<1>2. \A a \in Nat : Late(g, a) = Late(r, a) /\ Lates(g, a) = Lates(r, a)
  BY LateAppend DEF Lates
<1>3. ASSUME NEW i \in DOMAIN g, g[i].how = "paced", g[i].age = 0
      PROVE  Cardinality({j \in Late(g, n) : j < i}) < p.max
  <2>1. i \in DOMAIN r /\ g[i] = r[i]
    BY <1>3
  <2> QED
    BY <1>1, <1>2, <1>3, <2>1 DEF Spaced
<1> HIDE DEF g
<1>4. \A m \in 1..q.max, a \in 0..q.interval - 1 :
        q.sent[m] > a => Lates(g, a) + q.flight <= q.max - m
  BY <1>2 DEF Spaced
<1>5. Spaced(q, g, out)
  BY <1>1, <1>2, <1>3, <1>4 DEF Spaced
<1> QED
  BY <1>5 DEF g

\* Without its first c frames, r is g a tick later.
Later(r, g, c, max) ==
  /\ Len(g) = Len(r) - c
  /\ \A i \in 1..Len(r) - c :
       g[i] = [r[i + c] EXCEPT !.age = Aged(r[i + c].age, max)]

\* A tick leaves no frame of this tick, and what is out for a ticks was for less.
LEMMA LateAged ==
  ASSUME NEW r \in Seq(Frame), NEW g \in Seq(Frame), NEW max \in Nat, max > 0,
         NEW c \in Nat, Later(r, g, c, max)
  PROVE  /\ \A i \in DOMAIN g : g[i].age > 0
         /\ Lates(g, 0) = 0
         /\ \A a \in 1..max - 1 : Lates(g, a) <= Lates(r, a - 1)
<1>1. Len(r) \in Nat /\ DOMAIN r = 1..Len(r) /\ DOMAIN g = 1..Len(r) - c
  BY DEF Later
<1>2. ASSUME NEW i \in DOMAIN g
      PROVE  /\ i + c \in DOMAIN r /\ r[i + c] \in Frame
             /\ g[i].age = Aged(r[i + c].age, max) /\ g[i].how = r[i + c].how
  <2>1. i + c \in DOMAIN r
    BY <1>1, <1>2
  <2>2. r[i + c] \in Frame
    BY <2>1
  <2>3. g[i] = [r[i + c] EXCEPT !.age = Aged(r[i + c].age, max)]
    BY <1>1, <1>2 DEF Later
  <2> QED
    BY <2>1, <2>2, <2>3 DEF Frame
<1>3. \A i \in DOMAIN g : g[i].age > 0
  <2> TAKE i \in DOMAIN g
  <2>1. r[i + c].age \in Nat
    BY <1>2 DEF Frame
  <2>2. g[i].age = Aged(r[i + c].age, max)
    BY <1>2
  <2> QED
    BY <2>1, <2>2 DEF Aged
<1>4. Lates(g, 0) = 0
  <2>1. \A i \in DOMAIN g : g[i].age \in Nat
    <3> TAKE i \in DOMAIN g
    <3>1. g[i] \in Frame
      OBVIOUS
    <3> QED
      BY <3>1 DEF Frame
  <2>2. Late(g, 0) = {}
    BY <1>3, <2>1 DEF Late
  <2> QED
    BY <2>2, FS_EmptySet DEF Lates
<1>5. ASSUME NEW a \in 1..max - 1
      PROVE  Lates(g, a) <= Lates(r, a - 1)
  <2>1. a - 1 \in Nat /\ a < max
    BY <1>5
  <2> DEFINE up == [i \in Late(g, a) |-> i + c]
  <2>2. ASSUME NEW i \in Late(g, a) PROVE i + c \in Late(r, a - 1)
    <3>1. i \in DOMAIN g /\ g[i].age <= a /\ g[i].how # "unpaced"
      BY <2>2 DEF Late
    <3>2. /\ i + c \in DOMAIN r /\ r[i + c] \in Frame
          /\ g[i].age = Aged(r[i + c].age, max) /\ g[i].how = r[i + c].how
      BY <1>2, <3>1
    <3>3. r[i + c].age \in Nat
      BY <3>2 DEF Frame
    <3>4. r[i + c].age \in Nat /\ Aged(r[i + c].age, max) <= a
          /\ r[i + c].how # "unpaced" /\ i + c \in DOMAIN r
      BY <3>1, <3>2, <3>3
    <3>5. r[i + c].age <= a - 1
      BY <1>5, <2>1, <3>4 DEF Aged
    <3> QED
      BY <3>4, <3>5 DEF Late
  <2>3. Late(g, a) \subseteq Int
    BY <1>1 DEF Late
  <2>4. up \in Injection(Late(g, a), Late(r, a - 1))
    <3>1. up \in [Late(g, a) -> Late(r, a - 1)]
      BY <2>2
    <3>2. \A i, j \in Late(g, a) : up[i] = up[j] => i = j
      BY <2>3
    <3> QED
      BY <3>1, <3>2 DEF Injection, IsInjective
  <2>5. IsFiniteSet(Late(r, a - 1))
    BY <2>1, LateType
  <2> QED
    BY <2>4, <2>5, FS_Injection DEF Lates
<1> QED
  BY <1>3, <1>4, <1>5

LEMMA SpacedTick ==
  ASSUME NEW p \in Pacing, Len(p.sent) = p.max, p.flight = 0, NEW r \in Seq(Frame),
         NEW out, Spaced(p, r, out),
         NEW q, q.max = p.max, q.interval = p.interval, q.flight = p.flight,
         q.sent = [i \in 1..Len(p.sent) |-> Aged(p.sent[i], p.interval)],
         NEW g \in Seq(Frame), NEW c \in Nat, Later(r, g, c, p.interval)
  PROVE  Spaced(q, g, FALSE)
<1>1. /\ p.sent \in Seq(Nat) /\ p.max \in Nat /\ p.interval \in Nat
      /\ p.interval > 0 /\ \A m \in 1..p.max : p.sent[m] \in Nat
  BY SentType
<1>2. /\ \A i \in DOMAIN g : g[i].age > 0
      /\ Lates(g, 0) = 0
      /\ \A a \in 1..p.interval - 1 : Lates(g, a) <= Lates(r, a - 1)
  BY <1>1, LateAged
<1>3. ASSUME NEW m \in 1..q.max, NEW a \in 0..q.interval - 1, q.sent[m] > a
      PROVE  Lates(g, a) + q.flight <= q.max - m
  <2>1. m \in 1..p.max /\ a \in 0..p.interval - 1 /\ a \in Nat
        /\ p.sent[m] \in Nat /\ Aged(p.sent[m], p.interval) > a
    BY <1>1, <1>3
  <2>2. CASE a = 0
    BY <1>1, <1>2, <1>3, <2>1, <2>2
  <2>3. CASE a # 0
    <3>1. a - 1 \in 0..p.interval - 1 /\ a - 1 \in Nat /\ a \in 1..p.interval - 1
      BY <1>1, <2>1, <2>3
    <3>2. p.sent[m] > a - 1
      BY <1>1, <2>1, <3>1 DEF Aged
    <3>3. Lates(r, a - 1) + 0 <= p.max - m
      BY <2>1, <3>1, <3>2 DEF Spaced
    <3>4. Lates(g, a) <= Lates(r, a - 1)
      BY <1>2, <3>1
    <3>5. Lates(g, a) \in Nat /\ Lates(r, a - 1) \in Nat
      BY <2>1, <3>1, LateType
    <3>6. Lates(g, a) + 0 <= p.max - m
      BY <1>1, <2>1, <3>3, <3>4, <3>5
    <3> QED
      BY <3>6
  <2> QED
    BY <2>2, <2>3
<1>4. \A i \in DOMAIN g : g[i].age # 0
  BY <1>2
<1> QED
  BY <1>3, <1>4 DEF Spaced

\* A history that starts anew with nothing out.
LEMMA SpacedFresh ==
  ASSUME NEW q, q.flight = 0, q.max \in Nat
  PROVE  Spaced(q, << >>, FALSE)
<1>1. \A a : Late(<< >>, a) = {}
  BY DEF Late
<1>2. \A a : Lates(<< >>, a) = 0
  BY <1>1, FS_EmptySet DEF Lates
<1>3. DOMAIN << >> = {}
  OBVIOUS
<1> QED
  BY <1>2, <1>3 DEF Spaced

\* What a paced frame that is out of the queue is counted with.
LEMMA PacedOutIs ==
  ASSUME PacerType, PacerInv, NEW e \in Entry
  PROVE  /\ PacedOut(e) => pacer[e].flight > 0
         /\ PacedOut(e) <=> \/ rx.at = "send" /\ rx.entry = e
                            \/ \E k \in Task : TaskOut(k, e)
<1>1. PacedOut(e) => Out(e) > 0
  BY OutIs DEF PacedOut, RxOut, TaskOut
<1> QED
  BY <1>1 DEF PacedOut, TaskOut, PacerInv

\* Unless the tasks crossed, one frame of an entry is on its way out at most.
LEMMA OneOut ==
  ASSUME PacerType, PacerInv, OrderInv, SpaceInv, NEW e \in Entry, NEW s \in Stream,
         pacer[e].stream = s, ~wire[s].crossed
  PROVE  /\ pacer[e] \in Pacing /\ Len(pacer[e].sent) = pacer[e].max
         /\ pacer[e].max > 0 /\ pacer[e].interval = Interval[s]
         /\ pacer[e].flight \in 0..1 /\ wire[s].recent \in Seq(Frame)
         /\ Spaced(pacer[e], wire[s].recent, PacedOut(e))
<1>1. pacer[e] \in Pacing /\ EntryOk(pacer[e]) /\ pacer[e].flight \in 0..2
  BY QueuedIs
<1>2. s # None
  BY PacerAssumption
<1>3. StreamLine(s) /\ e \in Of(s)
  BY DEF OrderInv, Of
<1>4. EntryLine(e)
  BY <1>3 DEF StreamLine
<1>5. pacer[e].flight <= 1
  BY <1>4 DEF EntryLine
<1>6. Spaced(pacer[e], wire[s].recent, PacedOut(e))
  BY DEF SpaceInv, EntrySpace
<1>7. wire[s].recent \in Seq(Frame)
  BY DEF PacerType
<1> QED
  BY <1>1, <1>2, <1>5, <1>6, <1>7 DEF EntryOk

\* An entry that the step leaves, as to what is counted.
LEMMA SpaceSame ==
  ASSUME PacerType, PacerInv, OrderInv, SpaceInv, NEW e \in Entry, NEW s \in Stream,
         pacer[e].stream = s, pacer'[e].stream = s, wire'[s] = wire[s],
         ~wire'[s].crossed,
         pacer'[e].max = pacer[e].max, pacer'[e].sent = pacer[e].sent,
         pacer'[e].interval = pacer[e].interval,
         pacer'[e].flight = pacer[e].flight,
         PacedOut(e)' => PacedOut(e)
  PROVE  EntrySpace(e)'
<1>1. Spaced(pacer[e], wire[s].recent, PacedOut(e))
  BY OneOut
<1>2. Spaced(pacer'[e], wire'[s].recent, PacedOut(e)')
  BY <1>1 DEF Spaced
<1> QED
  BY <1>2 DEF EntrySpace

\* No paced frame of e is on its way out once nothing of e is.
LEMMA NoneOut ==
  ASSUME PacerType', PacerInv', NEW e \in Entry, pacer'[e].flight = 0
  PROVE  PacedOut(e)' = FALSE
<1>1. Out(e)' = 0
  BY DEF PacerInv
<1>2. /\ Out(e)' = OneIf(RxOut(e)') + OneIf(TaskOut("rx", e)') + OneIf(TaskOut("timer", e)')
      /\ \A b : OneIf(b) \in {0, 1}
  BY DEF Out, OneIf
<1>3. OneIf(RxOut(e)') = 0 /\ \A k \in Task : OneIf(TaskOut(k, e)') = 0
  BY <1>1, <1>2 DEF Task
<1>4. ~RxOut(e)' /\ \A k \in Task : ~TaskOut(k, e)'
  BY <1>3 DEF OneIf
<1> QED
  BY <1>4 DEF PacedOut, RxOut, TaskOut

LEMMA SpaceInit == Init => SpaceInv
BY PacerAssumption DEF Init, SpaceInv, NoEntry

\* A frame of e is taken to be sent; it is in time, or goes early.
LEMMA SpaceTaken ==
  ASSUME PacerType, PacerInv, OrderInv, SpaceInv, NEW e \in Entry, NEW s \in Stream,
         pacer[e].stream = s, ~wire[s].crossed,
         NEW q, pacer'[e] = q, q.stream = s,
         q.sent = Append(Tail(pacer[e].sent), 0), q.max = pacer[e].max,
         q.interval = pacer[e].interval, q.flight = pacer[e].flight + 1,
         wire'[s].recent = wire[s].recent,
         Wait(pacer[e]) = 0 \/ ~PacedOut(e)'
  PROVE  EntrySpace(e)'
<1>1. /\ pacer[e] \in Pacing /\ Len(pacer[e].sent) = pacer[e].max
      /\ pacer[e].max > 0 /\ wire[s].recent \in Seq(Frame)
      /\ Spaced(pacer[e], wire[s].recent, PacedOut(e))
  BY OneOut
<1>2. Wait(pacer[e]) = 0 =>
        Lates(wire[s].recent, pacer[e].interval - 1) < pacer[e].max
  BY <1>1, DueRoom
<1>3. PacedOut(e)' => Lates(wire[s].recent, pacer[e].interval - 1) < pacer[e].max
  BY <1>2
<1>4. Spaced(q, wire[s].recent, PacedOut(e)')
  BY <1>1, <1>3, SpacedNoted
<1> QED
  BY <1>4 DEF EntrySpace

\* A frame of e is out.
LEMMA SpaceLeft ==
  ASSUME PacerType, PacerInv, OrderInv, SpaceInv, PacerType', PacerInv',
         NEW e \in Entry, NEW s \in Stream,
         pacer[e].stream = s, ~wire'[s].crossed, pacer[e].flight > 0,
         Sent(e), NEW n \in Nat, NEW how \in {"paced", "early"}, Left(s, n, how),
         how = "paced" => PacedOut(e)
  PROVE  EntrySpace(e)'
<1>1. wire'[s].recent = Append(wire[s].recent, [n |-> n, age |-> 0, how |-> how])
      /\ ~wire[s].crossed
  BY LeftIs
<1>2. /\ pacer'[e].stream = s /\ pacer'[e].flight = pacer[e].flight - 1
      /\ pacer'[e].max = pacer[e].max /\ pacer'[e].sent = pacer[e].sent
      /\ pacer'[e].interval = pacer[e].interval
  BY SentIs
<1>3. /\ pacer[e] \in Pacing /\ Len(pacer[e].sent) = pacer[e].max
      /\ pacer[e].flight \in 0..1 /\ wire[s].recent \in Seq(Frame)
      /\ Spaced(pacer[e], wire[s].recent, PacedOut(e))
  BY <1>1, OneOut
<1>4. PICK f \in Frame : f = [n |-> n, age |-> 0, how |-> how]
  BY DEF Frame
<1>5. f.age = 0 /\ f.how = how
  BY <1>4
<1>6. Spaced(pacer'[e], Append(wire[s].recent, f), FALSE)
  BY <1>2, <1>3, <1>5, SpacedLeft
<1>7. PacedOut(e)' = FALSE
  <2>1. pacer'[e].flight = 0
    BY <1>2, <1>3
  <2> QED
    BY <2>1, NoneOut
<1> QED
  BY <1>1, <1>2, <1>4, <1>6, <1>7 DEF EntrySpace

\* Another entry is none of the stream.
LEMMA OtherEntry ==
  ASSUME PacerInv, NEW e \in Entry, NEW f \in Entry, e # f, pacer[e].stream \in Stream
  PROVE  pacer[f].stream # pacer[e].stream
BY PacerAssumption DEF PacerInv

LEMMA SpaceTake ==
  ASSUME PacerType, PacerInv, OrderInv, SpaceInv, NEW k \in Task, Take(k)
  PROVE  SpaceInv'
<1> SUFFICES ASSUME NEW f \in Entry, NEW s \in Stream,
                    pacer'[f].stream = s, ~wire'[s].crossed
             PROVE  EntrySpace(f)'
  BY DEF SpaceInv
<1>1. rx' = rx /\ drain[k].at = "look" /\ drain \in [Task -> Drainings]
  BY DEF Take, PacerType
<1>2. CASE Due = {}
  <2>1. pacer' = pacer /\ wire' = wire
    BY <1>2 DEF Take
  <2>2. drain'[k].at # "send" /\ \A j \in Task \ {k} : drain'[j] = drain[j]
    BY <1>1, <1>2 DEF Take, Resting
  <2>3. PacedOut(f)' => PacedOut(f)
    BY <1>1, <2>2 DEF PacedOut
  <2> QED
    BY <2>1, <2>3, SpaceSame
<1>3. CASE Due # {}
  <2>1. PICK e \in Entry : e = Min(Due) /\ e \in Due
    BY <1>3, FirstEntry DEF Due, Queued
  <2>2. pacer[e].count > 0 /\ Wait(pacer[e]) = 0 /\ Queued # {}
    BY <2>1 DEF Due, Queued
  <2>3. PICK n : drain' = [drain EXCEPT ![k] =
                   [at |-> "send", entry |-> e, slot |-> pacer[e].head, n |-> n]]
    BY <1>3, <2>1, <2>2 DEF Take
  <2>4. pacer' = [pacer EXCEPT ![e] = Taken(pacer[e])] /\ Crossed(e)
    BY <1>3, <2>1, <2>2 DEF Take
  <2>5. /\ \A j \in Task \ {k} : drain'[j] = drain[j]
        /\ drain'[k].at = "send" /\ drain'[k].entry = e
    BY <1>1, <2>3
  <2>6. pacer[e].stream \in Stream
    BY <2>2, QueuedIs
  <2>7. CASE f = e
    <3>1. pacer'[e] = Taken(pacer[e]) /\ pacer[e] \in Pacing /\ EntryOk(pacer[e])
      BY <2>2, <2>4, TakeHead, QueuedIs
    <3>2. /\ Taken(pacer[e]).stream = pacer[e].stream
          /\ Taken(pacer[e]).max = pacer[e].max
          /\ Taken(pacer[e]).interval = pacer[e].interval
          /\ Taken(pacer[e]).flight = pacer[e].flight + 1
          /\ Taken(pacer[e]).sent = Append(Tail(pacer[e].sent), 0)
      <4>1. pacer[e].max > 0 /\ Len(pacer[e].sent) = pacer[e].max
        BY <2>6, <3>1, PacerAssumption DEF EntryOk
      <4>2. Noted(pacer[e]).sent = Append(Tail(pacer[e].sent), 0)
        BY <3>1, <4>1, NotedIs DEF Pacing
      <4> QED
        BY <2>2, <3>1, <4>2, TakenIs
    <3>3. pacer[e].stream = s
      BY <2>7, <3>1, <3>2
    <3>4. wire'[s].recent = wire[s].recent /\ ~wire[s].crossed
      BY <2>4, <2>6, <3>3, CrossedIs
    <3> QED
      BY <2>2, <2>7, <3>1, <3>2, <3>3, <3>4, SpaceTaken
  <2>8. CASE f # e
    <3>1. pacer'[f] = pacer[f]
      BY <2>2, <2>4, <2>8, TakeHead
    <3>2. pacer[e].stream # s
      BY <2>6, <2>8, <3>1, OtherEntry
    <3>3. wire'[s] = wire[s]
      BY <2>4, <2>6, <3>2, CrossedIs
    <3>4. PacedOut(f)' => PacedOut(f)
      BY <1>1, <2>5, <2>8 DEF PacedOut
    <3> QED
      BY <3>1, <3>3, <3>4, SpaceSame
  <2> QED
    BY <2>7, <2>8
<1> QED
  BY <1>2, <1>3

LEMMA SpaceSend ==
  ASSUME PacerType, PacerInv, OrderInv, SpaceInv, PacerType', PacerInv',
         NEW k \in Task, Send(k)
  PROVE  SpaceInv'
<1> SUFFICES ASSUME NEW f \in Entry, NEW s \in Stream,
                    pacer'[f].stream = s, ~wire'[s].crossed
             PROVE  EntrySpace(f)'
  BY DEF SpaceInv
<1>1. /\ drain[k].at = "send" /\ rx' = rx /\ drain \in [Task -> Drainings]
      /\ drain' = [drain EXCEPT ![k] = [at |-> "look"]]
  BY DEF Send, PacerType
<1>2. PICK e \in Entry : e = drain[k].entry
  BY <1>1, InHand
<1>3. PICK q \in 0..Depth - 1 : q = drain[k].slot
  BY <1>1, InHand
<1>4. Left(pacer[e].stream, pacer[e].slot[q], "paced") /\ Sent(e)
  BY <1>2, <1>3 DEF Send
<1>5. From(e, q) /\ PacedOut(e)
  BY <1>1, <1>2, <1>3 DEF From, TaskOut, PacedOut
<1>6. pacer[e].flight > 0 /\ pacer[e].stream \in Stream /\ pacer[e] \in Pacing
      /\ pacer[e].slot[q] \in Nat
  BY <1>5, FromIs, QueuedIs DEF Pacing
<1>7. drain'[k].at = "look" /\ \A j \in Task \ {k} : drain'[j] = drain[j]
  BY <1>1
<1>8. CASE f = e
  <2>1. pacer[e].stream = s
    BY <1>4, <1>6, <1>8, SentIs
  <2>2. Left(s, pacer[e].slot[q], "paced")
    BY <1>4, <2>1
  <2> QED
    BY <1>4, <1>5, <1>6, <1>8, <2>1, <2>2, SpaceLeft
<1>9. CASE f # e
  <2>1. pacer'[f] = pacer[f]
    BY <1>4, <1>6, <1>9, SentIs
  <2>2. pacer[e].stream # s
    BY <1>6, <1>9, <2>1, OtherEntry
  <2>3. wire'[s] = wire[s]
    BY <1>4, <1>6, <2>2, LeftIs
  <2>4. PacedOut(f)' => PacedOut(f)
    BY <1>1, <1>7 DEF PacedOut
  <2> QED
    BY <2>1, <2>3, <2>4, SpaceSame
<1> QED
  BY <1>8, <1>9

LEMMA SpaceSendHead ==
  ASSUME PacerType, PacerInv, OrderInv, SpaceInv, PacerType', PacerInv', SendHead
  PROVE  SpaceInv'
<1> SUFFICES ASSUME NEW f \in Entry, NEW s \in Stream,
                    pacer'[f].stream = s, ~wire'[s].crossed
             PROVE  EntrySpace(f)'
  BY DEF SpaceInv
<1>1. /\ rx.at = "head" /\ drain' = drain
      /\ rx' = [at |-> "queue", entry |-> rx.entry, n |-> rx.n]
  BY DEF SendHead
<1>2. PICK e \in Entry : e = rx.entry
  BY <1>1, InHand
<1>3. PICK q \in 0..Depth - 1 : q = rx.slot
  BY <1>1, InHand
<1>4. Left(pacer[e].stream, pacer[e].slot[q], "early") /\ Sent(e)
  BY <1>2, <1>3 DEF SendHead
<1>5. From(e, q)
  BY <1>1, <1>2, <1>3 DEF From
<1>6. pacer[e].flight > 0 /\ pacer[e].stream \in Stream /\ pacer[e] \in Pacing
      /\ pacer[e].slot[q] \in Nat
  BY <1>5, FromIs, QueuedIs DEF Pacing
<1>7. rx'.at = "queue"
  BY <1>1
<1>8. CASE f = e
  <2>1. pacer[e].stream = s
    BY <1>4, <1>6, <1>8, SentIs
  <2>2. Left(s, pacer[e].slot[q], "early")
    BY <1>4, <2>1
  <2> QED
    BY <1>4, <1>6, <1>8, <2>1, <2>2, SpaceLeft
<1>9. CASE f # e
  <2>1. pacer'[f] = pacer[f]
    BY <1>4, <1>6, <1>9, SentIs
  <2>2. pacer[e].stream # s
    BY <1>6, <1>9, <2>1, OtherEntry
  <2>3. wire'[s] = wire[s]
    BY <1>4, <1>6, <2>2, LeftIs
  <2>4. PacedOut(f)' => PacedOut(f)
    BY <1>1, <1>7 DEF PacedOut
  <2> QED
    BY <2>1, <2>3, <2>4, SpaceSame
<1> QED
  BY <1>8, <1>9

LEMMA SpaceSendNow ==
  ASSUME PacerType, PacerInv, OrderInv, SpaceInv, PacerType', PacerInv', SendNow
  PROVE  SpaceInv'
<1> SUFFICES ASSUME NEW f \in Entry, NEW s \in Stream,
                    pacer'[f].stream = s, ~wire'[s].crossed
             PROVE  EntrySpace(f)'
  BY DEF SpaceInv
<1>1. /\ rx.at = "send" /\ rx' = Resting /\ Drain("rx")
      /\ rx.n \in Nat /\ drain["rx"].at = "off" /\ "rx" \in Task
  BY InHand DEF SendNow, PacerInv, Task
<1>2. PICK e \in Entry : e = rx.entry
  BY <1>1, InHand
<1>3. Left(pacer[e].stream, rx.n, "paced") /\ Sent(e)
  BY <1>2 DEF SendNow
<1>4. PacedOut(e) /\ pacer[e].flight > 0 /\ pacer[e].stream \in Stream
  BY <1>1, <1>2, PacedOutIs, QueuedIs DEF PacedOut
<1>5. rx'.at = "off"
  BY <1>1 DEF Resting
<1>6. /\ \A j \in Task \ {"rx"} : drain'[j] = drain[j]
      /\ drain'["rx"].at \in {"off", "look"}
  BY <1>1, DrainIs
<1>7. CASE f = e
  <2>1. pacer[e].stream = s
    BY <1>3, <1>4, <1>7, SentIs
  <2>2. Left(s, rx.n, "paced")
    BY <1>3, <2>1
  <2> QED
    BY <1>1, <1>3, <1>4, <1>7, <2>1, <2>2, SpaceLeft
<1>8. CASE f # e
  <2>1. pacer'[f] = pacer[f]
    BY <1>3, <1>4, <1>8, SentIs
  <2>2. pacer[e].stream # s
    BY <1>4, <1>8, <2>1, OtherEntry
  <2>3. wire'[s] = wire[s]
    BY <1>1, <1>3, <1>4, <2>2, LeftIs
  <2>4. PacedOut(f)' => PacedOut(f)
    BY <1>5, <1>6 DEF PacedOut
  <2> QED
    BY <2>1, <2>3, <2>4, SpaceSame
<1> QED
  BY <1>7, <1>8

\* Steps that leave the entries and what is on its way out.
LEMMA SpaceQuiet ==
  ASSUME PacerType, PacerInv, OrderInv, SpaceInv, pacer' = pacer, wire' = wire,
         \A e \in Entry : PacedOut(e)' => PacedOut(e)
  PROVE  SpaceInv'
<1> SUFFICES ASSUME NEW e \in Entry, NEW s \in Stream,
                    pacer'[e].stream = s, ~wire'[s].crossed
             PROVE  EntrySpace(e)'
  BY DEF SpaceInv
<1> QED
  BY SpaceSame

LEMMA SpaceArm ==
  ASSUME PacerType, PacerInv, OrderInv, SpaceInv, NEW k \in Task, Arm(k)
  PROVE  SpaceInv'
<1>1. /\ drain' = [drain EXCEPT ![k] = Resting] /\ drain \in [Task -> Drainings]
      /\ rx' = rx /\ pacer' = pacer /\ wire' = wire
  BY DEF Arm, PacerType
<1>2. drain'[k].at = "off" /\ \A j \in Task \ {k} : drain'[j] = drain[j]
  BY <1>1 DEF Resting
<1>3. \A e \in Entry : PacedOut(e)' => PacedOut(e)
  BY <1>1, <1>2 DEF PacedOut
<1> QED
  BY <1>1, <1>3, SpaceQuiet

LEMMA SpaceWake ==
  ASSUME PacerType, PacerInv, OrderInv, SpaceInv, Wake
  PROVE  SpaceInv'
<1>1. /\ drain["timer"].at = "off" /\ Drain("timer") /\ "timer" \in Task
      /\ rx' = rx /\ pacer' = pacer /\ wire' = wire
  BY DEF Wake, Task
<1>2. /\ drain'["timer"].at \in {"off", "look"}
      /\ \A j \in Task \ {"timer"} : drain'[j] = drain[j]
  BY <1>1, DrainIs
<1>3. \A e \in Entry : PacedOut(e)' => PacedOut(e)
  BY <1>1, <1>2 DEF PacedOut
<1> QED
  BY <1>1, <1>3, SpaceQuiet

LEMMA SpaceTick ==
  ASSUME PacerType, PacerInv, OrderInv, SpaceInv, PacerType', PacerInv', Tick
  PROVE  SpaceInv'
<1> SUFFICES ASSUME NEW e \in Entry, NEW s \in Stream,
                    pacer'[e].stream = s, ~wire'[s].crossed
             PROVE  EntrySpace(e)'
  BY DEF SpaceInv
<1>1. /\ pacer[e].stream = s /\ pacer'[e].flight = pacer[e].flight
      /\ pacer'[e].max = pacer[e].max /\ pacer'[e].interval = pacer[e].interval
      /\ pacer'[e].sent = [i \in 1..Len(pacer[e].sent) |->
                            Aged(pacer[e].sent[i], pacer[e].interval)]
  BY TickPacer
<1>2. ~wire[s].crossed
  BY TickWire
<1>3. pacer[e].flight = 0
  <2>1. ~RxOut(e) /\ \A k \in Task : ~TaskOut(k, e)
    BY DEF Tick, RxOut, TaskOut
  <2> QED
    BY <2>1, OutIs DEF PacerInv
<1>4. /\ pacer[e] \in Pacing /\ Len(pacer[e].sent) = pacer[e].max
      /\ pacer[e].interval = Interval[s] /\ wire[s].recent \in Seq(Frame)
      /\ Spaced(pacer[e], wire[s].recent, PacedOut(e))
  BY <1>1, <1>2, OneOut
<1> DEFINE r == wire[s].recent  g == wire'[s].recent
<1>5. g \in Seq(Frame)
  BY DEF PacerType
<1>6. /\ r = << >> => g = << >>
      /\ r # << >> => \E c \in 0..Len(r) - 1 : Later(r, g, c, Interval[s])
  BY TickWire DEF Later
<1>7. r \in Seq(Frame) /\ Spaced(pacer[e], r, PacedOut(e))
  BY <1>4
<1> HIDE DEF r, g
<1>8. PICK c \in Nat : Later(r, g, c, Interval[s])
  <2>1. CASE r = << >>
    <3>1. Len(g) = Len(r) - 0 /\ 1..Len(r) - 0 = {} /\ 0 \in Nat
      BY <1>6, <2>1
    <3> QED
      BY <3>1 DEF Later
  <2>2. CASE r # << >>
    <3>1. 0..Len(r) - 1 \subseteq Nat
      BY <1>7
    <3> QED
      BY <1>6, <2>2, <3>1
  <2> QED
    BY <2>1, <2>2
<1>9. Later(r, g, c, pacer[e].interval)
  BY <1>4, <1>8
<1>10. Spaced(pacer'[e], g, FALSE)
  BY <1>1, <1>3, <1>4, <1>5, <1>7, <1>9, SpacedTick
<1>11. PacedOut(e)' = FALSE
  BY <1>1, <1>3, NoneOut
<1> QED
  BY <1>1, <1>10, <1>11 DEF EntrySpace, g

LEMMA SpaceDeclare ==
  ASSUME PacerType, PacerInv, OrderInv, SpaceInv, NEW s \in Stream,
         NEW max \in Tspecs, Declare(s, max)
  PROVE  SpaceInv'
<1>1. UNCHANGED <<pacer, rx, drain, wire>>
  BY DEF Declare
<1>2. \A e \in Entry : PacedOut(e)' => PacedOut(e)
  BY <1>1 DEF PacedOut
<1> QED
  BY <1>1, <1>2, SpaceQuiet

\* The forwarding task sends a frame that is in time, queues it, or takes the
\* oldest of the queue to be sent early.
LEMMA SpacePlace ==
  ASSUME PacerType, PacerInv, OrderInv, SpaceInv, Place
  PROVE  SpaceInv'
<1> SUFFICES ASSUME NEW f \in Entry, NEW s \in Stream,
                    pacer'[f].stream = s, ~wire'[s].crossed
             PROVE  EntrySpace(f)'
  BY DEF SpaceInv
<1>1. /\ rx.at = "queue" /\ rx \in Forwarding /\ drain["rx"].at = "off"
      /\ "rx" \in Task
  BY InHand DEF Place, PacerType, PacerInv, Task
<1>2. PICK e \in Entry : e = rx.entry
  BY <1>1, InHand
<1>3. PICK p \in Pacing : p = pacer[e]
  BY DEF PacerType
<1>4. /\ EntryOk(p) /\ p.stream \in Stream /\ p.max > 0 /\ Len(p.sent) = p.max
      /\ p.count \in 0..Depth
  BY <1>1, <1>2, <1>3, QueuedIs DEF PacerInv, Pacing, EntryOk
<1>5. \/ /\ AtOnce(p)
         /\ rx' = [rx EXCEPT !.at = "send"]
         /\ pacer' = [pacer EXCEPT ![e] =
              [Noted(p) EXCEPT !.flight = Noted(p).flight + 1]]
         /\ UNCHANGED <<drain, wire, talker>>
      \/ /\ ~AtOnce(p) /\ p.count + p.flight < Depth
         /\ pacer' = [pacer EXCEPT ![e].slot[At(p.head, p.count)] = rx.n,
                                   ![e].count = @ + 1]
         /\ rx' = Resting /\ Drain("rx") /\ wire' = wire /\ talker' = talker
      \/ /\ ~AtOnce(p) /\ p.count + p.flight >= Depth
         /\ rx' = [at |-> "head", entry |-> e, n |-> rx.n, slot |-> p.head]
         /\ pacer' = [pacer EXCEPT ![e] = Taken(p)]
         /\ Crossed(e) /\ UNCHANGED <<drain, talker>>
  BY <1>2, <1>3, PlaceCases
<1>6. \A g \in Entry \ {e} : pacer'[g] = pacer[g]
  BY <1>5 DEF PacerType
<1>7. Noted(p).sent = Append(Tail(p.sent), 0) /\ Noted(p).max = p.max
      /\ Noted(p).interval = p.interval /\ Noted(p).stream = p.stream
      /\ Noted(p).flight = p.flight /\ Noted(p) \in Pacing
  BY <1>4, NotedIs DEF Pacing
<1>8. CASE AtOnce(p)
  <2>1. /\ rx' = [rx EXCEPT !.at = "send"] /\ drain' = drain /\ wire' = wire
        /\ pacer' = [pacer EXCEPT ![e] =
             [Noted(p) EXCEPT !.flight = Noted(p).flight + 1]]
    BY <1>5, <1>8
  <2>2. rx'.at = "send" /\ rx'.entry = e
    BY <1>1, <1>2, <2>1 DEF Forwarding, Resting
  <2>3. CASE f = e
    <3>1. PICK m \in Pacing : m = Noted(p)
      BY <1>7
    <3>2. pacer'[e] = [m EXCEPT !.flight = m.flight + 1]
      BY <2>1, <3>1 DEF PacerType
    <3>3. /\ pacer'[e].stream = p.stream /\ pacer'[e].max = p.max
          /\ pacer'[e].interval = p.interval
          /\ pacer'[e].sent = Append(Tail(p.sent), 0)
          /\ pacer'[e].flight = p.flight + 1
      BY <1>7, <3>1, <3>2 DEF Pacing
    <3>4. p.stream = s /\ ~wire[s].crossed /\ Wait(p) = 0
      BY <1>8, <2>1, <2>3, <3>3 DEF AtOnce
    <3> QED
      BY <1>3, <2>1, <2>3, <3>3, <3>4, SpaceTaken
  <2>4. CASE f # e
    <3>1. PacedOut(f)' => PacedOut(f)
      BY <2>1, <2>2, <2>4 DEF PacedOut
    <3> QED
      BY <1>6, <2>1, <2>4, <3>1, SpaceSame
  <2> QED
    BY <2>3, <2>4
<1>9. CASE ~AtOnce(p) /\ p.count + p.flight < Depth
  <2>1. /\ pacer' = [pacer EXCEPT ![e].slot[At(p.head, p.count)] = rx.n,
                                  ![e].count = @ + 1]
        /\ rx' = Resting /\ Drain("rx") /\ wire' = wire
    <3>1. p.flight \in Nat /\ p.count \in Nat
      BY <1>4, DepthType DEF Pacing
    <3> QED
      BY <1>5, <1>9, <3>1, DepthType
  <2>2. rx'.at = "off"
    BY <2>1 DEF Resting
  <2>3. /\ \A j \in Task \ {"rx"} : drain'[j] = drain[j]
        /\ drain'["rx"].at \in {"off", "look"}
    BY <1>1, <2>1, DrainIs
  <2>4. PacedOut(f)' => PacedOut(f)
    BY <2>2, <2>3 DEF PacedOut
  <2>5. /\ pacer'[e].stream = p.stream /\ pacer'[e].max = p.max
        /\ pacer'[e].interval = p.interval /\ pacer'[e].sent = p.sent
        /\ pacer'[e].flight = p.flight
    BY <1>3, <2>1 DEF PacerType, Pacing
  <2> QED
    BY <1>3, <1>6, <2>1, <2>4, <2>5, SpaceSame
<1>10. CASE ~AtOnce(p) /\ p.count + p.flight >= Depth
  <2>1. /\ rx' = [at |-> "head", entry |-> e, n |-> rx.n, slot |-> p.head]
        /\ pacer' = [pacer EXCEPT ![e] = Taken(p)]
        /\ Crossed(e) /\ drain' = drain
    <3>1. p.flight \in Nat /\ p.count \in Nat
      BY <1>4, DepthType DEF Pacing
    <3> QED
      BY <1>5, <1>10, <3>1, DepthType
  <2>2. rx'.at = "head"
    BY <2>1
  <2>3. PacedOut(f)' => PacedOut(f)
    BY <2>1, <2>2 DEF PacedOut
  <2>4. pacer'[e] = Taken(p)
    BY <2>1 DEF PacerType
  <2>5. CASE f = e /\ p.flight = 0
    <3>1. p.count > 0
      BY <1>4, <1>10, <2>5, DepthType
    <3>2. /\ Taken(p).stream = p.stream /\ Taken(p).max = p.max
          /\ Taken(p).interval = p.interval /\ Taken(p).flight = p.flight + 1
          /\ Taken(p).sent = Append(Tail(p.sent), 0)
      BY <1>4, <1>7, <3>1, TakenIs
    <3>3. p.stream = s
      BY <2>4, <2>5, <3>2
    <3>4. wire'[s].recent = wire[s].recent /\ ~wire[s].crossed
      BY <1>3, <1>4, <2>1, <3>3, CrossedIs
    <3>5. ~PacedOut(e)
      BY <1>3, <2>5, PacedOutIs
    <3> QED
      BY <1>3, <2>3, <2>4, <2>5, <3>2, <3>3, <3>4, <3>5, SpaceTaken
  <2>6. CASE f = e /\ p.flight # 0
    <3>1. p.flight > 0
      BY <2>6 DEF Pacing
    <3>2. wire'[p.stream].crossed
      BY <1>3, <1>4, <2>1, <3>1, CrossedIs
    <3>3. Taken(p).stream = p.stream
      BY DEF Taken, Noted
    <3> QED
      BY <2>4, <2>6, <3>2, <3>3
  <2>7. CASE f # e
    <3>1. pacer'[f] = pacer[f]
      BY <1>6, <2>7
    <3>2. p.stream # s
      BY <1>3, <1>4, <2>7, <3>1, OtherEntry
    <3>3. wire'[s] = wire[s]
      BY <1>3, <1>4, <2>1, <3>2, CrossedIs
    <3> QED
      BY <2>3, <3>1, <3>3, SpaceSame
  <2> QED
    BY <2>5, <2>6, <2>7
<1>11. p.count + p.flight \in Nat
  BY <1>4, DepthType DEF Pacing
<1> QED
  BY <1>8, <1>9, <1>10, <1>11, DepthType

LEMMA SpacePasses ==
  ASSUME PacerType, PacerInv, OrderInv, SpaceInv, NEW s \in Stream, NEW n \in Nat,
         drain' = drain, Passes(s, n)
  PROVE  SpaceInv'
<1> SUFFICES ASSUME NEW e \in Entry, NEW t \in Stream,
                    pacer'[e].stream = t, ~wire'[t].crossed
             PROVE  EntrySpace(e)'
  BY DEF SpaceInv
<1>1. /\ pacer'[e].max = pacer[e].max /\ pacer'[e].sent = pacer[e].sent
      /\ pacer'[e].interval = pacer[e].interval
      /\ pacer'[e].flight = pacer[e].flight /\ pacer[e].stream = t
  <2>1. pacer[e] \in Pacing
    BY DEF PacerType
  <2>2. pacer'[e] \in {pacer[e], [pacer[e] EXCEPT !.slots = TRUE]}
    BY DEF Passes
  <2> QED
    BY <2>1, <2>2 DEF Pacing
<1>2. PacedOut(e)' = PacedOut(e)
  BY DEF Passes, PacedOut
<1>3. PICK f \in Frame : f = [n |-> n, age |-> 0, how |-> "unpaced"]
  BY DEF Frame
<1>4. PICK c \in BOOLEAN :
        /\ wire' = [wire EXCEPT ![s] = [recent |-> Append(wire[s].recent, f),
                                        crossed |-> c]]
        /\ c = (wire[s].crossed \/ \E d \in Of(s) : ~Clear(pacer[d]))
  BY <1>3 DEF Passes
<1>5. Append(wire[s].recent, f) \in Seq(Frame)
  BY DEF PacerType
<1>6. /\ wire'[s].recent = Append(wire[s].recent, f) /\ wire'[s].crossed = c
      /\ \A u \in Stream \ {s} : wire'[u] = wire[u]
  BY <1>4, <1>5, WireIs
<1>7. CASE t # s
  BY <1>1, <1>2, <1>6, <1>7, SpaceSame
<1>8. CASE t = s
  <2>1. ~wire[s].crossed
    BY <1>4, <1>6, <1>8
  <2>2. /\ pacer[e] \in Pacing /\ Len(pacer[e].sent) = pacer[e].max
        /\ wire[s].recent \in Seq(Frame)
        /\ Spaced(pacer[e], wire[s].recent, PacedOut(e))
    BY <1>1, <1>8, <2>1, OneOut
  <2>3. f.age = 0 /\ f.how = "unpaced"
    BY <1>3
  <2>4. Spaced(pacer'[e], Append(wire[s].recent, f), PacedOut(e))
    BY <1>1, <2>2, <2>3, SpacedUnpaced
  <2> QED
    BY <1>2, <1>6, <1>8, <2>4 DEF EntrySpace
<1> QED
  BY <1>7, <1>8

\* A frame is to be queued; another MaxIntervalFrames starts the history anew,
\* and an entry that was another stream's has none.
LEMMA SpaceQueues ==
  ASSUME PacerType, PacerInv, OrderInv, SpaceInv, PacerType', PacerInv',
         NEW s \in Stream, NEW n \in Nat, drain' = drain,
         NEW e \in Entry, NEW p \in Pacing, Usable(s, e, p), Queues(s, n, e, p)
  PROVE  SpaceInv'
<1> SUFFICES ASSUME NEW f \in Entry, NEW t \in Stream,
                    pacer'[f].stream = t, ~wire'[t].crossed
             PROVE  EntrySpace(f)'
  BY DEF SpaceInv
<1>1. PICK max \in Nat \ {0} : max = talker[s].tspec
  BY DEF Usable
<1>2. /\ Used(p, s).stream = s /\ Used(p, s).max = max
      /\ Used(p, s).flight = p.flight /\ Used(p, s).interval = Interval[s]
      /\ p.max = max => Used(p, s).sent = p.sent
  BY <1>1, UsedIs DEF Usable
<1>3. pacer'[e] = Used(p, s) /\ \A d \in Entry \ {e} : pacer'[d] = pacer[d]
  BY DEF Queues, PacerType
<1>4. rx'.at = "queue"
  BY DEF Queues
<1>5. PacedOut(f)' => PacedOut(f)
  BY <1>4 DEF PacedOut
<1>6. CASE f = e /\ p.max = max
  <2>1. ~(p = Reset(pacer[e], s))
    <3>1. pacer[e] \in Pacing
      BY DEF PacerType
    <3> QED
      BY <1>1, <1>6, <3>1, ResetIs
  <2>2. p = pacer[e] /\ pacer[e].stream = s /\ t = s
    BY <1>2, <1>3, <1>6, <2>1 DEF Usable, Of
  <2>3. wire' = wire
    BY <1>1, <1>6 DEF Queues
  <2>4. ~wire[s].crossed /\ pacer[e].interval = Interval[s]
    BY <2>2, <2>3, OneOut
  <2> QED
    BY <1>2, <1>3, <1>5, <1>6, <2>2, <2>3, <2>4, SpaceSame
<1>7. CASE f = e /\ p.max # max
  <2>1. PICK c \in BOOLEAN : c = (wire[s].crossed \/ p.flight > 0)
    BY DEF PacerType
  <2>2. wire' = [wire EXCEPT ![s] = [recent |-> << >>, crossed |-> c]]
    BY <1>1, <1>7, <2>1 DEF Queues
  <2>3. << >> \in Seq(Frame)
    OBVIOUS
  <2>4. wire'[s].recent = << >> /\ wire'[s].crossed = c
    BY <2>2, <2>3, WireIs
  <2>5. t = s /\ p.flight = 0
    <3>1. t = s
      BY <1>2, <1>3, <1>7
    <3>2. ~(p.flight > 0) /\ p.flight \in Nat
      BY <2>1, <2>4, <3>1 DEF Pacing
    <3> QED
      BY <3>1, <3>2
  <2>6. pacer'[e].flight = 0 /\ pacer'[e].max \in Nat
    BY <1>2, <1>3, <2>5
  <2>7. PacedOut(e)' = FALSE /\ Spaced(pacer'[e], << >>, FALSE)
    BY <2>6, NoneOut, SpacedFresh
  <2> QED
    BY <1>7, <2>4, <2>5, <2>7 DEF EntrySpace
<1>8. CASE f # e
  <2>1. pacer'[f] = pacer[f]
    BY <1>3, <1>8
  <2>2. t # s
    BY <1>8, <2>1 DEF Usable, Of
  <2>3. wire'[t] = wire[t]
    BY <2>2 DEF Queues, PacerType
  <2> QED
    BY <1>5, <2>1, <2>3, SpaceSame
<1> QED
  BY <1>6, <1>7, <1>8

LEMMA SpaceForward ==
  ASSUME PacerType, PacerInv, OrderInv, SpaceInv, PacerType', PacerInv',
         NEW s \in Stream, Forward(s)
  PROVE  SpaceInv'
<1>1. PICK n \in Nat :
        /\ drain' = drain
        /\ \/ Passes(s, n)
           \/ \E e \in Entry, p \in Pacing : Usable(s, e, p) /\ Queues(s, n, e, p)
  BY ForwardIs
<1> QED
  BY <1>1, SpacePasses, SpaceQueues

LEMMA SpaceStep ==
  PacerType /\ PacerInv /\ OrderInv /\ SpaceInv /\ [Next]_vars => SpaceInv'
<1> SUFFICES ASSUME PacerType, PacerInv, OrderInv, SpaceInv, [Next]_vars
             PROVE  SpaceInv'
  OBVIOUS
<1>1. PacerType' /\ PacerInv'
  BY PacerStep
<1>2. CASE UNCHANGED vars
  <2>1. UNCHANGED <<pacer, rx, drain, wire>>
    BY <1>2 DEF vars
  <2>2. \A e \in Entry : PacedOut(e)' => PacedOut(e)
    BY <2>1 DEF PacedOut
  <2> QED
    BY <2>1, <2>2, SpaceQuiet
<1>3. CASE Next
  BY <1>1, <1>3, SpaceForward, SpaceDeclare, SpacePlace, SpaceSendHead, SpaceSendNow,
     SpaceWake, SpaceTick, SpaceTake, SpaceSend, SpaceArm DEF Next
<1> QED
  BY <1>2, <1>3

\* What is counted before the i-th frame is what left in the interval before it.
LEMMA SpacedSpacing ==
  PacerType /\ PacerInv /\ SpaceInv => Spacing
<1> SUFFICES ASSUME PacerType, PacerInv, SpaceInv, NEW e \in Entry,
                    pacer[e].stream # None, ~wire[pacer[e].stream].crossed,
                    NEW r, r = wire[pacer[e].stream].recent, NEW i \in DOMAIN r,
                    r[i].how = "paced", r[i].age = 0
             PROVE  Cardinality({j \in 1..i - 1 : /\ r[j].age < pacer[e].interval
                                                  /\ r[j].how # "unpaced"})
                      < pacer[e].max
  BY DEF Spacing
<1>1. pacer[e] \in Pacing /\ pacer[e].stream \in Stream /\ r \in Seq(Frame)
  BY DEF PacerType, Pacing
<1>2. PICK max \in Nat : max = pacer[e].interval
  BY <1>1 DEF Pacing
<1>3. i \in 1..Len(r) /\ Len(r) \in Nat /\ \A j \in 1..Len(r) : r[j].age \in Nat
  <2>1. DOMAIN r = 1..Len(r) /\ Len(r) \in Nat /\ \A j \in 1..Len(r) : r[j] \in Frame
    BY <1>1
  <2>2. \A f \in Frame : f.age \in Nat
    BY DEF Frame
  <2> QED
    BY <2>1, <2>2
<1>4. {j \in 1..i - 1 : r[j].age < max /\ r[j].how # "unpaced"}
        = {j \in Late(r, max - 1) : j < i}
  <2>0. DOMAIN r = 1..Len(r)
    BY <1>1
  <2>1. ASSUME NEW j \in 1..i - 1
        PROVE  j \in DOMAIN r /\ (r[j].age < max <=> r[j].age <= max - 1)
    <3>1. j \in 1..Len(r)
      BY <1>3
    <3>2. r[j].age \in Nat
      BY <1>3, <3>1
    <3>3. r[j].age < max <=> r[j].age <= max - 1
      BY <1>2, <3>2
    <3> QED
      BY <2>0, <3>1, <3>3
  <2>2. ASSUME NEW j \in DOMAIN r PROVE j < i <=> j \in 1..i - 1
    <3>1. j \in Nat /\ 1 <= j /\ i \in Nat
      BY <2>0, <1>3
    <3> QED
      BY <3>1
  <2> QED
    BY <2>1, <2>2 DEF Late
<1>5. Cardinality({j \in Late(r, max - 1) : j < i}) < pacer[e].max
  BY <1>1, <1>2 DEF SpaceInv, EntrySpace, Spaced
<1> QED
  BY <1>2, <1>4, <1>5

\* A paced frame leaves when fewer than MaxIntervalFrames left in the interval
\* before it, whatever the ticks between the sends and the frames a full queue
\* let go early (station_pacer_note_send, station_pacer_next_ns).
THEOREM SpacingKept == Spec => []Spacing
BY PacerInit, PacerStep, OrderInit, OrderStep, SpaceInit, SpaceStep, SpacedSpacing,
   PTL DEF Spec

(***************************************************************************)
(* The alarm.                                                              *)
(***************************************************************************)
LEMMA GreatestNumber ==
  ASSUME NEW T \in SUBSET Nat, IsFiniteSet(T), T # {}
  PROVE  \E n \in T : \A m \in T : m <= n
<1>1. PICK n \in Nat : ExistsBijection(1..n, T)
  BY FS_CardinalityType
<1>2. PICK f \in [1..n -> T] : \A m \in T : \E i \in 1..n : f[i] = m
  BY <1>1 DEF ExistsBijection, Bijection, Surjection, Injection
<1> DEFINE Top(k) == \E b \in T : \A i \in 1..k : f[i] <= b
           U == {k \in 0..n : ~Top(k)}
<1>3. Top(0)
  <2>1. PICK b \in T : TRUE
    OBVIOUS
  <2>2. 1..0 = {}
    OBVIOUS
  <2> QED
    BY <2>1, <2>2
<1>4. ASSUME NEW u \in 1..n, Top(u - 1)
      PROVE  Top(u)
  <2>1. PICK b \in T : \A i \in 1..u - 1 : f[i] <= b
    BY <1>4
  <2>2. f[u] \in T /\ f[u] \in Nat /\ b \in Nat
    OBVIOUS
  <2>3. PICK c \in T : b <= c /\ f[u] <= c
    BY <2>2
  <2>4. ASSUME NEW i \in 1..u PROVE f[i] <= c
    <3>1. i \in 1..n
      <4>1. i \in Nat /\ 1 <= i /\ i <= u /\ u \in Nat /\ u <= n /\ n \in Nat
        OBVIOUS
      <4> QED
        BY <4>1
    <3>2. f[i] \in T
      BY <3>1
    <3>3. f[i] \in Nat /\ c \in Nat
      BY <3>2
    <3>4. CASE i = u
      BY <2>3, <3>4
    <3>5. CASE i # u
      <4>1. f[i] <= b
        BY <2>1, <3>5
      <4> QED
        BY <2>2, <2>3, <3>3, <4>1
    <3> QED
      BY <3>4, <3>5
  <2> QED
    BY <2>4
<1> HIDE DEF Top
<1>5. U = {}
  <2> SUFFICES ASSUME U # {} PROVE FALSE
    OBVIOUS
  <2>1. U \in SUBSET Nat
    OBVIOUS
  <2>2. \E u \in U : \A k \in U : u <= k
    BY <2>1, LeastNumber
  <2>3. PICK u \in 0..n : ~Top(u) /\ \A k \in 0..n : ~Top(k) => u <= k
    BY <2>2
  <2>4. u \in 1..n /\ u - 1 \in 0..n /\ ~(u <= u - 1)
    BY <1>3, <2>3
  <2> QED
    BY <1>4, <2>3, <2>4
<1>6. PICK b \in T : \A i \in 1..n : f[i] <= b
  <2>1. Top(n)
    BY <1>5
  <2> QED
    BY <2>1 DEF Top
<1> QED
  BY <1>2, <1>6

LEMMA LongestIs ==
  ASSUME NEW s \in Stream
  PROVE  Longest \in Nat /\ Interval[s] \in Nat /\ Interval[s] <= Longest
<1> DEFINE T == {Interval[t] : t \in Stream}
<1>1. T \in SUBSET Nat /\ Interval[s] \in T
  BY PacerAssumption
<1>2. IsFiniteSet(T)
  <2>1. [t \in Stream |-> Interval[t]] \in Surjection(Stream, T)
    BY DEF Surjection
  <2> QED
    BY <2>1, FS_Surjection, PacerAssumption
<1> HIDE DEF T
<1>3. PICK n \in T : \A m \in T : m <= n
  BY <1>1, <1>2, GreatestNumber
<1>4. Max(T) \in T /\ \A m \in T : Max(T) >= m
  <2>1. \E x \in T : \A m \in T : x >= m
    BY <1>1, <1>3
  <2> QED
    BY <2>1 DEF Max
<1> QED
  BY <1>1, <1>4 DEF Longest, T

\* What a frame of some stream may have to wait.
Waits == {t \in Nat : \E s \in Stream : t <= Interval[s]}

TimerInv ==
  /\ timer \in [alarm : {Off} \cup Waits, notified : BOOLEAN]
  /\ \A k \in Task : drain[k].at = "arm" => drain[k].wait \in Waits

\* A task that does not arm the timer leaves it.
LEMMA TimerSame ==
  ASSUME TimerInv, timer' = timer,
         \A k \in Task : drain'[k] = drain[k] \/ drain'[k].at # "arm"
  PROVE  TimerInv'
BY DEF TimerInv

LEMMA TimerTake ==
  ASSUME PacerType, PacerInv, TimerInv, NEW k \in Task, Take(k)
  PROVE  TimerInv'
<1>1. timer' = timer /\ drain[k].at = "look" /\ drain \in [Task -> Drainings]
  BY DEF Take, PacerType
<1>2. \A j \in Task \ {k} : drain'[j] = drain[j]
  BY <1>1 DEF Take
<1>3. CASE Due = {} /\ Queued # {}
  <2> DEFINE W == {Wait(pacer[e]) : e \in Queued}
  <2>1. ASSUME NEW e \in Queued
        PROVE  Wait(pacer[e]) \in Waits
    <3>1. PICK p \in Pacing : p = pacer[e]
      BY DEF PacerType, Queued
    <3>2. p.stream \in Stream /\ EntryOk(p)
      BY <3>1, QueuedIs DEF Queued
    <3>3. p.interval = Interval[p.stream] /\ p.max > 0 /\ Len(p.sent) = p.max
      BY <3>2, PacerAssumption DEF EntryOk
    <3>4. p.interval \in Nat
      BY DEF Pacing
    <3>5. p.sent \in Seq(Nat) /\ p.sent # << >>
      BY <3>3 DEF Pacing
    <3>6. Head(p.sent) \in Nat
      BY <3>5
    <3> QED
      <4>1. Wait(p) \in Nat /\ Wait(p) <= p.interval
        BY <3>4, <3>6 DEF Wait
      <4> QED
        BY <3>1, <3>2, <3>3, <4>1 DEF Waits
  <2>2. W \in SUBSET Nat /\ W # {} /\ W \subseteq Waits
    BY <1>3, <2>1 DEF Waits
  <2>3. drain' = [drain EXCEPT ![k] = [at |-> "arm", wait |-> Min(W)]]
    BY <1>3 DEF Take
  <2> HIDE DEF W
  <2>4. \E n \in W : \A m \in W : n <= m
    BY <2>2, LeastNumber
  <2>5. Min(W) \in Waits
    BY <2>2, <2>4 DEF Min
  <2>6. drain'[k].wait \in Waits
    BY <1>1, <2>3, <2>5
  <2> QED
    BY <1>1, <1>2, <2>6 DEF TimerInv
<1>4. CASE ~(Due = {} /\ Queued # {})
  <2>1. drain'[k].at # "arm"
    BY <1>1, <1>4 DEF Take, Resting
  <2> QED
    BY <1>1, <1>2, <2>1, TimerSame
<1> QED
  BY <1>3, <1>4

\* Whatever a task does that drains next, it arms nothing yet.
LEMMA TimerDrain ==
  ASSUME PacerType, PacerInv, TimerInv, NEW k \in Task, drain[k].at = "off", Drain(k),
         timer' = timer
  PROVE  TimerInv'
<1>1. /\ \A j \in Task \ {k} : drain'[j] = drain[j]
      /\ drain'[k].at \in {"off", "look"}
  BY DrainIs
<1> QED
  BY <1>1, TimerSame

LEMMA TimerStep ==
  PacerType /\ PacerInv /\ TimerInv /\ [Next]_vars => TimerInv'
<1> SUFFICES ASSUME PacerType, PacerInv, TimerInv, [Next]_vars PROVE TimerInv'
  OBVIOUS
<1> USE DEF TimerInv
<1>1. drain \in [Task -> Drainings] /\ "rx" \in Task /\ "timer" \in Task
  BY DEF PacerType, Task
<1>2. CASE UNCHANGED vars
  BY <1>2 DEF vars
<1>3. ASSUME NEW s \in Stream, Forward(s) \/ \E max \in Tspecs : Declare(s, max)
      PROVE  TimerInv'
  <2>1. UNCHANGED <<drain, timer>>
    BY <1>3 DEF Forward, Declare
  <2> QED
    BY <2>1
<1>4. CASE Place
  <2>1. timer' = timer /\ (drain' = drain \/ Drain("rx")) /\ rx.at = "queue"
    BY <1>4 DEF Place
  <2>2. drain["rx"].at = "off"
    BY <2>1 DEF PacerInv
  <2> QED
    BY <1>1, <2>1, <2>2, TimerDrain
<1>5. CASE SendHead
  BY <1>5 DEF SendHead
<1>6. CASE SendNow
  <2>1. timer' = timer /\ Drain("rx") /\ rx.at = "send"
    BY <1>6 DEF SendNow
  <2>2. drain["rx"].at = "off"
    BY <2>1 DEF PacerInv
  <2> QED
    BY <1>1, <2>1, <2>2, TimerDrain
<1>7. CASE Wake
  <2>1. /\ drain["timer"].at = "off" /\ Drain("timer")
        /\ timer' = [timer EXCEPT !.notified = FALSE]
    BY <1>7 DEF Wake
  <2>2. /\ \A j \in Task \ {"timer"} : drain'[j] = drain[j]
        /\ drain'["timer"].at \in {"off", "look"}
    BY <1>1, <2>1, DrainIs
  <2> QED
    BY <2>1, <2>2
<1>8. CASE Tick
  <2>1. /\ drain' = drain
        /\ timer' = [alarm |-> IF timer.alarm > 1 THEN timer.alarm - 1 ELSE Off,
                     notified |-> timer.alarm = 1]
    BY <1>8 DEF Tick
  <2>2. timer.alarm > 1 => timer.alarm - 1 \in Waits
    <3> SUFFICES ASSUME timer.alarm > 1 PROVE timer.alarm - 1 \in Waits
      OBVIOUS
    <3>1. timer.alarm \in Waits
      BY DEF Off
    <3>2. PICK s \in Stream : timer.alarm <= Interval[s]
      BY <3>1 DEF Waits
    <3>3. Interval[s] \in Nat /\ timer.alarm \in Nat
      BY <3>1, PacerAssumption DEF Waits
    <3>4. timer.alarm - 1 \in Nat /\ timer.alarm - 1 <= Interval[s]
      BY <3>2, <3>3
    <3> QED
      BY <3>4 DEF Waits
  <2> QED
    BY <2>1, <2>2
<1>9. ASSUME NEW k \in Task, Take(k) \/ Send(k) \/ Arm(k)
      PROVE  TimerInv'
  <2>1. CASE Take(k)
    BY <2>1, TimerTake
  <2>2. CASE Send(k)
    <3>1. timer' = timer /\ drain' = [drain EXCEPT ![k] = [at |-> "look"]]
      BY <2>2 DEF Send
    <3> QED
      BY <1>1, <3>1
  <2>3. CASE Arm(k)
    <3>1. /\ drain[k].at = "arm" /\ timer' = [timer EXCEPT !.alarm = drain[k].wait]
          /\ drain' = [drain EXCEPT ![k] = Resting]
      BY <2>3 DEF Arm
    <3> QED
      BY <1>1, <3>1 DEF Resting
  <2> QED
    BY <1>9, <2>1, <2>2, <2>3
<1> QED
  BY <1>2, <1>3, <1>4, <1>5, <1>6, <1>7, <1>8, <1>9 DEF Next

\* No queue of the pacer holds more frames than its ring has slots, however the two
\* tasks fill and drain it, its head stays on the ring, and its send history keeps
\* the slots its reservation allows; the timer is never set further ahead than the
\* longest interval (station_pacer_forward, station_pacer_note_send,
\* station_pacer_drain).
THEOREM QueuesFit == Spec => []TypeOK
<1>1. PacerType /\ PacerInv /\ TimerInv => TypeOK
  <2> SUFFICES ASSUME PacerType, PacerInv, TimerInv PROVE TypeOK
    OBVIOUS
  <2>1. ASSUME NEW e \in Entry
        PROVE  /\ pacer[e].count \in 0..Depth /\ pacer[e].head \in 0..Depth - 1
               /\ pacer[e].flight \in 0..2 /\ Len(pacer[e].sent) = pacer[e].max
    BY QueuedIs DEF Pacing, EntryOk
  <2>2. timer.alarm \in {Off} \cup 0..Longest
    <3>1. Waits \subseteq 0..Longest
      BY LongestIs DEF Waits
    <3> QED
      BY <3>1 DEF TimerInv
  <2> QED
    BY <2>1, <2>2 DEF TypeOK
<1>2. Init => TimerInv
  BY DEF Init, TimerInv, Resting
<1> QED
  BY <1>1, <1>2, PacerInit, PacerStep, TimerStep, PTL DEF Spec
=============================================================================
