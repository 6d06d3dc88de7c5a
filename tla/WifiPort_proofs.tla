-------------------------- MODULE WifiPort_proofs --------------------------
(* What TLAPS proves of WifiPort: a frame goes to the station of its stream *)
(* although the table is rewritten while the lookup reads it; the streams   *)
(* that are admitted together fit the budget; what is declared upstream is  *)
(* what the stations declare, as far as they were admitted; and the three   *)
(* tables toward the stations agree on what is refused.                     *)
EXTENDS WifiPort, FiniteSetTheorems, SequenceTheorems, WellFoundedInduction, TLAPS

(***************************************************************************)
(* The inductive invariant.                                                *)
(***************************************************************************)
IsEntry(e) == e = [valid |-> e.valid, da |-> e.da, sta |-> e.sta]

Octets == {Octet[s] : s \in Stream}

TableForm ==
  /\ tbl = [entry |-> tbl.entry, index |-> tbl.index]
  /\ tbl.entry = [i \in Slot |-> tbl.entry[i]]
  /\ \A i \in Slot : IsEntry(tbl.entry[i])
  /\ tbl.index \in [Octets -> 0..Size]

Writing == {"off", "da", "sta", "valid"}

TaskForm ==
  \/ task.at \in Writing /\ task.i \in Slot
     /\ task = [at |-> task.at, i |-> task.i, admit |-> task.admit]
  \/ task.at \in {"idle", "refresh", "index", "admit"}

LookForm ==
  \/ look = Off
  \/ /\ look.at \in {"valid", "da", "copy"} /\ look.i \in Slot
     /\ look.torn \in BOOLEAN
     /\ look = [at |-> look.at, s |-> look.s, i |-> look.i, torn |-> look.torn]

\* A valid entry is whole, the one being written is not valid, and the one a
\* lookup is past the flag or the address of still has what the lookup saw,
\* unless a write has met it.
Whole ==
  \A i \in Slot : tbl.entry[i].valid => tbl.entry[i].sta = Hears[tbl.entry[i].da]

HiddenWhileWritten ==
  task.at \in {"da", "sta", "valid"} => ~tbl.entry[task.i].valid

SeenIsThere ==
  look.at \in {"da", "copy"} /\ ~look.torn =>
    /\ tbl.entry[look.i].valid
    /\ look.at = "copy" => tbl.entry[look.i].da = look.s

LookInv ==
  TableForm /\ TaskForm /\ LookForm /\ Whole /\ HiddenWhileWritten /\ SeenIsThere

(***************************************************************************)
(* Slots.                                                                  *)
(***************************************************************************)
\* A set of slots has a first one: the minimal-element theorem of well-founded
\* relations takes the place of induction.
LEMMA LeastSlot ==
  ASSUME NEW T \in SUBSET Nat, T # {}
  PROVE  Min(T) \in T /\ \A m \in T : Min(T) <= m
<1> DEFINE R == OpToRel(<, Nat)
<1>1. IsWellFoundedOn(R, Nat)
  BY NatLessThanWellFounded
<1>2. R = {ss \in Nat \X Nat : ss[1] < ss[2]}
  BY DEF OpToRel
<1> HIDE DEF R
<1>3. PICK n \in T : \A m \in T : ~(<<m, n>> \in R)
  BY <1>1, WFMin
<1>4. ASSUME NEW m \in T PROVE n <= m
  <2>1. ~(m < n)
    BY <1>2, <1>3
  <2> QED
    BY <2>1
<1> QED
  BY <1>4 DEF Min

\* And a last one, if it is bounded.
LEMMA LastSlot ==
  ASSUME NEW N \in Nat, NEW T \in SUBSET (0..N), T # {}
  PROVE  Max(T) \in T
<1> DEFINE B == {n \in 0..N : \A m \in T : m <= n}
<1>1. N \in B /\ B \in SUBSET Nat /\ B # {}
  OBVIOUS
<1>2. Min(B) \in B /\ \A n \in B : Min(B) <= n
  BY <1>1, LeastSlot
<1> DEFINE n == Min(B)
<1>3. n \in 0..N /\ \A m \in T : m <= n
  BY <1>2
<1>4. n \in T
  <2>1. SUFFICES ASSUME n \notin T PROVE FALSE
    OBVIOUS
  <2>2. \A m \in T : m <= n - 1 /\ m >= 0
    BY <1>3, <2>1
  <2>3. n - 1 \in 0..N
    <3>1. PICK m \in T : m \in 0..N /\ m <= n - 1
      BY <2>2
    <3> HIDE DEF n
    <3> QED
      BY <1>3, <3>1
  <2>4. n - 1 \in B
    BY <2>2, <2>3
  <2> QED
    BY <1>2, <1>3, <2>4
<1>5. \E x \in T : \A y \in T : x >= y
  BY <1>3, <1>4
<1> QED
  BY <1>5 DEF Max

\* What the refresh puts into the index is a slot or nothing.
LEMMA NextIndexType ==
  ASSUME TableForm PROVE NextIndex \in [Octets -> 0..Size]
<1>1. Size \in Nat /\ DOMAIN tbl.index = Octets
  BY WifiPortAssumption DEF TableForm
<1>2. ASSUME NEW o \in Octets
      PROVE  Max({0} \cup {i \in Slot \cap DOMAIN Served : Octet[Served[i]] = o}) \in 0..Size
  <2> DEFINE T == {0} \cup {i \in Slot \cap DOMAIN Served : Octet[Served[i]] = o}
  <2>1. T \in SUBSET (0..Size) /\ T # {}
    BY <1>1 DEF Slot
  <2> HIDE DEF T
  <2>2. Max(T) \in T
    BY <1>1, <2>1, LastSlot
  <2> QED
    BY <2>1, <2>2 DEF T
<1> QED
  BY <1>1, <1>2 DEF NextIndex

\* A new entry is whole.
LEMMA NextEntryWhole ==
  ASSUME NEW i
  PROVE  /\ IsEntry(NextEntry(i)) /\ NextEntry(i).valid \in BOOLEAN
         /\ NextEntry(i).valid => NextEntry(i).sta = Hears[NextEntry(i).da]
<1> DEFINE yes == TRUE
           no == FALSE
           full == [valid |-> yes, da |-> Served[i], sta |-> Hears[Served[i]]]
           none == [valid |-> no, da |-> None, sta |-> None]
<1>1. NextEntry(i) = IF i \in DOMAIN Served THEN full ELSE none
  BY DEF NextEntry, Empty
<1> HIDE DEF yes, no
<1>2. IsEntry(full) /\ full.valid = yes /\ full.sta = Hears[full.da]
  BY DEF IsEntry
<1>3. IsEntry(none) /\ none.valid = no
  BY DEF IsEntry
<1> HIDE DEF full, none
<1>4. CASE i \in DOMAIN Served
  BY <1>1, <1>2, <1>4 DEF yes
<1>5. CASE i \notin DOMAIN Served
  BY <1>1, <1>3, <1>5 DEF no
<1> QED
  BY <1>4, <1>5

\* After one entry the task is at the next, or done with them.
LEMMA AfterForm ==
  ASSUME NEW i
  PROVE  \/ After(i).at = "off" /\ After(i).i \in Slot
            /\ After(i) = [at |-> After(i).at, i |-> After(i).i, admit |-> After(i).admit]
         \/ After(i).at \in {"idle", "index", "admit"}
<1> DEFINE left == {j \in Slot : j > i /\ tbl.entry[j] # NextEntry(j)}
<1>1. CASE left # {}
  <2>1. left \in SUBSET Nat
    BY WifiPortAssumption DEF Slot
  <2>2. Min(left) \in Slot
    BY <1>1, <2>1, LeastSlot
  <2>3. After(i) = [at |-> "off", i |-> Min(left), admit |-> task.admit]
    BY <1>1 DEF After
  <2> QED
    BY <2>2, <2>3
<1>2. CASE left = {}
  BY <1>2 DEF After, Idle
<1> QED
  BY <1>1, <1>2

(***************************************************************************)
(* The steps.                                                              *)
(***************************************************************************)
LEMMA LookInit == Init => LookInv
<1> SUFFICES ASSUME Init PROVE LookInv
  OBVIOUS
<1> DEFINE no == FALSE
<1>1. Size \in Nat
  BY WifiPortAssumption
<1>2. /\ tbl = [entry |-> [i \in Slot |-> Empty], index |-> [o \in Octets |-> 0]]
      /\ task = Idle /\ look = Off
  BY DEF Init, Octets
<1>3. IsEntry(Empty) /\ ~Empty.valid
  <2>1. Empty = [valid |-> no, da |-> None, sta |-> None]
    BY DEF Empty
  <2> HIDE DEF no
  <2>2. IsEntry(Empty) /\ Empty.valid = no
    BY <2>1 DEF IsEntry
  <2> QED
    BY <2>2 DEF no
<1>4. TableForm
  BY <1>1, <1>2, <1>3 DEF TableForm
<1>5. Whole
  BY <1>2, <1>3 DEF Whole
<1>6. task.at = "idle" /\ look = Off /\ look.at = "off"
  BY <1>2 DEF Idle, Off
<1> QED
  BY <1>4, <1>5, <1>6 DEF LookInv, TaskForm, LookForm, HiddenWhileWritten, SeenIsThere

\* One write of the task: the lookup that is at the entry is torn, and any
\* other sees what it saw.
LEMMA PutSafe ==
  ASSUME LookInv, task.i \in Slot, NEW e, IsEntry(e), e.valid => e.sta = Hears[e.da],
         Put(e)
  PROVE  /\ TableForm' /\ LookForm' /\ Whole' /\ SeenIsThere'
         /\ tbl'.entry[task.i] = e
<1>1. /\ tbl' = [tbl EXCEPT !.entry[task.i] = e]
      /\ look' = IF look.at # "off" /\ look.i = task.i
                 THEN [look EXCEPT !.torn = TRUE] ELSE look
  BY DEF Put
<1> DEFINE entry == [tbl.entry EXCEPT ![task.i] = e]
<1>2. tbl' = [entry |-> entry, index |-> tbl.index]
  BY <1>1 DEF LookInv, TableForm
<1>3. /\ entry = [i \in Slot |-> entry[i]] /\ entry[task.i] = e
      /\ \A i \in Slot : i # task.i => entry[i] = tbl.entry[i]
  BY DEF LookInv, TableForm
<1> HIDE DEF entry
<1>4. tbl'.entry = entry /\ tbl'.index = tbl.index
  BY <1>2
<1>5. TableForm'
  BY <1>2, <1>3, <1>4 DEF LookInv, TableForm, Octets, IsEntry
<1>6. Whole'
  BY <1>3, <1>4 DEF LookInv, Whole
<1>7. CASE look = Off
  <2>1. look.at = "off"
    BY <1>7 DEF Off
  <2>2. look' = look
    BY <1>1, <2>1
  <2>3. LookForm' /\ SeenIsThere'
    BY <1>7, <2>1, <2>2 DEF LookForm, SeenIsThere
  <2> QED
    BY <1>3, <1>4, <1>5, <1>6, <2>3
<1>8. CASE look # Off
  <2>1. /\ look.at \in {"valid", "da", "copy"} /\ look.i \in Slot
        /\ look.torn \in BOOLEAN
        /\ look = [at |-> look.at, s |-> look.s, i |-> look.i, torn |-> look.torn]
    BY <1>8 DEF LookInv, LookForm
  <2>2. CASE look.i = task.i
    <3> DEFINE yes == TRUE
    <3>1. look' = [look EXCEPT !.torn = yes]
      BY <1>1, <2>1, <2>2
    <3>2. yes \in BOOLEAN
      OBVIOUS
    <3> HIDE DEF yes
    <3>3. /\ look'.at = look.at /\ look'.i = look.i /\ look'.torn = yes
          /\ look' = [at |-> look'.at, s |-> look'.s, i |-> look'.i, torn |-> look'.torn]
      BY <2>1, <3>1
    <3>4. look'.torn
      BY <3>3 DEF yes
    <3>5. LookForm' /\ SeenIsThere'
      BY <2>1, <3>2, <3>3, <3>4 DEF LookForm, SeenIsThere
    <3> QED
      BY <1>3, <1>4, <1>5, <1>6, <3>5
  <2>3. CASE look.i # task.i
    <3>1. look' = look
      BY <1>1, <2>3
    <3>2. tbl'.entry[look.i] = tbl.entry[look.i]
      BY <1>3, <1>4, <2>1, <2>3
    <3>3. LookForm'
      BY <3>1 DEF LookInv, LookForm
    <3>4. SeenIsThere'
      BY <3>1, <3>2 DEF LookInv, SeenIsThere
    <3> QED
      BY <1>3, <1>4, <1>5, <1>6, <3>3, <3>4
  <2> QED
    BY <2>2, <2>3
<1> QED
  BY <1>7, <1>8

\* The task goes on to the next field of the same entry.
LEMMA NextField ==
  ASSUME TaskForm, task.at \in Writing, NEW at \in Writing, task' = [task EXCEPT !.at = at]
  PROVE  TaskForm' /\ task'.i = task.i /\ task'.at = at /\ task.i \in Slot
<1>1. task.i \in Slot /\ task = [at |-> task.at, i |-> task.i, admit |-> task.admit]
  BY DEF TaskForm, Writing
<1>2. /\ task'.i = task.i /\ task'.at = at
      /\ task' = [at |-> task'.at, i |-> task'.i, admit |-> task'.admit]
  BY <1>1
<1> QED
  BY <1>1, <1>2 DEF TaskForm

LEMMA InvalidateSafe == LookInv /\ Invalidate => LookInv'
<1> SUFFICES ASSUME LookInv, Invalidate PROVE LookInv'
  OBVIOUS
<1> DEFINE no == FALSE
           old == tbl.entry[task.i]
           e == [old EXCEPT !.valid = no]
<1>1. task.at = "off" /\ Put(e) /\ task' = [task EXCEPT !.at = "da"]
  BY DEF Invalidate
<1>2. TaskForm' /\ task'.i = task.i /\ task'.at = "da" /\ task.i \in Slot
  BY <1>1, NextField DEF LookInv, Writing
<1>3. IsEntry(old)
  BY <1>2 DEF LookInv, TableForm
<1> HIDE DEF no, old
<1>4. IsEntry(e) /\ e.valid = no
  BY <1>3 DEF IsEntry
<1> HIDE DEF e
<1>5. ~e.valid
  BY <1>4 DEF no
<1>6. TableForm' /\ LookForm' /\ Whole' /\ SeenIsThere' /\ tbl'.entry[task.i] = e
  BY <1>1, <1>2, <1>4, <1>5, PutSafe
<1> QED
  BY <1>2, <1>5, <1>6 DEF LookInv, HiddenWhileWritten

LEMMA WriteFieldSafe == LookInv /\ (WriteDa \/ WriteSta) => LookInv'
<1>1. ASSUME LookInv, WriteDa PROVE LookInv'
  <2> DEFINE old == tbl.entry[task.i]
             e == [old EXCEPT !.da = NextEntry(task.i).da]
  <2>1. task.at = "da" /\ Put(e) /\ task' = [task EXCEPT !.at = "sta"]
    BY <1>1 DEF WriteDa
  <2>2. TaskForm' /\ task'.i = task.i /\ task'.at = "sta" /\ task.i \in Slot
    BY <1>1, <2>1, NextField DEF LookInv, Writing
  <2>3. IsEntry(old) /\ ~old.valid
    BY <1>1, <2>1, <2>2 DEF LookInv, TableForm, HiddenWhileWritten
  <2> HIDE DEF old
  <2>4. IsEntry(e) /\ e.valid = old.valid
    BY <2>3 DEF IsEntry
  <2> HIDE DEF e
  <2>5. TableForm' /\ LookForm' /\ Whole' /\ SeenIsThere' /\ tbl'.entry[task.i] = e
    BY <1>1, <2>1, <2>2, <2>3, <2>4, PutSafe
  <2> QED
    BY <2>2, <2>3, <2>4, <2>5 DEF LookInv, HiddenWhileWritten
<1>2. ASSUME LookInv, WriteSta PROVE LookInv'
  <2> DEFINE old == tbl.entry[task.i]
             e == [old EXCEPT !.sta = NextEntry(task.i).sta]
  <2>1. task.at = "sta" /\ Put(e) /\ task' = [task EXCEPT !.at = "valid"]
    BY <1>2 DEF WriteSta
  <2>2. TaskForm' /\ task'.i = task.i /\ task'.at = "valid" /\ task.i \in Slot
    BY <1>2, <2>1, NextField DEF LookInv, Writing
  <2>3. IsEntry(old) /\ ~old.valid
    BY <1>2, <2>1, <2>2 DEF LookInv, TableForm, HiddenWhileWritten
  <2> HIDE DEF old
  <2>4. IsEntry(e) /\ e.valid = old.valid
    BY <2>3 DEF IsEntry
  <2> HIDE DEF e
  <2>5. TableForm' /\ LookForm' /\ Whole' /\ SeenIsThere' /\ tbl'.entry[task.i] = e
    BY <1>2, <2>1, <2>2, <2>3, <2>4, PutSafe
  <2> QED
    BY <2>2, <2>3, <2>4, <2>5 DEF LookInv, HiddenWhileWritten
<1> QED
  BY <1>1, <1>2

LEMMA ValidateSafe == LookInv /\ Validate => LookInv'
<1> SUFFICES ASSUME LookInv, Validate PROVE LookInv'
  OBVIOUS
<1> DEFINE e == NextEntry(task.i)
<1>1. task.at = "valid" /\ Put(e) /\ task' = After(task.i)
  BY DEF Validate
<1>2. task.i \in Slot
  BY <1>1 DEF LookInv, TaskForm, Writing
<1>3. IsEntry(e) /\ (e.valid => e.sta = Hears[e.da])
  BY NextEntryWhole
<1> HIDE DEF e
<1>4. TableForm' /\ LookForm' /\ Whole' /\ SeenIsThere'
  BY <1>1, <1>2, <1>3, PutSafe
<1>5. \/ task'.at = "off" /\ task'.i \in Slot
            /\ task' = [at |-> task'.at, i |-> task'.i, admit |-> task'.admit]
      \/ task'.at \in {"idle", "index", "admit"}
  BY <1>1, AfterForm
<1>6. TaskForm' /\ HiddenWhileWritten'
  BY <1>5 DEF TaskForm, HiddenWhileWritten, Writing
<1> QED
  BY <1>4, <1>6 DEF LookInv

LEMMA WriteIndexSafe == LookInv /\ WriteIndex => LookInv'
<1> SUFFICES ASSUME LookInv, WriteIndex PROVE LookInv'
  OBVIOUS
<1>1. /\ tbl' = [tbl EXCEPT !.index = NextIndex] /\ look' = look
      /\ task' = [at |-> "admit"] \/ task' = Idle
  BY DEF WriteIndex
<1>2. NextIndex \in [Octets -> 0..Size]
  BY NextIndexType DEF LookInv
<1>3. tbl' = [entry |-> tbl.entry, index |-> NextIndex]
  BY <1>1 DEF LookInv, TableForm
<1>4. tbl'.entry = tbl.entry /\ tbl'.index = NextIndex
  BY <1>3
<1>5. TableForm'
  BY <1>2, <1>3, <1>4 DEF LookInv, TableForm, Octets, IsEntry
<1>6. Whole' /\ LookForm' /\ SeenIsThere'
  BY <1>1, <1>4 DEF LookInv, Whole, LookForm, SeenIsThere
<1>7. task'.at \in {"idle", "admit"}
  BY <1>1 DEF Idle
<1> QED
  BY <1>5, <1>6, <1>7 DEF LookInv, TaskForm, HiddenWhileWritten

\* What the task does elsewhere leaves table and lookup alone.
LEMMA ElsewhereSafe ==
  ASSUME LookInv, tbl' = tbl, look' = look, TaskForm', HiddenWhileWritten'
  PROVE  LookInv'
BY DEF LookInv, TableForm, LookForm, Whole, SeenIsThere, Octets, IsEntry

\* The lookup reads the flag, then the address, then the station.
LEMMA LookSafe ==
  LookInv /\ (LookValid \/ LookDa \/ Address \/ \E s \in Stream : Lookup(s)) => LookInv'
<1> SUFFICES ASSUME LookInv, UNCHANGED <<tbl, task>>,
                    LookValid \/ LookDa \/ Address \/ \E s \in Stream : Lookup(s)
             PROVE  LookInv'
  BY DEF LookValid, LookDa, Address, Lookup
<1>1. ASSUME LookForm', SeenIsThere' PROVE LookInv'
  BY <1>1 DEF LookInv, TableForm, Whole, TaskForm, HiddenWhileWritten, Octets, IsEntry,
              Writing
<1>2. CASE look' = Off
  <2>1. look'.at = "off"
    BY <1>2 DEF Off
  <2> QED
    BY <1>1, <1>2, <2>1 DEF LookForm, SeenIsThere
<1>3. ASSUME look' # Off, NEW at \in {"da", "copy"}, look.at \in {"valid", "da"},
             look' = [look EXCEPT !.at = at], tbl.entry[look.i].valid \/ look.torn,
             at = "copy" => tbl.entry[look.i].da = look.s
      PROVE  LookInv'
  <2>1. look # Off
    BY <1>3 DEF Off
  <2>2. /\ look.i \in Slot /\ look.torn \in BOOLEAN
        /\ look = [at |-> look.at, s |-> look.s, i |-> look.i, torn |-> look.torn]
    BY <2>1 DEF LookInv, LookForm
  <2>3. /\ look'.at = at /\ look'.i = look.i /\ look'.s = look.s
        /\ look' = [at |-> look'.at, s |-> look'.s, i |-> look'.i, torn |-> look'.torn]
    BY <1>3, <2>2
  <2>4. look'.torn = look.torn
    BY <1>3, <2>2
  <2>5. LookForm'
    BY <2>2, <2>3, <2>4 DEF LookForm
  <2>6. SeenIsThere'
    BY <1>3, <2>3, <2>4 DEF SeenIsThere
  <2> QED
    BY <1>1, <2>5, <2>6
<1>4. CASE LookValid
  BY <1>2, <1>3, <1>4 DEF LookValid
<1>5. CASE LookDa
  <2>1. look.at = "da" /\ (tbl.entry[look.i].valid \/ look.torn)
    <3>1. look.at = "da"
      BY <1>5 DEF LookDa
    <3> QED
      BY <3>1 DEF LookInv, SeenIsThere
  <2> QED
    BY <1>2, <1>3, <1>5, <2>1 DEF LookDa
<1>6. CASE Address
  BY <1>2, <1>6 DEF Address
<1>7. ASSUME NEW s \in Stream, Lookup(s) PROVE LookInv'
  <2> DEFINE i == tbl.index[Octet[s]]
             no == FALSE
  <2>1. i # 0 /\ look' = [at |-> "valid", s |-> s, i |-> i, torn |-> no]
    BY <1>7 DEF Lookup
  <2>2. Size \in Nat /\ i \in 0..Size
    BY WifiPortAssumption DEF LookInv, TableForm, Octets
  <2>3. no \in BOOLEAN /\ i \in Slot
    BY <2>1, <2>2 DEF Slot
  <2> HIDE DEF no, i
  <2>4. LookForm' /\ SeenIsThere'
    BY <2>1, <2>3 DEF LookForm, SeenIsThere
  <2> QED
    BY <1>1, <2>4
<1> QED
  BY <1>4, <1>5, <1>6, <1>7

LEMMA LookStep == LookInv /\ [Next]_vars => LookInv'
<1> SUFFICES ASSUME LookInv, [Next]_vars PROVE LookInv'
  OBVIOUS
<1>0. ASSUME tbl' = tbl, look' = look, task' = task PROVE LookInv'
  <2>1. TaskForm' /\ HiddenWhileWritten'
    BY <1>0 DEF LookInv, TaskForm, HiddenWhileWritten, Writing
  <2> QED
    BY <1>0, <2>1, ElsewhereSafe
<1>1. CASE UNCHANGED vars
  BY <1>0, <1>1 DEF vars
<1>2. ASSUME NEW s \in Stream, NEW ev, NEW v \in Value, RxTalker(s, v, ev) PROVE LookInv'
  <2>1. tbl' = tbl /\ look' = look /\ task'.at = "refresh"
    BY <1>2 DEF RxTalker, Refreshing
  <2> QED
    BY <2>1, ElsewhereSafe DEF TaskForm, HiddenWhileWritten
<1>3. ASSUME NEW s \in Stream, NEW ev, NEW d \in Says[s], RxListener(s, d, ev)
      PROVE  LookInv'
  <2>1. tbl' = tbl /\ look' = look /\ task'.at = "refresh"
    BY <1>3 DEF RxListener, Refreshing
  <2> QED
    BY <2>1, ElsewhereSafe DEF TaskForm, HiddenWhileWritten
<1>4. ASSUME NEW s \in Stream, TalkerLeaves(s) \/ ListenerLeaves(s) PROVE LookInv'
  BY <1>0, <1>4 DEF TalkerLeaves, ListenerLeaves
<1>5. CASE RxTalkerLeaveAll \/ RxListenerLeaveAll \/ JoinTimer
  BY <1>0, <1>5 DEF RxTalkerLeaveAll, RxListenerLeaveAll, JoinTimer
<1>6. CASE Update
  <2>1. tbl' = tbl /\ look' = look /\ task'.at \in {"refresh", "idle"}
    BY <1>6 DEF Update, Refreshing, Idle
  <2> QED
    BY <2>1, ElsewhereSafe DEF TaskForm, HiddenWhileWritten
<1>7. CASE Refresh
  <2>1. tbl' = tbl /\ look' = look /\ task' = After(0)
    BY <1>7 DEF Refresh
  <2>2. \/ task'.at = "off" /\ task'.i \in Slot
             /\ task' = [at |-> task'.at, i |-> task'.i, admit |-> task'.admit]
        \/ task'.at \in {"idle", "index", "admit"}
    BY <2>1, AfterForm
  <2>3. TaskForm' /\ HiddenWhileWritten'
    BY <2>2 DEF TaskForm, HiddenWhileWritten, Writing
  <2> QED
    BY <2>1, <2>3, ElsewhereSafe
<1> QED
  BY <1>1, <1>2, <1>3, <1>4, <1>5, <1>6, <1>7, InvalidateSafe, WriteFieldSafe,
     ValidateSafe, WriteIndexSafe, LookSafe DEF Next

\* Whatever the AVB task writes into the table while the receive callback reads
\* it, a frame goes to the station that listens to its stream, unless the write
\* met the very entry (msrp_wifi_ucast_lookup_da, msrp_wifi_ucast_refresh).
THEOREM RightStation == Spec => []SentToListener
<1>1. LookInv => SentToListener
  <2> SUFFICES ASSUME LookInv, look.at = "copy", ~look.torn
               PROVE  tbl.entry[look.i].sta = Hears[look.s]
    BY DEF SentToListener
  <2>1. look.i \in Slot
    BY DEF LookInv, LookForm, Off
  <2> QED
    BY <2>1 DEF LookInv, Whole, SeenIsThere
<1> QED
  BY <1>1, LookInit, LookStep, PTL DEF Spec

-----------------------------------------------------------------------------
(* Folds.  The recursion behind FoldLeft and MapThenSumSet has a solution,   *)
(* found along the sizes of the sets it goes through.                        *)

Pick(S) == CHOOSE x \in S : TRUE

\* Which element each kind of fold takes next, and what it does with it.
Taken(kind, s) == IF kind = "sum" THEN Pick(s) ELSE Max(s)

Combined(kind, h, x, v) ==
  CASE kind = "sum" -> h[x].frames + v
    [] kind = "ask" -> Asked(v, h[x])
    [] kind = "serve" -> Serve(v, h[x])
    [] OTHER        -> Decide(v, h[x])

FoldStep(kind, h, base, g, s) ==
  IF s = {} THEN base
  ELSE Combined(kind, h, Taken(kind, s), g[s \ {Taken(kind, s)}])

IsFold(kind, h, base, S, g) ==
  g = [s \in SUBSET S |-> FoldStep(kind, h, base, g, s)]

\* What holds of zero and of the next number holds of all.
LEMMA Counting ==
  ASSUME NEW T, NEW N \in Nat, 0 \in T,
         \A n \in 0..N : n \in T /\ n < N => n + 1 \in T
  PROVE  \A n \in 0..N : n \in T
<1> DEFINE Bad == {n \in 0..N : n \notin T}
<1>1. Bad = {}
  <2> SUFFICES ASSUME Bad # {} PROVE FALSE
    OBVIOUS
  <2>1. Bad \in SUBSET Nat
    OBVIOUS
  <2> DEFINE m == Min(Bad)
  <2>2. m \in Bad /\ \A n \in Bad : m <= n
    BY <2>1, LeastSlot
  <2> HIDE DEF m
  <2>3. m \in 0..N /\ m # 0 /\ m \notin T
    BY <2>2
  <2>4. m - 1 \in 0..N /\ m - 1 < N /\ m - 1 \notin Bad /\ (m - 1) + 1 = m
    BY <2>2, <2>3
  <2> QED
    BY <2>3, <2>4
<1> QED
  BY <1>1

\* One element less.
LEMMA Smaller ==
  ASSUME NEW S, IsFiniteSet(S), NEW x \in S
  PROVE  /\ IsFiniteSet(S \ {x}) /\ Cardinality(S) \in Nat
         /\ Cardinality(S \ {x}) = Cardinality(S) - 1
         /\ Cardinality(S \ {x}) \in Nat
<1>1. /\ IsFiniteSet(S \ {x}) /\ Cardinality(S) \in Nat
      /\ Cardinality(S \ {x}) = Cardinality(S) - 1
  BY FS_RemoveElement, FS_CardinalityType
<1>2. Cardinality(S \ {x}) \in Nat
  BY <1>1, FS_CardinalityType
<1> QED
  BY <1>1, <1>2

LEMMA FoldExists ==
  ASSUME NEW kind, NEW h, NEW base, NEW S, IsFiniteSet(S),
         \A s \in SUBSET S : s # {} => Taken(kind, s) \in s
  PROVE  \E g : IsFold(kind, h, base, S, g)
<1> DEFINE D(n) == {s \in SUBSET S : Cardinality(s) <= n}
           Solved(n) == \E g : g = [s \in D(n) |-> FoldStep(kind, h, base, g, s)]
           T == {n \in Nat : Solved(n)}
<1>1. \A s \in SUBSET S : IsFiniteSet(s) /\ Cardinality(s) \in Nat
  BY FS_Subset, FS_CardinalityType
<1>2. Solved(0)
  <2> DEFINE g == [s \in D(0) |-> base]
  <2>1. \A s \in D(0) : s = {}
    BY <1>1, FS_EmptySet
  <2>2. \A s \in D(0) : FoldStep(kind, h, base, g, s) = base
    BY <2>1 DEF FoldStep
  <2>3. g = [s \in D(0) |-> FoldStep(kind, h, base, g, s)]
    BY <2>2
  <2> HIDE DEF g
  <2> QED
    BY <2>3
<1>3. ASSUME NEW n \in Nat, Solved(n) PROVE Solved(n + 1)
  <2>1. PICK g : g = [s \in D(n) |-> FoldStep(kind, h, base, g, s)]
    BY <1>3
  <2> DEFINE k == [s \in D(n + 1) |-> IF s \in D(n) THEN g[s]
                                       ELSE FoldStep(kind, h, base, g, s)]
  <2>2. ASSUME NEW s \in D(n + 1), s # {}
        PROVE  s \ {Taken(kind, s)} \in D(n) /\ s \ {Taken(kind, s)} \in D(n + 1)
    <3> DEFINE x == Taken(kind, s)
    <3>1. x \in s /\ IsFiniteSet(s)
      BY <1>1, <2>2
    <3> HIDE DEF x
    <3>2. Cardinality(s \ {x}) = Cardinality(s) - 1 /\ Cardinality(s) \in Nat
      BY <3>1, Smaller
    <3> QED
      BY <2>2, <3>2 DEF x
  <2>3. ASSUME NEW s \in D(n + 1) PROVE k[s] = FoldStep(kind, h, base, k, s)
    <3>1. k[s] = FoldStep(kind, h, base, g, s)
      <4>1. CASE s \in D(n)
        <5>1. g[s] = FoldStep(kind, h, base, g, s)
          BY <2>1, <4>1
        <5> QED
          BY <4>1, <5>1
      <4>2. CASE s \notin D(n)
        BY <4>2
      <4> QED
        BY <4>1, <4>2
    <3>2. CASE s = {}
      BY <3>1, <3>2 DEF FoldStep
    <3>3. CASE s # {}
      <4> DEFINE r == s \ {Taken(kind, s)}
      <4>1. r \in D(n) /\ r \in D(n + 1)
        BY <2>2, <3>3
      <4>2. k[r] = g[r]
        BY <4>1
      <4> HIDE DEF k, D
      <4> QED
        BY <3>1, <3>3, <4>2 DEF FoldStep
    <3> QED
      BY <3>2, <3>3
  <2>4. k = [s \in D(n + 1) |-> FoldStep(kind, h, base, k, s)]
    <3>1. k = [s \in D(n + 1) |-> k[s]]
      OBVIOUS
    <3> HIDE DEF k, D
    <3> QED
      BY <2>3, <3>1
  <2> HIDE DEF k
  <2> QED
    BY <2>4
<1> HIDE DEF Solved
<1>4. Solved(Cardinality(S))
  <2> DEFINE N == Cardinality(S)
  <2>1. N \in Nat
    BY <1>1
  <2> HIDE DEF N
  <2>4. 0 \in T
    BY <1>2
  <2>5. \A n \in 0..N : n \in T /\ n < N => n + 1 \in T
    BY <1>3, <2>1
  <2> HIDE DEF T
  <2>2. \A n \in 0..N : n \in T
    BY <2>1, <2>4, <2>5, Counting
  <2> USE DEF T
  <2>3. N \in 0..N
    BY <2>1
  <2> QED
    BY <2>2, <2>3 DEF N
<1>5. D(Cardinality(S)) = SUBSET S
  BY <1>1, FS_Subset
<1> QED
  BY <1>4, <1>5 DEF Solved, IsFold

\* The three folds of the model as solutions of their recursions.
SumStep(h, g, s) == IF s = {} THEN 0 ELSE h[Pick(s)].frames + g[s \ {Pick(s)}]

AskStep(h, base, g, s) ==
  IF s = {} THEN base ELSE Asked(g[s \ {Max(s)}], h[Max(s)])

DecideStep(h, base, g, s) ==
  IF s = {} THEN base ELSE Decide(g[s \ {Max(s)}], h[Max(s)])

Sums(h, S) == CHOOSE g : g = [s \in SUBSET S |-> SumStep(h, g, s)]
Asks(h, base, S) == CHOOSE g : g = [s \in SUBSET S |-> AskStep(h, base, g, s)]
Decides(h, base, S) == CHOOSE g : g = [s \in SUBSET S |-> DecideStep(h, base, g, s)]

Frames(a, S) == MapThenSumSet(LAMBDA j : a[j].frames, S)

LEMMA FramesIsSum == \A a, S : Frames(a, S) = Sums(a, S)[S]
BY Zenon DEF Frames, Sums, SumStep, Pick, MapThenSumSet, MapThenFoldSet

AskAll(base, h) == FoldLeft(Asked, base, h)
DecideAll(base, h) == FoldLeft(Decide, base, h)

LEMMA FoldIsAsks ==
  \A base, h : AskAll(base, h) = Asks(h, base, DOMAIN h)[DOMAIN h]
BY Zenon DEF AskAll, FoldLeft, Asks, AskStep, MapThenFoldSet

LEMMA FoldIsDecides ==
  \A base, h : DecideAll(base, h) = Decides(h, base, DOMAIN h)[DOMAIN h]
BY Zenon DEF DecideAll, FoldLeft, Decides, DecideStep, MapThenFoldSet

LEMMA PickIn == \A S : S # {} => Pick(S) \in S
BY DEF Pick

\* A bounded set of numbers has a greatest one.
LEMMA Greatest ==
  ASSUME NEW n \in Nat, NEW s \in SUBSET (1..n), s # {}
  PROVE  Max(s) \in s /\ \A y \in s : Max(s) >= y
<1> DEFINE B == {m \in Nat : \A x \in s : x <= m}
           m == Min(B)
<1>1. n \in B
  OBVIOUS
<1>2. m \in B /\ \A k \in B : m <= k
  <2>1. B \in SUBSET Nat /\ B # {}
    BY <1>1
  <2> HIDE DEF B
  <2> QED
    BY <2>1, LeastSlot
<1> HIDE DEF m
<1>3. m \in Nat /\ \A x \in s : x <= m
  BY <1>2
<1>4. m \in s
  <2> SUFFICES ASSUME m \notin s PROVE FALSE
    OBVIOUS
  <2>1. PICK y \in s : TRUE
    OBVIOUS
  <2>2. \A x \in s : x <= m - 1
    BY <1>3
  <2>3. m - 1 \in Nat
    BY <2>1, <2>2, <1>3
  <2>4. m - 1 \in B
    BY <2>2, <2>3
  <2> QED
    BY <1>2, <1>3, <2>4
<1> HIDE DEF B
<1>5. \E x \in s : \A y \in s : x >= y
  BY <1>3, <1>4
<1> QED
  BY <1>5 DEF Max

LEMMA GreatestOfSegment ==
  ASSUME NEW m \in Nat, m # 0
  PROVE  Max(1..m) = m /\ (1..m) \ {m} = 1..(m - 1) /\ 1..m # {}
<1>1. m \in 1..m
  OBVIOUS
<1>2. Max(1..m) \in 1..m /\ Max(1..m) >= m
  BY <1>1, Greatest
<1> QED
  BY <1>2

LEMMA SumsUnfold ==
  ASSUME NEW h, NEW S, IsFiniteSet(S), NEW s \in SUBSET S
  PROVE  Sums(h, S)[s] = SumStep(h, Sums(h, S), s)
<1>0. \A t \in SUBSET S : t # {} => Taken("sum", t) \in t
  BY PickIn DEF Taken
<1>1. PICK f : IsFold("sum", h, 0, S, f)
  BY <1>0, FoldExists
<1>2. f = [t \in SUBSET S |-> SumStep(h, f, t)]
  BY <1>1 DEF IsFold, FoldStep, Taken, Combined, SumStep
<1> DEFINE g == Sums(h, S)
<1>3. g = [t \in SUBSET S |-> SumStep(h, g, t)]
  BY <1>2 DEF Sums
<1> HIDE DEF g
<1>4. g[s] = SumStep(h, g, s)
  BY <1>3
<1> QED
  BY <1>4 DEF g

LEMMA AsksUnfold ==
  ASSUME NEW h, NEW base, NEW n \in Nat, NEW s \in SUBSET (1..n)
  PROVE  Asks(h, base, 1..n)[s] = AskStep(h, base, Asks(h, base, 1..n), s)
<1> DEFINE S == 1..n
<1>5. IsFiniteSet(S)
  BY FS_Interval
<1>6. \A t \in SUBSET S : t # {} => Max(t) \in t
  BY Greatest
<1>7. \A t \in SUBSET S : t # {} => Taken("ask", t) \in t
  BY <1>6 DEF Taken
<1> HIDE DEF S
<1>1. PICK f : IsFold("ask", h, base, S, f)
  BY <1>5, <1>7, FoldExists
<1>2. f = [t \in SUBSET S |-> AskStep(h, base, f, t)]
  BY <1>1 DEF IsFold, FoldStep, Taken, Combined, AskStep
<1> DEFINE g == Asks(h, base, S)
<1>3. g = [t \in SUBSET S |-> AskStep(h, base, g, t)]
  BY <1>2 DEF Asks
<1> HIDE DEF g
<1>4. g[s] = AskStep(h, base, g, s)
  BY <1>3 DEF S
<1> QED
  BY <1>4 DEF g, S

LEMMA DecidesUnfold ==
  ASSUME NEW h, NEW base, NEW n \in Nat, NEW s \in SUBSET (1..n)
  PROVE  Decides(h, base, 1..n)[s] = DecideStep(h, base, Decides(h, base, 1..n), s)
<1> DEFINE S == 1..n
<1>5. IsFiniteSet(S)
  BY FS_Interval
<1>6. \A t \in SUBSET S : t # {} => Max(t) \in t
  BY Greatest
<1>7. \A t \in SUBSET S : t # {} => Taken("decide", t) \in t
  BY <1>6 DEF Taken
<1> HIDE DEF S
<1>1. PICK f : IsFold("decide", h, base, S, f)
  BY <1>5, <1>7, FoldExists
<1>2. f = [t \in SUBSET S |-> DecideStep(h, base, f, t)]
  BY <1>1 DEF IsFold, FoldStep, Taken, Combined, DecideStep
<1> DEFINE g == Decides(h, base, S)
<1>3. g = [t \in SUBSET S |-> DecideStep(h, base, g, t)]
  BY <1>2 DEF Decides
<1> HIDE DEF g
<1>4. g[s] = DecideStep(h, base, g, s)
  BY <1>3 DEF S
<1> QED
  BY <1>4 DEF g, S

\* A fold over a sequence runs through its prefixes.
AskRun(r, base, h, n) ==
  /\ r[0] = base /\ r[n] = AskAll(base, h)
  /\ \A m \in 1..n : r[m] = Asked(r[m - 1], h[m])

LEMMA AsksRun ==
  ASSUME NEW h, NEW base, NEW n \in Nat, DOMAIN h = 1..n
  PROVE  \E r : AskRun(r, base, h, n)
<1> DEFINE g == Asks(h, base, 1..n)
           r == [m \in 0..n |-> g[1..m]]
<1>1. g[{}] = base
  BY AsksUnfold DEF AskStep
<1>2. ASSUME NEW m \in 1..n PROVE g[1..m] = Asked(g[1..(m - 1)], h[m])
  <2>1. 1..m \in SUBSET (1..n)
    OBVIOUS
  <2>2. g[1..m] = AskStep(h, base, g, 1..m)
    BY <2>1, AsksUnfold
  <2>4. m \in Nat /\ m # 0
    OBVIOUS
  <2>3. Max(1..m) = m /\ (1..m) \ {m} = 1..(m - 1) /\ 1..m # {}
    BY <2>4, GreatestOfSegment
  <2> HIDE DEF g
  <2> QED
    BY <2>2, <2>3 DEF AskStep
<1>3. AskAll(base, h) = g[1..n]
  BY FoldIsAsks
<1> HIDE DEF g
<1>4. r[0] = base
  <2>1. 1..0 = {}
    OBVIOUS
  <2> QED
    BY <1>1, <2>1
<1>5. \A m \in 1..n : r[m] = Asked(r[m - 1], h[m])
  BY <1>2
<1>6. r[n] = AskAll(base, h)
  BY <1>3
<1> HIDE DEF r
<1> QED
  BY <1>4, <1>5, <1>6 DEF AskRun

DecideRun(r, base, h, n) ==
  /\ r[0] = base /\ r[n] = DecideAll(base, h)
  /\ \A m \in 1..n : r[m] = Decide(r[m - 1], h[m])

LEMMA DecidesRun ==
  ASSUME NEW h, NEW base, NEW n \in Nat, DOMAIN h = 1..n
  PROVE  \E r : DecideRun(r, base, h, n)
<1> DEFINE g == Decides(h, base, 1..n)
           r == [m \in 0..n |-> g[1..m]]
<1>1. g[{}] = base
  BY DecidesUnfold DEF DecideStep
<1>2. ASSUME NEW m \in 1..n PROVE g[1..m] = Decide(g[1..(m - 1)], h[m])
  <2>1. 1..m \in SUBSET (1..n)
    OBVIOUS
  <2>2. g[1..m] = DecideStep(h, base, g, 1..m)
    BY <2>1, DecidesUnfold
  <2>4. m \in Nat /\ m # 0
    OBVIOUS
  <2>3. Max(1..m) = m /\ (1..m) \ {m} = 1..(m - 1) /\ 1..m # {}
    BY <2>4, GreatestOfSegment
  <2> HIDE DEF g
  <2> QED
    BY <2>2, <2>3 DEF DecideStep
<1>3. DecideAll(base, h) = g[1..n]
  BY FoldIsDecides
<1> HIDE DEF g
<1>4. r[0] = base
  <2>1. 1..0 = {}
    OBVIOUS
  <2> QED
    BY <1>1, <2>1
<1>5. \A m \in 1..n : r[m] = Decide(r[m - 1], h[m])
  BY <1>2
<1>6. r[n] = DecideAll(base, h)
  BY <1>3
<1> HIDE DEF r
<1> QED
  BY <1>4, <1>5, <1>6 DEF DecideRun

\* Sums, whatever the order they are taken in.
\* The sum over a set depends on what is added only.
LEMMA SumsAgree ==
  ASSUME NEW h, NEW k, NEW S, NEW T, IsFiniteSet(S), IsFiniteSet(T),
         NEW u \in SUBSET (S \cap T), \A r \in u : h[r].frames = k[r].frames
  PROVE  Sums(h, S)[u] = Sums(k, T)[u]
<1> DEFINE f == Sums(h, S)
           g == Sums(k, T)
           Bad == {n \in Nat : \E s \in SUBSET u : Cardinality(s) = n /\ f[s] # g[s]}
<1>1. \A s \in SUBSET u : IsFiniteSet(s) /\ Cardinality(s) \in Nat
  BY FS_Subset, FS_CardinalityType
<1>2. \A s \in SUBSET u : f[s] = SumStep(h, f, s) /\ g[s] = SumStep(k, g, s)
  BY SumsUnfold
<1> HIDE DEF f, g
<1>3. Bad = {}
  <2> SUFFICES ASSUME Bad # {} PROVE FALSE
    OBVIOUS
  <2>0. Bad # {}
    OBVIOUS
  <2>1. PICK n \in Bad : \A m \in Bad : n <= m
    <3>1. Bad \in SUBSET Nat
      OBVIOUS
    <3> HIDE DEF Bad
    <3> QED
      BY <2>0, <3>1, LeastSlot
  <2>2. PICK s \in SUBSET u : Cardinality(s) = n /\ f[s] # g[s]
    BY <2>1
  <2>3. s # {}
    BY <1>2, <2>2 DEF SumStep
  <2>4. Pick(s) \in s
    BY <2>3, PickIn
  <2>5. /\ Cardinality(s \ {Pick(s)}) = n - 1 /\ Cardinality(s \ {Pick(s)}) \in Nat
        /\ n \in Nat
    BY <1>1, <2>2, <2>4, Smaller
  <2>6. f[s \ {Pick(s)}] = g[s \ {Pick(s)}]
    <3>1. n - 1 \notin Bad
      BY <2>1, <2>5
    <3> QED
      BY <2>5, <3>1
  <2> QED
    BY <1>2, <2>2, <2>3, <2>4, <2>6 DEF SumStep
<1> QED
  BY <1>1, <1>3 DEF f, g

LEMMA FramesSame ==
  ASSUME NEW h, NEW k, NEW S, IsFiniteSet(S), \A r \in S : h[r].frames = k[r].frames
  PROVE  Frames(h, S) = Frames(k, S)
BY SumsAgree, FramesIsSum

LEMMA FramesUnfolds ==
  ASSUME NEW h, NEW S, IsFiniteSet(S)
  PROVE  Frames(h, S) = IF S = {} THEN 0
                       ELSE h[Pick(S)].frames + Frames(h, S \ {Pick(S)})
<1>1. Frames(h, S) = SumStep(h, Sums(h, S), S)
  BY SumsUnfold, FramesIsSum
<1>2. CASE S = {}
  BY <1>1, <1>2 DEF SumStep
<1>3. CASE S # {}
  <2> DEFINE R == S \ {Pick(S)}
  <2>1. IsFiniteSet(R) /\ R \in SUBSET (S \cap R)
    BY FS_Subset
  <2>2. Sums(h, S)[R] = Sums(h, R)[R]
    BY <2>1, SumsAgree
  <2>3. Sums(h, R)[R] = Frames(h, R)
    BY FramesIsSum
  <2> QED
    BY <1>1, <1>3, <2>2, <2>3 DEF SumStep
<1> QED
  BY <1>2, <1>3

LEMMA FramesNat ==
  ASSUME NEW h, NEW S, IsFiniteSet(S), \A r \in S : h[r].frames \in Nat
  PROVE  Frames(h, S) \in Nat
<1> DEFINE Bad == {n \in Nat : \E s \in SUBSET S : Cardinality(s) = n /\ Frames(h, s) \notin Nat}
<1>1. \A s \in SUBSET S : IsFiniteSet(s) /\ Cardinality(s) \in Nat
  BY FS_Subset, FS_CardinalityType
<1>2. Bad = {}
  <2> SUFFICES ASSUME Bad # {} PROVE FALSE
    OBVIOUS
  <2>0. Bad # {}
    OBVIOUS
  <2>1. PICK n \in Bad : \A m \in Bad : n <= m
    <3>1. Bad \in SUBSET Nat
      OBVIOUS
    <3> HIDE DEF Bad
    <3> QED
      BY <2>0, <3>1, LeastSlot
  <2>2. PICK s \in SUBSET S : Cardinality(s) = n /\ Frames(h, s) \notin Nat
    BY <2>1
  <2>3. Frames(h, s) = IF s = {} THEN 0 ELSE h[Pick(s)].frames + Frames(h, s \ {Pick(s)})
    BY <1>1, FramesUnfolds
  <2>4. s # {} /\ Pick(s) \in s
    BY <2>2, <2>3, PickIn
  <2>5. /\ Cardinality(s \ {Pick(s)}) = n - 1 /\ Cardinality(s \ {Pick(s)}) \in Nat
        /\ n \in Nat
    BY <1>1, <2>2, <2>4, Smaller
  <2>6. Frames(h, s \ {Pick(s)}) \in Nat
    <3>1. n - 1 \notin Bad
      BY <2>1, <2>5
    <3> QED
      BY <2>5, <3>1
  <2>7. h[Pick(s)].frames \in Nat
    BY <2>4
  <2> QED
    BY <2>2, <2>3, <2>4, <2>6, <2>7
<1> QED
  BY <1>1, <1>2

\* Any element may be taken first.
LEMMA FramesTakes ==
  ASSUME NEW h, NEW S, IsFiniteSet(S), \A r \in S : h[r].frames \in Nat, NEW y \in S
  PROVE  Frames(h, S) = h[y].frames + Frames(h, S \ {y})
<1> DEFINE Wrong(s) == \E x \in s : Frames(h, s) # h[x].frames + Frames(h, s \ {x})
           Bad == {n \in Nat : \E s \in SUBSET S : Cardinality(s) = n /\ Wrong(s)}
<1>1. \A s \in SUBSET S : IsFiniteSet(s) /\ Cardinality(s) \in Nat /\ Frames(h, s) \in Nat
  BY FS_Subset, FS_CardinalityType, FramesNat
<1>2. Bad = {}
  <2> SUFFICES ASSUME Bad # {} PROVE FALSE
    OBVIOUS
  <2>0. Bad # {}
    OBVIOUS
  <2>1. PICK n \in Bad : \A m \in Bad : n <= m
    <3>1. Bad \in SUBSET Nat
      OBVIOUS
    <3> HIDE DEF Bad
    <3> QED
      BY <2>0, <3>1, LeastSlot
  <2>2. PICK s \in SUBSET S : Cardinality(s) = n /\ Wrong(s)
    BY <2>1
  <2>3. PICK x \in s : Frames(h, s) # h[x].frames + Frames(h, s \ {x})
    BY <2>2
  <2> DEFINE z == Pick(s)
             r == s \ {z}
             q == s \ {x}
             o == r \ {x}
  <2>4. z \in s /\ s # {}
    BY PickIn
  <2>5. Frames(h, s) = h[z].frames + Frames(h, r)
    BY <1>1, <2>4, FramesUnfolds
  <2> HIDE DEF z
  <2>6. z # x
    BY <2>3, <2>5
  <2>7. /\ Cardinality(r) = n - 1 /\ Cardinality(r) \in Nat /\ n \in Nat
        /\ Cardinality(q) = n - 1 /\ r \in SUBSET S /\ q \in SUBSET S /\ o \in SUBSET S
    BY <1>1, <2>2, <2>4, Smaller
  <2>8. ~Wrong(r) /\ ~Wrong(q)
    <3>1. n - 1 \notin Bad
      BY <2>1, <2>7
    <3> QED
      BY <2>7, <3>1
  <2>9. Frames(h, r) = h[x].frames + Frames(h, o)
    BY <2>6, <2>8
  <2>10. Frames(h, q) = h[z].frames + Frames(h, q \ {z})
    BY <2>4, <2>6, <2>8
  <2>11. Frames(h, q \ {z}) = Frames(h, o)
    <3>1. q \ {z} = o
      OBVIOUS
    <3> QED
      BY <3>1
  <2>13. Frames(h, s) # h[x].frames + Frames(h, q)
    BY <2>3
  <2>12. /\ h[x].frames \in Nat /\ h[z].frames \in Nat /\ Frames(h, o) \in Nat
         /\ Frames(h, r) \in Nat /\ Frames(h, q) \in Nat /\ Frames(h, s) \in Nat
    BY <1>1, <2>4, <2>7
  <2> HIDE DEF r, q, o
  <2> QED
    BY <2>5, <2>9, <2>10, <2>11, <2>12, <2>13
<1> QED
  BY <1>1, <1>2

(***************************************************************************)
(* The admission.  A slot with a stream is a wanted one between updates.   *)
(***************************************************************************)
SlotRec ==
  [stream : Stream \cup {None}, wanted : BOOLEAN, refused : BOOLEAN,
   told : BOOLEAN, frames : Nat, bps : Nat]

AdmForm == /\ adm \in [Slot -> SlotRec]
           /\ \A i \in Slot : (adm[i].stream # None) <=> adm[i].wanted

TalkerForm ==
  /\ talker \in [Stream -> [reg : RegistrarState, val : Value \cup {None},
                            prop : Value \cup {None}]]
  /\ \A s \in Stream : talker[s].reg # "MT" => talker[s].val \in Value

RowsForm == rows \in Seq(Stream)

AdmInv == AdmForm /\ TalkerForm /\ RowsForm

LEMMA AdmInit == Init => AdmInv
<1> SUFFICES ASSUME Init PROVE AdmInv
  OBVIOUS
<1>1. AdmForm
  <2>1. Free \in SlotRec
    BY DEF Free, SlotRec
  <2>2. adm = [i \in Slot |-> Free]
    BY DEF Init
  <2>3. Free.stream = None /\ Free.wanted = FALSE
    BY DEF Free
  <2> QED
    BY <2>1, <2>2, <2>3 DEF AdmForm
<1>2. TalkerForm
  BY DEF Init, TalkerForm, RegistrarState
<1>3. RowsForm
  BY DEF Init, RowsForm
<1> QED
  BY <1>1, <1>2, <1>3 DEF AdmInv

\* What a talker declares has its frames and bits.
LEMMA ValueNat == \A v \in Value : v.frames \in Nat /\ v.bps \in Nat
<1>1. Value \subseteq [cls : {"A", "B"}, frames : Nat, bps : Nat]
  BY Zenon, WifiPortAssumption
<1> QED
  BY <1>1

\* One stream of the table: its slot, a new one or none.
Claimed(a) ==
  /\ a \in [Slot -> SlotRec]
  /\ \A i \in Slot : a[i].wanted => a[i].stream # None
  /\ \A i \in Slot : \/ a[i].refused
                     \/ /\ a[i].stream = adm[i].stream
                        /\ ~adm[i].refused

LEMMA AskedClaims ==
  ASSUME AdmInv, NEW a, Claimed(a), NEW s \in Stream
  PROVE  Claimed(Asked(a, s))
<1> DEFINE own == {i \in Slot : a[i].stream = s}
           spare == {i \in Slot : a[i].stream = None}
           asks(slot) == [slot EXCEPT !.wanted = TRUE, !.stream = s,
                                      !.frames = talker[s].val.frames,
                                      !.bps = talker[s].val.bps]
           fresh == [Free EXCEPT !.refused = TRUE]
<1>1. CASE ~Wanted(s)
  <2>1. Asked(a, s) = a
    BY <1>1, Zenon DEF Asked
  <2> QED
    BY <2>1
<1>2. ASSUME Wanted(s)
      PROVE  /\ \A x \in SlotRec : asks(x) \in SlotRec /\ asks(x).stream = s
                                   /\ asks(x).refused = x.refused
             /\ s # None
  <2>1. talker[s].val.frames \in Nat /\ talker[s].val.bps \in Nat
    <3>1. talker[s].val \in Value
      BY <1>2 DEF Wanted, Talking, AdmInv, TalkerForm
    <3> QED
      BY <3>1, ValueNat
  <2>2. s # None
    BY Zenon, WifiPortAssumption
  <2> HIDE DEF asks
  <2>3. ASSUME NEW x \in SlotRec
        PROVE  asks(x) \in SlotRec /\ asks(x).stream = s /\ asks(x).refused = x.refused
    BY <2>1 DEF asks, SlotRec
  <2> QED
    BY <2>2, <2>3
<1>3. CASE Wanted(s) /\ own # {}
  <2> DEFINE i == Min(own)
  <2>1. i \in own
    BY <1>3, LeastSlot DEF Slot
  <2>3. Asked(a, s) = [a EXCEPT ![i] = asks(a[i])]
    BY <1>3 DEF Asked
  <2> HIDE DEF i, asks
  <2>4. a[i] \in SlotRec /\ a[i].stream = s
    BY <2>1 DEF Claimed
  <2>5. asks(a[i]) \in SlotRec /\ asks(a[i]).stream = s /\ s # None
        /\ asks(a[i]).refused = a[i].refused
    BY <1>2, <1>3, <2>4
  <2> QED
    BY <2>1, <2>3, <2>4, <2>5 DEF Claimed
<1>4. CASE Wanted(s) /\ own = {} /\ spare # {}
  <2> DEFINE i == Min(spare)
  <2>1. i \in spare
    BY <1>4, LeastSlot DEF Slot
  <2>2. Asked(a, s) = [a EXCEPT ![i] = asks(fresh)]
    BY <1>4 DEF Asked
  <2>3. fresh \in SlotRec /\ fresh.refused
    BY DEF Free, SlotRec
  <2> HIDE DEF i, asks, fresh
  <2>4. asks(fresh) \in SlotRec /\ asks(fresh).stream = s /\ s # None
        /\ asks(fresh).refused
    BY <1>2, <1>4, <2>3
  <2> QED
    BY <2>1, <2>2, <2>4 DEF Claimed
<1>5. CASE Wanted(s) /\ own = {} /\ spare = {}
  BY <1>5 DEF Asked
<1> QED
  BY <1>1, <1>3, <1>4, <1>5

LEMMA ClaimsClaimed == AdmInv => Claimed(Claims)
<1> SUFFICES ASSUME AdmInv PROVE Claimed(Claims)
  OBVIOUS
<1> DEFINE base == [i \in Slot |-> [adm[i] EXCEPT !.wanted = FALSE]]
           n == Len(rows)
<1>1. Claimed(base)
  <2>1. \A i \in Slot :
          /\ base[i] \in SlotRec /\ base[i].wanted = FALSE
          /\ base[i].stream = adm[i].stream /\ base[i].refused = adm[i].refused
    BY DEF AdmInv, AdmForm, SlotRec
  <2>2. base = [i \in Slot |-> base[i]]
    OBVIOUS
  <2>3. \A i \in Slot : adm[i].refused \in BOOLEAN
    BY DEF AdmInv, AdmForm, SlotRec
  <2> HIDE DEF base
  <2> QED
    BY <2>1, <2>2, <2>3 DEF Claimed
<1>2. n \in Nat /\ DOMAIN rows = 1..n /\ \A m \in 1..n : rows[m] \in Stream
  BY DEF AdmInv, RowsForm
<1> HIDE DEF base, n
<1>9. PICK r : AskRun(r, base, rows, n)
  BY <1>2, AsksRun
<1>3. /\ r[0] = base /\ r[n] = AskAll(base, rows)
      /\ \A m \in 1..n : r[m] = Asked(r[m - 1], rows[m])
  BY <1>9 DEF AskRun
<1> DEFINE T == {m \in 0..n : Claimed(r[m])}
<1>4. 0 \in T
  BY <1>1, <1>2, <1>3
<1>5. ASSUME NEW m \in 0..n, m \in T, m < n PROVE m + 1 \in T
  <2>1. m + 1 \in 1..n /\ (m + 1) - 1 = m
    BY <1>2, <1>5
  <2>2. r[m + 1] = Asked(r[m], rows[m + 1])
    BY <1>3, <2>1
  <2>3. Claimed(r[m]) /\ rows[m + 1] \in Stream
    BY <1>2, <1>5, <2>1
  <2>4. Claimed(Asked(r[m], rows[m + 1]))
    BY <2>3, AskedClaims
  <2> QED
    BY <2>1, <2>2, <2>4
<1>8. \A m \in 0..n : m \in T /\ m < n => m + 1 \in T
  BY <1>5
<1> HIDE DEF T
<1>6. n \in T
  <2>1. \A m \in 0..n : m \in T
    BY <1>2, <1>4, <1>8, Counting
  <2>2. n \in 0..n
    BY <1>2
  <2> QED
    BY <2>1, <2>2
<1>7. Claims = AskAll(base, rows)
  BY Zenon DEF Claims, AskAll, base
<1> QED
  BY <1>3, <1>6, <1>7 DEF T

\* What a claim leaves admitted was admitted before.
LEMMA ClaimsAdmitNone ==
  ASSUME AdmInv, NEW a, Claimed(a) PROVE Admitted(a) \subseteq Admitted(adm)
BY DEF AdmInv, AdmForm, Claimed, Admitted

\* After the decisions about the slots up to m.
Decided(m, x) ==
  /\ x = [adm |-> x.adm, ours |-> x.ours, up |-> x.up, decided |-> x.decided]
  /\ x.adm \in [Slot -> SlotRec]
  /\ \A i \in Slot : x.adm[i].wanted => x.adm[i].stream # None
  /\ \A i \in 1..m : x.adm[i].stream # None => x.adm[i].wanted
  /\ (Admitted(x.adm) \subseteq Admitted(adm)
        \/ Frames(x.adm, Admitted(x.adm)) <= Budget)

LEMMA SlotsFinite == Size \in Nat /\ \A S \in SUBSET Slot : IsFiniteSet(S)
<1>1. Size \in Nat
  BY Zenon, WifiPortAssumption
<1>2. IsFiniteSet(Slot)
  BY <1>1, FS_Interval DEF Slot
<1> QED
  BY <1>1, <1>2, FS_Subset

\* Slots that are as before for those admitted.
LEMMA SameAdmitted ==
  ASSUME NEW a, NEW b, a \in [Slot -> SlotRec], b \in [Slot -> SlotRec],
         Admitted(b) = Admitted(a), \A i \in Admitted(a) : b[i].frames = a[i].frames
  PROVE  Frames(b, Admitted(b)) = Frames(a, Admitted(a))
<1>1. IsFiniteSet(Admitted(a))
  BY SlotsFinite DEF Admitted
<1> QED
  BY <1>1, FramesSame

LEMMA DecideSafe ==
  ASSUME NEW m \in Slot, NEW x, Decided(m - 1, x)
  PROVE  Decided(m, Decide(x, m))
<1> DEFINE slot == x.adm[m]
           s == slot.stream
           propagated(a) == [x.up EXCEPT ![s] = Propagated(@, a, s, listener[s])]
           y == Decide(x, m)
<1>0. /\ Size \in Nat /\ slot \in SlotRec /\ x.adm \in [Slot -> SlotRec]
      /\ m \in 1..Size /\ \A i \in 1..m : i = m \/ i \in 1..(m - 1)
  BY SlotsFinite DEF Decided, Slot
<1>1. CASE s = None
  <2>1. y = x
    BY <1>1 DEF Decide
  <2> QED
    BY <1>0, <1>1, <2>1 DEF Decided
<1>2. CASE s # None /\ ~slot.wanted
  <2> DEFINE b == [x.adm EXCEPT ![m] = Free]
             o == [x.ours EXCEPT ![s] = IF slot.told /\ Talking(s)
                                        THEN Redeclared(s, FALSE) ELSE @]
  <2>1. y = [x EXCEPT !.adm[m] = Free,
                      !.ours[s] = IF slot.told /\ Talking(s)
                                  THEN Redeclared(s, FALSE) ELSE @]
    BY <1>2 DEF Decide
  <2>2. y = [x EXCEPT !.adm = b, !.ours = o]
    BY <2>1 DEF Decided
  <2>3. Free \in SlotRec /\ Free.stream = None /\ Free.wanted = FALSE
    BY DEF Free, SlotRec
  <2> HIDE DEF b, o, y
  <2>4. y = [adm |-> b, ours |-> o, up |-> x.up, decided |-> x.decided]
    BY <2>2 DEF Decided
  <2>5. b \in [Slot -> SlotRec] /\ \A i \in Slot : b[i] = IF i = m THEN Free ELSE x.adm[i]
    BY <1>0, <2>3 DEF b
  <2>6. Admitted(b) = Admitted(x.adm)
    BY <1>2, <2>3, <2>5 DEF Admitted
  <2>7. \A i \in Admitted(x.adm) : b[i].frames = x.adm[i].frames
    BY <1>2, <2>5 DEF Admitted
  <2>8. Frames(b, Admitted(b)) = Frames(x.adm, Admitted(x.adm))
    BY <1>0, <2>5, <2>6, <2>7, SameAdmitted
  <2>9. /\ \A i \in Slot : b[i].wanted => b[i].stream # None
        /\ \A i \in 1..m : b[i].stream # None => b[i].wanted
    BY <1>0, <2>3, <2>5 DEF Decided, Slot
  <2>10. y.adm = b
    BY <2>4
  <2> HIDE DEF b
  <2> QED
    BY <2>4, <2>5, <2>6, <2>8, <2>9, <2>10 DEF Decided, y
<1>3. CASE s # None /\ slot.wanted /\ ~slot.refused
  <2>1. y = x
    BY <1>3 DEF Decide
  <2> QED
    BY <1>0, <1>3, <2>1 DEF Decided
<1>4. CASE s # None /\ slot.wanted /\ slot.refused /\ Fits(x.adm, m)
  <2> DEFINE b == [x.adm EXCEPT ![m].refused = FALSE, ![m].told = FALSE]
  <2>1. y = [adm |-> b, up |-> propagated(b), decided |-> TRUE,
             ours |-> IF slot.told
                      THEN [x.ours EXCEPT ![s] = Redeclared(s, FALSE)]
                      ELSE x.ours]
    BY <1>4 DEF Decide
  <2>2. b = [x.adm EXCEPT ![m] = [slot EXCEPT !.refused = FALSE, !.told = FALSE]]
    BY <1>0
  <2>3. /\ b \in [Slot -> SlotRec] /\ \A i \in Slot \ {m} : b[i] = x.adm[i]
        /\ b[m].stream = s /\ b[m].wanted /\ b[m].refused = FALSE
        /\ b[m].frames = slot.frames
    <3> DEFINE f == [slot EXCEPT !.refused = FALSE, !.told = FALSE]
    <3>1. f \in SlotRec /\ f.stream = s /\ f.wanted /\ f.refused = FALSE /\ f.frames = slot.frames
      BY <1>0, <1>4 DEF SlotRec
    <3> HIDE DEF f, b
    <3> QED
      BY <1>0, <2>2, <3>1 DEF f
  <2> HIDE DEF b, y
  <2>4. Admitted(b) = Admitted(x.adm) \cup {m} /\ m \notin Admitted(x.adm)
    BY <1>4, <2>3 DEF Admitted
  <2>5. Frames(b, Admitted(b)) = slot.frames + Frames(x.adm, Admitted(x.adm))
    <3>1. IsFiniteSet(Admitted(b)) /\ \A i \in Admitted(b) : b[i].frames \in Nat
      BY <2>3, SlotsFinite DEF Admitted, SlotRec
    <3>2. Frames(b, Admitted(b)) = b[m].frames + Frames(b, Admitted(b) \ {m})
      BY <2>4, <3>1, FramesTakes
    <3>3. Admitted(b) \ {m} = Admitted(x.adm)
      BY <2>4
    <3>4. Frames(b, Admitted(x.adm)) = Frames(x.adm, Admitted(x.adm))
      <4>1. IsFiniteSet(Admitted(x.adm)) /\ \A i \in Admitted(x.adm) : b[i].frames = x.adm[i].frames
        BY <2>3, <2>4, SlotsFinite DEF Admitted
      <4> QED
        BY <4>1, FramesSame
    <3> QED
      BY <2>3, <3>2, <3>3, <3>4
  <2>6. Frames(x.adm, Admitted(x.adm)) + slot.frames <= Budget
    BY <1>4 DEF Fits, Frames
  <2>7. Frames(x.adm, Admitted(x.adm)) \in Nat /\ slot.frames \in Nat
    <3>1. IsFiniteSet(Admitted(x.adm)) /\ \A i \in Admitted(x.adm) : x.adm[i].frames \in Nat
      BY <1>0, SlotsFinite DEF Admitted, SlotRec
    <3> QED
      BY <1>0, <3>1, FramesNat DEF SlotRec
  <2>8. Frames(b, Admitted(b)) <= Budget
    BY <2>5, <2>6, <2>7
  <2>9. /\ \A i \in Slot : b[i].wanted => b[i].stream # None
        /\ \A i \in 1..m : b[i].stream # None => b[i].wanted
    BY <1>0, <1>4, <2>3 DEF Decided, Slot
  <2>10. y.adm = b /\ y = [adm |-> y.adm, ours |-> y.ours, up |-> y.up, decided |-> y.decided]
    BY <2>1
  <2> QED
    BY <2>3, <2>8, <2>9, <2>10 DEF Decided, y
<1>5. CASE s # None /\ slot.wanted /\ slot.refused /\ ~Fits(x.adm, m) /\ slot.told
  <2>1. y = x
    BY <1>5 DEF Decide
  <2> QED
    BY <1>0, <1>5, <2>1 DEF Decided
<1>6. CASE s # None /\ slot.wanted /\ slot.refused /\ ~Fits(x.adm, m) /\ ~slot.told
  <2> DEFINE b == [x.adm EXCEPT ![m].told = TRUE]
  <2>1. y = [adm |-> b, up |-> propagated(b), decided |-> TRUE,
             ours |-> [x.ours EXCEPT ![s] = Redeclared(s, TRUE)]]
    BY <1>6 DEF Decide
  <2>2. b = [x.adm EXCEPT ![m] = [slot EXCEPT !.told = TRUE]]
    BY <1>0
  <2>3. /\ b \in [Slot -> SlotRec] /\ \A i \in Slot \ {m} : b[i] = x.adm[i]
        /\ b[m].stream = s /\ b[m].wanted /\ b[m].refused
    <3> DEFINE f == [slot EXCEPT !.told = TRUE]
    <3>1. f \in SlotRec /\ f.stream = s /\ f.wanted /\ f.refused
      BY <1>0, <1>6 DEF SlotRec
    <3> HIDE DEF f, b
    <3> QED
      BY <1>0, <2>2, <3>1 DEF f
  <2> HIDE DEF b, y
  <2>4. Admitted(b) = Admitted(x.adm)
    BY <1>6, <2>3 DEF Admitted
  <2>5. \A i \in Admitted(x.adm) : b[i].frames = x.adm[i].frames
    BY <1>6, <2>3 DEF Admitted
  <2>6. Frames(b, Admitted(b)) = Frames(x.adm, Admitted(x.adm))
    BY <1>0, <2>3, <2>4, <2>5, SameAdmitted
  <2>9. /\ \A i \in Slot : b[i].wanted => b[i].stream # None
        /\ \A i \in 1..m : b[i].stream # None => b[i].wanted
    BY <1>0, <1>6, <2>3 DEF Decided, Slot
  <2>10. y.adm = b /\ y = [adm |-> y.adm, ours |-> y.ours, up |-> y.up, decided |-> y.decided]
    BY <2>1
  <2> QED
    BY <2>3, <2>4, <2>6, <2>9, <2>10 DEF Decided, y
<1> QED
  BY <1>1, <1>2, <1>3, <1>4, <1>5, <1>6

\* The update as a whole.
LEMMA UpdateDecides ==
  ASSUME AdmInv, Update
  PROVE  /\ adm' \in [Slot -> SlotRec]
         /\ \A i \in Slot : (adm'[i].stream # None) <=> adm'[i].wanted
         /\ (Admitted(adm') \subseteq Admitted(adm)
               \/ Frames(adm', Admitted(adm')) <= Budget)
<1> DEFINE base == [adm |-> Claims, ours |-> ours, up |-> up, decided |-> FALSE]
           h == [i \in Slot |-> i]
           x == DecideAll(base, h)
<1>1. adm' = x.adm
  <2>1. adm' = FoldLeft(Decide, base, h).adm
    BY Zenon DEF Update
  <2> QED
    BY <2>1, Zenon DEF DecideAll
<1>2. Decided(0, base)
  <2>1. Claimed(Claims)
    BY ClaimsClaimed
  <2>2. Admitted(Claims) \subseteq Admitted(adm)
    BY <2>1, ClaimsAdmitNone
  <2>3. base.adm = Claims
    OBVIOUS
  <2>4. base = [adm |-> base.adm, ours |-> base.ours, up |-> base.up,
                decided |-> base.decided]
    OBVIOUS
  <2> HIDE DEF base
  <2> QED
    BY <2>1, <2>2, <2>3, <2>4 DEF Decided, Claimed
<1>3. Size \in Nat /\ DOMAIN h = 1..Size /\ \A m \in 1..Size : h[m] = m /\ m \in Slot
  BY SlotsFinite DEF Slot
<1> HIDE DEF base, h
<1>4. PICK r : DecideRun(r, base, h, Size)
  BY <1>3, DecidesRun
<1>5. /\ r[0] = base /\ r[Size] = x
      /\ \A m \in 1..Size : r[m] = Decide(r[m - 1], h[m])
  BY <1>4 DEF DecideRun
<1> HIDE DEF x
<1> DEFINE T == {m \in 0..Size : Decided(m, r[m])}
<1>6. 0 \in T
  BY <1>2, <1>3, <1>5
<1>7. ASSUME NEW m \in 0..Size, m \in T, m < Size PROVE m + 1 \in T
  <2>1. m + 1 \in 1..Size /\ (m + 1) - 1 = m
    BY <1>3, <1>7
  <2>2. r[m + 1] = Decide(r[m], m + 1) /\ m + 1 \in Slot
    BY <1>3, <1>5, <2>1
  <2>3. Decided((m + 1) - 1, r[m])
    BY <1>7, <2>1
  <2>4. Decided(m + 1, Decide(r[m], m + 1))
    BY <2>2, <2>3, DecideSafe
  <2> QED
    BY <2>1, <2>2, <2>4
<1>8. \A m \in 0..Size : m \in T /\ m < Size => m + 1 \in T
  BY <1>7
<1> HIDE DEF T
<1>9. Size \in T
  <2>1. \A m \in 0..Size : m \in T
    BY <1>3, <1>6, <1>8, Counting
  <2>2. Size \in 0..Size
    BY <1>3
  <2> QED
    BY <2>1, <2>2
<1>10. Decided(Size, x)
  BY <1>5, <1>9 DEF T
<1> QED
  BY <1>1, <1>10 DEF Decided, Slot

LEMMA RegistrarForm ==
  /\ \A r \in RegistrarState, ev \in {"rJoinIn", "rLv", "rLA"} :
       /\ RegistrarStep(r, ev) \in RegistrarState
       /\ ev # "rJoinIn" /\ r = "MT" => RegistrarStep(r, ev) = "MT"
BY DEF RegistrarState, RegistrarStep

LEMMA AdmStep == AdmInv /\ [Next]_vars => AdmInv'
<1> SUFFICES ASSUME AdmInv, [Next]_vars PROVE AdmInv'
  OBVIOUS
<1>t. TalkerForm /\ AdmForm /\ RowsForm
  BY DEF AdmInv
<1>0. ASSUME UNCHANGED <<talker, adm, rows>> PROVE AdmInv'
  BY <1>0, <1>t DEF AdmInv, AdmForm, TalkerForm, RowsForm
<1>1. ASSUME NEW s \in Stream, NEW v \in Value, NEW ev \in {"rJoinIn", "rLv"},
             RxTalker(s, v, ev)
      PROVE  AdmInv'
  <2> DEFINE t == talker[s]
             reg == RegistrarStep(t.reg, ev)
             c == OnTalkerChange(s, v, RegTransition(t.reg, reg))
  <2>1. talker' = [talker EXCEPT ![s] = [reg |-> reg, val |-> v, prop |-> c.prop]]
        /\ UNCHANGED <<adm, rows>>
    BY <1>1 DEF RxTalker
  <2>2. reg \in RegistrarState
    BY <1>t, RegistrarForm DEF TalkerForm
  <2>3. c.prop \in Value \cup {None}
    BY <1>t DEF OnTalkerChange, TalkerForm
  <2> HIDE DEF c, reg
  <2>4. TalkerForm'
    BY <1>t, <2>1, <2>2, <2>3 DEF TalkerForm
  <2> QED
    BY <1>t, <2>1, <2>4 DEF AdmInv, AdmForm, RowsForm
<1>2. ASSUME NEW s \in Stream, NEW d, NEW ev, RxListener(s, d, ev) PROVE AdmInv'
  <2>1. UNCHANGED <<talker, adm>> /\ (rows' = rows \/ rows' = Append(rows, s))
    BY <1>2 DEF RxListener
  <2>2. RowsForm'
    BY <1>t, <2>1 DEF RowsForm
  <2> QED
    BY <1>t, <2>1, <2>2 DEF AdmInv, AdmForm, TalkerForm
<1>3. CASE RxTalkerLeaveAll
  <2>1. /\ UNCHANGED <<adm, rows>>
        /\ talker' = [s \in Stream |->
             IF s \in Steady THEN talker[s]
             ELSE [talker[s] EXCEPT !.reg = RegistrarStep(@, "rLA")]]
    BY <1>3 DEF RxTalkerLeaveAll
  <2>2. ASSUME NEW s \in Stream
        PROVE  /\ [talker[s] EXCEPT !.reg = RegistrarStep(@, "rLA")]
                    = [talker[s] EXCEPT !.reg = RegistrarStep(talker[s].reg, "rLA")]
               /\ RegistrarStep(talker[s].reg, "rLA") \in RegistrarState
               /\ talker[s].reg = "MT" => RegistrarStep(talker[s].reg, "rLA") = "MT"
    BY <1>t, RegistrarForm DEF TalkerForm
  <2>3. TalkerForm'
    BY <1>t, <2>1, <2>2 DEF TalkerForm
  <2> QED
    BY <1>t, <2>1, <2>3 DEF AdmInv, AdmForm, RowsForm
<1>4. ASSUME NEW s \in Stream, TalkerLeaves(s) PROVE AdmInv'
  <2> DEFINE c == OnTalkerChange(s, talker[s].val, "deregister")
  <2>1. /\ UNCHANGED <<adm, rows>>
        /\ talker' = [talker EXCEPT ![s].reg = "MT", ![s].prop = c.prop]
    BY <1>4 DEF TalkerLeaves
  <2>2. c.prop \in Value \cup {None}
    BY <1>t DEF OnTalkerChange, TalkerForm
  <2> HIDE DEF c
  <2>3. TalkerForm'
    BY <1>t, <2>1, <2>2 DEF TalkerForm, RegistrarState
  <2> QED
    BY <1>t, <2>1, <2>3 DEF AdmInv, AdmForm, RowsForm
<1>5. CASE Update
  <2>1. UNCHANGED <<talker, rows>>
    BY <1>5 DEF Update
  <2>2. AdmForm'
    BY <1>5, UpdateDecides DEF AdmForm
  <2> QED
    BY <1>t, <2>1, <2>2 DEF AdmInv, TalkerForm, RowsForm
<1>6. CASE UNCHANGED vars
  BY <1>0, <1>6 DEF vars
<1>7. ASSUME NEW s \in Stream, ListenerLeaves(s) \/ Lookup(s) PROVE AdmInv'
  BY <1>0, <1>7 DEF ListenerLeaves, Lookup
<1>8. CASE RxListenerLeaveAll \/ JoinTimer \/ Refresh
  BY <1>0, <1>8 DEF RxListenerLeaveAll, JoinTimer, Refresh
<1>9. CASE Invalidate \/ WriteDa \/ WriteSta \/ Validate \/ WriteIndex
  BY <1>0, <1>9 DEF Invalidate, WriteDa, WriteSta, Validate, WriteIndex, Put
<1>10. CASE LookValid \/ LookDa \/ Address
  BY <1>0, <1>10 DEF LookValid, LookDa, Address
<1> QED
  BY <1>1, <1>2, <1>3, <1>4, <1>5, <1>6, <1>7, <1>8, <1>9, <1>10 DEF Next

\* An update that admits a stream over the air ends with no more frames a
\* second admitted than the port may carry, in whatever order its slots were
\* released, admitted and refused (msrp_wifi_admission_update).
THEOREM BudgetKept == Spec => AdmittedFits
<1> DEFINE Fit == \A i \in Slot :
              adm'[i].wanted /\ ~adm'[i].refused /\ i \notin Admitted(adm) =>
                MapThenSumSet(LAMBDA j : adm'[j].frames, Admitted(adm)') <= Budget
<1>1. AdmInv /\ [Next]_vars => [Fit]_adm
  <2> SUFFICES ASSUME AdmInv, [Next]_vars, adm' # adm, NEW i \in Slot,
                      adm'[i].wanted, ~adm'[i].refused, i \notin Admitted(adm)
               PROVE  Frames(adm', Admitted(adm')) <= Budget
    BY Zenon DEF Frames, Admitted
  <2>1. Update
    <3>1. UNCHANGED vars => adm' = adm
      BY DEF vars
    <3>2. \A s \in Stream, ev \in {"rJoinIn", "rLv"} :
            /\ \A v \in Value : RxTalker(s, v, ev) => adm' = adm
            /\ \A d \in Says[s] : RxListener(s, d, ev) => adm' = adm
      BY DEF RxTalker, RxListener
    <3>3. \A s \in Stream :
            TalkerLeaves(s) \/ ListenerLeaves(s) \/ Lookup(s) => adm' = adm
      BY DEF TalkerLeaves, ListenerLeaves, Lookup
    <3>4. RxTalkerLeaveAll \/ RxListenerLeaveAll \/ JoinTimer \/ Refresh => adm' = adm
      BY DEF RxTalkerLeaveAll, RxListenerLeaveAll, JoinTimer, Refresh
    <3>5. Invalidate \/ WriteDa \/ WriteSta \/ Validate \/ WriteIndex => adm' = adm
      BY DEF Invalidate, WriteDa, WriteSta, Validate, WriteIndex, Put
    <3>6. LookValid \/ LookDa \/ Address => adm' = adm
      BY DEF LookValid, LookDa, Address
    <3> QED
      BY <3>1, <3>2, <3>3, <3>4, <3>5, <3>6 DEF Next
  <2>2. i \in Admitted(adm')
    BY <2>1, UpdateDecides DEF Admitted
  <2> QED
    BY <2>1, <2>2, UpdateDecides
<1> HIDE DEF Fit
<1>2. Spec => [][Fit]_adm
  BY <1>1, AdmInit, AdmStep, PTL DEF Spec
<1> QED
  BY <1>2, Zenon DEF AdmittedFits, Fit

(***************************************************************************)
(* What is declared upstream.                                              *)
(***************************************************************************)
Decl == {"asking", "ready", "readyFailed"}
UpRec == [app : ApplicantState, decl : Decl]

StationForm ==
  /\ listener \in [Stream -> [reg : RegistrarState, decl : Decl]]
  /\ up \in [Stream -> UpRec]

\* A declaration the stations no longer ask for is on its way out.
GoneWithdrawn(u) == \A s \in Stream : listener[s].reg = "MT" => ~Declaring(u[s])

Unique(a) ==
  \A i, j \in Slot : a[i].stream = a[j].stream /\ a[i].stream # None => i = j

\* A stream that was decided about is declared upstream as it was decided.
DecidedDeclared(a, u) ==
  \A i \in Slot : LET s == a[i].stream IN
    (/\ s # None /\ (a[i].told \/ ~a[i].refused)
     /\ listener[s].reg = "IN" /\ Declaring(u[s])) =>
       u[s].decl = Merged(a, s, listener[s])

Seated(a) == \A s \in Stream : Wanted(s) => \E i \in Slot : a[i].stream = s

NoneUndecided ==
  \A i \in Slot : adm[i].stream # None => adm[i].told \/ ~adm[i].refused

\* From a Talker or Listener attribute to the end of the update that follows.
Unsettled == task.at = "admit" \/ (task.at # "idle" /\ task.admit)

AdmitForm ==
  \/ task = Idle \/ task = [at |-> "admit"]
  \/ /\ task.at \in Writing /\ task.admit \in BOOLEAN
     /\ task = [at |-> task.at, i |-> task.i, admit |-> task.admit]
  \/ /\ task.at \in {"refresh", "index"} /\ task.admit \in BOOLEAN
     /\ task = [at |-> task.at, admit |-> task.admit]

UpstreamInv ==
  /\ StationForm /\ AdmitForm
  /\ GoneWithdrawn(up) /\ Unique(adm) /\ DecidedDeclared(adm, up)
  /\ NoneUndecided
  /\ Unsettled \/ Seated(adm)

LEMMA NoneApart == None \notin Stream /\ None \notin Decl
BY Zenon, WifiPortAssumption DEF Decl

LEMMA RefusedIs ==
  ASSUME NEW a, Unique(a), NEW i \in Slot, a[i].stream # None
  PROVE  Refused(a, a[i].stream) <=> a[i].refused
BY DEF Unique, Refused

LEMMA ApplicantForm ==
  \A p \in ApplicantState :
    /\ ApplicantStep(p, "new") \in ApplicantState
    /\ ApplicantStep(p, "join") \in ApplicantState
    /\ WithdrawStep(p, FALSE) \in ApplicantState
    /\ WithdrawStep(p, FALSE) \notin {"VP", "VN", "AN", "AA", "QA", "AP", "QP"}
    /\ Sent(p) \in ApplicantState
    /\ Sent(p) \in {"VP", "VN", "AN", "AA", "QA", "AP", "QP"} =>
         p \in {"VP", "VN", "AN", "AA", "QA", "AP", "QP"}
<1>1. ASSUME NEW p \in ApplicantState
      PROVE  /\ OnTx(p, "tx") \in ApplicantState
             /\ OnTx(p, "tx") \in {"VP", "VN", "AN", "AA", "QA", "AP", "QP"} =>
                  p \in {"VP", "VN", "AN", "AA", "QA", "AP", "QP"}
  BY DEF ApplicantState, OnTx
<1>2. \A p : ApplicantStep(p, "tx") = OnTx(p, "tx")
  BY DEF ApplicantStep, TxEvent
<1>3. ASSUME NEW p \in ApplicantState
      PROVE  /\ ApplicantStep(p, "new") \in ApplicantState
             /\ ApplicantStep(p, "join") \in ApplicantState
             /\ WithdrawStep(p, FALSE) \in ApplicantState
             /\ WithdrawStep(p, FALSE) \notin {"VP", "VN", "AN", "AA", "QA", "AP", "QP"}
  BY DEF ApplicantState, ApplicantStep, OnJoin, OnLv, WithdrawStep, TxEvent
<1>4. ASSUME NEW p \in ApplicantState
      PROVE  /\ Sent(p) \in ApplicantState
             /\ Sent(p) \in {"VP", "VN", "AN", "AA", "QA", "AP", "QP"} =>
                  p \in {"VP", "VN", "AN", "AA", "QA", "AP", "QP"}
  BY <1>1, <1>2 DEF Sent
<1> QED
  BY <1>3, <1>4

\* Whatever was declared, it now is what the row asks for, or is withdrawn.
LEMMA PropagatedIs ==
  ASSUME NEW u \in UpRec, NEW a, NEW s,
         NEW row \in [reg : RegistrarState, decl : Decl]
  PROVE  /\ Propagated(u, a, s, row) \in UpRec
         /\ row.reg = "IN" => Propagated(u, a, s, row).decl = Merged(a, s, row)
         /\ row.reg # "IN" => ~Declaring(Propagated(u, a, s, row))
<1> DEFINE p == Propagated(u, a, s, row)
           mg == Merged(a, s, row)
<1>1. /\ row.reg = "IN" => mg \in Decl /\ mg # None
      /\ row.reg # "IN" => mg = None
  BY NoneApart DEF Merged, Decl
<1>2. p = IF mg = None
          THEN IF u.app # "VO" THEN [u EXCEPT !.app = WithdrawStep(u.app, FALSE)] ELSE u
          ELSE IF u.app = "VO" \/ u.decl # mg THEN Declared(u, mg) ELSE u
  BY DEF Propagated
<1> HIDE DEF p, mg
<1>3. ASSUME NEW d \in Decl PROVE Declared(u, d) \in UpRec /\ Declared(u, d).decl = d
  BY ApplicantForm DEF Declared, DeclareEvent, UpRec
<1>4. LET w == [u EXCEPT !.app = WithdrawStep(u.app, FALSE)]
      IN  w \in UpRec /\ ~Declaring(w)
  BY ApplicantForm DEF UpRec, Declaring
<1>5. u.app = "VO" => ~Declaring(u)
  BY DEF Declaring
<1>6. CASE row.reg = "IN"
  BY <1>1, <1>2, <1>3, <1>6 DEF p, mg
<1>7. CASE row.reg # "IN"
  BY <1>1, <1>2, <1>4, <1>5, <1>7 DEF p, mg
<1> QED
  BY <1>6, <1>7

\* There is a slot for every stream.
LEMMA SlotLeft ==
  ASSUME NEW a, Unique(a), \A i \in Slot : a[i].stream \in Stream \cup {None},
         NEW s \in Stream, \A i \in Slot : a[i].stream # s
  PROVE  \E i \in Slot : a[i].stream = None
<1> SUFFICES ASSUME \A i \in Slot : a[i].stream # None PROVE FALSE
  OBVIOUS
<1> DEFINE T == Stream \ {s}
           f == [i \in Slot |-> a[i].stream]
<1>1. IsFiniteSet(Stream) /\ Size >= Cardinality(Stream)
  BY Zenon, WifiPortAssumption
<1>2. Cardinality(T) = Cardinality(Stream) - 1 /\ IsFiniteSet(T)
      /\ Cardinality(Stream) \in Nat
  BY <1>1, FS_RemoveElement, FS_CardinalityType
<1>3. IsFiniteSet(Slot) /\ Cardinality(Slot) = Size /\ Size \in Nat
  <2>1. Size \in Nat /\ IsFiniteSet(1..Size)
    BY SlotsFinite DEF Slot
  <2>2. Cardinality(1..Size) = IF 1 > Size THEN 0 ELSE Size - 1 + 1
    BY <2>1, FS_Interval
  <2> QED
    BY <2>1, <2>2 DEF Slot
<1>4. f \in [Slot -> T]
  OBVIOUS
<1>5. Cardinality(T) < Cardinality(Slot)
  BY <1>1, <1>2, <1>3
<1> HIDE DEF T, f
<1>6. \E x, y \in Slot : x # y /\ f[x] = f[y]
  BY <1>2, <1>3, <1>4, <1>5, FS_PigeonHole
<1> QED
  BY <1>6 DEF f, Unique

\* The claims of the first m rows.
ClaimedTo(m, a) ==
  /\ a \in [Slot -> SlotRec] /\ Unique(a)
  /\ \A i \in Slot : a[i].stream # None =>
       \/ a[i].refused /\ ~a[i].told
       \/ /\ a[i].stream = adm[i].stream /\ (a[i].told <=> adm[i].told)
          /\ (a[i].refused <=> adm[i].refused)
  /\ \A i \in Slot : adm[i].stream # None =>
       /\ a[i].stream = adm[i].stream /\ (a[i].told <=> adm[i].told)
       /\ (a[i].refused <=> adm[i].refused)
  /\ \A i \in Slot : a[i].wanted => Wanted(a[i].stream)
  /\ \A k \in 1..m : Wanted(rows[k]) =>
       \E i \in Slot : a[i].stream = rows[k] /\ a[i].wanted

LEMMA AskedTo ==
  ASSUME AdmInv, NEW m \in Nat, m # 0, NEW a, ClaimedTo(m - 1, a), rows[m] \in Stream
  PROVE  ClaimedTo(m, Asked(a, rows[m]))
<1> DEFINE s == rows[m]
           own == {i \in Slot : a[i].stream = s}
           spare == {i \in Slot : a[i].stream = None}
           asks(slot) == [slot EXCEPT !.wanted = TRUE, !.stream = s,
                                      !.frames = talker[s].val.frames,
                                      !.bps = talker[s].val.bps]
           fresh == [Free EXCEPT !.refused = TRUE]
           b == Asked(a, s)
<1>0. \A k \in 1..m : k = m \/ k \in 1..(m - 1)
  OBVIOUS
<1>1. CASE ~Wanted(s)
  <2>1. b = a
    BY <1>1, Zenon DEF Asked
  <2> HIDE DEF b
  <2> QED
    BY <1>0, <1>1, <2>1 DEF ClaimedTo, b
<1>2. ASSUME Wanted(s), NEW x \in SlotRec
      PROVE  /\ asks(x) \in SlotRec /\ asks(x).stream = s /\ asks(x).wanted = TRUE
             /\ asks(x).refused = x.refused /\ asks(x).told = x.told
  <2>1. talker[s].val.frames \in Nat /\ talker[s].val.bps \in Nat
    <3>1. talker[s].val \in Value
      BY <1>2 DEF Wanted, Talking, AdmInv, TalkerForm
    <3> QED
      BY <3>1, ValueNat
  <2> QED
    BY <2>1 DEF SlotRec
<1>3. s # None
  BY NoneApart
\* Another slot of the table now holds the stream, and is asked for.
<1>4. ASSUME NEW i \in Slot, NEW f \in SlotRec, b = [a EXCEPT ![i] = f],
             f.stream = s, f.wanted = TRUE, Wanted(s),
             \A j \in Slot : a[j].stream = s => j = i,
             a[i].stream = s \/ a[i].stream = None,
             \/ f.refused /\ ~f.told /\ adm[i].stream = None
             \/ /\ f.stream = adm[i].stream /\ (f.told <=> adm[i].told)
                /\ (f.refused <=> adm[i].refused)
      PROVE  ClaimedTo(m, b)
  <2> HIDE DEF b, s
  <2>1. b \in [Slot -> SlotRec] /\ b[i] = f /\ \A j \in Slot \ {i} : b[j] = a[j]
    BY <1>4 DEF ClaimedTo
  <2>2. Unique(b)
    BY <1>3, <1>4, <2>1 DEF ClaimedTo, Unique
  <2>3. ASSUME NEW k \in 1..m, Wanted(rows[k])
        PROVE  \E j \in Slot : b[j].stream = rows[k] /\ b[j].wanted
    <3>1. CASE rows[k] = s
      BY <1>4, <2>1, <3>1
    <3>2. CASE rows[k] # s
      <4>1. k \in 1..(m - 1)
        BY <1>0, <3>2 DEF s
      <4>2. PICK j \in Slot : a[j].stream = rows[k] /\ a[j].wanted
        BY <2>3, <4>1 DEF ClaimedTo
      <4>3. rows[k] # None
        <5>1. PICK l \in DOMAIN rows : rows[l] = rows[k]
          BY <2>3 DEF Wanted
        <5>2. rows[l] \in Stream
          BY <5>1, ElementOfSeq DEF AdmInv, RowsForm
        <5> QED
          BY <5>1, <5>2, NoneApart
      <4>4. j # i
        BY <1>4, <3>2, <4>2, <4>3
      <4> QED
        BY <2>1, <4>2, <4>4
    <3> QED
      BY <3>1, <3>2
  <2>4. \A j \in Slot : b[j].stream # None =>
          \/ b[j].refused /\ ~b[j].told
          \/ /\ b[j].stream = adm[j].stream /\ (b[j].told <=> adm[j].told)
             /\ (b[j].refused <=> adm[j].refused)
    BY <1>4, <2>1 DEF ClaimedTo
  <2>5. \A j \in Slot : adm[j].stream # None =>
          /\ b[j].stream = adm[j].stream /\ (b[j].told <=> adm[j].told)
          /\ (b[j].refused <=> adm[j].refused)
    BY <1>4, <2>1 DEF ClaimedTo
  <2>6. \A j \in Slot : b[j].wanted => Wanted(b[j].stream)
    BY <1>4, <2>1 DEF ClaimedTo
  <2> QED
    BY <2>1, <2>2, <2>3, <2>4, <2>5, <2>6 DEF ClaimedTo
<1>5. CASE Wanted(s) /\ own # {}
  <2> DEFINE i == Min(own)
  <2>1. i \in own
    BY <1>5, LeastSlot DEF Slot
  <2>2. b = [a EXCEPT ![i] = asks(a[i])]
    BY <1>5 DEF Asked
  <2> HIDE DEF i, asks, b
  <2>3. a[i] \in SlotRec /\ a[i].stream = s /\ i \in Slot
    BY <2>1 DEF ClaimedTo
  <2>4. /\ asks(a[i]) \in SlotRec /\ asks(a[i]).stream = s /\ asks(a[i]).wanted = TRUE
        /\ asks(a[i]).refused = a[i].refused /\ asks(a[i]).told = a[i].told
    BY <1>2, <1>5, <2>3
  <2>5. \A j \in Slot : a[j].stream = s => j = i
    BY <1>3, <2>3 DEF ClaimedTo, Unique
  <2>6. \/ a[i].refused /\ ~a[i].told /\ adm[i].stream = None
        \/ /\ a[i].stream = adm[i].stream /\ (a[i].told <=> adm[i].told)
           /\ (a[i].refused <=> adm[i].refused)
    BY <1>3, <2>3 DEF ClaimedTo
  <2>7. ClaimedTo(m, b)
    BY <1>4, <1>5, <2>2, <2>3, <2>4, <2>5, <2>6
  <2> QED
    BY <2>7 DEF b
<1>6. CASE Wanted(s) /\ own = {}
  <2>0. spare # {}
    <3>1. Unique(a) /\ \A i \in Slot : a[i].stream \in Stream \cup {None}
      BY DEF ClaimedTo, SlotRec
    <3>2. \A i \in Slot : a[i].stream # s
      BY <1>6
    <3>3. s \in Stream
      OBVIOUS
    <3> HIDE DEF s
    <3>4. \E i \in Slot : a[i].stream = None
      BY <3>1, <3>2, <3>3, SlotLeft
    <3> QED
      BY <3>4
  <2> DEFINE i == Min(spare)
  <2>1. i \in spare
    BY <2>0, LeastSlot DEF Slot
  <2>2. b = [a EXCEPT ![i] = asks(fresh)]
    BY <1>6, <2>0 DEF Asked
  <2>3. fresh \in SlotRec /\ fresh.refused = TRUE /\ fresh.told = FALSE
    BY DEF Free, SlotRec
  <2> HIDE DEF i, asks, fresh, b
  <2>4. /\ asks(fresh) \in SlotRec /\ asks(fresh).stream = s /\ asks(fresh).wanted = TRUE
        /\ asks(fresh).refused = fresh.refused /\ asks(fresh).told = fresh.told
    BY <1>2, <1>6, <2>3
  <2>5. i \in Slot /\ a[i].stream = None /\ \A j \in Slot : a[j].stream = s => j = i
    BY <1>6, <2>1
  <2>7. adm[i].stream = None
    BY <2>5 DEF ClaimedTo
  <2>6. ClaimedTo(m, b)
    BY <1>4, <1>6, <2>2, <2>3, <2>4, <2>5, <2>7
  <2> QED
    BY <2>6 DEF b
<1> QED
  BY <1>1, <1>5, <1>6

LEMMA ClaimsTo == AdmInv /\ Unique(adm) => ClaimedTo(Len(rows), Claims)
<1> SUFFICES ASSUME AdmInv, Unique(adm) PROVE ClaimedTo(Len(rows), Claims)
  OBVIOUS
<1> DEFINE base == [i \in Slot |-> [adm[i] EXCEPT !.wanted = FALSE]]
           n == Len(rows)
<1>1. ClaimedTo(0, base)
  <2>1. \A i \in Slot :
          /\ base[i] \in SlotRec /\ base[i].stream = adm[i].stream
          /\ base[i].refused = adm[i].refused /\ base[i].told = adm[i].told
          /\ base[i].wanted = FALSE
    BY DEF AdmInv, AdmForm, SlotRec
  <2>2. base = [i \in Slot |-> base[i]]
    OBVIOUS
  <2> HIDE DEF base
  <2> QED
    BY <2>1, <2>2 DEF ClaimedTo, Unique
<1>2. n \in Nat /\ DOMAIN rows = 1..n /\ \A m \in 1..n : rows[m] \in Stream
  BY DEF AdmInv, RowsForm
<1> HIDE DEF base, n
<1>3. PICK r : AskRun(r, base, rows, n)
  BY <1>2, AsksRun
<1>4. /\ r[0] = base /\ r[n] = AskAll(base, rows)
      /\ \A m \in 1..n : r[m] = Asked(r[m - 1], rows[m])
  BY <1>3 DEF AskRun
<1> DEFINE T == {m \in 0..n : ClaimedTo(m, r[m])}
<1>5. 0 \in T
  BY <1>1, <1>2, <1>4
<1>6. ASSUME NEW m \in 0..n, m \in T, m < n PROVE m + 1 \in T
  <2>1. m + 1 \in 1..n /\ (m + 1) - 1 = m /\ m + 1 \in Nat /\ m + 1 # 0
    BY <1>2, <1>6
  <2>2. r[m + 1] = Asked(r[m], rows[m + 1]) /\ rows[m + 1] \in Stream
    BY <1>2, <1>4, <2>1
  <2>3. ClaimedTo((m + 1) - 1, r[m])
    BY <1>6, <2>1
  <2>4. ClaimedTo(m + 1, Asked(r[m], rows[m + 1]))
    BY <2>1, <2>2, <2>3, AskedTo
  <2> QED
    BY <2>1, <2>2, <2>4
<1>7. \A m \in 0..n : m \in T /\ m < n => m + 1 \in T
  BY <1>6
<1> HIDE DEF T
<1>8. n \in T
  <2>1. \A m \in 0..n : m \in T
    BY <1>2, <1>5, <1>7, Counting
  <2>2. n \in 0..n
    BY <1>2
  <2> QED
    BY <2>1, <2>2
<1>9. Claims = AskAll(base, rows)
  BY Zenon DEF Claims, AskAll, base
<1> QED
  BY <1>4, <1>8, <1>9 DEF T, n

LEMMA MergedSame ==
  ASSUME NEW a, NEW b, Unique(a), Unique(b), NEW i \in Slot, NEW row,
         a[i].stream = b[i].stream, a[i].stream # None, a[i].refused <=> b[i].refused
  PROVE  Merged(a, a[i].stream, row) = Merged(b, a[i].stream, row)
<1>1. Refused(a, a[i].stream) <=> Refused(b, a[i].stream)
  BY RefusedIs
<1> QED
  BY <1>1 DEF Merged

\* After the decisions about the slots up to m.
Merging(m, x) ==
  /\ x = [adm |-> x.adm, ours |-> x.ours, up |-> x.up, decided |-> x.decided]
  /\ x.adm \in [Slot -> SlotRec] /\ x.up \in [Stream -> UpRec]
  /\ Unique(x.adm) /\ GoneWithdrawn(x.up) /\ DecidedDeclared(x.adm, x.up)
  /\ \A i \in 1..m : x.adm[i].stream # None => x.adm[i].told \/ ~x.adm[i].refused
  /\ \A s \in Stream : Wanted(s) =>
       \E i \in Slot : x.adm[i].stream = s /\ x.adm[i].wanted

LEMMA ClaimsMerge ==
  ASSUME AdmInv, UpstreamInv
  PROVE  Merging(0, [adm |-> Claims, ours |-> ours, up |-> up, decided |-> FALSE])
<1> DEFINE x == [adm |-> Claims, ours |-> ours, up |-> up, decided |-> FALSE]
<1>1. ClaimedTo(Len(rows), Claims)
  BY ClaimsTo DEF UpstreamInv
<1>2. x = [adm |-> x.adm, ours |-> x.ours, up |-> x.up, decided |-> x.decided]
      /\ x.adm = Claims /\ x.up = up
  OBVIOUS
<1> HIDE DEF x
<1>3. DecidedDeclared(Claims, up)
  <2> SUFFICES ASSUME NEW i \in Slot, Claims[i].stream # None,
                      Claims[i].told \/ ~Claims[i].refused,
                      listener[Claims[i].stream].reg = "IN",
                      Declaring(up[Claims[i].stream])
               PROVE  up[Claims[i].stream].decl
                        = Merged(Claims, Claims[i].stream, listener[Claims[i].stream])
    BY DEF DecidedDeclared
  <2>1. /\ Claims[i].stream = adm[i].stream /\ (Claims[i].told <=> adm[i].told)
        /\ (Claims[i].refused <=> adm[i].refused)
    BY <1>1 DEF ClaimedTo
  <2>2. up[adm[i].stream].decl = Merged(adm, adm[i].stream, listener[adm[i].stream])
    BY <2>1 DEF UpstreamInv, DecidedDeclared
  <2>3. Unique(Claims) /\ Unique(adm)
    BY <1>1 DEF ClaimedTo, UpstreamInv
  <2> QED
    BY <2>1, <2>2, <2>3, MergedSame
<1>4. ASSUME NEW s \in Stream, Wanted(s)
      PROVE  \E i \in Slot : Claims[i].stream = s /\ Claims[i].wanted
  <2>1. PICK k \in DOMAIN rows : rows[k] = s
    BY <1>4 DEF Wanted
  <2>2. k \in 1..Len(rows)
    BY <2>1 DEF AdmInv, RowsForm
  <2> QED
    BY <1>1, <1>4, <2>1, <2>2 DEF ClaimedTo
<1>5. 1..0 = {}
  OBVIOUS
<1>6. /\ Claims \in [Slot -> SlotRec] /\ Unique(Claims)
      /\ up \in [Stream -> UpRec] /\ GoneWithdrawn(up)
  BY <1>1 DEF ClaimedTo, UpstreamInv, StationForm
<1>7. Merging(0, x)
  BY <1>2, <1>3, <1>4, <1>5, <1>6 DEF Merging
<1> QED
  BY <1>7 DEF x

LEMMA DecideMerges ==
  ASSUME StationForm, NEW m \in Slot, NEW x, Merging(m - 1, x)
  PROVE  Merging(m, Decide(x, m))
<1> DEFINE slot == x.adm[m]
           s == slot.stream
           propagated(a) == [x.up EXCEPT ![s] = Propagated(@, a, s, listener[s])]
           y == Decide(x, m)
<1>0. /\ Size \in Nat /\ slot \in SlotRec /\ x.adm \in [Slot -> SlotRec]
      /\ m \in 1..Size /\ \A i \in 1..m : i = m \/ i \in 1..(m - 1)
  BY SlotsFinite DEF Merging, Slot
<1>x. /\ x.up \in [Stream -> UpRec] /\ Unique(x.adm) /\ GoneWithdrawn(x.up)
      /\ DecidedDeclared(x.adm, x.up)
      /\ \A i \in 1..(m - 1) : x.adm[i].stream # None => x.adm[i].told \/ ~x.adm[i].refused
      /\ \A q \in Stream : Wanted(q) =>
           \E i \in Slot : x.adm[i].stream = q /\ x.adm[i].wanted
  BY DEF Merging
<1> HIDE DEF propagated
\* Nothing is done about the slot.
<1>1. ASSUME y = x, s = None \/ slot.told \/ ~slot.refused PROVE Merging(m, y)
  <2> HIDE DEF y
  <2> QED
    BY <1>0, <1>1 DEF Merging
\* It is released.
<1>2. ASSUME s # None, ~slot.wanted PROVE Merging(m, y)
  <2> DEFINE b == [x.adm EXCEPT ![m] = Free]
             o == [x.ours EXCEPT ![s] = IF slot.told /\ Talking(s)
                                        THEN Redeclared(s, FALSE) ELSE @]
  <2>1. y = [x EXCEPT !.adm[m] = Free,
                      !.ours[s] = IF slot.told /\ Talking(s)
                                  THEN Redeclared(s, FALSE) ELSE @]
    BY <1>2 DEF Decide
  <2>2. y = [x EXCEPT !.adm = b, !.ours = o]
    BY <2>1 DEF Merging
  <2>3. Free \in SlotRec /\ Free.stream = None
    BY DEF Free, SlotRec
  <2> HIDE DEF b, o, y
  <2>4. y = [adm |-> b, ours |-> o, up |-> x.up, decided |-> x.decided]
    BY <2>2 DEF Merging
  <2>5. b \in [Slot -> SlotRec] /\ \A i \in Slot : b[i] = IF i = m THEN Free ELSE x.adm[i]
    BY <1>0, <2>3 DEF b
  <2>6. Unique(b)
    BY <1>x, <2>3, <2>5 DEF Unique
  <2>7. DecidedDeclared(b, x.up)
    <3> SUFFICES ASSUME NEW i \in Slot, b[i].stream # None, b[i].told \/ ~b[i].refused,
                        listener[b[i].stream].reg = "IN", Declaring(x.up[b[i].stream])
                 PROVE  x.up[b[i].stream].decl = Merged(b, b[i].stream, listener[b[i].stream])
      BY DEF DecidedDeclared
    <3>1. b[i] = x.adm[i]
      BY <2>3, <2>5
    <3>2. x.up[b[i].stream].decl = Merged(x.adm, b[i].stream, listener[b[i].stream])
      BY <1>x, <3>1 DEF DecidedDeclared
    <3> QED
      BY <1>x, <2>6, <3>1, <3>2, MergedSame
  <2>8. \A q \in Stream : Wanted(q) => \E i \in Slot : b[i].stream = q /\ b[i].wanted
    BY <1>x, <1>2, <2>5
  <2>9. \A i \in 1..m : b[i].stream # None => b[i].told \/ ~b[i].refused
    BY <1>0, <1>x, <2>3, <2>5 DEF Slot
  <2>10. y.adm = b /\ y.up = x.up
         /\ y = [adm |-> y.adm, ours |-> y.ours, up |-> y.up, decided |-> y.decided]
    BY <2>4
  <2>11. Merging(m, y)
    BY <1>x, <2>5, <2>6, <2>7, <2>8, <2>9, <2>10 DEF Merging
  <2> QED
    BY <2>11
\* It is admitted or refused, and what is declared upstream is merged anew.
<1>3. ASSUME NEW f \in SlotRec, NEW o, NEW d, s # None, slot.wanted,
             f.stream = s, f.wanted, f.told \/ ~f.refused,
             y = [adm |-> [x.adm EXCEPT ![m] = f],
                  up |-> propagated([x.adm EXCEPT ![m] = f]), decided |-> d, ours |-> o]
      PROVE  Merging(m, y)
  <2> DEFINE b == [x.adm EXCEPT ![m] = f]
             u == propagated(b)
  <2>1. y.adm = b /\ y.up = u
        /\ y = [adm |-> y.adm, ours |-> y.ours, up |-> y.up, decided |-> y.decided]
    BY <1>3
  <2>2. b \in [Slot -> SlotRec] /\ b[m] = f /\ \A i \in Slot \ {m} : b[i] = x.adm[i]
    BY <1>0
  <2> HIDE DEF b, u, y
  <2>3. s \in Stream
    BY <1>0, <1>3 DEF SlotRec
  <2> DEFINE p == Propagated(x.up[s], b, s, listener[s])
  <2>4. /\ p \in UpRec
        /\ listener[s].reg = "IN" => p.decl = Merged(b, s, listener[s])
        /\ listener[s].reg # "IN" => ~Declaring(p)
    <3>1. x.up[s] \in UpRec /\ listener[s] \in [reg : RegistrarState, decl : Decl]
      BY <1>x, <2>3 DEF StationForm
    <3> QED
      BY <3>1, PropagatedIs
  <2>5. u = [x.up EXCEPT ![s] = p]
    BY DEF u, propagated
  <2> HIDE DEF p
  <2>6. u \in [Stream -> UpRec] /\ u[s] = p /\ \A q \in Stream \ {s} : u[q] = x.up[q]
    BY <1>x, <2>3, <2>4, <2>5
  <2>7. Unique(b)
    BY <1>x, <1>3, <2>2 DEF Unique
  <2>8. GoneWithdrawn(u)
    BY <1>x, <2>4, <2>6 DEF GoneWithdrawn
  <2>9. DecidedDeclared(b, u)
    <3> SUFFICES ASSUME NEW i \in Slot, b[i].stream # None, b[i].told \/ ~b[i].refused,
                        listener[b[i].stream].reg = "IN", Declaring(u[b[i].stream])
                 PROVE  u[b[i].stream].decl = Merged(b, b[i].stream, listener[b[i].stream])
      BY DEF DecidedDeclared
    <3>1. CASE i = m
      BY <1>3, <2>2, <2>4, <2>6, <3>1
    <3>2. CASE i # m
      <4>1. b[i] = x.adm[i] /\ b[i].stream \in Stream
        BY <1>0, <2>2, <3>2 DEF SlotRec
      <4>2. b[i].stream # s
        BY <1>3, <2>2, <2>7, <3>2 DEF Unique
      <4>3. u[b[i].stream] = x.up[b[i].stream]
        BY <2>6, <4>1, <4>2
      <4>4. x.up[b[i].stream].decl = Merged(x.adm, b[i].stream, listener[b[i].stream])
        BY <1>x, <4>1, <4>3 DEF DecidedDeclared
      <4> QED
        BY <1>x, <2>7, <4>1, <4>3, <4>4, MergedSame
    <3> QED
      BY <3>1, <3>2
  <2>10. \A q \in Stream : Wanted(q) => \E i \in Slot : b[i].stream = q /\ b[i].wanted
    <3> SUFFICES ASSUME NEW q \in Stream, Wanted(q)
                 PROVE  \E i \in Slot : b[i].stream = q /\ b[i].wanted
      OBVIOUS
    <3>1. PICK i \in Slot : x.adm[i].stream = q /\ x.adm[i].wanted
      BY <1>x
    <3>2. b[i].stream = q /\ b[i].wanted
      BY <1>3, <2>2, <3>1
    <3> QED
      BY <3>2
  <2>11. \A i \in 1..m : b[i].stream # None => b[i].told \/ ~b[i].refused
    BY <1>0, <1>x, <1>3, <2>2 DEF Slot
  <2>12. Merging(m, y)
    BY <2>1, <2>2, <2>6, <2>7, <2>8, <2>9, <2>10, <2>11 DEF Merging
  <2> QED
    BY <2>12
<1>4. CASE s = None \/ (slot.wanted /\ ~slot.refused)
  <2>1. y = x
    BY <1>4 DEF Decide
  <2> QED
    BY <1>1, <1>4, <2>1
<1>5. CASE s # None /\ slot.wanted /\ slot.refused /\ Fits(x.adm, m)
  <2> DEFINE b == [x.adm EXCEPT ![m].refused = FALSE, ![m].told = FALSE]
             f == [slot EXCEPT !.refused = FALSE, !.told = FALSE]
             o == IF slot.told THEN [x.ours EXCEPT ![s] = Redeclared(s, FALSE)] ELSE x.ours
  <2>1. y = [adm |-> b, up |-> propagated(b), decided |-> TRUE, ours |-> o]
    BY <1>5 DEF Decide, propagated
  <2>2. b = [x.adm EXCEPT ![m] = f]
    BY <1>0
  <2>3. f \in SlotRec /\ f.stream = s /\ f.wanted /\ ~f.refused
    BY <1>0, <1>5 DEF SlotRec
  <2> HIDE DEF b, f, o, y
  <2>4. y = [adm |-> [x.adm EXCEPT ![m] = f], up |-> propagated([x.adm EXCEPT ![m] = f]),
             decided |-> TRUE, ours |-> o]
    BY <2>1, <2>2
  <2>5. Merging(m, y)
    BY <1>3, <1>5, <2>3, <2>4
  <2> QED
    BY <2>5 DEF y
<1>6. CASE s # None /\ slot.wanted /\ slot.refused /\ ~Fits(x.adm, m) /\ slot.told
  <2>1. y = x
    BY <1>6 DEF Decide
  <2> QED
    BY <1>1, <1>6, <2>1
<1>7. CASE s # None /\ slot.wanted /\ slot.refused /\ ~Fits(x.adm, m) /\ ~slot.told
  <2> DEFINE b == [x.adm EXCEPT ![m].told = TRUE]
             f == [slot EXCEPT !.told = TRUE]
             o == [x.ours EXCEPT ![s] = Redeclared(s, TRUE)]
  <2>1. y = [adm |-> b, up |-> propagated(b), decided |-> TRUE, ours |-> o]
    BY <1>7 DEF Decide, propagated
  <2>2. b = [x.adm EXCEPT ![m] = f]
    BY <1>0
  <2>3. f \in SlotRec /\ f.stream = s /\ f.wanted /\ f.told
    BY <1>0, <1>7 DEF SlotRec
  <2> HIDE DEF b, f, o, y
  <2>4. y = [adm |-> [x.adm EXCEPT ![m] = f], up |-> propagated([x.adm EXCEPT ![m] = f]),
             decided |-> TRUE, ours |-> o]
    BY <2>1, <2>2
  <2>5. Merging(m, y)
    BY <1>3, <1>7, <2>3, <2>4
  <2> QED
    BY <2>5 DEF y
<1>8. CASE s # None /\ ~slot.wanted
  <2>1. Merging(m, y)
    BY <1>2, <1>8
  <2> QED
    BY <2>1
<1> QED
  BY <1>4, <1>5, <1>6, <1>7, <1>8

(***************************************************************************)
(* What the stations are told of a talker.                                 *)
(***************************************************************************)
OursRec == [adv : Value \cup {None}, fail : Value \cup {None}]

\* What is declared follows the talker: nothing once it is gone.
Follows(t, o) ==
  /\ t.reg = "IN" => t.prop # None
  /\ t.prop # None => t.prop = t.val
  /\ t.reg = "MT" => t.prop = None /\ o = Withdrawn

\* Failed exactly while it is refused; with the MAP still to run, not otherwise.
ToldAs(t, o, refused) ==
  IF t.prop = None
  THEN (o.fail # None => refused) /\ (o.adv # None => ~refused)
  ELSE Allowed(t.val) =>
         ((o.fail # None) <=> refused) /\ ((o.adv # None) <=> ~refused)

ToldInv ==
  /\ ours \in [Stream -> OursRec]
  /\ \A s \in Stream : /\ Follows(talker[s], ours[s])
                       /\ ToldAs(talker[s], ours[s], Refused(adm, s))

\* Refused, and the stations were told.
ToldSo(a, s) == \E i \in Slot : a[i].stream = s /\ a[i].refused /\ a[i].told

\* What was decided about is as it was.
Kept(a) ==
  \A i \in Slot : a[i].stream # None /\ (a[i].told \/ ~a[i].refused) =>
    a[i].stream = adm[i].stream /\ (a[i].refused <=> adm[i].refused)

Telling(x) ==
  /\ x.ours \in [Stream -> OursRec] /\ x.decided \in BOOLEAN
  /\ \A s \in Stream : /\ Follows(talker[s], x.ours[s])
                       /\ ToldAs(talker[s], x.ours[s], ToldSo(x.adm, s))
  /\ \A i \in Slot : x.adm[i].wanted => Wanted(x.adm[i].stream)
  /\ ~x.decided => Kept(x.adm)

LEMMA ClaimsTell ==
  ASSUME AdmInv, UpstreamInv, ToldInv
  PROVE  Telling([adm |-> Claims, ours |-> ours, up |-> up, decided |-> FALSE])
<1> DEFINE no == FALSE
           x == [adm |-> Claims, ours |-> ours, up |-> up, decided |-> no]
<1>1. ClaimedTo(Len(rows), Claims)
  BY ClaimsTo DEF UpstreamInv
<1>2. no \in BOOLEAN /\ ~no
  OBVIOUS
<1> HIDE DEF no
<1>3. x.adm = Claims /\ x.ours = ours /\ x.decided = no
  OBVIOUS
<1> HIDE DEF x
<1>4. ASSUME NEW s \in Stream PROVE ToldSo(Claims, s) <=> Refused(adm, s)
  <2>1. s # None
    BY NoneApart
  <2>2. ASSUME ToldSo(Claims, s) PROVE Refused(adm, s)
    <3>1. PICK i \in Slot : Claims[i].stream = s /\ Claims[i].refused /\ Claims[i].told
      BY <2>2 DEF ToldSo
    <3> QED
      BY <1>1, <2>1, <3>1 DEF ClaimedTo, Refused
  <2>3. ASSUME Refused(adm, s) PROVE ToldSo(Claims, s)
    <3>1. PICK i \in Slot : adm[i].stream = s /\ adm[i].refused
      BY <2>3 DEF Refused
    <3>2. adm[i].told
      BY <2>1, <3>1 DEF UpstreamInv, NoneUndecided
    <3> QED
      BY <1>1, <2>1, <3>1, <3>2 DEF ClaimedTo, ToldSo
  <2> QED
    BY <2>2, <2>3
<1>5. \A s \in Stream : /\ Follows(talker[s], ours[s])
                        /\ ToldAs(talker[s], ours[s], ToldSo(Claims, s))
  BY <1>4 DEF ToldInv, ToldAs
<1>6. Kept(Claims)
  BY <1>1 DEF ClaimedTo, Kept
<1>7. \A i \in Slot : Claims[i].wanted => Wanted(Claims[i].stream)
  BY <1>1 DEF ClaimedTo
<1>8. Telling(x)
  BY <1>2, <1>3, <1>5, <1>6, <1>7 DEF Telling, ToldInv
<1> QED
  BY <1>8 DEF x, no

\* A stream that is declared anew is told as it was decided.
LEMMA RedeclaredTold ==
  ASSUME AdmInv, NEW s \in Stream, Talking(s), NEW refused \in BOOLEAN,
         NEW o, Follows(talker[s], o)
  PROVE  /\ Redeclared(s, refused) \in OursRec
         /\ Follows(talker[s], Redeclared(s, refused))
         /\ ToldAs(talker[s], Redeclared(s, refused), refused)
<1> DEFINE d == Redeclared(s, refused)
<1>1. talker[s].val \in Value /\ talker[s].reg # "MT" /\ None \notin Value
  <2>1. None \notin Value
    BY Zenon, WifiPortAssumption
  <2> QED
    BY <2>1 DEF AdmInv, TalkerForm, Talking
<1>2. /\ d \in OursRec
      /\ d.fail = IF refused THEN talker[s].val ELSE None
      /\ d.adv = IF refused THEN None ELSE talker[s].val
  BY <1>1 DEF Redeclared, Withdrawn, OursRec
<1> HIDE DEF d
<1>3. Follows(talker[s], d)
  BY <1>1 DEF Follows
<1>4. ToldAs(talker[s], d, refused)
  BY <1>1, <1>2 DEF ToldAs
<1> QED
  BY <1>2, <1>3, <1>4 DEF d

\* One slot changed, and what is told of its stream with it.
LEMMA SlotTold ==
  ASSUME NEW x, NEW m \in Slot, NEW b, NEW s \in Stream, NEW o, NEW ob,
         Unique(x.adm), Unique(b), x.adm[m].stream = s,
         b[m].stream \in {s, None}, \A i \in Slot \ {m} : b[i] = x.adm[i],
         x.ours \in [Stream -> OursRec], o = [x.ours EXCEPT ![s] = ob],
         ob \in OursRec, Follows(talker[s], ob),
         ToldAs(talker[s], ob, b[m].stream = s /\ b[m].refused /\ b[m].told),
         \A q \in Stream : /\ Follows(talker[q], x.ours[q])
                           /\ ToldAs(talker[q], x.ours[q], ToldSo(x.adm, q))
  PROVE  /\ o \in [Stream -> OursRec]
         /\ \A q \in Stream : /\ Follows(talker[q], o[q])
                              /\ ToldAs(talker[q], o[q], ToldSo(b, q))
<1>1. o \in [Stream -> OursRec] /\ o[s] = ob /\ \A q \in Stream \ {s} : o[q] = x.ours[q]
  OBVIOUS
<1>0. s # None /\ \A q \in Stream : q # None
  BY NoneApart
<1>2. ToldSo(b, s) <=> b[m].stream = s /\ b[m].refused /\ b[m].told
  <2>1. \A i \in Slot \ {m} : b[i].stream # s
    BY <1>0 DEF Unique
  <2> QED
    BY <2>1 DEF ToldSo
<1>3. ASSUME NEW q \in Stream \ {s} PROVE ToldSo(b, q) <=> ToldSo(x.adm, q)
  BY <1>0, <1>3 DEF ToldSo
<1>4. ASSUME NEW q \in Stream
      PROVE  Follows(talker[q], o[q]) /\ ToldAs(talker[q], o[q], ToldSo(b, q))
  <2>1. CASE q = s
    BY <1>1, <1>2, <2>1 DEF ToldAs
  <2>2. CASE q # s
    BY <1>1, <1>3, <2>2 DEF ToldAs
  <2> QED
    BY <2>1, <2>2
<1> QED
  BY <1>1, <1>4

LEMMA DecideTells ==
  ASSUME AdmInv, StationForm, NEW m \in Slot, NEW x, Merging(m - 1, x), Telling(x)
  PROVE  Telling(Decide(x, m))
<1> DEFINE slot == x.adm[m]
           s == slot.stream
           propagated(a) == [x.up EXCEPT ![s] = Propagated(@, a, s, listener[s])]
           y == Decide(x, m)
<1>0. slot \in SlotRec /\ x.adm \in [Slot -> SlotRec] /\ Unique(x.adm)
  BY DEF Merging
<1>x. /\ x.ours \in [Stream -> OursRec] /\ x.decided \in BOOLEAN
      /\ \A q \in Stream : /\ Follows(talker[q], x.ours[q])
                           /\ ToldAs(talker[q], x.ours[q], ToldSo(x.adm, q))
      /\ \A i \in Slot : x.adm[i].wanted => Wanted(x.adm[i].stream)
      /\ ~x.decided => Kept(x.adm)
  BY DEF Telling
<1>s. s # None => s \in Stream
  BY <1>0 DEF SlotRec
<1>p. s # None => (ToldSo(x.adm, s) <=> slot.refused /\ slot.told)
  BY <1>0 DEF ToldSo, Unique
<1> HIDE DEF propagated
\* It is released.
<1>2. ASSUME s # None, ~slot.wanted PROVE Telling(y)
  <2> DEFINE b == [x.adm EXCEPT ![m] = Free]
             ob == IF slot.told /\ Talking(s) THEN Redeclared(s, FALSE) ELSE x.ours[s]
             o == [x.ours EXCEPT ![s] = ob]
  <2>1. y = [x EXCEPT !.adm[m] = Free,
                      !.ours[s] = IF slot.told /\ Talking(s)
                                  THEN Redeclared(s, FALSE) ELSE @]
    BY <1>2 DEF Decide
  <2>2. y = [x EXCEPT !.adm = b, !.ours = o]
    BY <2>1 DEF Merging
  <2>3. Free \in SlotRec /\ Free.stream = None /\ Free.wanted = FALSE
    BY DEF Free, SlotRec
  <2> HIDE DEF b, o, y, ob
  <2>4. y = [adm |-> b, ours |-> o, up |-> x.up, decided |-> x.decided]
    BY <2>2 DEF Merging
  <2>5. \A i \in Slot : b[i] = IF i = m THEN Free ELSE x.adm[i]
    BY <1>0, <2>3 DEF b
  <2>6. Unique(b)
    BY <1>0, <2>3, <2>5 DEF Unique
  <2>7. ob \in OursRec /\ Follows(talker[s], ob) /\ ToldAs(talker[s], ob, FALSE)
    <3>1. CASE slot.told /\ Talking(s)
      <4>1. /\ Redeclared(s, FALSE) \in OursRec
            /\ Follows(talker[s], Redeclared(s, FALSE))
            /\ ToldAs(talker[s], Redeclared(s, FALSE), FALSE)
        <5> DEFINE no == FALSE
        <5>1. no \in BOOLEAN
          OBVIOUS
        <5> HIDE DEF no
        <5>2. /\ Redeclared(s, no) \in OursRec
              /\ Follows(talker[s], Redeclared(s, no))
              /\ ToldAs(talker[s], Redeclared(s, no), no)
          BY <1>2, <1>s, <1>x, <3>1, <5>1, RedeclaredTold
        <5> QED
          BY <5>2 DEF no
      <4> QED
        BY <3>1, <4>1 DEF ob
    <3>2. CASE ~slot.told
      <4>1. ob = x.ours[s] /\ ~ToldSo(x.adm, s)
        BY <1>2, <1>p, <3>2 DEF ob
      <4> QED
        BY <1>2, <1>s, <1>x, <4>1 DEF ToldAs
    <3>3. CASE ~Talking(s)
      <4>1. ob = x.ours[s]
        BY <3>3 DEF ob
      <4>2. talker[s].reg = "MT"
        BY <1>2, <1>s, <3>3 DEF AdmInv, TalkerForm, Talking, RegistrarState
      <4>3. talker[s].prop = None /\ x.ours[s] = Withdrawn
        BY <1>2, <1>s, <1>x, <4>2 DEF Follows
      <4>4. ToldAs(talker[s], Withdrawn, FALSE)
        BY <4>3 DEF ToldAs, Withdrawn
      <4> QED
        BY <1>2, <1>s, <1>x, <4>1, <4>3, <4>4
    <3> QED
      BY <3>1, <3>2, <3>3
  <2>8. b[m].stream = None /\ \A i \in Slot \ {m} : b[i] = x.adm[i]
    BY <2>3, <2>5
  <2>9. ToldAs(talker[s], ob, b[m].stream = s /\ b[m].refused /\ b[m].told)
    BY <1>2, <2>7, <2>8 DEF ToldAs
  <2>10. /\ o \in [Stream -> OursRec]
         /\ \A q \in Stream : /\ Follows(talker[q], o[q])
                              /\ ToldAs(talker[q], o[q], ToldSo(b, q))
    <3>1. s \in Stream /\ x.adm[m].stream = s /\ b[m].stream \in {s, None}
      BY <1>2, <1>s, <2>8
    <3>2. o = [x.ours EXCEPT ![s] = ob]
      BY DEF o
    <3> HIDE DEF s, slot
    <3> QED
      BY <1>0, <1>x, <2>6, <2>7, <2>8, <2>9, <3>1, <3>2, SlotTold
  <2>11. \A i \in Slot : b[i].wanted => Wanted(b[i].stream)
    BY <1>x, <2>3, <2>5
  <2>12. ~x.decided => Kept(b)
    BY <1>x, <2>3, <2>5 DEF Kept
  <2>13. y.adm = b /\ y.ours = o /\ y.decided = x.decided
    BY <2>4
  <2> QED
    BY <1>x, <2>10, <2>11, <2>12, <2>13 DEF Telling
\* It is admitted or refused.
<1>3. ASSUME NEW f \in SlotRec, NEW ob, s # None, slot.wanted, f.stream = s,
             ob \in OursRec, Follows(talker[s], ob),
             ToldAs(talker[s], ob, f.refused /\ f.told),
             y.adm = [x.adm EXCEPT ![m] = f],
             y.ours = [x.ours EXCEPT ![s] = ob], y.decided = TRUE
      PROVE  Telling(y)
  <2> DEFINE b == [x.adm EXCEPT ![m] = f]
             o == [x.ours EXCEPT ![s] = ob]
  <2>1. b[m] = f /\ \A i \in Slot \ {m} : b[i] = x.adm[i]
    BY <1>0
  <2>2. y.adm = b /\ y.ours = o
    BY <1>3
  <2> HIDE DEF b, o, y
  <2>3. Unique(b)
    BY <1>0, <1>3, <2>1 DEF Unique
  <2>4. ToldAs(talker[s], ob, b[m].stream = s /\ b[m].refused /\ b[m].told)
    BY <1>3, <2>1 DEF ToldAs
  <2>5. /\ o \in [Stream -> OursRec]
        /\ \A q \in Stream : /\ Follows(talker[q], o[q])
                             /\ ToldAs(talker[q], o[q], ToldSo(b, q))
    BY <1>0, <1>3, <1>s, <1>x, <2>1, <2>3, <2>4, SlotTold DEF o
  <2>6. \A i \in Slot : b[i].wanted => Wanted(b[i].stream)
    BY <1>x, <1>3, <2>1
  <2> QED
    BY <1>3, <2>2, <2>5, <2>6 DEF Telling
<1>w. s # None /\ slot.wanted => Talking(s)
  BY <1>x DEF Wanted
<1>4. CASE \/ s = None \/ (slot.wanted /\ ~slot.refused)
           \/ (slot.wanted /\ slot.refused /\ ~Fits(x.adm, m) /\ slot.told)
  <2>1. y = x
    BY <1>4 DEF Decide
  <2> QED
    BY <2>1
<1>5. CASE s # None /\ slot.wanted /\ slot.refused /\ Fits(x.adm, m)
  <2> DEFINE b == [x.adm EXCEPT ![m].refused = FALSE, ![m].told = FALSE]
             f == [slot EXCEPT !.refused = FALSE, !.told = FALSE]
             ob == IF slot.told THEN Redeclared(s, FALSE) ELSE x.ours[s]
             o == IF slot.told THEN [x.ours EXCEPT ![s] = Redeclared(s, FALSE)] ELSE x.ours
  <2>1. y = [adm |-> b, up |-> propagated(b), decided |-> TRUE, ours |-> o]
    BY <1>5 DEF Decide, propagated
  <2>2. b = [x.adm EXCEPT ![m] = f]
    BY <1>0
  <2>3. f \in SlotRec /\ f.stream = s /\ ~f.refused
    BY <1>0 DEF SlotRec
  <2>4. o = [x.ours EXCEPT ![s] = ob]
    BY <1>5, <1>s, <1>x
  <2>5. ob \in OursRec /\ Follows(talker[s], ob) /\ ToldAs(talker[s], ob, FALSE)
    <3>1. CASE slot.told
      <4> DEFINE no == FALSE
      <4>1. no \in BOOLEAN
        OBVIOUS
      <4>2. ob = Redeclared(s, no)
        BY <3>1
      <4> HIDE DEF no, ob
      <4>3. /\ Redeclared(s, no) \in OursRec
            /\ Follows(talker[s], Redeclared(s, no))
            /\ ToldAs(talker[s], Redeclared(s, no), no)
        BY <1>5, <1>s, <1>w, <1>x, <4>1, RedeclaredTold
      <4> QED
        BY <4>2, <4>3 DEF no
    <3>2. CASE ~slot.told
      <4>1. ob = x.ours[s] /\ ~ToldSo(x.adm, s)
        BY <1>5, <1>p, <3>2
      <4> HIDE DEF ob
      <4> QED
        BY <1>5, <1>s, <1>x, <4>1 DEF ToldAs
    <3> QED
      BY <3>1, <3>2
  <2> HIDE DEF b, f, o, ob, y
  <2>6. y.adm = [x.adm EXCEPT ![m] = f] /\ y.ours = [x.ours EXCEPT ![s] = ob]
        /\ y.decided = TRUE
    BY <2>1, <2>2, <2>4
  <2>7. ToldAs(talker[s], ob, f.refused /\ f.told)
    BY <2>3, <2>5 DEF ToldAs
  <2>8. Telling(y)
    BY <1>3, <1>5, <2>3, <2>5, <2>6, <2>7
  <2> QED
    BY <2>8 DEF y
<1>7. CASE s # None /\ slot.wanted /\ slot.refused /\ ~Fits(x.adm, m) /\ ~slot.told
  <2> DEFINE b == [x.adm EXCEPT ![m].told = TRUE]
             f == [slot EXCEPT !.told = TRUE]
             ob == Redeclared(s, TRUE)
             o == [x.ours EXCEPT ![s] = Redeclared(s, TRUE)]
  <2>1. y = [adm |-> b, up |-> propagated(b), decided |-> TRUE, ours |-> o]
    BY <1>7 DEF Decide, propagated
  <2>2. b = [x.adm EXCEPT ![m] = f]
    BY <1>0
  <2>3. f \in SlotRec /\ f.stream = s /\ f.told /\ f.refused
    BY <1>0, <1>7 DEF SlotRec
  <2>4. o = [x.ours EXCEPT ![s] = ob]
    OBVIOUS
  <2>5. ob \in OursRec /\ Follows(talker[s], ob) /\ ToldAs(talker[s], ob, TRUE)
    <3> DEFINE yes == TRUE
    <3>1. yes \in BOOLEAN
      OBVIOUS
    <3>2. ob = Redeclared(s, yes)
      OBVIOUS
    <3> HIDE DEF yes, ob
    <3>3. /\ Redeclared(s, yes) \in OursRec
          /\ Follows(talker[s], Redeclared(s, yes))
          /\ ToldAs(talker[s], Redeclared(s, yes), yes)
      BY <1>7, <1>s, <1>w, <1>x, <3>1, RedeclaredTold
    <3> QED
      BY <3>2, <3>3 DEF yes
  <2> HIDE DEF b, f, o, ob, y
  <2>6. y.adm = [x.adm EXCEPT ![m] = f] /\ y.ours = [x.ours EXCEPT ![s] = ob]
        /\ y.decided = TRUE
    BY <2>1, <2>2, <2>4
  <2>7. ToldAs(talker[s], ob, f.refused /\ f.told)
    BY <2>3, <2>5 DEF ToldAs
  <2>8. Telling(y)
    BY <1>3, <1>7, <2>3, <2>5, <2>6, <2>7
  <2> QED
    BY <2>8 DEF y
<1>8. CASE s # None /\ ~slot.wanted
  <2>1. Telling(y)
    BY <1>2, <1>8
  <2> QED
    BY <2>1
<1> QED
  BY <1>4, <1>5, <1>7, <1>8

LEMMA UpdateMerges ==
  ASSUME AdmInv, UpstreamInv, Update
  PROVE  \E x : /\ Merging(Size, x) /\ (ToldInv => Telling(x))
               /\ adm' = x.adm /\ up' = x.up /\ ours' = x.ours
               /\ task' = IF x.decided THEN Refreshing(FALSE) ELSE Idle
<1> DEFINE base == [adm |-> Claims, ours |-> ours, up |-> up, decided |-> FALSE]
           h == [i \in Slot |-> i]
           x == DecideAll(base, h)
<1>1. /\ adm' = x.adm /\ up' = x.up /\ ours' = x.ours
      /\ task' = IF x.decided THEN Refreshing(FALSE) ELSE Idle
  <2>1. LET z == FoldLeft(Decide, base, h)
        IN  /\ adm' = z.adm /\ up' = z.up /\ ours' = z.ours
            /\ task' = IF z.decided THEN Refreshing(FALSE) ELSE Idle
    BY Zenon DEF Update
  <2> QED
    BY <2>1, Zenon DEF DecideAll
<1>2. Merging(0, base) /\ (ToldInv => Telling(base))
  BY ClaimsMerge, ClaimsTell
<1>3. Size \in Nat /\ DOMAIN h = 1..Size /\ \A m \in 1..Size : h[m] = m /\ m \in Slot
  BY SlotsFinite DEF Slot
<1> HIDE DEF base, h
<1>4. PICK r : DecideRun(r, base, h, Size)
  BY <1>3, DecidesRun
<1>5. /\ r[0] = base /\ r[Size] = x
      /\ \A m \in 1..Size : r[m] = Decide(r[m - 1], h[m])
  BY <1>4 DEF DecideRun
<1> HIDE DEF x
<1> DEFINE T == {m \in 0..Size : Merging(m, r[m]) /\ (ToldInv => Telling(r[m]))}
<1>6. 0 \in T
  BY <1>2, <1>3, <1>5
<1>7. ASSUME NEW m \in 0..Size, m \in T, m < Size PROVE m + 1 \in T
  <2>1. m + 1 \in 1..Size /\ (m + 1) - 1 = m
    BY <1>3, <1>7
  <2>2. r[m + 1] = Decide(r[m], m + 1) /\ m + 1 \in Slot
    BY <1>3, <1>5, <2>1
  <2>3. Merging((m + 1) - 1, r[m])
    BY <1>7, <2>1
  <2>4. StationForm
    BY DEF UpstreamInv
  <2>5. Merging(m + 1, Decide(r[m], m + 1))
    BY <2>2, <2>3, <2>4, DecideMerges
  <2>6. ToldInv => Telling(Decide(r[m], m + 1))
    BY <1>7, <2>2, <2>3, <2>4, DecideTells
  <2> QED
    BY <2>1, <2>2, <2>5, <2>6
<1>8. \A m \in 0..Size : m \in T /\ m < Size => m + 1 \in T
  BY <1>7
<1> HIDE DEF T
<1>9. Size \in T
  <2>1. \A m \in 0..Size : m \in T
    BY <1>3, <1>6, <1>8, Counting
  <2>2. Size \in 0..Size
    BY <1>3
  <2> QED
    BY <2>1, <2>2
<1>10. Merging(Size, x) /\ (ToldInv => Telling(x))
  BY <1>5, <1>9 DEF T
<1> QED
  BY <1>1, <1>10

LEMMA UpstreamInit == Init => UpstreamInv
<1> SUFFICES ASSUME Init PROVE UpstreamInv
  OBVIOUS
<1>1. StationForm /\ GoneWithdrawn(up)
  BY DEF Init, StationForm, UpRec, Decl, ApplicantState, RegistrarState, GoneWithdrawn,
         Declaring
<1>2. AdmitForm
  BY DEF Init, AdmitForm
<1>3. \A i \in Slot : adm[i].stream = None
  BY DEF Init, Free
<1>4. Unique(adm) /\ DecidedDeclared(adm, up) /\ NoneUndecided
  BY <1>3 DEF Unique, DecidedDeclared, NoneUndecided
<1>5. Seated(adm)
  BY DEF Init, Seated, Wanted
<1> QED
  BY <1>1, <1>2, <1>4, <1>5 DEF UpstreamInv

\* The end of a refresh brings the admission if it was asked for.
LEMMA AfterAdmits ==
  ASSUME task.admit \in BOOLEAN, NEW i, task' = After(i)
  PROVE  AdmitForm' /\ (task.admit => Unsettled')
<1> DEFINE left == {j \in Slot : j > i /\ tbl.entry[j] # NextEntry(j)}
           ad == task.admit
<1>1. CASE left # {}
  <2>1. task' = [at |-> "off", i |-> Min(left), admit |-> ad]
    BY <1>1 DEF After
  <2> HIDE DEF ad, left
  <2>2. task'.at = "off" /\ task'.admit = ad
        /\ task' = [at |-> task'.at, i |-> task'.i, admit |-> task'.admit]
    BY <2>1
  <2>3. ad \in BOOLEAN
    BY DEF ad
  <2> QED
    BY <2>2, <2>3 DEF AdmitForm, Writing, Unsettled, ad
<1>2. CASE left = {} /\ tbl.index # NextIndex
  <2>1. task' = [at |-> "index", admit |-> ad]
    BY <1>2 DEF After
  <2> HIDE DEF ad, left
  <2>2. task'.at = "index" /\ task'.admit = ad
        /\ task' = [at |-> task'.at, admit |-> task'.admit]
    BY <2>1
  <2>3. ad \in BOOLEAN
    BY DEF ad
  <2> QED
    BY <2>2, <2>3 DEF AdmitForm, Unsettled, ad
<1>3. CASE left = {} /\ tbl.index = NextIndex
  <2>1. task' = IF task.admit THEN [at |-> "admit"] ELSE Idle
    BY <1>3 DEF After
  <2> QED
    BY <2>1 DEF AdmitForm, Unsettled
<1> QED
  BY <1>1, <1>2, <1>3

\* What the table is written with is no matter here.
LEMMA TaskOnly ==
  ASSUME UpstreamInv, UNCHANGED <<talker, rows, listener, up, adm>>,
         AdmitForm', Unsettled => Unsettled'
  PROVE  UpstreamInv'
<1>1. StationForm' /\ GoneWithdrawn(up)' /\ Unique(adm)' /\ NoneUndecided'
  BY DEF UpstreamInv, StationForm, GoneWithdrawn, Unique, NoneUndecided
<1>2. DecidedDeclared(adm, up)'
  BY DEF UpstreamInv, DecidedDeclared, Merged, Refused
<1>3. Unsettled' \/ Seated(adm)'
  BY DEF UpstreamInv, Seated, Wanted, Talking, Allowed
<1> QED
  BY <1>1, <1>2, <1>3 DEF UpstreamInv

\* A handler that leaves admission and task alone, and wants no more streams.
LEMMA AtRestOnly ==
  ASSUME UpstreamInv, UNCHANGED <<adm, task>>, StationForm', GoneWithdrawn(up)',
         DecidedDeclared(adm, up)', \A s \in Stream : Wanted(s)' => Wanted(s)
  PROVE  UpstreamInv'
<1>1. Unique(adm)' /\ NoneUndecided' /\ AdmitForm'
  BY DEF UpstreamInv, Unique, NoneUndecided, AdmitForm, Writing
<1>2. Unsettled' \/ Seated(adm)'
  BY DEF UpstreamInv, Seated, Unsettled
<1> QED
  BY <1>1, <1>2 DEF UpstreamInv

\* One station's declaration, with what is propagated of it.
LEMMA ListenerHeard ==
  ASSUME AdmInv, UpstreamInv, adm' = adm, NEW s \in Stream,
         NEW n \in [reg : RegistrarState, decl : Decl],
         listener' = [listener EXCEPT ![s] = n],
         \/ up' = [up EXCEPT ![s] = Propagated(@, adm, s, n)]
         \/ up' = up /\ n.decl = listener[s].decl /\ n.reg = listener[s].reg
         \/ up' = up /\ n.decl = listener[s].decl /\ n.reg = "LV"
  PROVE  StationForm' /\ GoneWithdrawn(up)' /\ DecidedDeclared(adm, up)'
<1> DEFINE p == Propagated(up[s], adm, s, n)
<1>1. /\ listener \in [Stream -> [reg : RegistrarState, decl : Decl]]
      /\ up \in [Stream -> UpRec] /\ up[s] \in UpRec
  BY DEF UpstreamInv, StationForm
<1>2. /\ listener' \in [Stream -> [reg : RegistrarState, decl : Decl]]
      /\ listener'[s] = n /\ \A q \in Stream \ {s} : listener'[q] = listener[q]
  BY <1>1
<1>3. /\ p \in UpRec
      /\ n.reg = "IN" => p.decl = Merged(adm, s, n)
      /\ n.reg # "IN" => ~Declaring(p)
  BY <1>1, PropagatedIs
<1>4. \A q : Refused(adm', q) <=> Refused(adm, q)
  BY DEF Refused
<1>5. \A q, row : Merged(adm', q, row) = Merged(adm, q, row)
  OBVIOUS
<1>7. \A i \in Slot : adm[i].stream # None => adm[i].stream \in Stream
  BY DEF AdmInv, AdmForm, SlotRec
<1>6. CASE up' = [up EXCEPT ![s] = p]
  <2> HIDE DEF p
  <2>1. up' \in [Stream -> UpRec] /\ up'[s] = p /\ \A q \in Stream \ {s} : up'[q] = up[q]
    BY <1>1, <1>3, <1>6
  <2>2. GoneWithdrawn(up)'
    <3>1. n.reg = "MT" => ~Declaring(p)
      BY <1>3
    <3>2. \A q \in Stream \ {s} : listener[q].reg = "MT" => ~Declaring(up[q])
      BY DEF UpstreamInv, GoneWithdrawn
    <3>3. \A q \in Stream : listener'[q].reg = "MT" => ~Declaring(up'[q])
      BY <1>2, <2>1, <3>1, <3>2
    <3> QED
      BY <3>3 DEF GoneWithdrawn
  <2>3. ASSUME NEW i \in Slot, adm[i].stream # None, adm[i].told \/ ~adm[i].refused,
               listener'[adm[i].stream].reg = "IN", Declaring(up'[adm[i].stream])
        PROVE  up'[adm[i].stream].decl
                 = Merged(adm, adm[i].stream, listener'[adm[i].stream])
    <3>1. CASE adm[i].stream = s
      BY <1>2, <1>3, <2>1, <2>3, <3>1
    <3>2. CASE adm[i].stream # s
      <4> DEFINE q == adm[i].stream
      <4>1. q \in Stream \ {s}
        BY <1>7, <2>3, <3>2
      <4>2. up'[q] = up[q] /\ listener'[q] = listener[q]
        BY <1>2, <2>1, <4>1
      <4> QED
        BY <2>3, <4>2 DEF UpstreamInv, DecidedDeclared
    <3> QED
      BY <3>1, <3>2
  <2>4. DecidedDeclared(adm, up)'
    BY <2>3 DEF DecidedDeclared, Merged, Refused
  <2> QED
    BY <1>2, <2>1, <2>2, <2>4 DEF StationForm
<1>8. CASE up' = up /\ n.decl = listener[s].decl /\ (n.reg = listener[s].reg \/ n.reg = "LV")
  <2>1. StationForm'
    BY <1>1, <1>2, <1>8 DEF StationForm
  <2>2. \A q \in Stream : /\ listener'[q].reg = "MT" => listener[q].reg = "MT"
                          /\ listener'[q].reg = "IN" => listener[q].reg = "IN"
                          /\ listener'[q].decl = listener[q].decl
    BY <1>2, <1>8
  <2>3. GoneWithdrawn(up)'
    BY <1>8, <2>2 DEF UpstreamInv, GoneWithdrawn
  <2>4. ASSUME NEW i \in Slot, adm[i].stream # None, adm[i].told \/ ~adm[i].refused,
               listener'[adm[i].stream].reg = "IN", Declaring(up[adm[i].stream])
        PROVE  up[adm[i].stream].decl
                 = Merged(adm, adm[i].stream, listener'[adm[i].stream])
    <3> DEFINE q == adm[i].stream
    <3>1. q \in Stream
      BY <1>7, <2>4
    <3>2. listener[q].reg = "IN" /\ listener'[q].decl = listener[q].decl
      BY <2>2, <2>4, <3>1
    <3>3. up[q].decl = Merged(adm, q, listener[q])
      BY <2>4, <3>2 DEF UpstreamInv, DecidedDeclared
    <3> QED
      BY <2>4, <3>2, <3>3 DEF Merged
  <2>5. DecidedDeclared(adm, up)'
    BY <1>8, <2>4 DEF DecidedDeclared, Merged, Refused
  <2> QED
    BY <2>1, <2>3, <2>5
<1> QED
  BY <1>6, <1>8

LEMMA RegistrarEdges ==
  \A r \in RegistrarState :
    /\ RegistrarStep(r, "rJoinIn") = "IN"
    /\ RegistrarStep(r, "rLv") = (IF r = "MT" THEN "MT" ELSE "LV")
    /\ RegistrarStep(r, "rLA") = (IF r = "MT" THEN "MT" ELSE "LV")
    /\ RegTransition(r, "IN") = "none" => r = "IN"
    /\ RegTransition(r, "LV") = "none" => r # "IN"
BY DEF RegistrarState, RegistrarStep, RegTransition

LEMMA UpstreamStep == AdmInv /\ UpstreamInv /\ [Next]_vars => UpstreamInv'
<1> SUFFICES ASSUME AdmInv, UpstreamInv, [Next]_vars PROVE UpstreamInv'
  OBVIOUS
<1>u. StationForm /\ AdmitForm /\ GoneWithdrawn(up) /\ DecidedDeclared(adm, up)
  BY DEF UpstreamInv
<1>0. ASSUME UNCHANGED <<talker, rows, listener, up, adm, task>> PROVE UpstreamInv'
  <2>1. AdmitForm' /\ (Unsettled => Unsettled')
    BY <1>0, <1>u DEF AdmitForm, Writing, Unsettled
  <2> QED
    BY <1>0, <2>1, TaskOnly
\* The task goes on to the refresh and the admission.
<1>r. ASSUME task' = Refreshing(TRUE) PROVE AdmitForm' /\ Unsettled'
  <2> DEFINE yes == TRUE
  <2>1. task' = [at |-> "refresh", admit |-> yes] /\ yes \in BOOLEAN /\ yes
    BY <1>r DEF Refreshing
  <2> HIDE DEF yes
  <2>2. task'.at = "refresh" /\ task'.admit = yes
        /\ task' = [at |-> task'.at, admit |-> task'.admit]
    BY <2>1
  <2> QED
    BY <2>1, <2>2 DEF AdmitForm, Unsettled
<1>1. ASSUME NEW s \in Stream, NEW v \in Value, NEW ev, RxTalker(s, v, ev)
      PROVE  UpstreamInv'
  <2>1. UNCHANGED <<rows, listener, up, adm>> /\ task' = Refreshing(TRUE)
    BY <1>1 DEF RxTalker
  <2>2. StationForm' /\ GoneWithdrawn(up)' /\ Unique(adm)' /\ NoneUndecided'
    BY <2>1 DEF UpstreamInv, StationForm, GoneWithdrawn, Unique, NoneUndecided
  <2>3. DecidedDeclared(adm, up)'
    BY <2>1 DEF UpstreamInv, DecidedDeclared, Merged, Refused
  <2> QED
    BY <1>r, <2>1, <2>2, <2>3 DEF UpstreamInv
<1>2. ASSUME NEW s \in Stream, NEW d \in Says[s], NEW ev \in {"rJoinIn", "rLv"},
             RxListener(s, d, ev)
      PROVE  UpstreamInv'
  <2> DEFINE r == listener[s]
             n == [reg |-> RegistrarStep(r.reg, ev), decl |-> d]
             known == \E i \in DOMAIN rows : rows[i] = s
             edge == RegTransition(r.reg, n.reg) # "none"
  <2>1. /\ listener' = [listener EXCEPT ![s] = n] /\ adm' = adm
        /\ up' = IF edge \/ ~known \/ d # r.decl
                 THEN [up EXCEPT ![s] = Propagated(@, adm, s, n)] ELSE up
        /\ ev = "rLv" => known /\ d = r.decl
        /\ task' = Refreshing(TRUE)
    BY <1>2 DEF RxListener
  <2>2. d \in Decl
    <3>1. Says \in [Stream -> SUBSET {"asking", "ready", "readyFailed"}]
      BY Zenon, WifiPortAssumption
    <3> QED
      BY <3>1 DEF Decl
  <2>3. r.reg \in RegistrarState
    BY <1>u DEF StationForm
  <2>4. n \in [reg : RegistrarState, decl : Decl] /\ n.decl = d
        /\ n.reg = RegistrarStep(r.reg, ev)
    BY <2>2, <2>3, RegistrarEdges DEF RegistrarState
  <2> HIDE DEF n, known
  <2>5. \/ up' = [up EXCEPT ![s] = Propagated(@, adm, s, n)]
        \/ up' = up /\ n.decl = r.decl /\ n.reg = r.reg
        \/ up' = up /\ n.decl = r.decl /\ n.reg = "LV"
    <3>1. CASE edge \/ ~known \/ d # r.decl
      BY <2>1, <3>1
    <3>2. CASE ~edge /\ known /\ d = r.decl
      <4>1. up' = up /\ n.decl = r.decl
        BY <2>1, <2>4, <3>2
      <4>2. CASE ev = "rJoinIn"
        <5>1. n.reg = "IN" /\ r.reg = "IN"
          BY <2>3, <2>4, <3>2, <4>2, RegistrarEdges
        <5> QED
          BY <4>1, <5>1
      <4>3. CASE ev = "rLv"
        <5>1. n.reg = "LV" \/ (n.reg = "MT" /\ r.reg = "MT")
          BY <2>3, <2>4, <4>3, RegistrarEdges
        <5> QED
          BY <4>1, <5>1
      <4> QED
        BY <4>2, <4>3
    <3> QED
      BY <3>1, <3>2
  <2>6. StationForm' /\ GoneWithdrawn(up)' /\ DecidedDeclared(adm, up)'
    BY <2>1, <2>4, <2>5, ListenerHeard
  <2>7. Unique(adm)' /\ NoneUndecided'
    BY <2>1 DEF UpstreamInv, Unique, NoneUndecided
  <2> QED
    BY <1>r, <2>1, <2>6, <2>7 DEF UpstreamInv
<1>3. CASE RxTalkerLeaveAll
  <2>1. /\ UNCHANGED <<rows, listener, up, adm, task>>
        /\ talker' = [s \in Stream |->
             IF s \in Steady THEN talker[s]
             ELSE [talker[s] EXCEPT !.reg = RegistrarStep(@, "rLA")]]
    BY <1>3 DEF RxTalkerLeaveAll
  <2>2. ASSUME NEW s \in Stream, Wanted(s)' PROVE Wanted(s)
    <3>1. /\ talker'[s].val = talker[s].val
          /\ talker'[s].reg = talker[s].reg
               \/ talker'[s].reg = RegistrarStep(talker[s].reg, "rLA")
          /\ talker[s].reg \in RegistrarState
      BY <2>1 DEF AdmInv, TalkerForm
    <3>2. talker'[s].reg \in {"IN", "LV"} => talker[s].reg \in {"IN", "LV"}
      BY <3>1, RegistrarEdges DEF RegistrarState
    <3> QED
      BY <2>1, <2>2, <3>1, <3>2 DEF Wanted, Talking, Allowed
  <2>3. StationForm' /\ GoneWithdrawn(up)'
    BY <1>u, <2>1 DEF StationForm, GoneWithdrawn
  <2>4. DecidedDeclared(adm, up)'
    BY <1>u, <2>1 DEF DecidedDeclared, Merged, Refused
  <2> QED
    BY <2>1, <2>2, <2>3, <2>4, AtRestOnly
<1>4. CASE RxListenerLeaveAll
  <2>1. /\ UNCHANGED <<talker, rows, up, adm, task>>
        /\ listener' =
             [s \in Stream |-> [listener[s] EXCEPT !.reg = RegistrarStep(@, "rLA")]]
    BY <1>4 DEF RxListenerLeaveAll
  <2>2. ASSUME NEW s \in Stream
        PROVE  /\ listener'[s] \in [reg : RegistrarState, decl : Decl]
               /\ listener'[s].reg = IF listener[s].reg = "MT" THEN "MT" ELSE "LV"
               /\ listener[s].reg \in RegistrarState
    <3>1. listener[s] \in [reg : RegistrarState, decl : Decl]
      BY <1>u DEF StationForm
    <3>2. listener'[s] = [listener[s] EXCEPT !.reg = RegistrarStep(listener[s].reg, "rLA")]
      BY <2>1
    <3>3. RegistrarStep(listener[s].reg, "rLA") = IF listener[s].reg = "MT" THEN "MT" ELSE "LV"
      BY <3>1, RegistrarEdges
    <3> QED
      BY <3>1, <3>2, <3>3 DEF RegistrarState
  <2>3. StationForm'
    <3>1. listener' = [s \in Stream |-> listener'[s]]
      BY <2>1
    <3>2. listener' \in [Stream -> [reg : RegistrarState, decl : Decl]]
      BY <2>2, <3>1
    <3> QED
      BY <1>u, <2>1, <3>2 DEF StationForm
  <2>4. GoneWithdrawn(up)'
    BY <1>u, <2>1, <2>2 DEF GoneWithdrawn
  <2>5. DecidedDeclared(adm, up)'
    <3>1. \A i \in Slot : adm[i].stream # None => adm[i].stream \in Stream
      BY DEF AdmInv, AdmForm, SlotRec
    <3> QED
      BY <2>1, <2>2, <3>1 DEF DecidedDeclared
  <2>6. ASSUME NEW s \in Stream, Wanted(s)' PROVE Wanted(s)
    <3>1. listener[s].reg \in {"IN", "LV"}
      BY <2>2, <2>6 DEF Wanted, RegistrarState
    <3> QED
      BY <2>1, <2>6, <3>1 DEF Wanted, Talking, Allowed
  <2> QED
    BY <2>1, <2>3, <2>4, <2>5, <2>6, AtRestOnly
<1>5. ASSUME NEW s \in Stream, TalkerLeaves(s) PROVE UpstreamInv'
  <2> DEFINE c == OnTalkerChange(s, talker[s].val, "deregister")
  <2>1. /\ UNCHANGED <<rows, listener, up, adm, task>>
        /\ talker' = [talker EXCEPT ![s].reg = "MT", ![s].prop = c.prop]
    BY <1>5 DEF TalkerLeaves
  <2> HIDE DEF c
  <2>2. ASSUME NEW q \in Stream, Wanted(q)' PROVE Wanted(q)
    <3>1. talker'[s].reg = "MT" /\ \A z \in Stream \ {s} : talker'[z] = talker[z]
      BY <2>1 DEF AdmInv, TalkerForm
    <3>2. q # s
      BY <2>2, <3>1 DEF Wanted, Talking
    <3> QED
      BY <2>1, <2>2, <3>1, <3>2 DEF Wanted, Talking, Allowed
  <2>3. StationForm' /\ GoneWithdrawn(up)'
    BY <1>u, <2>1 DEF StationForm, GoneWithdrawn
  <2>4. DecidedDeclared(adm, up)'
    BY <1>u, <2>1 DEF DecidedDeclared, Merged, Refused
  <2> QED
    BY <2>1, <2>2, <2>3, <2>4, AtRestOnly
<1>6. ASSUME NEW s \in Stream, ListenerLeaves(s) PROVE UpstreamInv'
  <2> DEFINE n == [listener[s] EXCEPT !.reg = "MT"]
  <2>1. /\ UNCHANGED <<talker, rows, adm, task>>
        /\ listener' = [listener EXCEPT ![s].reg = "MT"]
        /\ up' = [up EXCEPT ![s] = Propagated(@, adm, s, listener'[s])]
    BY <1>6 DEF ListenerLeaves
  <2>2. n \in [reg : RegistrarState, decl : Decl] /\ n.reg = "MT"
        /\ listener' = [listener EXCEPT ![s] = n] /\ listener'[s] = n
    BY <1>u, <2>1 DEF StationForm, RegistrarState
  <2> HIDE DEF n
  <2>3. up' = [up EXCEPT ![s] = Propagated(@, adm, s, n)]
    BY <2>1, <2>2
  <2>4. StationForm' /\ GoneWithdrawn(up)' /\ DecidedDeclared(adm, up)'
    BY <2>1, <2>2, <2>3, ListenerHeard
  <2>5. ASSUME NEW q \in Stream, Wanted(q)' PROVE Wanted(q)
    <3>1. q # s
      BY <2>2, <2>5 DEF Wanted
    <3>2. listener'[q] = listener[q]
      BY <1>u, <2>2, <3>1 DEF StationForm
    <3> QED
      BY <2>1, <2>5, <3>2 DEF Wanted, Talking, Allowed
  <2> QED
    BY <2>1, <2>4, <2>5, AtRestOnly
<1>7. CASE JoinTimer
  <2>1. /\ UNCHANGED <<talker, rows, listener, adm, task>>
        /\ up' = [s \in Stream |-> [up[s] EXCEPT !.app = Sent(@)]]
    BY <1>7 DEF JoinTimer
  <2>2. ASSUME NEW s \in Stream
        PROVE  /\ up'[s] \in UpRec /\ up'[s].decl = up[s].decl
               /\ Declaring(up'[s]) => Declaring(up[s])
    <3>1. up[s] \in UpRec /\ up'[s] = [up[s] EXCEPT !.app = Sent(up[s].app)]
      BY <1>u, <2>1 DEF StationForm
    <3>2. up[s].app \in ApplicantState
      BY <3>1 DEF UpRec
    <3>4. Sent(up[s].app) \in ApplicantState
      BY <3>2, ApplicantForm
    <3>3. up'[s] \in UpRec /\ up'[s].decl = up[s].decl /\ up'[s].app = Sent(up[s].app)
      BY <3>1, <3>4 DEF UpRec
    <3> QED
      BY <3>2, <3>3, ApplicantForm DEF Declaring
  <2>3. StationForm'
    <3>1. up' = [s \in Stream |-> up'[s]]
      BY <2>1
    <3> QED
      BY <1>u, <2>1, <2>2, <3>1 DEF StationForm
  <2>4. GoneWithdrawn(up)'
    BY <1>u, <2>1, <2>2 DEF GoneWithdrawn
  <2>5. DecidedDeclared(adm, up)'
    <3>1. \A i \in Slot : adm[i].stream # None => adm[i].stream \in Stream
      BY DEF AdmInv, AdmForm, SlotRec
    <3> QED
      BY <1>u, <2>1, <2>2, <3>1 DEF DecidedDeclared, Merged, Refused
  <2>6. \A s \in Stream : Wanted(s)' => Wanted(s)
    BY <2>1 DEF Wanted, Talking, Allowed
  <2> QED
    BY <2>1, <2>3, <2>4, <2>5, <2>6, AtRestOnly
<1>8. CASE Update
  <2>1. PICK x : Merging(Size, x) /\ adm' = x.adm /\ up' = x.up
    BY <1>8, UpdateMerges
  <2>2. UNCHANGED <<talker, rows, listener>> /\ (task' = Idle \/ task' = Refreshing(FALSE))
    BY <1>8 DEF Update
  <2>3. AdmitForm'
    <3> DEFINE no == FALSE
    <3>1. task' = Idle \/ task' = [at |-> "refresh", admit |-> no]
      BY <2>2 DEF Refreshing
    <3>2. no \in BOOLEAN
      OBVIOUS
    <3> HIDE DEF no
    <3> QED
      BY <3>1, <3>2 DEF AdmitForm
  <2>4. StationForm'
    BY <1>u, <2>1, <2>2 DEF StationForm, Merging
  <2>5. GoneWithdrawn(up)' /\ Unique(adm)' /\ NoneUndecided'
    BY <2>1, <2>2 DEF Merging, GoneWithdrawn, Unique, NoneUndecided, Slot
  <2>6. DecidedDeclared(adm, up)'
    BY <2>1, <2>2 DEF Merging, DecidedDeclared, Merged, Refused
  <2>7. Seated(adm)'
    <3>1. \A s \in Stream : Wanted(s)' => Wanted(s)
      BY <2>2 DEF Wanted, Talking, Allowed
    <3> QED
      BY <2>1, <3>1 DEF Merging, Seated
  <2> QED
    BY <2>3, <2>4, <2>5, <2>6, <2>7 DEF UpstreamInv
<1>9. CASE Refresh
  <2>1. UNCHANGED <<talker, rows, listener, up, adm>> /\ task.at = "refresh" /\ task' = After(0)
    BY <1>9 DEF Refresh
  <2>2. task.admit \in BOOLEAN /\ (Unsettled <=> task.admit)
    BY <1>u, <2>1 DEF AdmitForm, Unsettled, Idle, Writing
  <2>3. AdmitForm' /\ (task.admit => Unsettled')
    BY <2>1, <2>2, AfterAdmits
  <2> QED
    BY <2>1, <2>2, <2>3, TaskOnly
<1>10. ASSUME task.at \in {"off", "da", "sta"}, NEW at \in {"da", "sta", "valid"},
              task' = [task EXCEPT !.at = at],
              UNCHANGED <<talker, rows, listener, up, adm>>
       PROVE  UpstreamInv'
  <2> DEFINE ad == task.admit
  <2>1. /\ ad \in BOOLEAN /\ (Unsettled <=> ad)
        /\ task = [at |-> task.at, i |-> task.i, admit |-> ad]
    BY <1>u, <1>10 DEF AdmitForm, Unsettled, Idle, Writing
  <2> HIDE DEF ad
  <2>2. task' = [at |-> at, i |-> task.i, admit |-> ad]
    BY <1>10, <2>1
  <2>3. task'.at = at /\ task'.admit = ad
        /\ task' = [at |-> task'.at, i |-> task'.i, admit |-> task'.admit]
    BY <2>2
  <2>4. AdmitForm' /\ (Unsettled => Unsettled')
    BY <2>1, <2>3 DEF AdmitForm, Writing, Unsettled
  <2> QED
    BY <1>10, <2>4, TaskOnly
<1>11. CASE Invalidate
  BY <1>10, <1>11 DEF Invalidate, Put
<1>12. CASE WriteDa
  BY <1>10, <1>12 DEF WriteDa, Put
<1>13. CASE WriteSta
  BY <1>10, <1>13 DEF WriteSta, Put
<1>14. CASE Validate
  <2>1. UNCHANGED <<talker, rows, listener, up, adm>> /\ task.at = "valid"
        /\ task' = After(task.i)
    BY <1>14 DEF Validate, Put
  <2>2. task.admit \in BOOLEAN /\ (Unsettled <=> task.admit)
    BY <1>u, <2>1 DEF AdmitForm, Unsettled, Idle, Writing
  <2>3. AdmitForm' /\ (task.admit => Unsettled')
    BY <2>1, <2>2, AfterAdmits
  <2> QED
    BY <2>1, <2>2, <2>3, TaskOnly
<1>15. CASE WriteIndex
  <2>1. UNCHANGED <<talker, rows, listener, up, adm>> /\ task.at = "index"
        /\ task' = IF task.admit THEN [at |-> "admit"] ELSE Idle
    BY <1>15 DEF WriteIndex
  <2>2. task.admit \in BOOLEAN /\ (Unsettled <=> task.admit)
    BY <1>u, <2>1 DEF AdmitForm, Unsettled, Idle, Writing
  <2>3. AdmitForm' /\ (task.admit => Unsettled')
    BY <2>1 DEF AdmitForm, Unsettled
  <2> QED
    BY <2>1, <2>2, <2>3, TaskOnly
<1>16. CASE UNCHANGED vars
  BY <1>0, <1>16 DEF vars
<1>17. ASSUME NEW s \in Stream, Lookup(s) PROVE UpstreamInv'
  BY <1>0, <1>17 DEF Lookup
<1>18. CASE LookValid \/ LookDa \/ Address
  BY <1>0, <1>18 DEF LookValid, LookDa, Address
<1> QED
  BY <1>1, <1>2, <1>3, <1>4, <1>5, <1>6, <1>7, <1>8, <1>9, <1>11, <1>12, <1>13, <1>14,
     <1>15, <1>16, <1>17, <1>18 DEF Next

\* Whenever the AVB task rests, what it declares upstream for a stream is what
\* the stations declare, as asking failed where the stream is refused to them,
\* and nothing once they are gone (msrp_merge_listener_decls,
\* msrp_propagate_listener, msrp_wifi_admission_update).
THEOREM UpstreamTrue == Spec => []UpstreamIsMerged
<1>1. AdmInv /\ UpstreamInv => UpstreamIsMerged
  <2> SUFFICES ASSUME AdmInv, UpstreamInv, task = Idle, NEW s \in Stream
               PROVE  /\ listener[s].reg = "MT" => ~Declaring(up[s])
                      /\ listener[s].reg = "IN" /\ Declaring(up[s]) /\ Wanted(s) =>
                           up[s].decl = Merged(adm, s, listener[s])
    BY DEF UpstreamIsMerged, AtRest
  <2>1. listener[s].reg = "MT" => ~Declaring(up[s])
    BY DEF UpstreamInv, GoneWithdrawn
  <2>2. ASSUME listener[s].reg = "IN", Declaring(up[s]), Wanted(s)
        PROVE  up[s].decl = Merged(adm, s, listener[s])
    <3>1. ~Unsettled
      BY DEF Unsettled, Idle
    <3>2. PICK i \in Slot : adm[i].stream = s
      BY <2>2, <3>1 DEF UpstreamInv, Seated
    <3>3. s # None /\ (adm[i].told \/ ~adm[i].refused)
      BY <3>2, NoneApart DEF UpstreamInv, NoneUndecided
    <3> QED
      BY <2>2, <3>2, <3>3 DEF UpstreamInv, DecidedDeclared
  <2> QED
    BY <2>1, <2>2
<1> QED
  BY <1>1, AdmInit, AdmStep, UpstreamInit, UpstreamStep, PTL DEF Spec

(***************************************************************************)
(* The table of stations: what is served, and what is written of it.       *)
(***************************************************************************)
ServeStep(h, base, g, s) ==
  IF s = {} THEN base ELSE Serve(g[s \ {Max(s)}], h[Max(s)])

Serving(h, base, S) == CHOOSE g : g = [s \in SUBSET S |-> ServeStep(h, base, g, s)]

LEMMA ServedIsServing == Served = Serving(rows, << >>, DOMAIN rows)[DOMAIN rows]
BY Zenon DEF Served, FoldLeft, Serving, ServeStep, MapThenFoldSet

LEMMA ServingUnfolds ==
  ASSUME NEW h, NEW base, NEW n \in Nat, NEW s \in SUBSET (1..n)
  PROVE  Serving(h, base, 1..n)[s] = ServeStep(h, base, Serving(h, base, 1..n), s)
<1> DEFINE S == 1..n
<1>5. IsFiniteSet(S)
  BY FS_Interval
<1>6. \A t \in SUBSET S : t # {} => Max(t) \in t
  BY Greatest
<1>7. \A t \in SUBSET S : t # {} => Taken("serve", t) \in t
  BY <1>6 DEF Taken
<1> HIDE DEF S
<1>1. PICK f : IsFold("serve", h, base, S, f)
  BY <1>5, <1>7, FoldExists
<1>2. f = [t \in SUBSET S |-> ServeStep(h, base, f, t)]
  BY <1>1 DEF IsFold, FoldStep, Taken, Combined, ServeStep
<1> DEFINE g == Serving(h, base, S)
<1>3. g = [t \in SUBSET S |-> ServeStep(h, base, g, t)]
  BY <1>2 DEF Serving
<1> HIDE DEF g
<1>4. g[s] = ServeStep(h, base, g, s)
  BY <1>3 DEF S
<1> QED
  BY <1>4 DEF g, S

RowsUnique == \A i, j \in DOMAIN rows : rows[i] = rows[j] => i = j

Known(s) == \E k \in DOMAIN rows : rows[k] = s

\* There are no more rows than slots.
LEMMA RowsFit == RowsForm /\ RowsUnique => Len(rows) \in Nat /\ Len(rows) <= Size
<1> SUFFICES ASSUME RowsForm, RowsUnique PROVE Len(rows) \in Nat /\ Len(rows) <= Size
  OBVIOUS
<1> DEFINE n == Len(rows)
<1>1. n \in Nat /\ DOMAIN rows = 1..n /\ rows \in [1..n -> Stream]
  BY DEF RowsForm
<1>2. IsFiniteSet(Stream) /\ Size >= Cardinality(Stream) /\ Size \in Nat
  BY Zenon, WifiPortAssumption
<1>3. IsFiniteSet(1..n) /\ Cardinality(1..n) = n
  <2>1. IsFiniteSet(1..n) /\ Cardinality(1..n) = IF 1 > n THEN 0 ELSE n - 1 + 1
    BY <1>1, FS_Interval
  <2> QED
    BY <1>1, <2>1
<1>4. Cardinality(Stream) \in Nat
  BY <1>2, FS_CardinalityType
<1> HIDE DEF n
<1>5. CASE Cardinality(Stream) < n
  <2>1. \E x, y \in 1..n : x # y /\ rows[x] = rows[y]
    BY <1>1, <1>2, <1>3, <1>5, FS_PigeonHole
  <2> QED
    BY <1>1, <2>1 DEF RowsUnique
<1> QED
  BY <1>1, <1>2, <1>4, <1>5 DEF n

\* The table of m rows.
ServedTo(m, q) ==
  /\ q \in Seq(Stream) /\ Len(q) <= m
  /\ \A s \in Stream :
       (\E j \in 1..Len(q) : q[j] = s) <=> (Serves(s) /\ \E k \in 1..m : rows[k] = s)

LEMMA ServeOne ==
  ASSUME RowsForm, RowsUnique, NEW m \in 1..Len(rows), NEW q, ServedTo(m - 1, q)
  PROVE  ServedTo(m, Serve(q, rows[m]))
<1>0. Len(rows) \in Nat /\ Len(rows) <= Size /\ m \in Nat /\ Size \in Nat
  BY RowsFit, SlotsFinite
<1>1. q \in Seq(Stream) /\ Len(q) \in Nat /\ Len(q) <= m - 1 /\ Len(q) < Size
  BY <1>0 DEF ServedTo
<1>2. rows[m] \in Stream
  BY ElementOfSeq DEF RowsForm
<1>3. \A k \in 1..m : k = m \/ k \in 1..(m - 1)
  BY <1>0
<1>4. 1..(m - 1) \subseteq 1..m /\ m \in 1..m
  BY <1>0
<1>5. CASE Serves(rows[m])
  <2> DEFINE p == Append(q, rows[m])
  <2>1. Serve(q, rows[m]) = p
    BY <1>1, <1>5 DEF Serve
  <2>2. /\ p \in Seq(Stream) /\ Len(p) = Len(q) + 1 /\ p[Len(q) + 1] = rows[m]
        /\ \A j \in 1..Len(q) : p[j] = q[j]
    BY <1>1, <1>2
  <2>3. \A j \in 1..Len(p) : j = Len(q) + 1 \/ j \in 1..Len(q)
    BY <1>1, <2>2
  <2>4. Len(q) + 1 \in 1..Len(p) /\ 1..Len(q) \subseteq 1..Len(p)
    BY <1>1, <2>2
  <2>5. Len(p) <= m
    BY <1>0, <1>1, <2>2
  <2> HIDE DEF p
  <2>6. ASSUME NEW s \in Stream
        PROVE  (\E j \in 1..Len(p) : p[j] = s) <=> (Serves(s) /\ \E k \in 1..m : rows[k] = s)
    <3>1. (\E j \in 1..Len(p) : p[j] = s) <=> (s = rows[m] \/ \E j \in 1..Len(q) : q[j] = s)
      BY <2>2, <2>3, <2>4
    <3>2. (\E k \in 1..m : rows[k] = s) <=> (s = rows[m] \/ \E k \in 1..(m - 1) : rows[k] = s)
      BY <1>3, <1>4
    <3> QED
      BY <1>5, <3>1, <3>2 DEF ServedTo
  <2> QED
    BY <2>1, <2>2, <2>5, <2>6 DEF ServedTo
<1>6. CASE ~Serves(rows[m])
  <2>1. Serve(q, rows[m]) = q
    BY <1>6 DEF Serve
  <2>2. ASSUME NEW s \in Stream
        PROVE  (\E j \in 1..Len(q) : q[j] = s) <=> (Serves(s) /\ \E k \in 1..m : rows[k] = s)
    <3>1. (\E k \in 1..m : rows[k] = s) <=> (s = rows[m] \/ \E k \in 1..(m - 1) : rows[k] = s)
      BY <1>3, <1>4
    <3> QED
      BY <1>6, <3>1 DEF ServedTo
  <2>3. Len(q) <= m
    BY <1>0, <1>1
  <2> QED
    BY <1>1, <2>1, <2>2, <2>3 DEF ServedTo
<1> QED
  BY <1>5, <1>6

LEMMA ServedIs ==
  RowsForm /\ RowsUnique =>
    /\ Served \in Seq(Stream) /\ Len(Served) <= Size
    /\ \A s \in Stream : (\E j \in 1..Len(Served) : Served[j] = s) <=> (Serves(s) /\ Known(s))
<1> SUFFICES ASSUME RowsForm, RowsUnique
             PROVE  /\ Served \in Seq(Stream) /\ Len(Served) <= Size
                    /\ \A s \in Stream : (\E j \in 1..Len(Served) : Served[j] = s)
                                           <=> (Serves(s) /\ Known(s))
  OBVIOUS
<1> DEFINE n == Len(rows)
           g == Serving(rows, << >>, 1..n)
           T == {m \in 0..n : ServedTo(m, g[1..m])}
<1>1. n \in Nat /\ n <= Size /\ DOMAIN rows = 1..n /\ Size \in Nat
  BY RowsFit, SlotsFinite DEF RowsForm
<1>2. Served = g[1..n]
  BY <1>1, ServedIsServing
<1>3. 0 \in T
  <2>1. 1..0 = {} /\ {} \in SUBSET (1..n)
    OBVIOUS
  <2>2. g[{}] = << >>
    <3>1. g[{}] = ServeStep(rows, << >>, g, {})
      BY <1>1, <2>1, ServingUnfolds
    <3> HIDE DEF g
    <3> QED
      BY <3>1 DEF ServeStep
  <2>3. ServedTo(0, << >>)
    BY DEF ServedTo
  <2> QED
    BY <1>1, <2>1, <2>2, <2>3
<1>4. ASSUME NEW m \in 0..n, m \in T, m < n PROVE m + 1 \in T
  <2> DEFINE k == m + 1
  <2>1. k \in 1..n /\ k - 1 = m /\ k \in Nat /\ k # 0 /\ 1..k \in SUBSET (1..n)
    BY <1>1, <1>4
  <2> HIDE DEF k
  <2>2. g[1..k] = ServeStep(rows, << >>, g, 1..k)
    BY <1>1, <2>1, ServingUnfolds
  <2>3. Max(1..k) = k /\ (1..k) \ {k} = 1..m /\ 1..k # {}
    BY <2>1, GreatestOfSegment
  <2> HIDE DEF g
  <2>4. g[1..k] = Serve(g[1..m], rows[k])
    BY <2>2, <2>3 DEF ServeStep
  <2>5. ServedTo(k - 1, g[1..m])
    BY <1>4, <2>1
  <2>6. ServedTo(k, g[1..k])
    BY <2>1, <2>4, <2>5, ServeOne
  <2>7. k \in 0..n
    BY <1>1, <2>1
  <2> QED
    BY <2>6, <2>7 DEF k
<1>5. \A m \in 0..n : m \in T /\ m < n => m + 1 \in T
  BY <1>4
<1> HIDE DEF T
<1>6. n \in T
  <2>1. \A m \in 0..n : m \in T
    BY <1>1, <1>3, <1>5, Counting
  <2>2. n \in 0..n
    BY <1>1
  <2> QED
    BY <2>1, <2>2
<1>7. ServedTo(n, Served)
  BY <1>2, <1>6 DEF T
<1> HIDE DEF n
<1> QED
  BY <1>1, <1>7 DEF ServedTo, Known

(***************************************************************************)
(* The three tables agree.                                                 *)
(***************************************************************************)
LEMMA ToldInit == Init => ToldInv
<1> SUFFICES ASSUME Init PROVE ToldInv
  OBVIOUS
<1>1. ASSUME NEW s \in Stream
      PROVE  /\ talker[s] = [reg |-> "MT", val |-> None, prop |-> None]
             /\ ours[s] = Withdrawn
  BY DEF Init, Withdrawn
<1>2. ours \in [Stream -> OursRec]
  BY DEF Init, OursRec
<1>3. \A s \in Stream : Follows(talker[s], ours[s])
  BY <1>1 DEF Follows
<1>4. \A s \in Stream : \A r : ToldAs(talker[s], ours[s], r)
  BY <1>1 DEF ToldAs, Withdrawn
<1> QED
  BY <1>2, <1>3, <1>4 DEF ToldInv

\* What the MAP makes of a talker's declaration.
LEMMA TalkerHeard ==
  ASSUME AdmInv, ToldInv, NEW s \in Stream, NEW v \in Value, NEW reg,
         NEW ev \in {"rJoinIn", "rLv"}, reg = RegistrarStep(talker[s].reg, ev),
         talker[s].reg = "LV" /\ talker[s].prop # None => v = talker[s].prop,
         ev = "rLv" => v = talker[s].val,
         NEW c, c = OnTalkerChange(s, v, RegTransition(talker[s].reg, reg)),
         NEW n, n = [reg |-> reg, val |-> v, prop |-> c.prop]
  PROVE  /\ c.ours \in OursRec /\ Follows(n, c.ours)
         /\ ToldAs(n, c.ours, Refused(adm, s))
<1> DEFINE t == talker[s]
           r == Refused(adm, s)
           o == ours[s]
<1>1. /\ t.reg \in RegistrarState /\ t.prop \in Value \cup {None}
      /\ o \in OursRec /\ Follows(t, o) /\ ToldAs(t, o, r)
      /\ t.reg # "MT" => t.val \in Value
  BY DEF AdmInv, TalkerForm, ToldInv
<1>2. None \notin Value /\ v # None
  BY Zenon, WifiPortAssumption
<1>3. n.reg = reg /\ n.val = v /\ n.prop = c.prop
  BY Zenon
<1>4. Withdrawn \in OursRec /\ Withdrawn.adv = None /\ Withdrawn.fail = None
  BY DEF Withdrawn, OursRec
\* A form declared over what is not of the other kind.
<1>5. ASSUME NEW p \in OursRec, Allowed(v) => (p.fail # None => r) /\ (p.adv # None => ~r)
      PROVE  /\ Form(p, v, r) \in OursRec
             /\ Allowed(v) => /\ (Form(p, v, r).fail # None) <=> r
                              /\ (Form(p, v, r).adv # None) <=> ~r
  BY <1>2, <1>5 DEF Form, OursRec
<1> HIDE DEF t, r, o
\* It is declared, for the first time or with another value.
<1>6. ASSUME NEW p \in OursRec, Allowed(v) => (p.fail # None => r) /\ (p.adv # None => ~r),
             c = [ours |-> Form(p, v, r), prop |-> v], reg = "IN"
      PROVE  c.ours \in OursRec /\ Follows(n, c.ours) /\ ToldAs(n, c.ours, r)
  <2>1. c.ours = Form(p, v, r) /\ c.prop = v
    BY <1>6
  <2> QED
    BY <1>2, <1>3, <1>5, <1>6, <2>1 DEF Follows, ToldAs
\* It stays as it is.
<1>7. ASSUME c = [ours |-> o, prop |-> t.prop],
             reg = t.reg \/ reg = "LV", t.prop # None => v = t.val,
             t.reg = "MT" \/ reg # "MT"
      PROVE  c.ours \in OursRec /\ Follows(n, c.ours) /\ ToldAs(n, c.ours, r)
  <2>1. c.ours = o /\ c.prop = t.prop
    BY <1>7
  <2> QED
    BY <1>1, <1>2, <1>3, <1>7, <2>1 DEF Follows, ToldAs
\* It is withdrawn.
<1>8. ASSUME c = [ours |-> Withdrawn, prop |-> None], reg # "IN"
      PROVE  c.ours \in OursRec /\ Follows(n, c.ours) /\ ToldAs(n, c.ours, r)
  <2>1. c.ours = Withdrawn /\ c.prop = None
    BY <1>8
  <2> QED
    BY <1>3, <1>4, <1>8, <2>1 DEF Follows, ToldAs
<1>9. CASE ev = "rJoinIn"
  <2>1. reg = "IN"
    BY <1>1, <1>9, RegistrarEdges DEF t
  <2>2. CASE t.reg = "IN"
    <3>1. t.prop # None /\ t.prop = t.val
      BY <1>1, <2>2 DEF Follows
    <3>2. RegTransition(t.reg, reg) = "none"
      BY <2>1, <2>2 DEF RegTransition
    <3>3. CASE t.prop = v
      <4>1. c = [ours |-> o, prop |-> t.prop]
        BY <3>2, <3>3 DEF OnTalkerChange, t, o
      <4> QED
        BY <1>7, <2>1, <2>2, <3>1, <3>3, <4>1 DEF r
    <3>4. CASE t.prop # v
      <4>1. c = [ours |-> Form(Withdrawn, v, r), prop |-> v]
        BY <3>1, <3>2, <3>4 DEF OnTalkerChange, t, o, r
      <4> QED
        BY <1>4, <1>6, <2>1, <4>1 DEF r
    <3> QED
      BY <3>3, <3>4
  <2>3. CASE t.reg # "IN"
    <3>1. RegTransition(t.reg, reg) = "register"
      BY <2>1, <2>3 DEF RegTransition
    <3>2. c = [ours |-> Form(o, v, r), prop |-> v]
      BY <3>1 DEF OnTalkerChange, t, o, r
    <3>3. Allowed(v) => (o.fail # None => r) /\ (o.adv # None => ~r)
      <4>1. CASE t.prop = None
        BY <1>1, <4>1 DEF ToldAs
      <4>2. CASE t.prop # None
        <5>1. t.reg # "MT" /\ t.prop = t.val
          BY <1>1, <4>2 DEF Follows
        <5>2. t.reg = "LV"
          BY <1>1, <2>3, <5>1 DEF RegistrarState
        <5>3. v = t.val
          BY <4>2, <5>1, <5>2 DEF t
        <5> QED
          BY <1>1, <4>2, <5>3 DEF ToldAs
      <4> QED
        BY <4>1, <4>2
    <3> QED
      BY <1>1, <1>6, <2>1, <3>2, <3>3 DEF r
  <2> QED
    BY <2>2, <2>3
<1>10. CASE ev = "rLv"
  <2>1. reg = (IF t.reg = "MT" THEN "MT" ELSE "LV") /\ v = t.val
    BY <1>1, <1>10, RegistrarEdges DEF t
  <2>2. CASE t.reg = "IN"
    <3>1. RegTransition(t.reg, reg) = "deregister" /\ reg = "LV"
      BY <2>1, <2>2 DEF RegTransition
    <3>2. c = [ours |-> Withdrawn, prop |-> None]
      BY <3>1 DEF OnTalkerChange, t
    <3> QED
      BY <1>8, <3>1, <3>2 DEF r
  <2>3. CASE t.reg # "IN"
    <3>1. RegTransition(t.reg, reg) = "none" /\ (reg = "LV" \/ reg = t.reg)
      BY <2>1, <2>3 DEF RegTransition
    <3>2. t.prop # None => t.prop = v
      BY <1>1, <2>1 DEF Follows
    <3>3. c = [ours |-> o, prop |-> t.prop]
      BY <3>1, <3>2 DEF OnTalkerChange, t, o
    <3>4. t.reg = "MT" \/ reg # "MT"
      BY <2>1
    <3> QED
      BY <1>7, <2>1, <3>1, <3>3, <3>4 DEF r
  <2> QED
    BY <2>2, <2>3
<1> QED
  BY <1>9, <1>10

\* One talker's declaration, and what is told of it.
LEMMA OneTold ==
  ASSUME AdmInv, ToldInv, NEW s \in Stream, NEW n, NEW o, o \in OursRec, adm' = adm,
         talker' = [talker EXCEPT ![s] = n], ours' = [ours EXCEPT ![s] = o],
         Follows(n, o), ToldAs(n, o, Refused(adm, s))
  PROVE  ToldInv'
<1>1. /\ talker'[s] = n /\ ours'[s] = o
      /\ \A q \in Stream \ {s} : talker'[q] = talker[q] /\ ours'[q] = ours[q]
      /\ ours' \in [Stream -> OursRec]
  BY DEF AdmInv, TalkerForm, ToldInv
<1>2. \A q : Refused(adm', q) <=> Refused(adm, q)
  BY DEF Refused
<1>3. ASSUME NEW q \in Stream
      PROVE  /\ Follows(talker'[q], ours'[q])
             /\ ToldAs(talker'[q], ours'[q], Refused(adm', q))
  <2>1. CASE q = s
    BY <1>1, <1>2, <2>1 DEF ToldAs
  <2>2. CASE q # s
    BY <1>1, <1>2, <2>2 DEF ToldInv, ToldAs
  <2> QED
    BY <2>1, <2>2
<1> QED
  BY <1>1, <1>3 DEF ToldInv

LEMMA ToldStep == AdmInv /\ UpstreamInv /\ ToldInv /\ [Next]_vars => ToldInv'
<1> SUFFICES ASSUME AdmInv, UpstreamInv, ToldInv, [Next]_vars PROVE ToldInv'
  OBVIOUS
<1>t. /\ \A q \in Stream : /\ talker[q].reg \in RegistrarState
                           /\ Follows(talker[q], ours[q])
                           /\ ToldAs(talker[q], ours[q], Refused(adm, q))
      /\ talker \in [Stream -> [reg : RegistrarState, val : Value \cup {None},
                                prop : Value \cup {None}]]
  BY DEF AdmInv, TalkerForm, ToldInv
<1>0. ASSUME UNCHANGED <<talker, ours, adm>> PROVE ToldInv'
  <2>1. \A q : Refused(adm', q) <=> Refused(adm, q)
    BY <1>0 DEF Refused
  <2> QED
    BY <1>0, <2>1 DEF ToldInv, ToldAs
<1>1. ASSUME NEW s \in Stream, NEW v \in Value, NEW ev \in {"rJoinIn", "rLv"},
             RxTalker(s, v, ev)
      PROVE  ToldInv'
  <2> DEFINE t == talker[s]
             reg == RegistrarStep(t.reg, ev)
             c == OnTalkerChange(s, v, RegTransition(t.reg, reg))
             n == [reg |-> reg, val |-> v, prop |-> c.prop]
  <2>1. /\ t.reg = "LV" /\ t.prop # None => v = t.prop
        /\ ev = "rLv" => v = t.val
        /\ talker' = [talker EXCEPT ![s] = n] /\ ours' = [ours EXCEPT ![s] = c.ours]
        /\ adm' = adm
    BY <1>1 DEF RxTalker
  <2>2. reg = RegistrarStep(talker[s].reg, ev)
        /\ c = OnTalkerChange(s, v, RegTransition(talker[s].reg, reg))
        /\ n = [reg |-> reg, val |-> v, prop |-> c.prop]
    OBVIOUS
  <2> HIDE DEF reg, c, n
  <2>3. /\ c.ours \in OursRec /\ Follows(n, c.ours)
        /\ ToldAs(n, c.ours, Refused(adm, s))
    BY <2>1, <2>2, TalkerHeard
  <2> QED
    BY <2>1, <2>3, OneTold
<1>2. CASE RxTalkerLeaveAll
  <2>1. /\ UNCHANGED <<ours, adm>>
        /\ talker' = [q \in Stream |->
             IF q \in Steady THEN talker[q]
             ELSE [talker[q] EXCEPT !.reg = RegistrarStep(@, "rLA")]]
    BY <1>2 DEF RxTalkerLeaveAll
  <2>2. \A q : Refused(adm', q) <=> Refused(adm, q)
    BY <2>1 DEF Refused
  <2>3. ASSUME NEW q \in Stream
        PROVE  /\ talker'[q].val = talker[q].val /\ talker'[q].prop = talker[q].prop
               /\ \/ talker'[q].reg = talker[q].reg
                  \/ talker'[q].reg = (IF talker[q].reg = "MT" THEN "MT" ELSE "LV")
    <3>1. CASE q \in Steady
      BY <2>1, <3>1
    <3>2. CASE q \notin Steady
      <4>1. talker'[q] = [talker[q] EXCEPT !.reg = RegistrarStep(talker[q].reg, "rLA")]
        BY <2>1, <3>2
      <4>2. RegistrarStep(talker[q].reg, "rLA")
              = (IF talker[q].reg = "MT" THEN "MT" ELSE "LV")
        BY <1>t, RegistrarEdges
      <4> QED
        BY <1>t, <4>1, <4>2
    <3> QED
      BY <3>1, <3>2
  <2>4. ASSUME NEW q \in Stream
        PROVE  /\ Follows(talker'[q], ours[q])
               /\ ToldAs(talker'[q], ours[q], Refused(adm, q))
    BY <1>t, <2>3 DEF Follows, ToldAs
  <2> QED
    BY <2>1, <2>2, <2>4 DEF ToldInv, ToldAs
<1>3. ASSUME NEW s \in Stream, TalkerLeaves(s) PROVE ToldInv'
  <2> DEFINE c == OnTalkerChange(s, talker[s].val, "deregister")
             n == [talker[s] EXCEPT !.reg = "MT", !.prop = None]
  <2>1. c.ours = Withdrawn /\ c.prop = None
    BY DEF OnTalkerChange
  <2>2. /\ talker' = [talker EXCEPT ![s].reg = "MT", ![s].prop = c.prop]
        /\ ours' = [ours EXCEPT ![s] = c.ours] /\ adm' = adm
    BY <1>3 DEF TalkerLeaves
  <2> HIDE DEF c
  <2>3. talker' = [talker EXCEPT ![s] = n] /\ n.reg = "MT" /\ n.prop = None
    BY <1>t, <2>1, <2>2
  <2>4. Withdrawn \in OursRec /\ Withdrawn.adv = None /\ Withdrawn.fail = None
    BY DEF Withdrawn, OursRec
  <2> HIDE DEF n
  <2>5. Follows(n, Withdrawn) /\ ToldAs(n, Withdrawn, Refused(adm, s))
    BY <2>3, <2>4 DEF Follows, ToldAs
  <2> QED
    BY <2>1, <2>2, <2>3, <2>4, <2>5, OneTold
<1>4. CASE Update
  <2>1. PICK x : Merging(Size, x) /\ Telling(x) /\ adm' = x.adm /\ ours' = x.ours
    BY <1>4, UpdateMerges
  <2>2. talker' = talker
    BY <1>4 DEF Update
  <2>3. ASSUME NEW s \in Stream PROVE Refused(x.adm, s) <=> ToldSo(x.adm, s)
    <3>1. \A i \in Slot : x.adm[i].stream # None => x.adm[i].told \/ ~x.adm[i].refused
      BY <2>1 DEF Merging, Slot
    <3>2. s # None
      BY NoneApart
    <3> QED
      BY <3>1, <3>2 DEF Refused, ToldSo
  <2>4. \A s \in Stream : /\ Follows(talker[s], x.ours[s])
                          /\ ToldAs(talker[s], x.ours[s], Refused(x.adm, s))
    BY <2>1, <2>3 DEF Telling, ToldAs
  <2>5. \A q : Refused(adm', q) <=> Refused(x.adm, q)
    BY <2>1 DEF Refused
  <2> QED
    BY <2>1, <2>2, <2>4, <2>5 DEF ToldInv, ToldAs, Telling
<1>5. CASE UNCHANGED vars
  BY <1>0, <1>5 DEF vars
<1>6. ASSUME NEW s \in Stream, NEW d, NEW ev, RxListener(s, d, ev) PROVE ToldInv'
  BY <1>0, <1>6 DEF RxListener
<1>7. ASSUME NEW s \in Stream, ListenerLeaves(s) \/ Lookup(s) PROVE ToldInv'
  BY <1>0, <1>7 DEF ListenerLeaves, Lookup
<1>8. CASE RxListenerLeaveAll \/ JoinTimer \/ Refresh
  BY <1>0, <1>8 DEF RxListenerLeaveAll, JoinTimer, Refresh
<1>9. CASE Invalidate \/ WriteDa \/ WriteSta \/ Validate \/ WriteIndex
  BY <1>0, <1>9 DEF Invalidate, WriteDa, WriteSta, Validate, WriteIndex, Put
<1>10. CASE LookValid \/ LookDa \/ Address
  BY <1>0, <1>10 DEF LookValid, LookDa, Address
<1> QED
  BY <1>1, <1>2, <1>3, <1>4, <1>5, <1>6, <1>7, <1>8, <1>9, <1>10 DEF Next

\* What is served is told by these four alone.
ServedOf(r, l, a, t) ==
  FoldLeft(LAMBDA q, s :
             IF /\ Len(q) < Size
                /\ /\ l[s].decl \in {"ready", "readyFailed"}
                   /\ ~(\E i \in Slot : a[i].stream = s /\ a[i].refused)
                   /\ t[s].val # None
             THEN Append(q, s) ELSE q, << >>, r)

LEMMA ServedByFour ==
  /\ Served = ServedOf(rows, listener, adm, talker)
  /\ Served' = ServedOf(rows', listener', adm', talker')
<1>1. Served = ServedOf(rows, listener, adm, talker)
  BY Zenon DEF Served, ServedOf, Serve, Serves, Refused
<1>2. Served' = ServedOf(rows', listener', adm', talker')
  BY Zenon DEF Served, ServedOf, Serve, Serves, Refused, FoldLeft, MapThenFoldSet
<1> QED
  BY <1>1, <1>2

LEMMA NextEntrySame ==
  ASSUME UNCHANGED <<rows, listener, adm, talker>>
  PROVE  \A i : NextEntry(i)' = NextEntry(i)
<1>1. Served' = Served
  BY ServedByFour
<1>2. ASSUME NEW i PROVE NextEntry(i)' = NextEntry(i)
  BY <1>1 DEF NextEntry, Empty
<1> QED
  BY <1>2

\* Each admitted or refused stream has an entry exactly if it is served.
Listed(entry) ==
  \A i \in Slot : LET s == adm[i].stream IN
    s # None => ((\E j \in Slot : entry[j].valid /\ entry[j].da = s) <=> Serves(s))

SlotsKnown == \A i \in Slot : adm[i].stream # None => Known(adm[i].stream)

Written ==
  /\ task.at \in Writing => \A j \in Slot : j < task.i => tbl.entry[j] = NextEntry(j)
  /\ task.at \in {"index", "admit"} => \A j \in Slot : tbl.entry[j] = NextEntry(j)
  /\ task.at = "idle" => Listed(tbl.entry)

ListInv == RowsUnique /\ SlotsKnown /\ Written

LEMMA WrittenIsListed ==
  ASSUME AdmInv, RowsUnique, SlotsKnown, NEW entry,
         \A j \in Slot : entry[j] = NextEntry(j)
  PROVE  Listed(entry)
<1>1. /\ Served \in Seq(Stream) /\ Len(Served) <= Size
      /\ \A s \in Stream : (\E j \in 1..Len(Served) : Served[j] = s)
                             <=> (Serves(s) /\ Known(s))
  BY ServedIs DEF AdmInv
<1>2. DOMAIN Served = 1..Len(Served) /\ 1..Len(Served) \subseteq Slot
  BY <1>1, SlotsFinite DEF Slot
<1>3. \A j \in Slot : /\ entry[j].valid <=> j \in 1..Len(Served)
                      /\ j \in 1..Len(Served) => entry[j].da = Served[j]
  <2> DEFINE yes == TRUE
             no == FALSE
  <2>1. ASSUME NEW j \in Slot
        PROVE  entry[j] = IF j \in 1..Len(Served)
                          THEN [valid |-> yes, da |-> Served[j], sta |-> Hears[Served[j]]]
                          ELSE [valid |-> no, da |-> None, sta |-> None]
    BY <1>2 DEF NextEntry, Empty
  <2>2. yes /\ ~no
    OBVIOUS
  <2> HIDE DEF yes, no
  <2>3. ASSUME NEW j \in Slot
        PROVE  /\ entry[j].valid = IF j \in 1..Len(Served) THEN yes ELSE no
               /\ j \in 1..Len(Served) => entry[j].da = Served[j]
    <3>1. CASE j \in 1..Len(Served)
      <4>1. entry[j] = [valid |-> yes, da |-> Served[j], sta |-> Hears[Served[j]]]
        BY <2>1, <3>1
      <4> QED
        BY <3>1, <4>1
    <3>2. CASE j \notin 1..Len(Served)
      <4>1. entry[j] = [valid |-> no, da |-> None, sta |-> None]
        BY <2>1, <3>2
      <4> QED
        BY <3>2, <4>1
    <3> QED
      BY <3>1, <3>2
  <2> QED
    BY <2>2, <2>3
<1>4. ASSUME NEW i \in Slot, adm[i].stream # None
      PROVE  (\E j \in Slot : entry[j].valid /\ entry[j].da = adm[i].stream)
               <=> Serves(adm[i].stream)
  <2>1. adm[i].stream \in Stream /\ Known(adm[i].stream)
    BY <1>4 DEF AdmInv, AdmForm, SlotRec, SlotsKnown
  <2>2. (\E j \in Slot : entry[j].valid /\ entry[j].da = adm[i].stream)
          <=> \E j \in 1..Len(Served) : Served[j] = adm[i].stream
    BY <1>2, <1>3
  <2> QED
    BY <1>1, <2>1, <2>2
<1> QED
  BY <1>4 DEF Listed

\* The task goes on over the entries that are as they should be.
LEMMA AfterWrites ==
  ASSUME AdmInv, RowsUnique, SlotsKnown, UNCHANGED <<talker, rows, listener, adm>>,
         NEW i \in 0..Size, task' = After(i),
         \A j \in Slot : j <= i => tbl'.entry[j] = NextEntry(j),
         \A j \in Slot : j > i => tbl'.entry[j] = tbl.entry[j]
  PROVE  Written'
<1> DEFINE left == {j \in Slot : j > i /\ tbl.entry[j] # NextEntry(j)}
           ad == task.admit
<1>0. i \in Nat /\ Size \in Nat /\ Slot \subseteq Nat
  BY SlotsFinite DEF Slot
<1>n. \A j : NextEntry(j)' = NextEntry(j)
  BY Zenon, NextEntrySame
<1>e. ASSUME NEW j \in Slot, j \notin left PROVE tbl'.entry[j] = NextEntry(j)
  <2>1. j <= i \/ j > i
    BY <1>0
  <2>2. j > i => tbl.entry[j] = NextEntry(j)
    BY <1>e
  <2> HIDE DEF left
  <2> QED
    BY <2>1, <2>2
<1>1. \A j \in Slot : (j \notin left => tbl'.entry[j] = NextEntry(j))
                      /\ NextEntry(j)' = NextEntry(j)
  BY Zenon, <1>n, <1>e
<1>2. CASE left # {}
  <2>1. task' = [at |-> "off", i |-> Min(left), admit |-> ad]
    BY <1>2 DEF After
  <2>2. \A j \in left : Min(left) <= j
    BY <1>0, <1>2, LeastSlot
  <2>3. Min(left) \in left
    BY <1>0, <1>2, LeastSlot
  <2>5. left \subseteq Nat
    BY <1>0
  <2> HIDE DEF ad, left
  <2>4. task'.at = "off" /\ task'.i = Min(left)
    BY <2>1
  <2>6. \A j \in Slot : j < Min(left) => j \notin left
    <3> DEFINE first == Min(left)
    <3>1. first \in Nat /\ \A j \in left : first <= j
      BY <2>2, <2>3, <2>5
    <3> HIDE DEF first
    <3>2. \A j \in Slot : j < first => j \notin left
      BY <1>0, <3>1
    <3> QED
      BY <3>2 DEF first
  <2> QED
    BY <1>1, <2>4, <2>6 DEF Written
<1>3. CASE left = {}
  <2>1. \A j \in Slot : tbl'.entry[j] = NextEntry(j)
    BY <1>1, <1>3
  <2>2. Listed(tbl'.entry)
    BY <2>1, WrittenIsListed
  <2>3. Listed(tbl.entry)'
    BY <2>2 DEF Listed, Serves, Refused
  <2>4. task'.at \in {"index", "admit", "idle"}
    BY <1>3 DEF After, Idle
  <2> QED
    BY <1>1, <2>1, <2>3, <2>4 DEF Written, Writing
<1> QED
  BY <1>2, <1>3

LEMMA ListInit == Init => ListInv
<1> SUFFICES ASSUME Init PROVE ListInv
  OBVIOUS
<1>1. \A i \in Slot : adm[i].stream = None
  BY DEF Init, Free
<1>2. RowsUnique
  BY DEF Init, RowsUnique
<1>3. task.at = "idle"
  BY DEF Init, Idle
<1> QED
  BY <1>1, <1>2, <1>3 DEF ListInv, SlotsKnown, Written, Writing, Listed

\* One row more, unless it is there.
LEMMA RowsGrow ==
  ASSUME RowsForm, RowsUnique, NEW s \in Stream,
         rows' = IF \E i \in DOMAIN rows : rows[i] = s THEN rows ELSE Append(rows, s)
  PROVE  RowsUnique' /\ \A q : Known(q) => Known(q)'
<1>1. CASE \E i \in DOMAIN rows : rows[i] = s
  BY <1>1 DEF RowsUnique, Known
<1>2. CASE ~ \E i \in DOMAIN rows : rows[i] = s
  <2> DEFINE n == Len(rows)
  <2>1. rows' = Append(rows, s) /\ n \in Nat /\ DOMAIN rows = 1..n
    BY <1>2 DEF RowsForm
  <2>2. DOMAIN rows' = 1..(n + 1) /\ rows'[n + 1] = s
        /\ \A i \in 1..n : rows'[i] = rows[i]
    BY <2>1 DEF RowsForm
  <2>3. \A i \in 1..(n + 1) : i = n + 1 \/ i \in 1..n
    BY <2>1
  <2>4. 1..n \subseteq 1..(n + 1)
    BY <2>1
  <2> HIDE DEF n
  <2>5. RowsUnique'
    BY <1>2, <2>1, <2>2, <2>3 DEF RowsUnique
  <2>6. \A q : Known(q) => Known(q)'
    BY <2>1, <2>2, <2>4 DEF Known
  <2> QED
    BY <2>5, <2>6
<1> QED
  BY <1>1, <1>2

LEMMA ListStep ==
  LookInv /\ AdmInv /\ AdmInv' /\ UpstreamInv /\ ToldInv /\ ListInv /\ [Next]_vars => ListInv'
<1> SUFFICES ASSUME LookInv, AdmInv, AdmInv', UpstreamInv, ToldInv, ListInv, [Next]_vars
             PROVE  ListInv'
  OBVIOUS
<1>l. RowsUnique /\ SlotsKnown /\ Written /\ TaskForm
  BY DEF ListInv, LookInv
\* The refresh comes next: there is no more to say of the table.
<1>r. ASSUME task'.at = "refresh" PROVE Written'
  BY <1>r DEF Written, Writing
<1>1. ASSUME NEW s \in Stream, NEW v, NEW ev, RxTalker(s, v, ev) PROVE ListInv'
  <2>1. UNCHANGED <<rows, adm>> /\ task' = Refreshing(TRUE)
    BY <1>1 DEF RxTalker
  <2>2. task'.at = "refresh"
    BY <2>1 DEF Refreshing
  <2>3. RowsUnique' /\ SlotsKnown'
    BY <1>l, <2>1 DEF RowsUnique, SlotsKnown, Known
  <2> QED
    BY <1>r, <2>2, <2>3 DEF ListInv
<1>2. ASSUME NEW s \in Stream, NEW d, NEW ev, RxListener(s, d, ev) PROVE ListInv'
  <2>1. /\ adm' = adm /\ task' = Refreshing(TRUE)
        /\ rows' = IF \E i \in DOMAIN rows : rows[i] = s THEN rows ELSE Append(rows, s)
    BY <1>2 DEF RxListener
  <2>2. task'.at = "refresh"
    BY <2>1 DEF Refreshing
  <2>3. RowsUnique' /\ \A q : Known(q) => Known(q)'
    BY <1>l, <2>1, RowsGrow DEF AdmInv
  <2>4. SlotsKnown'
    BY <1>l, <2>1, <2>3 DEF SlotsKnown
  <2> QED
    BY <1>r, <2>2, <2>3, <2>4 DEF ListInv
\* A handler that leaves what is declared alone.
<1>3. ASSUME task = Idle, UNCHANGED <<rows, adm, tbl, task>>,
             \A s \in Stream : /\ listener'[s].decl = listener[s].decl
                               /\ talker'[s].val = talker[s].val
      PROVE  ListInv'
  <2>1. \A s \in Stream : Serves(s)' <=> Serves(s)
    BY <1>3 DEF Serves, Refused
  <2>2. Listed(tbl.entry) /\ task.at = "idle"
    BY <1>3, <1>l DEF Written, Idle
  <2>3. \A i \in Slot : adm[i].stream # None => adm[i].stream \in Stream
    BY DEF AdmInv, AdmForm, SlotRec
  <2>4. Listed(tbl.entry)'
    BY <1>3, <2>1, <2>2, <2>3 DEF Listed
  <2>5. RowsUnique' /\ SlotsKnown'
    BY <1>3, <1>l DEF RowsUnique, SlotsKnown, Known
  <2> QED
    BY <1>3, <2>2, <2>4, <2>5 DEF ListInv, Written, Writing
<1>4. CASE RxTalkerLeaveAll
  <2>1. /\ UNCHANGED <<listener, rows, adm, tbl, task>> /\ task = Idle
        /\ talker' = [q \in Stream |->
             IF q \in Steady THEN talker[q]
             ELSE [talker[q] EXCEPT !.reg = RegistrarStep(@, "rLA")]]
    BY <1>4 DEF RxTalkerLeaveAll
  <2>2. \A q \in Stream : talker'[q].val = talker[q].val
    BY <2>1 DEF AdmInv, TalkerForm
  <2> QED
    BY <1>3, <2>1, <2>2
<1>5. CASE RxListenerLeaveAll
  <2>1. /\ UNCHANGED <<talker, rows, adm, tbl, task>> /\ task = Idle
        /\ listener' =
             [s \in Stream |-> [listener[s] EXCEPT !.reg = RegistrarStep(@, "rLA")]]
    BY <1>5 DEF RxListenerLeaveAll
  <2>2. \A q \in Stream : listener'[q].decl = listener[q].decl
    BY <2>1 DEF UpstreamInv, StationForm
  <2> QED
    BY <1>3, <2>1, <2>2
<1>6. ASSUME NEW s \in Stream, TalkerLeaves(s) PROVE ListInv'
  <2> DEFINE c == OnTalkerChange(s, talker[s].val, "deregister")
  <2>1. /\ UNCHANGED <<listener, rows, adm, tbl, task>> /\ task = Idle
        /\ talker' = [talker EXCEPT ![s].reg = "MT", ![s].prop = c.prop]
    BY <1>6 DEF TalkerLeaves
  <2> HIDE DEF c
  <2>2. \A q \in Stream : talker'[q].val = talker[q].val
    BY <2>1 DEF AdmInv, TalkerForm
  <2> QED
    BY <1>3, <2>1, <2>2
<1>7. ASSUME NEW s \in Stream, ListenerLeaves(s) PROVE ListInv'
  <2>1. /\ UNCHANGED <<talker, rows, adm, tbl, task>> /\ task = Idle
        /\ listener' = [listener EXCEPT ![s].reg = "MT"]
    BY <1>7 DEF ListenerLeaves
  <2>2. \A q \in Stream : listener'[q].decl = listener[q].decl
    BY <2>1 DEF UpstreamInv, StationForm
  <2> QED
    BY <1>3, <2>1, <2>2
<1>8. CASE JoinTimer
  BY <1>3, <1>8 DEF JoinTimer
<1>9. CASE Update
  <2>1. PICK x : /\ Merging(Size, x) /\ Telling(x) /\ adm' = x.adm
                 /\ task' = IF x.decided THEN Refreshing(FALSE) ELSE Idle
    BY <1>9, UpdateMerges
  <2>2. UNCHANGED <<talker, rows, listener, tbl>> /\ task.at = "admit"
    BY <1>9 DEF Update
  <2>3. RowsUnique'
    BY <1>l, <2>2 DEF RowsUnique
  <2>4. SlotsKnown'
    <3>1. \A i \in Slot : x.adm[i].stream # None => x.adm[i].wanted
      BY <2>1 DEF AdmInv, AdmForm
    <3>2. \A i \in Slot : x.adm[i].stream # None => Known(x.adm[i].stream)
      BY <2>1, <3>1 DEF Telling, Wanted, Known
    <3> QED
      BY <2>1, <2>2, <3>2 DEF SlotsKnown, Known
  <2>5. CASE x.decided
    <3>1. task'.at = "refresh"
      BY <2>1, <2>5 DEF Refreshing
    <3> QED
      BY <1>r, <2>3, <2>4, <3>1 DEF ListInv
  <2>6. CASE ~x.decided
    <3>1. task' = Idle /\ Kept(x.adm)
      BY <2>1, <2>6 DEF Telling
    <3>2. Listed(tbl.entry)
      BY <1>l, <2>2, WrittenIsListed DEF Written
    <3>3. ASSUME NEW i \in Slot, x.adm[i].stream # None
          PROVE  /\ x.adm[i].stream = adm[i].stream
                 /\ Refused(x.adm, x.adm[i].stream) <=> Refused(adm, x.adm[i].stream)
      <4>1. /\ x.adm[i].stream = adm[i].stream
            /\ x.adm[i].refused <=> adm[i].refused
        BY <2>1, <3>1, <3>3 DEF Merging, Kept, Slot
      <4>2. Unique(x.adm) /\ Unique(adm)
        BY <2>1 DEF Merging, UpstreamInv
      <4>3. Refused(x.adm, x.adm[i].stream) <=> x.adm[i].refused
        BY <3>3, <4>2, RefusedIs
      <4>4. Refused(adm, adm[i].stream) <=> adm[i].refused
        BY <3>3, <4>1, <4>2, RefusedIs
      <4> QED
        BY <4>1, <4>3, <4>4
    <3>4. \A q : Refused(adm', q) <=> Refused(x.adm, q)
      BY <2>1 DEF Refused
    <3>5. \A i \in Slot : x.adm[i].stream # None =>
            (Serves(x.adm[i].stream)' <=> Serves(x.adm[i].stream))
      BY <2>1, <2>2, <3>3, <3>4 DEF Serves
    <3>6. Listed(tbl.entry)'
      BY <2>1, <2>2, <3>2, <3>3, <3>5 DEF Listed
    <3>7. task'.at = "idle"
      BY <3>1 DEF Idle
    <3> QED
      BY <2>3, <2>4, <3>6, <3>7 DEF ListInv, Written, Writing
  <2> QED
    BY <2>1, <2>5, <2>6 DEF Telling
\* A refresh: what is written depends on nothing it changes.
<1>u. ASSUME UNCHANGED <<talker, rows, listener, adm>>
      PROVE  /\ RowsUnique' /\ SlotsKnown' /\ \A i : NextEntry(i)' = NextEntry(i)
             /\ \A s : Serves(s)' <=> Serves(s)
  BY <1>l, <1>u, NextEntrySame DEF RowsUnique, SlotsKnown, Known, Serves, Refused
<1>0. ASSUME UNCHANGED <<talker, rows, listener, adm, tbl, task>> PROVE ListInv'
  <2>1. \A i : NextEntry(i)' = NextEntry(i)
    BY <1>0, <1>u
  <2>2. Listed(tbl.entry) => Listed(tbl.entry)'
    BY <1>0, <1>u DEF Listed
  <2>3. Written'
    BY <1>0, <1>l, <2>1, <2>2 DEF Written
  <2> QED
    BY <1>0, <1>u, <2>3 DEF ListInv
<1>10. CASE Refresh
  <2>1. UNCHANGED <<talker, rows, listener, adm, tbl>> /\ task' = After(0)
    BY <1>10 DEF Refresh
  <2>2. 0 \in 0..Size /\ \A j \in Slot : ~(j <= 0)
    BY SlotsFinite DEF Slot
  <2>3. Written'
    BY <1>l, <2>1, <2>2, AfterWrites
  <2> QED
    BY <1>u, <2>1, <2>3 DEF ListInv
<1>11. ASSUME task.at \in {"off", "da", "sta"}, NEW at \in Writing, NEW e, Put(e),
              task' = [task EXCEPT !.at = at]
       PROVE  ListInv'
  <2>1. UNCHANGED <<talker, rows, listener, adm>>
        /\ tbl' = [tbl EXCEPT !.entry[task.i] = e]
    BY <1>11 DEF Put
  <2>2. task'.i = task.i /\ task'.at = at /\ task.i \in Slot
    BY <1>l, <1>11, NextField DEF Writing
  <2>3. \A j \in Slot : j # task.i => tbl'.entry[j] = tbl.entry[j]
    <3> DEFINE entry == [tbl.entry EXCEPT ![task.i] = e]
    <3>1. tbl' = [entry |-> entry, index |-> tbl.index]
      BY <2>1 DEF LookInv, TableForm
    <3>2. \A j \in Slot : j # task.i => entry[j] = tbl.entry[j]
      BY DEF LookInv, TableForm
    <3> HIDE DEF entry
    <3> QED
      BY <3>1, <3>2
  <2>4. \A j \in Slot : j < task.i => j # task.i
    BY <2>2, SlotsFinite DEF Slot
  <2>5. \A j \in Slot : j < task.i => tbl.entry[j] = NextEntry(j)
    BY <1>l, <1>11 DEF Written, Writing
  <2>6. Written'
    BY <1>u, <2>1, <2>2, <2>3, <2>4, <2>5 DEF Written, Writing
  <2> QED
    BY <1>u, <2>1, <2>6 DEF ListInv
<1>12. CASE Invalidate
  BY <1>11, <1>12 DEF Invalidate, Writing
<1>13. CASE WriteDa
  BY <1>11, <1>13 DEF WriteDa, Writing
<1>14. CASE WriteSta
  BY <1>11, <1>14 DEF WriteSta, Writing
<1>15. CASE Validate
  <2> DEFINE e == NextEntry(task.i)
  <2>1. /\ task.at = "valid" /\ task' = After(task.i)
        /\ UNCHANGED <<talker, rows, listener, adm>>
        /\ tbl' = [tbl EXCEPT !.entry[task.i] = e]
    BY <1>15 DEF Validate, Put
  <2>2. task.i \in Slot
    BY <1>l, <2>1 DEF TaskForm, Writing
  <2>3. /\ tbl'.entry[task.i] = e
        /\ \A j \in Slot : j # task.i => tbl'.entry[j] = tbl.entry[j]
    <3> HIDE DEF e
    <3> DEFINE entry == [tbl.entry EXCEPT ![task.i] = e]
    <3>1. tbl' = [entry |-> entry, index |-> tbl.index]
      BY <2>1 DEF LookInv, TableForm
    <3>2. /\ entry[task.i] = e
          /\ \A j \in Slot : j # task.i => entry[j] = tbl.entry[j]
      BY <2>2 DEF LookInv, TableForm
    <3> HIDE DEF entry
    <3> QED
      BY <3>1, <3>2
  <2>4. /\ task.i \in 0..Size
        /\ \A j \in Slot : j <= task.i => j = task.i \/ j < task.i
        /\ \A j \in Slot : j < task.i \/ j > task.i => j # task.i
    BY <2>2, SlotsFinite DEF Slot
  <2>5. \A j \in Slot : j < task.i => tbl.entry[j] = NextEntry(j)
    BY <1>l, <2>1 DEF Written, Writing
  <2>6. \A j \in Slot : j <= task.i => tbl'.entry[j] = NextEntry(j)
    BY <2>3, <2>4, <2>5
  <2>7. \A j \in Slot : j > task.i => tbl'.entry[j] = tbl.entry[j]
    BY <2>3, <2>4
  <2>8. Written'
    BY <1>l, <2>1, <2>4, <2>6, <2>7, AfterWrites
  <2> QED
    BY <1>u, <2>1, <2>8 DEF ListInv
<1>16. CASE WriteIndex
  <2>1. /\ UNCHANGED <<talker, rows, listener, adm>> /\ task.at = "index"
        /\ task' = IF task.admit THEN [at |-> "admit"] ELSE Idle
        /\ tbl' = [tbl EXCEPT !.index = NextIndex]
    BY <1>16 DEF WriteIndex
  <2>2. tbl' = [entry |-> tbl.entry, index |-> NextIndex]
    BY <2>1 DEF LookInv, TableForm
  <2>3. tbl'.entry = tbl.entry
    BY <2>2
  <2>4. \A j \in Slot : tbl.entry[j] = NextEntry(j)
    BY <1>l, <2>1 DEF Written
  <2>5. Listed(tbl.entry)
    BY <1>l, <2>4, WrittenIsListed
  <2>6. Listed(tbl.entry)'
    BY <1>u, <2>1, <2>3, <2>5 DEF Listed
  <2>7. task'.at \in {"admit", "idle"}
    BY <2>1 DEF Idle
  <2>8. Written'
    BY <1>u, <2>1, <2>3, <2>4, <2>6, <2>7 DEF Written, Writing
  <2> QED
    BY <1>u, <2>1, <2>8 DEF ListInv
<1>17. CASE UNCHANGED vars
  BY <1>0, <1>17 DEF vars
<1>18. ASSUME NEW s \in Stream, Lookup(s) PROVE ListInv'
  BY <1>0, <1>18 DEF Lookup
<1>19. CASE LookValid \/ LookDa \/ Address
  BY <1>0, <1>19 DEF LookValid, LookDa, Address
<1> QED
  BY <1>1, <1>2, <1>4, <1>5, <1>6, <1>7, <1>8, <1>9, <1>10, <1>12, <1>13, <1>14, <1>15,
     <1>16, <1>17, <1>18, <1>19 DEF Next

\* Whenever the AVB task rests, a stream that listener stations want is told to
\* them as Talker Failed exactly while it is refused, and has an entry in the
\* table of stations exactly while it is admitted
\* (msrp_wifi_admission_update, msrp_wifi_ucast_refresh).
THEOREM TablesAgree == Spec => []RefusedEverywhere
<1>1. LookInv /\ AdmInv /\ UpstreamInv /\ ToldInv /\ ListInv => RefusedEverywhere
  <2> SUFFICES ASSUME AdmInv, UpstreamInv, ToldInv, ListInv, task = Idle,
                      NEW i \in Slot, adm[i].stream # None, adm[i].wanted,
                      talker[adm[i].stream].reg = "IN",
                      Allowed(talker[adm[i].stream].val)
               PROVE  /\ (ours[adm[i].stream].fail # None) = adm[i].refused
                      /\ (ours[adm[i].stream].adv # None) = ~adm[i].refused
                      /\ listener[adm[i].stream].decl # "asking" =>
                           (\E j \in Slot : /\ tbl.entry[j].valid
                                            /\ tbl.entry[j].da = adm[i].stream)
                             = ~adm[i].refused
    BY DEF RefusedEverywhere, AtRest
  <2> DEFINE s == adm[i].stream
  <2>1. s \in Stream /\ adm[i].refused \in BOOLEAN
    BY DEF AdmInv, AdmForm, SlotRec
  <2>2. Refused(adm, s) <=> adm[i].refused
    BY RefusedIs DEF UpstreamInv
  <2>3. Follows(talker[s], ours[s]) /\ ToldAs(talker[s], ours[s], Refused(adm, s))
    BY <2>1 DEF ToldInv
  <2>4. /\ (ours[s].fail # None) <=> adm[i].refused
        /\ (ours[s].adv # None) <=> ~adm[i].refused
    BY <2>2, <2>3 DEF Follows, ToldAs
  <2>5. ASSUME listener[s].decl # "asking"
        PROVE  (\E j \in Slot : tbl.entry[j].valid /\ tbl.entry[j].da = s) <=> ~adm[i].refused
    <3>1. Listed(tbl.entry)
      BY DEF ListInv, Written, Idle
    <3>2. listener[s].decl \in {"ready", "readyFailed"}
      BY <2>1, <2>5 DEF UpstreamInv, StationForm, Decl
    <3>3. talker[s].val # None
      <4>1. None \notin Value
        BY Zenon, WifiPortAssumption
      <4> QED
        BY <2>1, <4>1 DEF AdmInv, TalkerForm
    <3> QED
      BY <2>2, <3>1, <3>2, <3>3 DEF Listed, Serves
  <2> QED
    BY <2>1, <2>4, <2>5
<1>2. Init => LookInv /\ AdmInv /\ UpstreamInv /\ ToldInv /\ ListInv
  BY LookInit, AdmInit, UpstreamInit, ToldInit, ListInit
<1>3. LookInv /\ AdmInv /\ UpstreamInv /\ ToldInv /\ ListInv /\ [Next]_vars =>
        LookInv' /\ AdmInv' /\ UpstreamInv' /\ ToldInv' /\ ListInv'
  BY LookStep, AdmStep, UpstreamStep, ToldStep, ListStep
<1> QED
  BY <1>1, <1>2, <1>3, PTL DEF Spec
=============================================================================
