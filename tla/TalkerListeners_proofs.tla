------------------------ MODULE TalkerListeners_proofs ------------------------
(***************************************************************************)
(* For any number of listeners, rows and tasks: a stream of a talker runs  *)
(* only while it is registered and its table has a row, the rows of a      *)
(* listener are merged, and a stream that is said to run has a task unless *)
(* one failed in this run.                                                 *)
(*                                                                         *)
(* And of the addresses that MAAP gives to the streams, for any number of  *)
(* stations and streams: no two talkers share one if at most one message   *)
(* is lost, and none leaves the one it has.                                *)
(***************************************************************************)
EXTENDS TalkerListeners, Maap, FiniteSetTheorems, FunctionTheorems, SequenceTheorems,
        WellFoundedInduction, TLAPS

-----------------------------------------------------------------------------
(* Rows *)

(* Two rows are of different listeners, as far as the table can tell.      *)
Apart(r, q) ==
  /\ r.mac = q.mac => r.mac = NoMac
  /\ r.id = q.id => r.id = NoListener

(* Setting a flag of a row leaves a row of the same listener.              *)
LEMMA SetReady ==
  ASSUME NEW r \in Row, NEW b \in BOOLEAN
  PROVE  LET q == [r EXCEPT !.ready = b] IN
         q \in Row /\ q.ready = b /\ q.mac = r.mac /\ q.id = r.id
BY DEF Row

LEMMA SetLive ==
  ASSUME NEW r \in Row, NEW b \in BOOLEAN
  PROVE  LET q == [r EXCEPT !.live = b] IN
         q \in Row /\ q.ready = r.ready /\ q.mac = r.mac /\ q.id = r.id
BY DEF Row

LEMMA SetAcmp ==
  ASSUME NEW r \in Row, NEW b \in BOOLEAN
  PROVE  LET q == [r EXCEPT !.acmp = b] IN
         q \in Row /\ q.ready = r.ready /\ q.mac = r.mac /\ q.id = r.id
BY DEF Row

LEMMA SetSince ==
  ASSUME NEW r \in Row, NEW n \in Never .. HoldDown + 1
  PROVE  LET q == [r EXCEPT !.since = n] IN
         q \in Row /\ q.ready = r.ready /\ q.mac = r.mac /\ q.id = r.id
BY DEF Row

LEMMA SetMac ==
  ASSUME NEW r \in Row, NEW m \in Mac
  PROVE  LET q == [r EXCEPT !.mac = m] IN
         q \in Row /\ q.ready = r.ready /\ q.mac = m /\ q.id = r.id
BY DEF Row

LEMMA SetId ==
  ASSUME NEW r \in Row, NEW l \in Listener
  PROVE  LET q == [r EXCEPT !.id = l] IN
         q \in Row /\ q.ready = r.ready /\ q.mac = r.mac /\ q.id = l
BY DEF Row

(* The three fields that an end of readiness clears, or a Ready sets.      *)
LEMMA SetReadiness ==
  ASSUME NEW r \in Row, NEW b \in BOOLEAN, NEW c \in BOOLEAN
  PROVE  LET q == [r EXCEPT !.ready = b, !.live = c, !.since = Never] IN
         q \in Row /\ q.ready = b /\ q.mac = r.mac /\ q.id = r.id
<1>1. Never \in Never .. HoldDown + 1  BY RowsAssumption DEF Never
<1> QED  BY <1>1 DEF Row

LEMMA NewRowType ==
  ASSUME NEW m \in Mac \cup {NoMac}, NEW l \in Listener \cup {NoListener}
  PROVE  LET q == NewRow(m, l) IN
         q \in Row /\ ~q.ready /\ q.mac = m /\ q.id = l
<1> DEFINE no == FALSE
<1>1. no \in BOOLEAN /\ ~no  OBVIOUS
<1>2. Never \in Never .. HoldDown + 1  BY RowsAssumption DEF Never
<1>3. NewRow(m, l) = [mac |-> m, id |-> l, ready |-> no, live |-> no,
                      acmp |-> no, since |-> Never]
  BY DEF NewRow
<1> HIDE DEF no
<1> QED  BY <1>1, <1>2, <1>3 DEF Row

-----------------------------------------------------------------------------
(* The table *)

(* What every table is: rows, no more than there is room for, no two of    *)
(* which are one listener's.                                               *)
Table(rs) ==
  /\ rs \subseteq Row /\ IsFiniteSet(rs) /\ Cardinality(rs) <= MaxRows
  /\ \A r, q \in rs : r # q => Apart(r, q)

(* What find_or_add returns: a row of its own, and room for it.            *)
Fits(f) ==
  /\ f.row \in Row /\ f.others \subseteq rows /\ Cardinality(f.others) < MaxRows
  /\ f.row.ready => AnyReady(rows)
  /\ \A q \in f.others : Apart(f.row, q)

(* A table without one of its rows is a table with room.                   *)
LEMMA Removal ==
  ASSUME Table(rows), NEW r \in rows
  PROVE  Table(rows \ {r}) /\ Cardinality(rows \ {r}) < MaxRows
<1>1. /\ IsFiniteSet(rows \ {r})
      /\ Cardinality(rows \ {r}) = Cardinality(rows) - 1
      /\ Cardinality(rows) \in Nat
  BY FS_RemoveElement, FS_CardinalityType DEF Table
<1> QED
  BY <1>1, RowsAssumption DEF Table

(* A row that was found, its address or identity replaced by one that no   *)
(* other row has, still fits.                                              *)
LEMMA FoundFits ==
  ASSUME Table(rows), NEW r \in rows, NEW row \in Row, row.ready = r.ready,
         row.mac = r.mac \/ \A q \in rows : q.mac # row.mac,
         row.id = r.id \/ \A q \in rows : q.id # row.id
  PROVE  Fits(Found(r, row))
<1>1. Found(r, row).row = row /\ Found(r, row).others = rows \ {r}
  BY DEF Found
<1>2. row.ready => AnyReady(rows)
  BY DEF AnyReady
<1>3. ASSUME NEW q \in rows \ {r} PROVE Apart(row, q)
  <2>1. Apart(r, q)
    BY DEF Table
  <2> QED
    BY <2>1 DEF Apart
<1> QED
  BY <1>1, <1>2, <1>3, Removal DEF Fits

LEMMA AddedFits ==
  ASSUME Table(rows), NEW row \in Row, ~row.ready,
         row.mac = NoMac \/ \A q \in rows : q.mac # row.mac,
         row.id = NoListener \/ \A q \in rows : q.id # row.id,
         NEW f \in Added(row)
  PROVE  Fits(f)
<1>1. f = [row |-> row, others |-> rows] /\ Cardinality(rows) < MaxRows
  BY DEF Added
<1>2. f.row = row /\ f.others = rows
  BY <1>1
<1>3. \A q \in rows : Apart(row, q)
  BY DEF Apart
<1> QED
  BY <1>1, <1>2, <1>3 DEF Fits

(* find_or_add_msrp_listener                                               *)
LEMMA MsrpFits ==
  ASSUME Table(rows), known \subseteq Listener, NEW m \in Mac, NEW f \in MsrpRow(m)
  PROVE  Fits(f)
<1>1. CASE ByMac(m) # {}
  <2>1. PICK r \in ByMac(m) : f = Found(r, r)
    BY <1>1 DEF MsrpRow
  <2>2. r \in rows /\ r \in Row
    BY <2>1 DEF ByMac, Table
  <2> QED
    BY <2>1, <2>2, FoundFits
<1>2. CASE ByMac(m) = {} /\ ByEntity(m) # {}
  <2>1. PICK r \in ByEntity(m) : f = Found(r, [r EXCEPT !.mac = m])
    BY <1>2 DEF MsrpRow
  <2>2. r \in rows /\ r \in Row
    BY <2>1 DEF ByEntity, Table
  <2>3. \A q \in rows : q.mac # m
    BY <1>2 DEF ByMac
  <2> DEFINE row == [r EXCEPT !.mac = m]
  <2>4. row \in Row /\ row.ready = r.ready /\ row.mac = m /\ row.id = r.id
    BY <2>2, SetMac
  <2> HIDE DEF row
  <2>5. Fits(Found(r, row))
    BY <2>2, <2>3, <2>4, FoundFits
  <2> QED
    BY <2>1, <2>5 DEF row
<1>3. CASE ByMac(m) = {} /\ ByEntity(m) = {}
  <2> DEFINE l == NameOf(m)
             row == NewRow(m, l)
  <2>1. f \in Added(row)
    BY <1>3 DEF MsrpRow
  <2>2. l = NoListener \/ l \in AtMac(m)
    <3>1. CASE Cardinality(AtMac(m)) = 1
      <4>1. AtMac(m) # {}
        BY <3>1, FS_EmptySet
      <4> QED
        BY <3>1, <4>1 DEF NameOf
    <3>2. CASE Cardinality(AtMac(m)) # 1
      BY <3>2 DEF NameOf
    <3> QED
      BY <3>1, <3>2
  <2>3. l \in Listener \cup {NoListener}
    BY <2>2 DEF AtMac
  <2> HIDE DEF l
  <2>4. row \in Row /\ ~row.ready /\ row.mac = m /\ row.id = l
    BY <2>3, NewRowType
  <2>5. \A q \in rows : q.mac # m
    BY <1>3 DEF ByMac
  <2>6. l = NoListener \/ \A q \in rows : q.id # l
    BY <2>2, <1>3 DEF ByEntity
  <2> HIDE DEF row
  <2> QED
    BY <2>1, <2>4, <2>5, <2>6, AddedFits
<1> QED
  BY <1>1, <1>2, <1>3

(* find_or_add_talker_listener_by_identity                                 *)
LEMMA AcmpFits ==
  ASSUME Table(rows), NEW l \in Listener, NEW f \in AcmpRow(l)
  PROVE  Fits(f)
<1>1. CASE RowOf(l) # {}
  <2>1. PICK r \in RowOf(l) : f = Found(r, r)
    BY <1>1 DEF AcmpRow
  <2>2. r \in rows /\ r \in Row
    BY <2>1 DEF RowOf, Table
  <2> QED
    BY <2>1, <2>2, FoundFits
<1>2. CASE RowOf(l) = {} /\ Cardinality(Pending) = 1
  <2>1. PICK r \in Pending : f = Found(r, [r EXCEPT !.id = l])
    BY <1>2 DEF AcmpRow
  <2>2. r \in rows /\ r \in Row
    BY <2>1 DEF Pending, Table
  <2>3. \A q \in rows : q.id # l
    BY <1>2 DEF RowOf
  <2> DEFINE row == [r EXCEPT !.id = l]
  <2>4. row \in Row /\ row.ready = r.ready /\ row.mac = r.mac /\ row.id = l
    BY <2>2, SetId
  <2> HIDE DEF row
  <2>5. Fits(Found(r, row))
    BY <2>2, <2>3, <2>4, FoundFits
  <2> QED
    BY <2>1, <2>5 DEF row
<1>3. CASE RowOf(l) = {} /\ Cardinality(Pending) # 1
  <2> DEFINE row == NewRow(NoMac, l)
  <2>1. f \in Added(row)
    BY <1>3 DEF AcmpRow
  <2>2. row \in Row /\ ~row.ready /\ row.mac = NoMac /\ row.id = l
    BY NewRowType
  <2>3. \A q \in rows : q.id # l
    BY <1>3 DEF RowOf
  <2> HIDE DEF row
  <2> QED
    BY <2>1, <2>2, <2>3, AddedFits
<1> QED
  BY <1>1, <1>2, <1>3

(* The found row, changed in its flags, goes back into the table.          *)
LEMMA Replacement ==
  ASSUME Table(rows), NEW f, Fits(f), NEW row \in Row,
         row.mac = f.row.mac, row.id = f.row.id
  PROVE  /\ Table(f.others \cup {row})
         /\ AnyReady(f.others \cup {row}) => AnyReady(rows) \/ row.ready
<1>1. IsFiniteSet(f.others)
  BY FS_Subset DEF Fits, Table
<1>2. /\ IsFiniteSet(f.others \cup {row})
      /\ Cardinality(f.others \cup {row}) <= Cardinality(f.others) + 1
      /\ Cardinality(f.others) \in Nat
  <2> DEFINE S == f.others
  <2>1. IsFiniteSet(S) /\ Cardinality(S) \in Nat
    BY <1>1, FS_CardinalityType
  <2> HIDE DEF S
  <2>2. /\ IsFiniteSet(S \cup {row})
        /\ Cardinality(S \cup {row}) =
             IF row \in S THEN Cardinality(S) ELSE Cardinality(S) + 1
    BY <2>1, FS_AddElement
  <2>3. Cardinality(S \cup {row}) <= Cardinality(S) + 1
    BY <2>1, <2>2
  <2> QED
    BY <2>1, <2>2, <2>3 DEF S
<1>3. Cardinality(f.others \cup {row}) <= MaxRows
  <2>1. Cardinality(f.others \cup {row}) \in Nat
    BY <1>2, FS_CardinalityType
  <2> QED
    BY <1>2, <2>1, RowsAssumption DEF Fits
<1>4. ASSUME NEW q \in f.others PROVE Apart(row, q) /\ Apart(q, row)
  BY DEF Fits, Apart
<1>5. \A r, q \in f.others : r # q => Apart(r, q)
  BY DEF Fits, Table
<1>6. f.others \cup {row} \subseteq Row
  BY DEF Fits, Table
<1>7. AnyReady(f.others \cup {row}) => AnyReady(rows) \/ row.ready
  BY DEF AnyReady, Fits
<1> QED
  BY <1>2, <1>3, <1>4, <1>5, <1>6, <1>7 DEF Table

(* A change g of the flags of some rows, the others left out.              *)
LEMMA Mapping ==
  ASSUME NEW from, Table(from), NEW S \in SUBSET from, NEW g \in [S -> Row],
         \A r \in S : /\ g[r].mac = r.mac /\ g[r].id = r.id
                      /\ g[r].ready => r.ready
  PROVE  LET rs == {g[r] : r \in S} IN
         /\ Table(rs)
         /\ AnyReady(rs) => AnyReady(from)
<1> DEFINE rs == {g[r] : r \in S}
<1>1. rs \subseteq Row
  OBVIOUS
<1>2. IsFiniteSet(S) /\ Cardinality(S) <= Cardinality(from)
  BY FS_Subset DEF Table
<1>3. g \in Surjection(S, rs)
  <2>1. g \in [S -> rs] /\ \A t \in rs : \E r \in S : g[r] = t
    OBVIOUS
  <2> HIDE DEF rs
  <2> QED
    BY <2>1, Fun_IsSurj
<1>4. IsFiniteSet(rs) /\ Cardinality(rs) <= MaxRows
  <2> HIDE DEF rs
  <2>1. IsFiniteSet(rs) /\ Cardinality(rs) <= Cardinality(S)
    BY <1>2, <1>3, FS_Surjection
  <2>2. IsFiniteSet(from) /\ Cardinality(from) <= MaxRows
    BY DEF Table
  <2>3. /\ Cardinality(rs) \in Nat /\ Cardinality(S) \in Nat
        /\ Cardinality(from) \in Nat
    BY <1>2, <2>1, <2>2, FS_CardinalityType
  <2> QED
    BY <1>2, <2>1, <2>2, <2>3, RowsAssumption
<1>5. ASSUME NEW p \in rs, NEW q \in rs, p # q PROVE Apart(p, q)
  <2>1. PICK r \in S : p = g[r]
    OBVIOUS
  <2>2. PICK t \in S : q = g[t]
    OBVIOUS
  <2>3. Apart(r, t)
    BY <1>5, <2>1, <2>2 DEF Table
  <2> QED
    BY <2>1, <2>2, <2>3 DEF Apart
<1>6. AnyReady(rs) => AnyReady(from)
  BY DEF AnyReady
<1> HIDE DEF rs
<1>7. Table(rs)
  BY <1>1, <1>4, <1>5 DEF Table
<1> QED
  BY <1>6, <1>7 DEF rs

(* The end of a registration leaves no row ready.                          *)
LEMMA ClearedTable ==
  ASSUME Table(rows)
  PROVE  Table(Cleared(AcmpRows)) /\ ~AnyReady(Cleared(AcmpRows))
<1> DEFINE no == FALSE
           g == [r \in AcmpRows |-> [r EXCEPT !.ready = no]]
<1>1. no \in BOOLEAN /\ ~no
  OBVIOUS
<1>2. Cleared(AcmpRows) = {g[r] : r \in AcmpRows}
  BY DEF Cleared
<1>3. AcmpRows \in SUBSET rows /\ AcmpRows \subseteq Row
  BY DEF AcmpRows, Table
<1> HIDE DEF no
<1>4. ASSUME NEW r \in AcmpRows
      PROVE  g[r] \in Row /\ ~g[r].ready /\ g[r].mac = r.mac /\ g[r].id = r.id
  BY <1>1, <1>3, SetReady
<1>5. g \in [AcmpRows -> Row]
  BY <1>4
<1> HIDE DEF g
<1>6. Table({g[r] : r \in AcmpRows})
  BY <1>3, <1>4, <1>5, Mapping
<1> QED
  BY <1>2, <1>4, <1>6 DEF AnyReady

LEMMA RenewedTable ==
  ASSUME NEW from, Table(from)
  PROVE  Table(Renewed(from)) /\ ~AnyReady(Renewed(from))
<1> DEFINE no == FALSE
           S == {q \in from : q.acmp}
           g == [r \in S |-> [r EXCEPT !.ready = no, !.live = no, !.since = Never]]
<1>1. no \in BOOLEAN /\ ~no
  OBVIOUS
<1>2. Renewed(from) = {g[r] : r \in S}
  BY DEF Renewed
<1>3. S \in SUBSET from /\ S \subseteq Row
  BY DEF Table
<1> HIDE DEF no, S
<1>4. ASSUME NEW r \in S
      PROVE  g[r] \in Row /\ ~g[r].ready /\ g[r].mac = r.mac /\ g[r].id = r.id
  BY <1>1, <1>3, SetReadiness
<1>5. g \in [S -> Row]
  BY <1>4
<1> HIDE DEF g
<1>6. Table({g[r] : r \in S})
  BY <1>3, <1>4, <1>5, Mapping
<1> QED
  BY <1>2, <1>4, <1>6 DEF AnyReady

(* Time passes.                                                            *)
LEMMA TickTable ==
  ASSUME Table(rows), Tick
  PROVE  Table(rows') /\ (AnyReady(rows') => AnyReady(rows))
<1> DEFINE g == [r \in rows |-> IF r.since = Never THEN r
                                ELSE [r EXCEPT !.since = Later(r.since)]]
<1>1. rows' = {g[r] : r \in rows}
  BY DEF Tick
<1>2. ASSUME NEW r \in rows
      PROVE  g[r] \in Row /\ g[r].mac = r.mac /\ g[r].id = r.id
             /\ g[r].ready = r.ready
  <2>1. r \in Row
    BY DEF Table
  <2>2. r.since # Never => Later(r.since) \in Never .. HoldDown + 1
    BY <2>1, RowsAssumption DEF Row, Later, Never
  <2> QED
    BY <2>1, <2>2, SetSince
<1>3. g \in [rows -> Row]
  BY <1>2
<1> HIDE DEF g
<1>4. LET rs == {g[r] : r \in rows} IN
      Table(rs) /\ (AnyReady(rs) => AnyReady(rows))
  BY <1>2, <1>3, Mapping
<1> QED
  BY <1>1, <1>4

(* What an MRPDU makes of the row it was found for.                        *)
LEMMA ReadiedRow ==
  ASSUME NEW row \in Row
  PROVE  Readied(row) \in Row /\ Readied(row).mac = row.mac /\ Readied(row).id = row.id
<1> DEFINE yes == TRUE
           q == [row EXCEPT !.ready = yes, !.live = yes, !.since = Never]
<1>1. yes \in BOOLEAN
  OBVIOUS
<1>2. Readied(row) = q
  BY DEF Readied
<1> HIDE DEF yes
<1>3. q \in Row /\ q.mac = row.mac /\ q.id = row.id
  BY <1>1, SetReadiness
<1> QED
  BY <1>2, <1>3

LEMMA AskingRow ==
  ASSUME NEW row \in Row
  PROVE  /\ Asking(row) \in Row
         /\ Asking(row).mac = row.mac /\ Asking(row).id = row.id
         /\ Asking(row).ready => row.ready
<1> DEFINE no == FALSE
<1>1. no \in BOOLEAN /\ ~no /\ 0 \in Never .. HoldDown + 1
  BY RowsAssumption DEF Never
<1>2. CASE row.live /\ row.since = Never
  <2> DEFINE q == [row EXCEPT !.since = 0]
  <2>1. q \in Row /\ q.ready = row.ready /\ q.mac = row.mac /\ q.id = row.id
    BY <1>1, SetSince
  <2>2. Asking(row) = q
    BY <1>2, RowsAssumption DEF Asking, Never
  <2> HIDE DEF q
  <2> QED
    BY <2>1, <2>2
<1>3. CASE row.live /\ row.since # Never /\ row.since > HoldDown
  <2> DEFINE q == [row EXCEPT !.ready = no, !.live = no, !.since = Never]
  <2>1. Asking(row) = q
    BY <1>3 DEF Asking
  <2> HIDE DEF no
  <2>2. q \in Row /\ ~q.ready /\ q.mac = row.mac /\ q.id = row.id
    BY <1>1, SetReadiness
  <2> HIDE DEF q
  <2> QED
    BY <2>1, <2>2
<1>4. CASE ~(row.live /\ row.since = Never) /\ ~(row.live /\ row.since > HoldDown)
  BY <1>4 DEF Asking
<1> QED
  BY <1>2, <1>3, <1>4

-----------------------------------------------------------------------------
(* The invariant *)

(* Readiness, too, is held up by the registration: this is what the end of *)
(* a registration must take back.                                          *)
Held ==
  /\ streaming => reg /\ rows # {}
  /\ AnyReady(rows) => reg

(* A stream that runs is not asked to stop.                                *)
TaskRuns == streaming => (tasks > 0 \/ failed) /\ ~stop

TaskForm ==
  /\ streaming \in BOOLEAN /\ stop \in BOOLEAN /\ tasks \in 0 .. MaxTasks
  /\ failed \in BOOLEAN /\ fails \in 0 .. MaxFail

IInv == TypeOK /\ Table(rows) /\ (~observers => Held) /\ TaskRuns

(* The two ways a handler touches the task.                                *)
LEMMA Starting ==
  ASSUME TypeOK, TaskRuns, NEW w, StartIf(w)
  PROVE  /\ TaskForm'
         /\ TaskRuns'
         /\ streaming' => streaming \/ w
<1>a. tasks \in Nat /\ fails \in Nat /\ MaxTasks \in Nat /\ MaxFail \in Nat
  BY RowsAssumption DEF TypeOK
<1>1. CASE w /\ ~streaming /\ addr
  <2>1. CASE Unstarted
    <3>1. fails' \in 0 .. MaxFail
      BY <1>a, <2>1 DEF Unstarted, Fail
    <3>2. UNCHANGED <<streaming, stop, tasks, failed>>
      BY <2>1 DEF Unstarted
    <3> QED
      BY <1>1, <3>1, <3>2 DEF TypeOK, TaskForm, TaskRuns
  <2>2. CASE streaming' = TRUE /\ stop' = FALSE /\ Tasked
    <3>1. CASE tasks < MaxTasks /\ tasks' = tasks + 1 /\ failed' = FALSE /\ UNCHANGED fails
      <4>1. tasks' \in 0 .. MaxTasks /\ tasks' > 0
        BY <1>a, <3>1
      <4> QED
        BY <1>1, <2>2, <3>1, <4>1 DEF TypeOK, TaskForm, TaskRuns
    <3>2. CASE Fail /\ failed' = TRUE /\ UNCHANGED tasks
      <4>1. fails' \in 0 .. MaxFail
        BY <1>a, <3>2 DEF Fail
      <4> QED
        BY <1>1, <2>2, <3>2, <4>1 DEF TypeOK, TaskForm, TaskRuns
    <3> QED
      BY <2>2, <3>1, <3>2 DEF Tasked
  <2> QED
    BY <1>1, <2>1, <2>2 DEF StartIf
<1>2. CASE ~(w /\ ~streaming /\ addr)
  BY <1>2 DEF StartIf, TypeOK, TaskForm, TaskRuns, stream
<1> QED
  BY <1>1, <1>2

LEMMA Stopping ==
  ASSUME TypeOK, TaskRuns, NEW w, StopIf(w)
  PROVE  /\ TaskForm'
         /\ TaskRuns'
         /\ streaming' => streaming /\ ~w
BY DEF TypeOK, TaskForm, TaskRuns, StopIf, stream

(* An MRPDU takes a row that fits and leaves a table; without a            *)
(* registration beside it, only an observer's.                             *)
LEMMA RxTable ==
  ASSUME IInv, NEW m \in Mac, NEW d, RxListener(m, d)
  PROVE  /\ Table(rows')
         /\ TaskForm'
         /\ TaskRuns'
         /\ rows' # {} \/ UNCHANGED <<rows, streaming>>
<1>1. CASE MsrpRow(m) = {}
  <2>1. UNCHANGED <<rows, stream>>
    BY <1>1 DEF RxListener
  <2> QED
    BY <2>1 DEF IInv, TypeOK, TaskForm, TaskRuns, stream
<1>2. CASE MsrpRow(m) # {} /\ d = "AskingFailed"
  <2>1. PICK f \in MsrpRow(m) : RxAskingFailed(f.row, f.others)
    BY <1>2 DEF RxListener
  <2>2. Fits(f)
    BY MsrpFits DEF IInv, TypeOK
  <2> DEFINE row == Asking(f.row)
  <2>3. row \in Row /\ row.mac = f.row.mac /\ row.id = f.row.id
    BY <2>2, AskingRow DEF Fits
  <2>4. rows' = f.others \cup {row}
    BY <2>1 DEF RxAskingFailed
  <2> HIDE DEF row
  <2>5. Table(rows') /\ rows' # {}
    BY <2>2, <2>3, <2>4, Replacement DEF IInv
  <2>6. PICK w \in BOOLEAN : StopIf(w)
    <3> DEFINE w == f.row.live /\ f.row.since > HoldDown /\ ShouldStop(rows')
    <3>1. w \in BOOLEAN /\ StopIf(w)
      BY <2>1 DEF RxAskingFailed
    <3> QED
      BY <3>1
  <2> QED
    BY <2>5, <2>6, Stopping DEF IInv
<1>3. CASE MsrpRow(m) # {} /\ d # "AskingFailed"
  <2>1. PICK f \in MsrpRow(m) : RxReady(f.row, f.others)
    BY <1>3 DEF RxListener
  <2>2. Fits(f)
    BY MsrpFits DEF IInv, TypeOK
  <2> DEFINE row == Readied(f.row)
  <2>3. row \in Row /\ row.mac = f.row.mac /\ row.id = f.row.id
    BY <2>2, ReadiedRow DEF Fits
  <2>4. rows' = f.others \cup {row}
    BY <2>1 DEF RxReady
  <2> HIDE DEF row
  <2>5. Table(rows') /\ rows' # {}
    BY <2>2, <2>3, <2>4, Replacement DEF IInv
  <2>6. PICK w \in BOOLEAN : StartIf(w)
    <3> DEFINE w == milan \/ f.row.acmp
    <3>1. w \in BOOLEAN /\ StartIf(w)
      BY <2>1 DEF RxReady
    <3> QED
      BY <3>1
  <2> QED
    BY <2>5, <2>6, Starting DEF IInv
<1> QED
  BY <1>1, <1>2, <1>3

(* A type is all that is left to show once the table and the task are.     *)
LEMMA Typed ==
  ASSUME TypeOK, Table(rows'),
         TaskForm',
         UNCHANGED env, UNCHANGED addr \/ addr', reg' \in BOOLEAN,
         want' \in [Listener -> Wants]
  PROVE  TypeOK'
<1>1. addr' \in BOOLEAN
  BY DEF TypeOK
<1> QED
  BY <1>1 DEF TypeOK, TaskForm, Table, env

LEMMA InitIsTyped ==
  Init => IInv
<1> SUFFICES ASSUME Init PROVE IInv
  OBVIOUS
<1>1. Table(rows)
  BY FS_EmptySet, RowsAssumption DEF Init, Table
<1>2. want \in [Listener -> Wants]
  BY DEF Init, Wants
<1>3. milan \in BOOLEAN /\ observers \in BOOLEAN /\ sourceOf \in [Listener -> Mac]
  <2>1. PICK c \in Settings :
          milan = c.milan /\ observers = c.observers /\ sourceOf = c.sourceOf
    BY DEF Init
  <2>2. c \in [milan : BOOLEAN, observers : BOOLEAN, sourceOf : [Listener -> Mac]]
    BY RowsAssumption
  <2> QED
    BY <2>1, <2>2
<1>4. tasks \in 0 .. MaxTasks /\ fails \in 0 .. MaxFail
  BY RowsAssumption DEF Init
<1>5. known \in SUBSET Listener /\ reg \in BOOLEAN /\ addr \in BOOLEAN
  BY DEF Init
<1>6. streaming \in BOOLEAN /\ stop \in BOOLEAN /\ failed \in BOOLEAN
  BY DEF Init
<1>7. TypeOK
  BY <1>1, <1>2, <1>3, <1>4, <1>5, <1>6 DEF TypeOK, Table
<1> QED
  BY <1>1, <1>7 DEF IInv, Init, Held, AnyReady, TaskRuns

LEMMA RxDeclarationStep ==
  ASSUME IInv, NEW m \in Mac, RxDeclaration(m) PROVE IInv'
<1>1. RxListener(m, Merged(m)) /\ reg' /\ reg' \in BOOLEAN
      /\ UNCHANGED <<env, want, addr>>
  BY DEF RxDeclaration
<1>2. /\ Table(rows') /\ TaskRuns'
      /\ rows' # {} \/ UNCHANGED <<rows, streaming>>
      /\ TaskForm'
  BY <1>1, RxTable
<1>3. TypeOK'
  BY <1>1, <1>2, Typed DEF IInv, TypeOK
<1>4. ~observers' => Held'
  BY <1>1, <1>2 DEF IInv, Held, env
<1> QED
  BY <1>2, <1>3, <1>4 DEF IInv

LEMMA RxObserverStep ==
  ASSUME IInv, NEW m \in Mac, RxObserver(m) PROVE IInv'
<1>1. RxListener(m, "Ready") /\ observers /\ UNCHANGED <<env, want, reg, addr>>
  BY DEF RxObserver
<1>2. /\ Table(rows') /\ TaskRuns'
      /\ TaskForm'
  BY <1>1, RxTable
<1>3. TypeOK'
  BY <1>1, <1>2, Typed DEF IInv, TypeOK
<1> QED
  BY <1>1, <1>2, <1>3 DEF IInv, env

LEMMA AgeOutStep ==
  ASSUME IInv, AgeOut PROVE IInv'
<1>1. /\ rows' = Cleared(AcmpRows) /\ reg' = FALSE
      /\ StopIf(ShouldStop(rows')) /\ UNCHANGED <<env, want, addr>>
  BY DEF AgeOut
<1>2. Table(rows') /\ ~AnyReady(rows')
  BY <1>1, ClearedTable DEF IInv
<1>3. ShouldStop(rows')
  BY <1>2 DEF ShouldStop
<1>4. /\ ~streaming' /\ TaskRuns'
      /\ TaskForm'
  BY <1>1, <1>3, Stopping DEF IInv
<1>5. TypeOK'
  BY <1>1, <1>2, <1>4, Typed DEF IInv, TypeOK
<1>6. Held'
  <2>1. AnyReady(rows)' <=> AnyReady(rows')
    BY DEF AnyReady
  <2> QED
    BY <1>2, <1>4, <2>1 DEF Held
<1> QED
  BY <1>2, <1>4, <1>5, <1>6 DEF IInv

(* CONNECT_TX, with the move to a new stream ID and without.               *)
LEMMA ConnectTxStep ==
  ASSUME IInv, NEW l \in Listener, NEW moves \in BOOLEAN, ConnectTx(l, moves)
  PROVE  IInv'
<1> DEFINE yes == TRUE
<1>1. PICK f \in AcmpRow(l) :
        LET row == [f.row EXCEPT !.acmp = TRUE] IN
        IF moves /\ addr /\ ~streaming /\ ~AnyConnected(f.others)
        THEN /\ rows' = Renewed(f.others \cup {row}) /\ reg' = FALSE
             /\ want' = [k \in Listener |-> "None"]
             /\ UNCHANGED <<env, addr, stream>>
        ELSE /\ rows' = f.others \cup {row}
             /\ StartIf(row.ready)
             /\ UNCHANGED <<env, want, reg, addr>>
  BY DEF ConnectTx
<1>2. Fits(f)
  BY AcmpFits DEF IInv
<1> DEFINE row == [f.row EXCEPT !.acmp = yes]
           rs  == f.others \cup {row}
<1>3. yes \in BOOLEAN
  OBVIOUS
<1>4. \/ /\ rows' = Renewed(rs) /\ reg' = FALSE /\ ~streaming
         /\ want' = [k \in Listener |-> "None"]
         /\ UNCHANGED <<env, addr, stream>>
      \/ /\ rows' = rs /\ StartIf(row.ready)
         /\ UNCHANGED <<env, want, reg, addr>>
  BY <1>1
<1> HIDE DEF yes
<1>5. row \in Row /\ row.mac = f.row.mac /\ row.id = f.row.id
      /\ row.ready = f.row.ready
  BY <1>2, <1>3, SetAcmp DEF Fits
<1> HIDE DEF row
<1>6. Table(rs) /\ (AnyReady(rs) => AnyReady(rows)) /\ rs # {}
  BY <1>2, <1>5, Replacement DEF IInv, Fits
<1> HIDE DEF rs
<1>7. CASE /\ rows' = Renewed(rs) /\ reg' = FALSE /\ ~streaming
           /\ want' = [k \in Listener |-> "None"]
           /\ UNCHANGED <<env, addr, stream>>
  <2>1. Table(rows') /\ ~AnyReady(rows')
    BY <1>6, <1>7, RenewedTable
  <2>2. TypeOK'
    BY <1>7, <2>1, Typed DEF IInv, TypeOK, TaskForm, Wants, stream
  <2>3. Held' /\ TaskRuns'
    BY <1>7, <2>1 DEF Held, TaskRuns, AnyReady, stream
  <2> QED
    BY <2>1, <2>2, <2>3 DEF IInv
<1>8. CASE /\ rows' = rs /\ StartIf(row.ready)
           /\ UNCHANGED <<env, want, reg, addr>>
  <2>1. /\ TaskRuns'
        /\ streaming' => streaming \/ row.ready
        /\ TaskForm'
    BY <1>8, Starting DEF IInv
  <2>2. TypeOK'
    BY <1>6, <1>8, <2>1, Typed DEF IInv, TypeOK
  <2>3. ~observers' => Held'
    <3>1. row.ready => AnyReady(rows)
      BY <1>2, <1>5 DEF Fits
    <3> QED
      BY <1>6, <1>8, <2>1, <3>1 DEF IInv, Held, env, AnyReady
  <2> QED
    BY <1>6, <1>8, <2>1, <2>2, <2>3 DEF IInv
<1> QED
  BY <1>4, <1>7, <1>8

LEMMA DisconnectTxStep ==
  ASSUME IInv, NEW l \in Listener, DisconnectTx(l) PROVE IInv'
<1>1. PICK r \in RowOf(l) : /\ rows' = rows \ {r} /\ StopIf(rows' = {})
                            /\ UNCHANGED <<env, want, reg, addr>>
  BY DEF DisconnectTx
<1>2. Table(rows') /\ (AnyReady(rows') => AnyReady(rows))
  BY <1>1, Removal DEF IInv, RowOf, AnyReady
<1>3. /\ TaskRuns'
      /\ streaming' => streaming /\ rows' # {}
      /\ TaskForm'
  <2> DEFINE w == rows' = {}
  <2>1. StopIf(w)
    BY <1>1
  <2>2. /\ TaskRuns'
        /\ streaming' => streaming /\ ~w
        /\ TaskForm'
    <3> HIDE DEF w
    <3> QED
      BY <2>1, Stopping DEF IInv
  <2> QED
    BY <2>2
<1>4. TypeOK'
  BY <1>1, <1>2, <1>3, Typed DEF IInv, TypeOK
<1>5. ~observers' => Held'
  BY <1>1, <1>2, <1>3 DEF IInv, Held, env, AnyReady
<1> QED
  BY <1>2, <1>3, <1>4, <1>5 DEF IInv

LEMMA MoveIdStep ==
  ASSUME IInv, MoveId PROVE IInv'
<1>1. /\ rows' = Renewed(rows) /\ reg' = FALSE /\ ~streaming
      /\ want' = [k \in Listener |-> "None"] /\ UNCHANGED <<env, addr, stream>>
  BY DEF MoveId
<1>2. Table(rows') /\ ~AnyReady(rows')
  BY <1>1, RenewedTable DEF IInv
<1>3. TypeOK'
  BY <1>1, <1>2, Typed DEF IInv, TypeOK, TaskForm, Wants, stream
<1>4. Held' /\ TaskRuns'
  BY <1>1, <1>2 DEF Held, TaskRuns, AnyReady, stream
<1> QED
  BY <1>2, <1>3, <1>4 DEF IInv

LEMMA TickStep ==
  ASSUME IInv, Tick PROVE IInv'
<1>1. /\ rows' = {IF r.since = Never THEN r ELSE [r EXCEPT !.since = Later(@)] :
                    r \in rows}
      /\ UNCHANGED <<env, want, reg, addr, stream>>
  BY DEF Tick
<1>2. Table(rows') /\ (AnyReady(rows') => AnyReady(rows))
  BY TickTable DEF IInv
<1>3. rows # {} => rows' # {}
  BY <1>1
<1>4. TypeOK'
  BY <1>1, <1>2, Typed DEF IInv, TypeOK, TaskForm, stream
<1> QED
  BY <1>1, <1>2, <1>3, <1>4 DEF IInv, Held, TaskRuns, env, stream, AnyReady

(* What changes neither the table nor the registration: the task looking   *)
(* at stop_streaming or ending before, MAAP, ADP, what the listeners want. *)
LEMMA OtherSteps ==
  ASSUME IInv,
         \/ TaskExit \/ TaskFails \/ AcquireAddress \/ UNCHANGED vars
         \/ \E l \in Listener : Discover(l) \/ Depart(l)
         \/ \E l \in Listener, d \in Wants : Declare(l, d)
  PROVE  IInv'
<1>1. UNCHANGED <<observers, reg, rows, streaming, stop>>
  BY DEF TaskExit, TaskFails, AcquireAddress, Discover, Depart, Declare, vars, env, stream
<1>2. TaskForm' /\ TaskRuns'
  <2>a. tasks \in 0 .. MaxTasks /\ fails \in 0 .. MaxFail /\ MaxTasks \in Nat /\ MaxFail \in Nat
    BY RowsAssumption DEF IInv, TypeOK
  <2>1. CASE TaskExit
    <3>1. stop /\ tasks' \in 0 .. MaxTasks /\ UNCHANGED <<failed, fails>>
      BY <2>a, <2>1 DEF TaskExit
    <3> QED
      BY <1>1, <3>1 DEF IInv, TypeOK, TaskForm, TaskRuns
  <2>2. CASE TaskFails
    <3>1. tasks' \in 0 .. MaxTasks /\ fails' \in 0 .. MaxFail /\ failed' = streaming
      BY <2>a, <2>2 DEF TaskFails, Fail
    <3> QED
      BY <1>1, <3>1 DEF IInv, TypeOK, TaskForm, TaskRuns
  <2>3. CASE ~TaskExit /\ ~TaskFails
    <3>1. UNCHANGED <<tasks, failed, fails>>
      BY <2>3 DEF AcquireAddress, Discover, Depart, Declare, vars, stream
    <3> QED
      BY <1>1, <3>1 DEF IInv, TypeOK, TaskForm, TaskRuns
  <2> QED
    BY <2>1, <2>2, <2>3
<1>3. known' \in SUBSET Listener /\ want' \in [Listener -> Wants]
  BY DEF TaskExit, TaskFails, AcquireAddress, Discover, Depart, Declare, vars, env, IInv,
         TypeOK
<1>4. UNCHANGED <<milan, sourceOf>> /\ (addr' = addr \/ addr' = TRUE)
  BY DEF TaskExit, TaskFails, AcquireAddress, Discover, Depart, Declare, vars, env
<1>5. TypeOK'
  BY <1>1, <1>2, <1>3, <1>4 DEF IInv, TypeOK, TaskForm
<1> QED
  BY <1>1, <1>2, <1>5 DEF IInv, Held, AnyReady

LEMMA NextStep ==
  IInv /\ [Next]_vars => IInv'
<1> SUFFICES ASSUME IInv, [Next]_vars PROVE IInv'
  OBVIOUS
<1>1. ASSUME NEW m \in Mac, RxDeclaration(m) \/ RxObserver(m) PROVE IInv'
  BY <1>1, RxDeclarationStep, RxObserverStep
<1>2. ASSUME NEW l \in Listener, NEW moves \in BOOLEAN, ConnectTx(l, moves)
      PROVE  IInv'
  BY <1>2, ConnectTxStep
<1>3. ASSUME NEW l \in Listener, DisconnectTx(l) PROVE IInv'
  BY <1>3, DisconnectTxStep
<1>4. ASSUME NEW l \in Listener, NEW d \in Wants, Declare(l, d) PROVE IInv'
  BY <1>4, OtherSteps
<1>5. ASSUME NEW l \in Roaming, Discover(l) \/ Depart(l) PROVE IInv'
  BY <1>5, OtherSteps, RowsAssumption
<1>6. CASE AgeOut \/ MoveId \/ Tick
  BY <1>6, AgeOutStep, MoveIdStep, TickStep
<1>7. CASE AcquireAddress \/ TaskExit \/ TaskFails \/ UNCHANGED vars
  BY <1>7, OtherSteps
<1> QED
  BY <1>1, <1>2, <1>3, <1>4, <1>5, <1>6, <1>7 DEF Next

LEMMA Invariance == Spec => []IInv
BY InitIsTyped, NextStep, PTL DEF Spec

-----------------------------------------------------------------------------
(* The state is well formed and the table keeps to its size.               *)
THEOREM TypeCorrect == Spec => []TypeOK
<1>1. IInv => TypeOK
  BY DEF IInv
<1> QED
  BY <1>1, Invariance, PTL

(* find_or_add_msrp_listener and find_or_add_talker_listener_by_identity   *)
(* merge what they find: no address and no identity is in two rows.        *)
THEOREM OneRowPerListener == Spec => []RowsDistinct
<1>1. IInv => RowsDistinct
  BY DEF IInv, Table, Apart, RowsDistinct
<1> QED
  BY <1>1, Invariance, PTL

(* Between peers that send nothing in LO, a stream runs only while its     *)
(* Listener attribute is registered and the table has a row.               *)
THEOREM RegisteredStream == Spec => []StreamIsRegistered
<1>1. IInv => StreamIsRegistered
  BY DEF IInv, Held, StreamIsRegistered
<1> QED
  BY <1>1, Invariance, PTL

(* A stream that is said to run has a task unless one failed in this run:  *)
(* no stop request of an earlier run ends it (avb_start_stream_out).       *)
THEOREM RunningTask == Spec => []StreamKeepsTask
<1>1. IInv => StreamKeepsTask
  BY DEF IInv, TaskRuns, StreamKeepsTask
<1> QED
  BY <1>1, Invariance, PTL

-----------------------------------------------------------------------------
(***************************************************************************)
(* MAAP: the table and the messages of a station.                          *)
(***************************************************************************)
LEMMA LeastNumber ==
  ASSUME NEW T \in SUBSET Nat, T # {}
  PROVE  \E n \in T : \A m \in T : n <= m
<1> DEFINE R == OpToRel(<, Nat)
<1>1. IsWellFoundedOn(R, Nat)
  BY NatLessThanWellFounded
<1>2. R = {ss \in Nat \X Nat : ss[1] < ss[2]}
  BY DEF OpToRel
<1> HIDE DEF R
<1>3. PICK n \in T : \A m \in T : ~(<<m, n>> \in R)
  BY <1>1, WFMin
<1>4. ASSUME NEW m \in T PROVE n <= m
  <2>1. ~(m < n)
    BY <1>2, <1>3
  <2> QED
    BY <2>1
<1> QED
  BY <1>4

\* An enumeration of S from the lowest on.
Rising(S) == {q \in [1..Cardinality(S) -> S] :
                /\ \A j, k \in 1..Cardinality(S) : j < k => q[j] < q[k]
                /\ \A i \in S : \E k \in 1..Cardinality(S) : q[k] = i}

\* The highest element comes last.
LEMMA RisingStep ==
  ASSUME NEW n \in Nat, NEW S \in SUBSET Nat, IsFiniteSet(S), Cardinality(S) = n + 1,
         NEW m \in S, \A i \in S : i <= m, Rising(S \ {m}) # {}
  PROVE  Rising(S) # {}
<1> DEFINE U == S \ {m}
<1>1. IsFiniteSet(U) /\ Cardinality(U) = n /\ U \in SUBSET Nat
  <2>1. IsFiniteSet(U) /\ Cardinality(U) = Cardinality(S) - 1
    BY FS_RemoveElement
  <2> QED
    BY <2>1
<1>2. PICK q \in [1..n -> U] :
        /\ \A j, k \in 1..n : j < k => q[j] < q[k]
        /\ \A i \in U : \E k \in 1..n : q[k] = i
  BY <1>1 DEF Rising
<1> DEFINE r == [k \in 1..n + 1 |-> IF k \in 1..n THEN q[k] ELSE m]
<1>3. r \in [1..n + 1 -> S]
  BY <1>2
<1>4. ASSUME NEW j \in 1..n + 1, NEW k \in 1..n + 1, j < k
      PROVE  r[j] < r[k]
  <2>1. j \in 1..n /\ r[j] = q[j] /\ q[j] \in U /\ q[j] < m
    <3>1. j \in 1..n
      BY <1>4
    <3>2. q[j] \in S /\ q[j] # m
      BY <3>1, <1>2
    <3>3. q[j] \in Nat /\ m \in Nat /\ q[j] <= m
      BY <3>2
    <3> QED
      BY <3>1, <3>2, <3>3
  <2>2. CASE k \in 1..n
    BY <1>2, <1>4, <2>1, <2>2
  <2>3. CASE k \notin 1..n
    BY <2>1, <2>3
  <2> QED
    BY <2>2, <2>3
<1>5. ASSUME NEW i \in S PROVE \E k \in 1..n + 1 : r[k] = i
  <2>1. CASE i = m
    <3>1. n + 1 \in 1..n + 1 /\ n + 1 \notin 1..n
      OBVIOUS
    <3> QED
      BY <2>1, <3>1
  <2>2. CASE i # m
    <3>1. PICK k \in 1..n : q[k] = i
      BY <1>2, <2>2
    <3>2. k \in 1..n + 1
      OBVIOUS
    <3> QED
      BY <3>1, <3>2
  <2> QED
    BY <2>1, <2>2
<1> HIDE DEF r
<1> QED
  BY <1>3, <1>4, <1>5 DEF Rising

LEMMA RisingEmpty == Rising({}) # {}
<1>1. Cardinality({}) = 0 /\ 1..0 = {}
  BY FS_EmptySet
<1>2. [k \in {} |-> k] \in [{} -> {}]
  OBVIOUS
<1> QED
  BY <1>1, <1>2 DEF Rising

LEMMA GreatestOf ==
  ASSUME NEW S \in SUBSET Nat, S # {}, NEW b \in Nat, \A i \in S : i < b
  PROVE  \E m \in S : \A i \in S : i <= m
<1> DEFINE D == {d \in Nat : b - d \in S}
<1>1. PICK i \in S : TRUE
  OBVIOUS
<1>2. b - i \in D
  BY <1>1
<1>3. D # {} /\ D \in SUBSET Nat
  BY <1>2
<1> HIDE DEF D
<1>4. PICK d \in D : \A e \in D : d <= e
  BY <1>3, LeastNumber
<1>5. b - d \in S /\ d \in Nat
  BY <1>4 DEF D
<1>6. ASSUME NEW k \in S PROVE k <= b - d
  <2>1. k \in Nat /\ k < b /\ b - (b - k) = k /\ b - k \in Nat
    BY <1>6
  <2>2. b - k \in D
    BY <2>1, <1>6 DEF D
  <2>3. d <= b - k
    BY <2>2, <1>4
  <2> QED
    BY <2>1, <2>3, <1>5
<1> QED
  BY <1>5, <1>6

LEMMA RisingExists ==
  ASSUME NEW b \in Nat, NEW S \in SUBSET 0..b, IsFiniteSet(S)
  PROVE  Rising(S) # {}
<1> DEFINE Fails(n) == \E W \in SUBSET 0..b :
                         IsFiniteSet(W) /\ Cardinality(W) = n /\ Rising(W) = {}
           F == {n \in Nat : Fails(n)}
<1> SUFFICES ASSUME Rising(S) = {} PROVE FALSE
  OBVIOUS
<1>1. Cardinality(S) \in F
  BY FS_CardinalityType
<1>2. F \in SUBSET Nat /\ F # {}
  BY <1>1
<1> HIDE DEF F
<1>3. PICK n \in F : \A m \in F : n <= m
  BY <1>2, LeastNumber
<1>4. n \in Nat
  BY <1>3 DEF F
<1>5. PICK W \in SUBSET 0..b : IsFiniteSet(W) /\ Cardinality(W) = n /\ Rising(W) = {}
  BY <1>3 DEF F
<1>6. CASE n = 0
  <2>1. W = {}
    BY <1>5, <1>6, FS_EmptySet
  <2> QED
    BY <2>1, <1>5, RisingEmpty
<1>7. CASE n # 0
  <2>1. n - 1 \in Nat /\ n - 1 + 1 = n /\ ~(n <= n - 1)
    BY <1>4, <1>7
  <2>2. W # {}
    BY <1>5, <1>7, FS_EmptySet
  <2>3. W \in SUBSET Nat /\ b + 1 \in Nat /\ \A i \in W : i < b + 1
    BY <1>5
  <2>4. PICK m \in W : \A i \in W : i <= m
    BY <2>2, <2>3, GreatestOf
  <2> DEFINE U == W \ {m}
  <2>5. IsFiniteSet(U) /\ Cardinality(U) = n - 1 /\ U \in SUBSET 0..b
    BY <1>5, FS_RemoveElement
  <2>6. Rising(U) # {}
    <3>1. n - 1 \notin F
      BY <1>3, <2>1
    <3> QED
      BY <3>1, <2>1, <2>5 DEF F
  <2> QED
    BY <1>5, <2>1, <2>3, <2>4, <2>5, <2>6, RisingStep
<1> QED
  BY <1>6, <1>7

\* The streams of a station are numbered from 0, and some of them have an order.
LEMMA OrderIs ==
  ASSUME NEW s \in Station, NEW some \in SUBSET Index(s)
  PROVE  /\ Cardinality(some) \in Nat
         /\ TableOrder(some) \in [1..Cardinality(some) -> some]
         /\ \A i \in some : \E k \in 1..Cardinality(some) : TableOrder(some)[k] = i
<1>1. Streams[s] \in Nat /\ some \in SUBSET 0..Streams[s]
  BY MaapAssumption DEF Index
<1>2. IsFiniteSet(some)
  <2>1. IsFiniteSet(0..Streams[s])
    BY <1>1, FS_Interval
  <2> QED
    BY <1>1, <2>1, FS_Subset
<1>3. PICK r \in [1..Cardinality(some) -> some] :
        \A j, k \in 1..Cardinality(some) : j < k => r[j] < r[k]
  BY <1>1, <1>2, RisingExists DEF Rising
<1>4. /\ TableOrder(some) \in [1..Cardinality(some) -> some]
      /\ \A j, k \in DOMAIN TableOrder(some) :
           j < k => TableOrder(some)[j] < TableOrder(some)[k]
  BY <1>3 DEF TableOrder
<1>5. Cardinality(some) \in Nat
  BY <1>2, FS_CardinalityType
<1> DEFINE n == Cardinality(some)
           q == TableOrder(some)
<1> HIDE DEF q, n
<1>6. q \in [1..n -> some] /\ \A j, k \in 1..n : j < k => q[j] < q[k]
  BY <1>4 DEF q, n
<1>7. n \in Nat /\ IsFiniteSet(1..n) /\ Cardinality(1..n) = n
  BY <1>5, FS_Interval DEF n
<1>8. q \in Injection(1..n, some)
  <2>1. ASSUME NEW j \in 1..n, NEW k \in 1..n, j # k PROVE q[j] # q[k]
    <3>1. q[j] \in Nat /\ q[k] \in Nat
      <4>1. q[j] \in some /\ q[k] \in some
        BY <1>6
      <4>2. some \in SUBSET Nat
        BY <1>1
      <4> QED
        BY <4>1, <4>2
    <3>2. CASE j < k
      BY <1>6, <3>1, <3>2
    <3>3. CASE k < j
      BY <1>6, <3>1, <3>3
    <3> QED
      BY <2>1, <3>2, <3>3
  <2> QED
    BY <1>6, <2>1 DEF Injection, IsInjective
<1>9. q \in Surjection(1..n, some)
  BY <1>2, <1>7, <1>8, FS_Injection DEF n
<1>10. \A i \in some : \E k \in 1..n : q[k] = i
  BY <1>9 DEF Surjection
<1> QED
  BY <1>4, <1>5, <1>10 DEF q, n

MaapRow == [state : {"initial", "probe", "defend"}, reselect : 0..(Pool - 1),
            probes : 0..Retransmits, timer : Nat]

\* A message of a kind about an address is in a queue.
Says(q, type, x) == \E k \in 1..Len(q) : q[k].type = type /\ q[k].addr = x

LEMMA InOrderSays ==
  ASSUME NEW s \in Station, NEW some \in SUBSET Index(s), NEW msg \in [some -> Message],
         NEW type, NEW x
  PROVE  /\ InOrder(msg) \in Seq(Message)
         /\ Says(InOrder(msg), type, x)
              <=> \E i \in some : msg[i].type = type /\ msg[i].addr = x
<1> DEFINE n == Cardinality(some)
           q == TableOrder(some)
<1>1. /\ n \in Nat /\ q \in [1..n -> some]
      /\ \A i \in some : \E k \in 1..n : q[k] = i
  BY OrderIs
<1>2. InOrder(msg) = [k \in 1..n |-> msg[q[k]]]
  <2>1. DOMAIN msg = some /\ DOMAIN q = 1..n
    BY <1>1
  <2> QED
    BY <2>1 DEF InOrder
<1> HIDE DEF q, n
<1>3. InOrder(msg) \in [1..n -> Message]
  BY <1>1, <1>2
<1>4. InOrder(msg) \in Seq(Message) /\ Len(InOrder(msg)) = n
  BY <1>1, <1>3, SeqDef, LenProperties
<1>5. Says(InOrder(msg), type, x)
        <=> \E k \in 1..n : msg[q[k]].type = type /\ msg[q[k]].addr = x
  BY <1>2, <1>4 DEF Says
<1>6. (\E k \in 1..n : msg[q[k]].type = type /\ msg[q[k]].addr = x)
        <=> \E i \in some : msg[i].type = type /\ msg[i].addr = x
  BY <1>1
<1> QED
  BY <1>4, <1>5, <1>6

LEMMA SaysAppend ==
  ASSUME NEW q \in Seq(Message), NEW r \in Seq(Message), NEW type, NEW x
  PROVE  /\ q \o r \in Seq(Message)
         /\ Says(q \o r, type, x) <=> Says(q, type, x) \/ Says(r, type, x)
<1>1. /\ q \o r \in Seq(Message) /\ Len(q \o r) = Len(q) + Len(r)
      /\ Len(q) \in Nat /\ Len(r) \in Nat
  BY ConcatProperties, LenProperties
<1>2. \A k \in 1..Len(q) : (q \o r)[k] = q[k]
  BY ConcatProperties, <1>1
<1>3. \A k \in 1..Len(r) : (q \o r)[Len(q) + k] = r[k]
  BY ConcatProperties, <1>1
<1>4. ASSUME NEW k \in 1..Len(q \o r), (q \o r)[k].type = type, (q \o r)[k].addr = x
      PROVE  Says(q, type, x) \/ Says(r, type, x)
  <2>1. CASE k \in 1..Len(q)
    BY <1>2, <1>4, <2>1 DEF Says
  <2>2. CASE k \notin 1..Len(q)
    <3>1. k - Len(q) \in 1..Len(r) /\ Len(q) + (k - Len(q)) = k
      BY <1>1, <2>2
    <3>2. r[k - Len(q)] = (q \o r)[k]
      BY <3>1, <1>3
    <3> QED
      BY <1>4, <3>1, <3>2 DEF Says
  <2> QED
    BY <2>1, <2>2
<1>5. ASSUME Says(q, type, x) PROVE Says(q \o r, type, x)
  <2>1. PICK k \in 1..Len(q) : q[k].type = type /\ q[k].addr = x
    BY <1>5 DEF Says
  <2>2. k \in 1..Len(q \o r) /\ (q \o r)[k] = q[k]
    BY <1>1, <1>2
  <2> QED
    BY <2>1, <2>2 DEF Says
<1>6. ASSUME Says(r, type, x) PROVE Says(q \o r, type, x)
  <2>1. PICK k \in 1..Len(r) : r[k].type = type /\ r[k].addr = x
    BY <1>6 DEF Says
  <2>2. Len(q) + k \in 1..Len(q \o r) /\ (q \o r)[Len(q) + k] = r[k]
    BY <1>1, <1>3
  <2> QED
    BY <2>1, <2>2 DEF Says
<1> QED
  BY <1>1, <1>4, <1>5, <1>6 DEF Says

LEMMA SaysTail ==
  ASSUME NEW q \in Seq(Message), q # << >>, NEW type, NEW x
  PROVE  /\ Head(q) \in Message /\ Tail(q) \in Seq(Message)
         /\ Says(Tail(q), type, x) => Says(q, type, x)
         /\ Says(q, type, x) =>
              (Head(q).type = type /\ Head(q).addr = x) \/ Says(Tail(q), type, x)
<1>1. /\ Head(q) = q[1] /\ Tail(q) \in Seq(Message) /\ Len(Tail(q)) = Len(q) - 1
      /\ \A k \in 1..Len(Tail(q)) : Tail(q)[k] = q[k + 1]
      /\ Len(q) \in Nat /\ Len(q) # 0 /\ Head(q) \in Message
  BY HeadTailProperties, LenProperties, EmptySeq
<1>2. ASSUME Says(Tail(q), type, x) PROVE Says(q, type, x)
  <2>1. PICK k \in 1..Len(Tail(q)) : Tail(q)[k].type = type /\ Tail(q)[k].addr = x
    BY <1>2 DEF Says
  <2>2. k + 1 \in 1..Len(q) /\ q[k + 1] = Tail(q)[k]
    BY <1>1
  <2> QED
    BY <2>1, <2>2 DEF Says
<1>3. ASSUME NEW k \in 1..Len(q), q[k].type = type, q[k].addr = x, k # 1
      PROVE  Says(Tail(q), type, x)
  <2>1. k - 1 \in 1..Len(Tail(q)) /\ k - 1 + 1 = k
    BY <1>1, <1>3
  <2>2. Tail(q)[k - 1] = q[k]
    BY <1>1, <2>1
  <2> QED
    BY <1>3, <2>1, <2>2 DEF Says
<1> QED
  BY <1>1, <1>2, <1>3 DEF Says

LEMMA SaysNothing ==
  ASSUME NEW type, NEW x PROVE ~Says(<< >>, type, x)
<1>1. Len(<< >>) = 0 /\ 1..0 = {}
  BY EmptySeq
<1> QED
  BY <1>1 DEF Says

MaapType ==
  /\ DOMAIN maap = Station /\ DOMAIN dest = Station
  /\ \A s \in Station : /\ maap[s] \in [Index(s) -> MaapRow]
                        /\ dest[s] \in [Index(s) -> 0..(Pool - 1) \cup {NoAddress}]
  /\ heard \in [Station -> Seq(Message)]
  /\ missed \in Nat /\ on \subseteq Station

LEMMA MaapNumbers ==
  /\ Pool \in Nat /\ Pool > 0 /\ Retransmits \in Nat /\ Retransmits > 2
  /\ ProbeTime \subseteq Nat \ {0} /\ AnnounceTime \subseteq Nat \ {0}
  /\ \E p \in ProbeTime : TRUE
  /\ \E a \in AnnounceTime : TRUE
BY MaapAssumption

LEMMA AddressType ==
  ASSUME NEW s \in Station, NEW i \in Index(s), NEW c \in Nat
  PROVE  Address(s, i, c) \in 0..(Pool - 1)
<1>1. Seed[s] \in Nat /\ Streams[s] \in Nat /\ Stride \in Nat /\ Pool \in Nat /\ Pool > 0
  BY MaapAssumption
<1>2. i \in Nat
  BY <1>1 DEF Index
<1>3. c * Stride \in Int
  BY <1>1
<1> DEFINE d == c * Stride
<1> HIDE DEF d
<1>4. Seed[s] + i + d \in Int
  BY <1>1, <1>2, <1>3 DEF d
<1>5. (Seed[s] + i + d) % Pool \in 0..(Pool - 1)
  BY <1>1, <1>4
<1> QED
  BY <1>5 DEF Address, d

LEMMA AddrType ==
  ASSUME MaapType, NEW s \in Station, NEW i \in Index(s)
  PROVE  Addr(s, i) \in 0..(Pool - 1)
<1>1. maap[s][i].reselect \in Nat
  BY MaapNumbers DEF MaapType, MaapRow
<1> QED
  BY <1>1, AddressType DEF Addr

LEMMA ProbingType ==
  ASSUME NEW c \in 0..(Pool - 1), NEW w \in ProbeTime
  PROVE  /\ Probing(c, w) \in MaapRow
         /\ Probing(c, w).state = "probe" /\ Probing(c, w).reselect = c
         /\ Probing(c, w).probes = Retransmits /\ Probing(c, w).timer # 0
<1>1. w \in Nat /\ w # 0 /\ Retransmits \in 0..Retransmits
  BY MaapNumbers
<1> QED
  BY <1>1 DEF Probing, MaapRow

LEMMA MessageIs ==
  ASSUME NEW type \in {"probe", "defend", "announce"}, NEW x \in 0..(Pool - 1)
  PROVE  [type |-> type, addr |-> x] \in Message
BY DEF Message

\* A multicast reaches every station that is on but the sender.
LEMMA MulticastSays ==
  ASSUME NEW h \in [Station -> Seq(Message)], NEW from, NEW msgs \in Seq(Message)
  PROVE  /\ Multicast(h, from, msgs) \in [Station -> Seq(Message)]
         /\ \A t \in Station : \A type, x :
              Says(Multicast(h, from, msgs)[t], type, x)
                <=> \/ Says(h[t], type, x)
                    \/ t \in on \ {from} /\ Says(msgs, type, x)
         /\ \A t \in Station : t \notin on \ {from} => Multicast(h, from, msgs)[t] = h[t]
<1> DEFINE M == Multicast(h, from, msgs)
<1>1. \A t \in Station : M[t] = IF t \in on \ {from} THEN h[t] \o msgs ELSE h[t]
  BY DEF Multicast
<1>2. ASSUME NEW t \in Station PROVE h[t] \o msgs \in Seq(Message)
  BY ConcatProperties
<1>3. M \in [Station -> Seq(Message)]
  BY <1>2 DEF Multicast
<1> HIDE DEF M
<1>4. ASSUME NEW t \in Station, NEW type, NEW x
      PROVE  Says(M[t], type, x)
               <=> Says(h[t], type, x) \/ (t \in on \ {from} /\ Says(msgs, type, x))
  <2>1. Says(h[t] \o msgs, type, x) <=> Says(h[t], type, x) \/ Says(msgs, type, x)
    BY SaysAppend
  <2> QED
    BY <1>1, <2>1
<1> QED
  BY <1>1, <1>3, <1>4 DEF M

-----------------------------------------------------------------------------
(* What each action does to the table of a station and to what is under way. *)
LEMMA BootDoes ==
  ASSUME MaapType, NEW s \in Station, Boot(s)
  PROVE  /\ s \notin on /\ on' = on \cup {s} /\ dest' = dest /\ missed' = missed
         /\ DOMAIN maap' = Station /\ \A t \in Station \ {s} : maap'[t] = maap[t]
         /\ \E wait \in [Index(s) -> ProbeTime] :
              maap'[s] = [i \in Index(s) |-> Probing(0, wait[i])]
         /\ heard' \in [Station -> Seq(Message)]
         /\ \A t \in Station : \A type, x :
              Says(heard'[t], type, x)
                <=> \/ Says(heard[t], type, x)
                    \/ /\ t \in on \ {s} /\ type = "probe"
                       /\ \E i \in Index(s) : x = Address(s, i, 0)
         /\ heard'[s] = heard[s]
         /\ \A t \in Station : t \notin on => heard'[t] = heard[t]
<1> DEFINE msg == [i \in Index(s) |-> [type |-> "probe", addr |-> Address(s, i, 0)]]
<1>1. msg \in [Index(s) -> Message]
  BY AddressType, MessageIs
<1>2. \A i \in Index(s) : msg[i].type = "probe" /\ msg[i].addr = Address(s, i, 0)
  OBVIOUS
<1>3. heard' = Multicast(heard, s, InOrder(msg))
  BY DEF Boot
<1> HIDE DEF msg
<1>4. /\ InOrder(msg) \in Seq(Message)
      /\ \A type, x : Says(InOrder(msg), type, x)
                        <=> \E i \in Index(s) : msg[i].type = type /\ msg[i].addr = x
  BY <1>1, InOrderSays
<1>5. heard \in [Station -> Seq(Message)]
  BY DEF MaapType
<1>6. /\ heard' \in [Station -> Seq(Message)]
      /\ \A t \in Station : \A type, x :
           Says(heard'[t], type, x)
             <=> Says(heard[t], type, x) \/ (t \in on \ {s} /\ Says(InOrder(msg), type, x))
      /\ \A t \in Station : t \notin on \ {s} => heard'[t] = heard[t]
  BY <1>3, <1>4, <1>5, MulticastSays
<1>7. PICK wait \in [Index(s) -> ProbeTime] :
        maap' = [maap EXCEPT ![s] = [i \in Index(s) |-> Probing(0, wait[i])]]
  BY DEF Boot
<1>8. /\ s \notin on /\ on' = on \cup {s} /\ dest' = dest /\ missed' = missed
      /\ DOMAIN maap = Station
  BY DEF Boot, MaapType
<1>9. \A t \in Station : \A type, x :
        Says(heard'[t], type, x)
          <=> \/ Says(heard[t], type, x)
              \/ /\ t \in on \ {s} /\ type = "probe"
                 /\ \E i \in Index(s) : x = Address(s, i, 0)
  BY <1>2, <1>4, <1>6
<1> QED
  BY <1>6, <1>7, <1>8, <1>9

LEMMA OffDoes ==
  ASSUME MaapType, NEW s \in Station, StationOff(s)
  PROVE  /\ s \in on /\ on' = on \ {s} /\ missed' = missed
         /\ DOMAIN maap' = Station /\ DOMAIN dest' = Station
         /\ heard' \in [Station -> Seq(Message)]
         /\ \A t \in Station \ {s} :
              maap'[t] = maap[t] /\ dest'[t] = dest[t] /\ heard'[t] = heard[t]
         /\ maap'[s] = [i \in Index(s) |-> Initial]
         /\ dest'[s] = [i \in Index(s) |-> NoAddress]
         /\ heard'[s] = << >>
BY EmptySeq DEF StationOff, MaapType

\* An interval that is over leads to the next probe or to an announcement.
LEMMA TickedIs ==
  ASSUME NEW m \in MaapRow, m.state # "initial", m.state = "probe" => m.probes # 0,
         NEW p \in ProbeTime, NEW a \in AnnounceTime
  PROVE  /\ Ticked(m, p, a) \in MaapRow /\ Ticked(m, p, a).timer # 0
         /\ Ticked(m, p, a).reselect = m.reselect
         /\ m.state = "probe" /\ ~Acquires(m) =>
              Ticked(m, p, a).state = "probe" /\ Ticked(m, p, a).probes = m.probes - 1
              /\ m.probes - 1 # 0
         /\ m.state # "probe" \/ Acquires(m) => Ticked(m, p, a).state = "defend"
<1>1. p \in Nat /\ p # 0 /\ a \in Nat /\ a # 0 /\ Retransmits \in Nat
  BY MaapNumbers
<1>2. /\ m.state \in {"probe", "defend"} /\ m.probes \in 0..Retransmits /\ m.timer \in Nat
      /\ m.reselect \in 0..(Pool - 1)
      /\ m = [state |-> m.state, reselect |-> m.reselect, probes |-> m.probes,
              timer |-> m.timer]
  BY DEF MaapRow
<1>3. CASE m.state = "probe" /\ ~Acquires(m)
  <2>1. m.probes - 1 \in 0..Retransmits /\ m.probes # 1
    BY <1>1, <1>2, <1>3 DEF Acquires
  <2>2. Ticked(m, p, a) = [state |-> "probe", reselect |-> m.reselect,
                           probes |-> m.probes - 1, timer |-> p]
    BY <1>2, <1>3 DEF Ticked
  <2> QED
    BY <1>1, <1>2, <1>3, <2>1, <2>2 DEF MaapRow
<1>4. CASE ~(m.state = "probe" /\ ~Acquires(m))
  <2>1. Ticked(m, p, a) = [state |-> "defend", reselect |-> m.reselect,
                           probes |-> 0, timer |-> a]
    BY <1>2, <1>4 DEF Ticked
  <2> QED
    BY <1>1, <1>2, <1>4, <2>1 DEF MaapRow
<1> QED
  BY <1>3, <1>4

LEMMA TickDoes ==
  ASSUME MaapType, NEW s \in Station, MaapTick(s)
  PROVE  /\ s \in on /\ on' = on /\ missed' = missed
         /\ DOMAIN maap' = Station /\ DOMAIN dest' = Station
         /\ \A t \in Station \ {s} : maap'[t] = maap[t] /\ dest'[t] = dest[t]
         /\ \E probe \in [Index(s) -> ProbeTime], announce \in [Index(s) -> AnnounceTime] :
              maap'[s] = [i \in Index(s) |->
                IF i \in DueStreams(s) THEN Ticked(maap[s][i], probe[i], announce[i])
                ELSE maap[s][i]]
         /\ dest'[s] = [i \in Index(s) |->
              IF i \in DueStreams(s) /\ Acquires(maap[s][i]) THEN Addr(s, i) ELSE dest[s][i]]
         /\ heard' \in [Station -> Seq(Message)]
         /\ \A t \in Station : \A type, x :
              Says(heard'[t], type, x)
                <=> \/ Says(heard[t], type, x)
                    \/ /\ t \in on \ {s}
                       /\ \E i \in DueStreams(s) :
                            /\ x = Addr(s, i)
                            /\ type = IF maap'[s][i].state = "probe" THEN "probe"
                                      ELSE "announce"
         /\ heard'[s] = heard[s]
         /\ \A t \in Station : t \notin on => heard'[t] = heard[t]
<1> DEFINE kind(i) == IF maap'[s][i].state = "probe" THEN "probe" ELSE "announce"
           msg == [i \in DueStreams(s) |-> [type |-> kind(i), addr |-> Addr(s, i)]]
<1>1. DueStreams(s) \in SUBSET Index(s)
  BY DEF DueStreams
<1>2. msg \in [DueStreams(s) -> Message]
  <2>1. ASSUME NEW i \in DueStreams(s)
        PROVE  [type |-> kind(i), addr |-> Addr(s, i)] \in Message
    <3>1. kind(i) \in {"probe", "defend", "announce"} /\ Addr(s, i) \in 0..(Pool - 1)
      BY <1>1, AddrType
    <3> HIDE DEF kind
    <3> QED
      BY <3>1, MessageIs
  <2> HIDE DEF kind
  <2> QED
    BY <2>1
<1>3. \A i \in DueStreams(s) : msg[i].type = kind(i) /\ msg[i].addr = Addr(s, i)
  OBVIOUS
<1>4. heard' = Multicast(heard, s, InOrder(msg))
  BY DEF MaapTick
<1> HIDE DEF msg, kind
<1>5. /\ InOrder(msg) \in Seq(Message)
      /\ \A type, x : Says(InOrder(msg), type, x)
                        <=> \E i \in DueStreams(s) : msg[i].type = type /\ msg[i].addr = x
  BY <1>1, <1>2, InOrderSays
<1>6. /\ heard \in [Station -> Seq(Message)] /\ DOMAIN maap = Station
      /\ DOMAIN dest = Station
  BY DEF MaapType
<1>7. /\ heard' \in [Station -> Seq(Message)]
      /\ \A t \in Station : \A type, x :
           Says(heard'[t], type, x)
             <=> Says(heard[t], type, x) \/ (t \in on \ {s} /\ Says(InOrder(msg), type, x))
      /\ \A t \in Station : t \notin on \ {s} => heard'[t] = heard[t]
  <2>1. InOrder(msg) \in Seq(Message) /\ heard \in [Station -> Seq(Message)]
    BY <1>5, <1>6
  <2> DEFINE M == Multicast(heard, s, InOrder(msg))
  <2>2. /\ M \in [Station -> Seq(Message)]
        /\ \A t \in Station : \A type, x :
             Says(M[t], type, x)
               <=> Says(heard[t], type, x) \/ (t \in on \ {s} /\ Says(InOrder(msg), type, x))
        /\ \A t \in Station : t \notin on \ {s} => M[t] = heard[t]
    BY <2>1, MulticastSays
  <2>3. heard' = M
    BY <1>4
  <2> HIDE DEF M
  <2> QED
    BY <2>2, <2>3
<1>8. \A t \in Station : \A type, x :
        Says(heard'[t], type, x)
          <=> \/ Says(heard[t], type, x)
              \/ /\ t \in on \ {s}
                 /\ \E i \in DueStreams(s) : x = Addr(s, i) /\ type = kind(i)
  BY <1>3, <1>5, <1>7
<1>9. PICK probe \in [Index(s) -> ProbeTime], announce \in [Index(s) -> AnnounceTime] :
        maap' = [maap EXCEPT ![s] = [i \in Index(s) |->
          IF i \in DueStreams(s) THEN Ticked(@[i], probe[i], announce[i]) ELSE @[i]]]
  BY DEF MaapTick
<1>10. /\ s \in on /\ on' = on /\ missed' = missed
       /\ dest' = [dest EXCEPT ![s] = [i \in Index(s) |->
            IF i \in DueStreams(s) /\ Acquires(maap[s][i]) THEN Addr(s, i) ELSE @[i]]]
  BY DEF MaapTick
<1>11. maap'[s] = [i \in Index(s) |->
         IF i \in DueStreams(s) THEN Ticked(maap[s][i], probe[i], announce[i]) ELSE maap[s][i]]
  BY <1>6, <1>9
<1>12. /\ DOMAIN maap' = Station /\ DOMAIN dest' = Station
       /\ \A t \in Station \ {s} : maap'[t] = maap[t] /\ dest'[t] = dest[t]
       /\ dest'[s] = [i \in Index(s) |->
            IF i \in DueStreams(s) /\ Acquires(maap[s][i]) THEN Addr(s, i) ELSE dest[s][i]]
  BY <1>6, <1>9, <1>10
<1>13. \A t \in Station : t \notin on => heard'[t] = heard[t]
  BY <1>7
<1>14. heard'[s] = heard[s]
  BY <1>7
<1>15. \E p \in [Index(s) -> ProbeTime], a \in [Index(s) -> AnnounceTime] :
         maap'[s] = [i \in Index(s) |->
           IF i \in DueStreams(s) THEN Ticked(maap[s][i], p[i], a[i]) ELSE maap[s][i]]
  BY <1>11
<1>16. \A t \in Station : \A type, x :
         Says(heard'[t], type, x)
           <=> \/ Says(heard[t], type, x)
               \/ /\ t \in on \ {s}
                  /\ \E i \in DueStreams(s) :
                       /\ x = Addr(s, i)
                       /\ type = IF maap'[s][i].state = "probe" THEN "probe"
                                 ELSE "announce"
  BY <1>8 DEF kind
<1> QED
  BY <1>7, <1>10, <1>12, <1>13, <1>14, <1>15, <1>16

\* Stream i of s gives way to the first message under way to s.
GivesWay(s, i) ==
  Addr(s, i) = Head(heard[s]).addr /\ Yields(maap[s][i], Head(heard[s]).type)

\* It answers it.
Defends(s, i) ==
  /\ Addr(s, i) = Head(heard[s]).addr /\ ~GivesWay(s, i)
  /\ maap[s][i].state = "defend" /\ Head(heard[s]).type = "probe"

LEMMA ReceiveDoes ==
  ASSUME MaapType, NEW s \in Station, MaapReceive(s)
  PROVE  /\ s \in on /\ heard[s] # << >> /\ on' = on /\ missed' = missed /\ dest' = dest
         /\ DOMAIN maap' = Station /\ \A t \in Station \ {s} : maap'[t] = maap[t]
         /\ \E wait \in [Index(s) -> ProbeTime] :
              maap'[s] = [i \in Index(s) |->
                IF GivesWay(s, i)
                THEN Probing((maap[s][i].reselect + 1) % Pool, wait[i]) ELSE maap[s][i]]
         /\ heard' \in [Station -> Seq(Message)]
         /\ heard'[s] = Tail(heard[s])
         /\ \A t \in Station \ {s} : \A type, x :
              Says(heard'[t], type, x)
                <=> \/ Says(heard[t], type, x)
                    \/ /\ t \in on /\ type = "defend" /\ x = Head(heard[s]).addr
                       /\ \E i \in Index(s) : Defends(s, i)
         /\ \A t \in Station : t \notin on => heard'[t] = heard[t]
<1> DEFINE msg == Head(heard[s])
           gives == {i \in Index(s) : GivesWay(s, i)}
           owner == {i \in Index(s) : Defends(s, i)}
           answers == [i \in owner |-> [type |-> "defend", addr |-> msg.addr]]
           rest == [heard EXCEPT ![s] = Tail(@)]
<1>1. heard[s] # << >> /\ s \in on /\ on' = on /\ missed' = missed /\ dest' = dest
  BY DEF MaapReceive
<1>2. heard \in [Station -> Seq(Message)] /\ DOMAIN maap = Station
  BY DEF MaapType
<1>3. msg \in Message /\ Tail(heard[s]) \in Seq(Message)
  BY <1>1, <1>2, SaysTail
<1>4. /\ {i \in {j \in Index(s) : Addr(s, j) = msg.addr} : Yields(maap[s][i], msg.type)}
           = gives
      /\ {i \in {j \in Index(s) : Addr(s, j) = msg.addr} \ gives :
            maap[s][i].state = "defend" /\ msg.type = "probe"} = owner
  BY DEF GivesWay, Defends
<1>5. /\ \E wait \in [Index(s) -> ProbeTime] :
           maap' = [maap EXCEPT ![s] = [i \in Index(s) |->
             IF i \in gives THEN Probing((@[i].reselect + 1) % Pool, wait[i]) ELSE @[i]]]
      /\ heard' = Multicast(rest, s, InOrder(answers))
  BY <1>4 DEF MaapReceive
<1>6. answers \in [owner -> Message]
  <2>1. msg.addr \in 0..(Pool - 1)
    BY <1>3 DEF Message
  <2> HIDE DEF msg
  <2>2. [type |-> "defend", addr |-> msg.addr] \in Message
    BY <2>1, MessageIs
  <2> QED
    BY <2>2
<1>7. \A i \in owner : answers[i].type = "defend" /\ answers[i].addr = msg.addr
  OBVIOUS
<1>8. owner \in SUBSET Index(s)
  OBVIOUS
<1> HIDE DEF answers, owner
<1>9. /\ InOrder(answers) \in Seq(Message)
      /\ \A type, x : Says(InOrder(answers), type, x)
                  <=> \E i \in owner : answers[i].type = type /\ answers[i].addr = x
  BY <1>6, <1>8, InOrderSays
<1>10. /\ rest \in [Station -> Seq(Message)] /\ rest[s] = Tail(heard[s])
       /\ \A t \in Station \ {s} : rest[t] = heard[t]
  BY <1>2, <1>3
<1> HIDE DEF rest, msg, gives
<1>11. /\ heard' \in [Station -> Seq(Message)]
       /\ \A t \in Station : \A type, x :
            Says(heard'[t], type, x)
              <=> \/ Says(rest[t], type, x)
                  \/ t \in on \ {s} /\ Says(InOrder(answers), type, x)
       /\ \A t \in Station : t \notin on \ {s} => heard'[t] = rest[t]
  <2>1. InOrder(answers) \in Seq(Message) /\ rest \in [Station -> Seq(Message)]
    BY <1>9, <1>10
  <2> DEFINE M == Multicast(rest, s, InOrder(answers))
  <2>2. /\ M \in [Station -> Seq(Message)]
        /\ \A t \in Station : \A type, x :
             Says(M[t], type, x)
               <=> Says(rest[t], type, x) \/ (t \in on \ {s} /\ Says(InOrder(answers), type, x))
        /\ \A t \in Station : t \notin on \ {s} => M[t] = rest[t]
    BY <2>1, MulticastSays
  <2>3. heard' = M
    BY <1>5
  <2> HIDE DEF M
  <2> QED
    BY <2>2, <2>3
<1>12. \A t \in Station \ {s} : \A type, x :
         Says(heard'[t], type, x)
           <=> \/ Says(heard[t], type, x)
               \/ t \in on /\ type = "defend" /\ x = msg.addr /\ \E i \in owner : TRUE
  <2> SUFFICES ASSUME NEW t \in Station \ {s}, NEW type, NEW x
               PROVE  Says(heard'[t], type, x)
                        <=> \/ Says(heard[t], type, x)
                            \/ /\ t \in on /\ type = "defend" /\ x = msg.addr
                               /\ \E i \in owner : TRUE
    OBVIOUS
  <2>1. Says(heard'[t], type, x)
          <=> Says(heard[t], type, x) \/ (t \in on /\ Says(InOrder(answers), type, x))
    BY <1>10, <1>11
  <2>2. Says(InOrder(answers), type, x)
          <=> type = "defend" /\ x = msg.addr /\ \E i \in owner : TRUE
    BY <1>7, <1>9
  <2> QED
    BY <2>1, <2>2
<1>13. PICK wait \in [Index(s) -> ProbeTime] :
         maap' = [maap EXCEPT ![s] = [i \in Index(s) |->
           IF i \in gives THEN Probing((@[i].reselect + 1) % Pool, wait[i]) ELSE @[i]]]
  BY <1>5
<1>14. maap'[s] = [i \in Index(s) |->
         IF GivesWay(s, i)
         THEN Probing((maap[s][i].reselect + 1) % Pool, wait[i]) ELSE maap[s][i]]
  BY <1>2, <1>13 DEF gives
<1>15. DOMAIN maap' = Station /\ \A t \in Station \ {s} : maap'[t] = maap[t]
  BY <1>2, <1>13
<1>16. (\E i \in owner : TRUE) <=> \E i \in Index(s) : Defends(s, i)
  BY DEF owner
<1>17. heard'[s] = Tail(heard[s])
  BY <1>10, <1>11
<1>18. \A t \in Station : t \notin on => heard'[t] = heard[t]
  BY <1>1, <1>10, <1>11
<1>19. \A t \in Station \ {s} : \A type, x :
         Says(heard'[t], type, x)
           <=> \/ Says(heard[t], type, x)
               \/ /\ t \in on /\ type = "defend" /\ x = Head(heard[s]).addr
                  /\ \E i \in Index(s) : Defends(s, i)
  BY <1>12, <1>16 DEF msg
<1> QED
  BY <1>1, <1>11, <1>14, <1>15, <1>17, <1>18, <1>19

LEMMA LoseDoes ==
  ASSUME MaapType, NEW s \in Station, MaapLose(s)
  PROVE  /\ heard[s] # << >> /\ maap' = maap /\ dest' = dest /\ on' = on
         /\ missed' = missed + 1
         /\ heard' \in [Station -> Seq(Message)] /\ heard'[s] = Tail(heard[s])
         /\ \A t \in Station \ {s} : heard'[t] = heard[t]
<1>1. heard \in [Station -> Seq(Message)] /\ heard[s] # << >>
  BY DEF MaapType, MaapLose
<1>2. Tail(heard[s]) \in Seq(Message)
  BY <1>1, SaysTail
<1> QED
  BY <1>1, <1>2 DEF MaapLose

LEMMA PassDoes ==
  ASSUME MaapType, MaapPass
  PROVE  /\ dest' = dest /\ on' = on /\ missed' = missed /\ heard' = heard
         /\ \A s \in on : DueStreams(s) = {} /\ heard[s] = << >>
         /\ DOMAIN maap' = Station
         /\ \A s \in Station :
              maap'[s] = [i \in Index(s) |->
                [maap[s][i] EXCEPT !.timer = IF s \in on THEN @ - 1 ELSE @]]
BY DEF MaapPass

-----------------------------------------------------------------------------
Alive(s, i) == maap[s][i].state # "initial"

\* A station that is off knows and hears nothing; one that is on has chosen.
OnInv ==
  \A s \in Station :
    IF s \in on THEN \A i \in Index(s) :
                       /\ Alive(s, i)
                       /\ maap[s][i].state = "probe" => maap[s][i].probes # 0
    ELSE heard[s] = << >> /\ \A i \in Index(s) : ~Alive(s, i)

LEMMA RowIs ==
  ASSUME MaapType, NEW s \in Station, NEW i \in Index(s)
  PROVE  /\ maap[s][i] \in MaapRow
         /\ maap[s][i].state \in {"initial", "probe", "defend"}
         /\ maap[s][i].reselect \in 0..(Pool - 1)
         /\ maap[s][i].probes \in Nat /\ maap[s][i].timer \in Nat
BY MaapNumbers DEF MaapType, MaapRow

LEMMA BootOn ==
  ASSUME MaapType, OnInv, NEW s \in Station, Boot(s)
  PROVE  MaapType' /\ OnInv'
<1>1. PICK wait \in [Index(s) -> ProbeTime] :
        maap'[s] = [i \in Index(s) |-> Probing(0, wait[i])]
  BY BootDoes
<1>2. ASSUME NEW i \in Index(s)
      PROVE  /\ maap'[s][i] \in MaapRow /\ maap'[s][i].state = "probe"
             /\ maap'[s][i].probes # 0
  <2>1. 0 \in 0..(Pool - 1) /\ Retransmits # 0
    BY MaapNumbers
  <2>2. wait[i] \in ProbeTime /\ maap'[s][i] = Probing(0, wait[i])
    BY <1>1
  <2> QED
    BY <2>1, <2>2, ProbingType
<1>3. /\ s \notin on /\ on' = on \cup {s} /\ dest' = dest /\ missed' = missed
      /\ DOMAIN maap' = Station /\ \A t \in Station \ {s} : maap'[t] = maap[t]
      /\ heard' \in [Station -> Seq(Message)]
      /\ \A t \in Station : t \notin on => heard'[t] = heard[t]
  BY BootDoes
<1>4. maap'[s] \in [Index(s) -> MaapRow]
  <2>1. maap'[s] = [i \in Index(s) |-> maap'[s][i]]
    BY <1>1
  <2> QED
    BY <1>2, <2>1
<1>5. MaapType'
  BY <1>3, <1>4 DEF MaapType
<1>6. OnInv'
  <2> SUFFICES ASSUME NEW t \in Station
               PROVE  IF t \in on' THEN \A i \in Index(t) :
                         /\ maap'[t][i].state # "initial"
                         /\ maap'[t][i].state = "probe" => maap'[t][i].probes # 0
                      ELSE heard'[t] = << >>
                           /\ \A i \in Index(t) : ~(maap'[t][i].state # "initial")
    BY DEF OnInv, Alive
  <2>1. CASE t = s
    BY <1>2, <1>3, <2>1
  <2>2. CASE t # s
    BY <1>3, <2>2 DEF OnInv, Alive
  <2> QED
    BY <2>1, <2>2
<1> QED
  BY <1>5, <1>6

LEMMA OffOn ==
  ASSUME MaapType, OnInv, NEW s \in Station, StationOff(s)
  PROVE  MaapType' /\ OnInv'
<1>1. /\ s \in on /\ on' = on \ {s} /\ missed' = missed
      /\ DOMAIN maap' = Station /\ DOMAIN dest' = Station
      /\ heard' \in [Station -> Seq(Message)]
      /\ \A t \in Station \ {s} :
           maap'[t] = maap[t] /\ dest'[t] = dest[t] /\ heard'[t] = heard[t]
      /\ maap'[s] = [i \in Index(s) |-> Initial]
      /\ dest'[s] = [i \in Index(s) |-> NoAddress]
      /\ heard'[s] = << >>
  BY OffDoes
<1>2. Initial \in MaapRow /\ Initial.state = "initial"
  BY MaapNumbers DEF Initial, MaapRow
<1>3. /\ maap'[s] \in [Index(s) -> MaapRow]
      /\ dest'[s] \in [Index(s) -> 0..(Pool - 1) \cup {NoAddress}]
  BY <1>1, <1>2
<1>4. MaapType'
  BY <1>1, <1>3 DEF MaapType
<1>5. OnInv'
  <2> SUFFICES ASSUME NEW t \in Station
               PROVE  IF t \in on' THEN \A i \in Index(t) :
                         /\ maap'[t][i].state # "initial"
                         /\ maap'[t][i].state = "probe" => maap'[t][i].probes # 0
                      ELSE heard'[t] = << >>
                           /\ \A i \in Index(t) : ~(maap'[t][i].state # "initial")
    BY DEF OnInv, Alive
  <2>1. CASE t = s
    BY <1>1, <1>2, <2>1
  <2>2. CASE t # s
    BY <1>1, <2>2 DEF OnInv, Alive
  <2> QED
    BY <2>1, <2>2
<1> QED
  BY <1>4, <1>5

LEMMA TickRows ==
  ASSUME MaapType, OnInv, NEW s \in Station, MaapTick(s), NEW i \in Index(s)
  PROVE  /\ maap'[s][i] \in MaapRow /\ maap'[s][i].reselect = maap[s][i].reselect
         /\ i \notin DueStreams(s) => maap'[s][i] = maap[s][i]
         /\ i \in DueStreams(s) =>
              /\ maap[s][i].timer = 0 /\ maap'[s][i].timer # 0
              /\ maap[s][i].state = "probe" /\ ~Acquires(maap[s][i]) =>
                   /\ maap'[s][i].state = "probe"
                   /\ maap'[s][i].probes = maap[s][i].probes - 1
                   /\ maap'[s][i].probes # 0
              /\ maap[s][i].state # "probe" \/ Acquires(maap[s][i]) =>
                   maap'[s][i].state = "defend"
<1>1. PICK probe \in [Index(s) -> ProbeTime], announce \in [Index(s) -> AnnounceTime] :
        maap'[s] = [j \in Index(s) |->
          IF j \in DueStreams(s) THEN Ticked(maap[s][j], probe[j], announce[j]) ELSE maap[s][j]]
  BY TickDoes
<1>2. /\ maap[s][i] \in MaapRow /\ maap[s][i].state # "initial"
      /\ maap[s][i].state = "probe" => maap[s][i].probes # 0
  <2>1. s \in on
    BY TickDoes
  <2>2. maap[s][i] \in MaapRow
    BY RowIs
  <2> QED
    BY <2>1, <2>2 DEF OnInv, Alive
<1>3. i \in DueStreams(s) => maap[s][i].timer = 0
  BY DEF DueStreams
<1>4. probe[i] \in ProbeTime /\ announce[i] \in AnnounceTime
  BY <1>1
<1> DEFINE m == Ticked(maap[s][i], probe[i], announce[i])
<1>5. maap'[s][i] = IF i \in DueStreams(s) THEN m ELSE maap[s][i]
  BY <1>1
<1>6. /\ m \in MaapRow /\ m.timer # 0 /\ m.reselect = maap[s][i].reselect
      /\ maap[s][i].state = "probe" /\ ~Acquires(maap[s][i]) =>
           m.state = "probe" /\ m.probes = maap[s][i].probes - 1
           /\ maap[s][i].probes - 1 # 0
      /\ maap[s][i].state # "probe" \/ Acquires(maap[s][i]) => m.state = "defend"
  BY <1>2, <1>4, TickedIs
<1> HIDE DEF m
<1> QED
  BY <1>2, <1>3, <1>5, <1>6

LEMMA TickOn ==
  ASSUME MaapType, OnInv, NEW s \in Station, MaapTick(s)
  PROVE  MaapType' /\ OnInv'
<1>1. /\ s \in on /\ on' = on /\ missed' = missed
      /\ DOMAIN maap' = Station /\ DOMAIN dest' = Station
      /\ \A t \in Station \ {s} : maap'[t] = maap[t] /\ dest'[t] = dest[t]
      /\ dest'[s] = [i \in Index(s) |->
           IF i \in DueStreams(s) /\ Acquires(maap[s][i]) THEN Addr(s, i) ELSE dest[s][i]]
      /\ heard' \in [Station -> Seq(Message)]
      /\ \A t \in Station : t \notin on => heard'[t] = heard[t]
  BY TickDoes
<1>2. DOMAIN maap'[s] = Index(s) /\ maap'[s] = [i \in Index(s) |-> maap'[s][i]]
  BY TickDoes
<1>3. maap'[s] \in [Index(s) -> MaapRow]
  <2>1. \A i \in Index(s) : maap'[s][i] \in MaapRow
    BY TickRows
  <2> QED
    BY <1>2, <2>1
<1>4. dest'[s] \in [Index(s) -> 0..(Pool - 1) \cup {NoAddress}]
  <2>1. \A i \in Index(s) : Addr(s, i) \in 0..(Pool - 1)
    BY AddrType
  <2>2. dest[s] \in [Index(s) -> 0..(Pool - 1) \cup {NoAddress}]
    BY DEF MaapType
  <2> QED
    BY <1>1, <2>1, <2>2
<1>5. MaapType'
  BY <1>1, <1>3, <1>4 DEF MaapType
<1>6. ASSUME NEW i \in Index(s)
      PROVE  /\ maap'[s][i].state # "initial"
             /\ maap'[s][i].state = "probe" => maap'[s][i].probes # 0
  <2>1. /\ maap[s][i].state # "initial"
        /\ maap[s][i].state = "probe" => maap[s][i].probes # 0
    BY <1>1 DEF OnInv, Alive
  <2> QED
    BY <2>1, TickRows
<1>7. OnInv'
  <2> SUFFICES ASSUME NEW t \in Station
               PROVE  IF t \in on' THEN \A i \in Index(t) :
                         /\ maap'[t][i].state # "initial"
                         /\ maap'[t][i].state = "probe" => maap'[t][i].probes # 0
                      ELSE heard'[t] = << >>
                           /\ \A i \in Index(t) : ~(maap'[t][i].state # "initial")
    BY DEF OnInv, Alive
  <2>1. CASE t = s
    BY <1>1, <1>6, <2>1
  <2>2. CASE t # s
    BY <1>1, <2>2 DEF OnInv, Alive
  <2> QED
    BY <2>1, <2>2
<1> QED
  BY <1>5, <1>7

LEMMA ReceiveRows ==
  ASSUME MaapType, OnInv, NEW s \in Station, MaapReceive(s), NEW i \in Index(s)
  PROVE  /\ maap'[s][i] \in MaapRow
         /\ ~GivesWay(s, i) => maap'[s][i] = maap[s][i]
         /\ GivesWay(s, i) =>
              /\ maap'[s][i].state = "probe" /\ maap'[s][i].timer # 0
              /\ maap'[s][i].probes = Retransmits
<1>1. PICK wait \in [Index(s) -> ProbeTime] :
        maap'[s] = [j \in Index(s) |->
          IF GivesWay(s, j)
          THEN Probing((maap[s][j].reselect + 1) % Pool, wait[j]) ELSE maap[s][j]]
  BY ReceiveDoes
<1> DEFINE c == (maap[s][i].reselect + 1) % Pool
<1>2. c \in 0..(Pool - 1)
  <2>1. maap[s][i].reselect + 1 \in Int /\ Pool \in Nat /\ Pool > 0
    BY RowIs, MaapNumbers
  <2> QED
    BY <2>1
<1>3. maap'[s][i] = IF GivesWay(s, i) THEN Probing(c, wait[i]) ELSE maap[s][i]
  BY <1>1
<1> HIDE DEF c
<1>4. wait[i] \in ProbeTime
  BY <1>1
<1>5. /\ Probing(c, wait[i]) \in MaapRow
      /\ Probing(c, wait[i]).state = "probe"
      /\ Probing(c, wait[i]).probes = Retransmits /\ Probing(c, wait[i]).timer # 0
  BY <1>2, <1>4, ProbingType
<1> QED
  BY <1>3, <1>5, RowIs

LEMMA ReceiveOn ==
  ASSUME MaapType, OnInv, NEW s \in Station, MaapReceive(s)
  PROVE  MaapType' /\ OnInv'
<1>1. /\ s \in on /\ on' = on /\ missed' = missed /\ dest' = dest
      /\ DOMAIN maap' = Station /\ \A t \in Station \ {s} : maap'[t] = maap[t]
      /\ heard' \in [Station -> Seq(Message)]
      /\ \A t \in Station : t \notin on => heard'[t] = heard[t]
  BY ReceiveDoes
<1>2. maap'[s] = [i \in Index(s) |-> maap'[s][i]]
  BY ReceiveDoes
<1>3. maap'[s] \in [Index(s) -> MaapRow]
  <2>1. \A i \in Index(s) : maap'[s][i] \in MaapRow
    BY ReceiveRows
  <2> QED
    BY <1>2, <2>1
<1>4. MaapType'
  BY <1>1, <1>3 DEF MaapType
<1>5. ASSUME NEW i \in Index(s)
      PROVE  /\ maap'[s][i].state # "initial"
             /\ maap'[s][i].state = "probe" => maap'[s][i].probes # 0
  <2>1. /\ maap[s][i].state # "initial"
        /\ maap[s][i].state = "probe" => maap[s][i].probes # 0
    BY <1>1 DEF OnInv, Alive
  <2>2. Retransmits # 0
    BY MaapNumbers
  <2> QED
    BY <2>1, <2>2, ReceiveRows
<1>6. OnInv'
  <2> SUFFICES ASSUME NEW t \in Station
               PROVE  IF t \in on' THEN \A i \in Index(t) :
                         /\ maap'[t][i].state # "initial"
                         /\ maap'[t][i].state = "probe" => maap'[t][i].probes # 0
                      ELSE heard'[t] = << >>
                           /\ \A i \in Index(t) : ~(maap'[t][i].state # "initial")
    BY DEF OnInv, Alive
  <2>1. CASE t = s
    BY <1>1, <1>5, <2>1
  <2>2. CASE t # s
    BY <1>1, <2>2 DEF OnInv, Alive
  <2> QED
    BY <2>1, <2>2
<1> QED
  BY <1>4, <1>6

LEMMA LoseOn ==
  ASSUME MaapType, OnInv, NEW s \in Station, MaapLose(s)
  PROVE  MaapType' /\ OnInv'
<1>1. /\ heard[s] # << >> /\ maap' = maap /\ dest' = dest /\ on' = on
      /\ missed' = missed + 1
      /\ heard' \in [Station -> Seq(Message)] /\ heard'[s] = Tail(heard[s])
      /\ \A t \in Station \ {s} : heard'[t] = heard[t]
  BY LoseDoes
<1>2. s \in on
  BY <1>1 DEF OnInv
<1>3. \A t \in Station : t \notin on => heard'[t] = heard[t]
  BY <1>1, <1>2
<1>4. missed' \in Nat
  BY <1>1 DEF MaapType
<1>5. MaapType'
  BY <1>1, <1>4 DEF MaapType
<1>6. OnInv'
  BY <1>1, <1>3 DEF OnInv, Alive
<1> QED
  BY <1>5, <1>6

LEMMA PassRows ==
  ASSUME MaapType, OnInv, MaapPass, NEW s \in Station, NEW i \in Index(s)
  PROVE  /\ maap'[s][i] \in MaapRow
         /\ maap'[s][i].state = maap[s][i].state
         /\ maap'[s][i].reselect = maap[s][i].reselect
         /\ maap'[s][i].probes = maap[s][i].probes
<1>1. maap'[s] = [j \in Index(s) |->
        [maap[s][j] EXCEPT !.timer = IF s \in on THEN @ - 1 ELSE @]]
  BY PassDoes
<1> DEFINE t == IF s \in on THEN maap[s][i].timer - 1 ELSE maap[s][i].timer
<1>2. maap'[s][i] = [maap[s][i] EXCEPT !.timer = t]
  BY <1>1
<1>3. t \in Nat
  <2>1. CASE s \in on
    <3>1. i \notin DueStreams(s)
      BY <2>1, PassDoes
    <3>2. maap[s][i].timer # 0 /\ maap[s][i].timer \in Nat
      BY <3>1, RowIs DEF DueStreams
    <3> QED
      BY <2>1, <3>2
  <2>2. CASE s \notin on
    BY <2>2, RowIs
  <2> QED
    BY <2>1, <2>2
<1> HIDE DEF t
<1>4. maap[s][i] \in MaapRow
  BY RowIs
<1> QED
  BY <1>2, <1>3, <1>4 DEF MaapRow

LEMMA PassOn ==
  ASSUME MaapType, OnInv, MaapPass
  PROVE  MaapType' /\ OnInv'
<1>1. /\ dest' = dest /\ on' = on /\ missed' = missed /\ heard' = heard
      /\ DOMAIN maap' = Station
  BY PassDoes
<1>2. ASSUME NEW s \in Station PROVE maap'[s] \in [Index(s) -> MaapRow]
  <2>1. maap'[s] = [i \in Index(s) |-> maap'[s][i]]
    BY PassDoes
  <2>2. \A i \in Index(s) : maap'[s][i] \in MaapRow
    BY PassRows
  <2> QED
    BY <2>1, <2>2
<1>3. MaapType'
  BY <1>1, <1>2 DEF MaapType
<1>4. \A s \in Station : \A i \in Index(s) :
        maap'[s][i].state = maap[s][i].state /\ maap'[s][i].probes = maap[s][i].probes
  BY PassRows
<1>5. OnInv'
  BY <1>1, <1>4 DEF OnInv, Alive
<1> QED
  BY <1>3, <1>5

-----------------------------------------------------------------------------
(* Two streams of different stations at one address.                         *)

\* A message under way that stops stream i of s: a probe of its address to t,
\* who has it too, or the answer of t.
Objected(s, i, t) ==
  \/ Says(heard[t], "probe", Addr(s, i))
  \/ Says(heard[s], "defend", Addr(s, i))

\* Stream i of s came to its address after t: the probes it has sent since are
\* lost, all but one that is under way while its interval lasts.
Newer(s, i, t) ==
  /\ maap[s][i].state = "probe"
  /\ \/ Retransmits - maap[s][i].probes <= missed
     \/ /\ Retransmits - maap[s][i].probes <= missed + 1
        /\ maap[s][i].timer # 0 /\ Objected(s, i, t)

Couple(s, i, t, j) ==
  Alive(s, i) /\ Alive(t, j) /\ Addr(s, i) = Addr(t, j)
    => Newer(s, i, t) \/ Newer(t, j, s)

\* Of two streams at one address, one is new there.
PairInv ==
  missed <= 1 =>
    \A s, t \in Station : s # t => \A i \in Index(s), j \in Index(t) : Couple(s, i, t, j)

LEMMA CoupleSame ==
  ASSUME NEW s, NEW i, NEW t, NEW j
  PROVE  /\ Couple(s, i, t, j) <=> Couple(t, j, s, i)
         /\ Couple(s, i, t, j)' <=> Couple(t, j, s, i)'
BY DEF Couple

LEMMA AddrSame ==
  ASSUME NEW s, NEW i, maap'[s][i].reselect = maap[s][i].reselect
  PROVE  Addr(s, i)' = Addr(s, i)
BY DEF Addr, Address

\* Two tables stay as they are, and nothing that is said is lost.
LEMMA CoupleStays ==
  ASSUME NEW s \in Station, NEW t \in Station, NEW i, NEW j,
         maap'[s] = maap[s], maap'[t] = maap[t], missed' = missed,
         \A type, x : Says(heard[s], type, x) => Says(heard'[s], type, x),
         \A type, x : Says(heard[t], type, x) => Says(heard'[t], type, x),
         Couple(s, i, t, j)
  PROVE  Couple(s, i, t, j)'
<1>1. Addr(s, i)' = Addr(s, i) /\ Addr(t, j)' = Addr(t, j)
  BY AddrSame
<1>2. Newer(s, i, t) => Newer(s, i, t)'
  BY <1>1 DEF Newer, Objected
<1>3. Newer(t, j, s) => Newer(t, j, s)'
  BY <1>1 DEF Newer, Objected
<1> QED
  BY <1>1, <1>2, <1>3 DEF Couple, Alive

\* To go on it is enough to look at the couples of the station that moves.
LEMMA PairsOf ==
  ASSUME PairInv, NEW s \in Station, missed' = missed,
         \A t \in Station \ {s} : maap'[t] = maap[t],
         \A t \in Station \ {s} : \A type, x :
           Says(heard[t], type, x) => Says(heard'[t], type, x),
         missed <= 1 =>
           \A t \in Station \ {s} : \A i \in Index(s), j \in Index(t) : Couple(s, i, t, j)'
  PROVE  PairInv'
<1> SUFFICES ASSUME missed <= 1, NEW t \in Station, NEW u \in Station, t # u,
                    NEW i \in Index(t), NEW j \in Index(u)
             PROVE  Couple(t, i, u, j)'
  BY DEF PairInv, Index
<1>1. CASE t = s
  BY <1>1
<1>2. CASE u = s
  <2>1. Couple(u, j, t, i)'
    BY <1>2
  <2> QED
    BY <2>1, CoupleSame
<1>3. CASE t # s /\ u # s
  <2>1. Couple(t, i, u, j)
    BY DEF PairInv
  <2>2. maap'[t] = maap[t] /\ maap'[u] = maap[u]
    BY <1>3
  <2>3. /\ \A type, x : Says(heard[t], type, x) => Says(heard'[t], type, x)
        /\ \A type, x : Says(heard[u], type, x) => Says(heard'[u], type, x)
    BY <1>3
  <2> QED
    BY <2>1, <2>2, <2>3, CoupleStays
<1> QED
  BY <1>1, <1>2, <1>3

\* Who has just chosen an address is new there.
LEMMA CoupleFresh ==
  ASSUME MaapType, missed' = missed,
         NEW s \in Station, NEW i, NEW t, NEW j,
         maap'[s][i].state = "probe", maap'[s][i].probes = Retransmits
  PROVE  Couple(s, i, t, j)'
<1>1. Retransmits - maap'[s][i].probes <= missed'
  BY MaapNumbers DEF MaapType
<1>2. Newer(s, i, t)'
  BY <1>1 DEF Newer
<1> QED
  BY <1>2 DEF Couple

LEMMA BootPairs ==
  ASSUME MaapType, OnInv, PairInv, NEW s \in Station, Boot(s)
  PROVE  PairInv'
<1>1. PICK wait \in [Index(s) -> ProbeTime] :
        maap'[s] = [i \in Index(s) |-> Probing(0, wait[i])]
  BY BootDoes
<1>2. ASSUME NEW i \in Index(s)
      PROVE  maap'[s][i].state = "probe" /\ maap'[s][i].probes = Retransmits
  <2>1. maap'[s][i] = Probing(0, wait[i])
    BY <1>1
  <2> QED
    BY <2>1 DEF Probing
<1>3. /\ missed' = missed /\ \A t \in Station \ {s} : maap'[t] = maap[t]
      /\ \A t \in Station : \A type, x :
           Says(heard[t], type, x) => Says(heard'[t], type, x)
  BY BootDoes
<1>4. \A t \in Station \ {s} : \A i \in Index(s), j \in Index(t) : Couple(s, i, t, j)'
  BY <1>2, <1>3, CoupleFresh
<1> QED
  BY <1>3, <1>4, PairsOf

LEMMA OffPairs ==
  ASSUME MaapType, OnInv, PairInv, NEW s \in Station, StationOff(s)
  PROVE  PairInv'
<1>1. /\ missed' = missed /\ maap'[s] = [i \in Index(s) |-> Initial]
      /\ \A t \in Station \ {s} : maap'[t] = maap[t] /\ heard'[t] = heard[t]
  BY OffDoes
<1>2. \A i \in Index(s) : ~(Alive(s, i)')
  BY <1>1 DEF Alive, Initial
<1>3. \A t \in Station \ {s} : \A i \in Index(s), j \in Index(t) : Couple(s, i, t, j)'
  BY <1>2 DEF Couple
<1>4. \A t \in Station \ {s} : \A type, x :
        Says(heard[t], type, x) => Says(heard'[t], type, x)
  BY <1>1
<1> QED
  BY <1>1, <1>3, <1>4, PairsOf

LEMMA TickPairs ==
  ASSUME MaapType, OnInv, PairInv, NEW s \in Station, MaapTick(s)
  PROVE  PairInv'
<1>1. /\ s \in on /\ missed' = missed /\ \A t \in Station \ {s} : maap'[t] = maap[t]
      /\ \A t \in Station : \A type, x :
           Says(heard[t], type, x) => Says(heard'[t], type, x)
      /\ \A t \in on \ {s} : \A i \in DueStreams(s) :
           maap'[s][i].state = "probe" => Says(heard'[t], "probe", Addr(s, i))
  <2>1. on \subseteq Station
    BY DEF MaapType
  <2>2. \A t \in Station : \A type, x :
          Says(heard'[t], type, x)
            <=> \/ Says(heard[t], type, x)
                \/ /\ t \in on \ {s}
                   /\ \E i \in DueStreams(s) :
                        /\ x = Addr(s, i)
                        /\ type = IF maap'[s][i].state = "probe" THEN "probe"
                                  ELSE "announce"
    BY TickDoes
  <2>3. s \in on /\ missed' = missed /\ \A t \in Station \ {s} : maap'[t] = maap[t]
    BY TickDoes
  <2>4. \A t \in on \ {s} : \A i \in DueStreams(s) :
          maap'[s][i].state = "probe" => Says(heard'[t], "probe", Addr(s, i))
    BY <2>1, <2>2
  <2>5. \A t \in Station : \A type, x :
          Says(heard[t], type, x) => Says(heard'[t], type, x)
    BY <2>2
  <2> QED
    BY <2>3, <2>4, <2>5
<1>2. ASSUME missed <= 1, NEW t \in Station \ {s}, NEW i \in Index(s), NEW j \in Index(t)
      PROVE  Couple(s, i, t, j)'
  <2> SUFFICES ASSUME Alive(s, i)', Alive(t, j)', Addr(s, i)' = Addr(t, j)'
               PROVE  Newer(s, i, t)' \/ Newer(t, j, s)'
    BY DEF Couple
  <2>1. Addr(s, i)' = Addr(s, i) /\ Addr(t, j)' = Addr(t, j)
    BY <1>1, TickRows, AddrSame
  <2>2. t \in on /\ Alive(t, j) /\ Alive(s, i)
    BY <1>1 DEF OnInv, Alive
  <2>3. Newer(s, i, t) \/ Newer(t, j, s)
    BY <1>2, <2>1, <2>2 DEF PairInv, Couple
  <2>4. Newer(t, j, s) => Newer(t, j, s)'
    BY <1>1, <2>1 DEF Newer, Objected
  <2>5. ASSUME Newer(s, i, t), i \notin DueStreams(s) PROVE Newer(s, i, t)'
    <3>1. maap'[s][i] = maap[s][i]
      BY <2>5, TickRows
    <3> QED
      BY <3>1, <2>5, <1>1, <2>1 DEF Newer, Objected
  <2>6. ASSUME Newer(s, i, t), i \in DueStreams(s) PROVE Newer(s, i, t)'
    <3>1. maap[s][i].timer = 0 /\ maap[s][i].state = "probe"
      BY <2>6 DEF DueStreams, Newer
    <3>2. Retransmits - maap[s][i].probes <= missed
      BY <2>6, <3>1 DEF Newer
    <3>3. ~Acquires(maap[s][i])
      <4>1. maap[s][i].probes \in Nat /\ missed \in Nat /\ Retransmits \in Nat
            /\ Retransmits > 2
        BY RowIs, MaapNumbers DEF MaapType
      <4> QED
        BY <4>1, <1>2, <3>2 DEF Acquires
    <3>4. /\ maap'[s][i].state = "probe" /\ maap'[s][i].timer # 0
          /\ maap'[s][i].probes = maap[s][i].probes - 1
      BY <2>6, <3>1, <3>3, TickRows
    <3>5. Retransmits - maap'[s][i].probes <= missed' + 1
      <4>1. maap[s][i].probes \in Nat /\ missed \in Nat /\ Retransmits \in Nat
        BY RowIs, MaapNumbers DEF MaapType
      <4> QED
        BY <4>1, <3>2, <3>4, <1>1
    <3>6. Objected(s, i, t)'
      BY <1>1, <2>1, <2>2, <2>6, <3>4 DEF Objected
    <3> QED
      BY <3>4, <3>5, <3>6 DEF Newer
  <2> QED
    BY <2>3, <2>4, <2>5, <2>6
<1> QED
  BY <1>1, <1>2, PairsOf

LEMMA ReceivePairs ==
  ASSUME MaapType, OnInv, PairInv, NEW s \in Station, MaapReceive(s)
  PROVE  PairInv'
<1>1. /\ s \in on /\ missed' = missed /\ \A t \in Station \ {s} : maap'[t] = maap[t]
      /\ heard[s] # << >> /\ heard'[s] = Tail(heard[s])
      /\ \A t \in Station \ {s} : \A type, x :
           Says(heard[t], type, x) => Says(heard'[t], type, x)
  BY ReceiveDoes
<1>2. heard[s] \in Seq(Message)
  BY DEF MaapType
<1>3. ASSUME missed <= 1, NEW t \in Station \ {s}, NEW i \in Index(s), NEW j \in Index(t)
      PROVE  Couple(s, i, t, j)'
  <2>1. CASE GivesWay(s, i)
    BY <2>1, <1>1, ReceiveRows, CoupleFresh
  <2>2. CASE ~GivesWay(s, i)
    <3> SUFFICES ASSUME Alive(s, i)', Alive(t, j)', Addr(s, i)' = Addr(t, j)'
                 PROVE  Newer(s, i, t)' \/ Newer(t, j, s)'
      BY DEF Couple
    <3>1. maap'[s][i] = maap[s][i] /\ maap'[t] = maap[t]
      BY <2>2, <1>1, ReceiveRows
    <3>2. Addr(s, i)' = Addr(s, i) /\ Addr(t, j)' = Addr(t, j)
      BY <3>1, AddrSame
    <3>3. Alive(t, j) /\ Alive(s, i) /\ t \in on
      BY <3>1 DEF OnInv, Alive
    <3>4. Newer(s, i, t) \/ Newer(t, j, s)
      BY <1>3, <3>2, <3>3 DEF PairInv, Couple
    <3>5. ASSUME Newer(s, i, t) PROVE Newer(s, i, t)'
      <4>1. Says(heard[s], "defend", Addr(s, i)) => Says(heard'[s], "defend", Addr(s, i))
        <5> SUFFICES ASSUME Says(heard[s], "defend", Addr(s, i)),
                            ~Says(heard'[s], "defend", Addr(s, i))
                     PROVE  FALSE
          OBVIOUS
        <5>1. Head(heard[s]).type = "defend" /\ Head(heard[s]).addr = Addr(s, i)
          BY <1>1, <1>2, SaysTail
        <5> QED
          BY <5>1, <2>2, <3>5 DEF GivesWay, Yields, Newer
      <4>2. Objected(s, i, t) => Objected(s, i, t)'
        BY <1>1, <3>2, <4>1 DEF Objected
      <4> QED
        BY <4>2, <3>1, <3>5, <1>1 DEF Newer
    <3>6. ASSUME Newer(t, j, s) PROVE Newer(t, j, s)'
      <4>1. Says(heard[s], "probe", Addr(t, j)) =>
              Says(heard'[s], "probe", Addr(t, j)) \/ Says(heard'[t], "defend", Addr(t, j))
        <5> SUFFICES ASSUME Says(heard[s], "probe", Addr(t, j)),
                            ~Says(heard'[s], "probe", Addr(t, j))
                     PROVE  Says(heard'[t], "defend", Addr(t, j))
          OBVIOUS
        <5>1. Head(heard[s]).type = "probe" /\ Head(heard[s]).addr = Addr(t, j)
          BY <1>1, <1>2, SaysTail
        <5>2. maap[s][i].state = "defend"
          <6>1. maap[s][i].state # "probe"
            BY <5>1, <2>2, <3>2 DEF GivesWay, Yields
          <6> QED
            BY <6>1, <3>3, RowIs DEF Alive
        <5>3. Defends(s, i)
          BY <5>1, <5>2, <2>2, <3>2 DEF Defends
        <5> QED
          BY <5>1, <5>3, <3>3, ReceiveDoes
      <4>2. Objected(t, j, s) => Objected(t, j, s)'
        BY <1>1, <3>2, <4>1 DEF Objected
      <4> QED
        BY <4>2, <3>1, <3>6, <1>1 DEF Newer
    <3> QED
      BY <3>4, <3>5, <3>6
  <2> QED
    BY <2>1, <2>2
<1> QED
  BY <1>1, <1>3, PairsOf

LEMMA LosePairs ==
  ASSUME MaapType, OnInv, PairInv, NEW s \in Station, MaapLose(s)
  PROVE  PairInv'
<1>1. maap' = maap /\ missed' = missed + 1 /\ missed \in Nat
  BY LoseDoes DEF MaapType
<1> SUFFICES ASSUME missed' <= 1, NEW t \in Station, NEW u \in Station, t # u,
                    NEW i \in Index(t), NEW j \in Index(u)
             PROVE  Couple(t, i, u, j)'
  BY DEF PairInv, Index
<1>2. Couple(t, i, u, j)
  BY <1>1 DEF PairInv
<1>3. /\ maap'[t][i] = maap[t][i] /\ maap'[u][j] = maap[u][j]
      /\ Addr(t, i)' = Addr(t, i) /\ Addr(u, j)' = Addr(u, j)
  BY <1>1, AddrSame
<1>4. maap[t][i].probes \in Nat /\ maap[u][j].probes \in Nat /\ Retransmits \in Nat
  BY RowIs, MaapNumbers
<1>5. Newer(t, i, u) => Newer(t, i, u)'
  BY <1>1, <1>3, <1>4 DEF Newer
<1>6. Newer(u, j, t) => Newer(u, j, t)'
  BY <1>1, <1>3, <1>4 DEF Newer
<1> QED
  BY <1>2, <1>3, <1>5, <1>6 DEF Couple, Alive

LEMMA PassPairs ==
  ASSUME MaapType, OnInv, PairInv, MaapPass
  PROVE  PairInv'
<1>1. /\ missed' = missed /\ missed \in Nat /\ heard' = heard
      /\ \A s \in on : heard[s] = << >>
  BY PassDoes DEF MaapType
<1> SUFFICES ASSUME missed' <= 1, NEW t \in Station, NEW u \in Station, t # u,
                    NEW i \in Index(t), NEW j \in Index(u)
             PROVE  Couple(t, i, u, j)'
  BY DEF PairInv, Index
<1>2. Couple(t, i, u, j)
  BY <1>1 DEF PairInv
<1>3. /\ maap'[t][i].state = maap[t][i].state /\ maap'[u][j].state = maap[u][j].state
      /\ maap'[t][i].probes = maap[t][i].probes /\ maap'[u][j].probes = maap[u][j].probes
      /\ Addr(t, i)' = Addr(t, i) /\ Addr(u, j)' = Addr(u, j)
  BY PassRows, AddrSame
<1>4. ~Says(heard[t], "probe", Addr(u, j)) /\ ~Says(heard[t], "defend", Addr(t, i))
      /\ ~Says(heard[u], "probe", Addr(t, i)) /\ ~Says(heard[u], "defend", Addr(u, j))
  <2>1. heard[t] = << >> /\ heard[u] = << >>
    BY <1>1 DEF OnInv
  <2> QED
    BY <2>1, SaysNothing
<1>5. Newer(t, i, u) => Newer(t, i, u)'
  BY <1>1, <1>3, <1>4 DEF Newer, Objected
<1>6. Newer(u, j, t) => Newer(u, j, t)'
  BY <1>1, <1>3, <1>4 DEF Newer, Objected
<1> QED
  BY <1>2, <1>3, <1>5, <1>6 DEF Couple, Alive

-----------------------------------------------------------------------------
(* Announcements and destinations.                                           *)

\* Who hears an announcement of its address neither has it nor is about to.
Warned(s, i) ==
  Says(heard[s], "announce", Addr(s, i)) =>
    /\ maap[s][i].state # "defend"
    /\ maap[s][i].timer = 0 => maap[s][i].probes # 1

AnnounceInv == missed <= 1 => \A s \in Station : \A i \in Index(s) : Warned(s, i)

LEMMA WarnedStays ==
  ASSUME NEW s \in Station, NEW i, maap'[s] = maap[s],
         \A x : Says(heard'[s], "announce", x) => Says(heard[s], "announce", x),
         Warned(s, i)
  PROVE  Warned(s, i)'
<1>1. Addr(s, i)' = Addr(s, i)
  BY AddrSame
<1> QED
  BY <1>1 DEF Warned

LEMMA BootWarned ==
  ASSUME MaapType, OnInv, AnnounceInv, NEW s \in Station, Boot(s)
  PROVE  AnnounceInv'
<1>1. PICK wait \in [Index(s) -> ProbeTime] :
        maap'[s] = [i \in Index(s) |-> Probing(0, wait[i])]
  BY BootDoes
<1>2. ASSUME NEW i \in Index(s) PROVE Warned(s, i)'
  <2>1. maap'[s][i] = Probing(0, wait[i]) /\ wait[i] # 0
    BY <1>1, MaapNumbers
  <2>2. maap'[s][i].state = "probe" /\ maap'[s][i].timer # 0
    BY <2>1 DEF Probing
  <2> QED
    BY <2>2 DEF Warned
<1>3. missed' = missed /\ \A t \in Station \ {s} : maap'[t] = maap[t]
  BY BootDoes
<1>4. \A t \in Station : \A x :
        Says(heard'[t], "announce", x) => Says(heard[t], "announce", x)
  <2>1. \A t \in Station : \A type, x :
          Says(heard'[t], type, x)
            <=> \/ Says(heard[t], type, x)
                \/ /\ t \in on \ {s} /\ type = "probe"
                   /\ \E i \in Index(s) : x = Address(s, i, 0)
    BY BootDoes
  <2>2. "announce" # "probe"
    OBVIOUS
  <2> QED
    BY <2>1, <2>2
<1> SUFFICES ASSUME missed <= 1, NEW t \in Station, NEW i \in Index(t)
             PROVE  Warned(t, i)'
  BY <1>3 DEF AnnounceInv, Index
<1>5. CASE t # s
  BY <1>3, <1>4, <1>5, WarnedStays DEF AnnounceInv
<1> QED
  BY <1>2, <1>5

LEMMA OffWarned ==
  ASSUME MaapType, OnInv, AnnounceInv, NEW s \in Station, StationOff(s)
  PROVE  AnnounceInv'
<1>1. /\ missed' = missed /\ heard'[s] = << >>
      /\ \A t \in Station \ {s} : maap'[t] = maap[t] /\ heard'[t] = heard[t]
  BY OffDoes
<1> SUFFICES ASSUME missed <= 1, NEW t \in Station, NEW i \in Index(t)
             PROVE  Warned(t, i)'
  BY <1>1 DEF AnnounceInv, Index
<1>2. CASE t = s
  BY <1>1, <1>2, SaysNothing DEF Warned
<1>3. CASE t # s
  BY <1>1, <1>3, WarnedStays DEF AnnounceInv
<1> QED
  BY <1>2, <1>3

LEMMA TickWarned ==
  ASSUME MaapType, OnInv, PairInv, AnnounceInv, NEW s \in Station, MaapTick(s)
  PROVE  AnnounceInv'
<1>1. /\ s \in on /\ missed' = missed /\ heard'[s] = heard[s]
      /\ \A t \in Station \ {s} : maap'[t] = maap[t]
  BY TickDoes
<1>2. \A t \in Station : \A x :
        Says(heard'[t], "announce", x) =>
          \/ Says(heard[t], "announce", x)
          \/ /\ t \in on \ {s}
             /\ \E i \in DueStreams(s) : x = Addr(s, i) /\ maap'[s][i].state # "probe"
  <2>1. \A t \in Station : \A type, x :
          Says(heard'[t], type, x)
            <=> \/ Says(heard[t], type, x)
                \/ /\ t \in on \ {s}
                   /\ \E i \in DueStreams(s) :
                        /\ x = Addr(s, i)
                        /\ type = IF maap'[s][i].state = "probe" THEN "probe"
                                  ELSE "announce"
    BY TickDoes
  <2>2. "announce" # "probe"
    OBVIOUS
  <2> SUFFICES ASSUME NEW t \in Station, NEW x, Says(heard'[t], "announce", x),
                      ~Says(heard[t], "announce", x)
               PROVE  /\ t \in on \ {s}
                      /\ \E i \in DueStreams(s) : x = Addr(s, i) /\ maap'[s][i].state # "probe"
    OBVIOUS
  <2>3. /\ t \in on \ {s}
        /\ \E i \in DueStreams(s) :
             /\ x = Addr(s, i)
             /\ "announce" = IF maap'[s][i].state = "probe" THEN "probe" ELSE "announce"
    BY <2>1
  <2> QED
    BY <2>2, <2>3
<1>3. PairInv' /\ MaapType' /\ OnInv'
  BY TickPairs, TickOn
<1> SUFFICES ASSUME missed <= 1, NEW t \in Station, NEW j \in Index(t)
             PROVE  Warned(t, j)'
  BY <1>1 DEF AnnounceInv, Index
<1>4. Warned(t, j)
  BY DEF AnnounceInv
<1>5. CASE t = s
  <2>1. Addr(t, j)' = Addr(t, j)
    BY <1>5, TickRows, AddrSame
  <2>5. heard'[t] = heard[t]
    BY <1>1, <1>5
  <2> SUFFICES ASSUME Says(heard[t], "announce", Addr(t, j))
               PROVE  /\ maap'[t][j].state # "defend"
                      /\ maap'[t][j].timer = 0 => maap'[t][j].probes # 1
    BY <2>1, <2>5 DEF Warned
  <2>2. /\ maap[s][j].state # "defend"
        /\ maap[s][j].timer = 0 => maap[s][j].probes # 1
    BY <1>4, <1>5 DEF Warned
  <2>3. CASE j \notin DueStreams(s)
    BY <1>5, <2>2, <2>3, TickRows
  <2>4. CASE j \in DueStreams(s)
    <3>1. maap[s][j].timer = 0
      BY <2>4 DEF DueStreams
    <3>2. maap[s][j].state = "probe"
      BY <1>1, <1>5, <2>2, RowIs DEF OnInv, Alive
    <3>3. ~Acquires(maap[s][j])
      BY <2>2, <3>1 DEF Acquires
    <3> QED
      BY <1>5, <2>4, <3>2, <3>3, TickRows
  <2> QED
    BY <2>3, <2>4
<1>6. CASE t # s
  <2>1. maap'[t] = maap[t] /\ Addr(t, j)' = Addr(t, j)
    BY <1>1, <1>6, AddrSame
  <2> SUFFICES ASSUME Says(heard'[t], "announce", Addr(t, j)),
                      ~Says(heard[t], "announce", Addr(t, j))
               PROVE  /\ maap[t][j].state # "defend"
                      /\ maap[t][j].timer = 0 => maap[t][j].probes # 1
    BY <1>4, <2>1 DEF Warned
  <2>2. PICK i \in DueStreams(s) : Addr(t, j) = Addr(s, i) /\ maap'[s][i].state # "probe"
    BY <1>2
  <2>3. t \in on /\ i \in Index(s)
    BY <1>2, <2>2 DEF DueStreams
  <2>4. Addr(s, i)' = Addr(t, j)' /\ Alive(s, i)' /\ Alive(t, j)'
    <3>1. Addr(s, i)' = Addr(s, i)
      BY <2>3, TickRows, AddrSame
    <3>2. s \in on' /\ t \in on'
      BY <1>1, <2>3, TickDoes
    <3> QED
      BY <1>3, <2>1, <2>2, <2>3, <3>1, <3>2 DEF OnInv
  <2>5. Couple(s, i, t, j)'
    BY <1>1, <1>3, <1>6, <2>3 DEF PairInv
  <2>6. Newer(t, j, s)'
    BY <2>2, <2>4, <2>5 DEF Couple, Newer
  <2>7. /\ maap[t][j].state = "probe"
        /\ maap[t][j].timer = 0 => Retransmits - maap[t][j].probes <= missed
    BY <1>1, <2>1, <2>6 DEF Newer
  <2>8. maap[t][j].timer = 0 => maap[t][j].probes # 1
    <3>1. maap[t][j].probes \in Nat /\ missed \in Nat /\ Retransmits \in Nat
          /\ Retransmits > 2
      BY RowIs, MaapNumbers DEF MaapType
    <3> QED
      BY <2>7, <3>1
  <2> QED
    BY <2>7, <2>8
<1> QED
  BY <1>5, <1>6

LEMMA ReceiveWarned ==
  ASSUME MaapType, OnInv, AnnounceInv, NEW s \in Station, MaapReceive(s)
  PROVE  AnnounceInv'
<1>1. /\ missed' = missed /\ heard[s] # << >> /\ heard'[s] = Tail(heard[s])
      /\ \A t \in Station \ {s} : maap'[t] = maap[t]
  BY ReceiveDoes
<1>2. \A t \in Station \ {s} : \A x :
        Says(heard'[t], "announce", x) => Says(heard[t], "announce", x)
  <2>1. \A t \in Station \ {s} : \A type, x :
          Says(heard'[t], type, x)
            <=> \/ Says(heard[t], type, x)
                \/ /\ t \in on /\ type = "defend" /\ x = Head(heard[s]).addr
                   /\ \E i \in Index(s) : Defends(s, i)
    BY ReceiveDoes
  <2>2. "announce" # "defend"
    OBVIOUS
  <2> QED
    BY <2>1, <2>2
<1>3. \A x : Says(heard'[s], "announce", x) => Says(heard[s], "announce", x)
  <2>1. heard[s] \in Seq(Message)
    BY DEF MaapType
  <2> QED
    BY <1>1, <2>1, SaysTail
<1> SUFFICES ASSUME missed <= 1, NEW t \in Station, NEW i \in Index(t)
             PROVE  Warned(t, i)'
  BY <1>1 DEF AnnounceInv, Index
<1>4. CASE t = s /\ GivesWay(s, i)
  <2>1. maap'[t][i].state = "probe" /\ maap'[t][i].timer # 0
    BY <1>4, ReceiveRows
  <2> QED
    BY <2>1 DEF Warned
<1>5. CASE t = s /\ ~GivesWay(s, i)
  <2>1. maap'[t][i] = maap[t][i]
    BY <1>5, ReceiveRows
  <2>2. Addr(t, i)' = Addr(t, i)
    BY <2>1, AddrSame
  <2> QED
    BY <1>3, <1>5, <2>1, <2>2 DEF AnnounceInv, Warned
<1>6. CASE t # s
  BY <1>1, <1>2, <1>6, WarnedStays DEF AnnounceInv
<1> QED
  BY <1>4, <1>5, <1>6

LEMMA LoseWarned ==
  ASSUME MaapType, OnInv, AnnounceInv, NEW s \in Station, MaapLose(s)
  PROVE  AnnounceInv'
<1>1. /\ heard[s] # << >> /\ maap' = maap /\ missed' = missed + 1 /\ missed \in Nat
      /\ heard'[s] = Tail(heard[s]) /\ \A t \in Station \ {s} : heard'[t] = heard[t]
  BY LoseDoes DEF MaapType
<1>2. \A t \in Station : \A x :
        Says(heard'[t], "announce", x) => Says(heard[t], "announce", x)
  <2>1. heard[s] \in Seq(Message)
    BY DEF MaapType
  <2> QED
    BY <1>1, <2>1, SaysTail
<1>3. missed' <= 1 => missed <= 1
  BY <1>1
<1> QED
  BY <1>1, <1>2, <1>3, WarnedStays DEF AnnounceInv, Index

LEMMA PassWarned ==
  ASSUME MaapType, OnInv, AnnounceInv, MaapPass
  PROVE  AnnounceInv'
<1>1. \A s \in Station : heard'[s] = << >>
  BY PassDoes DEF OnInv
<1> QED
  BY <1>1, SaysNothing DEF AnnounceInv, Warned

\* A talker advertises the address it holds.
DestInv ==
  missed <= 1 => \A s \in Station : \A i \in Index(s) :
    dest[s][i] # NoAddress => maap[s][i].state = "defend" /\ dest[s][i] = Addr(s, i)

\* An owner gives way to an announcement, and hears none.
LEMMA HolderStays ==
  ASSUME MaapType, OnInv, AnnounceInv, missed <= 1, NEW s \in Station, MaapReceive(s),
         NEW i \in Index(s), maap[s][i].state = "defend"
  PROVE  maap'[s][i] = maap[s][i]
<1>1. heard[s] # << >> /\ heard[s] \in Seq(Message)
  BY ReceiveDoes DEF MaapType
<1>2. ~GivesWay(s, i)
  <2> SUFFICES ASSUME GivesWay(s, i) PROVE FALSE
    OBVIOUS
  <2>1. Head(heard[s]).type = "announce" /\ Head(heard[s]).addr = Addr(s, i)
    BY DEF GivesWay, Yields
  <2>2. Says(heard[s], "announce", Addr(s, i))
    <3>1. 1 \in 1..Len(heard[s]) /\ Head(heard[s]) = heard[s][1]
      BY <1>1, HeadTailProperties, LenProperties, EmptySeq
    <3> QED
      BY <2>1, <3>1 DEF Says
  <2> QED
    BY <2>2 DEF AnnounceInv, Warned
<1> QED
  BY <1>2, ReceiveRows

LEMMA DestStep ==
  ASSUME MaapType, OnInv, AnnounceInv, DestInv, [MaapNext]_maapVars
  PROVE  DestInv'
<1> DEFINE Same(s, i) == dest[s][i] # NoAddress =>
                           maap[s][i].state = "defend" /\ dest[s][i] = Addr(s, i)
<1>1. ASSUME NEW s \in Station, Boot(s) PROVE DestInv'
  <2>1. /\ missed' = missed /\ dest' = dest /\ s \notin on
        /\ \A t \in Station \ {s} : maap'[t] = maap[t]
    BY <1>1, BootDoes
  <2> SUFFICES ASSUME missed <= 1, NEW t \in Station, NEW i \in Index(t),
                      dest[t][i] # NoAddress
               PROVE  maap'[t][i].state = "defend" /\ dest[t][i] = Addr(t, i)'
    BY <2>1 DEF DestInv, Index
  <2>2. maap[t][i].state = "defend" /\ dest[t][i] = Addr(t, i)
    BY DEF DestInv
  <2>3. t # s
    BY <2>1, <2>2 DEF OnInv, Alive
  <2>4. maap'[t][i] = maap[t][i]
    BY <2>1, <2>3
  <2> QED
    BY <2>2, <2>4, AddrSame
<1>2. ASSUME NEW s \in Station, StationOff(s) PROVE DestInv'
  <2>1. /\ missed' = missed /\ dest'[s] = [i \in Index(s) |-> NoAddress]
        /\ \A t \in Station \ {s} : maap'[t] = maap[t] /\ dest'[t] = dest[t]
    BY <1>2, OffDoes
  <2> SUFFICES ASSUME missed <= 1, NEW t \in Station, NEW i \in Index(t),
                      dest'[t][i] # NoAddress
               PROVE  maap'[t][i].state = "defend" /\ dest'[t][i] = Addr(t, i)'
    BY <2>1 DEF DestInv, Index
  <2>2. t # s
    BY <2>1
  <2>3. maap'[t][i] = maap[t][i] /\ dest'[t][i] = dest[t][i]
    BY <2>1, <2>2
  <2> QED
    BY <2>3, AddrSame DEF DestInv
<1>3. ASSUME NEW s \in Station, MaapTick(s) PROVE DestInv'
  <2>1. /\ missed' = missed /\ s \in on
        /\ \A t \in Station \ {s} : maap'[t] = maap[t] /\ dest'[t] = dest[t]
        /\ dest'[s] = [i \in Index(s) |->
             IF i \in DueStreams(s) /\ Acquires(maap[s][i]) THEN Addr(s, i) ELSE dest[s][i]]
    BY <1>3, TickDoes
  <2> SUFFICES ASSUME missed <= 1, NEW t \in Station, NEW i \in Index(t),
                      dest'[t][i] # NoAddress
               PROVE  maap'[t][i].state = "defend" /\ dest'[t][i] = Addr(t, i)'
    BY <2>1 DEF DestInv, Index
  <2>2. CASE t # s
    <3>1. maap'[t][i] = maap[t][i] /\ dest'[t][i] = dest[t][i]
      BY <2>1, <2>2
    <3> QED
      BY <3>1, AddrSame DEF DestInv
  <2>3. CASE t = s
    <3>1. Addr(t, i)' = Addr(t, i)
      BY <1>3, <2>3, TickRows, AddrSame
    <3>2. dest'[t][i] = IF i \in DueStreams(t) /\ Acquires(maap[t][i]) THEN Addr(t, i)
                        ELSE dest[t][i]
      BY <2>1, <2>3
    <3>3. CASE i \in DueStreams(t) /\ Acquires(maap[t][i])
      BY <1>3, <2>3, <3>1, <3>2, <3>3, TickRows
    <3>4. CASE ~(i \in DueStreams(t) /\ Acquires(maap[t][i]))
      <4>1. maap[t][i].state = "defend" /\ dest[t][i] = Addr(t, i)
        BY <3>2, <3>4 DEF DestInv
      <4>2. maap'[t][i].state = "defend"
        BY <1>3, <2>3, <4>1, TickRows
      <4> QED
        BY <3>1, <3>2, <3>4, <4>1, <4>2
    <3> QED
      BY <3>3, <3>4
  <2> QED
    BY <2>2, <2>3
<1>4. ASSUME NEW s \in Station, MaapReceive(s) PROVE DestInv'
  <2>1. /\ missed' = missed /\ dest' = dest
        /\ \A t \in Station \ {s} : maap'[t] = maap[t]
    BY <1>4, ReceiveDoes
  <2> SUFFICES ASSUME missed <= 1, NEW t \in Station, NEW i \in Index(t),
                      dest[t][i] # NoAddress
               PROVE  maap'[t][i].state = "defend" /\ dest[t][i] = Addr(t, i)'
    BY <2>1 DEF DestInv, Index
  <2>2. maap[t][i].state = "defend" /\ dest[t][i] = Addr(t, i)
    BY DEF DestInv
  <2>3. maap'[t][i] = maap[t][i]
    BY <1>4, <2>1, <2>2, HolderStays
  <2> QED
    BY <2>2, <2>3, AddrSame
<1>5. ASSUME NEW s \in Station, MaapLose(s) PROVE DestInv'
  <2>1. maap' = maap /\ dest' = dest /\ (missed' <= 1 => missed <= 1)
    <3>1. maap' = maap /\ dest' = dest /\ missed' = missed + 1 /\ missed \in Nat
      BY <1>5, LoseDoes DEF MaapType
    <3> QED
      BY <3>1
  <2> QED
    BY <2>1, AddrSame DEF DestInv, Index
<1>6. ASSUME MaapPass PROVE DestInv'
  <2>1. missed' = missed /\ dest' = dest
    BY <1>6, PassDoes
  <2>2. \A s \in Station : \A i \in Index(s) :
          maap'[s][i].state = maap[s][i].state /\ Addr(s, i)' = Addr(s, i)
    BY <1>6, PassRows, AddrSame
  <2> QED
    BY <2>1, <2>2 DEF DestInv, Index
<1>7. CASE UNCHANGED maapVars
  BY <1>7, AddrSame DEF DestInv, Index, maapVars
<1> QED
  BY <1>1, <1>2, <1>3, <1>4, <1>5, <1>6, <1>7 DEF MaapNext

-----------------------------------------------------------------------------
MaapInv == MaapType /\ OnInv /\ PairInv /\ AnnounceInv /\ DestInv

LEMMA MaapStart == MaapInit => MaapInv
<1> SUFFICES ASSUME MaapInit PROVE MaapInv
  OBVIOUS
<1>1. /\ maap = [s \in Station |-> [i \in Index(s) |-> Initial]]
      /\ dest = [s \in Station |-> [i \in Index(s) |-> NoAddress]]
      /\ on = {} /\ heard = [s \in Station |-> << >>] /\ missed = 0
  BY DEF MaapInit
<1>2. Initial \in MaapRow /\ Initial.state = "initial"
  BY MaapNumbers DEF Initial, MaapRow
<1>3. heard \in [Station -> Seq(Message)]
  BY <1>1, EmptySeq
<1>4. MaapType
  BY <1>1, <1>2, <1>3 DEF MaapType
<1>5. \A s \in Station : \A i \in Index(s) : ~Alive(s, i)
  BY <1>1, <1>2 DEF Alive
<1>6. OnInv
  BY <1>1, <1>5 DEF OnInv
<1>7. PairInv
  BY <1>5 DEF PairInv, Couple
<1>8. AnnounceInv
  BY <1>1, SaysNothing DEF AnnounceInv, Warned
<1>9. DestInv
  BY <1>1 DEF DestInv
<1> QED
  BY <1>4, <1>6, <1>7, <1>8, <1>9 DEF MaapInv

LEMMA MaapStep == MaapInv /\ [MaapNext]_maapVars => MaapInv'
<1> SUFFICES ASSUME MaapInv, [MaapNext]_maapVars PROVE MaapInv'
  OBVIOUS
<1>1. MaapType /\ OnInv /\ PairInv /\ AnnounceInv /\ DestInv
  BY DEF MaapInv
<1>2. DestInv'
  BY <1>1, DestStep
<1>3. ASSUME NEW s \in Station, Boot(s)
      PROVE  MaapType' /\ OnInv' /\ PairInv' /\ AnnounceInv'
  BY <1>1, <1>3, BootOn, BootPairs, BootWarned
<1>4. ASSUME NEW s \in Station, StationOff(s)
      PROVE  MaapType' /\ OnInv' /\ PairInv' /\ AnnounceInv'
  BY <1>1, <1>4, OffOn, OffPairs, OffWarned
<1>5. ASSUME NEW s \in Station, MaapTick(s)
      PROVE  MaapType' /\ OnInv' /\ PairInv' /\ AnnounceInv'
  BY <1>1, <1>5, TickOn, TickPairs, TickWarned
<1>6. ASSUME NEW s \in Station, MaapReceive(s)
      PROVE  MaapType' /\ OnInv' /\ PairInv' /\ AnnounceInv'
  BY <1>1, <1>6, ReceiveOn, ReceivePairs, ReceiveWarned
<1>7. ASSUME NEW s \in Station, MaapLose(s)
      PROVE  MaapType' /\ OnInv' /\ PairInv' /\ AnnounceInv'
  BY <1>1, <1>7, LoseOn, LosePairs, LoseWarned
<1>8. ASSUME MaapPass
      PROVE  MaapType' /\ OnInv' /\ PairInv' /\ AnnounceInv'
  BY <1>1, <1>8, PassOn, PassPairs, PassWarned
<1>9. ASSUME UNCHANGED maapVars
      PROVE  MaapType' /\ OnInv' /\ PairInv' /\ AnnounceInv'
  <2>1. maap' = maap /\ dest' = dest /\ on' = on /\ heard' = heard /\ missed' = missed
    BY <1>9 DEF maapVars
  <2>2. MaapType'
    BY <1>1, <2>1 DEF MaapType
  <2>3. OnInv'
    BY <1>1, <2>1 DEF OnInv, Alive
  <2>4. PairInv'
    BY <1>1, <2>1, CoupleStays DEF PairInv, Index
  <2>5. AnnounceInv'
    BY <1>1, <2>1, WarnedStays DEF AnnounceInv, Index
  <2> QED
    BY <2>2, <2>3, <2>4, <2>5
<1>10. MaapType' /\ OnInv' /\ PairInv' /\ AnnounceInv'
  BY <1>3, <1>4, <1>5, <1>6, <1>7, <1>8, <1>9 DEF MaapNext
<1> QED
  BY <1>2, <1>10 DEF MaapInv

\* The streams of a station have different addresses.  A station does not hear
\* itself, and the choices of one stream could lead it to the address of another.
OwnApart ==
  \A s \in Station : \A i, j \in Index(s) : i # j => Addr(s, i) # Addr(s, j)

LEMMA OutputIs ==
  ASSUME NEW o \in Output
  PROVE  /\ o[1] \in Station /\ o[2] \in Index(o[1]) /\ o = <<o[1], o[2]>>
BY DEF Output

\* Of two streams at one address one is new there, so two do not hold it.
LEMMA HoldersApart ==
  ASSUME MaapInv, missed <= 1, NEW s \in Station, NEW t \in Station, s # t,
         NEW i \in Index(s), NEW j \in Index(t),
         maap[s][i].state = "defend", maap[t][j].state = "defend"
  PROVE  Addr(s, i) # Addr(t, j)
<1>1. Couple(s, i, t, j)
  BY DEF MaapInv, PairInv
<1>2. Alive(s, i) /\ Alive(t, j)
  BY DEF Alive
<1>3. ~Newer(s, i, t) /\ ~Newer(t, j, s)
  BY DEF Newer
<1> QED
  BY <1>1, <1>2, <1>3 DEF Couple

\* As long as at most one message is lost no two talkers advertise one
\* destination, whatever the addresses they start from, the jitter of their
\* intervals and the order in which they are switched on and off (avb_maap_init,
\* avb_maap_tick, avb_process_maap): a stream that comes to an address another
\* has sends at least two probes before it takes it, and one is answered.
THEOREM DestinationsDiffer == MaapSpec /\ []OwnApart => []DestUnique
<1>1. MaapInv /\ OwnApart => DestUnique
  <2> SUFFICES ASSUME MaapInv, OwnApart, missed <= 1, NEW o \in Output, NEW p \in Output,
                      o # p, DestOf(o) # NoAddress, DestOf(p) = DestOf(o)
               PROVE  FALSE
    BY DEF DestUnique
  <2>1. /\ o[1] \in Station /\ o[2] \in Index(o[1]) /\ o = <<o[1], o[2]>>
        /\ p[1] \in Station /\ p[2] \in Index(p[1]) /\ p = <<p[1], p[2]>>
    BY OutputIs
  <2>2. /\ maap[o[1]][o[2]].state = "defend" /\ maap[p[1]][p[2]].state = "defend"
        /\ Addr(o[1], o[2]) = Addr(p[1], p[2])
    BY <2>1 DEF MaapInv, DestInv, DestOf
  <2>3. CASE o[1] = p[1]
    BY <2>1, <2>2, <2>3 DEF OwnApart
  <2>4. CASE o[1] # p[1]
    BY <2>1, <2>2, <2>4, HoldersApart
  <2> QED
    BY <2>3, <2>4
<1> QED
  BY <1>1, MaapStart, MaapStep, PTL DEF MaapSpec

\* Nor does a lost message, a newcomer or a station that returns make a talker
\* that stays on leave the address it holds (avb_process_maap).
THEOREM AddressKept == MaapSpec => HeldIsKept
<1>1. MaapInv /\ MaapInv' /\ [MaapNext]_maapVars =>
        [missed' <= 1 => \A o \in Output :
           Holds(o) /\ o[1] \in on' => Holds(o)' /\ AddrOf(o)' = AddrOf(o)]_maapVars
  <2> SUFFICES ASSUME MaapInv, MaapNext, missed' <= 1, NEW o \in Output, Holds(o),
                      o[1] \in on'
               PROVE  Holds(o)' /\ AddrOf(o)' = AddrOf(o)
    OBVIOUS
  <2> DEFINE u == o[1]
             i == o[2]
  <2>1. u \in Station /\ i \in Index(u) /\ maap[u][i].state = "defend" /\ u \in on'
    BY OutputIs DEF Holds
  <2> HIDE DEF u, i
  <2>2. MaapType /\ OnInv /\ PairInv /\ AnnounceInv /\ missed \in Nat
    BY DEF MaapInv, MaapType
  <2>3. /\ maap'[u][i].state = "defend"
        /\ maap'[u][i].reselect = maap[u][i].reselect
    <3>1. ASSUME NEW s \in Station, Boot(s)
          PROVE  maap'[u][i] = maap[u][i]
      <4>1. s \notin on /\ \A t \in Station \ {s} : maap'[t] = maap[t]
        BY <2>2, <3>1, BootDoes
      <4>2. u # s
        BY <2>1, <2>2, <4>1 DEF OnInv, Alive
      <4> QED
        BY <2>1, <4>1, <4>2
    <3>2. ASSUME NEW s \in Station, StationOff(s)
          PROVE  maap'[u][i] = maap[u][i]
      <4>1. on' = on \ {s} /\ \A t \in Station \ {s} : maap'[t] = maap[t]
        BY <2>2, <3>2, OffDoes
      <4> QED
        BY <2>1, <4>1
    <3>3. ASSUME NEW s \in Station, MaapTick(s)
          PROVE  /\ maap'[u][i].state = "defend"
                 /\ maap'[u][i].reselect = maap[u][i].reselect
      <4>1. CASE u = s
        BY <2>1, <2>2, <3>3, <4>1, TickRows
      <4>2. CASE u # s
        <5>1. \A t \in Station \ {s} : maap'[t] = maap[t]
          BY <2>2, <3>3, TickDoes
        <5>2. maap'[u] = maap[u]
          BY <2>1, <4>2, <5>1
        <5> QED
          BY <2>1, <5>2
      <4> QED
        BY <4>1, <4>2
    <3>4. ASSUME NEW s \in Station, MaapReceive(s)
          PROVE  maap'[u][i] = maap[u][i]
      <4>1. missed' = missed /\ \A t \in Station \ {s} : maap'[t] = maap[t]
        BY <2>2, <3>4, ReceiveDoes
      <4>2. CASE u = s
        BY <2>1, <2>2, <3>4, <4>1, <4>2, HolderStays
      <4>3. CASE u # s
        BY <2>1, <4>1, <4>3
      <4> QED
        BY <4>2, <4>3
    <3>5. ASSUME NEW s \in Station, MaapLose(s)
          PROVE  maap'[u][i] = maap[u][i]
      BY <2>2, <3>5, LoseDoes
    <3>6. ASSUME MaapPass
          PROVE  /\ maap'[u][i].state = "defend"
                 /\ maap'[u][i].reselect = maap[u][i].reselect
      BY <2>1, <2>2, <3>6, PassRows
    <3> QED
      BY <2>1, <3>1, <3>2, <3>3, <3>4, <3>5, <3>6 DEF MaapNext
  <2> QED
    BY <2>3, AddrSame DEF Holds, AddrOf, u, i
<1> QED
  BY <1>1, MaapStart, MaapStep, PTL DEF MaapSpec, HeldIsKept
=============================================================================
