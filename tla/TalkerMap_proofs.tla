-------------------------- MODULE TalkerMap_proofs --------------------------
(***************************************************************************)
(* Theorems about TalkerMap: its type invariant; that no port holds both   *)
(* forms of one stream registered; that the talkers' reservations do not   *)
(* outlive their registrations while no talker changes its port; that a    *)
(* Talker Advertise is declared with the bandwidth of its value reserved   *)
(* only; and that the running totals implement Admission.  Then theorems   *)
(* about MrpLink, the exchange of declarations by which a registration     *)
(* comes and stays: its type, and that what is declared stays registered.  *)
(***************************************************************************)
EXTENDS TalkerMap, MrpLink, FiniteSetsExt, FiniteSetTheorems, SequenceTheorems,
        WellFoundedInduction, TLAPS

-----------------------------------------------------------------------------
(* The state machines and the account. *)

\* An Applicant step stays among the twelve states of Table 10-3.
LEMMA ApplicantStepType ==
  ASSUME NEW s \in ApplicantState, NEW ev
  PROVE  ApplicantStep(s, ev) \in ApplicantState
BY DEF ApplicantState, ApplicantStep, OnJoin, OnLv, OnRJoinIn, OnRLeave, OnTx,
       OnPeriodic, TxEvent

\* So does a local withdrawal.
LEMMA WithdrawStepType ==
  ASSUME NEW s \in ApplicantState
  PROVE  WithdrawStep(s, FALSE) \in ApplicantState
BY ApplicantStepType DEF WithdrawStep

\* A Registrar step stays among the three states of Table 10-4.
LEMMA RegistrarStepType ==
  ASSUME NEW r \in RegistrarState, NEW ev
  PROVE  RegistrarStep(r, ev) \in RegistrarState
BY DEF RegistrarState, RegistrarStep

\* A value is a class and a number of bits that a word holds.
LEMMA ValueType ==
  ASSUME NEW v \in Value0
  PROVE  v.cls \in Class /\ v.bps \in 0..Word - 1
BY BandwidthAssumption DEF Value0, NoValue, Class

\* The remainder of a division by the word.
LEMMA ModWord ==
  ASSUME NEW n \in Int
  PROVE  n % Word \in 0..Word - 1
BY BandwidthAssumption

LEMMA ReleaseType ==
  ASSUME NEW acc \in Account, NEW s \in Stream
  PROVE  Release(acc, s) \in Account
<1> DEFINE r == acc.entry[s]
<1>1. r \in Value0 /\ r.cls \in Class /\ r.bps \in 0..Word - 1
  BY ValueType DEF Account
<1>2. acc.admitted[r.cls] \in 0..Word - 1
  BY <1>1 DEF Account
<1>3. (IF acc.admitted[r.cls] > r.bps THEN acc.admitted[r.cls] - r.bps ELSE 0) \in 0..Word - 1
  BY <1>1, <1>2, BandwidthAssumption
<1>4. QED
  BY <1>1, <1>3 DEF Release, Account, Value0

\* A reservation is only charged for the entry it is made for.
LEMMA UpdateType ==
  ASSUME NEW acc \in Account, NEW s \in Stream, NEW v \in Value
  PROVE  Update(acc, s, v) \in Account
<1> DEFINE a == Release(acc, s)
<1>1. a \in Account
  BY ReleaseType
<1>2. v \in Value0 /\ v.cls \in Class /\ v.bps \in 0..Word - 1
  BY ValueType DEF Value0
<1>3. (a.admitted[v.cls] + v.bps) % Word \in 0..Word - 1
  BY <1>1, <1>2, ModWord DEF Account
<1>4. Charge(a, s, v) \in Account
  BY <1>1, <1>2, <1>3 DEF Charge, Account
<1>5. QED
  BY <1>4 DEF Update

-----------------------------------------------------------------------------
(* Declaring and withdrawing.  Each operator gives a well-formed bridge and  *)
(* leaves the accounts and the propagation snapshots alone; of the           *)
(* Registrars it can only reset the one of the entry it declares.            *)

LEMMA OtherPort ==
  ASSUME NEW p \in Port
  PROVE  /\ Other(p) \in Port /\ Other(p) # p /\ Other(Other(p)) = p
         /\ \A q \in Port : q = p \/ q = Other(p)
<1>1. PICK x1 \in Port, x2 \in Port : x1 # x2 /\ Port = {x1, x2}
  BY MapAssumption
<1>2. \E y \in Port : y # p
  BY <1>1
<1>3. \A q \in Port : Other(q) \in Port /\ Other(q) # q
  BY <1>1 DEF Other
<1>4. QED
  BY <1>1, <1>3

LEMMA KeyType ==
  ASSUME NEW p \in Port, NEW s \in Stream, NEW t \in Type
  PROVE  /\ <<p, s, t>> \in Key /\ <<p, s, Twin(t)>> \in Key
         /\ <<p, s, "adv">> \in Key /\ <<p, s, "fail">> \in Key
         /\ <<p, s>> \in Port \X Stream
BY DEF Key, Type, Twin

LEMMA DeclaredType ==
  ASSUME NEW m \in Bridge, NEW k \in Key
  PROVE  /\ Declared(m, k) \in Bridge
         /\ Declared(m, k).reg = m.reg /\ Declared(m, k).prop = m.prop
         /\ Declared(m, k).acct = m.acct
<1>1. ApplicantStep(m.app[k], DeclareEvent(m.app[k])) \in ApplicantState
  BY ApplicantStepType DEF Bridge
<1>2. QED
  BY <1>1 DEF Declared, Bridge

LEMMA DeclareFailedType ==
  ASSUME NEW m \in Bridge, NEW y \in Port, NEW s \in Stream, NEW v \in Value
  PROVE  LET n == DeclareFailed(m, y, s, v) IN
         n \in Bridge /\ n.reg = m.reg /\ n.prop = m.prop /\ n.acct = m.acct
<1> DEFINE k == <<y, s, "fail">>
           n == [m EXCEPT !.val[k] = v]
<1>1. k \in Key
  BY KeyType DEF Type
<1>2. n \in Bridge /\ n.reg = m.reg /\ n.prop = m.prop /\ n.acct = m.acct
  BY <1>1 DEF Bridge, Value0
<1>3. QED
  BY <1>1, <1>2, DeclaredType DEF DeclareFailed

LEMMA WithdrawTalkerType ==
  ASSUME NEW m \in Bridge, NEW y \in Port, NEW s \in Stream
  PROVE  LET n == WithdrawTalker(m, y, s) IN
         n \in Bridge /\ n.reg = m.reg /\ n.prop = m.prop /\ n.acct = m.acct
<1> DEFINE ka == <<y, s, "adv">>
           kf == <<y, s, "fail">>
<1>1. ka \in Key /\ kf \in Key /\ <<y, s>> \in Port \X Stream /\ ka # kf
  BY KeyType DEF Type
<1>2. /\ WithdrawStep(m.app[ka], FALSE) \in ApplicantState
      /\ WithdrawStep(m.app[kf], FALSE) \in ApplicantState
  BY <1>1, WithdrawStepType DEF Bridge
<1>3. QED
  BY <1>1, <1>2 DEF WithdrawTalker, Bridge

\* The Registrar of key k is the only one that may differ, and then is reset.
ResetOnly(m, n, k) ==
  \A j \in Key : n.reg[j] = m.reg[j] \/ (j = k /\ n.reg[j] = "MT")

LEMMA DeclareAdvertiseType ==
  ASSUME NEW m \in Bridge, NEW y \in Port, NEW s \in Stream, NEW v \in Value,
         NEW over \in BOOLEAN
  PROVE  LET n == DeclareAdvertise(m, y, s, v, over) IN
         /\ n \in Bridge /\ n.prop = m.prop /\ n.acct = m.acct
         /\ ResetOnly(m, n, <<y, s, "adv">>)
<1> DEFINE k == <<y, s, "adv">>
           h == <<y, s>>
           n == IF m.val[k] = v THEN m
                ELSE [m EXCEPT !.app[k] = "VO", !.reg[k] = "MT",
                               !.timer = @ \ {k}, !.val[k] = v]
           kept  == [n EXCEPT !.hold[h] = "held", !.origin = @ \cup {k}]
           clear == [n EXCEPT !.hold[h] = "none"]
<1>1. k \in Key /\ h \in Port \X Stream
  BY KeyType DEF Type
<1>2. n \in Bridge /\ n.prop = m.prop /\ n.acct = m.acct /\ ResetOnly(m, n, k)
  BY <1>1 DEF Bridge, Value0, ApplicantState, RegistrarState, ResetOnly
<1> HIDE DEF n
<1>3. kept \in Bridge /\ kept.prop = m.prop /\ kept.acct = m.acct /\ kept.reg = n.reg
  BY <1>1, <1>2 DEF Bridge
<1>4. clear \in Bridge /\ clear.prop = m.prop /\ clear.acct = m.acct /\ clear.reg = n.reg
  BY <1>1, <1>2 DEF Bridge
<1>5. LET d == Declared(clear, k) IN
      d \in Bridge /\ d.prop = m.prop /\ d.acct = m.acct /\ d.reg = n.reg
  BY <1>1, <1>4, DeclaredType
<1>6. DeclareAdvertise(m, y, s, v, over) \in {kept, Declared(clear, k)}
  BY DEF DeclareAdvertise, n
<1>7. QED
  BY <1>2, <1>3, <1>5, <1>6 DEF ResetOnly

-----------------------------------------------------------------------------
(* The MAP.  Every reservation is backed by a propagation snapshot, which is *)
(* what tells a later deregistration that there is something to release.     *)

Backed(m) ==
  \A y \in Port : \A s \in Stream :
    m.acct[y].entry[s] # NoValue => m.prop[<<Other(y), s, "adv">>] # NoValue

\* The accounts agree but for the entry of stream s at port y.
OneEntry(m, n, y, s) ==
  \A z \in Port : \A u \in Stream :
    (z = y /\ u = s) \/ n.acct[z].entry[u] = m.acct[z].entry[u]

LEMMA ReleaseEntry ==
  ASSUME NEW acc \in Account, NEW s \in Stream
  PROVE  /\ Release(acc, s).entry = [acc.entry EXCEPT ![s] = NoValue]
         /\ \A v \in Value : \A u \in Stream \ {s} :
              Update(acc, s, v).entry[u] = acc.entry[u]
<1>1. Release(acc, s).entry = [acc.entry EXCEPT ![s] = NoValue]
  BY DEF Release, Account
<1>2. ASSUME NEW v \in Value, NEW u \in Stream \ {s}
      PROVE  Update(acc, s, v).entry[u] = acc.entry[u]
  <2>1. Release(acc, s) \in Account
    BY ReleaseType
  <2>2. Charge(Release(acc, s), s, v).entry[u] = Release(acc, s).entry[u]
    BY <2>1 DEF Charge, Account
  <2>3. QED
    BY <1>1, <2>2 DEF Update, Account
<1>3. QED
  BY <1>1, <1>2

\* Replacing one account of a bridge.
LEMMA AccountReplaced ==
  ASSUME NEW m \in Bridge, NEW y \in Port, NEW s \in Stream, NEW a \in Account,
         \A u \in Stream \ {s} : a.entry[u] = m.acct[y].entry[u]
  PROVE  LET n == [m EXCEPT !.acct[y] = a] IN
         /\ n \in Bridge /\ n.reg = m.reg /\ n.prop = m.prop
         /\ n.acct[y] = a /\ OneEntry(m, n, y, s)
BY DEF Bridge, OneEntry

\* Replacing one propagation snapshot.
LEMMA SnapshotReplaced ==
  ASSUME NEW m \in Bridge, NEW k \in Key, NEW v \in Value0
  PROVE  LET n == [m EXCEPT !.prop[k] = v] IN
         /\ n \in Bridge /\ n.reg = m.reg /\ n.acct = m.acct /\ n.prop[k] = v
         /\ \A j \in Key : j # k => n.prop[j] = m.prop[j]
BY DEF Bridge

LEMMA PropagateType ==
  ASSUME NEW m \in Bridge, NEW p \in Port, NEW s \in Stream, NEW t \in Type,
         NEW v \in Value, NEW over \in BOOLEAN
  PROVE  LET n == Propagate(m, p, s, t, v, over) IN
         /\ n \in Bridge /\ n.prop = m.prop
         /\ ResetOnly(m, n, <<Other(p), s, "adv">>)
         /\ OneEntry(m, n, Other(p), s)
         /\ t = "fail" => n.acct = m.acct
<1> DEFINE y == Other(p)
           acc == IF y \in Wifi /\ v.cls = "A" THEN Release(m.acct[y], s)
                  ELSE Update(m.acct[y], s, v)
           a == [m EXCEPT !.acct[y] = acc]
<1>1. y \in Port
  BY OtherPort
<1>2. m.acct[y] \in Account
  BY <1>1 DEF Bridge
<1>3. acc \in Account /\ \A u \in Stream \ {s} : acc.entry[u] = m.acct[y].entry[u]
  <2> DEFINE old == m.acct[y]
  <2> HIDE DEF old
  <2>1. /\ old \in Account /\ Release(old, s) \in Account /\ Update(old, s, v) \in Account
        /\ Release(old, s).entry = [old.entry EXCEPT ![s] = NoValue]
        /\ \A u \in Stream \ {s} : Update(old, s, v).entry[u] = old.entry[u]
    BY <1>2, ReleaseType, UpdateType, ReleaseEntry DEF old
  <2>2. \A u \in Stream \ {s} : Release(old, s).entry[u] = old.entry[u]
    BY <2>1 DEF Account
  <2>3. acc \in {Release(old, s), Update(old, s, v)}
    BY DEF old
  <2> HIDE DEF acc
  <2>4. QED
    BY <2>1, <2>2, <2>3 DEF old
<1> HIDE DEF acc, y
<1>4. a \in Bridge /\ a.reg = m.reg /\ a.prop = m.prop /\ OneEntry(m, a, y, s)
  BY <1>1, <1>3, AccountReplaced
<1>5. Propagate(m, p, s, t, v, over) \in
        {DeclareFailed(a, y, s, v), DeclareAdvertise(a, y, s, v, over),
         DeclareFailed(m, y, s, v)}
  BY DEF Propagate, acc, y
<1>6. t = "fail" => Propagate(m, p, s, t, v, over) = DeclareFailed(m, y, s, v)
  BY DEF Propagate, y
<1>7. LET n == DeclareFailed(m, y, s, v) IN
      n \in Bridge /\ n.reg = m.reg /\ n.prop = m.prop /\ n.acct = m.acct
  BY <1>1, DeclareFailedType
<1> HIDE DEF a
<1>8. LET n == DeclareFailed(a, y, s, v) IN
      n \in Bridge /\ n.reg = a.reg /\ n.prop = a.prop /\ n.acct = a.acct
  BY <1>1, <1>4, DeclareFailedType
<1>9. LET n == DeclareAdvertise(a, y, s, v, over) IN
      /\ n \in Bridge /\ n.prop = a.prop /\ n.acct = a.acct
      /\ ResetOnly(a, n, <<y, s, "adv">>)
  <2>1. a \in Bridge /\ y \in Port
    BY <1>1, <1>4
  <2>2. QED
    BY <2>1, DeclareAdvertiseType
<1>10. QED
  BY <1>4, <1>5, <1>6, <1>7, <1>8, <1>9 DEF ResetOnly, OneEntry, y

\* What the MAP may do to the rest of the bridge about entry <<p, s, t>>.
MapChange(m, n, p, s, t) ==
  /\ n \in Bridge
  /\ ResetOnly(m, n, <<Other(p), s, "adv">>)
  /\ \A j \in Key : j # <<p, s, t>> => n.prop[j] = m.prop[j]
  /\ Backed(m) => Backed(n)

\* The same, with what becomes of the snapshot of the entry itself.
TalkerChange(m, n, p, s, t, tr) ==
  /\ MapChange(m, n, p, s, t)
  /\ tr = "deregister" => n.prop[<<p, s, t>>] = NoValue /\ n.reg = m.reg
  /\ (tr = "none" /\ m.prop[<<p, s, t>>] = NoValue) => n.prop[<<p, s, t>>] = NoValue

LEMMA RealValue == \A v \in Value : v # NoValue
BY BandwidthAssumption DEF NoValue

LEMMA OnTalkerChangeType ==
  ASSUME NEW m \in Bridge, NEW p \in Port, NEW s \in Stream, NEW t \in Type,
         NEW v \in Value0, NEW tr, NEW over \in BOOLEAN,
         tr = "deregister" \/ v \in Value
  PROVE  TalkerChange(m, OnTalkerChange(m, p, s, t, v, tr, over), p, s, t, tr)
<1> DEFINE k == <<p, s, t>>
           y == Other(p)
           changed  == tr = "none" /\ Changed(m, k, v)
           withdraw == tr = "deregister" \/ changed
           release  == withdraw /\ m.prop[k] # NoValue /\ t = "adv"
           m1 == IF release THEN [m EXCEPT !.acct[y] = Release(@, s)] ELSE m
           m2 == IF withdraw THEN WithdrawTalker(m1, y, s) ELSE m1
           q  == Propagate(m2, p, s, t, v, over)
           n  == OnTalkerChange(m, p, s, t, v, tr, over)
<1>1. y \in Port /\ Other(y) = p /\ k \in Key
  BY OtherPort, KeyType
<1>2. m.acct[y] \in Account
  BY <1>1 DEF Bridge
<1>3. /\ m1 \in Bridge /\ m1.reg = m.reg /\ m1.prop = m.prop /\ OneEntry(m, m1, y, s)
      /\ IF release THEN m1.acct[y].entry[s] = NoValue ELSE m1.acct = m.acct
  <2>1. CASE release
    <3> DEFINE old == m.acct[y]
               acc == Release(old, s)
    <3>1. old \in Account /\ acc \in Account
      BY <1>2, ReleaseType
    <3>2. /\ \A u \in Stream \ {s} : acc.entry[u] = old.entry[u]
          /\ acc.entry[s] = NoValue
      <4> HIDE DEF old
      <4>1. acc.entry = [old.entry EXCEPT ![s] = NoValue]
        BY <3>1, ReleaseEntry
      <4> HIDE DEF acc
      <4>2. QED
        BY <3>1, <4>1 DEF Account
    <3>3. m1 = [m EXCEPT !.acct[y] = acc]
      BY <2>1
    <3> HIDE DEF m1, acc, old, y
    <3>4. LET o == [m EXCEPT !.acct[y] = acc] IN
          /\ o \in Bridge /\ o.reg = m.reg /\ o.prop = m.prop
          /\ o.acct[y] = acc /\ OneEntry(m, o, y, s)
      BY <1>1, <3>1, <3>2, AccountReplaced DEF old
    <3>5. QED
      BY <2>1, <3>2, <3>3, <3>4
  <2>2. CASE ~release
    BY <2>2 DEF OneEntry
  <2>3. QED
    BY <2>1, <2>2
<1> HIDE DEF m1
<1>4. m2 \in Bridge /\ m2.reg = m.reg /\ m2.prop = m.prop /\ m2.acct = m1.acct
  BY <1>1, <1>3, WithdrawTalkerType
<1> HIDE DEF m2
<1>5. changed => m.prop[k] # NoValue /\ tr = "none"
  BY DEF Changed
<1>6. CASE tr = "register" \/ changed
  <2>1. v \in Value /\ v # NoValue
    BY <1>6, RealValue
  <2>2. /\ q \in Bridge /\ q.prop = m.prop
        /\ ResetOnly(m2, q, <<y, s, "adv">>) /\ OneEntry(m2, q, y, s)
        /\ t = "fail" => q.acct = m2.acct
    BY <1>4, <2>1, PropagateType
  <2> HIDE DEF q
  <2>3. n = [q EXCEPT !.prop[k] = v]
    BY <1>6 DEF OnTalkerChange, q, m2, m1
  <2> HIDE DEF n, k
  <2>4. /\ n \in Bridge /\ n.reg = q.reg /\ n.acct = q.acct
        /\ n.prop[k] = v /\ \A j \in Key : j # k => n.prop[j] = m.prop[j]
    BY <1>1, <2>1, <2>2, <2>3, SnapshotReplaced DEF Value0
  <2>5. ResetOnly(m, n, <<y, s, "adv">>)
    BY <1>4, <2>2, <2>4 DEF ResetOnly
  <2>6. ASSUME Backed(m), NEW z \in Port, NEW u \in Stream,
               n.acct[z].entry[u] # NoValue
        PROVE  n.prop[<<Other(z), u, "adv">>] # NoValue
    <3>1. CASE z = y /\ u = s /\ t = "adv"
      BY <3>1, <1>1, <2>1, <2>4 DEF k
    <3>2. CASE ~(z = y /\ u = s) \/ t = "fail"
      <4>1. n.acct[z].entry[u] = m.acct[z].entry[u]
        BY <3>2, <1>3, <1>4, <2>2, <2>4 DEF OneEntry
      <4>2. m.prop[<<Other(z), u, "adv">>] # NoValue
        BY <2>6, <4>1 DEF Backed
      <4>3. Other(z) \in Port /\ Other(Other(z)) = z
        BY OtherPort
      <4>4. <<Other(z), u, "adv">> \in Key
        BY <4>3, KeyType DEF Type
      <4>5. <<Other(z), u, "adv">> # k
        BY <3>2, <4>3 DEF k
      <4>6. QED
        BY <2>4, <4>2, <4>4, <4>5
    <3>3. QED
      BY <3>1, <3>2 DEF Type
  <2>7. QED
    BY <1>5, <1>6, <2>1, <2>4, <2>5, <2>6 DEF TalkerChange, MapChange, Backed, k, n
<1>7. CASE tr = "deregister"
  <2>1. n = [m2 EXCEPT !.prop[k] = NoValue]
    BY <1>7 DEF OnTalkerChange, m2, m1
  <2> HIDE DEF n, k
  <2>2. /\ n \in Bridge /\ n.reg = m.reg /\ n.acct = m1.acct
        /\ n.prop[k] = NoValue /\ \A j \in Key : j # k => n.prop[j] = m.prop[j]
    BY <1>1, <1>4, <2>1, SnapshotReplaced DEF Value0
  <2>3. ASSUME Backed(m), NEW z \in Port, NEW u \in Stream,
               n.acct[z].entry[u] # NoValue
        PROVE  n.prop[<<Other(z), u, "adv">>] # NoValue
    <3>1. Other(z) \in Port /\ Other(Other(z)) = z
      BY OtherPort
    <3>2. <<Other(z), u, "adv">> \in Key
      BY <3>1, KeyType DEF Type
    <3>3. ~release \/ ~(z = y /\ u = s)
      BY <1>3, <2>2, <2>3
    <3>4. m.acct[z].entry[u] # NoValue
      BY <1>3, <2>2, <2>3, <3>3 DEF OneEntry
    <3>5. m.prop[<<Other(z), u, "adv">>] # NoValue
      BY <2>3, <3>4 DEF Backed
    <3>6. <<Other(z), u, "adv">> # k
      BY <1>7, <3>1, <3>3, <3>5 DEF k
    <3>7. QED
      BY <2>2, <3>2, <3>5, <3>6
  <2>4. QED
    BY <1>7, <2>2, <2>3 DEF TalkerChange, MapChange, Backed, ResetOnly, k, n
<1>8. CASE tr \notin {"register", "deregister"} /\ ~changed
  <2>1. n = m
    BY <1>8 DEF OnTalkerChange, m2, m1
  <2>2. QED
    BY <1>8, <2>1 DEF TalkerChange, MapChange, ResetOnly
<1>9. QED
  BY <1>6, <1>7, <1>8

-----------------------------------------------------------------------------
(* The steps of the bridge. *)

LEMMA RegStepType ==
  ASSUME NEW m \in Bridge, NEW k \in Key, NEW ev
  PROVE  LET n == RegStep(m, k, ev) IN
         /\ n \in Bridge /\ n.prop = m.prop /\ n.acct = m.acct
         /\ n.reg = [m.reg EXCEPT ![k] = RegistrarStep(@, ev)]
<1>1. RegistrarStep(m.reg[k], ev) \in RegistrarState
  BY RegistrarStepType DEF Bridge
<1>2. QED
  BY <1>1 DEF RegStep, Bridge

LEMMA RegisteredType ==
  ASSUME NEW m \in Bridge, NEW k \in Key, NEW v \in Value, NEW ev
  PROVE  LET n == Registered(m, k, v, ev) IN
         /\ n \in Bridge /\ n.prop = m.prop /\ n.acct = m.acct
         /\ n.reg = [m.reg EXCEPT ![k] = RegistrarStep(@, ev)]
<1> DEFINE x == [m EXCEPT !.val[k] = IF k \in m.origin THEN @ ELSE v]
           z == [x EXCEPT !.app[k] = ApplicantStep(@, ev)]
<1>1. /\ x \in Bridge /\ x.prop = m.prop /\ x.acct = m.acct /\ x.reg = m.reg
  BY DEF Bridge, Value0
<1> HIDE DEF x
<1>2. ApplicantStep(x.app[k], ev) \in ApplicantState
  BY <1>1, ApplicantStepType DEF Bridge
<1>3. /\ z \in Bridge /\ z.prop = m.prop /\ z.acct = m.acct /\ z.reg = m.reg
  BY <1>1, <1>2 DEF Bridge
<1>4. Registered(m, k, v, ev) = RegStep(z, k, ev)
  BY DEF Registered, SmStep, x
<1> HIDE DEF z
<1>5. QED
  BY <1>3, <1>4, RegStepType

\* The registration of one form leaves the other unregistered, and takes its
\* snapshot with it.
TwinChange(m, d, k, kt, ko) ==
  /\ d \in Bridge /\ (Backed(m) => Backed(d))
  /\ m.reg[k] = "MT" => d = m
  /\ m.reg[k] # "MT" => d.reg[kt] = "MT"
  /\ \A j \in Key \ {kt, ko} : d.reg[j] = m.reg[j]
  /\ \A j \in Key : d.reg[j] = m.reg[j] \/ d.reg[j] = "MT"
  /\ \A j \in Key \ {kt} : d.prop[j] = m.prop[j]
  /\ d.prop[kt] = NoValue \/ (d.prop[kt] = m.prop[kt] /\ d.reg[kt] = m.reg[kt])

LEMMA DisplaceTwinType ==
  ASSUME NEW m \in Bridge, NEW p \in Port, NEW s \in Stream, NEW t \in Type
  PROVE  TwinChange(m, DisplaceTwin(m, p, s, t),
                    <<p, s, t>>, <<p, s, Twin(t)>>, <<Other(p), s, "adv">>)
<1> DEFINE k  == <<p, s, t>>
           kt == <<p, s, Twin(t)>>
           ko == <<Other(p), s, "adv">>
           yes == TRUE
           n  == OnTalkerChange(m, p, s, Twin(t), m.val[kt], "deregister", yes)
           d  == DisplaceTwin(m, p, s, t)
<1>1. k \in Key /\ kt \in Key /\ Twin(t) \in Type
  BY KeyType DEF Twin, Type
<1>2. CASE m.reg[k] = "MT" \/ m.reg[kt] = "MT"
  <2>1. d = m
    BY <1>2 DEF DisplaceTwin
  <2>2. QED
    BY <1>2, <2>1 DEF TwinChange
<1>3. CASE m.reg[k] # "MT" /\ m.reg[kt] # "MT"
  <2>1. m.val[kt] \in Value0 /\ yes \in BOOLEAN
    BY <1>1 DEF Bridge
  <2> HIDE DEF yes
  <2>2. MapChange(m, n, p, s, Twin(t)) /\ n.prop[kt] = NoValue
    BY <1>1, <2>1, OnTalkerChangeType DEF TalkerChange
  <2>3. d = [n EXCEPT !.reg[kt] = "MT"]
    BY <1>3 DEF DisplaceTwin, yes
  <2> HIDE DEF n, d
  <2>4. /\ d \in Bridge /\ d.prop = n.prop /\ d.acct = n.acct
        /\ d.reg = [n.reg EXCEPT ![kt] = "MT"]
    BY <1>1, <2>2, <2>3 DEF MapChange, Bridge, RegistrarState
  <2>5. Backed(m) => Backed(d)
    BY <2>2, <2>4 DEF MapChange, Backed
  <2>6. \A j \in Key : n.reg[j] = m.reg[j] \/ (j = ko /\ n.reg[j] = "MT")
    BY <2>2 DEF MapChange, ResetOnly
  <2>7. d.reg[kt] = "MT" /\ \A j \in Key \ {kt} : d.reg[j] = n.reg[j]
    BY <1>1, <2>2, <2>4 DEF MapChange, Bridge
  <2>8. \A j \in Key \ {kt} : d.prop[j] = m.prop[j]
    BY <2>2, <2>4 DEF MapChange
  <2>9. d.prop[kt] = NoValue
    BY <2>2, <2>4
  <2> HIDE DEF k, kt, ko
  <2>10. QED
    BY <1>3, <2>4, <2>5, <2>6, <2>7, <2>8, <2>9 DEF TwinChange, d, k, kt, ko
<1>4. QED
  BY <1>2, <1>3

\* A stream is registered in one form only, in the bridge m.
Exclusive(m) ==
  \A p \in Port : \A s \in Stream :
    m.reg[<<p, s, "adv">>] = "MT" \/ m.reg[<<p, s, "fail">>] = "MT"

\* A step that changes no Registrar but by resetting it keeps the exclusion.
LEMMA ResetKeepsExclusive ==
  ASSUME NEW m, NEW n, Exclusive(m),
         \A k \in Key : n.reg[k] = m.reg[k] \/ n.reg[k] = "MT"
  PROVE  Exclusive(n)
<1> SUFFICES ASSUME NEW p \in Port, NEW s \in Stream
             PROVE  n.reg[<<p, s, "adv">>] = "MT" \/ n.reg[<<p, s, "fail">>] = "MT"
  BY DEF Exclusive
<1>1. <<p, s, "adv">> \in Key /\ <<p, s, "fail">> \in Key
  BY DEF Key, Type
<1>2. m.reg[<<p, s, "adv">>] = "MT" \/ m.reg[<<p, s, "fail">>] = "MT"
  BY DEF Exclusive
<1>3. QED
  BY <1>1, <1>2

LEMMA RxTalkerKeeps ==
  ASSUME b \in Bridge, Exclusive(b),
         NEW p \in Port, NEW s \in Stream, NEW t \in Type, NEW v \in Value,
         NEW ev \in WireEvent, RxTalker(p, s, t, v, ev)
  PROVE  b' \in Bridge /\ Exclusive(b')
<1> DEFINE k  == <<p, s, t>>
           kt == <<p, s, Twin(t)>>
           ko == <<Other(p), s, "adv">>
           m == Registered(b, k, v, ev)
           d  == DisplaceTwin(m, p, s, t)
           tr == RegTransition(b.reg[k], m.reg[k])
<1>1. PICK over \in BOOLEAN : b' = OnTalkerChange(d, p, s, t, v, tr, over)
  BY DEF RxTalker, Over
<1>2. k \in Key /\ Other(p) # p
  BY KeyType, OtherPort
<1>3. m \in Bridge /\ \A j \in Key \ {k} : m.reg[j] = b.reg[j]
  <2> HIDE DEF k
  <2>1. m \in Bridge /\ m.reg = [b.reg EXCEPT ![k] = RegistrarStep(@, ev)]
    BY <1>2, RegisteredType
  <2> HIDE DEF m
  <2>2. QED
    BY <2>1 DEF Bridge
<1> HIDE DEF m
<1>4. TwinChange(m, d, k, kt, ko)
  BY <1>3, DisplaceTwinType
<1> HIDE DEF d
<1>5. MapChange(d, b', p, s, t)
  BY <1>1, <1>4, OnTalkerChangeType DEF Value0, TwinChange, TalkerChange
<1>6. d.reg[k] = "MT" \/ d.reg[kt] = "MT"
  BY <1>4 DEF TwinChange
<1>7. \A j \in Key \ {k} : d.reg[j] = b.reg[j] \/ d.reg[j] = "MT"
  BY <1>3, <1>4 DEF TwinChange
<1>8. Exclusive(d)
  <2> SUFFICES ASSUME NEW q \in Port, NEW u \in Stream
               PROVE  d.reg[<<q, u, "adv">>] = "MT" \/ d.reg[<<q, u, "fail">>] = "MT"
    BY DEF Exclusive
  <2>1. CASE q = p /\ u = s
    BY <1>6, <2>1 DEF Twin, Type
  <2>2. CASE ~(q = p /\ u = s)
    <3>1. /\ <<q, u, "adv">> \in Key \ {k} /\ <<q, u, "fail">> \in Key \ {k}
      BY <2>2, KeyType
    <3>2. b.reg[<<q, u, "adv">>] = "MT" \/ b.reg[<<q, u, "fail">>] = "MT"
      BY DEF Exclusive
    <3>3. QED
      BY <1>7, <3>1, <3>2
  <2>3. QED
    BY <2>1, <2>2
<1>9. QED
  BY <1>5, <1>8, ResetKeepsExclusive DEF MapChange, ResetOnly

\* What the actions that touch no account and no snapshot leave behind: no
\* Registrar enters or leaves MT.
QuietStep ==
  /\ b' \in Bridge /\ b'.prop = b.prop
  /\ \A k \in Key : (b.reg[k] = "MT") <=> (b'.reg[k] = "MT")
  /\ \A y \in Port : b'.acct[y].entry = b.acct[y].entry

LEMMA RxLeaveAllQuiet ==
  ASSUME b \in Bridge, NEW p \in Port, NEW t \in Type, RxLeaveAll(p, t)
  PROVE  QuietStep
<1> DEFINE S == {k \in Key : k[1] = p /\ k[3] = t}
           app == [k \in Key |-> IF k \in S THEN ApplicantStep(b.app[k], "rLA")
                                            ELSE b.app[k]]
           reg == [k \in Key |-> IF k \in S THEN RegistrarStep(b.reg[k], "rLA")
                                            ELSE b.reg[k]]
           timer == b.timer \cup {k \in S : b.reg[k] # "MT"}
<1>1. app \in [Key -> ApplicantState] /\ reg \in [Key -> RegistrarState]
  BY ApplicantStepType, RegistrarStepType DEF Bridge
<1>2. \A k \in Key : (b.reg[k] = "MT") <=> (reg[k] = "MT")
  BY DEF RegistrarStep, Bridge
<1>3. timer \subseteq Key
  BY DEF Bridge
<1>4. b' = [b EXCEPT !.app = app, !.reg = reg, !.timer = timer]
  BY DEF RxLeaveAll
<1> HIDE DEF app, reg, timer
<1>5. QED
  BY <1>1, <1>2, <1>3, <1>4 DEF QuietStep, Bridge

LEMMA StepAllQuiet ==
  ASSUME b \in Bridge, NEW p \in Port, NEW ev, StepAll(p, ev)
  PROVE  QuietStep
<1> DEFINE app == [k \in Key |-> IF k[1] = p THEN ApplicantStep(b.app[k], ev)
                                            ELSE b.app[k]]
<1>1. app \in [Key -> ApplicantState]
  BY ApplicantStepType DEF Bridge
<1>2. b' = [b EXCEPT !.app = app]
  BY DEF StepAll
<1> HIDE DEF app
<1>3. QED
  BY <1>1, <1>2 DEF QuietStep, Bridge

LEMMA ReleaseHeldQuiet ==
  ASSUME b \in Bridge, NEW p \in Port, NEW s \in Stream, ReleaseHeld(p, s)
  PROVE  QuietStep
<1> DEFINE n == [b EXCEPT !.hold[<<p, s>>] = "none"]
<1>1. n \in Bridge /\ n.reg = b.reg /\ n.prop = b.prop /\ n.acct = b.acct
  BY DEF Bridge
<1> HIDE DEF n
<1>2. b' = Declared(n, <<p, s, "adv">>)
  BY DEF ReleaseHeld, n
<1>3. <<p, s, "adv">> \in Key
  BY KeyType DEF Type
<1>4. QED
  BY <1>1, <1>2, <1>3, DeclaredType DEF QuietStep

LEMMA SetLinkSpeedQuiet ==
  ASSUME b \in Bridge, NEW p \in Port, SetLinkSpeed(p)
  PROVE  QuietStep
<1>1. PICK c \in CapChoice : b' = [b EXCEPT !.acct[p].cap = c]
  BY DEF SetLinkSpeed
<1> DEFINE old == b.acct[p]
           new == [old EXCEPT !.cap = c]
<1>2. old \in Account
  BY DEF Bridge
<1> HIDE DEF old
<1>3. new \in Account /\ new.entry = old.entry
  BY <1>2 DEF Account
<1>4. b' = [b EXCEPT !.acct[p] = new]
  BY <1>1 DEF old
<1> HIDE DEF new
<1>5. QED
  BY <1>3, <1>4 DEF QuietStep, Bridge, old

LEMMA QuietKeeps ==
  ASSUME QuietStep, Exclusive(b)
  PROVE  b' \in Bridge /\ Exclusive(b')
<1> SUFFICES ASSUME NEW p \in Port, NEW s \in Stream
             PROVE  b'.reg[<<p, s, "adv">>] = "MT" \/ b'.reg[<<p, s, "fail">>] = "MT"
  BY DEF Exclusive, QuietStep
<1>1. <<p, s, "adv">> \in Key /\ <<p, s, "fail">> \in Key
  BY DEF Key, Type
<1>2. b.reg[<<p, s, "adv">>] = "MT" \/ b.reg[<<p, s, "fail">>] = "MT"
  BY DEF Exclusive
<1>3. QED
  BY <1>1, <1>2 DEF QuietStep

\* The expiry of a LeaveTimer: the Registrar is in MT and the MAP is told.
LEMMA LeaveTimerChange ==
  ASSUME b \in Bridge, NEW p \in Port, NEW s \in Stream, NEW t \in Type,
         LeaveTimer(p, s, t)
  PROVE  \E m \in Bridge :
           /\ m.reg = [b.reg EXCEPT ![<<p, s, t>>] = "MT"]
           /\ m.prop = b.prop /\ m.acct = b.acct
           /\ MapChange(m, b', p, s, t)
           /\ b'.prop[<<p, s, t>>] = NoValue /\ b'.reg = m.reg
<1> DEFINE k == <<p, s, t>>
           m == [b EXCEPT !.reg[k] = "MT", !.timer = @ \ {k}]
<1>1. k \in Key
  BY KeyType
<1> HIDE DEF k
<1>2. /\ m \in Bridge /\ m.reg = [b.reg EXCEPT ![k] = "MT"]
      /\ m.prop = b.prop /\ m.acct = b.acct
  BY <1>1 DEF Bridge, RegistrarState
<1> DEFINE v == b.val[k]
<1>3. v \in Value0
  BY <1>1 DEF Bridge
<1>4. b' = OnTalkerChange(m, p, s, t, v, "deregister", TRUE)
  BY DEF LeaveTimer, k
<1> HIDE DEF m, v
<1>5. MapChange(m, b', p, s, t) /\ b'.prop[<<p, s, t>>] = NoValue /\ b'.reg = m.reg
  <2> DEFINE yes == TRUE
             n == OnTalkerChange(m, p, s, t, v, "deregister", yes)
  <2>0. yes \in BOOLEAN
    OBVIOUS
  <2> HIDE DEF yes
  <2>1. MapChange(m, n, p, s, t) /\ n.prop[<<p, s, t>>] = NoValue /\ n.reg = m.reg
    BY <1>2, <1>3, <2>0, OnTalkerChangeType DEF TalkerChange
  <2>2. b' = n
    BY <1>4 DEF yes
  <2> HIDE DEF n
  <2>3. QED
    BY <2>1, <2>2
<1>6. QED
  BY <1>2, <1>5 DEF k

LEMMA LeaveTimerKeeps ==
  ASSUME b \in Bridge, Exclusive(b), NEW p \in Port, NEW s \in Stream, NEW t \in Type,
         LeaveTimer(p, s, t)
  PROVE  b' \in Bridge /\ Exclusive(b')
<1>1. PICK m \in Bridge :
        m.reg = [b.reg EXCEPT ![<<p, s, t>>] = "MT"] /\ MapChange(m, b', p, s, t)
  BY LeaveTimerChange
<1>2. \A j \in Key : b'.reg[j] = b.reg[j] \/ b'.reg[j] = "MT"
  BY <1>1 DEF MapChange, ResetOnly, Bridge
<1>3. QED
  BY <1>1, <1>2, ResetKeepsExclusive DEF MapChange

-----------------------------------------------------------------------------
(* Type correctness and the exclusion of the twin. *)

LEMMA InitTyped == Init => b \in Bridge /\ Exclusive(b)
<1> SUFFICES ASSUME NEW cap \in [Port -> CapChoice],
                    b = [app |-> [k \in Key |-> "VO"], reg |-> [k \in Key |-> "MT"],
                         timer |-> {}, val |-> [k \in Key |-> NoValue], origin |-> {},
                         prop |-> [k \in Key |-> NoValue],
                         hold |-> [h \in Port \X Stream |-> "none"],
                         acct |-> [p \in Port |-> EmptyAccount(cap[p])]]
             PROVE  b \in Bridge /\ Exclusive(b)
  BY DEF Init
<1>1. \A p \in Port : EmptyAccount(cap[p]) \in Account
  BY BandwidthAssumption DEF EmptyAccount, Account, Value0
<1>2. b \in Bridge
  BY <1>1 DEF Bridge, ApplicantState, RegistrarState, Value0
<1>3. Exclusive(b)
  BY DEF Exclusive, Key, Type
<1>4. QED
  BY <1>2, <1>3

LEMMA NextTyped ==
  ASSUME b \in Bridge, Exclusive(b), [Next]_b
  PROVE  b' \in Bridge /\ Exclusive(b')
<1>1. CASE UNCHANGED b
  BY <1>1 DEF Exclusive
<1>2. ASSUME NEW p \in Port, NEW s \in Stream, NEW t \in Type, NEW v \in Value,
             NEW ev \in WireEvent, RxTalker(p, s, t, v, ev)
      PROVE  b' \in Bridge /\ Exclusive(b')
  BY <1>2, RxTalkerKeeps
<1>3. ASSUME NEW p \in Port, NEW s \in Stream, NEW t \in Type, LeaveTimer(p, s, t)
      PROVE  b' \in Bridge /\ Exclusive(b')
  BY <1>3, LeaveTimerKeeps
<1>4. ASSUME NEW p \in Port, NEW t \in Type, RxLeaveAll(p, t)
      PROVE  b' \in Bridge /\ Exclusive(b')
  BY <1>4, RxLeaveAllQuiet, QuietKeeps
<1>5. ASSUME NEW p \in Port, NEW s \in Stream, ReleaseHeld(p, s)
      PROVE  b' \in Bridge /\ Exclusive(b')
  BY <1>5, ReleaseHeldQuiet, QuietKeeps
<1>6. ASSUME NEW p \in Port, JoinTimer(p) \/ PeriodicTimer(p)
      PROVE  b' \in Bridge /\ Exclusive(b')
  BY <1>6, StepAllQuiet, QuietKeeps DEF JoinTimer, PeriodicTimer
<1>7. ASSUME NEW p \in Port, SetLinkSpeed(p)
      PROVE  b' \in Bridge /\ Exclusive(b')
  BY <1>7, SetLinkSpeedQuiet, QuietKeeps
<1>8. QED
  BY <1>1, <1>2, <1>3, <1>4, <1>5, <1>6, <1>7 DEF Next

\* Every reachable bridge is well formed, in particular every account holds
\* words and every entry a value some talker declared
\* (the entry types of mrp.c and the handlers that fill them).
THEOREM TypeCorrect == Spec => []TypeOK
<1>1. Init => b \in Bridge /\ Exclusive(b)
  BY InitTyped
<1>2. b \in Bridge /\ Exclusive(b) /\ [Next]_b => (b \in Bridge /\ Exclusive(b))'
  BY NextTyped DEF Exclusive
<1>3. b \in Bridge => TypeOK
  BY DEF TypeOK
<1>4. QED
  BY <1>1, <1>2, <1>3, PTL DEF Spec

\* However the two forms of a stream arrive, expire and displace each other,
\* no port holds both registered (msrp_rx_talker_attr).
THEOREM TwinExclusion == Spec => []TwinExclusive
<1>1. Init => b \in Bridge /\ Exclusive(b)
  BY InitTyped
<1>2. b \in Bridge /\ Exclusive(b) /\ [Next]_b => (b \in Bridge /\ Exclusive(b))'
  BY NextTyped DEF Exclusive
<1>3. Exclusive(b) => TwinExclusive
  BY DEF Exclusive, TwinExclusive
<1>4. QED
  BY <1>1, <1>2, <1>3, PTL DEF Spec

-----------------------------------------------------------------------------
(* Reservations and registrations.  While every talker stays on its port, a  *)
(* snapshot tells of a live registration on that port, and a reservation of  *)
(* a snapshot.                                                               *)

SingleHome == \A s \in Stream : \A p, q \in Home[s] : p = q

LiveSnapshots(m) ==
  \A k \in Key : m.prop[k] # NoValue => m.reg[k] # "MT" /\ k[1] \in Home[k[2]]

Settled(m) == Backed(m) /\ LiveSnapshots(m)

LEMMA RxTalkerSettled ==
  ASSUME SingleHome, b \in Bridge, Settled(b),
         NEW p \in Port, NEW s \in Stream, NEW t \in Type, NEW v \in Value,
         NEW ev \in WireEvent, RxTalker(p, s, t, v, ev)
  PROVE  Settled(b')
<1> DEFINE k  == <<p, s, t>>
           kt == <<p, s, Twin(t)>>
           ko == <<Other(p), s, "adv">>
           m  == Registered(b, k, v, ev)
           d  == DisplaceTwin(m, p, s, t)
           tr == RegTransition(b.reg[k], m.reg[k])
<1>1. /\ p \in Home[s]
      /\ \E over \in BOOLEAN : b' = OnTalkerChange(d, p, s, t, v, tr, over)
  BY DEF RxTalker, Over
<1>2. /\ k \in Key /\ kt \in Key /\ Other(p) # p /\ Twin(t) # t
      /\ Other(p) \in Port
  BY KeyType, OtherPort DEF Twin, Type
<1>3. m \in Bridge /\ m.prop = b.prop /\ m.acct = b.acct
      /\ m.reg = [b.reg EXCEPT ![k] = RegistrarStep(@, ev)]
  <2> HIDE DEF k
  <2>1. QED
    BY <1>2, RegisteredType
<1>4. Backed(m)
  BY <1>3 DEF Settled, Backed
<1> HIDE DEF m
<1>5. TwinChange(m, d, k, kt, ko)
  BY <1>3, DisplaceTwinType
<1> HIDE DEF d
<1>6. d \in Bridge /\ Backed(d)
  BY <1>4, <1>5 DEF TwinChange
<1>7. PICK over \in BOOLEAN : b' = OnTalkerChange(d, p, s, t, v, tr, over)
  BY <1>1
<1>8. MapChange(d, b', p, s, t) /\ (tr = "none" /\ d.prop[k] = NoValue => b'.prop[k] = NoValue)
  BY <1>6, <1>7, OnTalkerChangeType DEF Value0, TalkerChange
<1>9. m.reg[k] = "MT" => b.reg[k] = "MT" /\ tr = "none"
  BY <1>2, <1>3 DEF RegistrarStep, WireEvent, Bridge, RegTransition
<1>10. ASSUME NEW j \in Key, b'.prop[j] # NoValue
       PROVE  b'.reg[j] # "MT" /\ j[1] \in Home[j[2]]
  <2>1. j # ko => b'.reg[j] = d.reg[j]
    BY <1>8 DEF MapChange, ResetOnly
  <2>2. j \notin {kt, ko} => d.reg[j] = m.reg[j]
    BY <1>5 DEF TwinChange
  <2>3. CASE j = k
    <3>1. d.reg[k] = m.reg[k] /\ b'.reg[k] = d.reg[k]
      BY <1>2, <2>1, <2>2, <2>3
    <3>2. m.reg[k] = "MT" => b'.prop[k] = NoValue
      BY <1>2, <1>3, <1>5, <1>8, <1>9 DEF Settled, LiveSnapshots, TwinChange
    <3>3. QED
      BY <1>1, <2>3, <3>1, <3>2, <1>10
  <2>4. CASE j = kt
    <3>1. b'.prop[kt] = d.prop[kt]
      BY <1>2, <1>8 DEF MapChange
    <3>2. d.prop[kt] = b.prop[kt] /\ d.reg[kt] = m.reg[kt]
      BY <1>3, <1>5, <1>10, <2>4, <3>1 DEF TwinChange
    <3>3. kt # k /\ m.reg[kt] = b.reg[kt]
      BY <1>2, <1>3 DEF Bridge
    <3>4. kt # ko
      BY <1>2
    <3>5. QED
      BY <1>2, <1>10, <2>1, <2>4, <3>1, <3>2, <3>3, <3>4 DEF Settled, LiveSnapshots
  <2>5. CASE j \notin {k, kt}
    <3>1. b'.prop[j] = b.prop[j]
      BY <1>3, <1>5, <1>8, <2>5 DEF MapChange, TwinChange
    <3>2. b.reg[j] # "MT" /\ j[1] \in Home[j[2]]
      BY <1>10, <3>1 DEF Settled, LiveSnapshots
    <3>3. j # ko
      BY <1>1, <1>2, <3>2 DEF SingleHome
    <3>4. m.reg[j] = b.reg[j]
      BY <1>3, <2>5 DEF Bridge
    <3>5. QED
      BY <2>1, <2>2, <2>5, <3>2, <3>3, <3>4
  <2>6. QED
    BY <2>3, <2>4, <2>5
<1>11. QED
  BY <1>6, <1>8, <1>10 DEF MapChange, Settled, LiveSnapshots

LEMMA LeaveTimerSettled ==
  ASSUME b \in Bridge, Settled(b), NEW p \in Port, NEW s \in Stream, NEW t \in Type,
         LeaveTimer(p, s, t)
  PROVE  Settled(b')
<1> DEFINE k == <<p, s, t>>
<1>1. PICK m \in Bridge :
        /\ m.reg = [b.reg EXCEPT ![k] = "MT"] /\ m.prop = b.prop /\ m.acct = b.acct
        /\ MapChange(m, b', p, s, t) /\ b'.prop[k] = NoValue /\ b'.reg = m.reg
  BY LeaveTimerChange
<1> HIDE DEF k
<1>2. Backed(b')
  BY <1>1 DEF Settled, Backed, MapChange
<1>3. ASSUME NEW j \in Key, b'.prop[j] # NoValue
      PROVE  b'.reg[j] # "MT" /\ j[1] \in Home[j[2]]
  <2>1. j # k
    BY <1>1, <1>3
  <2>2. b'.prop[j] = b.prop[j] /\ b'.reg[j] = b.reg[j]
    BY <1>1, <2>1 DEF MapChange, Bridge, k
  <2>3. QED
    BY <1>3, <2>2 DEF Settled, LiveSnapshots
<1>4. QED
  BY <1>2, <1>3 DEF Settled, LiveSnapshots

LEMMA QuietSettled ==
  ASSUME QuietStep, Settled(b)
  PROVE  Settled(b')
<1>1. Backed(b')
  BY DEF QuietStep, Settled, Backed
<1>2. LiveSnapshots(b')
  BY DEF QuietStep, Settled, LiveSnapshots
<1>3. QED
  BY <1>1, <1>2 DEF Settled

LEMMA NextSettled ==
  ASSUME SingleHome, b \in Bridge, Settled(b), [Next]_b
  PROVE  Settled(b')
<1>1. CASE UNCHANGED b
  BY <1>1 DEF Settled, Backed, LiveSnapshots
<1>2. ASSUME NEW p \in Port, NEW s \in Stream, NEW t \in Type, NEW v \in Value,
             NEW ev \in WireEvent, RxTalker(p, s, t, v, ev)
      PROVE  Settled(b')
  BY <1>2, RxTalkerSettled
<1>3. ASSUME NEW p \in Port, NEW s \in Stream, NEW t \in Type, LeaveTimer(p, s, t)
      PROVE  Settled(b')
  BY <1>3, LeaveTimerSettled
<1>4. ASSUME NEW p \in Port, NEW t \in Type, RxLeaveAll(p, t)
      PROVE  Settled(b')
  BY <1>4, RxLeaveAllQuiet, QuietSettled
<1>5. ASSUME NEW p \in Port, NEW s \in Stream, ReleaseHeld(p, s)
      PROVE  Settled(b')
  BY <1>5, ReleaseHeldQuiet, QuietSettled
<1>6. ASSUME NEW p \in Port, JoinTimer(p) \/ PeriodicTimer(p)
      PROVE  Settled(b')
  BY <1>6, StepAllQuiet, QuietSettled DEF JoinTimer, PeriodicTimer
<1>7. ASSUME NEW p \in Port, SetLinkSpeed(p)
      PROVE  Settled(b')
  BY <1>7, SetLinkSpeedQuiet, QuietSettled
<1>8. QED
  BY <1>1, <1>2, <1>3, <1>4, <1>5, <1>6, <1>7 DEF Next

LEMMA InitSettled == Init => Settled(b)
BY OtherPort DEF Init, Settled, Backed, LiveSnapshots, EmptyAccount, Key, Type

\* While no talker changes its port, no reservation survives the registration
\* it was made for: whatever ends the registration - a Lv, the LeaveTimer, the
\* other form of the stream - also releases the bandwidth
\* (mrp_on_talker_registrar_change and its callers).
THEOREM ReservationsEnd ==
  ASSUME SingleHome
  PROVE  Spec => []AdmittedIsRegistered
<1>1. Init => b \in Bridge /\ Exclusive(b) /\ Settled(b)
  BY InitTyped, InitSettled
<1>2. b \in Bridge /\ Exclusive(b) /\ Settled(b) /\ [Next]_b
        => (b \in Bridge /\ Exclusive(b) /\ Settled(b))'
  BY NextTyped, NextSettled DEF Exclusive, Settled, Backed, LiveSnapshots
<1>3. Settled(b) => AdmittedIsRegistered
  <2> SUFFICES ASSUME Settled(b), NEW y \in Port, NEW s \in Stream,
                      b.acct[y].entry[s] # NoValue
               PROVE  b.reg[<<Other(y), s, "adv">>] # "MT"
    BY DEF AdmittedIsRegistered
  <2>1. <<Other(y), s, "adv">> \in Key
    BY OtherPort, KeyType DEF Type
  <2>2. QED
    BY <2>1 DEF Settled, Backed, LiveSnapshots
<1>4. QED
  BY <1>1, <1>2, <1>3, PTL DEF Spec

-----------------------------------------------------------------------------
(* Declarations and reservations.  A Talker Advertise that is declared, or   *)
(* held back for its hold-off, is ours, and its value is what is reserved.   *)

DeclaringState == {"VP", "VN", "AN", "AA", "QA", "AP", "QP"}

Live(m, y, s) ==
  m.app[<<y, s, "adv">>] \in DeclaringState \/ m.hold[<<y, s>>] = "held"

Charged(m, y, s) ==
  Live(m, y, s) =>
    /\ <<y, s, "adv">> \in m.origin /\ m.val[<<y, s, "adv">>] # NoValue
    /\ m.acct[y].entry[s] = m.val[<<y, s, "adv">>]

Reserved(m) == \A y \in Port : \A s \in Stream : Charged(m, y, s)

\* Nothing is declared anew, and value and reservation stay.
Keeps(m, n, y, s) ==
  /\ Live(n, y, s) => Live(m, y, s)
  /\ n.val[<<y, s, "adv">>] = m.val[<<y, s, "adv">>]
  /\ <<y, s, "adv">> \in m.origin => <<y, s, "adv">> \in n.origin
  /\ n.acct[y].entry[s] = m.acct[y].entry[s]

KeepsAll(m, n) == \A y \in Port : \A s \in Stream : Keeps(m, n, y, s)

KeepsOthers(m, n, y, s) ==
  \A z \in Port : \A u \in Stream : (z = y /\ u = s) \/ Keeps(m, n, z, u)

LEMMA KeepsTwice ==
  ASSUME NEW m, NEW n, NEW o, KeepsAll(m, n), KeepsAll(n, o)
  PROVE  KeepsAll(m, o)
<1> SUFFICES ASSUME NEW y \in Port, NEW s \in Stream PROVE Keeps(m, o, y, s)
  BY DEF KeepsAll
<1>1. Keeps(m, n, y, s) /\ Keeps(n, o, y, s)
  BY DEF KeepsAll
<1> QED
  BY <1>1 DEF Keeps

LEMMA OthersTwice ==
  ASSUME NEW m, NEW n, NEW o, NEW y, NEW s, KeepsOthers(m, n, y, s), KeepsAll(n, o)
  PROVE  KeepsOthers(m, o, y, s)
<1> SUFFICES ASSUME NEW z \in Port, NEW u \in Stream, ~(z = y /\ u = s)
             PROVE  Keeps(m, o, z, u)
  BY DEF KeepsOthers
<1>1. Keeps(m, n, z, u) /\ Keeps(n, o, z, u)
  BY DEF KeepsAll, KeepsOthers
<1> QED
  BY <1>1 DEF Keeps

LEMMA KeptReserved ==
  ASSUME NEW m, NEW n, Reserved(m), KeepsAll(m, n)
  PROVE  Reserved(n)
BY DEF Reserved, Charged, KeepsAll, Keeps

\* What the other side or a timer does to an Applicant declares nothing.
LEMMA OnlyJoinDeclares ==
  ASSUME NEW a \in ApplicantState, NEW ev \in WireEvent \cup TxEvent \cup {"rLA", "periodic"},
         ApplicantStep(a, ev) \in DeclaringState
  PROVE  a \in DeclaringState
BY DEF ApplicantState, ApplicantStep, OnRJoinIn, OnRLeave, OnTx, OnPeriodic, TxEvent,
       WireEvent, DeclaringState

LEMMA WithdrawnNotDeclaring ==
  ASSUME NEW a \in ApplicantState
  PROVE  WithdrawStep(a, FALSE) \notin DeclaringState
<1> DEFINE no == FALSE
<1>1. WithdrawStep(a, no) = ApplicantStep(a, "lv")
  BY DEF WithdrawStep
<1>2. ApplicantStep(a, "lv") = OnLv(a)
  BY DEF ApplicantStep, TxEvent
<1>3. OnLv(a) \notin DeclaringState
  BY DEF ApplicantState, OnLv, DeclaringState
<1> QED
  BY <1>1, <1>2, <1>3

LEMMA WithdrawTalkerKeeps ==
  ASSUME NEW m \in Bridge, NEW y \in Port, NEW s \in Stream
  PROVE  LET n == WithdrawTalker(m, y, s) IN
         ~Live(n, y, s) /\ KeepsAll(m, n)
<1> DEFINE ka == <<y, s, "adv">>
           kf == <<y, s, "fail">>
           h  == <<y, s>>
           n  == WithdrawTalker(m, y, s)
<1>1. ka \in Key /\ kf \in Key /\ h \in Port \X Stream /\ ka # kf
  BY KeyType DEF Type
<1>2. /\ n.app[ka] = WithdrawStep(m.app[ka], FALSE)
      /\ \A j \in Key \ {ka, kf} : n.app[j] = m.app[j]
      /\ n.hold[h] # "held"
      /\ \A g \in Port \X Stream \ {h} : n.hold[g] = m.hold[g]
      /\ n.val = m.val /\ n.origin = m.origin /\ n.acct = m.acct
  BY <1>1 DEF WithdrawTalker, Bridge
<1> HIDE DEF n
<1>3. m.app[ka] \in ApplicantState
  BY <1>1 DEF Bridge
<1>4. ~Live(n, y, s)
  BY <1>2, <1>3, WithdrawnNotDeclaring DEF Live
<1>5. ASSUME NEW z \in Port, NEW u \in Stream, ~(z = y /\ u = s)
      PROVE  Live(n, z, u) => Live(m, z, u)
  <2>1. <<z, u, "adv">> \in Key \ {ka, kf} /\ <<z, u>> \in Port \X Stream \ {h}
    BY <1>5, KeyType DEF Type
  <2> QED
    BY <1>2, <2>1 DEF Live
<1> QED
  BY <1>2, <1>4, <1>5 DEF KeepsAll, Keeps, n

LEMMA DeclaredKeeps ==
  ASSUME NEW m \in Bridge, NEW y \in Port, NEW s \in Stream, NEW t \in Type
  PROVE  LET k == <<y, s, t>>
             n == Declared(m, k) IN
         /\ n.val = m.val /\ k \in n.origin /\ m.origin \subseteq n.origin
         /\ n.hold = m.hold /\ n.acct = m.acct
         /\ \A j \in Key \ {k} : n.app[j] = m.app[j]
         /\ IF t = "fail" THEN KeepsAll(m, n) ELSE KeepsOthers(m, n, y, s)
<1> DEFINE k == <<y, s, t>>
           n == Declared(m, k)
<1>1. k \in Key
  BY KeyType
<1> HIDE DEF k
<1>2. /\ n.val = m.val /\ k \in n.origin /\ m.origin \subseteq n.origin
      /\ n.hold = m.hold /\ n.acct = m.acct
      /\ \A j \in Key \ {k} : n.app[j] = m.app[j]
  BY <1>1 DEF Declared, Bridge
<1> HIDE DEF n
<1>3. ASSUME NEW z \in Port, NEW u \in Stream, <<z, u, "adv">> # k
      PROVE  Keeps(m, n, z, u)
  <2>1. <<z, u, "adv">> \in Key
    BY KeyType DEF Type
  <2> QED
    BY <1>2, <1>3, <2>1 DEF Keeps, Live
<1> QED
  BY <1>2, <1>3 DEF KeepsAll, KeepsOthers, Type, n, k

LEMMA DeclareFailedKeeps ==
  ASSUME NEW m \in Bridge, NEW y \in Port, NEW s \in Stream, NEW v \in Value
  PROVE  KeepsAll(m, DeclareFailed(m, y, s, v))
<1> DEFINE k == <<y, s, "fail">>
           n == [m EXCEPT !.val[k] = v]
<1>1. k \in Key /\ "fail" \in Type
  BY KeyType DEF Type
<1>2. /\ n \in Bridge /\ n.app = m.app /\ n.hold = m.hold /\ n.origin = m.origin
      /\ n.acct = m.acct /\ \A j \in Key \ {k} : n.val[j] = m.val[j]
  BY <1>1 DEF Bridge, Value0
<1>3. DeclareFailed(m, y, s, v) = Declared(n, k)
  BY DEF DeclareFailed
<1> HIDE DEF n
<1>4. KeepsAll(n, Declared(n, k))
  BY <1>1, <1>2, DeclaredKeeps
<1>5. KeepsAll(m, n)
  <2> SUFFICES ASSUME NEW z \in Port, NEW u \in Stream PROVE Keeps(m, n, z, u)
    BY DEF KeepsAll
  <2>1. <<z, u, "adv">> \in Key \ {k}
    BY KeyType DEF Type
  <2> QED
    BY <1>2, <2>1 DEF Keeps, Live
<1> QED
  BY <1>3, <1>4, <1>5, KeepsTwice

LEMMA DeclareAdvertiseKeeps ==
  ASSUME NEW m \in Bridge, NEW y \in Port, NEW s \in Stream, NEW v \in Value,
         NEW over \in BOOLEAN
  PROVE  LET n == DeclareAdvertise(m, y, s, v, over) IN
         /\ KeepsOthers(m, n, y, s) /\ n.acct = m.acct
         /\ <<y, s, "adv">> \in n.origin /\ n.val[<<y, s, "adv">>] = v
<1> DEFINE k == <<y, s, "adv">>
           h == <<y, s>>
           x == IF m.val[k] = v THEN m
                ELSE [m EXCEPT !.app[k] = "VO", !.reg[k] = "MT",
                               !.timer = @ \ {k}, !.val[k] = v]
           kept  == [x EXCEPT !.hold[h] = "held", !.origin = @ \cup {k}]
           clear == [x EXCEPT !.hold[h] = "none"]
           d == Declared(clear, k)
<1>1. k \in Key /\ h \in Port \X Stream /\ "adv" \in Type
  BY KeyType DEF Type
<1>2. /\ x \in Bridge /\ x.hold = m.hold /\ x.origin = m.origin /\ x.acct = m.acct
      /\ x.val[k] = v
      /\ \A j \in Key \ {k} : x.app[j] = m.app[j] /\ x.val[j] = m.val[j]
  BY <1>1 DEF Bridge, Value0, ApplicantState, RegistrarState
<1> HIDE DEF x
<1>3. /\ kept.val = x.val /\ kept.acct = x.acct /\ kept.app = x.app
      /\ kept.origin = x.origin \cup {k}
      /\ \A g \in Port \X Stream \ {h} : kept.hold[g] = x.hold[g]
  BY <1>1, <1>2 DEF Bridge
<1>4. /\ clear \in Bridge /\ clear.val = x.val /\ clear.acct = x.acct
      /\ clear.app = x.app /\ clear.origin = x.origin
      /\ \A g \in Port \X Stream \ {h} : clear.hold[g] = x.hold[g]
  BY <1>1, <1>2 DEF Bridge
<1> HIDE DEF clear, kept
<1>5. /\ d.val = clear.val /\ k \in d.origin /\ clear.origin \subseteq d.origin
      /\ d.hold = clear.hold /\ d.acct = clear.acct
      /\ \A j \in Key \ {k} : d.app[j] = clear.app[j]
  BY <1>1, <1>4, DeclaredKeeps
<1>6. DeclareAdvertise(m, y, s, v, over) \in {kept, d}
  BY DEF DeclareAdvertise, x, kept, clear
<1> HIDE DEF d
<1>7. ASSUME NEW n \in {kept, d}
      PROVE  /\ KeepsOthers(m, n, y, s) /\ n.acct = m.acct
             /\ k \in n.origin /\ n.val[k] = v
  <2>1. /\ n.val = x.val /\ n.acct = m.acct /\ k \in n.origin
        /\ m.origin \subseteq n.origin
        /\ \A j \in Key \ {k} : n.app[j] = m.app[j]
        /\ \A g \in Port \X Stream \ {h} : n.hold[g] = m.hold[g]
    BY <1>2, <1>3, <1>4, <1>5, <1>7
  <2>2. ASSUME NEW z \in Port, NEW u \in Stream, ~(z = y /\ u = s)
        PROVE  Keeps(m, n, z, u)
    <3>1. <<z, u, "adv">> \in Key \ {k} /\ <<z, u>> \in Port \X Stream \ {h}
      BY <2>2, KeyType DEF Type
    <3> QED
      BY <1>2, <2>1, <3>1 DEF Keeps, Live
  <2> QED
    BY <1>2, <2>1, <2>2 DEF KeepsOthers
<1> QED
  BY <1>6, <1>7

\* What is reserved is the snapshot of the registration it was reserved for,
\* and nothing of class A on a Wi-Fi port.
Snapshot(m) ==
  \A y \in Port : \A s \in Stream :
    m.acct[y].entry[s] # NoValue =>
      /\ m.acct[y].entry[s] = m.prop[<<Other(y), s, "adv">>]
      /\ ~(y \in Wifi /\ m.acct[y].entry[s].cls = "A")

\* An update leaves what was asked for or nothing.
LEMMA UpdateEntry ==
  ASSUME NEW acc \in Account, NEW s \in Stream, NEW v \in Value
  PROVE  /\ Update(acc, s, v).entry[s] \in {v, NoValue}
         /\ acc.entry[s] = v => Update(acc, s, v) = acc
         /\ Release(acc, s).entry[s] = NoValue
<1>1. Release(acc, s) \in Account /\ Release(acc, s).entry[s] = NoValue
  <2>1. Release(acc, s).entry = [acc.entry EXCEPT ![s] = NoValue]
    BY ReleaseEntry
  <2> QED
    BY <2>1, ReleaseType DEF Account
<1> DEFINE a == Release(acc, s)
<1> HIDE DEF a
<1>2. Charge(a, s, v).entry[s] \in {v, NoValue}
  BY <1>1 DEF Charge, Account, a
<1> QED
  BY <1>1, <1>2 DEF Update, a

\* The MAP declares what it could reserve.
LEMMA PropagateReserves ==
  ASSUME NEW m \in Bridge, NEW p \in Port, NEW s \in Stream, NEW t \in Type,
         NEW v \in Value, NEW over \in BOOLEAN, Reserved(m),
         t = "adv" => \/ ~Live(m, Other(p), s)
                      \/ /\ m.acct[Other(p)].entry[s] = v
                         /\ ~(Other(p) \in Wifi /\ v.cls = "A")
  PROVE  LET n == Propagate(m, p, s, t, v, over) IN
         /\ Reserved(n)
         /\ t = "adv" => \/ n.acct[Other(p)].entry[s] = NoValue
                         \/ /\ n.acct[Other(p)].entry[s] = v
                            /\ ~(Other(p) \in Wifi /\ v.cls = "A")
<1> DEFINE y == Other(p)
           old == m.acct[y]
           acc == IF y \in Wifi /\ v.cls = "A" THEN Release(old, s) ELSE Update(old, s, v)
           a == [m EXCEPT !.acct[y] = acc]
           n == Propagate(m, p, s, t, v, over)
<1>1. y \in Port /\ old \in Account /\ v # NoValue
  BY OtherPort, RealValue DEF Bridge
<1>2. /\ acc \in Account /\ \A u \in Stream \ {s} : acc.entry[u] = old.entry[u]
      /\ acc.entry[s] \in {v, NoValue}
      /\ old.entry[s] = v /\ ~(y \in Wifi /\ v.cls = "A") => acc.entry[s] = v
      /\ y \in Wifi /\ v.cls = "A" => acc.entry[s] = NoValue
  <2> HIDE DEF old
  <2>1. /\ old \in Account /\ Release(old, s) \in Account /\ Update(old, s, v) \in Account
        /\ Release(old, s).entry = [old.entry EXCEPT ![s] = NoValue]
        /\ \A u \in Stream \ {s} : Update(old, s, v).entry[u] = old.entry[u]
    BY <1>1, ReleaseType, UpdateType, ReleaseEntry
  <2>2. \A u \in Stream \ {s} : Release(old, s).entry[u] = old.entry[u]
    BY <2>1 DEF Account
  <2>3. /\ Update(old, s, v).entry[s] \in {v, NoValue}
        /\ old.entry[s] = v => Update(old, s, v) = old
        /\ Release(old, s).entry[s] = NoValue
    BY <2>1, UpdateEntry
  <2> QED
    BY <2>1, <2>2, <2>3
<1> HIDE DEF acc
<1>3. /\ a \in Bridge /\ a.acct[y] = acc /\ OneEntry(m, a, y, s)
      /\ a.app = m.app /\ a.hold = m.hold /\ a.val = m.val /\ a.origin = m.origin
  <2>1. a \in Bridge /\ a.acct[y] = acc /\ OneEntry(m, a, y, s)
    <3> HIDE DEF y
    <3> QED
      BY <1>1, <1>2, AccountReplaced
  <2> QED
    BY <2>1 DEF Bridge
<1>4. KeepsOthers(m, a, y, s)
  BY <1>3 DEF KeepsOthers, Keeps, Live, OneEntry
<1>5. n = IF t = "fail" THEN DeclareFailed(m, y, s, v)
          ELSE IF a.acct[y].entry[s] = v THEN DeclareAdvertise(a, y, s, v, over)
          ELSE DeclareFailed(a, y, s, v)
  BY DEF Propagate, acc
<1> HIDE DEF a, n, old, y
<1>6. CASE t = "fail"
  <2>1. KeepsAll(m, n)
    BY <1>1, <1>5, <1>6, DeclareFailedKeeps
  <2> QED
    BY <1>6, <2>1, KeptReserved DEF n, y
<1>7. CASE t # "fail" /\ a.acct[y].entry[s] = v
  <2>1. n = DeclareAdvertise(a, y, s, v, over)
    BY <1>5, <1>7
  <2>2. /\ KeepsOthers(a, n, y, s) /\ n.acct = a.acct
        /\ <<y, s, "adv">> \in n.origin /\ n.val[<<y, s, "adv">>] = v
    BY <1>1, <1>3, <2>1, DeclareAdvertiseKeeps
  <2>3. Charged(n, y, s)
    BY <1>1, <1>7, <2>2 DEF Charged
  <2>4. \A z \in Port : \A u \in Stream : ~(z = y /\ u = s) => Keeps(m, n, z, u)
    BY <1>4, <2>2 DEF KeepsOthers, Keeps
  <2>5. Reserved(n)
    BY <2>3, <2>4 DEF Reserved, Charged, Keeps
  <2> QED
    BY <1>1, <1>2, <1>3, <1>7, <2>2, <2>5 DEF n, y
<1>8. CASE t # "fail" /\ a.acct[y].entry[s] # v
  <2>1. KeepsAll(a, n) /\ n.acct[y].entry[s] = NoValue
    <3>1. KeepsAll(a, n)
      BY <1>1, <1>3, <1>5, <1>8, DeclareFailedKeeps
    <3> QED
      BY <1>1, <1>2, <1>3, <1>8, <3>1 DEF KeepsAll, Keeps
  <2>2. ~Live(m, y, s)
    BY <1>2, <1>3, <1>8 DEF Type, old, y
  <2>3. ~Live(n, y, s)
    <3>1. Live(a, y, s) => Live(m, y, s)
      BY <1>3 DEF Live
    <3> QED
      BY <1>1, <2>1, <2>2, <3>1 DEF KeepsAll, Keeps
  <2>4. \A z \in Port : \A u \in Stream : ~(z = y /\ u = s) => Keeps(m, n, z, u)
    BY <1>4, <2>1 DEF KeepsOthers, KeepsAll, Keeps
  <2>5. Reserved(n)
    BY <2>3, <2>4 DEF Reserved, Charged, Keeps
  <2> QED
    BY <1>8, <2>1, <2>5 DEF n, y
<1> QED
  BY <1>6, <1>7, <1>8

\* What a release or a snapshot of the MAP leaves of the declarations.
LEMMA AccountKeeps ==
  ASSUME NEW m \in Bridge, NEW y \in Port, NEW s \in Stream, NEW a \in Account,
         \A u \in Stream \ {s} : a.entry[u] = m.acct[y].entry[u]
  PROVE  LET n == [m EXCEPT !.acct[y] = a] IN
         KeepsOthers(m, n, y, s) /\ (Live(n, y, s) <=> Live(m, y, s))
<1> DEFINE n == [m EXCEPT !.acct[y] = a]
<1>1. OneEntry(m, n, y, s)
  BY AccountReplaced
<1>2. n.app = m.app /\ n.hold = m.hold /\ n.val = m.val /\ n.origin = m.origin
  BY DEF Bridge
<1> QED
  BY <1>1, <1>2 DEF KeepsOthers, Keeps, Live, OneEntry

LEMMA SnapshotKeeps ==
  ASSUME NEW m \in Bridge, NEW k \in Key, NEW v \in Value0, Reserved(m)
  PROVE  Reserved([m EXCEPT !.prop[k] = v])
<1> DEFINE n == [m EXCEPT !.prop[k] = v]
<1>1. n.app = m.app /\ n.hold = m.hold /\ n.val = m.val /\ n.origin = m.origin
      /\ n.acct = m.acct
  BY DEF Bridge
<1> QED
  BY <1>1 DEF Reserved, Charged, Live

\* The MAP reserves for what it declares, and releases what it withdraws.
LEMMA OnTalkerChangeReserves ==
  ASSUME NEW m \in Bridge, NEW p \in Port, NEW s \in Stream, NEW t \in Type,
         NEW v \in Value0, NEW tr, NEW over \in BOOLEAN,
         tr = "deregister" \/ v \in Value,
         Reserved(m), Snapshot(m), Backed(m),
         tr = "register" /\ t = "adv" =>
           \/ ~Live(m, Other(p), s)
           \/ /\ m.acct[Other(p)].entry[s] = v
              /\ ~(Other(p) \in Wifi /\ v.cls = "A")
  PROVE  LET n == OnTalkerChange(m, p, s, t, v, tr, over) IN
         Reserved(n) /\ Snapshot(n)
<1> DEFINE k == <<p, s, t>>
           y == Other(p)
           changed  == tr = "none" /\ Changed(m, k, v)
           withdraw == tr = "deregister" \/ changed
           release  == withdraw /\ m.prop[k] # NoValue /\ t = "adv"
           m1 == IF release THEN [m EXCEPT !.acct[y] = Release(@, s)] ELSE m
           m2 == IF withdraw THEN WithdrawTalker(m1, y, s) ELSE m1
           q  == Propagate(m2, p, s, t, v, over)
           n  == OnTalkerChange(m, p, s, t, v, tr, over)
<1>1. y \in Port /\ Other(y) = p /\ k \in Key /\ y # p
  BY OtherPort, KeyType
<1>2. m.acct[y] \in Account
  BY <1>1 DEF Bridge
<1>3. /\ m1 \in Bridge /\ m1.prop = m.prop /\ OneEntry(m, m1, y, s)
      /\ KeepsOthers(m, m1, y, s)
      /\ IF release THEN m1.acct[y].entry[s] = NoValue ELSE m1 = m
  <2>1. CASE release
    <3> DEFINE old == m.acct[y]
               acc == Release(old, s)
    <3>1. old \in Account /\ acc \in Account
      BY <1>2, ReleaseType
    <3>2. /\ \A u \in Stream \ {s} : acc.entry[u] = old.entry[u]
          /\ acc.entry[s] = NoValue
      <4> HIDE DEF old
      <4>1. acc.entry = [old.entry EXCEPT ![s] = NoValue]
        BY <3>1, ReleaseEntry
      <4> HIDE DEF acc
      <4>2. QED
        BY <3>1, <4>1 DEF Account
    <3>3. m1 = [m EXCEPT !.acct[y] = acc]
      BY <2>1
    <3> HIDE DEF m1, acc, old, y
    <3>4. LET o == [m EXCEPT !.acct[y] = acc] IN
          /\ o \in Bridge /\ o.prop = m.prop
          /\ o.acct[y] = acc /\ OneEntry(m, o, y, s) /\ KeepsOthers(m, o, y, s)
      BY <1>1, <3>1, <3>2, AccountReplaced, AccountKeeps DEF old
    <3>5. QED
      BY <2>1, <3>2, <3>3, <3>4
  <2>2. CASE ~release
    BY <2>2 DEF OneEntry, KeepsOthers, Keeps
  <2>3. QED
    BY <2>1, <2>2
<1> HIDE DEF m1
<1>4. /\ m2 \in Bridge /\ m2.prop = m.prop /\ m2.acct = m1.acct
      /\ KeepsOthers(m, m2, y, s)
      /\ IF withdraw THEN ~Live(m2, y, s) ELSE m2 = m
  <2>1. CASE withdraw
    <3>1. /\ m2 \in Bridge /\ m2.prop = m1.prop /\ m2.acct = m1.acct
          /\ ~Live(m2, y, s) /\ KeepsAll(m1, m2)
      BY <1>1, <1>3, <2>1, WithdrawTalkerType, WithdrawTalkerKeeps
    <3>2. KeepsOthers(m, m2, y, s)
      BY <1>3, <3>1, OthersTwice
    <3> QED
      BY <1>3, <2>1, <3>1, <3>2
  <2>2. CASE ~withdraw
    BY <1>3, <2>2
  <2> QED
    BY <2>1, <2>2
<1> HIDE DEF m2
<1>5. Reserved(m2)
  <2>1. CASE withdraw
    BY <1>4, <2>1 DEF Reserved, Charged, KeepsOthers, Keeps
  <2>2. CASE ~withdraw
    BY <1>4, <2>2
  <2> QED
    BY <2>1, <2>2
<1>6. \A z \in Port : \A u \in Stream :
        /\ <<Other(z), u, "adv">> \in Key
        /\ ~(z = y /\ u = s /\ t = "adv") => <<Other(z), u, "adv">> # k
  <2> SUFFICES ASSUME NEW z \in Port, NEW u \in Stream
               PROVE  /\ <<Other(z), u, "adv">> \in Key
                      /\ ~(z = y /\ u = s /\ t = "adv") => <<Other(z), u, "adv">> # k
    OBVIOUS
  <2>1. Other(z) \in Port /\ Other(Other(z)) = z
    BY OtherPort
  <2> QED
    BY <2>1, KeyType DEF Type
<1>7. CASE tr = "register" \/ changed
  <2>1. v \in Value /\ v # NoValue
    BY <1>7, RealValue
  <2>2. t = "adv" => \/ ~Live(m2, y, s)
                     \/ /\ m2.acct[y].entry[s] = v
                        /\ ~(y \in Wifi /\ v.cls = "A")
    BY <1>4, <1>7
  <2>3. /\ q \in Bridge /\ q.prop = m.prop /\ OneEntry(m2, q, y, s)
        /\ t = "fail" => q.acct = m2.acct
    <3>1. m2 \in Bridge
      BY <1>4
    <3>2. /\ q \in Bridge /\ q.prop = m2.prop /\ OneEntry(m2, q, Other(p), s)
          /\ t = "fail" => q.acct = m2.acct
      BY <2>1, <3>1, PropagateType
    <3> HIDE DEF q
    <3> QED
      BY <1>4, <3>2
  <2>4. /\ Reserved(q)
        /\ t = "adv" => \/ q.acct[y].entry[s] = NoValue
                        \/ /\ q.acct[y].entry[s] = v
                           /\ ~(y \in Wifi /\ v.cls = "A")
    BY <1>4, <1>5, <2>1, <2>2, PropagateReserves
  <2> HIDE DEF q
  <2>5. n = [q EXCEPT !.prop[k] = v]
    BY <1>7 DEF OnTalkerChange, q, m2, m1
  <2> HIDE DEF n
  <2>6. Reserved(n)
    BY <1>1, <2>3, <2>4, <2>5, SnapshotKeeps
  <2>7. /\ n.acct = q.acct /\ n.prop[k] = v
        /\ \A j \in Key : j # k => n.prop[j] = m.prop[j]
    BY <1>1, <2>1, <2>3, <2>5, SnapshotReplaced DEF Value0
  <2>8. t = "fail" => n.acct[y].entry[s] = m.acct[y].entry[s]
    BY <1>3, <1>4, <2>3, <2>7
  <2>9. \A z \in Port : \A u \in Stream :
          ~(z = y /\ u = s /\ t = "adv") => n.acct[z].entry[u] = m.acct[z].entry[u]
    BY <1>3, <1>4, <2>3, <2>7, <2>8 DEF OneEntry, Type
  <2>10. ASSUME NEW z \in Port, NEW u \in Stream, n.acct[z].entry[u] # NoValue
         PROVE  /\ n.acct[z].entry[u] = n.prop[<<Other(z), u, "adv">>]
                /\ ~(z \in Wifi /\ n.acct[z].entry[u].cls = "A")
    <3>1. CASE z = y /\ u = s /\ t = "adv"
      BY <1>1, <2>4, <2>7, <2>10, <3>1 DEF k
    <3>2. CASE ~(z = y /\ u = s /\ t = "adv")
      <4>1. n.acct[z].entry[u] = m.acct[z].entry[u]
        BY <2>9, <3>2
      <4>2. n.prop[<<Other(z), u, "adv">>] = m.prop[<<Other(z), u, "adv">>]
        BY <1>6, <2>7, <3>2
      <4> QED
        BY <2>10, <4>1, <4>2 DEF Snapshot
    <3> QED
      BY <3>1, <3>2
  <2> QED
    BY <2>6, <2>10 DEF Snapshot, n
<1>8. CASE tr = "deregister"
  <2>1. n = [m2 EXCEPT !.prop[k] = NoValue]
    BY <1>8 DEF OnTalkerChange, m2, m1
  <2> HIDE DEF n
  <2>2. Reserved(n)
    BY <1>1, <1>4, <1>5, <2>1, SnapshotKeeps DEF Value0
  <2>3. /\ n.acct = m1.acct /\ \A j \in Key : j # k => n.prop[j] = m.prop[j]
    BY <1>1, <1>4, <2>1, SnapshotReplaced DEF Value0
  <2>4. ASSUME NEW z \in Port, NEW u \in Stream, n.acct[z].entry[u] # NoValue
        PROVE  /\ n.acct[z].entry[u] = n.prop[<<Other(z), u, "adv">>]
               /\ ~(z \in Wifi /\ n.acct[z].entry[u].cls = "A")
    <3>1. n.acct[z].entry[u] = m.acct[z].entry[u]
      BY <1>3, <2>3, <2>4 DEF OneEntry
    <3>2. CASE z = y /\ u = s /\ t = "adv"
      <4>1. m.prop[k] # NoValue
        BY <1>1, <2>4, <3>1, <3>2 DEF Backed, k
      <4> QED
        BY <1>3, <1>8, <2>3, <2>4, <3>2, <4>1
    <3>3. CASE ~(z = y /\ u = s /\ t = "adv")
      <4>1. n.prop[<<Other(z), u, "adv">>] = m.prop[<<Other(z), u, "adv">>]
        BY <1>6, <2>3, <3>3
      <4> QED
        BY <2>4, <3>1, <4>1 DEF Snapshot
    <3> QED
      BY <3>2, <3>3
  <2> QED
    BY <2>2, <2>4 DEF Snapshot, n
<1>9. CASE tr \notin {"register", "deregister"} /\ ~changed
  <2>1. n = m
    BY <1>9 DEF OnTalkerChange, m2, m1
  <2> QED
    BY <2>1
<1> QED
  BY <1>7, <1>8, <1>9

\* An event of the other side declares nothing, and the value of a declaration
\* of ours stays.
LEMMA RegisteredReserves ==
  ASSUME NEW m \in Bridge, NEW p \in Port, NEW s \in Stream, NEW t \in Type,
         NEW v \in Value, NEW ev \in WireEvent, Reserved(m)
  PROVE  LET n == Registered(m, <<p, s, t>>, v, ev) IN
         /\ Reserved(n) /\ \A y \in Port : \A u \in Stream : Live(n, y, u) => Live(m, y, u)
<1> DEFINE k == <<p, s, t>>
           x == [m EXCEPT !.val[k] = IF k \in m.origin THEN @ ELSE v]
           z == [x EXCEPT !.app[k] = ApplicantStep(@, ev)]
           n == Registered(m, k, v, ev)
<1>1. k \in Key
  BY KeyType
<1> HIDE DEF k
<1>2. /\ x \in Bridge /\ x.app = m.app /\ x.acct = m.acct /\ x.origin = m.origin
      /\ x.hold = m.hold /\ \A j \in m.origin : x.val[j] = m.val[j]
  BY <1>1 DEF Bridge, Value0
<1> HIDE DEF x
<1>3. /\ z.acct = x.acct /\ z.origin = x.origin /\ z.hold = x.hold /\ z.val = x.val
      /\ \A j \in Key \ {k} : z.app[j] = x.app[j]
      /\ z.app[k] = ApplicantStep(x.app[k], ev) /\ z \in Bridge
  <2>1. ApplicantStep(x.app[k], ev) \in ApplicantState
    BY <1>1, <1>2, ApplicantStepType DEF Bridge
  <2> QED
    BY <1>1, <1>2, <2>1 DEF Bridge
<1>4. n = RegStep(z, k, ev)
  BY DEF Registered, SmStep, x
<1> HIDE DEF z
<1>5. /\ n.acct = z.acct /\ n.origin = z.origin /\ n.hold = z.hold /\ n.val = z.val
      /\ n.app = z.app
  BY <1>3, <1>4 DEF RegStep, Bridge
<1> HIDE DEF n
<1>6. \A j \in Key : n.app[j] \in DeclaringState => m.app[j] \in DeclaringState
  <2>1. m.app[k] \in ApplicantState
    BY <1>1 DEF Bridge
  <2>2. n.app[k] = ApplicantStep(m.app[k], ev)
    BY <1>2, <1>3, <1>5
  <2>3. n.app[k] \in DeclaringState => m.app[k] \in DeclaringState
    BY <2>1, <2>2, OnlyJoinDeclares
  <2> QED
    BY <1>2, <1>3, <1>5, <2>3
<1>7. ASSUME NEW y \in Port, NEW u \in Stream
      PROVE  /\ <<y, u, "adv">> \in Key
             /\ Live(n, y, u) => Live(m, y, u)
  <2>1. <<y, u, "adv">> \in Key
    BY KeyType DEF Type
  <2> QED
    BY <1>2, <1>3, <1>5, <1>6, <2>1 DEF Live
<1>8. Reserved(n)
  BY <1>2, <1>3, <1>5, <1>7 DEF Reserved, Charged
<1> QED
  BY <1>7, <1>8 DEF n, k

\* Displacing the twin withdraws, and declares nothing.
LEMMA DisplaceReserves ==
  ASSUME NEW m \in Bridge, NEW p \in Port, NEW s \in Stream, NEW t \in Type,
         Reserved(m), Snapshot(m), Backed(m)
  PROVE  LET d == DisplaceTwin(m, p, s, t) IN Reserved(d) /\ Snapshot(d)
<1> DEFINE k  == <<p, s, t>>
           kt == <<p, s, Twin(t)>>
           yes == TRUE
           n  == OnTalkerChange(m, p, s, Twin(t), m.val[kt], "deregister", yes)
           d  == DisplaceTwin(m, p, s, t)
<1>1. k \in Key /\ kt \in Key /\ Twin(t) \in Type
  BY KeyType DEF Twin, Type
<1>2. CASE m.reg[k] = "MT" \/ m.reg[kt] = "MT"
  BY <1>2 DEF DisplaceTwin
<1>3. CASE m.reg[k] # "MT" /\ m.reg[kt] # "MT"
  <2>1. m.val[kt] \in Value0 /\ yes \in BOOLEAN
    BY <1>1 DEF Bridge
  <2> HIDE DEF yes
  <2>2. n \in Bridge /\ Reserved(n) /\ Snapshot(n)
    BY <1>1, <2>1, OnTalkerChangeType, OnTalkerChangeReserves DEF TalkerChange, MapChange
  <2>3. d = [n EXCEPT !.reg[kt] = "MT"]
    BY <1>3 DEF DisplaceTwin, yes
  <2> HIDE DEF n, d
  <2>4. /\ d.app = n.app /\ d.hold = n.hold /\ d.val = n.val /\ d.origin = n.origin
        /\ d.prop = n.prop /\ d.acct = n.acct
    BY <2>2, <2>3 DEF Bridge
  <2>5. Reserved(d) /\ Snapshot(d)
    BY <2>2, <2>4 DEF Reserved, Charged, Live, Snapshot
  <2> QED
    BY <2>5 DEF d
<1> QED
  BY <1>2, <1>3

\* A registration that comes back after a LeaveAll asks for what it holds.
LEMMA RxTalkerReserves ==
  ASSUME SingleHome, ~Rejoins, b \in Bridge, Settled(b), Reserved(b), Snapshot(b),
         NEW p \in Port, NEW s \in Stream, NEW t \in Type, NEW v \in Value,
         NEW ev \in WireEvent, RxTalker(p, s, t, v, ev)
  PROVE  Reserved(b') /\ Snapshot(b')
<1> DEFINE k  == <<p, s, t>>
           kt == <<p, s, Twin(t)>>
           ko == <<Other(p), s, "adv">>
           y  == Other(p)
           m  == Registered(b, k, v, ev)
           d  == DisplaceTwin(m, p, s, t)
           tr == RegTransition(b.reg[k], m.reg[k])
<1>1. PICK over \in BOOLEAN : b' = OnTalkerChange(d, p, s, t, v, tr, over)
  BY DEF RxTalker, Over
<1>2. b.reg[k] # "LV" \/ b.prop[k] \in {NoValue, v}
  BY DEF RxTalker
<1>3. /\ k \in Key /\ kt \in Key /\ kt # k /\ y \in Port /\ Other(y) = p
  BY KeyType, OtherPort DEF Twin, Type
<1>4. m \in Bridge /\ m.prop = b.prop /\ m.acct = b.acct
  <2>1. k \in Key
    BY <1>3
  <2> HIDE DEF k, y, kt, d, tr
  <2>2. /\ m \in Bridge /\ m.prop = b.prop /\ m.acct = b.acct
        /\ m.reg = [b.reg EXCEPT ![k] = RegistrarStep(@, ev)]
    BY <2>1, RegisteredType
  <2> QED
    BY <2>2
<1>5. Reserved(m)
  BY RegisteredReserves
<1>6. Snapshot(m) /\ Backed(m)
  BY <1>4 DEF Snapshot, Settled, Backed
<1>7. tr = "register" => b.reg[k] # "IN"
  BY DEF RegTransition
<1> HIDE DEF m, tr
<1>8. TwinChange(m, d, k, kt, ko)
  BY <1>4, DisplaceTwinType
<1>9. Reserved(d) /\ Snapshot(d)
  BY <1>4, <1>5, <1>6, DisplaceReserves
<1> HIDE DEF d
<1>10. d \in Bridge /\ Backed(d) /\ d.prop[k] = b.prop[k]
  BY <1>3, <1>4, <1>6, <1>8 DEF TwinChange
<1>11. ASSUME tr = "register", t = "adv", Live(d, y, s)
       PROVE  d.acct[y].entry[s] = v /\ ~(y \in Wifi /\ v.cls = "A")
  <2>1. d.acct[y].entry[s] # NoValue
    <3>1. y \in Port /\ Reserved(d) /\ Live(d, y, s)
      BY <1>3, <1>9, <1>11
    <3> HIDE DEF y
    <3>2. Charged(d, y, s)
      BY <3>1 DEF Reserved
    <3>3. d.acct[y].entry[s] = d.val[<<y, s, "adv">>] /\ d.val[<<y, s, "adv">>] # NoValue
      BY <3>1, <3>2 DEF Charged
    <3> QED
      BY <3>3
  <2>2. d.acct[y].entry[s] = b.prop[k] /\ ~(y \in Wifi /\ d.acct[y].entry[s].cls = "A")
    BY <1>3, <1>9, <1>10, <1>11, <2>1 DEF Snapshot
  <2>3. b.reg[k] # "MT"
    BY <1>3, <2>1, <2>2 DEF Settled, LiveSnapshots
  <2>4. b.reg[k] = "LV"
    BY <1>3, <1>7, <1>11, <2>3 DEF Bridge, RegistrarState
  <2> QED
    BY <1>2, <2>1, <2>2, <2>4
<1> HIDE DEF y, k
<1>12. tr = "register" /\ t = "adv" =>
         \/ ~Live(d, Other(p), s)
         \/ d.acct[Other(p)].entry[s] = v /\ ~(Other(p) \in Wifi /\ v.cls = "A")
  BY <1>11 DEF y
<1> QED
  BY <1>1, <1>9, <1>10, <1>12, OnTalkerChangeReserves DEF Value0

LEMMA LeaveTimerReserves ==
  ASSUME b \in Bridge, Backed(b), Reserved(b), Snapshot(b),
         NEW p \in Port, NEW s \in Stream, NEW t \in Type, LeaveTimer(p, s, t)
  PROVE  Reserved(b') /\ Snapshot(b')
<1> DEFINE k == <<p, s, t>>
           m == [b EXCEPT !.reg[k] = "MT", !.timer = @ \ {k}]
           v == b.val[k]
           yes == TRUE
<1>1. k \in Key
  BY KeyType
<1> HIDE DEF k
<1>2. /\ m \in Bridge /\ m.app = b.app /\ m.hold = b.hold /\ m.val = b.val
      /\ m.origin = b.origin /\ m.prop = b.prop /\ m.acct = b.acct
  BY <1>1 DEF Bridge, RegistrarState
<1>3. v \in Value0 /\ yes \in BOOLEAN
  BY <1>1 DEF Bridge
<1>4. b' = OnTalkerChange(m, p, s, t, v, "deregister", yes)
  BY DEF LeaveTimer, k
<1> HIDE DEF m, v, yes
<1>5. Reserved(m) /\ Snapshot(m) /\ Backed(m)
  BY <1>2 DEF Reserved, Charged, Live, Snapshot, Backed
<1> QED
  BY <1>2, <1>3, <1>4, <1>5, OnTalkerChangeReserves

\* Steps that leave value, reservation and snapshot alone and declare nothing.
LEMMA QuietReserves ==
  ASSUME QuietStep, Reserved(b), Snapshot(b), b'.val = b.val, b'.origin = b.origin,
         b'.hold = b.hold,
         \A k \in Key : b'.app[k] \in DeclaringState => b.app[k] \in DeclaringState
  PROVE  Reserved(b') /\ Snapshot(b')
<1>1. \A y \in Port : \A s \in Stream : <<y, s, "adv">> \in Key
  BY KeyType DEF Type
<1> QED
  BY <1>1 DEF QuietStep, Reserved, Charged, Live, Snapshot

LEMMA EventReserves ==
  ASSUME b \in Bridge, Reserved(b), Snapshot(b), NEW p \in Port,
         (\E t \in Type : RxLeaveAll(p, t)) \/ JoinTimer(p) \/ PeriodicTimer(p)
           \/ SetLinkSpeed(p)
  PROVE  Reserved(b') /\ Snapshot(b')
<1>1. \A k \in Key : b.app[k] \in ApplicantState
  BY DEF Bridge
<1>2. ASSUME NEW t \in Type, RxLeaveAll(p, t) PROVE Reserved(b') /\ Snapshot(b')
  <2>1. /\ b'.val = b.val /\ b'.origin = b.origin /\ b'.hold = b.hold
        /\ \A k \in Key : b'.app[k] = ApplicantStep(b.app[k], "rLA") \/ b'.app[k] = b.app[k]
    BY <1>2 DEF RxLeaveAll, Bridge
  <2> QED
    BY <1>1, <1>2, <2>1, RxLeaveAllQuiet, OnlyJoinDeclares, QuietReserves
<1>3. ASSUME NEW ev \in TxEvent \cup {"periodic"}, StepAll(p, ev)
      PROVE  Reserved(b') /\ Snapshot(b')
  <2>1. /\ b'.val = b.val /\ b'.origin = b.origin /\ b'.hold = b.hold
        /\ \A k \in Key : b'.app[k] = ApplicantStep(b.app[k], ev) \/ b'.app[k] = b.app[k]
    BY <1>3 DEF StepAll, Bridge
  <2> QED
    BY <1>1, <1>3, <2>1, StepAllQuiet, OnlyJoinDeclares, QuietReserves
<1>4. ASSUME SetLinkSpeed(p) PROVE Reserved(b') /\ Snapshot(b')
  <2>1. /\ b'.val = b.val /\ b'.origin = b.origin /\ b'.hold = b.hold /\ b'.app = b.app
    BY <1>4 DEF SetLinkSpeed, Bridge
  <2> QED
    BY <1>4, <2>1, SetLinkSpeedQuiet, QuietReserves
<1> QED
  BY <1>2, <1>3, <1>4 DEF JoinTimer, PeriodicTimer

\* A held declaration is charged already.
LEMMA ReleaseHeldReserves ==
  ASSUME b \in Bridge, Reserved(b), Snapshot(b), NEW p \in Port, NEW s \in Stream,
         ReleaseHeld(p, s)
  PROVE  Reserved(b') /\ Snapshot(b')
<1> DEFINE k == <<p, s, "adv">>
           h == <<p, s>>
           n == [b EXCEPT !.hold[h] = "none"]
<1>1. k \in Key /\ h \in Port \X Stream /\ "adv" \in Type
  BY KeyType DEF Type
<1>2. /\ n \in Bridge /\ n.app = b.app /\ n.val = b.val /\ n.origin = b.origin
      /\ n.acct = b.acct /\ \A g \in Port \X Stream \ {h} : n.hold[g] = b.hold[g]
  BY <1>1 DEF Bridge
<1>3. b' = Declared(n, k) /\ b.hold[h] = "held"
  BY DEF ReleaseHeld
<1> HIDE DEF n
<1>4. /\ b'.val = b.val /\ k \in b'.origin /\ b.origin \subseteq b'.origin
      /\ b'.acct = b.acct /\ KeepsOthers(n, b', p, s)
  BY <1>1, <1>2, <1>3, DeclaredKeeps
<1>5. Charged(b', p, s)
  <2>1. Live(b, p, s)
    BY <1>3 DEF Live
  <2> QED
    BY <1>4, <2>1 DEF Reserved, Charged
<1>6. ASSUME NEW z \in Port, NEW u \in Stream, ~(z = p /\ u = s) PROVE Charged(b', z, u)
  <2>1. Live(n, z, u) => Live(b, z, u)
    BY <1>2, <1>6 DEF Live
  <2>2. Keeps(n, b', z, u)
    BY <1>4, <1>6 DEF KeepsOthers
  <2> QED
    BY <1>2, <1>4, <2>1, <2>2 DEF Reserved, Charged, Keeps
<1>7. Snapshot(b')
  <2>1. QuietStep
    BY ReleaseHeldQuiet
  <2> QED
    BY <2>1 DEF QuietStep, Snapshot
<1> QED
  BY <1>5, <1>6, <1>7 DEF Reserved

LEMMA NextReserves ==
  ASSUME SingleHome, ~Rejoins, b \in Bridge, Settled(b), Reserved(b), Snapshot(b), [Next]_b
  PROVE  Reserved(b') /\ Snapshot(b')
<1>1. CASE UNCHANGED b
  BY <1>1 DEF Reserved, Charged, Live, Snapshot
<1>2. ASSUME NEW p \in Port, NEW s \in Stream, NEW t \in Type, NEW v \in Value,
             NEW ev \in WireEvent, RxTalker(p, s, t, v, ev)
      PROVE  Reserved(b') /\ Snapshot(b')
  BY <1>2, RxTalkerReserves
<1>3. ASSUME NEW p \in Port, NEW s \in Stream, NEW t \in Type, LeaveTimer(p, s, t)
      PROVE  Reserved(b') /\ Snapshot(b')
  BY <1>3, LeaveTimerReserves DEF Settled
<1>4. ASSUME NEW p \in Port, NEW s \in Stream, ReleaseHeld(p, s)
      PROVE  Reserved(b') /\ Snapshot(b')
  BY <1>4, ReleaseHeldReserves
<1>5. ASSUME NEW p \in Port,
             (\E t \in Type : RxLeaveAll(p, t)) \/ JoinTimer(p) \/ PeriodicTimer(p)
               \/ SetLinkSpeed(p)
      PROVE  Reserved(b') /\ Snapshot(b')
  BY <1>5, EventReserves
<1> QED
  BY <1>1, <1>2, <1>3, <1>4, <1>5 DEF Next

LEMMA InitReserves == Init => Reserved(b) /\ Snapshot(b)
<1> SUFFICES ASSUME Init PROVE Reserved(b) /\ Snapshot(b)
  OBVIOUS
<1>1. /\ b.app = [k \in Key |-> "VO"] /\ b.hold = [h \in Port \X Stream |-> "none"]
      /\ \A y \in Port : \A s \in Stream : b.acct[y].entry[s] = NoValue
  BY DEF Init, EmptyAccount
<1>2. ASSUME NEW y \in Port, NEW s \in Stream PROVE ~Live(b, y, s)
  <2>1. <<y, s, "adv">> \in Key /\ <<y, s>> \in Port \X Stream
    BY KeyType DEF Type
  <2> QED
    BY <1>1, <2>1 DEF Live, DeclaringState
<1> QED
  BY <1>1, <1>2 DEF Reserved, Charged, Snapshot

\* While no talker changes its port, nor its value in answer to a LeaveAll, the
\* bridge tells of a Talker Advertise only with the bandwidth of its very value
\* reserved, through every hold-off, refusal, displaced twin and change of the
\* link's rate (mrp_on_talker_registrar_change, mrp_declare_talker_advertise).
THEOREM AdvertisesAreReserved ==
  ASSUME SingleHome, ~Rejoins
  PROVE  Spec => []AdvertiseIsReserved
<1> DEFINE RInv == /\ b \in Bridge /\ Exclusive(b) /\ Settled(b)
                   /\ Reserved(b) /\ Snapshot(b)
<1>1. Init => RInv
  BY InitTyped, InitSettled, InitReserves
<1>2. RInv /\ [Next]_b => RInv'
  <2> SUFFICES ASSUME RInv, [Next]_b PROVE RInv'
    OBVIOUS
  <2>1. b' \in Bridge /\ Exclusive(b')
    BY NextTyped
  <2>2. Settled(b')
    BY NextSettled
  <2>3. Reserved(b') /\ Snapshot(b')
    BY NextReserves
  <2> QED
    BY <2>1, <2>2, <2>3 DEF Exclusive, Settled, Backed, LiveSnapshots, Reserved, Charged,
                            Live, Snapshot
<1>3. RInv => AdvertiseIsReserved
  BY DEF Reserved, Charged, Live, DeclaringState, AdvertiseIsReserved, Declaring
<1> QED
  BY <1>1, <1>2, <1>3, PTL DEF Spec

-----------------------------------------------------------------------------
(* Sums.  What MapThenSumSet adds up, for every finite set: its recursion    *)
(* has a solution, found along the sizes of the subsets, and takes its       *)
(* elements in any order.                                                    *)

Total(h, S) == MapThenSumSet(LAMBDA r : h[r].bps, S)

Pick(S) == CHOOSE x \in S : TRUE

SumStep(h, g, s) == IF s = {} THEN 0 ELSE h[Pick(s)].bps + g[s \ {Pick(s)}]

Sums(h, S) == CHOOSE g : g = [s \in SUBSET S |-> SumStep(h, g, s)]

LEMMA TotalIsSum == \A h, S : Total(h, S) = Sums(h, S)[S]
BY Zenon DEF Total, Sums, SumStep, Pick, MapThenSumSet, MapThenFoldSet

\* A set of numbers has a least one: the minimal-element theorem of
\* well-founded relations takes the place of induction.
LEMMA LeastSize ==
  ASSUME NEW T \in SUBSET Nat, T # {}
  PROVE  \E n \in T : \A m \in T : n <= m
<1> DEFINE R == OpToRel(<, Nat)
<1>1. IsWellFoundedOn(R, Nat)
  BY NatLessThanWellFounded
<1>2. R = {ss \in Nat \X Nat : ss[1] < ss[2]}
  BY DEF OpToRel
<1> HIDE DEF R
<1>3. PICK n \in T : \A m \in T : ~(<<m, n>> \in R)
  BY <1>1, WFMin
<1>4. ASSUME NEW m \in T PROVE n <= m
  <2>1. ~(m < n)
    BY <1>2, <1>3
  <2> QED
    BY <2>1
<1> QED
  BY <1>4

\* One element less.
LEMMA Smaller ==
  ASSUME NEW S, IsFiniteSet(S), NEW x \in S
  PROVE  /\ IsFiniteSet(S \ {x}) /\ Cardinality(S) \in Nat
         /\ Cardinality(S \ {x}) = Cardinality(S) - 1 /\ Cardinality(S) # 0
<1>1. /\ IsFiniteSet(S \ {x}) /\ Cardinality(S) \in Nat
      /\ Cardinality(S \ {x}) = Cardinality(S) - 1
  BY FS_RemoveElement, FS_CardinalityType
<1>2. Cardinality(S \ {x}) \in Nat
  BY <1>1, FS_CardinalityType
<1> QED
  BY <1>1, <1>2

LEMMA PickIn == \A S : S # {} => Pick(S) \in S
BY DEF Pick

LEMMA SumsExist ==
  ASSUME NEW h, NEW S, IsFiniteSet(S)
  PROVE  \E g : g = [s \in SUBSET S |-> SumStep(h, g, s)]
<1> DEFINE D(n) == {s \in SUBSET S : Cardinality(s) <= n}
           Solved(n) == \E g : g = [s \in D(n) |-> SumStep(h, g, s)]
           Bad == {n \in Nat : ~Solved(n)}
<1>1. \A s \in SUBSET S : IsFiniteSet(s) /\ Cardinality(s) \in Nat
  BY FS_Subset, FS_CardinalityType
<1>2. Solved(0)
  <2> DEFINE g == [s \in D(0) |-> 0]
  <2>1. \A s \in D(0) : s = {}
    BY <1>1, FS_EmptySet
  <2>2. \A s \in D(0) : SumStep(h, g, s) = 0
    BY <2>1 DEF SumStep
  <2>3. g = [s \in D(0) |-> SumStep(h, g, s)]
    BY <2>2
  <2> HIDE DEF g
  <2> QED
    BY <2>3
<1>3. ASSUME NEW n \in Nat, Solved(n) PROVE Solved(n + 1)
  <2>1. PICK g : g = [s \in D(n) |-> SumStep(h, g, s)]
    BY <1>3
  <2> DEFINE k == [s \in D(n + 1) |-> IF s \in D(n) THEN g[s] ELSE SumStep(h, g, s)]
  <2>2. ASSUME NEW s \in D(n + 1), s # {}
        PROVE  s \ {Pick(s)} \in D(n) /\ s \ {Pick(s)} \in D(n + 1)
    <3>1. Pick(s) \in s /\ IsFiniteSet(s)
      BY <1>1, <2>2, PickIn
    <3>2. Cardinality(s \ {Pick(s)}) = Cardinality(s) - 1 /\ Cardinality(s) \in Nat
      BY <3>1, Smaller
    <3> QED
      BY <2>2, <3>2
  <2>3. ASSUME NEW s \in D(n + 1) PROVE k[s] = SumStep(h, k, s)
    <3>1. k[s] = SumStep(h, g, s)
      <4>1. CASE s \in D(n)
        <5>1. g[s] = SumStep(h, g, s)
          BY <2>1, <4>1
        <5> QED
          BY <4>1, <5>1
      <4>2. CASE s \notin D(n)
        BY <4>2
      <4> QED
        BY <4>1, <4>2
    <3>2. CASE s = {}
      BY <3>1, <3>2 DEF SumStep
    <3>3. CASE s # {}
      <4>1. s \ {Pick(s)} \in D(n) /\ s \ {Pick(s)} \in D(n + 1)
        BY <2>2, <3>3
      <4>2. k[s \ {Pick(s)}] = g[s \ {Pick(s)}]
        BY <4>1
      <4> HIDE DEF k, D
      <4> QED
        BY <3>1, <3>3, <4>2 DEF SumStep
    <3> QED
      BY <3>2, <3>3
  <2>4. k = [s \in D(n + 1) |-> SumStep(h, k, s)]
    <3>1. k = [s \in D(n + 1) |-> k[s]]
      OBVIOUS
    <3> HIDE DEF k, D
    <3> QED
      BY <2>3, <3>1
  <2> HIDE DEF k
  <2> QED
    BY <2>4
<1> HIDE DEF Solved
<1>4. Bad = {}
  <2> SUFFICES ASSUME Bad # {} PROVE FALSE
    OBVIOUS
  <2>1. PICK n \in Bad : \A m \in Bad : n <= m
    BY LeastSize
  <2>2. n \in Nat /\ n # 0
    BY <1>2
  <2>3. n - 1 \in Nat /\ n - 1 \notin Bad
    BY <2>1, <2>2
  <2>4. Solved((n - 1) + 1)
    BY <1>3, <2>3
  <2> QED
    BY <2>2, <2>4
<1>5. Solved(Cardinality(S))
  BY <1>1, <1>4
<1>6. D(Cardinality(S)) = SUBSET S
  BY <1>1, FS_Subset
<1> QED
  BY <1>5, <1>6 DEF Solved

LEMMA SumsUnfold ==
  ASSUME NEW h, NEW S, IsFiniteSet(S), NEW s \in SUBSET S
  PROVE  Sums(h, S)[s] = SumStep(h, Sums(h, S), s)
<1> DEFINE g == Sums(h, S)
<1>1. g = [t \in SUBSET S |-> SumStep(h, g, t)]
  BY SumsExist DEF Sums
<1> HIDE DEF g
<1>2. g[s] = SumStep(h, g, s)
  BY <1>1
<1> QED
  BY <1>2 DEF g

\* The sum over a set depends on what is added only.
LEMMA SumsAgree ==
  ASSUME NEW h, NEW k, NEW S, NEW T, IsFiniteSet(S), IsFiniteSet(T),
         NEW u \in SUBSET (S \cap T), \A r \in u : h[r].bps = k[r].bps
  PROVE  Sums(h, S)[u] = Sums(k, T)[u]
<1> DEFINE f == Sums(h, S)
           g == Sums(k, T)
           Bad == {n \in Nat : \E s \in SUBSET u : Cardinality(s) = n /\ f[s] # g[s]}
<1>1. \A s \in SUBSET u : IsFiniteSet(s) /\ Cardinality(s) \in Nat
  BY FS_Subset, FS_CardinalityType
<1>2. \A s \in SUBSET u : f[s] = SumStep(h, f, s) /\ g[s] = SumStep(k, g, s)
  BY SumsUnfold
<1> HIDE DEF f, g
<1>3. Bad = {}
  <2> SUFFICES ASSUME Bad # {} PROVE FALSE
    OBVIOUS
  <2>1. PICK n \in Bad : \A m \in Bad : n <= m
    BY LeastSize
  <2>2. PICK s \in SUBSET u : Cardinality(s) = n /\ f[s] # g[s]
    BY <2>1
  <2>3. s # {}
    BY <1>2, <2>2 DEF SumStep
  <2>4. Pick(s) \in s
    BY <2>3, PickIn
  <2>5. /\ Cardinality(s \ {Pick(s)}) = n - 1 /\ Cardinality(s \ {Pick(s)}) \in Nat
        /\ n \in Nat
    BY <1>1, <2>2, <2>4, Smaller
  <2>6. f[s \ {Pick(s)}] = g[s \ {Pick(s)}]
    <3>1. n - 1 \notin Bad
      BY <2>1, <2>5
    <3> QED
      BY <2>5, <3>1
  <2> QED
    BY <1>2, <2>2, <2>3, <2>4, <2>6 DEF SumStep
<1> QED
  BY <1>1, <1>3 DEF f, g

LEMMA TotalSame ==
  ASSUME NEW h, NEW k, NEW S, IsFiniteSet(S), \A r \in S : h[r].bps = k[r].bps
  PROVE  Total(h, S) = Total(k, S)
BY SumsAgree, TotalIsSum

LEMMA TotalUnfolds ==
  ASSUME NEW h, NEW S, IsFiniteSet(S)
  PROVE  Total(h, S) = IF S = {} THEN 0
                       ELSE h[Pick(S)].bps + Total(h, S \ {Pick(S)})
<1>1. Total(h, S) = SumStep(h, Sums(h, S), S)
  BY SumsUnfold, TotalIsSum
<1>2. CASE S = {}
  BY <1>1, <1>2 DEF SumStep
<1>3. CASE S # {}
  <2> DEFINE R == S \ {Pick(S)}
  <2>1. IsFiniteSet(R) /\ R \in SUBSET (S \cap R)
    BY FS_Subset
  <2>2. Sums(h, S)[R] = Sums(h, R)[R]
    BY <2>1, SumsAgree
  <2>3. Sums(h, R)[R] = Total(h, R)
    BY TotalIsSum
  <2> QED
    BY <1>1, <1>3, <2>2, <2>3 DEF SumStep
<1> QED
  BY <1>2, <1>3

LEMMA TotalNat ==
  ASSUME NEW h, NEW S, IsFiniteSet(S), \A r \in S : h[r].bps \in Nat
  PROVE  Total(h, S) \in Nat
<1> DEFINE Bad == {n \in Nat : \E s \in SUBSET S : Cardinality(s) = n /\ Total(h, s) \notin Nat}
<1>1. \A s \in SUBSET S : IsFiniteSet(s) /\ Cardinality(s) \in Nat
  BY FS_Subset, FS_CardinalityType
<1>2. Bad = {}
  <2> SUFFICES ASSUME Bad # {} PROVE FALSE
    OBVIOUS
  <2>1. PICK n \in Bad : \A m \in Bad : n <= m
    BY LeastSize
  <2>2. PICK s \in SUBSET S : Cardinality(s) = n /\ Total(h, s) \notin Nat
    BY <2>1
  <2>3. Total(h, s) = IF s = {} THEN 0 ELSE h[Pick(s)].bps + Total(h, s \ {Pick(s)})
    BY <1>1, TotalUnfolds
  <2>4. s # {} /\ Pick(s) \in s
    BY <2>2, <2>3, PickIn
  <2>5. /\ Cardinality(s \ {Pick(s)}) = n - 1 /\ Cardinality(s \ {Pick(s)}) \in Nat
        /\ n \in Nat
    BY <1>1, <2>2, <2>4, Smaller
  <2>6. Total(h, s \ {Pick(s)}) \in Nat
    <3>1. n - 1 \notin Bad
      BY <2>1, <2>5
    <3> QED
      BY <2>5, <3>1
  <2>7. h[Pick(s)].bps \in Nat
    BY <2>4
  <2> QED
    BY <2>2, <2>3, <2>4, <2>6, <2>7
<1> QED
  BY <1>1, <1>2

\* Any element may be taken first.
LEMMA TotalTakes ==
  ASSUME NEW h, NEW S, IsFiniteSet(S), \A r \in S : h[r].bps \in Nat, NEW y \in S
  PROVE  Total(h, S) = h[y].bps + Total(h, S \ {y})
<1> DEFINE Wrong(s) == \E x \in s : Total(h, s) # h[x].bps + Total(h, s \ {x})
           Bad == {n \in Nat : \E s \in SUBSET S : Cardinality(s) = n /\ Wrong(s)}
<1>1. \A s \in SUBSET S : IsFiniteSet(s) /\ Cardinality(s) \in Nat /\ Total(h, s) \in Nat
  BY FS_Subset, FS_CardinalityType, TotalNat
<1>2. Bad = {}
  <2> SUFFICES ASSUME Bad # {} PROVE FALSE
    OBVIOUS
  <2>1. PICK n \in Bad : \A m \in Bad : n <= m
    BY LeastSize
  <2>2. PICK s \in SUBSET S : Cardinality(s) = n /\ Wrong(s)
    BY <2>1
  <2>3. PICK x \in s : Total(h, s) # h[x].bps + Total(h, s \ {x})
    BY <2>2
  <2> DEFINE z == Pick(s)
             r == s \ {z}
             q == s \ {x}
             o == r \ {x}
  <2>4. z \in s /\ s # {}
    BY PickIn
  <2>5. Total(h, s) = h[z].bps + Total(h, r)
    BY <1>1, <2>4, TotalUnfolds
  <2> HIDE DEF z
  <2>6. z # x
    BY <2>3, <2>5
  <2>7. /\ Cardinality(r) = n - 1 /\ Cardinality(r) \in Nat /\ n \in Nat
        /\ Cardinality(q) = n - 1 /\ r \in SUBSET S /\ q \in SUBSET S /\ o \in SUBSET S
    BY <1>1, <2>2, <2>4, Smaller
  <2>8. ~Wrong(r) /\ ~Wrong(q)
    <3>1. n - 1 \notin Bad
      BY <2>1, <2>7
    <3> QED
      BY <2>7, <3>1
  <2>9. Total(h, r) = h[x].bps + Total(h, o)
    BY <2>6, <2>8
  <2>10. Total(h, q) = h[z].bps + Total(h, q \ {z})
    BY <2>4, <2>6, <2>8
  <2>11. Total(h, q \ {z}) = Total(h, o)
    <3>1. q \ {z} = o
      OBVIOUS
    <3> QED
      BY <3>1
  <2>13. Total(h, s) # h[x].bps + Total(h, q)
    BY <2>3
  <2>12. /\ h[x].bps \in Nat /\ h[z].bps \in Nat /\ Total(h, o) \in Nat
         /\ Total(h, r) \in Nat /\ Total(h, q) \in Nat /\ Total(h, s) \in Nat
    BY <1>1, <2>4, <2>7
  <2> HIDE DEF r, q, o
  <2> QED
    BY <2>5, <2>9, <2>10, <2>11, <2>12, <2>13
<1> QED
  BY <1>1, <1>2

LEMMA TotalZero ==
  ASSUME NEW h, NEW S, IsFiniteSet(S), \A r \in S : h[r].bps = 0
  PROVE  Total(h, S) = 0
<1> DEFINE Bad == {n \in Nat : \E s \in SUBSET S : Cardinality(s) = n /\ Total(h, s) # 0}
<1>1. \A s \in SUBSET S : IsFiniteSet(s) /\ Cardinality(s) \in Nat
  BY FS_Subset, FS_CardinalityType
<1>2. Bad = {}
  <2> SUFFICES ASSUME Bad # {} PROVE FALSE
    OBVIOUS
  <2>1. PICK n \in Bad : \A m \in Bad : n <= m
    BY LeastSize
  <2>2. PICK s \in SUBSET S : Cardinality(s) = n /\ Total(h, s) # 0
    BY <2>1
  <2>3. Total(h, s) = IF s = {} THEN 0 ELSE h[Pick(s)].bps + Total(h, s \ {Pick(s)})
    BY <1>1, TotalUnfolds
  <2>4. s # {} /\ Pick(s) \in s
    BY <2>2, <2>3, PickIn
  <2>5. /\ Cardinality(s \ {Pick(s)}) = n - 1 /\ Cardinality(s \ {Pick(s)}) \in Nat
        /\ n \in Nat
    BY <1>1, <2>2, <2>4, Smaller
  <2>6. Total(h, s \ {Pick(s)}) = 0
    <3>1. n - 1 \notin Bad
      BY <2>1, <2>5
    <3> QED
      BY <2>5, <3>1
  <2> QED
    BY <2>2, <2>3, <2>4, <2>6
<1> QED
  BY <1>1, <1>2

-----------------------------------------------------------------------------
(* The running totals.  An account is exact when each class's total is the   *)
(* sum of what its entries record, and then a step on it is a step of        *)
(* Admission.                                                                *)

OfClass(h, c) == {r \in Stream : h[r].cls = c}

OthersOf(h, s, c) == Total(h, {r \in Stream \ {s} : h[r].cls = c})

Exact(acc) ==
  /\ acc \in Account
  /\ \A c \in Class : /\ acc.admitted[c] = Total(acc.entry, OfClass(acc.entry, c))
                      /\ \E k \in CapChoice : acc.admitted[c] <= k

\* What the entry of s adds to its class, the others' part staying as it is.
LEMMA OthersSame ==
  ASSUME IsFiniteSet(Stream), NEW h, NEW k, NEW s \in Stream, NEW c,
         \A r \in Stream \ {s} : h[r] = k[r]
  PROVE  OthersOf(h, s, c) = OthersOf(k, s, c)
<1> DEFINE S == {r \in Stream \ {s} : h[r].cls = c}
           T == {r \in Stream \ {s} : k[r].cls = c}
<1>1. S = T
  OBVIOUS
<1>2. IsFiniteSet(S) /\ \A r \in S : h[r].bps = k[r].bps
  BY FS_Subset
<1>3. Total(h, S) = Total(k, S)
  BY <1>2, TotalSame
<1> QED
  BY <1>1, <1>3 DEF OthersOf

LEMMA ClassTotal ==
  ASSUME IsFiniteSet(Stream), NEW h \in [Stream -> Value0], NEW s \in Stream, NEW c \in Class
  PROVE  /\ Total(h, OfClass(h, c)) \in Nat /\ OthersOf(h, s, c) \in Nat
         /\ h[s].cls = c => Total(h, OfClass(h, c)) = h[s].bps + OthersOf(h, s, c)
         /\ h[s].cls # c => Total(h, OfClass(h, c)) = OthersOf(h, s, c)
<1> DEFINE S == OfClass(h, c)
           R == {r \in Stream \ {s} : h[r].cls = c}
<1>1. /\ IsFiniteSet(S) /\ IsFiniteSet(R) /\ \A r \in Stream : h[r].bps \in Nat
  BY FS_Subset, ValueType, BandwidthAssumption DEF OfClass
<1>2. Total(h, S) \in Nat /\ Total(h, R) \in Nat
  BY <1>1, TotalNat DEF OfClass
<1>3. CASE h[s].cls = c
  <2>1. s \in S /\ S \ {s} = R
    BY <1>3 DEF OfClass
  <2> HIDE DEF R, S
  <2>2. Total(h, S) = h[s].bps + Total(h, S \ {s})
    <3>1. \A r \in S : h[r].bps \in Nat
      BY <1>1 DEF S, OfClass
    <3> QED
      BY <1>1, <2>1, <3>1, TotalTakes
  <2> QED
    BY <1>2, <1>3, <2>1, <2>2 DEF OthersOf, R, S
<1>4. CASE h[s].cls # c
  <2>1. S = R
    BY <1>4 DEF OfClass
  <2> QED
    BY <1>2, <1>4, <2>1 DEF OthersOf
<1> QED
  BY <1>3, <1>4

LEMMA ReleaseExact ==
  ASSUME IsFiniteSet(Stream), NEW acc, Exact(acc), NEW s \in Stream
  PROVE  LET n == Release(acc, s) IN
         /\ Exact(n) /\ n.cap = acc.cap
         /\ n.entry = [acc.entry EXCEPT ![s] = NoValue]
         /\ \A c \in Class : n.admitted[c] = OthersOf(acc.entry, s, c)
<1> DEFINE r == acc.entry[s]
           n == Release(acc, s)
           h == acc.entry
<1>1. acc \in Account /\ h \in [Stream -> Value0]
  BY DEF Exact, Account
<1>2. n \in Account /\ n.entry = [h EXCEPT ![s] = NoValue] /\ n.cap = acc.cap
  <2>1. n \in Account /\ n.entry = [h EXCEPT ![s] = NoValue]
    BY <1>1, ReleaseType, ReleaseEntry
  <2>2. n.cap = acc.cap
    BY <1>1 DEF Release, Account
  <2> QED
    BY <2>1, <2>2
<1>3. r \in Value0 /\ r.cls \in Class /\ r.bps \in Nat
  BY <1>1, ValueType, BandwidthAssumption
<1>4. ASSUME NEW c \in Class
      PROVE  /\ n.admitted[c] = OthersOf(h, s, c) /\ n.admitted[c] <= acc.admitted[c]
             /\ n.admitted[c] = Total(n.entry, OfClass(n.entry, c))
  <2>1. acc.admitted[c] = Total(h, OfClass(h, c)) /\ acc.admitted[c] \in Nat
    BY <1>1, BandwidthAssumption DEF Exact, Account
  <2>2. n.admitted[c] = IF r.cls = c THEN IF acc.admitted[c] > r.bps THEN acc.admitted[c] - r.bps
                                          ELSE 0
                        ELSE acc.admitted[c]
    BY <1>1, <1>3 DEF Release, Account
  <2>3. /\ OthersOf(h, s, c) \in Nat
        /\ r.cls = c => acc.admitted[c] = r.bps + OthersOf(h, s, c)
        /\ r.cls # c => acc.admitted[c] = OthersOf(h, s, c)
    BY <1>1, <2>1, ClassTotal
  <2> HIDE DEF r, n, h
  <2>4. n.admitted[c] = OthersOf(h, s, c) /\ n.admitted[c] <= acc.admitted[c]
    BY <1>3, <2>1, <2>2, <2>3
  <2>5. OthersOf(n.entry, s, c) = OthersOf(h, s, c)
    <3>1. \A u \in Stream \ {s} : n.entry[u] = h[u]
      BY <1>1, <1>2
    <3> QED
      BY <3>1, OthersSame
  <2>6. n.entry[s] = NoValue /\ n.entry \in [Stream -> Value0]
    BY <1>1, <1>2 DEF Value0
  <2>7. Total(n.entry, OfClass(n.entry, c)) = OthersOf(n.entry, s, c)
    <3>1. CASE n.entry[s].cls = c
      <4>1. Total(n.entry, OfClass(n.entry, c)) = n.entry[s].bps + OthersOf(n.entry, s, c)
        BY <2>6, <3>1, ClassTotal
      <4>2. n.entry[s].bps = 0 /\ OthersOf(n.entry, s, c) \in Nat
        BY <2>3, <2>5, <2>6 DEF NoValue
      <4> QED
        BY <4>1, <4>2
    <3>2. CASE n.entry[s].cls # c
      BY <2>6, <3>2, ClassTotal
    <3> QED
      BY <3>1, <3>2
  <2> QED
    BY <2>4, <2>5, <2>7 DEF n, h
<1> HIDE DEF n, h
<1>5. ASSUME NEW c \in Class PROVE \E k \in CapChoice : n.admitted[c] <= k
  <2>1. PICK k \in CapChoice : acc.admitted[c] <= k
    BY DEF Exact
  <2>2. n.admitted[c] \in Int /\ acc.admitted[c] \in Int /\ k \in Int
    BY <1>1, <1>2, BandwidthAssumption DEF Account
  <2> QED
    BY <1>4, <2>1, <2>2
<1>6. Exact(n)
  BY <1>2, <1>4, <1>5 DEF Exact
<1> QED
  BY <1>2, <1>4, <1>6 DEF n, h

\* No request together with what fits under a cap overflows the word.
NoWrap == \A v \in Value : \A k \in CapChoice : v.bps + k < Word

LEMMA FitsUnwrapped ==
  ASSUME NoWrap, NEW acc, Exact(acc), NEW v \in Value
  PROVE  /\ v.cls \in Class /\ v.bps \in Nat /\ acc.admitted[v.cls] \in Nat
         /\ (acc.admitted[v.cls] + v.bps) % Word = acc.admitted[v.cls] + v.bps
<1>1. v.cls \in Class /\ v.bps \in Nat
  BY ValueType, BandwidthAssumption DEF Value0
<1>2. PICK k \in CapChoice : acc.admitted[v.cls] <= k
  BY <1>1 DEF Exact
<1>3. acc.admitted[v.cls] \in Nat /\ k \in Nat /\ Word \in Nat \ {0}
  BY <1>1, BandwidthAssumption DEF Exact, Account
<1>4. acc.admitted[v.cls] + v.bps < Word
  BY <1>1, <1>2, <1>3 DEF NoWrap
<1> QED
  BY <1>1, <1>3, <1>4

LEMMA ChargeExact ==
  ASSUME IsFiniteSet(Stream), NoWrap, NEW acc, Exact(acc), NEW s \in Stream,
         NEW v \in Value, acc.entry[s] = NoValue
  PROVE  LET n == Charge(acc, s, v)
             fits == acc.cap # 0 /\ OthersOf(acc.entry, s, v.cls) + v.bps <= acc.cap
         IN  /\ Exact(n) /\ n.cap = acc.cap
             /\ fits  => n.entry = [acc.entry EXCEPT ![s] = v]
             /\ ~fits => n.entry = acc.entry
<1> DEFINE h == acc.entry
           n == Charge(acc, s, v)
           fits == acc.cap # 0 /\ OthersOf(h, s, v.cls) + v.bps <= acc.cap
           sum == acc.admitted[v.cls] + v.bps
<1>1. acc \in Account /\ h \in [Stream -> Value0] /\ h[s] = NoValue
  BY DEF Exact, Account
<1>2. v.cls \in Class /\ v.bps \in Nat /\ acc.admitted[v.cls] \in Nat /\ sum % Word = sum
  BY FitsUnwrapped
<1>3. ASSUME NEW c \in Class PROVE acc.admitted[c] = OthersOf(h, s, c)
  <2>1. acc.admitted[c] = Total(h, OfClass(h, c))
    BY DEF Exact
  <2>2. NoValue.bps = 0 /\ OthersOf(h, s, c) \in Nat
    BY <1>1, ClassTotal DEF NoValue
  <2>3. /\ NoValue.cls = c => Total(h, OfClass(h, c)) = NoValue.bps + OthersOf(h, s, c)
        /\ NoValue.cls # c => Total(h, OfClass(h, c)) = OthersOf(h, s, c)
    BY <1>1, ClassTotal
  <2> QED
    BY <2>1, <2>2, <2>3
<1>4. Fits(acc, v) <=> fits
  BY <1>2, <1>3 DEF Fits
<1>5. CASE ~fits
  <2>1. n = acc
    BY <1>4, <1>5 DEF Charge
  <2> QED
    BY <1>5, <2>1
<1>6. CASE fits
  <2> DEFINE g == [h EXCEPT ![s] = v]
             m == [acc EXCEPT !.admitted[v.cls] = sum, !.entry[s] = v]
  <2>1. n = m
    BY <1>2, <1>4, <1>6 DEF Charge
  <2>2. g \in [Stream -> Value0] /\ g[s] = v /\ \A r \in Stream \ {s} : g[r] = h[r]
    BY <1>1 DEF Value0
  <2>3. sum <= acc.cap /\ acc.cap \in CapChoice
    BY <1>1, <1>2, <1>3, <1>6 DEF Account
  <2>4. sum \in 0..Word - 1
    <3>1. acc.cap \in 0..Word - 1
      BY <2>3, BandwidthAssumption
    <3>2. sum \in Nat
      BY <1>2
    <3> HIDE DEF sum
    <3> QED
      BY <2>3, <3>1, <3>2, BandwidthAssumption
  <2>5. /\ m.cap = acc.cap /\ m.entry = g
        /\ m.admitted = [acc.admitted EXCEPT ![v.cls] = sum]
    <3> HIDE DEF sum
    <3> QED
      BY <1>1 DEF Account
  <2>6. m \in Account
    <3>1. [acc.admitted EXCEPT ![v.cls] = sum] \in [Class -> 0..Word - 1]
      BY <1>1, <2>4 DEF Account
    <3>2. m = [acc EXCEPT !.admitted = [acc.admitted EXCEPT ![v.cls] = sum], !.entry = g]
      <4> HIDE DEF sum
      <4> QED
        BY <1>1 DEF Account
    <3> HIDE DEF m, g, sum
    <3> QED
      BY <1>1, <2>2, <2>3, <3>1, <3>2 DEF Account
  <2> HIDE DEF m, g
  <2>7. ASSUME NEW c \in Class PROVE m.admitted[c] = Total(g, OfClass(g, c))
    <3>1. OthersOf(g, s, c) = OthersOf(h, s, c)
      BY <2>2, OthersSame
    <3>2. /\ v.cls = c => Total(g, OfClass(g, c)) = v.bps + OthersOf(g, s, c)
          /\ v.cls # c => Total(g, OfClass(g, c)) = OthersOf(g, s, c)
      BY <2>2, ClassTotal
    <3>3. m.admitted[c] = IF v.cls = c THEN sum ELSE acc.admitted[c]
      BY <1>1, <2>5 DEF Account
    <3>4. acc.admitted[c] = OthersOf(h, s, c) /\ OthersOf(h, s, c) \in Nat
      BY <1>1, <1>3, ClassTotal
    <3> QED
      BY <1>2, <3>1, <3>2, <3>3, <3>4
  <2>8. ASSUME NEW c \in Class PROVE \E k \in CapChoice : m.admitted[c] <= k
    <3>1. CASE v.cls = c
      <4>1. m.admitted[c] = sum
        BY <1>1, <2>5, <3>1 DEF Account
      <4> HIDE DEF sum
      <4> QED
        BY <2>3, <4>1
    <3>2. CASE v.cls # c
      <4>1. m.admitted[c] = acc.admitted[c]
        BY <1>1, <2>5, <3>2 DEF Account
      <4> QED
        BY <4>1 DEF Exact
    <3> QED
      BY <3>1, <3>2
  <2>9. Exact(m)
    BY <2>5, <2>6, <2>7, <2>8 DEF Exact
  <2> QED
    BY <1>6, <2>1, <2>5, <2>9 DEF g
<1> QED
  BY <1>5, <1>6

\* What Admission allows one event to make of an account, about stream s.
Granted(acc, s, v) ==
  IF acc.cap # 0 /\ OthersOf(acc.entry, s, v.cls) + v.bps <= acc.cap THEN v ELSE NoValue

Move(acc, n, s) ==
  \/ n = acc
  \/ n.cap = acc.cap /\ n.entry = [acc.entry EXCEPT ![s] = NoValue]
  \/ /\ n.cap = acc.cap
     /\ \E v \in Value : /\ acc.entry[s] # v
                         /\ n.entry = [acc.entry EXCEPT ![s] = Granted(acc, s, v)]

\* The account is determined by the entries it is the sum of.
LEMMA ExactSame ==
  ASSUME NEW acc, NEW n, Exact(acc), Exact(n), n.cap = acc.cap, n.entry = acc.entry
  PROVE  n = acc
<1>1. acc \in Account /\ n \in Account
  BY DEF Exact
<1>2. \A c \in Class : n.admitted[c] = acc.admitted[c]
  BY DEF Exact
<1>3. n.admitted = acc.admitted
  BY <1>1, <1>2 DEF Account
<1> QED
  BY <1>1, <1>3 DEF Account

LEMMA UpdateMoves ==
  ASSUME IsFiniteSet(Stream), NoWrap, NEW acc, Exact(acc), NEW s \in Stream, NEW v \in Value
  PROVE  LET n == Update(acc, s, v) IN
         /\ Exact(n) /\ n.cap = acc.cap /\ Move(acc, n, s)
         /\ acc.entry[s] # v => n.entry = [acc.entry EXCEPT ![s] = Granted(acc, s, v)]
<1> DEFINE n == Update(acc, s, v)
           r == Release(acc, s)
           h == acc.entry
<1>1. CASE h[s] = v
  BY <1>1 DEF Update, Move
<1>2. CASE h[s] # v
  <2>1. /\ Exact(r) /\ r.cap = acc.cap /\ r.entry = [h EXCEPT ![s] = NoValue]
        /\ h \in [Stream -> Value0] /\ v.cls \in Class
    BY ReleaseExact, ValueType DEF Exact, Account, Value0
  <2>2. n = Charge(r, s, v)
    BY <1>2 DEF Update
  <2> HIDE DEF n, r, h
  <2>3. r.entry[s] = NoValue /\ \A u \in Stream \ {s} : r.entry[u] = h[u]
    BY <2>1
  <2>4. OthersOf(r.entry, s, v.cls) = OthersOf(h, s, v.cls)
    BY <2>3, OthersSame
  <2> DEFINE fits == r.cap # 0 /\ OthersOf(r.entry, s, v.cls) + v.bps <= r.cap
  <2>5. /\ Exact(n) /\ n.cap = r.cap
        /\ fits  => n.entry = [r.entry EXCEPT ![s] = v]
        /\ ~fits => n.entry = r.entry
    <3>1. Exact(r) /\ r.entry[s] = NoValue
      BY <2>1, <2>3
    <3>2. LET o == Charge(r, s, v) IN
          /\ Exact(o) /\ o.cap = r.cap
          /\ fits  => o.entry = [r.entry EXCEPT ![s] = v]
          /\ ~fits => o.entry = r.entry
      BY <3>1, ChargeExact
    <3> QED
      BY <2>2, <3>2
  <2>6. Granted(acc, s, v) = IF fits THEN v ELSE NoValue
    BY <2>1, <2>4 DEF Granted, h
  <2> HIDE DEF fits
  <2>7. n.entry = [h EXCEPT ![s] = Granted(acc, s, v)]
    BY <2>1, <2>5, <2>6
  <2> QED
    BY <1>2, <2>1, <2>5, <2>7 DEF Move, n, h
<1> QED
  BY <1>1, <1>2

LEMMA ReleaseMoves ==
  ASSUME IsFiniteSet(Stream), NEW acc, Exact(acc), NEW s \in Stream
  PROVE  LET n == Release(acc, s)
             o == Release(n, s)
         IN  Exact(n) /\ Move(acc, n, s) /\ Exact(o) /\ Move(acc, o, s)
<1> DEFINE n == Release(acc, s)
           o == Release(n, s)
<1>1. Exact(n) /\ n.cap = acc.cap /\ n.entry = [acc.entry EXCEPT ![s] = NoValue]
  BY ReleaseExact
<1> HIDE DEF n
<1>2. Exact(o) /\ o.cap = n.cap /\ o.entry = [n.entry EXCEPT ![s] = NoValue]
  BY <1>1, ReleaseExact
<1> HIDE DEF o
<1>3. o.entry = [acc.entry EXCEPT ![s] = NoValue]
  BY <1>1, <1>2
<1> QED
  BY <1>1, <1>2, <1>3 DEF Move, n, o

\* A release and a new charge in one event, where the value of a registration
\* changes, are one step of the account as well.
LEMMA RechargeMoves ==
  ASSUME IsFiniteSet(Stream), NoWrap, NEW acc, Exact(acc), NEW s \in Stream, NEW v \in Value
  PROVE  LET n == Update(Release(acc, s), s, v) IN Exact(n) /\ Move(acc, n, s)
<1> DEFINE r == Release(acc, s)
           n == Update(r, s, v)
           h == acc.entry
<1>1. /\ Exact(r) /\ r.cap = acc.cap /\ r.entry = [h EXCEPT ![s] = NoValue]
      /\ h \in [Stream -> Value0]
  BY ReleaseExact DEF Exact, Account
<1> HIDE DEF r
<1>2. r.entry[s] = NoValue /\ v # NoValue /\ \A u \in Stream \ {s} : r.entry[u] = h[u]
  BY <1>1, RealValue
<1>3. Exact(n) /\ n.cap = r.cap /\ n.entry = [r.entry EXCEPT ![s] = Granted(r, s, v)]
  BY <1>1, <1>2, UpdateMoves
<1> HIDE DEF n, h
<1>4. OthersOf(r.entry, s, v.cls) = OthersOf(h, s, v.cls)
  BY <1>2, OthersSame
<1>5. Granted(r, s, v) = Granted(acc, s, v)
  BY <1>1, <1>4 DEF Granted, h
<1>6. n.entry = [h EXCEPT ![s] = Granted(acc, s, v)]
  BY <1>1, <1>3, <1>5
<1>7. CASE h[s] # v
  BY <1>1, <1>3, <1>6, <1>7 DEF Move, h, n, r
<1>8. CASE h[s] = v
  <2>1. CASE Granted(acc, s, v) = NoValue
    BY <1>1, <1>3, <1>6, <2>1 DEF Move, h, n, r
  <2>2. CASE Granted(acc, s, v) = v
    <3>1. n.entry = h
      BY <1>1, <1>6, <1>8, <2>2
    <3>2. n = acc
      BY <1>1, <1>3, <3>1, ExactSame DEF h
    <3> QED
      BY <1>3, <3>2 DEF Move, n, r
  <2> QED
    BY <2>1, <2>2 DEF Granted
<1> QED
  BY <1>7, <1>8

\* One event of the MAP moves the account of the port it declares on.
OneMove(m, n, y, s) ==
  /\ \A z \in Port \ {y} : n.acct[z] = m.acct[z]
  /\ Exact(m.acct[y]) => Exact(n.acct[y]) /\ Move(m.acct[y], n.acct[y], s)

LEMMA SameMove ==
  ASSUME NEW m, NEW n, NEW y, NEW s, n.acct = m.acct
  PROVE  OneMove(m, n, y, s)
BY DEF OneMove, Move

LEMMA PropagateAccount ==
  ASSUME NEW m \in Bridge, NEW p \in Port, NEW s \in Stream, NEW t \in Type,
         NEW v \in Value, NEW over \in BOOLEAN
  PROVE  LET n == Propagate(m, p, s, t, v, over)
             y == Other(p)
         IN  /\ t = "fail" => n.acct = m.acct
             /\ t # "fail" =>
                  /\ \A z \in Port \ {y} : n.acct[z] = m.acct[z]
                  /\ n.acct[y] \in {Release(m.acct[y], s), Update(m.acct[y], s, v)}
<1> DEFINE n == Propagate(m, p, s, t, v, over)
           y == Other(p)
           acc == IF y \in Wifi /\ v.cls = "A" THEN Release(m.acct[y], s)
                  ELSE Update(m.acct[y], s, v)
           a == [m EXCEPT !.acct[y] = acc]
<1>1. y \in Port /\ m.acct[y] \in Account
  BY OtherPort DEF Bridge
<1>2. acc \in Account /\ acc \in {Release(m.acct[y], s), Update(m.acct[y], s, v)}
  BY <1>1, ReleaseType, UpdateType
<1>3. CASE t = "fail"
  <2>1. n = DeclareFailed(m, y, s, v)
    BY <1>3 DEF Propagate
  <2> HIDE DEF n, y
  <2> QED
    BY <1>1, <1>3, <2>1, DeclareFailedType DEF n, y
<1>4. CASE t # "fail"
  <2>1. n = DeclareFailed(a, y, s, v) \/ n = DeclareAdvertise(a, y, s, v, over)
    BY <1>4 DEF Propagate
  <2> HIDE DEF n, acc, y
  <2>2. a \in Bridge /\ a.acct[y] = acc /\ \A z \in Port \ {y} : a.acct[z] = m.acct[z]
    BY <1>1, <1>2 DEF Bridge
  <2> HIDE DEF a
  <2>3. n.acct = a.acct
    <3>1. DeclareFailed(a, y, s, v).acct = a.acct
      BY <1>1, <2>2, DeclareFailedType
    <3>2. DeclareAdvertise(a, y, s, v, over).acct = a.acct
      BY <1>1, <2>2, DeclareAdvertiseType
    <3> QED
      BY <2>1, <3>1, <3>2
  <2> QED
    BY <1>2, <1>4, <2>2, <2>3 DEF n, y
<1> QED
  BY <1>3, <1>4

LEMMA OnTalkerChangeAccount ==
  ASSUME IsFiniteSet(Stream), NoWrap,
         NEW m \in Bridge, NEW p \in Port, NEW s \in Stream, NEW t \in Type,
         NEW v \in Value0, NEW tr, NEW over \in BOOLEAN,
         tr = "deregister" \/ v \in Value
  PROVE  LET n == OnTalkerChange(m, p, s, t, v, tr, over) IN
         OneMove(m, n, Other(p), s) /\ (t = "fail" => n.acct = m.acct)
<1> DEFINE k == <<p, s, t>>
           y == Other(p)
           changed  == tr = "none" /\ Changed(m, k, v)
           withdraw == tr = "deregister" \/ changed
           release  == withdraw /\ m.prop[k] # NoValue /\ t = "adv"
           m1 == IF release THEN [m EXCEPT !.acct[y] = Release(@, s)] ELSE m
           m2 == IF withdraw THEN WithdrawTalker(m1, y, s) ELSE m1
           q  == Propagate(m2, p, s, t, v, over)
           n  == OnTalkerChange(m, p, s, t, v, tr, over)
           A  == m.acct[y]
<1>1. y \in Port /\ k \in Key /\ A \in Account
  BY OtherPort, KeyType DEF Bridge
<1>2. /\ m1 \in Bridge /\ \A z \in Port \ {y} : m1.acct[z] = m.acct[z]
      /\ m1.acct[y] \in {A, Release(A, s)} /\ (t = "fail" => m1.acct = m.acct)
  <2>1. CASE release
    <3>1. m1 = [m EXCEPT !.acct[y] = Release(A, s)]
      BY <2>1
    <3>2. Release(A, s) \in Account
      BY <1>1, ReleaseType
    <3>3. t # "fail"
      BY <2>1
    <3> DEFINE R == Release(A, s)
    <3> HIDE DEF m1, R, y
    <3>4. m1 = [m EXCEPT !.acct[y] = R]
      BY <3>1 DEF R
    <3>5. m1 \in Bridge /\ m1.acct[y] = R /\ \A z \in Port \ {y} : m1.acct[z] = m.acct[z]
      BY <1>1, <3>2, <3>4 DEF Bridge, R
    <3> QED
      BY <3>3, <3>5 DEF R
  <2>2. CASE ~release
    BY <2>2
  <2> QED
    BY <2>1, <2>2
<1> HIDE DEF m1
<1>3. m2 \in Bridge /\ m2.acct = m1.acct
  BY <1>1, <1>2, WithdrawTalkerType
<1> HIDE DEF m2
<1>4. \/ n = [q EXCEPT !.prop[k] = v] /\ v \in Value
      \/ n = [m2 EXCEPT !.prop[k] = NoValue]
      \/ n = m2
  <2>1. CASE tr = "register" \/ changed
    BY <2>1 DEF OnTalkerChange, m2, m1
  <2>2. CASE ~(tr = "register" \/ changed)
    BY <2>2 DEF OnTalkerChange, m2, m1
  <2> QED
    BY <2>1, <2>2
<1>5. q \in Bridge \/ v \notin Value
  BY <1>3, PropagateType
<1>6. CASE n.acct = m2.acct
  <2>1. n.acct[y] \in {A, Release(A, s)}
    BY <1>2, <1>3, <1>6
  <2>2. Exact(A) => Exact(n.acct[y]) /\ Move(A, n.acct[y], s)
    <3> HIDE DEF A, n
    <3> QED
      BY <2>1, ReleaseMoves DEF Move
  <2> HIDE DEF n
  <2> QED
    BY <1>2, <1>3, <1>6, <2>2 DEF OneMove, n
<1>7. CASE n.acct = q.acct /\ v \in Value
  <2>1. /\ t = "fail" => q.acct = m2.acct
        /\ t # "fail" => /\ \A z \in Port \ {y} : q.acct[z] = m2.acct[z]
                         /\ q.acct[y] \in {Release(m2.acct[y], s), Update(m2.acct[y], s, v)}
    BY <1>3, <1>7, PropagateAccount
  <2>2. CASE t = "fail"
    BY <1>6, <1>7, <2>1, <2>2
  <2>3. CASE t # "fail"
    <3> DEFINE N == n.acct[y]
    <3>1. N \in {Release(A, s), Update(A, s, v), Release(Release(A, s), s),
                 Update(Release(A, s), s, v)}
      <4> HIDE DEF q, n, A
      <4> QED
        BY <1>2, <1>3, <1>7, <2>1, <2>3
    <3>2. Exact(A) => Exact(N) /\ Move(A, N, s)
      <4> HIDE DEF A, N
      <4>1. ASSUME Exact(A) PROVE /\ Exact(Update(A, s, v)) /\ Move(A, Update(A, s, v), s)
        BY <1>7, <4>1, UpdateMoves
      <4>2. ASSUME Exact(A)
            PROVE /\ Exact(Release(A, s)) /\ Move(A, Release(A, s), s)
                  /\ Exact(Release(Release(A, s), s)) /\ Move(A, Release(Release(A, s), s), s)
        BY <4>2, ReleaseMoves
      <4>3. ASSUME Exact(A)
            PROVE /\ Exact(Update(Release(A, s), s, v))
                  /\ Move(A, Update(Release(A, s), s, v), s)
        BY <1>7, <4>3, RechargeMoves
      <4> QED
        BY <3>1, <4>1, <4>2, <4>3
    <3>3. \A z \in Port \ {y} : n.acct[z] = m.acct[z]
      <4> HIDE DEF n, q
      <4> QED
        BY <1>2, <1>3, <1>7, <2>1, <2>3
    <3> HIDE DEF n
    <3> QED
      BY <2>3, <3>2, <3>3 DEF OneMove, n
  <2> QED
    BY <2>2, <2>3
<1>8. n.acct = m2.acct \/ (n.acct = q.acct /\ v \in Value)
  <2> HIDE DEF n, q
  <2> QED
    BY <1>3, <1>4, <1>5 DEF Bridge
<1> QED
  BY <1>6, <1>7, <1>8

LEMMA DisplaceAccount ==
  ASSUME IsFiniteSet(Stream), NoWrap,
         NEW m \in Bridge, NEW p \in Port, NEW s \in Stream, NEW t \in Type
  PROVE  LET d == DisplaceTwin(m, p, s, t) IN
         OneMove(m, d, Other(p), s) /\ (t = "adv" => d.acct = m.acct)
<1> DEFINE kt == <<p, s, Twin(t)>>
           yes == TRUE
           n  == OnTalkerChange(m, p, s, Twin(t), m.val[kt], "deregister", yes)
           d  == DisplaceTwin(m, p, s, t)
<1>1. kt \in Key /\ Twin(t) \in Type /\ (t = "adv" => Twin(t) = "fail")
  BY KeyType DEF Twin, Type
<1>2. m.val[kt] \in Value0 /\ yes \in BOOLEAN
  BY <1>1 DEF Bridge
<1> HIDE DEF yes
<1>3. OneMove(m, n, Other(p), s) /\ (t = "adv" => n.acct = m.acct)
  BY <1>1, <1>2, OnTalkerChangeAccount
<1>4. n \in Bridge
  BY <1>1, <1>2, OnTalkerChangeType DEF TalkerChange, MapChange
<1>5. d = m \/ d = [n EXCEPT !.reg[kt] = "MT"]
  BY DEF DisplaceTwin, yes
<1> HIDE DEF n, d
<1>6. d.acct = m.acct \/ d.acct = n.acct
  BY <1>4, <1>5 DEF Bridge
<1>7. CASE d.acct = m.acct
  BY <1>7, SameMove DEF d
<1>8. CASE d.acct = n.acct
  BY <1>3, <1>8 DEF OneMove, d
<1> QED
  BY <1>6, <1>7, <1>8

-----------------------------------------------------------------------------
(* The refinement of Admission by every port's account. *)

AllExact(m) == \A y \in Port : Exact(m.acct[y])

AccountStep(acc, n) ==
  \/ \E s \in Stream : Move(acc, n, s)
  \/ \E c \in CapChoice : n.cap = c /\ n.entry = acc.entry

AccountsStep ==
  /\ AllExact(b')
  /\ \A y \in Port : b'.acct[y] = b.acct[y] \/ AccountStep(b.acct[y], b'.acct[y])

LEMMA MoveSteps ==
  ASSUME AllExact(b), NEW y \in Port, NEW s \in Stream, OneMove(b, b', y, s)
  PROVE  AccountsStep
<1>1. ASSUME NEW z \in Port
      PROVE  /\ Exact(b'.acct[z])
             /\ b'.acct[z] = b.acct[z] \/ AccountStep(b.acct[z], b'.acct[z])
  <2>1. CASE z = y
    BY <2>1 DEF OneMove, AccountStep, AllExact
  <2>2. CASE z # y
    BY <2>2 DEF OneMove, AllExact
  <2> QED
    BY <2>1, <2>2
<1> QED
  BY <1>1 DEF AccountsStep, AllExact

LEMMA RxTalkerAccounts ==
  ASSUME IsFiniteSet(Stream), NoWrap, b \in Bridge, AllExact(b),
         NEW p \in Port, NEW s \in Stream, NEW t \in Type, NEW v \in Value,
         NEW ev \in WireEvent, RxTalker(p, s, t, v, ev)
  PROVE  AccountsStep
<1> DEFINE k == <<p, s, t>>
           m == Registered(b, k, v, ev)
           d == DisplaceTwin(m, p, s, t)
           y == Other(p)
           tr == RegTransition(b.reg[k], m.reg[k])
<1>1. PICK over \in BOOLEAN : b' = OnTalkerChange(d, p, s, t, v, tr, over)
  BY DEF RxTalker, Over
<1>2. k \in Key /\ y \in Port
  BY KeyType, OtherPort
<1> HIDE DEF k, tr
<1>3. m \in Bridge /\ m.acct = b.acct
  <2> HIDE DEF d, y
  <2>1. /\ m \in Bridge /\ m.prop = b.prop /\ m.acct = b.acct
        /\ m.reg = [b.reg EXCEPT ![k] = RegistrarStep(@, ev)]
    BY <1>2, RegisteredType
  <2> QED
    BY <2>1
<1> HIDE DEF m
<1>4. d \in Bridge
  BY <1>3, DisplaceTwinType DEF TwinChange
<1>5. OneMove(m, d, y, s) /\ (t = "adv" => d.acct = m.acct)
  BY <1>3, DisplaceAccount
<1> HIDE DEF d
<1>6. OneMove(d, b', y, s) /\ (t = "fail" => b'.acct = d.acct)
  BY <1>1, <1>4, OnTalkerChangeAccount DEF Value0
<1>7. OneMove(b, b', y, s)
  <2>1. CASE t = "adv"
    BY <1>3, <1>5, <1>6, <2>1 DEF OneMove
  <2>2. CASE t = "fail"
    BY <1>3, <1>5, <1>6, <2>2 DEF OneMove
  <2> QED
    BY <2>1, <2>2 DEF Type
<1> HIDE DEF y
<1> QED
  BY <1>2, <1>7, MoveSteps

LEMMA LeaveTimerAccounts ==
  ASSUME IsFiniteSet(Stream), NoWrap, b \in Bridge, AllExact(b),
         NEW p \in Port, NEW s \in Stream, NEW t \in Type, LeaveTimer(p, s, t)
  PROVE  AccountsStep
<1> DEFINE k == <<p, s, t>>
           m == [b EXCEPT !.reg[k] = "MT", !.timer = @ \ {k}]
           v == b.val[k]
           y == Other(p)
           yes == TRUE
<1>1. k \in Key /\ y \in Port /\ yes \in BOOLEAN
  BY KeyType, OtherPort
<1>2. b' = OnTalkerChange(m, p, s, t, v, "deregister", yes)
  BY DEF LeaveTimer
<1> HIDE DEF k, yes
<1>3. m \in Bridge /\ m.acct = b.acct /\ v \in Value0
  BY <1>1 DEF Bridge, RegistrarState
<1> HIDE DEF m, v
<1>4. OneMove(m, b', y, s)
  BY <1>1, <1>2, <1>3, OnTalkerChangeAccount
<1>5. OneMove(b, b', y, s)
  BY <1>3, <1>4 DEF OneMove
<1> HIDE DEF y
<1> QED
  BY <1>1, <1>5, MoveSteps

LEMMA SetLinkSpeedAccounts ==
  ASSUME b \in Bridge, AllExact(b), NEW p \in Port, SetLinkSpeed(p)
  PROVE  AccountsStep
<1>1. PICK c \in CapChoice : b' = [b EXCEPT !.acct[p].cap = c]
  BY DEF SetLinkSpeed
<1> DEFINE old == b.acct[p]
           new == b'.acct[p]
<1>2. old \in Account
  BY DEF Bridge
<1>3. \A z \in Port : z # p => b'.acct[z] = b.acct[z]
  BY <1>1 DEF Bridge
<1>4. new = [old EXCEPT !.cap = c]
  BY <1>1 DEF Bridge
<1> HIDE DEF old, new
<1>5. new \in Account /\ new.cap = c /\ new.entry = old.entry /\ new.admitted = old.admitted
  BY <1>2, <1>4 DEF Account
<1>6. Exact(new)
  BY <1>5 DEF AllExact, Exact, old
<1>7. AccountStep(old, new)
  BY <1>5 DEF AccountStep
<1> QED
  BY <1>3, <1>6, <1>7 DEF AccountsStep, AllExact, old, new

LEMMA NextAccounts ==
  ASSUME IsFiniteSet(Stream), NoWrap, b \in Bridge, AllExact(b), [Next]_b
  PROVE  AccountsStep
<1>1. ASSUME b'.acct = b.acct PROVE AccountsStep
  BY <1>1 DEF AccountsStep, AllExact
<1>2. CASE UNCHANGED b
  BY <1>1, <1>2
<1>3. ASSUME NEW p \in Port, NEW s \in Stream, NEW t \in Type, NEW v \in Value,
             NEW ev \in WireEvent, RxTalker(p, s, t, v, ev)
      PROVE  AccountsStep
  BY <1>3, RxTalkerAccounts
<1>4. ASSUME NEW p \in Port, NEW s \in Stream, NEW t \in Type, LeaveTimer(p, s, t)
      PROVE  AccountsStep
  BY <1>4, LeaveTimerAccounts
<1>5. ASSUME NEW p \in Port, NEW t \in Type, RxLeaveAll(p, t)
      PROVE  AccountsStep
  <2>1. b'.acct = b.acct
    BY <1>5 DEF RxLeaveAll, Bridge
  <2> QED
    BY <1>1, <2>1
<1>6. ASSUME NEW p \in Port, NEW s \in Stream, ReleaseHeld(p, s)
      PROVE  AccountsStep
  <2> DEFINE k == <<p, s, "adv">>
             n == [b EXCEPT !.hold[<<p, s>>] = "none"]
  <2>1. k \in Key /\ n \in Bridge /\ n.acct = b.acct
    BY KeyType DEF Bridge, Type
  <2>2. b' = Declared(n, k)
    BY <1>6 DEF ReleaseHeld
  <2> HIDE DEF n, k
  <2>3. b'.acct = b.acct
    BY <2>1, <2>2, DeclaredType
  <2> QED
    BY <1>1, <2>3
<1>7. ASSUME NEW p \in Port, JoinTimer(p) \/ PeriodicTimer(p)
      PROVE  AccountsStep
  <2>1. PICK ev : StepAll(p, ev)
    BY <1>7 DEF JoinTimer, PeriodicTimer
  <2>2. b'.acct = b.acct
    BY <2>1 DEF StepAll, Bridge
  <2> QED
    BY <1>1, <2>2
<1>8. ASSUME NEW p \in Port, SetLinkSpeed(p)
      PROVE  AccountsStep
  BY <1>8, SetLinkSpeedAccounts
<1> QED
  BY <1>2, <1>3, <1>4, <1>5, <1>6, <1>7, <1>8 DEF Next

LEMMA InitExact ==
  ASSUME IsFiniteSet(Stream), Init
  PROVE  AllExact(b)
<1>1. PICK cap \in [Port -> CapChoice] : \A y \in Port : b.acct[y] = EmptyAccount(cap[y])
  BY DEF Init
<1>2. b \in Bridge
  BY InitTyped
<1>3. ASSUME NEW y \in Port PROVE Exact(b.acct[y])
  <2> DEFINE acc == b.acct[y]
  <2>1. /\ acc \in Account /\ acc.entry = [s \in Stream |-> NoValue]
        /\ \A c \in Class : acc.admitted[c] = 0
        /\ acc.cap \in CapChoice /\ 0 <= acc.cap
    <3>1. acc \in Account /\ acc = EmptyAccount(cap[y]) /\ cap[y] \in CapChoice
      BY <1>1, <1>2 DEF Bridge
    <3> HIDE DEF acc
    <3>2. 0 <= cap[y]
      <4>1. \A k \in CapChoice : k \in 0..Word - 1
        BY BandwidthAssumption
      <4> QED
        BY <3>1, <4>1
    <3> QED
      BY <3>1, <3>2 DEF EmptyAccount
  <2> HIDE DEF acc
  <2>2. ASSUME NEW c \in Class PROVE Total(acc.entry, OfClass(acc.entry, c)) = 0
    <3>1. /\ IsFiniteSet(OfClass(acc.entry, c))
          /\ \A r \in OfClass(acc.entry, c) : acc.entry[r].bps = 0
      BY <2>1, FS_Subset DEF OfClass, NoValue
    <3> QED
      BY <3>1, TotalZero
  <2>3. Exact(acc)
    BY <2>1, <2>2 DEF Exact
  <2> QED
    BY <2>3 DEF acc
<1> QED
  BY <1>3 DEF AllExact

\* The sum of Admission is the one of the accounts.
LEMMA SameOthers ==
  \A y, s, c : PortAccount(y)!Others(s, c) = OthersOf(b.acct[y].entry, s, c)
BY Zenon DEF PortAccount!Others, PortAccount!MapThenSumSet, PortAccount!MapThenFoldSet,
             OthersOf, Total, MapThenSumSet, MapThenFoldSet

LEMMA StepsAdmission ==
  ASSUME NEW y \in Port, AccountStep(b.acct[y], b'.acct[y]), b.acct[y] \in Account,
         b'.acct[y] \in Account
  PROVE  PortAccount(y)!Next
<1> DEFINE acc == b.acct[y]
           n == b'.acct[y]
<1>1. ASSUME NEW c \in CapChoice, n.cap = c, n.entry = acc.entry
      PROVE  PortAccount(y)!Next
  BY <1>1 DEF PortAccount!Next, PortAccount!SetLinkSpeed
<1>2. ASSUME NEW s \in Stream, n.cap = acc.cap, n.entry = [acc.entry EXCEPT ![s] = NoValue]
      PROVE  PortAccount(y)!Next
  BY <1>2 DEF PortAccount!Next, PortAccount!Free, PortAccount!NoValue, NoValue
<1>3. ASSUME NEW s \in Stream, NEW v \in Value, n.cap = acc.cap, acc.entry[s] # v,
             n.entry = [acc.entry EXCEPT ![s] = Granted(acc, s, v)]
      PROVE  PortAccount(y)!Next
  <2>1. PortAccount(y)!Others(s, v.cls) = OthersOf(acc.entry, s, v.cls)
    BY SameOthers
  <2>2. PortAccount(y)!Reserve(s, v)
    BY <1>3, <2>1 DEF PortAccount!Reserve, PortAccount!NoValue, NoValue, Granted
  <2> QED
    BY <2>2 DEF PortAccount!Next
<1>4. CASE n = acc
  <2>1. n.cap \in CapChoice
    BY DEF Account
  <2> QED
    BY <1>1, <1>4, <2>1
<1> QED
  BY <1>1, <1>2, <1>3, <1>4 DEF AccountStep, Move

\* The account of every port implements Admission: it begins with nothing held,
\* and each event of the bridge makes, replaces or releases at most one
\* reservation, granted exactly when it fits beside what the other streams of
\* its class hold, as long as no request can overflow the word that the running
\* totals are kept in (msrp_update_admission, avb_srp_admission_*).
THEOREM AdmissionRefined ==
  ASSUME IsFiniteSet(Stream), NoWrap
  PROVE  Spec => ImplementsAdmission
<1> DEFINE AInv == b \in Bridge /\ Exclusive(b) /\ AllExact(b)
           Steps == \A y \in Port : b.acct'[y] = b.acct[y] \/ PortAccount(y)!Next
           Starts == \A y \in Port : PortAccount(y)!Init
<1>1. Init => AInv
  BY InitTyped, InitExact
<1>2. AInv /\ [Next]_b => AInv' /\ [Steps]_b
  <2> SUFFICES ASSUME AInv, [Next]_b PROVE AInv' /\ Steps
    OBVIOUS
  <2>1. b' \in Bridge /\ Exclusive(b')
    BY NextTyped
  <2>2. AccountsStep
    BY NextAccounts
  <2>3. AInv'
    BY <2>1, <2>2 DEF AccountsStep, AllExact, Exclusive
  <2>4. ASSUME NEW y \in Port PROVE b.acct'[y] = b.acct[y] \/ PortAccount(y)!Next
    <3>1. b'.acct[y] = b.acct[y] \/ AccountStep(b.acct[y], b'.acct[y])
      BY <2>2 DEF AccountsStep
    <3>2. b.acct[y] \in Account /\ b'.acct[y] \in Account
      BY <2>1 DEF Bridge
    <3> QED
      BY <3>1, <3>2, StepsAdmission
  <2> QED
    BY <2>3, <2>4
<1>3. Init => Starts
  <2> SUFFICES ASSUME Init, NEW y \in Port PROVE PortAccount(y)!Init
    OBVIOUS
  <2>1. PICK cap \in [Port -> CapChoice] : b.acct[y] = EmptyAccount(cap[y])
    BY DEF Init
  <2> QED
    BY <2>1 DEF EmptyAccount, PortAccount!Init, PortAccount!NoValue, NoValue
<1>4. Starts /\ [][Steps]_b => ImplementsAdmission
  BY DEF ImplementsAdmission
<1> HIDE DEF AInv, Steps, Starts
<1> QED
  BY <1>1, <1>2, <1>3, <1>4, PTL DEF Spec

-----------------------------------------------------------------------------
(* MrpLink.  FlattenSeq first: its recursion has a solution, found along its *)
(* length; the minimal-element theorem takes the place of induction.         *)

FlatStep(q, g, i) == IF i = 1 THEN q[i] ELSE g[i - 1] \o q[i]

Flat(q) == CHOOSE g : g = [i \in 1..Len(q) |-> FlatStep(q, g, i)]

LEMMA FlattenIsFlat ==
  \A q : FlattenSeq(q) = IF Len(q) = 0 THEN q ELSE Flat(q)[Len(q)]
BY Zenon DEF FlattenSeq, Flat, FlatStep

\* A set of numbers has a least one.
LEMMA LeastOf ==
  ASSUME NEW T \in SUBSET Nat, T # {}
  PROVE  \E n \in T : \A m \in T : n <= m
<1> DEFINE R == OpToRel(<, Nat)
<1>1. IsWellFoundedOn(R, Nat)
  BY NatLessThanWellFounded
<1>2. R = {ss \in Nat \X Nat : ss[1] < ss[2]}
  BY DEF OpToRel
<1> HIDE DEF R
<1>3. PICK n \in T : \A m \in T : ~(<<m, n>> \in R)
  BY <1>1, WFMin
<1>4. ASSUME NEW m \in T PROVE n <= m
  <2>1. ~(m < n)
    BY <1>2, <1>3
  <2> QED
    BY <2>1
<1> QED
  BY <1>4

LEMMA FlatExists ==
  ASSUME NEW q, NEW l \in Nat
  PROVE  \E g : g = [i \in 1..l |-> FlatStep(q, g, i)]
<1> DEFINE Solved(n) == \E g : g = [i \in 1..n |-> FlatStep(q, g, i)]
           Bad == {n \in Nat : ~Solved(n)}
<1>1. Solved(0)
  <2> DEFINE g == [i \in 1..0 |-> 0]
  <2>1. g = [i \in 1..0 |-> FlatStep(q, g, i)]
    OBVIOUS
  <2> HIDE DEF g
  <2> QED
    BY <2>1
<1>2. ASSUME NEW n \in Nat, Solved(n) PROVE Solved(n + 1)
  <2>1. PICK g : g = [i \in 1..n |-> FlatStep(q, g, i)]
    BY <1>2
  <2> DEFINE k == [i \in 1..(n + 1) |-> IF i \in 1..n THEN g[i] ELSE FlatStep(q, g, i)]
  <2>2. ASSUME NEW i \in 1..(n + 1) PROVE k[i] = FlatStep(q, k, i)
    <3>1. k[i] = FlatStep(q, g, i)
      <4>1. CASE i \in 1..n
        <5>1. g[i] = FlatStep(q, g, i)
          BY <2>1, <4>1
        <5> QED
          BY <4>1, <5>1
      <4>2. CASE i \notin 1..n
        BY <4>2
      <4> QED
        BY <4>1, <4>2
    <3>2. CASE i = 1
      BY <3>1, <3>2 DEF FlatStep
    <3>3. CASE i # 1
      <4>1. i - 1 \in 1..n /\ i - 1 \in 1..(n + 1)
        BY <3>3
      <4>2. k[i - 1] = g[i - 1]
        BY <4>1
      <4> HIDE DEF k
      <4> QED
        BY <3>1, <3>3, <4>2 DEF FlatStep
    <3> QED
      BY <3>2, <3>3
  <2>3. k = [i \in 1..(n + 1) |-> FlatStep(q, k, i)]
    <3>1. k = [i \in 1..(n + 1) |-> k[i]]
      OBVIOUS
    <3> HIDE DEF k
    <3> QED
      BY <2>2, <3>1
  <2> HIDE DEF k
  <2> QED
    BY <2>3
<1> HIDE DEF Solved
<1>3. Bad = {}
  <2> SUFFICES ASSUME Bad # {} PROVE FALSE
    OBVIOUS
  <2>1. PICK n \in Bad : \A m \in Bad : n <= m
    BY LeastOf
  <2>2. n \in Nat /\ n # 0
    BY <1>1
  <2>3. n - 1 \in Nat /\ n - 1 \notin Bad
    BY <2>1, <2>2
  <2>4. Solved((n - 1) + 1)
    BY <1>2, <2>3
  <2> QED
    BY <2>2, <2>4
<1> QED
  BY <1>3 DEF Solved

-----------------------------------------------------------------------------
(* The two ends of a link (MrpLink): what a flush sends. *)

\* The two ends.
LEMMA PeerIs ==
  ASSUME NEW n \in Node
  PROVE  /\ Peer(n) \in Node /\ Peer(n) # n /\ Peer(Peer(n)) = n
         /\ \A m \in Node : m = n \/ m = Peer(n)
<1>1. PICK x \in Node, y \in Node : x # y /\ Node = {x, y}
  BY LinkAssumption
<1>2. \A m \in Node : \E k \in Node : k # m
  BY <1>1
<1>3. \A m \in Node : Peer(m) \in Node /\ Peer(m) # m
  BY <1>2 DEF Peer
<1> QED
  BY <1>1, <1>3

\* What the i-th attribute adds to a flush.
Part(p, i) ==
  LET a == AttrOrder[i] IN
  IF ~Sends(p, a) THEN << >>
  ELSE << [attr |-> a, ev |-> Encoded(p, a),
           leaveAll |-> /\ p.leaveAllPending
                        /\ \A j \in 1..(i - 1) : ~Sends(p, AttrOrder[j])] >>

\* s is what the first n attributes send.
SentOf(p, s, n) ==
  /\ s \in Seq(Mrpdu)
  /\ \A k \in DOMAIN s :
       \E a \in Attr : Sends(p, a) /\ s[k].attr = a /\ s[k].ev = Encoded(p, a)
  /\ \A k \in DOMAIN s : s[k].leaveAll <=> p.leaveAllPending /\ k = 1
  /\ \A i \in 1..n : Sends(p, AttrOrder[i]) => \E k \in DOMAIN s : s[k].attr = AttrOrder[i]
  /\ (\A i \in 1..n : ~Sends(p, AttrOrder[i])) => s = << >>

LEMMA EncodedIs ==
  ASSUME NEW p \in PortState, NEW a \in Attr
  PROVE  /\ Encoded(p, a) \in {"rNew", "rLv", "rJoinIn", "rJoinMt"}
         /\ p.leaveAllPending \in BOOLEAN
BY DEF Encoded, Resolve3pe, PortState

LEMMA AttrsOrdered ==
  /\ AttrOrder \in Seq(Attr) /\ Len(AttrOrder) \in Nat /\ DOMAIN AttrOrder = 1..Len(AttrOrder)
  /\ \A i \in 1..Len(AttrOrder) : AttrOrder[i] \in Attr
  /\ \A a \in Attr : \E i \in 1..Len(AttrOrder) : AttrOrder[i] = a
  /\ NoAttr \notin Attr
<1>1. AttrOrder \in Seq(Attr) /\ NoAttr \notin Attr
  BY LinkAssumption
<1>2. Len(AttrOrder) \in Nat /\ DOMAIN AttrOrder = 1..Len(AttrOrder)
  BY <1>1, LenProperties
<1>3. \A a \in Attr : \E i \in DOMAIN AttrOrder : AttrOrder[i] = a
  BY DEF Attr, Range
<1>4. \A i \in DOMAIN AttrOrder : AttrOrder[i] \in Attr
  BY DEF Attr, Range
<1> QED
  BY <1>1, <1>2, <1>3, <1>4

LEMMA FlatSolves ==
  ASSUME NEW q, Len(q) \in Nat
  PROVE  \A i \in 1..Len(q) : Flat(q)[i] = FlatStep(q, Flat(q), i)
<1> DEFINE g == Flat(q)
<1>1. \E f : f = [i \in 1..Len(q) |-> FlatStep(q, f, i)]
  BY FlatExists
<1>2. g = [i \in 1..Len(q) |-> FlatStep(q, g, i)]
  BY <1>1 DEF Flat
<1> HIDE DEF g
<1>3. \A i \in 1..Len(q) : g[i] = FlatStep(q, g, i)
  BY <1>2
<1> QED
  BY <1>3 DEF g

LEMMA SentStep ==
  ASSUME NEW p \in PortState, NEW n \in Nat, n + 1 <= Len(AttrOrder), NEW s, SentOf(p, s, n)
  PROVE  SentOf(p, s \o Part(p, n + 1), n + 1)
<1> DEFINE a == AttrOrder[n + 1]
           msg == [attr |-> a, ev |-> Encoded(p, a),
                   leaveAll |-> /\ p.leaveAllPending
                                /\ \A j \in 1..((n + 1) - 1) : ~Sends(p, AttrOrder[j])]
<1>1. a \in Attr
  BY AttrsOrdered
<1>2. s \in Seq(Mrpdu)
  BY DEF SentOf
<1>3. CASE ~Sends(p, a)
  <2>1. Part(p, n + 1) = << >> /\ s \o << >> = s
    BY <1>2, <1>3, ConcatEmptySeq DEF Part
  <2> HIDE DEF a, msg
  <2>2. \A i \in 1..(n + 1) : i \in 1..n \/ i = n + 1
    OBVIOUS
  <2> QED
    <3>1. ~Sends(p, AttrOrder[n + 1]) /\ s \o Part(p, n + 1) = s
      BY <1>3, <2>1 DEF a
    <3>2. (\A i \in 1..(n + 1) : ~Sends(p, AttrOrder[i])) => \A i \in 1..n : ~Sends(p, AttrOrder[i])
      OBVIOUS
    <3>3. ASSUME NEW i \in 1..(n + 1), Sends(p, AttrOrder[i])
          PROVE  \E k \in DOMAIN s : s[k].attr = AttrOrder[i]
      BY <2>2, <3>1, <3>3 DEF SentOf
    <3>4. SentOf(p, s, n + 1)
      BY <3>2, <3>3 DEF SentOf
    <3> QED
      BY <3>1, <3>4
<1>4. CASE Sends(p, a)
  <2>1. Part(p, n + 1) = <<msg>>
    BY <1>4 DEF Part
  <2>2. (\A j \in 1..((n + 1) - 1) : ~Sends(p, AttrOrder[j])) <=> s = << >>
    <3>1. (n + 1) - 1 = n
      OBVIOUS
    <3>2. s = << >> => \A j \in 1..n : ~Sends(p, AttrOrder[j])
      BY DEF SentOf
    <3> QED
      BY <3>1, <3>2 DEF SentOf
  <2>3. /\ msg.attr = a /\ msg.ev = Encoded(p, a)
        /\ msg.leaveAll <=> p.leaveAllPending /\ s = << >>
    BY <2>2
  <2>4. msg \in Mrpdu
    <3>1. msg.ev \in WireEvent
      BY <1>1, EncodedIs DEF WireEvent
    <3>2. msg.leaveAll \in BOOLEAN
      BY EncodedIs DEF PortState
    <3> QED
      BY <1>1, <3>1, <3>2 DEF Mrpdu
  <2> HIDE DEF msg, a
  <2> DEFINE t == s \o <<msg>>
  <2>5. /\ t \in Seq(Mrpdu) /\ Len(t) = Len(s) + 1 /\ t[Len(s) + 1] = msg
        /\ \A k \in 1..Len(s) : t[k] = s[k]
        /\ DOMAIN t = 1..(Len(s) + 1) /\ DOMAIN s = 1..Len(s) /\ Len(s) \in Nat
    BY <1>2, <2>4
  <2> HIDE DEF t
  <2>6. \A k \in DOMAIN t : (k \in DOMAIN s /\ t[k] = s[k]) \/ (k = Len(s) + 1 /\ t[k] = msg)
    BY <2>5
  <2>7. ASSUME NEW k \in DOMAIN t
        PROVE  \E x \in Attr : Sends(p, x) /\ t[k].attr = x /\ t[k].ev = Encoded(p, x)
    <3>1. CASE k \in DOMAIN s /\ t[k] = s[k]
      BY <3>1 DEF SentOf
    <3>2. CASE t[k] = msg
      BY <1>1, <1>4, <2>3, <3>2
    <3> QED
      BY <2>6, <3>1, <3>2
  <2>8. ASSUME NEW k \in DOMAIN t
        PROVE  t[k].leaveAll <=> p.leaveAllPending /\ k = 1
    <3>1. CASE k \in DOMAIN s /\ t[k] = s[k]
      BY <3>1 DEF SentOf
    <3>2. CASE k = Len(s) + 1 /\ t[k] = msg
      <4>1. s = << >> <=> k = 1
        BY <1>2, <2>5, <3>2, EmptySeq
      <4> QED
        BY <2>3, <3>2, <4>1
    <3> QED
      BY <2>6, <3>1, <3>2
  <2>9. ASSUME NEW i \in 1..(n + 1), Sends(p, AttrOrder[i])
        PROVE  \E k \in DOMAIN t : t[k].attr = AttrOrder[i]
    <3>1. CASE i \in 1..n
      <4>1. PICK k \in DOMAIN s : s[k].attr = AttrOrder[i]
        BY <2>9, <3>1 DEF SentOf
      <4>2. k \in DOMAIN t /\ t[k] = s[k]
        BY <2>5
      <4> QED
        BY <4>1, <4>2
    <3>2. CASE i = n + 1
      <4>1. Len(s) + 1 \in DOMAIN t /\ t[Len(s) + 1].attr = AttrOrder[i]
        BY <2>3, <2>5, <3>2 DEF a
      <4> QED
        BY <4>1
    <3> QED
      BY <3>1, <3>2
  <2>10. n + 1 \in 1..(n + 1) /\ Sends(p, AttrOrder[n + 1])
    BY <1>4 DEF a
  <2>11. SentOf(p, t, n + 1)
    BY <2>5, <2>7, <2>8, <2>9, <2>10 DEF SentOf
  <2> QED
    BY <2>1, <2>11 DEF t
<1> QED
  BY <1>3, <1>4

LEMMA MrpdusSent ==
  ASSUME NEW p \in PortState
  PROVE  SentOf(p, Mrpdus(p), Len(AttrOrder))
<1> DEFINE l == Len(AttrOrder)
           q == [i \in DOMAIN AttrOrder |-> Part(p, i)]
           g == Flat(q)
           Bad == {n \in Nat : n \in 1..l /\ ~SentOf(p, g[n], n)}
<1>1. l \in Nat /\ DOMAIN AttrOrder = 1..l
  BY AttrsOrdered
<1>2. Mrpdus(p) = FlattenSeq(q)
  BY DEF Mrpdus, Part
<1>3. Len(q) = l /\ \A i \in 1..l : q[i] = Part(p, i)
  BY <1>1
<1>4. SentOf(p, << >>, 0)
  BY DEF SentOf
<1>5. CASE l = 0
  <2>1. q = << >>
    BY <1>1, <1>5
  <2>2. FlattenSeq(q) = q
    BY <1>3, <1>5, FlattenIsFlat
  <2> QED
    BY <1>2, <1>4, <1>5, <2>1, <2>2
<1>6. CASE l # 0
  <2>1. \A i \in 1..l : g[i] = FlatStep(q, g, i)
    <3> HIDE DEF q
    <3> QED
      BY <1>1, <1>3, FlatSolves
  <2>2. Mrpdus(p) = g[l]
    BY <1>2, <1>3, <1>6, FlattenIsFlat DEF g
  <2> HIDE DEF g, q, l
  <2>3. Bad = {}
    <3> SUFFICES ASSUME Bad # {} PROVE FALSE
      OBVIOUS
    <3>1. PICK n \in Bad : \A m \in Bad : n <= m
      BY LeastOf
    <3>2. n \in 1..l /\ n \in Nat /\ ~SentOf(p, g[n], n)
      BY <3>1
    <3>3. CASE n = 1
      <4>1. g[n] = << >> \o Part(p, 1)
        <5>1. g[n] = Part(p, 1)
          BY <1>3, <2>1, <3>2, <3>3 DEF FlatStep
        <5>2. Part(p, 1) = << >> \o Part(p, 1)
          <6>1. CASE Sends(p, AttrOrder[1])
            <7> DEFINE msg == [attr |-> AttrOrder[1], ev |-> Encoded(p, AttrOrder[1]),
                               leaveAll |-> /\ p.leaveAllPending
                                            /\ \A j \in 1..(1 - 1) : ~Sends(p, AttrOrder[j])]
            <7>1. Part(p, 1) = <<msg>>
              BY <6>1 DEF Part
            <7> HIDE DEF msg
            <7> QED
              BY <7>1
          <6>2. CASE ~Sends(p, AttrOrder[1])
            BY <6>2 DEF Part
          <6> QED
            BY <6>1, <6>2
        <5> QED
          BY <5>1, <5>2
      <4>2. SentOf(p, << >> \o Part(p, 0 + 1), 0 + 1)
        <5>1. 0 \in Nat /\ 0 + 1 <= Len(AttrOrder)
          BY <1>1, <3>2 DEF l
        <5> QED
          BY <1>4, <5>1, SentStep
      <4>3. 0 + 1 = 1
        OBVIOUS
      <4> QED
        BY <3>2, <3>3, <4>1, <4>2, <4>3
    <3>4. CASE n # 1
      <4>1. n - 1 \in 1..l /\ n - 1 \in Nat /\ ~(n <= n - 1) /\ (n - 1) + 1 = n
        BY <1>1, <3>2, <3>4
      <4>2. SentOf(p, g[n - 1], n - 1)
        BY <3>1, <4>1
      <4>3. g[n] = g[n - 1] \o Part(p, n)
        BY <1>3, <2>1, <3>2, <3>4 DEF FlatStep
      <4>4. n <= Len(AttrOrder)
        BY <1>1, <3>2 DEF l
      <4>5. SentOf(p, g[n - 1] \o Part(p, (n - 1) + 1), (n - 1) + 1)
        BY <4>1, <4>2, <4>4, SentStep
      <4> QED
        BY <3>2, <4>1, <4>3, <4>5
    <3> QED
      BY <3>3, <3>4
  <2>4. l \in 1..l /\ l \in Nat
    BY <1>1, <1>6
  <2> QED
    BY <2>2, <2>3, <2>4 DEF l
<1> QED
  BY <1>5, <1>6

\* What a flush sends: of every attribute that sends, and of no other; only the
\* first MRPDU carries the LeaveAll, and a switch always sends one that does.
LEMMA SentIs ==
  ASSUME NEW p \in PortState
  PROVE  /\ Sent(p) \in Seq(Mrpdu)
         /\ \A k \in DOMAIN Sent(p) : Sent(p)[k].leaveAll <=> p.leaveAllPending /\ k = 1
         /\ \A k \in DOMAIN Sent(p) :
              \/ Sent(p)[k].attr = NoAttr
              \/ \E a \in Attr : /\ Sends(p, a)
                                 /\ Sent(p)[k].attr = a /\ Sent(p)[k].ev = Encoded(p, a)
         /\ \A a \in Attr : Sends(p, a) => \E k \in DOMAIN Sent(p) : Sent(p)[k].attr = a
         /\ p.role = "switch" /\ p.leaveAllPending => Sent(p) # << >>
<1>1. SentOf(p, Mrpdus(p), Len(AttrOrder))
  BY MrpdusSent
<1>2. \A a \in Attr : Sends(p, a) => \E k \in DOMAIN Mrpdus(p) : Mrpdus(p)[k].attr = a
  <2> TAKE a \in Attr
  <2>1. PICK i \in 1..Len(AttrOrder) : AttrOrder[i] = a
    BY AttrsOrdered
  <2> QED
    BY <1>1, <2>1 DEF SentOf
<1>3. CASE p.role = "switch" /\ p.leaveAllPending /\ Mrpdus(p) = << >>
  <2>1. Sent(p) = <<PureLeaveAll>>
    BY <1>3 DEF Sent
  <2>2. PureLeaveAll \in Mrpdu /\ PureLeaveAll.leaveAll = TRUE /\ PureLeaveAll.attr = NoAttr
    BY DEF Mrpdu, PureLeaveAll
  <2>3. \A a \in Attr : ~Sends(p, a)
    BY <1>2, <1>3
  <2> QED
    BY <1>3, <2>1, <2>2, <2>3
<1>4. CASE ~(p.role = "switch" /\ p.leaveAllPending /\ Mrpdus(p) = << >>)
  <2>1. Sent(p) = Mrpdus(p)
    BY <1>4 DEF Sent
  <2> QED
    BY <1>1, <1>2, <1>4, <2>1 DEF SentOf
<1> QED
  BY <1>3, <1>4

-----------------------------------------------------------------------------
(* What the parts of a tick and of a reception do to a port. *)

\* The LeaveTimer of an attribute runs exactly while its Registrar is in LV.
GoodPort(p) ==
  /\ p \in PortState
  /\ \A a \in Attr : (p.leave[a] # Off) <=> (p.reg[a] = "LV")

LEMMA LinkNumbers ==
  /\ JoinMax \in Nat /\ LeaveTime \in Nat /\ PeriodicTime \in Nat
  /\ SelfLeaveTime \in Nat /\ SwitchLeaveTime \in Nat
  /\ JoinMax > 0 /\ LeaveTime > 0 /\ PeriodicTime > 0 /\ SelfLeaveTime > 0
  /\ SwitchLeaveTime > 0 /\ LeaveAllMin \in Nat /\ LeaveAllMax \in Nat
  /\ LeaveAllMin > 0 /\ LeaveAllMin <= LeaveAllMax
  /\ ArmsOnLeaveAll \in BOOLEAN
BY LinkAssumption

LEMMA PortFields ==
  ASSUME NEW p \in PortState
  PROVE  /\ p.role \in Role /\ p.app \in [Attr -> ApplicantState]
         /\ p.reg \in [Attr -> RegistrarState] /\ p.leave \in [Attr -> Nat \cup {Off}]
         /\ p.join \in Off..JoinMax /\ p.join \in Int /\ (p.join # Off => p.join >= 0)
         /\ p.join <= JoinMax /\ Off = -1
         /\ p.leaveAll \in 0..LeaveAllMax /\ p.periodic \in 0..PeriodicTime
         /\ p.leaveAllPending \in BOOLEAN
BY LinkNumbers DEF PortState, Off

LEMMA AppStepIs ==
  ASSUME NEW s \in ApplicantState, NEW ev
  PROVE  ApplicantStep(s, ev) \in ApplicantState
BY DEF ApplicantState, ApplicantStep, OnJoin, OnLv, OnRJoinIn, OnRLeave, OnTx,
       OnPeriodic, TxEvent

LEMMA RegStepIs ==
  ASSUME NEW r \in RegistrarState, NEW ev
  PROVE  /\ RegistrarStep(r, ev) \in RegistrarState
         /\ RegistrarStep(r, ev) = "LV" /\ ev \notin {"rLv", "rLA"} => r = "LV"
BY DEF RegistrarState, RegistrarStep

LEMMA RegStepDoes ==
  ASSUME NEW p, GoodPort(p), NEW S, NEW ev, NEW t \in Nat \cup {Off},
         ev \in {"rLv", "rLA"} => t # Off
  PROVE  LET q == RegistrarsStep(p, S, ev, t) IN
         /\ GoodPort(q) /\ q.role = p.role /\ q.app = p.app /\ q.join = p.join
         /\ q.leaveAll = p.leaveAll /\ q.periodic = p.periodic
         /\ q.leaveAllPending = p.leaveAllPending
         /\ \A a \in Attr :
              /\ a \notin S => q.reg[a] = p.reg[a] /\ q.leave[a] = p.leave[a]
              /\ a \in S => q.reg[a] = RegistrarStep(p.reg[a], ev)
              /\ a \in S /\ ev \in {"rLv", "rLA"} /\ q.reg[a] = "LV" => q.leave[a] = t
              /\ q.leave[a] = p.leave[a] \/ q.reg[a] # "LV" \/ (ev \in {"rLv", "rLA"} /\ q.leave[a] = t)
<1> DEFINE r(a) == RegistrarStep(p.reg[a], ev)
           reg == [a \in Attr |-> IF a \in S THEN r(a) ELSE p.reg[a]]
           leave == [a \in Attr |->
                  CASE a \in S /\ r(a) = "LV" /\ ev \in {"rLv", "rLA"} -> t
                    [] a \in S /\ r(a) # "LV" /\ r(a) # p.reg[a]      -> Off
                    [] OTHER                             -> p.leave[a]]
           q == [p EXCEPT !.reg = reg, !.leave = leave]
<1>1. p \in PortState
  BY DEF GoodPort
<1>2. q = RegistrarsStep(p, S, ev, t)
  BY DEF RegistrarsStep
<1>3. \A a \in Attr : r(a) \in RegistrarState
  BY <1>1, RegStepIs, PortFields
<1>4. reg \in [Attr -> RegistrarState]
  BY <1>1, <1>3, PortFields
<1>5. ASSUME NEW a \in Attr
      PROVE  /\ a \notin S => reg[a] = p.reg[a] /\ leave[a] = p.leave[a]
             /\ a \in S => reg[a] = r(a)
             /\ leave[a] \in Nat \cup {Off}
             /\ (leave[a] # Off) <=> (reg[a] = "LV")
             /\ a \in S /\ ev \in {"rLv", "rLA"} /\ reg[a] = "LV" => leave[a] = t
             /\ leave[a] = p.leave[a] \/ reg[a] # "LV" \/ (ev \in {"rLv", "rLA"} /\ leave[a] = t)
  <2>1. p.leave[a] \in Nat \cup {Off} /\ ((p.leave[a] # Off) <=> (p.reg[a] = "LV"))
    BY <1>1, PortFields DEF GoodPort
  <2>2. r(a) = "LV" /\ ev \notin {"rLv", "rLA"} => p.reg[a] = "LV"
    BY <1>1, RegStepIs, PortFields
  <2> HIDE DEF r
  <2> QED
    BY <2>1, <2>2
<1>6. leave \in [Attr -> Nat \cup {Off}]
  BY <1>5
<1> HIDE DEF reg, leave
<1>7. /\ q \in PortState /\ q.reg = reg /\ q.leave = leave
      /\ q.role = p.role /\ q.app = p.app /\ q.join = p.join
      /\ q.leaveAll = p.leaveAll /\ q.periodic = p.periodic
      /\ q.leaveAllPending = p.leaveAllPending
  BY <1>1, <1>4, <1>6 DEF PortState
<1>8. \A a \in Attr : r(a) = RegistrarStep(p.reg[a], ev)
  OBVIOUS
<1> HIDE DEF q, r
<1>9. GoodPort(q)
  BY <1>5, <1>7 DEF GoodPort
<1>10. \A a \in Attr :
         /\ a \notin S => q.reg[a] = p.reg[a] /\ q.leave[a] = p.leave[a]
         /\ a \in S => q.reg[a] = RegistrarStep(p.reg[a], ev)
         /\ a \in S /\ ev \in {"rLv", "rLA"} /\ q.reg[a] = "LV" => q.leave[a] = t
         /\ q.leave[a] = p.leave[a] \/ q.reg[a] # "LV" \/ (ev \in {"rLv", "rLA"} /\ q.leave[a] = t)
  BY <1>5, <1>7, <1>8
<1> QED
  BY <1>2, <1>7, <1>9, <1>10

LEMMA AppStepDoes ==
  ASSUME NEW p, GoodPort(p), NEW S, NEW ev
  PROVE  LET q == AppStep(p, S, ev) IN
         /\ GoodPort(q) /\ q.role = p.role /\ q.reg = p.reg /\ q.leave = p.leave
         /\ q.join = p.join /\ q.leaveAll = p.leaveAll /\ q.periodic = p.periodic
         /\ q.leaveAllPending = p.leaveAllPending
         /\ \A a \in Attr :
              q.app[a] = IF a \in S THEN ApplicantStep(p.app[a], ev) ELSE p.app[a]
<1> DEFINE app == [a \in Attr |-> IF a \in S THEN ApplicantStep(p.app[a], ev) ELSE p.app[a]]
           q == [p EXCEPT !.app = app]
<1>1. p \in PortState
  BY DEF GoodPort
<1>2. q = AppStep(p, S, ev)
  BY DEF AppStep
<1>3. app \in [Attr -> ApplicantState]
  BY <1>1, AppStepIs, PortFields
<1>4. \A a \in Attr :
        app[a] = IF a \in S THEN ApplicantStep(p.app[a], ev) ELSE p.app[a]
  OBVIOUS
<1> HIDE DEF app
<1>5. /\ q \in PortState /\ q.app = app
      /\ q.role = p.role /\ q.reg = p.reg /\ q.leave = p.leave /\ q.join = p.join
      /\ q.leaveAll = p.leaveAll /\ q.periodic = p.periodic
      /\ q.leaveAllPending = p.leaveAllPending
  BY <1>1, <1>3 DEF PortState
<1> HIDE DEF q
<1>6. GoodPort(q)
  BY <1>5 DEF GoodPort
<1> QED
  BY <1>2, <1>4, <1>5, <1>6

LEMMA ArmDoes ==
  ASSUME NEW p, GoodPort(p), NEW j \in 0..JoinMax
  PROVE  LET q == Arm(p, j) IN
         /\ GoodPort(q) /\ q.role = p.role /\ q.app = p.app /\ q.reg = p.reg
         /\ q.leave = p.leave /\ q.leaveAll = p.leaveAll /\ q.periodic = p.periodic
         /\ q.leaveAllPending = p.leaveAllPending
         /\ q.join # Off /\ (p.join # Off => q.join = p.join)
<1>1. p \in PortState
  BY DEF GoodPort
<1>2. CASE p.join = Off
  <2>1. Arm(p, j) = [p EXCEPT !.join = j]
    BY <1>2 DEF Arm
  <2>2. j \in Off..JoinMax /\ j # Off
    BY LinkNumbers DEF Off
  <2> QED
    BY <1>1, <1>2, <2>1, <2>2 DEF GoodPort, PortState
<1>3. CASE p.join # Off
  BY <1>3 DEF Arm
<1> QED
  BY <1>2, <1>3

\* A LeaveAllTimer leaves a Registrar as it is, or steps it from IN to LV with
\* the long timer of a station or, a LeaveAll asked for, with that of a switch.
LEMMA LeaveAllDoes ==
  ASSUME NEW p, GoodPort(p), NEW suppress \in BOOLEAN,
         NEW la \in LeaveAllMin..LeaveAllMax, NEW j \in 0..JoinMax
  PROVE  LET q == LeaveAllTimer(p, suppress, la, j) IN
         /\ GoodPort(q) /\ q.role = p.role /\ q.app = p.app /\ q.periodic = p.periodic
         /\ p.join # Off => q.join = p.join
         /\ p.leaveAllPending => q.leaveAllPending
         /\ \A a \in Attr :
              \/ q.reg[a] = p.reg[a] /\ q.leave[a] = p.leave[a]
              \/ /\ p.reg[a] = "IN" /\ q.reg[a] = "LV"
                 /\ \/ p.role = "sta" /\ q.leave[a] = SelfLeaveTime
                    \/ /\ p.role = "switch" /\ q.leave[a] = SwitchLeaveTime
                       /\ q.leaveAllPending /\ q.join # Off
<1> DEFINE in == {a \in Attr : p.reg[a] = "IN"}
           o == [p EXCEPT !.leaveAll = la]
           q == LeaveAllTimer(p, suppress, la, j)
<1>1. p \in PortState
  BY DEF GoodPort
<1>2. /\ o \in PortState /\ o.role = p.role /\ o.app = p.app /\ o.reg = p.reg
      /\ o.leave = p.leave /\ o.join = p.join /\ o.periodic = p.periodic
      /\ o.leaveAllPending = p.leaveAllPending
  <2>1. la \in 0..LeaveAllMax
    BY LinkNumbers
  <2> QED
    BY <1>1, <2>1 DEF PortState
<1>3. GoodPort(o)
  BY <1>2 DEF GoodPort
<1>4. ASSUME NEW x, GoodPort(x)
      PROVE  LET y == [x EXCEPT !.leaveAllPending = TRUE] IN
             /\ GoodPort(y) /\ y.role = x.role /\ y.app = x.app /\ y.reg = x.reg
             /\ y.leave = x.leave /\ y.join = x.join /\ y.periodic = x.periodic
             /\ y.leaveAllPending
  BY <1>4 DEF GoodPort, PortState
<1>5. ASSUME NEW t \in Nat
      PROVE  LET y == RegistrarsStep(o, in, "rLA", t) IN
             /\ GoodPort(y) /\ y.role = p.role /\ y.app = p.app
             /\ y.join = p.join /\ y.periodic = p.periodic
             /\ y.leaveAllPending = p.leaveAllPending
             /\ \A a \in Attr : \/ y.reg[a] = p.reg[a] /\ y.leave[a] = p.leave[a]
                                \/ p.reg[a] = "IN" /\ y.reg[a] = "LV" /\ y.leave[a] = t
  <2> DEFINE y == RegistrarsStep(o, in, "rLA", t)
  <2>1. t \in Nat \cup {Off} /\ t # Off
    BY DEF Off
  <2>2. /\ GoodPort(y) /\ y.role = p.role /\ y.app = p.app
        /\ y.join = p.join /\ y.periodic = p.periodic
        /\ y.leaveAllPending = p.leaveAllPending
        /\ \A a \in Attr :
             /\ a \notin in => y.reg[a] = p.reg[a] /\ y.leave[a] = p.leave[a]
             /\ a \in in => y.reg[a] = RegistrarStep(p.reg[a], "rLA")
             /\ a \in in /\ y.reg[a] = "LV" => y.leave[a] = t
    <3> HIDE DEF o, in
    <3>1. /\ GoodPort(y) /\ y.role = o.role /\ y.app = o.app
          /\ y.join = o.join /\ y.periodic = o.periodic
          /\ y.leaveAllPending = o.leaveAllPending
          /\ \A a \in Attr :
               /\ a \notin in => y.reg[a] = o.reg[a] /\ y.leave[a] = o.leave[a]
               /\ a \in in => y.reg[a] = RegistrarStep(o.reg[a], "rLA")
               /\ a \in in /\ "rLA" \in {"rLv", "rLA"} /\ y.reg[a] = "LV" => y.leave[a] = t
      BY <1>3, <2>1, RegStepDoes
    <3> HIDE DEF y
    <3> QED
      BY <1>2, <3>1
  <2>3. RegistrarStep("IN", "rLA") = "LV"
    BY DEF RegistrarStep
  <2> HIDE DEF y
  <2> QED
    BY <2>2, <2>3 DEF y
<1>6. o.reg = p.reg
  BY <1>2
<1>7. CASE p.leaveAll # 0
  BY <1>7 DEF LeaveAllTimer
<1>8. CASE p.leaveAll = 0 /\ suppress
  BY <1>2, <1>3, <1>8 DEF LeaveAllTimer
<1>9. CASE p.leaveAll = 0 /\ ~suppress /\ p.role = "sta"
  <2>1. q = [RegistrarsStep(o, in, "rLA", SelfLeaveTime) EXCEPT !.leaveAllPending = TRUE]
    BY <1>2, <1>6, <1>9 DEF LeaveAllTimer, SelfLeaveAll
  <2> HIDE DEF q, o, in
  <2> QED
    BY <1>4, <1>5, <1>9, <2>1, LinkNumbers DEF q
<1>10. CASE p.leaveAll = 0 /\ ~suppress /\ p.role = "switch"
  <2>1. q = [Arm(RegistrarsStep(o, in, "rLA", SwitchLeaveTime), j) EXCEPT !.leaveAllPending = TRUE]
    BY <1>2, <1>6, <1>10 DEF LeaveAllTimer, SwitchLeaveAll
  <2> DEFINE y == RegistrarsStep(o, in, "rLA", SwitchLeaveTime)
             z == Arm(y, j)
  <2>2. /\ GoodPort(y) /\ y.role = p.role /\ y.app = p.app
        /\ y.join = p.join /\ y.periodic = p.periodic
        /\ y.leaveAllPending = p.leaveAllPending
        /\ \A a \in Attr : \/ y.reg[a] = p.reg[a] /\ y.leave[a] = p.leave[a]
                           \/ p.reg[a] = "IN" /\ y.reg[a] = "LV" /\ y.leave[a] = SwitchLeaveTime
    BY <1>5, LinkNumbers
  <2> HIDE DEF y, q, o, in
  <2>3. /\ GoodPort(z) /\ z.role = y.role /\ z.app = y.app /\ z.reg = y.reg
        /\ z.leave = y.leave /\ z.periodic = y.periodic
        /\ z.join # Off /\ (y.join # Off => z.join = y.join)
    BY <2>2, ArmDoes
  <2> HIDE DEF z
  <2>4. q = [z EXCEPT !.leaveAllPending = TRUE]
    BY <2>1 DEF y, z
  <2>5. /\ GoodPort(q) /\ q.role = z.role /\ q.app = z.app /\ q.reg = z.reg
        /\ q.leave = z.leave /\ q.join = z.join /\ q.periodic = z.periodic
        /\ q.leaveAllPending
    BY <1>4, <2>3, <2>4
  <2> QED
    BY <1>10, <2>2, <2>3, <2>5 DEF q
<1>11. CASE p.leaveAll = 0 /\ ~suppress /\ p.role \notin {"sta", "switch"}
  <2>1. q = [o EXCEPT !.leaveAllPending = TRUE]
    BY <1>2, <1>11 DEF LeaveAllTimer
  <2> HIDE DEF q, o
  <2> QED
    BY <1>2, <1>3, <1>4, <2>1 DEF q
<1> QED
  BY <1>7, <1>8, <1>9, <1>10, <1>11

LEMMA PeriodicDoes ==
  ASSUME NEW p, GoodPort(p), NEW j \in 0..JoinMax
  PROVE  LET q == Periodic(p, j) IN
         /\ GoodPort(q) /\ q.role = p.role /\ q.reg = p.reg /\ q.leave = p.leave
         /\ q.leaveAllPending = p.leaveAllPending
         /\ p.join # Off => q.join = p.join
         /\ p.periodic # 0 => q = p
         /\ p.periodic = 0 => /\ q.join # Off
                              /\ \A a \in Attr : q.app[a] = OnPeriodic(p.app[a])
<1>1. CASE p.periodic # 0
  BY <1>1 DEF Periodic
<1>2. CASE p.periodic = 0
  <2> DEFINE o == [p EXCEPT !.periodic = PeriodicTime]
             y == AppStep(o, Attr, "periodic")
             q == Periodic(p, j)
  <2>1. /\ GoodPort(o) /\ o.role = p.role /\ o.app = p.app /\ o.reg = p.reg
        /\ o.leave = p.leave /\ o.join = p.join /\ o.leaveAllPending = p.leaveAllPending
    BY LinkNumbers DEF GoodPort, PortState
  <2>2. q = Arm(y, j)
    BY <1>2 DEF Periodic
  <2> HIDE DEF o
  <2>3. /\ GoodPort(y) /\ y.role = o.role /\ y.reg = o.reg /\ y.leave = o.leave
        /\ y.join = o.join /\ y.leaveAllPending = o.leaveAllPending
        /\ \A a \in Attr : y.app[a] = ApplicantStep(o.app[a], "periodic")
    BY <2>1, AppStepDoes
  <2>4. \A s : ApplicantStep(s, "periodic") = OnPeriodic(s)
    BY DEF ApplicantStep, TxEvent
  <2> HIDE DEF y
  <2>5. /\ GoodPort(q) /\ q.role = y.role /\ q.app = y.app /\ q.reg = y.reg
        /\ q.leave = y.leave /\ q.leaveAllPending = y.leaveAllPending
        /\ q.join # Off /\ (y.join # Off => q.join = y.join)
    BY <2>2, <2>3, ArmDoes
  <2> HIDE DEF q
  <2> QED
    BY <1>2, <2>1, <2>3, <2>4, <2>5 DEF q
<1> QED
  BY <1>1, <1>2

LEMMA FlushedDoes ==
  ASSUME NEW p, GoodPort(p)
  PROVE  LET q == Flushed(p) IN
         /\ GoodPort(q) /\ q.role = p.role /\ q.reg = p.reg /\ q.leave = p.leave
         /\ q.periodic = p.periodic /\ q.join = Off /\ ~q.leaveAllPending
         /\ \A a \in Attr : q.app[a] = OnTx(p.app[a], FlushEvent(p))
<1> DEFINE y == AppStep(p, Attr, FlushEvent(p))
<1>1. /\ GoodPort(y) /\ y.role = p.role /\ y.reg = p.reg /\ y.leave = p.leave
      /\ y.periodic = p.periodic
      /\ \A a \in Attr : y.app[a] = ApplicantStep(p.app[a], FlushEvent(p))
  BY AppStepDoes
<1>2. \A s : ApplicantStep(s, FlushEvent(p)) = OnTx(s, FlushEvent(p))
  BY DEF ApplicantStep, TxEvent, FlushEvent
<1>3. Flushed(p) = [y EXCEPT !.join = Off, !.leaveAllPending = FALSE]
  BY DEF Flushed
<1> HIDE DEF y
<1>4. Off \in Off..JoinMax
  BY LinkNumbers DEF Off
<1> DEFINE q == [y EXCEPT !.join = Off, !.leaveAllPending = FALSE]
<1>5. y \in PortState
  BY <1>1 DEF GoodPort
<1>6. /\ q \in PortState /\ q.role = y.role /\ q.app = y.app /\ q.reg = y.reg
      /\ q.leave = y.leave /\ q.periodic = y.periodic /\ q.join = Off
      /\ q.leaveAllPending = FALSE
  BY <1>4, <1>5 DEF PortState
<1> HIDE DEF q
<1>7. GoodPort(q)
  BY <1>1, <1>6 DEF GoodPort
<1>8. Flushed(p) = q
  BY <1>3 DEF q
<1>9. \A a \in Attr : q.app[a] = OnTx(p.app[a], FlushEvent(p))
  BY <1>1, <1>2, <1>6
<1> QED
  BY <1>1, <1>6, <1>7, <1>8, <1>9

LEMMA LeaveTimersDoes ==
  ASSUME NEW p, GoodPort(p)
  PROVE  LET q == LeaveTimers(p) IN
         /\ GoodPort(q) /\ q.role = p.role /\ q.app = p.app /\ q.join = p.join
         /\ q.leaveAll = p.leaveAll /\ q.periodic = p.periodic
         /\ q.leaveAllPending = p.leaveAllPending
         /\ \A a \in Attr :
              p.leave[a] # 0 => q.reg[a] = p.reg[a] /\ q.leave[a] = p.leave[a]
<1> DEFINE S == {a \in Attr : p.leave[a] = 0}
           ev == "leaveTimer"
           t == Off
           q == RegistrarsStep(p, S, ev, t)
<1>1. \A a \in Attr : p.leave[a] # 0 => a \notin S
  OBVIOUS
<1>2. LeaveTimers(p) = q
  BY DEF LeaveTimers
<1>3. t \in Nat \cup {Off} /\ (ev \in {"rLv", "rLA"} => t # Off)
  OBVIOUS
<1> HIDE DEF S, ev, t
<1>4. /\ GoodPort(q) /\ q.role = p.role /\ q.app = p.app /\ q.join = p.join
      /\ q.leaveAll = p.leaveAll /\ q.periodic = p.periodic
      /\ q.leaveAllPending = p.leaveAllPending
      /\ \A a \in Attr : a \notin S => q.reg[a] = p.reg[a] /\ q.leave[a] = p.leave[a]
  BY <1>3, RegStepDoes
<1> HIDE DEF q
<1> QED
  BY <1>1, <1>2, <1>4

LEMMA OnLeaveAllDoes ==
  ASSUME NEW p, GoodPort(p), NEW j \in 0..JoinMax
  PROVE  LET q == OnLeaveAll(p, j) IN
         /\ GoodPort(q) /\ q.role = p.role /\ q.periodic = p.periodic
         /\ q.leaveAllPending = p.leaveAllPending
         /\ p.join # Off => q.join = p.join
         /\ ArmsOnLeaveAll => q.join # Off
         /\ \A a \in Attr : /\ q.app[a] = OnRLeave(p.app[a])
                            /\ q.reg[a] = RegistrarStep(p.reg[a], "rLA")
                            /\ q.reg[a] = "LV" => q.leave[a] = LeaveTime
<1> DEFINE x == AppStep(p, Attr, "rLA")
           ev == "rLA"
           y == RegistrarsStep(x, Attr, ev, LeaveTime)
           q == OnLeaveAll(p, j)
<1>1. \A s : ApplicantStep(s, "rLA") = OnRLeave(s)
  BY DEF ApplicantStep, TxEvent
<1>2. /\ GoodPort(x) /\ x.role = p.role /\ x.reg = p.reg
      /\ x.join = p.join /\ x.periodic = p.periodic
      /\ x.leaveAllPending = p.leaveAllPending
      /\ \A a \in Attr : x.app[a] = ApplicantStep(p.app[a], "rLA")
  BY AppStepDoes
<1> HIDE DEF x
<1>3. /\ ev \in {"rLv", "rLA"} /\ LeaveTime \in Nat \cup {Off}
      /\ (ev \in {"rLv", "rLA"} => LeaveTime # Off)
  BY LinkNumbers DEF Off
<1>4. q = IF ArmsOnLeaveAll \/ p.role = "switch" THEN Arm(y, j) ELSE y
  BY DEF OnLeaveAll, x
<1>5. ev = "rLA"
  OBVIOUS
<1> HIDE DEF ev, q
<1>6. /\ GoodPort(y) /\ y.role = x.role /\ y.app = x.app /\ y.join = x.join
      /\ y.periodic = x.periodic /\ y.leaveAllPending = x.leaveAllPending
      /\ \A a \in Attr : /\ a \in Attr => y.reg[a] = RegistrarStep(x.reg[a], ev)
                         /\ a \in Attr /\ ev \in {"rLv", "rLA"} /\ y.reg[a] = "LV" => y.leave[a] = LeaveTime
  BY <1>2, <1>3, RegStepDoes
<1> HIDE DEF y
<1>7. \A a \in Attr : /\ y.app[a] = OnRLeave(p.app[a])
                      /\ y.reg[a] = RegistrarStep(p.reg[a], "rLA")
                      /\ y.reg[a] = "LV" => y.leave[a] = LeaveTime
  BY <1>1, <1>2, <1>3, <1>5, <1>6
<1>8. CASE ArmsOnLeaveAll \/ p.role = "switch"
  <2>1. /\ GoodPort(q) /\ q.role = y.role /\ q.app = y.app /\ q.reg = y.reg
        /\ q.leave = y.leave /\ q.periodic = y.periodic
        /\ q.leaveAllPending = y.leaveAllPending
        /\ q.join # Off /\ (y.join # Off => q.join = y.join)
    BY <1>4, <1>6, <1>8, ArmDoes
  <2> QED
    BY <1>2, <1>6, <1>7, <2>1 DEF q
<1>9. CASE ~(ArmsOnLeaveAll \/ p.role = "switch")
  <2>1. q = y
    BY <1>4, <1>9
  <2> QED
    BY <1>2, <1>6, <1>7, <1>9, <2>1 DEF q
<1> QED
  BY <1>8, <1>9

LEMMA OnValueDoes ==
  ASSUME NEW p, GoodPort(p), NEW a \in Attr, NEW ev
  PROVE  LET q == OnValue(p, a, ev) IN
         /\ GoodPort(q) /\ q.role = p.role /\ q.periodic = p.periodic /\ q.join = p.join
         /\ q.leaveAllPending = p.leaveAllPending
         /\ q.app[a] = ApplicantStep(p.app[a], ev)
         /\ q.reg[a] = RegistrarStep(p.reg[a], ev)
         /\ ev = "rLv" /\ q.reg[a] = "LV" => q.leave[a] = LeaveTime
         /\ \A c \in Attr \ {a} : /\ q.app[c] = p.app[c] /\ q.reg[c] = p.reg[c]
                                  /\ q.leave[c] = p.leave[c]
<1> DEFINE S == {a}
           x == AppStep(p, S, ev)
           y == RegistrarsStep(x, S, ev, LeaveTime)
<1>1. a \in S /\ \A c \in Attr \ {a} : c \notin S
  OBVIOUS
<1>2. OnValue(p, a, ev) = y
  BY AttrsOrdered DEF OnValue
<1> HIDE DEF S
<1>3. /\ GoodPort(x) /\ x.role = p.role /\ x.reg = p.reg /\ x.leave = p.leave
      /\ x.join = p.join /\ x.periodic = p.periodic
      /\ x.leaveAllPending = p.leaveAllPending
      /\ \A c \in Attr : x.app[c] = IF c \in S THEN ApplicantStep(p.app[c], ev) ELSE p.app[c]
  BY AppStepDoes
<1> HIDE DEF x
<1>4. LeaveTime \in Nat \cup {Off} /\ LeaveTime # Off
  BY LinkNumbers DEF Off
<1>5. /\ GoodPort(y) /\ y.role = x.role /\ y.app = x.app /\ y.join = x.join
      /\ y.periodic = x.periodic /\ y.leaveAllPending = x.leaveAllPending
      /\ \A c \in Attr :
           /\ c \notin S => y.reg[c] = x.reg[c] /\ y.leave[c] = x.leave[c]
           /\ c \in S => y.reg[c] = RegistrarStep(x.reg[c], ev)
           /\ c \in S /\ ev \in {"rLv", "rLA"} /\ y.reg[c] = "LV" => y.leave[c] = LeaveTime
  BY <1>3, <1>4, RegStepDoes
<1> HIDE DEF y
<1> QED
  BY <1>1, <1>2, <1>3, <1>5

\* What the timers of a port leave, and what it sends of that.
TickLeaves(n, p) ==
  /\ GoodPort(p) /\ p.role = port[n].role
  /\ port[n].join # Off => p.join = port[n].join
  /\ port[n].leaveAllPending => p.leaveAllPending
  /\ \/ /\ port[n].periodic # 0 /\ p.periodic = port[n].periodic
        /\ p.app = port[n].app
     \/ /\ port[n].periodic = 0 /\ p.join # Off
        /\ \A a \in Attr : p.app[a] = OnPeriodic(port[n].app[a])
  /\ \A a \in Attr :
       \/ p.reg[a] = port[n].reg[a] /\ p.leave[a] = port[n].leave[a]
       \/ /\ port[n].reg[a] = "IN" /\ p.reg[a] = "LV"
          /\ \/ p.role = "sta" /\ p.leave[a] = SelfLeaveTime
             \/ /\ p.role = "switch" /\ p.leave[a] = SwitchLeaveTime
                /\ p.leaveAllPending /\ p.join # Off
  /\ \A a \in Attr : p.leave[a] # 0 =>
       port'[n].reg[a] = p.reg[a] /\ port'[n].leave[a] = p.leave[a]
  /\ port'[n].periodic = p.periodic
  /\ \/ /\ p.join # 0 /\ chan' = chan
        /\ port'[n].app = p.app /\ port'[n].join = p.join
        /\ port'[n].leaveAllPending = p.leaveAllPending
     \/ /\ p.join = 0
        /\ chan' = [chan EXCEPT ![Peer(n)] = @ \o Sent(p)]
        /\ port'[n].join = Off /\ ~port'[n].leaveAllPending
        /\ \A a \in Attr : port'[n].app[a] = OnTx(p.app[a], FlushEvent(p))

LEMMA TickDoes ==
  ASSUME NEW n \in Node, port \in [Node -> PortState], GoodPort(port[n]),
         chan \in [Node -> Seq(Mrpdu)], PortTick(n)
  PROVE  /\ GoodPort(port'[n]) /\ port'[n].role = port[n].role
         /\ \A m \in Node : m # n => port'[m] = port[m]
         /\ port' \in [Node -> PortState]
         /\ \E p : TickLeaves(n, p)
<1>1. PICK la \in LeaveAllMin..LeaveAllMax, j \in 0..JoinMax :
        LET p == Periodic(LeaveAllTimer(port[n], Suppressed(n), la, j), j)
            fires == p.join = 0
        IN  /\ port' = [port EXCEPT ![n] = LeaveTimers(IF fires THEN Flushed(p) ELSE p)]
            /\ chan' = [chan EXCEPT ![Peer(n)] = IF fires THEN @ \o Sent(p) ELSE @]
  BY DEF PortTick
<1> DEFINE o == port[n]
           x == LeaveAllTimer(o, Suppressed(n), la, j)
           p == Periodic(x, j)
           y == IF p.join = 0 THEN Flushed(p) ELSE p
           z == LeaveTimers(y)
<1>2. /\ port' = [port EXCEPT ![n] = z]
      /\ chan' = [chan EXCEPT ![Peer(n)] = IF p.join = 0 THEN @ \o Sent(p) ELSE @]
  BY <1>1
<1>3. Suppressed(n) \in BOOLEAN
  BY DEF Suppressed
<1>4. GoodPort(o)
  OBVIOUS
<1>5. /\ GoodPort(x) /\ x.role = o.role /\ x.app = o.app /\ x.periodic = o.periodic
      /\ o.join # Off => x.join = o.join
      /\ o.leaveAllPending => x.leaveAllPending
      /\ \A a \in Attr :
           \/ x.reg[a] = o.reg[a] /\ x.leave[a] = o.leave[a]
           \/ /\ o.reg[a] = "IN" /\ x.reg[a] = "LV"
              /\ \/ o.role = "sta" /\ x.leave[a] = SelfLeaveTime
                 \/ /\ o.role = "switch" /\ x.leave[a] = SwitchLeaveTime
                    /\ x.leaveAllPending /\ x.join # Off
  <2> HIDE DEF o
  <2> QED
    BY <1>3, <1>4, LeaveAllDoes
<1> HIDE DEF x
<1>6. /\ GoodPort(p) /\ p.role = x.role /\ p.reg = x.reg /\ p.leave = x.leave
      /\ p.leaveAllPending = x.leaveAllPending
      /\ x.join # Off => p.join = x.join
      /\ x.periodic # 0 => p = x
      /\ x.periodic = 0 => /\ p.join # Off
                           /\ \A a \in Attr : p.app[a] = OnPeriodic(x.app[a])
  BY <1>5, PeriodicDoes
<1> HIDE DEF p
<1>7. /\ GoodPort(y) /\ y.role = p.role /\ y.reg = p.reg /\ y.leave = p.leave
      /\ y.periodic = p.periodic
      /\ p.join # 0 => y = p
      /\ p.join = 0 => /\ y.join = Off /\ ~y.leaveAllPending
                       /\ \A a \in Attr : y.app[a] = OnTx(p.app[a], FlushEvent(p))
  BY <1>6, FlushedDoes
<1> HIDE DEF y
<1>8. /\ GoodPort(z) /\ z.role = y.role /\ z.app = y.app /\ z.join = y.join
      /\ z.periodic = y.periodic /\ z.leaveAllPending = y.leaveAllPending
      /\ \A a \in Attr :
           y.leave[a] # 0 => z.reg[a] = y.reg[a] /\ z.leave[a] = y.leave[a]
  BY <1>7, LeaveTimersDoes
<1> HIDE DEF z
<1>9. /\ port'[n] = z /\ port' \in [Node -> PortState]
      /\ \A m \in Node : m # n => port'[m] = port[m]
  BY <1>2, <1>8 DEF GoodPort
<1>10. CASE p.join # 0
  <2>1. chan' = chan
    BY <1>2, <1>10, PeerIs
  <2>2. /\ GoodPort(p) /\ p.role = o.role
        /\ o.join # Off => p.join = o.join
        /\ o.leaveAllPending => p.leaveAllPending
        /\ \/ o.periodic # 0 /\ p.periodic = o.periodic /\ p.app = o.app
           \/ o.periodic = 0 /\ p.join # Off /\ \A a \in Attr : p.app[a] = OnPeriodic(o.app[a])
    BY <1>5, <1>6
  <2>3. \A a \in Attr :
           \/ p.reg[a] = o.reg[a] /\ p.leave[a] = o.leave[a]
           \/ /\ o.reg[a] = "IN" /\ p.reg[a] = "LV"
              /\ \/ p.role = "sta" /\ p.leave[a] = SelfLeaveTime
                 \/ /\ p.role = "switch" /\ p.leave[a] = SwitchLeaveTime
                    /\ p.leaveAllPending /\ p.join # Off
    BY <1>5, <1>6
  <2>4. /\ \A a \in Attr : p.leave[a] # 0 =>
              port'[n].reg[a] = p.reg[a] /\ port'[n].leave[a] = p.leave[a]
        /\ port'[n].periodic = p.periodic
        /\ port'[n].app = p.app /\ port'[n].join = p.join
        /\ port'[n].leaveAllPending = p.leaveAllPending
        /\ GoodPort(port'[n]) /\ port'[n].role = p.role
    BY <1>7, <1>8, <1>9, <1>10
  <2> QED
    BY <1>9, <1>10, <2>1, <2>2, <2>3, <2>4 DEF TickLeaves
<1>11. CASE p.join = 0
  <2>1. chan' = [chan EXCEPT ![Peer(n)] = @ \o Sent(p)]
    BY <1>2, <1>11
  <2>2. /\ GoodPort(p) /\ p.role = o.role
        /\ o.join # Off => p.join = o.join
        /\ o.leaveAllPending => p.leaveAllPending
        /\ \/ o.periodic # 0 /\ p.periodic = o.periodic /\ p.app = o.app
           \/ o.periodic = 0 /\ p.join # Off /\ \A a \in Attr : p.app[a] = OnPeriodic(o.app[a])
    BY <1>5, <1>6
  <2>3. \A a \in Attr :
           \/ p.reg[a] = o.reg[a] /\ p.leave[a] = o.leave[a]
           \/ /\ o.reg[a] = "IN" /\ p.reg[a] = "LV"
              /\ \/ p.role = "sta" /\ p.leave[a] = SelfLeaveTime
                 \/ /\ p.role = "switch" /\ p.leave[a] = SwitchLeaveTime
                    /\ p.leaveAllPending /\ p.join # Off
    BY <1>5, <1>6
  <2>4. /\ \A a \in Attr : p.leave[a] # 0 =>
              port'[n].reg[a] = p.reg[a] /\ port'[n].leave[a] = p.leave[a]
        /\ port'[n].periodic = p.periodic
        /\ port'[n].join = Off /\ ~port'[n].leaveAllPending
        /\ \A a \in Attr : port'[n].app[a] = OnTx(p.app[a], FlushEvent(p))
        /\ GoodPort(port'[n]) /\ port'[n].role = p.role
    BY <1>7, <1>8, <1>9, <1>11
  <2> QED
    BY <1>9, <1>11, <2>1, <2>2, <2>3, <2>4 DEF TickLeaves
<1> QED
  BY <1>10, <1>11

\* What the LeaveAll of an MRPDU leaves, and its value makes of that.
HeardLeaves(n, p) ==
  LET msg == Head(chan[n])
  IN /\ GoodPort(p) /\ p.role = port[n].role
     /\ \/ p = port[n] /\ ~msg.leaveAll
        \/ /\ msg.leaveAll
           /\ p.periodic = port[n].periodic
           /\ p.leaveAllPending = port[n].leaveAllPending
           /\ port[n].join # Off => p.join = port[n].join
           /\ ArmsOnLeaveAll => p.join # Off
           /\ \A a \in Attr :
                /\ p.app[a] = OnRLeave(port[n].app[a])
                /\ p.reg[a] = RegistrarStep(port[n].reg[a], "rLA")
                /\ p.reg[a] = "LV" => p.leave[a] = LeaveTime
     /\ \/ msg.attr = NoAttr /\ port'[n] = p
        \/ /\ msg.attr \in Attr
           /\ port'[n].periodic = p.periodic /\ port'[n].join = p.join
           /\ port'[n].leaveAllPending = p.leaveAllPending
           /\ port'[n].app[msg.attr] = ApplicantStep(p.app[msg.attr], msg.ev)
           /\ port'[n].reg[msg.attr] = RegistrarStep(p.reg[msg.attr], msg.ev)
           /\ msg.ev = "rLv" /\ port'[n].reg[msg.attr] = "LV" =>
                port'[n].leave[msg.attr] = LeaveTime
           /\ \A c \in Attr \ {msg.attr} :
                /\ port'[n].app[c] = p.app[c] /\ port'[n].reg[c] = p.reg[c]
                /\ port'[n].leave[c] = p.leave[c]

LEMMA ReceiveDoes ==
  ASSUME NEW n \in Node, port \in [Node -> PortState], GoodPort(port[n]), alive[n],
         chan \in [Node -> Seq(Mrpdu)], Receive(n)
  PROVE  LET msg == Head(chan[n]) IN
         /\ chan[n] # << >> /\ msg \in Mrpdu
         /\ chan' = [chan EXCEPT ![n] = Tail(@)]
         /\ GoodPort(port'[n]) /\ port'[n].role = port[n].role
         /\ \A m \in Node : m # n => port'[m] = port[m]
         /\ port' \in [Node -> PortState]
         /\ \E p : HeardLeaves(n, p)
<1> DEFINE msg == Head(chan[n])
<1>1. PICK j \in 0..JoinMax :
        port' = [port EXCEPT ![n] =
                   OnValue(IF msg.leaveAll THEN OnLeaveAll(@, j) ELSE @, msg.attr, msg.ev)]
  BY DEF Receive
<1>2. /\ chan[n] # << >> /\ msg \in Mrpdu
      /\ chan' = [chan EXCEPT ![n] = Tail(@)]
  <2>1. chan[n] # << >> /\ chan' = [chan EXCEPT ![n] = Tail(@)]
    BY DEF Receive
  <2>2. chan[n] \in Seq(Mrpdu)
    OBVIOUS
  <2> QED
    BY <2>1, <2>2, HeadTailProperties
<1> DEFINE o == port[n]
           p == IF msg.leaveAll THEN OnLeaveAll(o, j) ELSE o
           q == OnValue(p, msg.attr, msg.ev)
<1>3. port' = [port EXCEPT ![n] = q]
  BY <1>1
<1>4. msg.leaveAll \in BOOLEAN /\ msg.attr \in Attr \cup {NoAttr}
  <2>1. CASE msg = PureLeaveAll
    <3>1. PureLeaveAll.leaveAll = TRUE /\ PureLeaveAll.attr = NoAttr
      BY DEF PureLeaveAll
    <3> HIDE DEF msg
    <3> QED
      BY <2>1, <3>1
  <2>2. CASE msg \in [attr: Attr, ev: WireEvent, leaveAll: BOOLEAN]
    BY <2>2
  <2> QED
    BY <1>2, <2>1, <2>2 DEF Mrpdu
<1> HIDE DEF msg
<1>5. GoodPort(o)
  OBVIOUS
<1>6. /\ GoodPort(p) /\ p.role = o.role
      /\ \/ p = o /\ ~msg.leaveAll
         \/ /\ msg.leaveAll
            /\ p.periodic = o.periodic
            /\ p.leaveAllPending = o.leaveAllPending
            /\ o.join # Off => p.join = o.join
            /\ ArmsOnLeaveAll => p.join # Off
            /\ \A a \in Attr :
                 /\ p.app[a] = OnRLeave(o.app[a])
                 /\ p.reg[a] = RegistrarStep(o.reg[a], "rLA")
                 /\ p.reg[a] = "LV" => p.leave[a] = LeaveTime
  <2> HIDE DEF o
  <2>1. CASE msg.leaveAll
    <3>1. p = OnLeaveAll(o, j)
      BY <2>1
    <3> HIDE DEF p
    <3> QED
      BY <1>5, <2>1, <3>1, OnLeaveAllDoes
  <2>2. CASE ~msg.leaveAll
    BY <1>5, <2>2
  <2> QED
    BY <2>1, <2>2
<1> HIDE DEF p
<1>7. port'[n] = q /\ \A m \in Node : m # n => port'[m] = port[m]
  BY <1>3
<1>8. GoodPort(q) => port' \in [Node -> PortState]
  BY <1>3 DEF GoodPort
<1>9. CASE msg.attr = NoAttr
  <2>1. q = p
    BY <1>9 DEF OnValue
  <2> HIDE DEF q
  <2> QED
    <3>1. port'[n] = p /\ GoodPort(port'[n]) /\ port'[n].role = port[n].role
      BY <1>6, <1>7, <2>1
    <3>2. port' \in [Node -> PortState]
      BY <1>7, <1>8, <3>1
    <3>3. HeardLeaves(n, p)
      BY <1>6, <1>9, <3>1 DEF msg, HeardLeaves
    <3> QED
      BY <1>2, <1>7, <3>1, <3>2, <3>3 DEF msg
<1>10. CASE msg.attr \in Attr
  <2>1. /\ GoodPort(q) /\ q.role = p.role /\ q.periodic = p.periodic /\ q.join = p.join
        /\ q.leaveAllPending = p.leaveAllPending
        /\ q.app[msg.attr] = ApplicantStep(p.app[msg.attr], msg.ev)
        /\ q.reg[msg.attr] = RegistrarStep(p.reg[msg.attr], msg.ev)
        /\ msg.ev = "rLv" /\ q.reg[msg.attr] = "LV" => q.leave[msg.attr] = LeaveTime
        /\ \A c \in Attr \ {msg.attr} : /\ q.app[c] = p.app[c] /\ q.reg[c] = p.reg[c]
                                        /\ q.leave[c] = p.leave[c]
    BY <1>6, <1>10, OnValueDoes
  <2> HIDE DEF q
  <2>2. /\ msg.attr \in Attr
        /\ port'[n].periodic = p.periodic /\ port'[n].join = p.join
        /\ port'[n].leaveAllPending = p.leaveAllPending
        /\ port'[n].app[msg.attr] = ApplicantStep(p.app[msg.attr], msg.ev)
        /\ port'[n].reg[msg.attr] = RegistrarStep(p.reg[msg.attr], msg.ev)
        /\ msg.ev = "rLv" /\ port'[n].reg[msg.attr] = "LV" =>
             port'[n].leave[msg.attr] = LeaveTime
        /\ \A c \in Attr \ {msg.attr} :
             /\ port'[n].app[c] = p.app[c] /\ port'[n].reg[c] = p.reg[c]
             /\ port'[n].leave[c] = p.leave[c]
    BY <1>7, <1>10, <2>1
  <2>3. GoodPort(port'[n]) /\ port'[n].role = o.role /\ port' \in [Node -> PortState]
    BY <1>6, <1>7, <1>8, <2>1
  <2> QED
    <3>1. HeardLeaves(n, p)
      BY <1>6, <2>2 DEF msg, HeardLeaves
    <3> QED
      BY <1>2, <1>7, <2>3, <3>1 DEF msg
<1> QED
  BY <1>4, <1>9, <1>10

\* An application begins or ends a declaration: one Applicant steps, and the
\* JoinTimer runs.
LEMMA ChangeDoes ==
  ASSUME NEW n \in Node, NEW a \in Attr, port \in [Node -> PortState], GoodPort(port[n]),
         Declare(n, a) \/ Withdraw(n, a)
  PROVE  /\ GoodPort(port'[n]) /\ port' \in [Node -> PortState]
         /\ \A m \in Node : m # n => port'[m] = port[m]
         /\ port'[n].role = port[n].role /\ port'[n].reg = port[n].reg
         /\ port'[n].leave = port[n].leave /\ port'[n].periodic = port[n].periodic
         /\ port'[n].leaveAllPending = port[n].leaveAllPending
         /\ port'[n].join # Off /\ (port[n].join # Off => port'[n].join = port[n].join)
         /\ \A c \in Attr \ {a} : port'[n].app[c] = port[n].app[c]
         /\ Declare(n, a) =>
              port'[n].app[a] = ApplicantStep(port[n].app[a], DeclareEvent(port[n].app[a]))
         /\ Withdraw(n, a) => port'[n].app[a] = OnLv(port[n].app[a])
<1> DEFINE o == port[n]
<1>1. GoodPort(o) /\ o \in PortState
  OBVIOUS
<1>2. ASSUME NEW x, GoodPort(x), x.role = o.role, x.reg = o.reg, x.leave = o.leave,
             x.join = o.join, x.periodic = o.periodic, x.leaveAllPending = o.leaveAllPending,
             \A c \in Attr \ {a} : x.app[c] = o.app[c],
             NEW j \in 0..JoinMax, port' = [port EXCEPT ![n] = Arm(x, j)]
      PROVE  /\ GoodPort(port'[n]) /\ port' \in [Node -> PortState]
             /\ \A m \in Node : m # n => port'[m] = port[m]
             /\ port'[n].role = o.role /\ port'[n].reg = o.reg
             /\ port'[n].leave = o.leave /\ port'[n].periodic = o.periodic
             /\ port'[n].leaveAllPending = o.leaveAllPending
             /\ port'[n].join # Off /\ (o.join # Off => port'[n].join = o.join)
             /\ \A c \in Attr \ {a} : port'[n].app[c] = o.app[c]
             /\ port'[n].app[a] = x.app[a]
  <2> DEFINE z == Arm(x, j)
  <2>1. /\ GoodPort(z) /\ z.role = x.role /\ z.app = x.app /\ z.reg = x.reg
        /\ z.leave = x.leave /\ z.periodic = x.periodic
        /\ z.leaveAllPending = x.leaveAllPending
        /\ z.join # Off /\ (x.join # Off => z.join = x.join)
    BY <1>2, ArmDoes
  <2>2. port' = [port EXCEPT ![n] = z]
    BY <1>2
  <2> HIDE DEF z
  <2>3. port'[n] = z /\ port' \in [Node -> PortState] /\ \A m \in Node : m # n => port'[m] = port[m]
    BY <2>1, <2>2 DEF GoodPort
  <2> HIDE DEF o
  <2> QED
    BY <1>2, <2>1, <2>3
<1>3. CASE Declare(n, a)
  <2> DEFINE S == {a}
             ev == DeclareEvent(o.app[a])
             x == AppStep(o, S, ev)
  <2>1. PICK j \in 0..JoinMax : port' = [port EXCEPT ![n] = Arm(x, j)]
    BY <1>3 DEF Declare
  <2>2. a \in S /\ \A c \in Attr \ {a} : c \notin S
    OBVIOUS
  <2> HIDE DEF o, S, ev
  <2>3. /\ GoodPort(x) /\ x.role = o.role /\ x.reg = o.reg /\ x.leave = o.leave
        /\ x.join = o.join /\ x.periodic = o.periodic /\ x.leaveAllPending = o.leaveAllPending
        /\ \A c \in Attr : x.app[c] = IF c \in S THEN ApplicantStep(o.app[c], ev) ELSE o.app[c]
    BY <1>1, AppStepDoes
  <2> HIDE DEF x
  <2>4. x.app[a] = ApplicantStep(o.app[a], ev) /\ \A c \in Attr \ {a} : x.app[c] = o.app[c]
    BY <2>2, <2>3
  <2>5. /\ GoodPort(port'[n]) /\ port' \in [Node -> PortState]
        /\ \A m \in Node : m # n => port'[m] = port[m]
        /\ port'[n].role = o.role /\ port'[n].reg = o.reg
        /\ port'[n].leave = o.leave /\ port'[n].periodic = o.periodic
        /\ port'[n].leaveAllPending = o.leaveAllPending
        /\ port'[n].join # Off /\ (o.join # Off => port'[n].join = o.join)
        /\ \A c \in Attr \ {a} : port'[n].app[c] = o.app[c]
        /\ port'[n].app[a] = x.app[a]
    BY <1>2, <2>1, <2>3, <2>4
  <2>6. ~Withdraw(n, a)
    BY <1>3 DEF Declare, Withdraw
  <2> QED
    BY <2>4, <2>5, <2>6 DEF o, ev
<1>4. CASE Withdraw(n, a)
  <2> DEFINE x == Withdrawn(o, a)
  <2>1. PICK j \in 0..JoinMax : port' = [port EXCEPT ![n] = Arm(x, j)]
    BY <1>4 DEF Withdraw
  <2>2. WithdrawStep(o.app[a], FALSE) = OnLv(o.app[a])
    BY DEF WithdrawStep, ApplicantStep, TxEvent
  <2>3. o.app \in [Attr -> ApplicantState]
    BY <1>1, PortFields
  <2>4. OnLv(o.app[a]) \in ApplicantState
    BY <2>3 DEF OnLv, ApplicantState
  <2> HIDE DEF o
  <2> DEFINE app == [o.app EXCEPT ![a] = OnLv(o.app[a])]
  <2>5. x = [o EXCEPT !.app = app]
    BY <2>2 DEF Withdrawn
  <2>6. app \in [Attr -> ApplicantState] /\ app[a] = OnLv(o.app[a])
        /\ \A c \in Attr \ {a} : app[c] = o.app[c]
    BY <2>3, <2>4
  <2> HIDE DEF x, app
  <2>7. /\ x \in PortState /\ x.role = o.role /\ x.reg = o.reg /\ x.leave = o.leave
        /\ x.join = o.join /\ x.periodic = o.periodic /\ x.leaveAllPending = o.leaveAllPending
        /\ x.app = app
    BY <1>1, <2>5, <2>6 DEF PortState
  <2>8. GoodPort(x)
    BY <1>1, <2>7 DEF GoodPort
  <2>9. \A c \in Attr \ {a} : x.app[c] = o.app[c]
    BY <2>6, <2>7
  <2>10. /\ GoodPort(port'[n]) /\ port' \in [Node -> PortState]
         /\ \A m \in Node : m # n => port'[m] = port[m]
         /\ port'[n].role = o.role /\ port'[n].reg = o.reg
         /\ port'[n].leave = o.leave /\ port'[n].periodic = o.periodic
         /\ port'[n].leaveAllPending = o.leaveAllPending
         /\ port'[n].join # Off /\ (o.join # Off => port'[n].join = o.join)
         /\ \A c \in Attr \ {a} : port'[n].app[c] = o.app[c]
         /\ port'[n].app[a] = x.app[a]
    BY <1>2, <2>1, <2>7, <2>8, <2>9
  <2>11. ~Declare(n, a)
    BY <1>4 DEF Declare, Withdraw
  <2> QED
    BY <2>6, <2>7, <2>10, <2>11 DEF o
<1> QED
  BY <1>3, <1>4

\* A unit passes.
LEMMA AgedDoes ==
  ASSUME NEW p, GoodPort(p)
  PROVE  LET q == Aged(p) IN
         /\ GoodPort(q) /\ q.role = p.role /\ q.app = p.app /\ q.reg = p.reg
         /\ q.leaveAllPending = p.leaveAllPending
         /\ q.join = Down(p.join) /\ q.periodic = Down(p.periodic)
         /\ \A a \in Attr : q.leave[a] = Down(p.leave[a])
<1> DEFINE leave == [a \in Attr |-> Down(p.leave[a])]
           q == [p EXCEPT !.leave = leave, !.join = Down(p.join),
                          !.leaveAll = Down(p.leaveAll), !.periodic = Down(p.periodic)]
<1>1. p \in PortState
  BY DEF GoodPort
<1>2. q = Aged(p)
  BY DEF Aged
<1>3. Down(p.join) \in Off..JoinMax
  BY <1>1, PortFields, LinkNumbers DEF Down
<1>4. Down(p.leaveAll) \in 0..LeaveAllMax
  BY <1>1, PortFields, LinkNumbers DEF Down
<1>5. Down(p.periodic) \in 0..PeriodicTime
  BY <1>1, PortFields, LinkNumbers DEF Down
<1>6. ASSUME NEW a \in Attr
      PROVE  leave[a] \in Nat \cup {Off} /\ (leave[a] # Off <=> p.leave[a] # Off)
  <2>1. p.leave[a] \in Nat \cup {Off}
    BY <1>1, PortFields
  <2> QED
    BY <2>1 DEF Down, Off
<1>7. leave \in [Attr -> Nat \cup {Off}]
  BY <1>6
<1>8. \A a \in Attr : leave[a] = Down(p.leave[a])
  OBVIOUS
<1> HIDE DEF leave
<1>9. /\ q \in PortState /\ q.role = p.role /\ q.app = p.app /\ q.reg = p.reg
      /\ q.leaveAllPending = p.leaveAllPending /\ q.leave = leave
      /\ q.join = Down(p.join) /\ q.periodic = Down(p.periodic)
  BY <1>1, <1>3, <1>4, <1>5, <1>7 DEF PortState
<1> HIDE DEF q
<1>10. GoodPort(q)
  BY <1>6, <1>9 DEF GoodPort
<1> QED
  BY <1>2, <1>8, <1>9, <1>10

LEMMA PassDoes ==
  ASSUME port \in [Node -> PortState], \A n \in Node : GoodPort(port[n]), Pass
  PROVE  /\ port' \in [Node -> PortState]
         /\ \A n \in Node : /\ GoodPort(port'[n])
                            /\ port'[n] = IF alive[n] THEN Aged(port[n]) ELSE port[n]
<1>1. port' = [n \in Node |-> IF alive[n] THEN Aged(port[n]) ELSE port[n]]
  BY DEF Pass
<1>2. \A n \in Node : GoodPort(Aged(port[n]))
  BY AgedDoes
<1>3. \A n \in Node : port'[n] = IF alive[n] THEN Aged(port[n]) ELSE port[n]
  BY <1>1
<1>4. \A n \in Node : GoodPort(port'[n])
  BY <1>2, <1>3
<1>5. \A n \in Node : port'[n] \in PortState
  BY <1>4 DEF GoodPort
<1> QED
  BY <1>1, <1>3, <1>4, <1>5

\* An empty table.
LEMMA PortInitIs ==
  ASSUME NEW role \in Role, NEW la \in LeaveAllMin..LeaveAllMax, NEW per \in 1..PeriodicTime
  PROVE  LET q == PortInit(role, la, per) IN
         /\ GoodPort(q) /\ q.role = role
         /\ \A a \in Attr : q.app[a] = "VO"
<1> DEFINE app == [a \in Attr |-> "VO"]
           reg == [a \in Attr |-> "MT"]
           leave == [a \in Attr |-> Off]
<1>1. /\ app \in [Attr -> ApplicantState] /\ reg \in [Attr -> RegistrarState]
      /\ leave \in [Attr -> Nat \cup {Off}]
      /\ \A a \in Attr : app[a] = "VO" /\ reg[a] = "MT" /\ leave[a] = Off
  BY DEF ApplicantState, RegistrarState
<1> DEFINE q == [role |-> role, app |-> app, reg |-> reg, leave |-> leave, join |-> Off,
                 leaveAll |-> la, periodic |-> per, leaveAllPending |-> FALSE]
<1>2. PortInit(role, la, per) = q
  BY DEF PortInit
<1>3. Off \in Off..JoinMax /\ la \in 0..LeaveAllMax /\ per \in 0..PeriodicTime
  BY LinkNumbers DEF Off
<1> HIDE DEF app, reg, leave
<1>4. /\ q \in PortState /\ q.app = app /\ q.reg = reg /\ q.leave = leave /\ q.role = role
  BY <1>1, <1>3 DEF PortState
<1> HIDE DEF q
<1>5. GoodPort(q)
  BY <1>1, <1>4 DEF GoodPort
<1> QED
  BY <1>1, <1>2, <1>4, <1>5

-----------------------------------------------------------------------------
(* The type of the link. *)

LEMMA TypeGood ==
  ASSUME LinkTypeOK
  PROVE  /\ port \in [Node -> PortState] /\ \A n \in Node : GoodPort(port[n])
         /\ chan \in [Node -> Seq(Mrpdu)]
<1>1. \A n \in Node : port[n] \in PortState
  BY DEF LinkTypeOK
<1> QED
  BY <1>1 DEF LinkTypeOK, GoodPort

LEMMA GoodType ==
  ASSUME port' \in [Node -> PortState], \A n \in Node : GoodPort(port'[n]),
         decl' \in [Node -> SUBSET Attr], chan' \in [Node -> Seq(Mrpdu)],
         alive' \in [Node -> BOOLEAN], held' \in [Node -> [Attr -> 0..JoinMax + 1]],
         losses' \in 0..MaxLoss, crashes' \in 0..MaxCrash, changes' \in 0..MaxChange
  PROVE  LinkTypeOK'
BY DEF LinkTypeOK, GoodPort

LEMMA LinkTypeStart == LinkInit => LinkTypeOK
<1> SUFFICES ASSUME LinkInit PROVE LinkTypeOK
  OBVIOUS
<1>1. PICK role \in Roles, per \in [Node -> 1..PeriodicTime] :
        port = [n \in Node |-> PortInit(role[n], LeaveAllMin, per[n])]
  BY DEF LinkInit
<1>2. ASSUME NEW n \in Node PROVE GoodPort(port[n])
  <2>1. role[n] \in Role
    BY LinkAssumption
  <2>2. per[n] \in 1..PeriodicTime /\ LeaveAllMin \in LeaveAllMin..LeaveAllMax
    BY LinkNumbers
  <2>3. GoodPort(PortInit(role[n], LeaveAllMin, per[n]))
    BY <2>1, <2>2, PortInitIs
  <2> QED
    BY <1>1, <2>3
<1>3. port \in [Node -> PortState]
  BY <1>1, <1>2 DEF GoodPort
<1>4. /\ decl \in [Node -> SUBSET Attr] /\ chan \in [Node -> Seq(Mrpdu)]
      /\ alive \in [Node -> BOOLEAN]
      /\ losses \in 0..MaxLoss /\ crashes \in 0..MaxCrash /\ changes \in 0..MaxChange
  BY LinkAssumption DEF LinkInit
<1>5. held \in [Node -> [Attr -> 0..JoinMax + 1]]
  BY LinkNumbers DEF LinkInit
<1> QED
  BY <1>2, <1>3, <1>4, <1>5 DEF LinkTypeOK, GoodPort

LEMMA LinkTypeStep == LinkTypeOK /\ [LinkNext]_linkVars => LinkTypeOK'
<1> SUFFICES ASSUME LinkTypeOK, [LinkNext]_linkVars PROVE LinkTypeOK'
  OBVIOUS
<1>1. port \in [Node -> PortState] /\ chan \in [Node -> Seq(Mrpdu)]
  BY TypeGood
<1>2. \A n \in Node : GoodPort(port[n])
  BY TypeGood
<1>3. /\ decl \in [Node -> SUBSET Attr] /\ alive \in [Node -> BOOLEAN]
      /\ held \in [Node -> [Attr -> 0..JoinMax + 1]]
      /\ losses \in 0..MaxLoss /\ crashes \in 0..MaxCrash /\ changes \in 0..MaxChange
  BY DEF LinkTypeOK
<1>4. {MaxLoss, MaxCrash, MaxChange} \subseteq Nat
  BY LinkAssumption
<1>5. CASE Pass
  <2>1. port' \in [Node -> PortState] /\ \A n \in Node : GoodPort(port'[n])
    BY <1>1, <1>2, <1>5, PassDoes
  <2>2. held' \in [Node -> [Attr -> 0..JoinMax + 1]]
    <3>1. held' = [n \in Node |-> [a \in Attr |->
                     IF a \in decl[n] /\ held[n][a] <= JoinMax
                     THEN held[n][a] + 1 ELSE held[n][a]]]
      BY <1>5 DEF Pass
    <3>2. \A n \in Node : \A a \in Attr : held[n][a] \in 0..JoinMax + 1
      BY <1>3
    <3> QED
      BY <3>1, <3>2, LinkNumbers
  <2>3. UNCHANGED <<decl, chan, alive, losses, crashes, changes>>
    BY <1>5 DEF Pass
  <2> QED
    BY <1>1, <1>3, <2>1, <2>2, <2>3, GoodType
<1>6. ASSUME NEW n \in Node, PortTick(n) PROVE LinkTypeOK'
  <2>1. /\ GoodPort(port'[n]) /\ port' \in [Node -> PortState]
        /\ \A m \in Node : m # n => port'[m] = port[m]
    BY <1>1, <1>2, <1>6, TickDoes
  <2>2. PICK p : TickLeaves(n, p)
    <3>1. GoodPort(port[n])
      BY <1>2
    <3> QED
      BY <1>1, <1>6, <3>1, TickDoes
  <2>3. GoodPort(p) /\ (chan' = chan \/ chan' = [chan EXCEPT ![Peer(n)] = @ \o Sent(p)])
    BY <2>2 DEF TickLeaves
  <2>4. Peer(n) \in Node /\ chan[Peer(n)] \o Sent(p) \in Seq(Mrpdu)
    <3>1. Sent(p) \in Seq(Mrpdu)
      BY <2>3, SentIs DEF GoodPort
    <3> QED
      BY <1>1, <3>1, PeerIs, ConcatProperties
  <2>5. chan' \in [Node -> Seq(Mrpdu)]
    BY <1>1, <2>3, <2>4
  <2>6. UNCHANGED <<decl, alive, held, losses, crashes, changes>>
    BY <1>6 DEF PortTick
  <2>7. \A m \in Node : GoodPort(port'[m])
    BY <1>2, <2>1
  <2> QED
    BY <1>3, <2>1, <2>5, <2>6, <2>7, GoodType
<1>7. ASSUME NEW n \in Node, Receive(n) PROVE LinkTypeOK'
  <2>1. port' \in [Node -> PortState] /\ \A m \in Node : GoodPort(port'[m])
    <3>1. CASE alive[n]
      BY <1>1, <1>2, <1>7, <3>1, ReceiveDoes
    <3>2. CASE ~alive[n]
      BY <1>1, <1>2, <1>7, <3>2 DEF Receive
    <3> QED
      BY <3>1, <3>2
  <2>2. Tail(chan[n]) \in Seq(Mrpdu)
    BY <1>1, <1>7, HeadTailProperties DEF Receive
  <2>3. chan' \in [Node -> Seq(Mrpdu)]
    BY <1>1, <1>7, <2>2 DEF Receive
  <2>4. UNCHANGED <<decl, alive, held, losses, crashes, changes>>
    BY <1>7 DEF Receive
  <2> QED
    BY <1>3, <2>1, <2>3, <2>4, GoodType
<1>8. ASSUME NEW n \in Node, Lose(n) PROVE LinkTypeOK'
  <2>1. Tail(chan[n]) \in Seq(Mrpdu)
    BY <1>1, <1>8, HeadTailProperties DEF Lose
  <2>2. chan' \in [Node -> Seq(Mrpdu)]
    BY <1>1, <1>8, <2>1 DEF Lose
  <2>3. losses' \in 0..MaxLoss /\ UNCHANGED <<port, decl, alive, held, crashes, changes>>
    BY <1>3, <1>4, <1>8 DEF Lose
  <2> QED
    BY <1>1, <1>2, <1>3, <2>2, <2>3, GoodType
<1>9. ASSUME NEW n \in Node, Crash(n) PROVE LinkTypeOK'
  <2> DEFINE q == PortInit(port[n].role, LeaveAllMin, PeriodicTime)
  <2>1. GoodPort(q)
    <3>1. port[n].role \in Role
      BY <1>2, PortFields DEF GoodPort
    <3>2. LeaveAllMin \in LeaveAllMin..LeaveAllMax /\ PeriodicTime \in 1..PeriodicTime
      BY LinkNumbers
    <3> QED
      BY <3>1, <3>2, PortInitIs
  <2>2. port' = [port EXCEPT ![n] = q]
    BY <1>9 DEF Crash
  <2> HIDE DEF q
  <2>3. port' \in [Node -> PortState] /\ \A m \in Node : GoodPort(port'[m])
    BY <1>1, <1>2, <2>1, <2>2 DEF GoodPort
  <2>4. decl' \in [Node -> SUBSET Attr] /\ alive' \in [Node -> BOOLEAN]
    BY <1>3, <1>9 DEF Crash
  <2>5. held' \in [Node -> [Attr -> 0..JoinMax + 1]]
    BY <1>3, <1>9, LinkNumbers DEF Crash
  <2>6. crashes' \in 0..MaxCrash /\ UNCHANGED <<chan, losses, changes>>
    BY <1>3, <1>4, <1>9 DEF Crash
  <2> QED
    BY <1>1, <1>3, <2>3, <2>4, <2>5, <2>6, GoodType
<1>10. ASSUME NEW n \in Node, Restart(n) PROVE LinkTypeOK'
  <2>1. PICK la \in LeaveAllMin..LeaveAllMax :
          port' = [port EXCEPT ![n] = PortInit(@.role, la, PeriodicTime)]
    BY <1>10 DEF Restart
  <2> DEFINE q == PortInit(port[n].role, la, PeriodicTime)
  <2>2. GoodPort(q)
    <3>1. port[n].role \in Role
      BY <1>2, PortFields DEF GoodPort
    <3>2. PeriodicTime \in 1..PeriodicTime
      BY LinkNumbers
    <3> QED
      BY <3>1, <3>2, PortInitIs
  <2>3. port' = [port EXCEPT ![n] = q]
    BY <2>1
  <2> HIDE DEF q
  <2>4. port' \in [Node -> PortState] /\ \A m \in Node : GoodPort(port'[m])
    BY <1>1, <1>2, <2>2, <2>3 DEF GoodPort
  <2>5. alive' \in [Node -> BOOLEAN] /\ UNCHANGED <<decl, chan, held, losses, crashes, changes>>
    BY <1>3, <1>10 DEF Restart
  <2> QED
    BY <1>1, <1>3, <2>4, <2>5, GoodType
<1>11. ASSUME NEW n \in Node, NEW a \in Attr, Declare(n, a) \/ Withdraw(n, a)
       PROVE  LinkTypeOK'
  <2>1. /\ GoodPort(port'[n]) /\ port' \in [Node -> PortState]
        /\ \A m \in Node : m # n => port'[m] = port[m]
    BY <1>1, <1>2, <1>11, ChangeDoes
  <2>2. \/ decl' = [decl EXCEPT ![n] = @ \cup {a}] /\ held' = held
        \/ decl' = [decl EXCEPT ![n] = @ \ {a}] /\ held' = [held EXCEPT ![n][a] = 0]
    BY <1>11 DEF Declare, Withdraw
  <2>3. decl' \in [Node -> SUBSET Attr]
    BY <1>3, <2>2
  <2>4. 0 \in 0..JoinMax + 1
    BY LinkNumbers
  <2>5. held' \in [Node -> [Attr -> 0..JoinMax + 1]]
    <3> DEFINE h == [held[n] EXCEPT ![a] = 0]
    <3>1. held[n] \in [Attr -> 0..JoinMax + 1]
      BY <1>3
    <3>2. h \in [Attr -> 0..JoinMax + 1]
      BY <2>4, <3>1
    <3>3. held' = held \/ held' = [held EXCEPT ![n] = h]
      BY <2>2
    <3> HIDE DEF h
    <3> QED
      BY <1>3, <3>2, <3>3
  <2>6. changes' \in 0..MaxChange /\ UNCHANGED <<chan, alive, losses, crashes>>
    BY <1>3, <1>4, <1>11 DEF Declare, Withdraw
  <2>7. \A m \in Node : GoodPort(port'[m])
    BY <1>2, <2>1
  <2> QED
    BY <1>1, <1>3, <2>1, <2>3, <2>5, <2>6, <2>7, GoodType
<1>12. CASE UNCHANGED linkVars
  BY <1>12 DEF linkVars, LinkTypeOK
<1> QED
  BY <1>5, <1>6, <1>7, <1>8, <1>9, <1>10, <1>11, <1>12 DEF LinkNext

\* The state of the two ports is well formed, their timers lie in their ranges
\* and a LeaveTimer runs exactly while its Registrar is in LV, through every
\* loss, reboot and change (mrp_port_tick, mrp_rx_msrp, mrp_registrar_step).
THEOREM LinkTypeCorrect == LinkSpec => []LinkTypeOK
BY LinkTypeStart, LinkTypeStep, PTL DEF LinkSpec

-----------------------------------------------------------------------------
(* A standing declaration stays registered. *)

\* What the timers of a link leave room for: a declaration is repeated before
\* a station's own LeaveAll ends it, and before a switch's does, which is asked
\* for and answered within a JoinTimer each.  No attribute is declared from
\* both ends.
LinkFits ==
  /\ PeriodicTime + JoinMax < SelfLeaveTime
  /\ \A role \in Roles, n \in Node : role[n] = "switch" =>
       ArmsOnLeaveAll /\ JoinMax + JoinMax < SwitchLeaveTime
  /\ \A m, n \in Node : m # n => Owns[m] \cap Owns[n] = {}

\* The Applicant of what is declared, and of what is not (own: by this end).
Active == {"VN", "AN", "VP", "AA", "QA"}

Passive(own) == {"VO", "LO"} \cup (IF own THEN {"LA"} ELSE {"AO", "QO"})

AppInv ==
  \A n \in Node : \A a \in Attr :
    /\ a \in decl[n] => a \in Owns[n] /\ port[n].app[a] \in Active
    /\ a \notin decl[n] => held[n][a] = 0 /\ port[n].app[a] \in Passive(a \in Owns[n])

\* What a flush may send.
Heard == {"rNew", "rJoinIn", "rJoinMt", "rLv"}

ChanInv ==
  \A n \in Node : \A i \in DOMAIN chan[n] :
    chan[n][i].attr # NoAttr => chan[n][i].attr \in Owns[Peer(n)] /\ chan[n][i].ev \in Heard

\* Nobody reboots, and the roles are those of the pair.
RoleInv == \E role \in Roles : \A n \in Node : port[n].role = role[n] /\ alive[n]

Joins(m, a) == m.attr = a /\ m.ev \in {"rNew", "rJoinIn", "rJoinMt"}
Undoes(m, a) == m.leaveAll \/ (m.attr = a /\ m.ev = "rLv")

\* A Join of a is on its way in q with nothing behind it that undoes it.
Coming(q, a) ==
  \E k \in DOMAIN q : Joins(q[k], a) /\ \A i \in DOMAIN q : k < i => ~Undoes(q[i], a)

Clear(q, a) == \A i \in DOMAIN q : ~Undoes(q[i], a)

\* The first Join is due before the declaration has stood for JoinTime.
First(p, h, a) ==
  p.app[a] \in {"VN", "VP"} /\ p.join # Off /\ h + p.join <= JoinMax

\* In how long the next Join goes out at the latest.
Delay(p, a) ==
  IF p.join # Off /\ (p.app[a] # "QA" \/ p.leaveAllPending)
  THEN p.join ELSE p.periodic + JoinMax

\* The receiver asks, or has asked in c, for a Join that comes before t ends.
Asks(r, c, t) ==
  /\ ArmsOnLeaveAll
  /\ \/ /\ r.role = "switch" /\ r.leaveAllPending /\ r.join # Off
        /\ r.join + JoinMax < t
     \/ JoinMax < t /\ \E i \in DOMAIN c : c[i].leaveAll

\* The Registrar is in, or leaving with a LeaveTimer that outlasts the delay.
Stays(p, r, c, a) ==
  \/ r.reg[a] = "IN"
  \/ r.reg[a] = "LV" /\ (Delay(p, a) < r.leave[a] \/ Asks(r, c, r.leave[a]))

Enrolled(r, a) == r.reg[a] # "MT" /\ (r.reg[a] = "LV" => r.leave[a] > 0)

\* p declares a for h units, r registers it, q is on its way to r, c to p.
Safe(p, r, q, c, h, a) ==
  \/ Coming(q, a) /\ (h <= JoinMax \/ Enrolled(r, a))
  \/ Clear(q, a) /\ Stays(p, r, c, a)

Standing(p, r, q, c, h, a) == First(p, h, a) \/ Safe(p, r, q, c, h, a)

StandInv ==
  \A n \in Node : \A a \in decl[n] :
    Standing(port[n], port[Peer(n)], chan[Peer(n)], chan[n], held[n][a], a)

\* The inductive invariant.
LinkInv == LinkTypeOK /\ RoleInv /\ AppInv /\ ChanInv /\ StandInv

-----------------------------------------------------------------------------

\* What is declared stays declared, is repeated whenever it is not quiet, and is
\* not quiet after a LeaveAll or a PeriodicTimer.
LEMMA ActiveSteps ==
  ASSUME NEW s \in Active
  PROVE  /\ OnPeriodic(s) \in Active /\ OnPeriodic(s) # "QA"
         /\ OnRLeave(s) \in Active /\ OnRLeave(s) # "QA"
         /\ s \in {"VN", "VP"} => OnPeriodic(s) = s /\ OnRLeave(s) = s
         /\ \A ev \in TxEvent : /\ OnTx(s, ev) \in Active
                                /\ TxAction(s, ev) \in {"new", "join", "none"}
                                /\ TxAction(s, ev) = "none" => s = "QA" /\ ev = "tx"
         /\ OnLv(s) \in {"VO", "LO", "LA"}
BY DEF Active, OnPeriodic, OnRLeave, OnTx, TxAction, OnLv, TxEvent

\* What is not declared is not sent, but for the Lv of what was.
LEMMA PassiveSteps ==
  ASSUME NEW own \in BOOLEAN, NEW s \in Passive(own)
  PROVE  /\ OnPeriodic(s) \in Passive(own) /\ OnRLeave(s) \in Passive(own)
         /\ \A ev \in TxEvent : /\ OnTx(s, ev) \in Passive(own)
                                /\ TxAction(s, ev) # "none" => own
         /\ ~own => \A ev \in Heard : ApplicantStep(s, ev) \in Passive(own)
         /\ own => ApplicantStep(s, DeclareEvent(s)) \in {"VN", "VP"}
<1>1. s \in {"VO", "LO", "LA", "AO", "QO"}
  BY DEF Passive
<1>2. /\ OnPeriodic(s) \in Passive(own) /\ OnRLeave(s) \in Passive(own)
  BY <1>1 DEF Passive, OnPeriodic, OnRLeave
<1>3. \A ev \in TxEvent : /\ OnTx(s, ev) \in Passive(own)
                          /\ TxAction(s, ev) # "none" => own
  BY <1>1 DEF Passive, OnTx, TxAction, TxEvent
<1>4. ~own => \A ev \in Heard : ApplicantStep(s, ev) \in Passive(own)
  BY <1>1 DEF Passive, Heard, ApplicantStep, OnRJoinIn, OnRLeave, TxEvent
<1>5. own => ApplicantStep(s, DeclareEvent(s)) \in {"VN", "VP"}
  BY <1>1 DEF Passive, DeclareEvent, ApplicantStep, OnJoin, TxEvent
<1> QED
  BY <1>2, <1>3, <1>4, <1>5

LEMMA DelayIs ==
  ASSUME NEW p \in PortState, NEW a
  PROVE  /\ Delay(p, a) \in Nat /\ Delay(p, a) <= p.periodic + JoinMax
         /\ Delay(p, a) <= PeriodicTime + JoinMax
         /\ p.join # Off /\ (p.app[a] # "QA" \/ p.leaveAllPending) => Delay(p, a) = p.join
         /\ ~(p.join # Off /\ (p.app[a] # "QA" \/ p.leaveAllPending)) =>
              Delay(p, a) = p.periodic + JoinMax
BY PortFields, LinkNumbers DEF Delay

LEMMA LeaveIs ==
  ASSUME NEW r, GoodPort(r), NEW a \in Attr, r.reg[a] = "LV"
  PROVE  r.leave[a] \in Nat /\ r.leave[a] # Off
<1>1. r.leave[a] \in Nat \cup {Off} /\ r.leave[a] # Off
  BY PortFields DEF GoodPort
<1> QED
  BY <1>1

LEMMA AsksLong ==
  ASSUME NEW r \in PortState, NEW c, NEW t \in Nat, Asks(r, c, t)
  PROVE  t > JoinMax
<1>1. r.join # Off => r.join \in Nat
  BY PortFields, LinkNumbers
<1> QED
  BY <1>1, LinkNumbers DEF Asks

\* What stays is registered.
LEMMA StaysRegistered ==
  ASSUME NEW p \in PortState, NEW r, GoodPort(r), NEW c, NEW a \in Attr, Stays(p, r, c, a)
  PROVE  Enrolled(r, a)
<1>1. CASE r.reg[a] = "IN"
  BY <1>1 DEF Enrolled
<1>2. CASE r.reg[a] = "LV"
  <2>1. r.leave[a] \in Nat /\ r \in PortState
    BY <1>2, LeaveIs DEF GoodPort
  <2>2. Delay(p, a) \in Nat
    BY DelayIs
  <2>3. Delay(p, a) < r.leave[a] \/ Asks(r, c, r.leave[a])
    BY <1>2 DEF Stays
  <2>4. Asks(r, c, r.leave[a]) => r.leave[a] > JoinMax
    BY <2>1, AsksLong
  <2> QED
    BY <1>2, <2>1, <2>2, <2>3, <2>4, LinkNumbers DEF Enrolled
<1> QED
  BY <1>1, <1>2 DEF Stays

\* A declaration stays as long as its delay does not grow and its LeaveTimer
\* does not run.
LEMMA StaysOn ==
  ASSUME NEW p \in PortState, NEW z \in PortState, NEW r, GoodPort(r), NEW y, NEW c, NEW d,
         NEW a \in Attr, Stays(p, r, c, a), Delay(z, a) <= Delay(p, a),
         y.reg[a] = r.reg[a], y.leave[a] = r.leave[a],
         \A t \in Nat : Asks(r, c, t) => Asks(y, d, t) \/ Delay(z, a) < t
  PROVE  Stays(z, y, d, a)
<1>1. CASE r.reg[a] = "IN"
  BY <1>1 DEF Stays
<1>2. CASE r.reg[a] = "LV"
  <2>1. r.leave[a] \in Nat
    BY <1>2, LeaveIs
  <2>2. Delay(p, a) \in Nat /\ Delay(z, a) \in Nat
    BY DelayIs
  <2>3. Delay(p, a) < r.leave[a] \/ Asks(r, c, r.leave[a])
    BY <1>2 DEF Stays
  <2>4. Delay(z, a) < y.leave[a] \/ Asks(y, d, y.leave[a])
    BY <2>1, <2>2, <2>3
  <2> QED
    BY <1>2, <2>4 DEF Stays
<1> QED
  BY <1>1, <1>2 DEF Stays

(* Joins on their way. *)

LEMMA ConcatIs ==
  ASSUME NEW q \in Seq(Mrpdu), NEW s \in Seq(Mrpdu)
  PROVE  /\ q \o s \in Seq(Mrpdu) /\ Len(q) \in Nat
         /\ \A i \in DOMAIN q : i <= Len(q) /\ i \in DOMAIN (q \o s) /\ (q \o s)[i] = q[i]
         /\ \A i \in DOMAIN s : Len(q) + i \in DOMAIN (q \o s) /\ (q \o s)[Len(q) + i] = s[i]
                                /\ i \in Nat /\ i > 0
         /\ \A i \in DOMAIN (q \o s) :
              i \in DOMAIN q \/ (i - Len(q) \in DOMAIN s /\ i = Len(q) + (i - Len(q)))
<1> DEFINE t == q \o s
<1>1. /\ t \in Seq(Mrpdu) /\ Len(t) = Len(q) + Len(s)
      /\ \A i \in 1..Len(q) + Len(s) : t[i] = IF i <= Len(q) THEN q[i] ELSE s[i - Len(q)]
  BY ConcatProperties
<1>2. /\ Len(q) \in Nat /\ Len(s) \in Nat /\ DOMAIN q = 1..Len(q) /\ DOMAIN s = 1..Len(s)
      /\ DOMAIN t = 1..Len(t)
  BY <1>1, LenProperties
<1> HIDE DEF t
<1>3. \A i \in DOMAIN q : i <= Len(q) /\ i \in DOMAIN t /\ t[i] = q[i]
  BY <1>1, <1>2
<1>4. \A i \in DOMAIN s : Len(q) + i \in DOMAIN t /\ t[Len(q) + i] = s[i] /\ i \in Nat /\ i > 0
  <2> TAKE i \in DOMAIN s
  <2>1. i \in 1..Len(s) /\ Len(q) + i \in 1..Len(q) + Len(s) /\ ~(Len(q) + i <= Len(q))
        /\ (Len(q) + i) - Len(q) = i
    BY <1>2
  <2> QED
    BY <1>1, <1>2, <2>1
<1>5. \A i \in DOMAIN t : i \in DOMAIN q \/ (i - Len(q) \in DOMAIN s /\ i = Len(q) + (i - Len(q)))
  BY <1>1, <1>2
<1> QED
  BY <1>1, <1>2, <1>3, <1>4, <1>5 DEF t

\* What is sent behind q undoes nothing of a.
LEMMA QuietAppend ==
  ASSUME NEW q \in Seq(Mrpdu), NEW s \in Seq(Mrpdu), NEW a,
         \A i \in DOMAIN s : ~Undoes(s[i], a)
  PROVE  (Coming(q, a) => Coming(q \o s, a)) /\ (Clear(q, a) => Clear(q \o s, a))
<1> DEFINE t == q \o s
<1>1. /\ \A i \in DOMAIN q : i \in DOMAIN t /\ t[i] = q[i]
      /\ \A i \in DOMAIN s : Len(q) + i \in DOMAIN t /\ t[Len(q) + i] = s[i]
      /\ \A i \in DOMAIN t :
           i \in DOMAIN q \/ (i - Len(q) \in DOMAIN s /\ i = Len(q) + (i - Len(q)))
  BY ConcatIs
<1> HIDE DEF t
<1>2. \A i \in DOMAIN t : (i \in DOMAIN q /\ t[i] = q[i]) \/ ~Undoes(t[i], a)
  BY <1>1
<1>3. Clear(q, a) => Clear(t, a)
  BY <1>2 DEF Clear
<1>4. ASSUME Coming(q, a) PROVE Coming(t, a)
  <2>1. PICK k \in DOMAIN q : Joins(q[k], a) /\ \A i \in DOMAIN q : k < i => ~Undoes(q[i], a)
    BY <1>4 DEF Coming
  <2>2. k \in DOMAIN t /\ Joins(t[k], a)
    BY <1>1, <2>1
  <2>3. \A i \in DOMAIN t : k < i => ~Undoes(t[i], a)
    BY <1>2, <2>1
  <2> QED
    BY <2>2, <2>3 DEF Coming
<1> QED
  BY <1>3, <1>4 DEF t

\* What is sent behind q has a Join of a that nothing behind it undoes.
LEMMA JoinAppend ==
  ASSUME NEW q \in Seq(Mrpdu), NEW s \in Seq(Mrpdu), NEW a, Coming(s, a)
  PROVE  Coming(q \o s, a)
<1> DEFINE t == q \o s
<1>1. /\ Len(q) \in Nat /\ \A i \in DOMAIN q : i <= Len(q)
      /\ \A i \in DOMAIN s : /\ Len(q) + i \in DOMAIN t /\ t[Len(q) + i] = s[i]
                             /\ i \in Nat /\ i > 0
      /\ \A i \in DOMAIN t :
           i \in DOMAIN q \/ (i - Len(q) \in DOMAIN s /\ i = Len(q) + (i - Len(q)))
  BY ConcatIs
<1>2. \A i \in DOMAIN q : i \in Nat
  BY LenProperties
<1> HIDE DEF t
<1>3. PICK k \in DOMAIN s : Joins(s[k], a) /\ \A i \in DOMAIN s : k < i => ~Undoes(s[i], a)
  BY DEF Coming
<1>4. Len(q) + k \in DOMAIN t /\ Joins(t[Len(q) + k], a) /\ k \in Nat /\ k > 0
  BY <1>1, <1>3
<1>5. ASSUME NEW i \in DOMAIN t, Len(q) + k < i PROVE ~Undoes(t[i], a)
  <2>1. i \notin DOMAIN q
    BY <1>1, <1>2, <1>4, <1>5
  <2>2. i - Len(q) \in DOMAIN s /\ i = Len(q) + (i - Len(q))
    BY <1>1, <2>1
  <2>3. i - Len(q) \in Nat
    BY <1>1, <2>2
  <2> DEFINE x == i - Len(q)
  <2>4. x \in DOMAIN s /\ x \in Nat /\ i = Len(q) + x
    BY <2>2, <2>3
  <2> HIDE DEF x
  <2>5. k < x
    BY <1>1, <1>4, <1>5, <2>4
  <2>6. t[i] = s[x]
    BY <1>1, <2>4
  <2> QED
    BY <1>3, <2>4, <2>5, <2>6
<1> QED
  BY <1>4, <1>5 DEF Coming, t

LEMMA TailIs ==
  ASSUME NEW q \in Seq(Mrpdu), q # << >>
  PROVE  /\ Tail(q) \in Seq(Mrpdu) /\ Head(q) = q[1] /\ 1 \in DOMAIN q
         /\ \A i \in DOMAIN Tail(q) : i \in Nat /\ i > 0 /\ i + 1 \in DOMAIN q /\ Tail(q)[i] = q[i + 1]
         /\ \A i \in DOMAIN q : i # 1 => i - 1 \in DOMAIN Tail(q) /\ (i - 1) + 1 = i /\ i \in Nat /\ i > 1
<1>1. /\ Head(q) = q[1] /\ Tail(q) \in Seq(Mrpdu) /\ Len(Tail(q)) = Len(q) - 1
      /\ \A i \in 1..Len(Tail(q)) : Tail(q)[i] = q[i + 1]
  BY HeadTailProperties
<1>2. /\ Len(q) \in Nat /\ Len(q) > 0 /\ DOMAIN q = 1..Len(q)
      /\ DOMAIN Tail(q) = 1..Len(Tail(q))
  BY <1>1, LenProperties, EmptySeq
<1> QED
  BY <1>1, <1>2

\* The head of q is taken.
LEMMA TakeHead ==
  ASSUME NEW q \in Seq(Mrpdu), q # << >>, NEW a
  PROVE  /\ Clear(q, a) => Clear(Tail(q), a) /\ ~Undoes(Head(q), a)
         /\ Coming(q, a) => Coming(Tail(q), a) \/ (Joins(Head(q), a) /\ Clear(Tail(q), a))
<1>1. /\ Head(q) = q[1] /\ 1 \in DOMAIN q
      /\ \A i \in DOMAIN Tail(q) : i \in Nat /\ i > 0 /\ i + 1 \in DOMAIN q /\ Tail(q)[i] = q[i + 1]
      /\ \A i \in DOMAIN q : i # 1 => i - 1 \in DOMAIN Tail(q) /\ (i - 1) + 1 = i /\ i \in Nat /\ i > 1
  BY TailIs
<1> DEFINE t == Tail(q)
<1> HIDE DEF t
<1>2. Clear(q, a) => Clear(t, a) /\ ~Undoes(Head(q), a)
  BY <1>1 DEF Clear, t
<1>3. ASSUME Coming(q, a) PROVE Coming(t, a) \/ (Joins(Head(q), a) /\ Clear(t, a))
  <2>1. PICK k \in DOMAIN q : Joins(q[k], a) /\ \A i \in DOMAIN q : k < i => ~Undoes(q[i], a)
    BY <1>3 DEF Coming
  <2>2. CASE k = 1
    <3>1. \A i \in DOMAIN t : i + 1 \in DOMAIN q /\ 1 < i + 1 /\ t[i] = q[i + 1]
      BY <1>1 DEF t
    <3>2. Clear(t, a)
      BY <2>1, <2>2, <3>1 DEF Clear
    <3> QED
      BY <1>1, <2>1, <2>2, <3>2
  <2>3. CASE k # 1
    <3>1. k - 1 \in DOMAIN t /\ k \in Nat /\ (k - 1) + 1 = k
      BY <1>1, <2>3 DEF t
    <3>2. Joins(t[k - 1], a)
      BY <1>1, <2>1, <3>1 DEF t
    <3>3. \A i \in DOMAIN t : k - 1 < i => ~Undoes(t[i], a)
      <4> TAKE i \in DOMAIN t
      <4>1. i \in Nat /\ i + 1 \in DOMAIN q /\ t[i] = q[i + 1]
        BY <1>1 DEF t
      <4>2. k - 1 < i => k < i + 1
        BY <3>1, <4>1
      <4> QED
        BY <2>1, <4>1, <4>2
    <3> QED
      BY <3>1, <3>2, <3>3 DEF Coming
  <2> QED
    BY <2>2, <2>3
<1> QED
  BY <1>2, <1>3 DEF t
(* What the steps of either end leave of a standing declaration. *)

\* Neither end does anything to it.
LEMMA StillStanding ==
  ASSUME NEW p \in PortState, NEW z \in PortState, NEW r, GoodPort(r), NEW y \in PortState,
         NEW q, NEW c, NEW h, NEW a \in Attr, Standing(p, r, q, c, h, a),
         z.app[a] = p.app[a], z.periodic = p.periodic,
         z.leaveAllPending = p.leaveAllPending, p.join # Off => z.join = p.join,
         y.role = r.role, y.reg = r.reg, y.leave = r.leave,
         y.leaveAllPending = r.leaveAllPending, r.join # Off => y.join = r.join
  PROVE  Standing(z, y, q, c, h, a)
<1>1. First(p, h, a) => First(z, h, a)
  BY DEF First
<1>2. Delay(z, a) <= Delay(p, a)
  BY PortFields, LinkNumbers DEF Delay
<1>3. \A t : Asks(r, c, t) => Asks(y, c, t)
  BY DEF Asks
<1>4. Enrolled(r, a) => Enrolled(y, a)
  BY DEF Enrolled
<1>5. Stays(p, r, c, a) => Stays(z, y, c, a)
  BY <1>2, <1>3, StaysOn
<1> QED
  BY <1>1, <1>4, <1>5 DEF Standing, Safe

\* The declaring end hears of another attribute: a LeaveAll brings the next
\* Join no later.
LEMMA DeclarerHears ==
  ASSUME NEW p \in PortState, NEW z \in PortState, NEW r, GoodPort(r), NEW q,
         NEW c \in Seq(Mrpdu), c # << >>, NEW h, NEW a \in Attr, Standing(p, r, q, c, h, a),
         p.app[a] \in Active,
         z.app[a] = (IF Head(c).leaveAll THEN OnRLeave(p.app[a]) ELSE p.app[a]),
         z.periodic = p.periodic, z.leaveAllPending = p.leaveAllPending,
         p.join # Off => z.join = p.join, ~Head(c).leaveAll => z.join = p.join,
         ArmsOnLeaveAll /\ Head(c).leaveAll => z.join # Off
  PROVE  Standing(z, r, q, Tail(c), h, a)
<1>1. First(p, h, a) => First(z, h, a)
  BY ActiveSteps DEF First
<1>2. Head(c).leaveAll => z.app[a] # "QA"
  BY ActiveSteps
<1>3. Delay(z, a) <= Delay(p, a)
  BY <1>2, PortFields, LinkNumbers DEF Delay
<1>4. ASSUME NEW t \in Nat, Asks(r, c, t) PROVE Asks(r, Tail(c), t) \/ Delay(z, a) < t
  <2>1. CASE r.role = "switch" /\ r.leaveAllPending /\ r.join # Off /\ r.join + JoinMax < t
    BY <1>4, <2>1 DEF Asks
  <2>2. CASE JoinMax < t /\ \E i \in DOMAIN c : c[i].leaveAll
    <3>1. PICK i \in DOMAIN c : c[i].leaveAll
      BY <2>2
    <3>2. CASE i = 1
      <4>1. Head(c).leaveAll
        BY <3>1, <3>2, TailIs
      <4>2. z.join # Off /\ z.app[a] # "QA"
        BY <1>2, <1>4, <4>1 DEF Asks
      <4>3. Delay(z, a) = z.join
        BY <4>2, DelayIs
      <4> QED
        BY <2>2, <4>3, PortFields, LinkNumbers
    <3>3. CASE i # 1
      <4>1. i - 1 \in DOMAIN Tail(c) /\ Tail(c)[i - 1] = c[i]
        BY <3>3, TailIs
      <4> QED
        BY <1>4, <2>2, <3>1, <4>1 DEF Asks
    <3> QED
      BY <3>2, <3>3
  <2> QED
    BY <1>4, <2>1, <2>2 DEF Asks
<1>5. Stays(p, r, c, a) => Stays(z, r, Tail(c), a)
  BY <1>3, <1>4, StaysOn
<1> QED
  BY <1>1, <1>5 DEF Standing, Safe

\* The registering end takes the head of what is on its way to it.
LEMMA ReceiverHears ==
  ASSUME NEW p \in PortState, NEW r, GoodPort(r), NEW y \in PortState,
         NEW q \in Seq(Mrpdu), q # << >>, NEW c, NEW h, NEW a \in Attr,
         Standing(p, r, q, c, h, a),
         y.role = r.role, y.leaveAllPending = r.leaveAllPending,
         r.join # Off => y.join = r.join,
         Joins(Head(q), a) => y.reg[a] = "IN",
         ~Undoes(Head(q), a) => \/ y.reg[a] = "IN"
                                \/ y.reg[a] = r.reg[a] /\ y.leave[a] = r.leave[a],
         Enrolled(r, a) => Enrolled(y, a)
  PROVE  Standing(p, y, Tail(q), c, h, a)
<1>1. CASE First(p, h, a)
  BY <1>1 DEF Standing
<1>2. CASE Coming(q, a) /\ (h <= JoinMax \/ Enrolled(r, a))
  <2>1. CASE Coming(Tail(q), a)
    BY <1>2, <2>1 DEF Standing, Safe
  <2>2. CASE Joins(Head(q), a) /\ Clear(Tail(q), a)
    BY <2>2 DEF Standing, Safe, Stays
  <2> QED
    BY <1>2, <2>1, <2>2, TakeHead
<1>3. CASE Clear(q, a) /\ Stays(p, r, c, a)
  <2>1. Clear(Tail(q), a) /\ ~Undoes(Head(q), a)
    BY <1>3, TakeHead
  <2>2. CASE y.reg[a] = "IN"
    BY <2>1, <2>2 DEF Standing, Safe, Stays
  <2>3. CASE y.reg[a] = r.reg[a] /\ y.leave[a] = r.leave[a]
    <3>1. \A t : Asks(r, c, t) => Asks(y, c, t)
      BY DEF Asks
    <3>2. Delay(p, a) <= Delay(p, a)
      BY DelayIs
    <3>3. Stays(p, y, c, a)
      BY <1>3, <2>3, <3>1, <3>2, StaysOn
    <3> QED
      BY <2>1, <3>3 DEF Standing, Safe
  <2> QED
    BY <2>1, <2>2, <2>3
<1> QED
  BY <1>1, <1>2, <1>3 DEF Standing, Safe

\* A unit passes: nothing is on its way and nothing due.
LEMMA UnitPasses ==
  ASSUME NEW p \in PortState, NEW z \in PortState, NEW r, GoodPort(r), NEW y \in PortState,
         NEW h \in Nat, NEW k \in Nat, k <= h + 1, NEW a \in Attr,
         Standing(p, r, << >>, << >>, h, a),
         p.join # 0, p.periodic # 0, r.join # 0, r.leave[a] # 0,
         z.app = p.app, z.leaveAllPending = p.leaveAllPending,
         z.join = Down(p.join), z.periodic = Down(p.periodic),
         y.role = r.role, y.reg = r.reg, y.leaveAllPending = r.leaveAllPending,
         y.join = Down(r.join), y.leave[a] = Down(r.leave[a])
  PROVE  Standing(z, y, << >>, << >>, k, a)
<1>1. ASSUME First(p, h, a) PROVE First(z, k, a)
  <2>1. p.join \in Nat /\ p.join > 0
    BY <1>1, PortFields, LinkNumbers DEF First
  <2>2. z.join = p.join - 1 /\ z.join # Off
    BY <2>1 DEF Down, Off
  <2>3. h + p.join <= JoinMax
    BY <1>1 DEF First
  <2> QED
    BY <1>1, <2>1, <2>2, <2>3, LinkNumbers DEF First
<1>2. ~Coming(<< >>, a) /\ Clear(<< >>, a)
  BY DEF Coming, Clear
<1>3. ASSUME Stays(p, r, << >>, a) PROVE Stays(z, y, << >>, a)
  <2>1. CASE r.reg[a] = "IN"
    BY <2>1 DEF Stays
  <2>2. CASE r.reg[a] = "LV"
    <3> DEFINE t == r.leave[a]
    <3>1. t \in Nat /\ t > 0
      BY <2>2, LeaveIs
    <3>2. y.leave[a] = t - 1
      BY <3>1 DEF Down
    <3>3. Delay(p, a) < t \/ Asks(r, << >>, t)
      BY <1>3, <2>2 DEF Stays
    <3> HIDE DEF t
    <3>4. ASSUME Delay(p, a) < t PROVE Delay(z, a) < t - 1
      <4>1. p.periodic \in Nat /\ z.periodic = p.periodic - 1
        BY PortFields, LinkNumbers DEF Down
      <4>2. p.join = Off => z.join = Off
        BY DEF Down, Off
      <4>3. p.join # Off => p.join \in Nat /\ z.join = p.join - 1 /\ z.join # Off
        BY PortFields, LinkNumbers DEF Down
      <4> QED
        BY <3>1, <3>4, <4>1, <4>2, <4>3, LinkNumbers DEF Delay
    <3>5. ASSUME Asks(r, << >>, t) PROVE Asks(y, << >>, t - 1)
      <4>1. /\ ArmsOnLeaveAll /\ r.role = "switch" /\ r.leaveAllPending /\ r.join # Off
            /\ r.join + JoinMax < t
        BY <3>5 DEF Asks
      <4>2. r.join \in Nat /\ y.join = r.join - 1 /\ y.join # Off
        BY <4>1, PortFields, LinkNumbers DEF Down, GoodPort
      <4> QED
        BY <3>1, <4>1, <4>2, LinkNumbers DEF Asks
    <3> QED
      BY <2>2, <3>2, <3>3, <3>4, <3>5 DEF Stays
  <2> QED
    BY <1>3, <2>1, <2>2 DEF Stays
<1> QED
  BY <1>1, <1>2, <1>3 DEF Standing, Safe
\* What a tick sends goes behind what is on its way.
LEMMA TickTypes ==
  ASSUME NEW n \in Node, NEW s, TickLeaves(n, s), port \in [Node -> PortState],
         chan \in [Node -> Seq(Mrpdu)]
  PROVE  /\ s \in PortState /\ port[n] \in PortState
         /\ Peer(n) \in Node /\ chan[Peer(n)] \in Seq(Mrpdu) /\ Sent(s) \in Seq(Mrpdu)
         /\ s.join # 0 => chan'[Peer(n)] = chan[Peer(n)]
         /\ s.join = 0 => chan'[Peer(n)] = chan[Peer(n)] \o Sent(s)
<1>1. s \in PortState
  BY DEF TickLeaves, GoodPort
<1>2. Peer(n) \in Node
  BY PeerIs
<1>3. Sent(s) \in Seq(Mrpdu)
  BY <1>1, SentIs
<1>4. /\ s.join # 0 => chan' = chan
      /\ s.join = 0 => chan' = [chan EXCEPT ![Peer(n)] = @ \o Sent(s)]
  BY DEF TickLeaves
<1> QED
  BY <1>1, <1>2, <1>3, <1>4

\* An Applicant takes the PeriodicTimer's step, the flush's, both or none.
LEMMA TickApps ==
  ASSUME NEW n \in Node, NEW s, TickLeaves(n, s), NEW a \in Attr
  PROVE  /\ s.app[a] = port[n].app[a] \/ s.app[a] = OnPeriodic(port[n].app[a])
         /\ port[n].periodic = 0 => s.app[a] = OnPeriodic(port[n].app[a])
         /\ FlushEvent(s) \in TxEvent
         /\ port'[n].app[a] = s.app[a] \/ port'[n].app[a] = OnTx(s.app[a], FlushEvent(s))
BY DEF TickLeaves, FlushEvent, TxEvent

\* A Join that a flush sends is not undone by what the flush sends after it.
LEMMA SentJoins ==
  ASSUME NEW s \in PortState, NEW a \in Attr, s.app[a] \in Active
  PROVE  /\ Sends(s, a) => Coming(Sent(s), a)
         /\ ~Sends(s, a) => /\ s.app[a] = "QA" /\ ~s.leaveAllPending
                            /\ \A i \in DOMAIN Sent(s) : ~Undoes(Sent(s)[i], a)
<1> DEFINE q == Sent(s)
<1>1. /\ q \in Seq(Mrpdu)
      /\ \A k \in DOMAIN q : q[k].leaveAll <=> s.leaveAllPending /\ k = 1
      /\ \A k \in DOMAIN q :
           \/ q[k].attr = NoAttr
           \/ \E x \in Attr : Sends(s, x) /\ q[k].attr = x /\ q[k].ev = Encoded(s, x)
      /\ \A x \in Attr : Sends(s, x) => \E k \in DOMAIN q : q[k].attr = x
  BY SentIs
<1> HIDE DEF q
<1>2. a # NoAttr
  BY AttrsOrdered
<1>3. \A k \in DOMAIN q : q[k].attr = a => Sends(s, a) /\ q[k].ev = Encoded(s, a)
  BY <1>1, <1>2
<1>4. \A k \in DOMAIN q : k \in Nat /\ k >= 1
  BY <1>1, LenProperties
<1>5. /\ FlushEvent(s) \in TxEvent
      /\ FlushEvent(s) = "tx" => ~s.leaveAllPending
  BY DEF FlushEvent, TxEvent
<1>6. /\ TxAction(s.app[a], FlushEvent(s)) \in {"new", "join", "none"}
      /\ TxAction(s.app[a], FlushEvent(s)) = "none" => s.app[a] = "QA" /\ ~s.leaveAllPending
  BY <1>5, ActiveSteps
<1>7. ASSUME Sends(s, a) PROVE Coming(q, a)
  <2>1. Encoded(s, a) \in {"rNew", "rJoinIn", "rJoinMt"}
    BY <1>6, <1>7 DEF Sends, Encoded, Resolve3pe
  <2>2. PICK k \in DOMAIN q : q[k].attr = a
    BY <1>1, <1>7
  <2>3. Joins(q[k], a)
    BY <1>3, <2>1, <2>2 DEF Joins
  <2>4. \A i \in DOMAIN q : k < i => ~Undoes(q[i], a)
    <3> TAKE i \in DOMAIN q
    <3>1. k < i => ~q[i].leaveAll
      BY <1>1, <1>4
    <3>2. q[i].attr = a => q[i].ev # "rLv"
      BY <1>3, <2>1
    <3> QED
      BY <3>1, <3>2 DEF Undoes
  <2> QED
    BY <2>3, <2>4 DEF Coming
<1>8. ASSUME ~Sends(s, a)
      PROVE  s.app[a] = "QA" /\ ~s.leaveAllPending /\ \A i \in DOMAIN q : ~Undoes(q[i], a)
  <2>1. s.app[a] = "QA" /\ ~s.leaveAllPending
    BY <1>6, <1>8 DEF Sends
  <2> QED
    BY <1>1, <1>3, <1>8, <2>1 DEF Undoes
<1> QED
  BY <1>7, <1>8 DEF q

\* The declaring end ticks: it sends a Join, or has no reason to hurry.
LEMMA DeclarerTicks ==
  ASSUME NEW n \in Node, NEW s, TickLeaves(n, s), port \in [Node -> PortState],
         chan \in [Node -> Seq(Mrpdu)], port'[n] \in PortState, NEW r, GoodPort(r),
         NEW c, NEW h \in Nat, NEW a \in Attr, port[n].app[a] \in Active,
         Standing(port[n], r, chan[Peer(n)], c, h, a)
  PROVE  Standing(port'[n], r, chan'[Peer(n)], c, h, a)
<1> DEFINE o == port[n]
           z == port'[n]
           q == chan[Peer(n)]
<1>1. /\ s \in PortState /\ o \in PortState /\ q \in Seq(Mrpdu) /\ Sent(s) \in Seq(Mrpdu)
      /\ s.join # 0 => chan'[Peer(n)] = q
      /\ s.join = 0 => chan'[Peer(n)] = q \o Sent(s)
  BY TickTypes
<1>2. /\ s.app[a] \in Active /\ (o.periodic = 0 => s.app[a] # "QA")
      /\ o.app[a] \in {"VN", "VP"} => s.app[a] = o.app[a]
  BY TickApps, ActiveSteps
<1>3. /\ o.join # Off => s.join = o.join
      /\ o.leaveAllPending => s.leaveAllPending
      /\ o.periodic # 0 => s.periodic = o.periodic /\ s.app = o.app
      /\ o.periodic = 0 => s.join # Off
      /\ z.periodic = s.periodic
  BY DEF TickLeaves
<1>4. s.join # 0 => z.app = s.app /\ z.join = s.join /\ z.leaveAllPending = s.leaveAllPending
  BY DEF TickLeaves
<1>5. s.join = 0 => z.join = Off
  BY DEF TickLeaves
<1> HIDE DEF o, z, q
<1>6. GoodPort(r) /\ Standing(o, r, q, c, h, a) /\ z \in PortState
  BY DEF o, q, z
<1>7. CASE s.join # 0
  <2>1. First(o, h, a) => First(z, h, a)
    BY <1>2, <1>3, <1>4, <1>7 DEF First
  <2>2. Delay(z, a) <= Delay(o, a)
    BY <1>1, <1>2, <1>3, <1>4, <1>6, <1>7, PortFields, LinkNumbers DEF Delay
  <2>3. Stays(o, r, c, a) => Stays(z, r, c, a)
    BY <1>1, <1>6, <2>2, StaysOn
  <2>4. Standing(z, r, q, c, h, a)
    BY <1>6, <2>1, <2>3 DEF Standing, Safe
  <2> QED
    BY <1>1, <1>7, <2>4 DEF z
<1>8. CASE s.join = 0 /\ Sends(s, a)
  <2>1. Coming(q \o Sent(s), a)
    BY <1>1, <1>2, <1>8, SentJoins, JoinAppend
  <2>2. First(o, h, a) => h <= JoinMax
    BY <1>3, <1>8, LinkNumbers DEF First
  <2>3. Stays(o, r, c, a) => Enrolled(r, a)
    BY <1>1, <1>6, StaysRegistered
  <2>4. h <= JoinMax \/ Enrolled(r, a)
    BY <1>6, <2>2, <2>3 DEF Standing, Safe
  <2>5. Standing(z, r, q \o Sent(s), c, h, a)
    BY <2>1, <2>4 DEF Standing, Safe
  <2> QED
    BY <1>1, <1>8, <2>5 DEF z
<1>9. CASE s.join = 0 /\ ~Sends(s, a)
  <2>1. /\ s.app[a] = "QA" /\ ~s.leaveAllPending
        /\ \A i \in DOMAIN Sent(s) : ~Undoes(Sent(s)[i], a)
    BY <1>1, <1>2, <1>9, SentJoins
  <2>2. /\ Coming(q, a) => Coming(q \o Sent(s), a)
        /\ Clear(q, a) => Clear(q \o Sent(s), a)
    BY <1>1, <2>1, QuietAppend
  <2>3. ~First(o, h, a)
    BY <1>2, <2>1 DEF First
  <2>4. Delay(z, a) <= Delay(o, a)
    <3>1. o.periodic # 0 /\ z.periodic = o.periodic /\ o.app[a] = "QA" /\ ~o.leaveAllPending
      BY <1>2, <1>3, <2>1
    <3> QED
      BY <1>1, <1>5, <1>6, <1>9, <3>1, PortFields, LinkNumbers DEF Delay
  <2>5. Stays(o, r, c, a) => Stays(z, r, c, a)
    BY <1>1, <1>6, <2>4, StaysOn
  <2>6. Standing(z, r, q \o Sent(s), c, h, a)
    BY <1>6, <2>2, <2>3, <2>5 DEF Standing, Safe
  <2> QED
    BY <1>1, <1>9, <2>6 DEF z
<1> QED
  BY <1>7, <1>8, <1>9

\* The registering end ticks: its LeaveAll starts a LeaveTimer that is long, or
\* asks for a Join in time.
LEMMA ReceiverTicks ==
  ASSUME NEW n \in Node, NEW s, TickLeaves(n, s), port \in [Node -> PortState],
         chan \in [Node -> Seq(Mrpdu)], GoodPort(port[n]),
         port'[n].role = port[n].role, NEW p \in PortState, NEW q, NEW h, NEW a \in Attr,
         port[n].role = "switch" => ArmsOnLeaveAll /\ JoinMax + JoinMax < SwitchLeaveTime,
         PeriodicTime + JoinMax < SelfLeaveTime,
         Standing(p, port[n], q, chan[Peer(n)], h, a)
  PROVE  Standing(p, port'[n], q, chan'[Peer(n)], h, a)
<1> DEFINE o == port[n]
           z == port'[n]
           c == chan[Peer(n)]
           d == chan'[Peer(n)]
<1>1. /\ s \in PortState /\ o \in PortState /\ c \in Seq(Mrpdu) /\ Sent(s) \in Seq(Mrpdu)
      /\ s.join # 0 => d = c
      /\ s.join = 0 => d = c \o Sent(s)
  BY TickTypes
<1>2. /\ s.role = o.role /\ (o.join # Off => s.join = o.join)
      /\ o.leaveAllPending => s.leaveAllPending
      /\ \/ s.reg[a] = o.reg[a] /\ s.leave[a] = o.leave[a]
         \/ /\ o.reg[a] = "IN" /\ s.reg[a] = "LV"
            /\ \/ s.role = "sta" /\ s.leave[a] = SelfLeaveTime
               \/ /\ s.role = "switch" /\ s.leave[a] = SwitchLeaveTime
                  /\ s.leaveAllPending /\ s.join # Off
      /\ s.leave[a] # 0 => z.reg[a] = s.reg[a] /\ z.leave[a] = s.leave[a]
      /\ s.join # 0 => z.join = s.join /\ z.leaveAllPending = s.leaveAllPending
  BY DEF TickLeaves
<1>3. z.role = o.role
  OBVIOUS
<1>4. /\ o.role = "switch" => ArmsOnLeaveAll /\ JoinMax + JoinMax < SwitchLeaveTime
      /\ PeriodicTime + JoinMax < SelfLeaveTime
      /\ Standing(p, o, q, c, h, a) /\ GoodPort(o)
  OBVIOUS
<1> HIDE DEF o, z, c, d
<1>5. ASSUME NEW i \in DOMAIN c, c[i].leaveAll PROVE \E k \in DOMAIN d : d[k].leaveAll
  <2>1. CASE s.join # 0
    BY <1>1, <1>5, <2>1
  <2>2. CASE s.join = 0
    BY <1>1, <1>5, <2>2, ConcatIs
  <2> QED
    BY <2>1, <2>2
<1>6. ASSUME s.role = "switch", s.leaveAllPending, s.join = 0
      PROVE  \E k \in DOMAIN d : d[k].leaveAll
  <2>1. Sent(s) # << >>
    BY <1>1, <1>6, SentIs
  <2>2. 1 \in DOMAIN Sent(s)
    BY <1>1, <2>1, TailIs
  <2>3. Sent(s)[1].leaveAll
    BY <1>1, <1>6, <2>2, SentIs
  <2>4. Len(c) + 1 \in DOMAIN (c \o Sent(s)) /\ (c \o Sent(s))[Len(c) + 1] = Sent(s)[1]
    BY <1>1, <2>2, ConcatIs
  <2> QED
    BY <1>1, <1>6, <2>3, <2>4
<1>7. ASSUME NEW t \in Nat, ArmsOnLeaveAll, s.role = "switch", s.leaveAllPending,
             s.join # Off, s.join + JoinMax < t
      PROVE  Asks(z, d, t)
  <2>1. CASE s.join # 0
    BY <1>2, <1>3, <1>7, <2>1 DEF Asks
  <2>2. CASE s.join = 0
    BY <1>6, <1>7, <2>2, LinkNumbers DEF Asks
  <2> QED
    BY <2>1, <2>2
<1>8. ASSUME NEW t \in Nat, Asks(o, c, t) PROVE Asks(z, d, t)
  <2>1. CASE o.role = "switch" /\ o.leaveAllPending /\ o.join # Off /\ o.join + JoinMax < t
    BY <1>2, <1>7, <1>8, <2>1 DEF Asks
  <2>2. CASE JoinMax < t /\ \E i \in DOMAIN c : c[i].leaveAll
    BY <1>5, <1>8, <2>2 DEF Asks
  <2> QED
    BY <1>8, <2>1, <2>2 DEF Asks
<1>9. ASSUME s.reg[a] # o.reg[a] \/ s.leave[a] # o.leave[a] PROVE Enrolled(z, a) /\ Stays(p, z, d, a)
  <2>1. /\ o.reg[a] = "IN" /\ s.reg[a] = "LV" /\ s.leave[a] \in {SelfLeaveTime, SwitchLeaveTime}
    BY <1>2, <1>9
  <2>2. s.leave[a] \in Nat /\ s.leave[a] > 0
    BY <2>1, LinkNumbers
  <2>3. z.reg[a] = "LV" /\ z.leave[a] = s.leave[a]
    BY <1>2, <2>1, <2>2
  <2>4. CASE s.role = "sta" /\ s.leave[a] = SelfLeaveTime
    <3>1. Delay(p, a) \in Nat /\ Delay(p, a) <= PeriodicTime + JoinMax
      BY DelayIs
    <3>2. Delay(p, a) < z.leave[a]
      BY <1>4, <2>3, <2>4, <3>1, LinkNumbers
    <3> QED
      BY <2>2, <2>3, <3>2 DEF Stays, Enrolled
  <2>5. CASE s.role = "switch" /\ s.leave[a] = SwitchLeaveTime /\ s.leaveAllPending /\ s.join # Off
    <3>1. s.join + JoinMax < s.leave[a]
      BY <1>1, <1>2, <1>4, <2>5, PortFields, LinkNumbers
    <3>2. Asks(z, d, s.leave[a])
      BY <1>2, <1>4, <1>7, <2>2, <2>5, <3>1
    <3> QED
      BY <2>2, <2>3, <3>2 DEF Stays, Enrolled
  <2> QED
    BY <1>2, <1>9, <2>4, <2>5
<1>10. ASSUME Enrolled(o, a) PROVE Enrolled(z, a)
  <2>1. CASE s.reg[a] = o.reg[a] /\ s.leave[a] = o.leave[a]
    <3>1. s.leave[a] # 0
      <4>1. o.reg[a] = "LV" => o.leave[a] > 0
        BY <1>10 DEF Enrolled
      <4>2. o.reg[a] # "LV" => o.leave[a] = Off
        BY <1>4 DEF GoodPort
      <4>3. o.reg[a] = "LV" => o.leave[a] \in Nat
        BY <1>4, LeaveIs
      <4> QED
        BY <2>1, <4>1, <4>2, <4>3 DEF Off
    <3> QED
      BY <1>2, <1>10, <2>1, <3>1 DEF Enrolled
  <2> QED
    BY <1>9, <2>1
<1>11. ASSUME Stays(p, o, c, a) PROVE Stays(p, z, d, a)
  <2>1. CASE s.reg[a] = o.reg[a] /\ s.leave[a] = o.leave[a]
    <3>1. Enrolled(o, a)
      BY <1>4, <1>11, StaysRegistered
    <3>2. s.leave[a] # 0
      <4>1. o.reg[a] = "LV" => o.leave[a] > 0
        BY <3>1 DEF Enrolled
      <4>2. o.reg[a] # "LV" => o.leave[a] = Off
        BY <1>4 DEF GoodPort
      <4>3. o.reg[a] = "LV" => o.leave[a] \in Nat
        BY <1>4, LeaveIs
      <4> QED
        BY <2>1, <4>1, <4>2, <4>3 DEF Off
    <3>3. z.reg[a] = o.reg[a] /\ z.leave[a] = o.leave[a]
      BY <1>2, <2>1, <3>2
    <3>4. Delay(p, a) <= Delay(p, a)
      BY DelayIs
    <3> QED
      BY <1>4, <1>8, <1>11, <3>3, <3>4, StaysOn
  <2> QED
    BY <1>9, <2>1
<1>12. Standing(p, z, q, d, h, a)
  BY <1>4, <1>10, <1>11 DEF Standing, Safe
<1> QED
  BY <1>12 DEF z, d
(* The inductive invariant, action by action. *)

LEMMA RoleKept ==
  ASSUME RoleInv, alive' = alive, \A n \in Node : port'[n].role = port[n].role
  PROVE  RoleInv'
BY DEF RoleInv

\* A switch's LeaveTimer leaves room for two JoinTimers.
LEMMA SwitchRoom ==
  ASSUME LinkFits, RoleInv, NEW n \in Node
  PROVE  /\ port[n].role = "switch" => ArmsOnLeaveAll /\ JoinMax + JoinMax < SwitchLeaveTime
         /\ PeriodicTime + JoinMax < SelfLeaveTime /\ alive[n]
BY DEF LinkFits, RoleInv

LEMMA InvParts ==
  ASSUME LinkInv
  PROVE  /\ port \in [Node -> PortState] /\ chan \in [Node -> Seq(Mrpdu)]
         /\ \A n \in Node : /\ GoodPort(port[n]) /\ port[n] \in PortState
                            /\ chan[n] \in Seq(Mrpdu) /\ Peer(n) \in Node
                            /\ decl[n] \subseteq Attr
                            /\ \A a \in Attr : held[n][a] \in Nat /\ held[n][a] <= JoinMax + 1
         /\ decl \in [Node -> SUBSET Attr] /\ held \in [Node -> [Attr -> 0..JoinMax + 1]]
         /\ RoleInv /\ AppInv /\ ChanInv /\ StandInv /\ LinkTypeOK
<1>1. LinkTypeOK
  BY DEF LinkInv
<1>2. /\ decl \in [Node -> SUBSET Attr] /\ held \in [Node -> [Attr -> 0..JoinMax + 1]]
  BY <1>1 DEF LinkTypeOK
<1>3. \A n \in Node : \A a \in Attr : held[n][a] \in 0..JoinMax + 1
  BY <1>2
<1>4. \A n \in Node : \A a \in Attr : held[n][a] \in Nat /\ held[n][a] <= JoinMax + 1
  BY <1>3, LinkNumbers
<1> QED
  BY <1>1, <1>2, <1>4, TypeGood, PeerIs DEF LinkInv, GoodPort

\* mrp_port_tick keeps it.
LEMMA TickKept ==
  ASSUME LinkFits, LinkInv, NEW n \in Node, PortTick(n)
  PROVE  RoleInv' /\ AppInv' /\ ChanInv' /\ StandInv'
<1>1. /\ port \in [Node -> PortState] /\ chan \in [Node -> Seq(Mrpdu)]
      /\ \A m \in Node : GoodPort(port[m]) /\ port[m] \in PortState
      /\ RoleInv /\ AppInv /\ ChanInv /\ StandInv
      /\ \A m \in Node : decl[m] \subseteq Attr /\ \A a \in Attr : held[m][a] \in Nat
  BY InvParts
<1>2. GoodPort(port[n])
  BY <1>1
<1>3. /\ GoodPort(port'[n]) /\ port'[n].role = port[n].role
      /\ \A m \in Node : m # n => port'[m] = port[m]
      /\ \E s : TickLeaves(n, s)
  BY <1>1, <1>2, TickDoes
<1>4. PICK s : TickLeaves(n, s)
  BY <1>3
<1>5. UNCHANGED <<decl, alive, held>>
  BY DEF PortTick
<1>6. RoleInv'
  <2>1. \A m \in Node : port'[m].role = port[m].role
    BY <1>3
  <2> QED
    BY <1>1, <1>5, <2>1, RoleKept
<1>7. /\ s \in PortState /\ Peer(n) \in Node /\ Peer(n) # n /\ Peer(Peer(n)) = n
      /\ \A m \in Node : m = n \/ m = Peer(n)
      /\ chan[Peer(n)] \in Seq(Mrpdu) /\ Sent(s) \in Seq(Mrpdu)
      /\ s.join # 0 => chan'[Peer(n)] = chan[Peer(n)]
      /\ s.join = 0 => chan'[Peer(n)] = chan[Peer(n)] \o Sent(s)
  BY <1>1, <1>4, TickTypes, PeerIs
<1>8. chan'[n] = chan[n]
  <2>1. chan' = chan \/ chan' = [chan EXCEPT ![Peer(n)] = @ \o Sent(s)]
    BY <1>4 DEF TickLeaves
  <2> QED
    BY <1>1, <1>7, <2>1
<1>9. ASSUME NEW a \in Attr
      PROVE  /\ a \in decl[n] => /\ a \in Owns[n] /\ port[n].app[a] \in Active
                                 /\ port'[n].app[a] \in Active
             /\ a \notin decl[n] => /\ held[n][a] = 0 /\ s.app[a] \in Passive(a \in Owns[n])
                                    /\ port'[n].app[a] \in Passive(a \in Owns[n])
  <2>1. /\ s.app[a] = port[n].app[a] \/ s.app[a] = OnPeriodic(port[n].app[a])
        /\ FlushEvent(s) \in TxEvent
        /\ port'[n].app[a] = s.app[a] \/ port'[n].app[a] = OnTx(s.app[a], FlushEvent(s))
    BY <1>4, TickApps
  <2>2. CASE a \in decl[n]
    <3>1. a \in Owns[n] /\ port[n].app[a] \in Active
      BY <1>1, <2>2 DEF AppInv
    <3>2. s.app[a] \in Active
      BY <2>1, <3>1, ActiveSteps
    <3> QED
      BY <2>1, <2>2, <3>1, <3>2, ActiveSteps
  <2>3. CASE a \notin decl[n]
    <3> DEFINE own == a \in Owns[n]
    <3>1. own \in BOOLEAN /\ held[n][a] = 0 /\ port[n].app[a] \in Passive(own)
      BY <1>1, <2>3 DEF AppInv
    <3> HIDE DEF own
    <3>2. s.app[a] \in Passive(own)
      BY <2>1, <3>1, PassiveSteps
    <3>3. port'[n].app[a] \in Passive(own)
      BY <2>1, <3>1, <3>2, PassiveSteps
    <3> QED
      BY <2>3, <3>1, <3>2, <3>3 DEF own
  <2> QED
    BY <2>2, <2>3
<1>10. AppInv'
  <2>1. ASSUME NEW m \in Node, NEW a \in Attr
        PROVE  /\ a \in decl'[m] => a \in Owns[m] /\ port'[m].app[a] \in Active
               /\ a \notin decl'[m] => held'[m][a] = 0 /\ port'[m].app[a] \in Passive(a \in Owns[m])
    <3>1. CASE m = n
      BY <1>5, <1>9, <3>1
    <3>2. CASE m # n
      <4>1. port'[m] = port[m] /\ decl'[m] = decl[m] /\ held'[m] = held[m]
        BY <1>3, <1>5, <3>2
      <4> QED
        BY <1>1, <4>1 DEF AppInv
    <3> QED
      BY <3>1, <3>2
  <2> QED
    BY <2>1 DEF AppInv
<1>11. ASSUME NEW i \in DOMAIN Sent(s), Sent(s)[i].attr # NoAttr
       PROVE  Sent(s)[i].attr \in Owns[n] /\ Sent(s)[i].ev \in Heard
  <2>1. PICK x \in Attr : Sends(s, x) /\ Sent(s)[i].attr = x /\ Sent(s)[i].ev = Encoded(s, x)
    BY <1>7, <1>11, SentIs
  <2>2. Encoded(s, x) \in Heard
    BY <1>7, EncodedIs DEF Heard
  <2>3. CASE x \in decl[n]
    BY <1>9, <2>1, <2>2, <2>3
  <2>4. CASE x \notin decl[n]
    <3> DEFINE own == x \in Owns[n]
    <3>1. own \in BOOLEAN /\ s.app[x] \in Passive(own)
      BY <1>9, <2>4
    <3>2. FlushEvent(s) \in TxEvent /\ TxAction(s.app[x], FlushEvent(s)) # "none"
      BY <2>1 DEF FlushEvent, TxEvent, Sends
    <3> HIDE DEF own
    <3>3. own
      BY <3>1, <3>2, PassiveSteps
    <3> QED
      BY <2>1, <2>2, <3>3 DEF own
  <2> QED
    BY <2>3, <2>4
<1>12. ChanInv'
  <2>1. ASSUME NEW m \in Node, NEW i \in DOMAIN chan'[m], chan'[m][i].attr # NoAttr
        PROVE  chan'[m][i].attr \in Owns[Peer(m)] /\ chan'[m][i].ev \in Heard
    <3>1. CASE chan'[m] = chan[m]
      BY <1>1, <2>1, <3>1 DEF ChanInv
    <3>2. CASE chan'[m] # chan[m]
      <4>1. m = Peer(n) /\ s.join = 0 /\ chan'[m] = chan[m] \o Sent(s) /\ Peer(m) = n
        BY <1>7, <1>8, <3>2
      <4>2. CASE i \in DOMAIN chan[m]
        <5>1. chan'[m][i] = chan[m][i]
          BY <1>7, <4>1, <4>2, ConcatIs
        <5> QED
          BY <1>1, <2>1, <4>2, <5>1 DEF ChanInv
      <4>3. CASE i \notin DOMAIN chan[m]
        <5> DEFINE k == i - Len(chan[m])
        <5>1. k \in DOMAIN Sent(s) /\ i = Len(chan[m]) + k
          BY <1>7, <4>1, <4>3, ConcatIs
        <5> HIDE DEF k
        <5>2. chan[m] \in Seq(Mrpdu)
          BY <1>1
        <5>3. (chan[m] \o Sent(s))[Len(chan[m]) + k] = Sent(s)[k]
          BY <1>7, <5>1, <5>2, ConcatIs
        <5>4. chan'[m][i] = Sent(s)[k]
          BY <4>1, <5>1, <5>3
        <5> QED
          BY <1>11, <2>1, <4>1, <5>1, <5>4
      <4> QED
        BY <4>2, <4>3
    <3> QED
      BY <3>1, <3>2
  <2> QED
    BY <2>1 DEF ChanInv
<1>13. StandInv'
  <2>1. ASSUME NEW a \in decl[n]
        PROVE  Standing(port'[n], port'[Peer(n)], chan'[Peer(n)], chan'[n], held'[n][a], a)
    <3>1. a \in Attr /\ held[n][a] \in Nat /\ port[n].app[a] \in Active
      BY <1>1, <1>9, <2>1
    <3>2. Standing(port[n], port[Peer(n)], chan[Peer(n)], chan[n], held[n][a], a)
      BY <1>1, <2>1 DEF StandInv
    <3>3. port'[n] \in PortState /\ GoodPort(port[Peer(n)])
      BY <1>1, <1>3, <1>7 DEF GoodPort
    <3>4. Standing(port'[n], port[Peer(n)], chan'[Peer(n)], chan[n], held[n][a], a)
      BY <1>1, <1>4, <3>1, <3>2, <3>3, DeclarerTicks
    <3>5. port'[Peer(n)] = port[Peer(n)] /\ held'[n][a] = held[n][a]
      BY <1>3, <1>5, <1>7
    <3> QED
      BY <1>8, <3>4, <3>5
  <2>2. ASSUME NEW a \in decl[Peer(n)]
        PROVE  Standing(port'[Peer(n)], port'[n], chan'[n], chan'[Peer(n)], held'[Peer(n)][a], a)
    <3>1. a \in Attr /\ port[Peer(n)] \in PortState
      BY <1>1, <1>7, <2>2
    <3>2. Standing(port[Peer(n)], port[n], chan[n], chan[Peer(n)], held[Peer(n)][a], a)
      BY <1>1, <1>7, <2>2 DEF StandInv
    <3>3. /\ port[n].role = "switch" => ArmsOnLeaveAll /\ JoinMax + JoinMax < SwitchLeaveTime
          /\ PeriodicTime + JoinMax < SelfLeaveTime
      BY <1>1, SwitchRoom
    <3>4. Standing(port[Peer(n)], port'[n], chan[n], chan'[Peer(n)], held[Peer(n)][a], a)
      BY <1>1, <1>2, <1>3, <1>4, <3>1, <3>2, <3>3, ReceiverTicks
    <3>5. port'[Peer(n)] = port[Peer(n)] /\ held'[Peer(n)][a] = held[Peer(n)][a]
      BY <1>3, <1>5, <1>7
    <3> QED
      BY <1>8, <3>4, <3>5
  <2>3. ASSUME NEW m \in Node, NEW a \in decl'[m]
        PROVE  Standing(port'[m], port'[Peer(m)], chan'[Peer(m)], chan'[m], held'[m][a], a)
    BY <1>5, <1>7, <2>1, <2>2, <2>3
  <2> QED
    BY <2>3 DEF StandInv
<1> QED
  BY <1>6, <1>10, <1>12, <1>13
\* A LeaveAll, then a value of another attribute or of this one.
LEMMA HeardApplicant ==
  ASSUME NEW n \in Node, NEW s, HeardLeaves(n, s), NEW a \in Attr
  PROVE  LET msg == Head(chan[n]) IN
         /\ s.app[a] = IF msg.leaveAll THEN OnRLeave(port[n].app[a]) ELSE port[n].app[a]
         /\ port'[n].app[a] = IF msg.attr = a THEN ApplicantStep(s.app[a], msg.ev)
                              ELSE s.app[a]
         /\ port'[n].periodic = port[n].periodic
         /\ port'[n].leaveAllPending = port[n].leaveAllPending
         /\ port[n].join # Off => port'[n].join = port[n].join
         /\ ~msg.leaveAll => port'[n].join = port[n].join
         /\ ArmsOnLeaveAll /\ msg.leaveAll => port'[n].join # Off
<1> DEFINE msg == Head(chan[n])
<1>1. NoAttr # a
  BY AttrsOrdered
<1>2. /\ s.app[a] = IF msg.leaveAll THEN OnRLeave(port[n].app[a]) ELSE port[n].app[a]
      /\ s.periodic = port[n].periodic
      /\ s.leaveAllPending = port[n].leaveAllPending
      /\ port[n].join # Off => s.join = port[n].join
      /\ ~msg.leaveAll => s.join = port[n].join
      /\ ArmsOnLeaveAll /\ msg.leaveAll => s.join # Off
  BY DEF HeardLeaves
<1>3. /\ port'[n].app[a] = IF msg.attr = a THEN ApplicantStep(s.app[a], msg.ev) ELSE s.app[a]
      /\ port'[n].periodic = s.periodic /\ port'[n].join = s.join
      /\ port'[n].leaveAllPending = s.leaveAllPending
  BY <1>1 DEF HeardLeaves
<1> HIDE DEF msg
<1> QED
  BY <1>2, <1>3 DEF msg

\* A Join puts a Registrar in, and no MRPDU empties one.
LEMMA HeardRegistrar ==
  ASSUME NEW n \in Node, NEW s, HeardLeaves(n, s), NEW a \in Attr, GoodPort(port[n]),
         Head(chan[n]).attr # NoAttr => Head(chan[n]).ev \in Heard
  PROVE  LET msg == Head(chan[n]) IN
         /\ Joins(msg, a) => port'[n].reg[a] = "IN"
         /\ ~Undoes(msg, a) => \/ port'[n].reg[a] = "IN"
                               \/ /\ port'[n].reg[a] = port[n].reg[a]
                                  /\ port'[n].leave[a] = port[n].leave[a]
         /\ Enrolled(port[n], a) => Enrolled(port'[n], a)
<1> DEFINE msg == Head(chan[n])
           o == port[n]
           z == port'[n]
<1>1. NoAttr # a
  BY AttrsOrdered
<1>2. /\ ~msg.leaveAll => s.reg[a] = o.reg[a] /\ s.leave[a] = o.leave[a]
      /\ msg.leaveAll => /\ s.reg[a] = RegistrarStep(o.reg[a], "rLA")
                         /\ s.reg[a] = "LV" => s.leave[a] = LeaveTime
  BY DEF HeardLeaves
<1>3. /\ msg.attr # a => z.reg[a] = s.reg[a] /\ z.leave[a] = s.leave[a]
      /\ msg.attr = a => /\ z.reg[a] = RegistrarStep(s.reg[a], msg.ev)
                         /\ msg.ev = "rLv" /\ z.reg[a] = "LV" => z.leave[a] = LeaveTime
  BY <1>1 DEF HeardLeaves
<1>4. msg.attr = a => msg.ev \in Heard
  BY <1>1
<1>5. o.reg[a] \in RegistrarState
  BY PortFields DEF GoodPort
<1> HIDE DEF msg, o, z
<1>6. /\ \A r \in RegistrarState : /\ RegistrarStep(r, "rLv") = IF r = "MT" THEN "MT" ELSE "LV"
                                   /\ RegistrarStep(r, "rLA") = IF r = "MT" THEN "MT" ELSE "LV"
      /\ \A r : \A ev \in Heard \ {"rLv"} : RegistrarStep(r, ev) = "IN"
  BY DEF RegistrarStep, RegistrarState, Heard
<1>7. s.reg[a] \in RegistrarState
  BY <1>2, <1>5, <1>6 DEF RegistrarState
<1>8. Joins(msg, a) => z.reg[a] = "IN"
  BY <1>3, <1>4, <1>6 DEF Joins
<1>9. ~Undoes(msg, a) => z.reg[a] = "IN" \/ (z.reg[a] = o.reg[a] /\ z.leave[a] = o.leave[a])
  BY <1>2, <1>3, <1>4, <1>6 DEF Undoes
<1>10. Enrolled(o, a) => Enrolled(s, a)
  BY <1>2, <1>5, <1>6, LinkNumbers DEF Enrolled
<1>11. Enrolled(s, a) => Enrolled(z, a)
  <2>1. CASE msg.attr # a
    BY <1>3, <2>1 DEF Enrolled
  <2>2. CASE msg.attr = a /\ msg.ev = "rLv"
    BY <1>3, <1>6, <1>7, <2>2, LinkNumbers DEF Enrolled
  <2>3. CASE msg.attr = a /\ msg.ev # "rLv"
    BY <1>3, <1>4, <1>6, <2>3 DEF Enrolled
  <2> QED
    BY <2>1, <2>2, <2>3
<1> QED
  BY <1>8, <1>9, <1>10, <1>11 DEF msg, o, z

\* So do mrp_rx_msrp and mrp_rx_mvrp,
LEMMA ReceiveKept ==
  ASSUME LinkFits, LinkInv, NEW n \in Node, Receive(n)
  PROVE  RoleInv' /\ AppInv' /\ ChanInv' /\ StandInv'
<1> DEFINE msg == Head(chan[n])
<1>1. /\ port \in [Node -> PortState] /\ chan \in [Node -> Seq(Mrpdu)]
      /\ \A m \in Node : GoodPort(port[m]) /\ port[m] \in PortState /\ chan[m] \in Seq(Mrpdu)
      /\ RoleInv /\ AppInv /\ ChanInv /\ StandInv
      /\ \A m \in Node : decl[m] \subseteq Attr /\ \A a \in Attr : held[m][a] \in Nat
  BY InvParts
<1>2. GoodPort(port[n]) /\ alive[n]
  BY <1>1, SwitchRoom
<1>3. /\ chan[n] # << >> /\ msg \in Mrpdu
      /\ chan' = [chan EXCEPT ![n] = Tail(@)]
      /\ GoodPort(port'[n]) /\ port'[n].role = port[n].role
      /\ \A m \in Node : m # n => port'[m] = port[m]
      /\ \E s : HeardLeaves(n, s)
  BY <1>1, <1>2, ReceiveDoes
<1>4. PICK s : HeardLeaves(n, s)
  BY <1>3
<1>5. UNCHANGED <<decl, alive, held>>
  BY DEF Receive
<1>6. RoleInv'
  <2>1. \A m \in Node : port'[m].role = port[m].role
    BY <1>3
  <2> QED
    BY <1>1, <1>5, <2>1, RoleKept
<1>7. /\ Peer(n) \in Node /\ Peer(n) # n /\ Peer(Peer(n)) = n
      /\ \A m \in Node : m = n \/ m = Peer(n)
  BY PeerIs
<1>8. chan'[n] = Tail(chan[n]) /\ chan'[Peer(n)] = chan[Peer(n)]
  BY <1>1, <1>3, <1>7
<1>9. msg.attr # NoAttr => msg.attr \in Owns[Peer(n)] \ Owns[n] /\ msg.ev \in Heard
  <2>1. 1 \in DOMAIN chan[n] /\ msg = chan[n][1]
    BY <1>1, <1>3, TailIs
  <2>2. Owns[n] \cap Owns[Peer(n)] = {}
    BY <1>7 DEF LinkFits
  <2> HIDE DEF msg
  <2> QED
    BY <1>1, <2>1, <2>2 DEF ChanInv
<1>10. ASSUME NEW a \in Attr
       PROVE  /\ a \in decl[n] => /\ a \in Owns[n] /\ port[n].app[a] \in Active
                                  /\ port'[n].app[a] \in Active /\ msg.attr # a
              /\ a \notin decl[n] => /\ held[n][a] = 0
                                     /\ port'[n].app[a] \in Passive(a \in Owns[n])
  <2>1. /\ s.app[a] = IF msg.leaveAll THEN OnRLeave(port[n].app[a]) ELSE port[n].app[a]
        /\ port'[n].app[a] = IF msg.attr = a THEN ApplicantStep(s.app[a], msg.ev)
                             ELSE s.app[a]
    BY <1>4, HeardApplicant
  <2>2. msg.attr = a => a \notin Owns[n] /\ msg.ev \in Heard
    BY <1>9, AttrsOrdered
  <2> HIDE DEF msg
  <2>3. CASE a \in decl[n]
    <3>1. a \in Owns[n] /\ port[n].app[a] \in Active
      BY <1>1, <2>3 DEF AppInv
    <3>2. OnRLeave(port[n].app[a]) \in Active
      BY <3>1, ActiveSteps
    <3> QED
      BY <2>1, <2>2, <2>3, <3>1, <3>2
  <2>4. CASE a \notin decl[n]
    <3> DEFINE own == a \in Owns[n]
    <3>1. own \in BOOLEAN /\ held[n][a] = 0 /\ port[n].app[a] \in Passive(own)
      BY <1>1, <2>4 DEF AppInv
    <3>2. msg.attr = a => ~own /\ msg.ev \in Heard
      BY <2>2
    <3> HIDE DEF own
    <3>3. s.app[a] \in Passive(own)
      BY <2>1, <3>1, PassiveSteps
    <3>4. port'[n].app[a] \in Passive(own)
      BY <2>1, <3>1, <3>2, <3>3, PassiveSteps
    <3> QED
      BY <2>4, <3>1, <3>4 DEF own
  <2> QED
    BY <2>3, <2>4
<1> HIDE DEF msg
<1>11. AppInv'
  <2>1. ASSUME NEW m \in Node, NEW a \in Attr
        PROVE  /\ a \in decl'[m] => a \in Owns[m] /\ port'[m].app[a] \in Active
               /\ a \notin decl'[m] => held'[m][a] = 0 /\ port'[m].app[a] \in Passive(a \in Owns[m])
    <3>1. CASE m = n
      BY <1>5, <1>10, <3>1
    <3>2. CASE m # n
      <4>1. port'[m] = port[m] /\ decl'[m] = decl[m] /\ held'[m] = held[m]
        BY <1>3, <1>5, <3>2
      <4> QED
        BY <1>1, <4>1 DEF AppInv
    <3> QED
      BY <3>1, <3>2
  <2> QED
    BY <2>1 DEF AppInv
<1>12. ChanInv'
  <2>1. ASSUME NEW m \in Node, NEW i \in DOMAIN chan'[m], chan'[m][i].attr # NoAttr
        PROVE  chan'[m][i].attr \in Owns[Peer(m)] /\ chan'[m][i].ev \in Heard
    <3>1. CASE m = n
      <4>1. i + 1 \in DOMAIN chan[n] /\ chan'[m][i] = chan[n][i + 1]
        BY <1>1, <1>3, <1>8, <2>1, <3>1, TailIs
      <4> QED
        BY <1>1, <2>1, <3>1, <4>1 DEF ChanInv
    <3>2. CASE m # n
      <4>1. chan'[m] = chan[m]
        BY <1>7, <1>8, <3>2
      <4> QED
        BY <1>1, <2>1, <4>1 DEF ChanInv
    <3> QED
      BY <3>1, <3>2
  <2> QED
    BY <2>1 DEF ChanInv
<1>13. StandInv'
  <2>1. ASSUME NEW a \in decl[n]
        PROVE  Standing(port'[n], port'[Peer(n)], chan'[Peer(n)], chan'[n], held'[n][a], a)
    <3> DEFINE p == port[n]
               z == port'[n]
               r == port[Peer(n)]
               c == chan[n]
    <3>1. a \in Attr /\ p.app[a] \in Active /\ msg.attr # a
      BY <1>1, <1>10, <2>1
    <3>2. Standing(p, r, chan[Peer(n)], c, held[n][a], a)
      BY <1>1, <2>1 DEF StandInv
    <3>3. p \in PortState /\ z \in PortState /\ GoodPort(r) /\ c \in Seq(Mrpdu) /\ c # << >>
      BY <1>1, <1>3, <1>7 DEF GoodPort
    <3>4. /\ z.app[a] = (IF Head(c).leaveAll THEN OnRLeave(p.app[a]) ELSE p.app[a])
          /\ z.periodic = p.periodic
          /\ z.leaveAllPending = p.leaveAllPending
          /\ p.join # Off => z.join = p.join
          /\ ~Head(c).leaveAll => z.join = p.join
          /\ ArmsOnLeaveAll /\ Head(c).leaveAll => z.join # Off
      BY <1>4, <3>1, HeardApplicant DEF msg
    <3> HIDE DEF p, z, r, c
    <3>5. Standing(z, r, chan[Peer(n)], Tail(c), held[n][a], a)
      BY <3>1, <3>2, <3>3, <3>4, DeclarerHears
    <3>6. port'[Peer(n)] = r /\ held'[n][a] = held[n][a]
      BY <1>3, <1>5, <1>7 DEF r
    <3> QED
      BY <1>8, <3>5, <3>6 DEF z, c
  <2>2. ASSUME NEW a \in decl[Peer(n)]
        PROVE  Standing(port'[Peer(n)], port'[n], chan'[n], chan'[Peer(n)], held'[Peer(n)][a], a)
    <3> DEFINE p == port[Peer(n)]
               r == port[n]
               y == port'[n]
               q == chan[n]
    <3>1. a \in Attr /\ p \in PortState /\ GoodPort(r) /\ y \in PortState
      BY <1>1, <1>3, <1>7, <2>2 DEF GoodPort
    <3>2. Standing(p, r, q, chan[Peer(n)], held[Peer(n)][a], a)
      BY <1>1, <1>7, <2>2 DEF StandInv
    <3>3. q \in Seq(Mrpdu) /\ q # << >>
      BY <1>1, <1>3
    <3>4. /\ y.role = r.role /\ y.leaveAllPending = r.leaveAllPending
          /\ r.join # Off => y.join = r.join
      BY <1>3, <1>4, <3>1, HeardApplicant
    <3>5. /\ Joins(Head(q), a) => y.reg[a] = "IN"
          /\ ~Undoes(Head(q), a) => \/ y.reg[a] = "IN"
                                    \/ y.reg[a] = r.reg[a] /\ y.leave[a] = r.leave[a]
          /\ Enrolled(r, a) => Enrolled(y, a)
      BY <1>2, <1>4, <1>9, <3>1, HeardRegistrar DEF msg
    <3> HIDE DEF p, r, y, q
    <3>6. Standing(p, y, Tail(q), chan[Peer(n)], held[Peer(n)][a], a)
      BY <3>1, <3>2, <3>3, <3>4, <3>5, ReceiverHears
    <3>7. port'[Peer(n)] = p /\ held'[Peer(n)][a] = held[Peer(n)][a]
      BY <1>3, <1>5, <1>7 DEF p
    <3> QED
      BY <1>8, <3>6, <3>7 DEF y, q
  <2>3. ASSUME NEW m \in Node, NEW a \in decl'[m]
        PROVE  Standing(port'[m], port'[Peer(m)], chan'[Peer(m)], chan'[m], held'[m][a], a)
    BY <1>5, <1>7, <2>1, <2>2, <2>3
  <2> QED
    BY <2>3 DEF StandInv
<1> QED
  BY <1>6, <1>11, <1>12, <1>13
\* the application's declarations and withdrawals,
LEMMA ChangeKept ==
  ASSUME LinkInv, NEW n \in Node, NEW e \in Attr, Declare(n, e) \/ Withdraw(n, e)
  PROVE  RoleInv' /\ AppInv' /\ ChanInv' /\ StandInv'
<1>1. /\ port \in [Node -> PortState]
      /\ \A m \in Node : GoodPort(port[m]) /\ port[m] \in PortState
      /\ RoleInv /\ AppInv /\ ChanInv /\ StandInv
      /\ \A m \in Node : decl[m] \subseteq Attr
      /\ decl \in [Node -> SUBSET Attr] /\ held \in [Node -> [Attr -> 0..JoinMax + 1]]
  BY InvParts
<1>2. GoodPort(port[n])
  BY <1>1
<1>3. /\ GoodPort(port'[n])
      /\ \A m \in Node : m # n => port'[m] = port[m]
      /\ port'[n].role = port[n].role /\ port'[n].reg = port[n].reg
      /\ port'[n].leave = port[n].leave /\ port'[n].periodic = port[n].periodic
      /\ port'[n].leaveAllPending = port[n].leaveAllPending
      /\ port'[n].join # Off /\ (port[n].join # Off => port'[n].join = port[n].join)
      /\ \A a \in Attr \ {e} : port'[n].app[a] = port[n].app[a]
      /\ Declare(n, e) =>
           port'[n].app[e] = ApplicantStep(port[n].app[e], DeclareEvent(port[n].app[e]))
      /\ Withdraw(n, e) => port'[n].app[e] = OnLv(port[n].app[e])
  BY <1>1, <1>2, ChangeDoes
<1>4. UNCHANGED <<chan, alive>>
  BY DEF Declare, Withdraw
<1>5. \/ /\ Declare(n, e) /\ e \in Owns[n] /\ e \notin decl[n]
         /\ decl' = [decl EXCEPT ![n] = @ \cup {e}] /\ held' = held
      \/ /\ Withdraw(n, e) /\ e \in decl[n]
         /\ decl' = [decl EXCEPT ![n] = @ \ {e}] /\ held' = [held EXCEPT ![n][e] = 0]
  BY DEF Declare, Withdraw
<1>6. /\ \A m \in Node : m # n => decl'[m] = decl[m] /\ held'[m] = held[m]
      /\ \A a \in Attr : a # e => (a \in decl'[n] <=> a \in decl[n]) /\ held'[n][a] = held[n][a]
      /\ Declare(n, e) /\ e \notin decl[n] => e \in decl'[n] /\ held'[n][e] = held[n][e]
      /\ Withdraw(n, e) /\ e \in decl[n] => e \notin decl'[n] /\ held'[n][e] = 0
  <2>1. decl[n] \subseteq Attr /\ held[n] \in [Attr -> 0..JoinMax + 1]
    BY <1>1
  <2>2. CASE /\ Declare(n, e) /\ e \in Owns[n] /\ e \notin decl[n]
             /\ decl' = [decl EXCEPT ![n] = @ \cup {e}] /\ held' = held
    <3>1. ~Withdraw(n, e)
      BY <2>2 DEF Withdraw
    <3> QED
      BY <1>1, <2>1, <2>2, <3>1
  <2>3. CASE /\ Withdraw(n, e) /\ e \in decl[n]
             /\ decl' = [decl EXCEPT ![n] = @ \ {e}] /\ held' = [held EXCEPT ![n][e] = 0]
    <3>1. ~Declare(n, e)
      BY <2>3 DEF Declare
    <3>2. decl'[n] = decl[n] \ {e} /\ \A m \in Node : m # n => decl'[m] = decl[m]
      BY <1>1, <2>3
    <3>3. /\ held'[n][e] = 0 /\ \A a \in Attr : a # e => held'[n][a] = held[n][a]
          /\ \A m \in Node : m # n => held'[m] = held[m]
      BY <1>1, <2>1, <2>3
    <3> QED
      BY <2>3, <3>1, <3>2, <3>3
  <2> QED
    BY <1>5, <2>2, <2>3
<1>7. RoleInv'
  <2>1. \A m \in Node : port'[m].role = port[m].role
    BY <1>3
  <2> QED
    BY <1>1, <1>4, <2>1, RoleKept
<1>8. ChanInv'
  BY <1>1, <1>4 DEF ChanInv
<1>9. /\ Declare(n, e) /\ e \notin decl[n] /\ e \in Owns[n] =>
           port'[n].app[e] \in {"VN", "VP"} /\ held[n][e] = 0
      /\ Withdraw(n, e) /\ e \in decl[n] =>
           e \in Owns[n] /\ port'[n].app[e] \in {"VO", "LO", "LA"}
  <2>1. ASSUME Declare(n, e), e \notin decl[n], e \in Owns[n]
        PROVE  port'[n].app[e] \in {"VN", "VP"} /\ held[n][e] = 0
    <3> DEFINE own == e \in Owns[n]
    <3>1. own \in BOOLEAN /\ own /\ port[n].app[e] \in Passive(own) /\ held[n][e] = 0
      BY <1>1, <2>1 DEF AppInv
    <3> HIDE DEF own
    <3> QED
      BY <1>3, <2>1, <3>1, PassiveSteps
  <2>2. ASSUME Withdraw(n, e), e \in decl[n]
        PROVE  e \in Owns[n] /\ port'[n].app[e] \in {"VO", "LO", "LA"}
    <3>1. e \in Owns[n] /\ port[n].app[e] \in Active
      BY <1>1, <2>2 DEF AppInv
    <3> QED
      BY <1>3, <2>2, <3>1, ActiveSteps
  <2> QED
    BY <2>1, <2>2
<1>10. AppInv'
  <2>1. ASSUME NEW m \in Node, NEW a \in Attr
        PROVE  /\ a \in decl'[m] => a \in Owns[m] /\ port'[m].app[a] \in Active
               /\ a \notin decl'[m] => held'[m][a] = 0 /\ port'[m].app[a] \in Passive(a \in Owns[m])
    <3>1. CASE m = n /\ a = e
      <4>1. CASE Declare(n, e) /\ e \in Owns[n] /\ e \notin decl[n]
        BY <1>6, <1>9, <3>1, <4>1 DEF Active
      <4>2. CASE Withdraw(n, e) /\ e \in decl[n]
        BY <1>6, <1>9, <3>1, <4>2 DEF Passive
      <4> QED
        BY <1>5, <4>1, <4>2
    <3>2. CASE m = n /\ a # e
      <4>1. port'[n].app[a] = port[n].app[a] /\ (a \in decl'[n] <=> a \in decl[n])
            /\ held'[n][a] = held[n][a]
        BY <1>3, <1>6, <3>2
      <4> QED
        BY <1>1, <3>2, <4>1 DEF AppInv
    <3>3. CASE m # n
      <4>1. port'[m] = port[m] /\ decl'[m] = decl[m] /\ held'[m] = held[m]
        BY <1>3, <1>6, <3>3
      <4> QED
        BY <1>1, <4>1 DEF AppInv
    <3> QED
      BY <3>1, <3>2, <3>3
  <2> QED
    BY <2>1 DEF AppInv
<1>11. /\ Peer(n) \in Node /\ Peer(n) # n /\ Peer(Peer(n)) = n
       /\ \A m \in Node : m = n \/ m = Peer(n)
  BY PeerIs
<1>12. StandInv'
  <2>1. ASSUME NEW a \in decl'[n], a \in Attr
        PROVE  Standing(port'[n], port'[Peer(n)], chan'[Peer(n)], chan'[n], held'[n][a], a)
    <3>1. CASE a = e
      <4>1. Declare(n, e) /\ e \in Owns[n] /\ e \notin decl[n]
        BY <1>5, <1>6, <2>1, <3>1
      <4>2. port'[n].app[e] \in {"VN", "VP"} /\ held'[n][e] = 0 /\ port'[n].join # Off
        BY <1>3, <1>6, <1>9, <4>1
      <4>3. port'[n].join <= JoinMax /\ port'[n].join \in Int
        BY <1>3, PortFields DEF GoodPort
      <4>4. First(port'[n], held'[n][e], e)
        BY <4>2, <4>3, LinkNumbers DEF First
      <4> QED
        BY <3>1, <4>4 DEF Standing
    <3>2. CASE a # e
      <4> DEFINE p == port[n]
                 z == port'[n]
                 r == port[Peer(n)]
      <4>1. a \in decl[n] /\ held'[n][a] = held[n][a] /\ z.app[a] = p.app[a]
        BY <1>3, <1>6, <2>1, <3>2
      <4>2. Standing(p, r, chan[Peer(n)], chan[n], held[n][a], a)
        BY <1>1, <4>1 DEF StandInv
      <4>3. p \in PortState /\ z \in PortState /\ GoodPort(r) /\ r \in PortState
        BY <1>1, <1>3, <1>11 DEF GoodPort
      <4>4. /\ z.periodic = p.periodic /\ z.leaveAllPending = p.leaveAllPending
            /\ p.join # Off => z.join = p.join
        BY <1>3
      <4>5. port'[Peer(n)] = r
        BY <1>3, <1>11
      <4> HIDE DEF p, z, r
      <4>6. Standing(z, r, chan[Peer(n)], chan[n], held[n][a], a)
        BY <2>1, <4>1, <4>2, <4>3, <4>4, StillStanding
      <4> QED
        BY <1>4, <4>1, <4>5, <4>6 DEF z
    <3> QED
      BY <3>1, <3>2
  <2>2. ASSUME NEW a \in decl[Peer(n)]
        PROVE  Standing(port'[Peer(n)], port'[n], chan'[n], chan'[Peer(n)], held'[Peer(n)][a], a)
    <3> DEFINE p == port[Peer(n)]
               r == port[n]
               y == port'[n]
    <3>1. a \in Attr /\ p \in PortState /\ GoodPort(r) /\ y \in PortState
      BY <1>1, <1>3, <1>11, <2>2 DEF GoodPort
    <3>2. Standing(p, r, chan[n], chan[Peer(n)], held[Peer(n)][a], a)
      BY <1>1, <1>11, <2>2 DEF StandInv
    <3>3. /\ y.role = r.role /\ y.reg = r.reg /\ y.leave = r.leave
          /\ y.leaveAllPending = r.leaveAllPending /\ (r.join # Off => y.join = r.join)
      BY <1>3
    <3>4. port'[Peer(n)] = p /\ held'[Peer(n)] = held[Peer(n)]
      BY <1>3, <1>6, <1>11
    <3> HIDE DEF p, r, y
    <3>5. Standing(p, y, chan[n], chan[Peer(n)], held[Peer(n)][a], a)
      BY <3>1, <3>2, <3>3, StillStanding
    <3> QED
      BY <1>4, <3>4, <3>5 DEF y
  <2>3. ASSUME NEW m \in Node, NEW a \in decl'[m]
        PROVE  Standing(port'[m], port'[Peer(m)], chan'[Peer(m)], chan'[m], held'[m][a], a)
    <3>1. CASE m = n
      <4>1. a \in Attr
        BY <1>1, <1>5, <2>3, <3>1
      <4> QED
        BY <2>1, <2>3, <3>1, <4>1
    <3>2. CASE m = Peer(n)
      BY <1>6, <1>11, <2>2, <2>3, <3>2
    <3> QED
      BY <1>11, <3>1, <3>2
  <2> QED
    BY <2>3 DEF StandInv
<1> QED
  BY <1>7, <1>8, <1>10, <1>12

\* and time.
LEMMA PassKept ==
  ASSUME LinkFits, LinkInv, Pass
  PROVE  RoleInv' /\ AppInv' /\ ChanInv' /\ StandInv'
<1>1. /\ port \in [Node -> PortState]
      /\ \A n \in Node : /\ GoodPort(port[n]) /\ port[n] \in PortState
                         /\ Peer(n) \in Node /\ decl[n] \subseteq Attr
                         /\ \A a \in Attr : held[n][a] \in Nat
      /\ RoleInv /\ AppInv /\ ChanInv /\ StandInv
  BY InvParts
<1>2. \A n \in Node : alive[n] /\ chan[n] = << >> /\ ~Due(port[n])
  BY <1>1, SwitchRoom DEF Pass, Quiet
<1>3. \A n \in Node : GoodPort(port'[n]) /\ port'[n] = Aged(port[n])
  BY <1>1, <1>2, PassDoes
<1>4. UNCHANGED <<decl, chan, alive>>
  BY DEF Pass
<1>5. ASSUME NEW n \in Node
      PROVE  LET p == port[n]
                 z == port'[n]
             IN /\ p \in PortState /\ z \in PortState /\ GoodPort(p)
                /\ z.role = p.role /\ z.app = p.app /\ z.reg = p.reg
                /\ z.leaveAllPending = p.leaveAllPending
                /\ z.join = Down(p.join) /\ z.periodic = Down(p.periodic)
                /\ p.join # 0 /\ p.periodic # 0
                /\ \A a \in Attr : z.leave[a] = Down(p.leave[a]) /\ p.leave[a] # 0
  <2> DEFINE p == port[n]
             z == port'[n]
  <2>1. GoodPort(p) /\ p \in PortState /\ GoodPort(z) /\ z = Aged(p) /\ ~Due(p)
    BY <1>1, <1>2, <1>3
  <2> HIDE DEF p, z
  <2>2. /\ z.role = p.role /\ z.app = p.app /\ z.reg = p.reg
        /\ z.leaveAllPending = p.leaveAllPending
        /\ z.join = Down(p.join) /\ z.periodic = Down(p.periodic)
        /\ \A a \in Attr : z.leave[a] = Down(p.leave[a])
    BY <2>1, AgedDoes
  <2>3. DOMAIN p.leave = Attr
    BY <2>1, PortFields
  <2>4. p.join # 0 /\ p.periodic # 0 /\ \A a \in Attr : p.leave[a] # 0
    BY <2>1, <2>3 DEF Due, Range
  <2> QED
    BY <2>1, <2>2, <2>4 DEF p, z, GoodPort
<1>6. \A n \in Node : \A a \in Attr :
        /\ held'[n][a] \in Nat /\ held'[n][a] <= held[n][a] + 1
        /\ a \notin decl[n] => held'[n][a] = held[n][a]
  <2>1. held' = [n \in Node |-> [a \in Attr |->
                   IF a \in decl[n] /\ held[n][a] <= JoinMax
                   THEN held[n][a] + 1 ELSE held[n][a]]]
    BY DEF Pass
  <2> QED
    BY <1>1, <2>1
<1>7. RoleInv'
  <2>1. \A m \in Node : port'[m].role = port[m].role
    BY <1>5
  <2> QED
    BY <1>1, <1>4, <2>1, RoleKept
<1>8. ChanInv'
  BY <1>1, <1>4 DEF ChanInv
<1>9. AppInv'
  <2>1. ASSUME NEW n \in Node, NEW a \in Attr
        PROVE  /\ a \in decl'[n] => a \in Owns[n] /\ port'[n].app[a] \in Active
               /\ a \notin decl'[n] => held'[n][a] = 0 /\ port'[n].app[a] \in Passive(a \in Owns[n])
    <3>1. port'[n].app = port[n].app
      BY <1>5
    <3> QED
      BY <1>1, <1>4, <1>6, <3>1 DEF AppInv
  <2> QED
    BY <2>1 DEF AppInv
<1>10. StandInv'
  <2>1. ASSUME NEW n \in Node, NEW a \in decl'[n]
        PROVE  Standing(port'[n], port'[Peer(n)], chan'[Peer(n)], chan'[n], held'[n][a], a)
    <3> DEFINE p == port[n]
               z == port'[n]
               r == port[Peer(n)]
               y == port'[Peer(n)]
               h == held[n][a]
               k == held'[n][a]
    <3>1. a \in decl[n] /\ a \in Attr /\ Peer(n) \in Node
      BY <1>1, <1>4, <2>1
    <3>2. chan[n] = << >> /\ chan[Peer(n)] = << >>
      BY <1>2, <3>1
    <3>3. Standing(p, r, << >>, << >>, h, a)
      BY <1>1, <3>1, <3>2 DEF StandInv
    <3>4. h \in Nat /\ k \in Nat /\ k <= h + 1
      BY <1>1, <1>6, <3>1
    <3>5. /\ p \in PortState /\ z \in PortState
          /\ p.join # 0 /\ p.periodic # 0
          /\ z.app = p.app /\ z.leaveAllPending = p.leaveAllPending
          /\ z.join = Down(p.join) /\ z.periodic = Down(p.periodic)
      BY <1>5
    <3>6. /\ GoodPort(r) /\ y \in PortState /\ r.join # 0 /\ r.leave[a] # 0
          /\ y.role = r.role /\ y.reg = r.reg /\ y.leaveAllPending = r.leaveAllPending
          /\ y.join = Down(r.join) /\ y.leave[a] = Down(r.leave[a])
      BY <1>5, <3>1
    <3> HIDE DEF p, z, r, y, h, k
    <3>7. Standing(z, y, << >>, << >>, k, a)
      BY <3>1, <3>3, <3>4, <3>5, <3>6, UnitPasses
    <3> QED
      BY <1>4, <3>2, <3>7 DEF z, y, k
  <2> QED
    BY <2>1 DEF StandInv
<1> QED
  BY <1>7, <1>8, <1>9, <1>10

LEMMA LinkInvStart == LinkInit => LinkInv
<1> SUFFICES ASSUME LinkInit PROVE LinkInv
  OBVIOUS
<1>1. LinkTypeOK
  BY LinkTypeStart
<1>2. PICK role \in Roles, per \in [Node -> 1..PeriodicTime] :
        port = [n \in Node |-> PortInit(role[n], LeaveAllMin, per[n])]
  BY DEF LinkInit
<1>3. ASSUME NEW n \in Node
      PROVE  port[n].role = role[n] /\ \A a \in Attr : port[n].app[a] = "VO"
  BY <1>2 DEF PortInit
<1>4. /\ \A n \in Node : alive[n] /\ decl[n] = {} /\ chan[n] = << >>
      /\ \A n \in Node : \A a \in Attr : held[n][a] = 0
  BY DEF LinkInit
<1>5. RoleInv
  BY <1>3, <1>4 DEF RoleInv
<1>6. AppInv
  BY <1>3, <1>4 DEF AppInv, Passive
<1>7. ChanInv /\ StandInv
  BY <1>4 DEF ChanInv, StandInv
<1> QED
  BY <1>1, <1>5, <1>6, <1>7 DEF LinkInv

LEMMA LinkInvStep ==
  ASSUME LinkFits
  PROVE  LinkInv /\ (losses = 0 /\ crashes = 0)' /\ [LinkNext]_linkVars => LinkInv'
<1> SUFFICES ASSUME LinkInv, losses' = 0, crashes' = 0, [LinkNext]_linkVars PROVE LinkInv'
  OBVIOUS
<1>1. LinkTypeOK /\ RoleInv
  BY DEF LinkInv
<1>2. LinkTypeOK'
  BY <1>1, LinkTypeStep
<1>3. CASE Pass
  BY <1>2, <1>3, PassKept DEF LinkInv
<1>4. ASSUME NEW n \in Node, PortTick(n) PROVE LinkInv'
  BY <1>2, <1>4, TickKept DEF LinkInv
<1>5. ASSUME NEW n \in Node, Receive(n) PROVE LinkInv'
  BY <1>2, <1>5, ReceiveKept DEF LinkInv
<1>6. ASSUME NEW n \in Node, Lose(n) PROVE LinkInv'
  <2>1. losses \in 0..MaxLoss /\ losses' = losses + 1 /\ MaxLoss \in Nat
    BY <1>1, <1>6, LinkAssumption DEF Lose, LinkTypeOK
  <2> QED
    BY <2>1
<1>7. ASSUME NEW n \in Node, Crash(n) PROVE LinkInv'
  <2>1. crashes \in 0..MaxCrash /\ crashes' = crashes + 1 /\ MaxCrash \in Nat
    BY <1>1, <1>7, LinkAssumption DEF Crash, LinkTypeOK
  <2> QED
    BY <2>1
<1>8. ASSUME NEW n \in Node, Restart(n) PROVE LinkInv'
  BY <1>1, <1>8, SwitchRoom DEF Restart
<1>9. ASSUME NEW n \in Node, NEW a \in Attr, Declare(n, a) \/ Withdraw(n, a) PROVE LinkInv'
  BY <1>2, <1>9, ChangeKept DEF LinkInv
<1>10. CASE UNCHANGED linkVars
  BY <1>2, <1>10 DEF linkVars, LinkInv, RoleInv, AppInv, ChanInv, StandInv
<1> QED
  BY <1>3, <1>4, <1>5, <1>6, <1>7, <1>8, <1>9, <1>10 DEF LinkNext

\* What has stood for JoinTime is no longer First, so it is registered.
LEMMA LinkInvStands == LinkInv => StandingIsRegistered
<1> SUFFICES ASSUME LinkInv, NEW n \in Node, NEW a \in Attr, held[n][a] > JoinMax
             PROVE  port[Peer(n)].reg[a] # "MT"
  BY DEF StandingIsRegistered
<1>1. /\ AppInv /\ StandInv /\ GoodPort(port[Peer(n)]) /\ port[n] \in PortState
      /\ held[n][a] \in Nat
  <2>1. Peer(n) \in Node
    BY PeerIs
  <2> QED
    BY <2>1, InvParts
<1>2. a \in decl[n]
  BY <1>1, LinkNumbers DEF AppInv
<1>3. Standing(port[n], port[Peer(n)], chan[Peer(n)], chan[n], held[n][a], a)
  BY <1>1, <1>2 DEF StandInv
<1>4. ~First(port[n], held[n][a], a)
  <2>1. port[n].join # Off => port[n].join \in Nat
    BY <1>1, PortFields, LinkNumbers
  <2> QED
    BY <1>1, <2>1, LinkNumbers DEF First
<1>5. Enrolled(port[Peer(n)], a)
  <2>1. Stays(port[n], port[Peer(n)], chan[n], a) => Enrolled(port[Peer(n)], a)
    BY <1>1, StaysRegistered
  <2> QED
    BY <1>1, <1>3, <1>4, <2>1, LinkNumbers DEF Standing, Safe
<1> QED
  BY <1>5 DEF Enrolled

\* On a link that loses nothing and between nodes that do not reboot, what has
\* been declared for JoinTime is registered at the peer and stays registered
\* through every LeaveAll of either side and every change of other
\* declarations (mrp_rx_msrp, mrp_port_tick, mrp_station_self_leaveall).
THEOREM StandingKept ==
  ASSUME LinkFits
  PROVE  LinkSpec /\ [](losses = 0 /\ crashes = 0) => []StandingIsRegistered
<1>1. LinkSpec /\ [](losses = 0 /\ crashes = 0) => []LinkInv
  <2>1. LinkInv /\ (losses = 0 /\ crashes = 0)' /\ [LinkNext]_linkVars => LinkInv'
    BY LinkInvStep
  <2> QED
    BY <2>1, LinkInvStart, PTL DEF LinkSpec
<1> QED
  BY <1>1, LinkInvStands, PTL
=============================================================================
