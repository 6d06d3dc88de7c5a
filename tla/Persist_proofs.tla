--------------------------- MODULE Persist_proofs ---------------------------
(* What TLAPS proves of Persist: nothing marked is lost between the two     *)
(* tasks, and on a board that keeps its firmware every binding comes back.  *)
EXTENDS Persist, FiniteSetTheorems, SequenceTheorems, WellFoundedInduction, TLAPS

(***************************************************************************)
(* The inductive invariant.                                                *)
(***************************************************************************)
\* The steps of the calls of the main task.
RamOp == {"gather", "stamp", "eager", "lazy", "mark", "spawn"}
Plain == [op : RamOp \cup {"compact", "erase", "blob"}]
Keyed == [op : {"append", "retry"}, key : Stream] \cup [op : {"direct"}, key : Direct]
Kept  == [op : {"keep"}, record : Record]
Step  == Plain \cup Keyed \cup Kept

\* In which order steps follow each other in a call: what b may come after.
Follows(a, b) ==
  /\ b.op \notin {"gather", "compact", "erase"} /\ a.op # "spawn"
  /\ b.op = "retry" => a.op \in {"compact", "erase", "keep"}
  /\ b.op = "keep" =>
       \/ a.op = "erase"
       \/ a.op = "keep" /\ a.record.stream # b.record.stream

Ordered(q) == \A i, j \in DOMAIN q : i < j => Follows(q[i], q[j])

Steps(q) == {q[i] : i \in DOMAIN q}
Left == Steps(main)
Has(o) == \E step \in Left : step.op = o

Nvs == [blob : Snapshot, usable : BOOLEAN, journal : SUBSET Record,
        direct : [Direct -> Binding]]
Task == [at : {"none", "poll", "clear", "copy", "write"}, copy : Snapshot]

TypeInv ==
  /\ TypeOK
  /\ nvs \in Nvs /\ \E n \in Nat : \A r \in nvs.journal : r.seq <= n
  /\ main \in Seq(Step) /\ Ordered(main) /\ task \in Task
  /\ ~on => /\ main = << >> /\ task.at = "none" /\ dirty = FALSE
            /\ pending = {} /\ shared = Blank

\* The configuration on its way from the main task to flash.
ConfInv ==
  /\ on /\ ~Has("gather") => shared.conf = conf
  /\ Has("gather") /\ task.at # "none" => Has("mark")
  /\ on /\ task.at = "poll" /\ ~dirty /\ ~Has("mark")
       => nvs.usable /\ nvs.blob.conf = conf
  /\ task.at = "write" /\ ~dirty /\ ~Has("mark") => task.copy.conf = conf
  /\ Has("spawn") => task.at = "none"
  /\ on /\ task.at = "none"
       => Has("spawn") /\ (Has("blob") \/ (nvs.usable /\ nvs.blob.conf = conf))

\* A journal comes after the first snapshot.
BootInv ==
  /\ ~nvs.usable => nvs.blob = Blank /\ nvs.journal = {}
  /\ on /\ ~Has("blob") => nvs.usable
  /\ Has("blob") => \A step \in Left : step.op \in {"gather", "blob", "spawn"}

\* Records of a stream have different numbers, and none is above the counter.
JournalInv ==
  /\ \A r, q \in nvs.journal : r.stream = q.stream /\ r.seq = q.seq => r = q
  /\ on => \A r \in nvs.journal : r.seq <= seq

\* None of the records a compaction has still to write is in flash again, and
\* those it wrote are one of each stream.
CompactInv ==
  ~Has("erase") /\ ~Has("compact") =>
    /\ \A step \in Left : step.op = "keep" => Latest(step.record.stream) = {}
    /\ Has("keep") \/ Has("retry") =>
         \A r, q \in nvs.journal : r.stream = q.stream => r = q

\* What every snapshot has of a stream that has no record.
InSnapshots(s) ==
  /\ nvs.blob.bind[s] = live[s] /\ shared.bind[s] = live[s]
  /\ task.at = "write" => task.copy.bind[s] = live[s]

\* A change that is not in flash yet: deferred, or in the call under way.
Waits(k) == k \in pending \/ \E step \in Left : step \in Keyed /\ step.key = k

IsKept(s) == \E step \in Left : step \in Kept /\ step.record.stream = s

\* Where the binding of a stream is: in what a compaction has still to write,
\* in its newest record, or in the snapshots.
Safe(s) ==
  \/ \E step \in Left : step \in Kept /\ step.record.stream = s
                        /\ step.record.value = live[s]
  \/ ~IsKept(s) /\ Latest(s) = {} /\ InSnapshots(s)
  \/ /\ ~IsKept(s) /\ ~Has("erase")
     /\ \E r \in Latest(s) : /\ r.value = live[s]
                             /\ \A q \in Latest(s) : q.seq <= r.seq

BindInv ==
  /\ on => \A s \in Stream : ~Waits(s) => Safe(s)
  /\ on => \A k \in Direct : ~Waits(k) => nvs.direct[k] = live[k]

(***************************************************************************)
(* Numbers and sequences.                                                  *)
(***************************************************************************)
\* A set of numbers has a least one: the minimal-element theorem of
\* well-founded relations takes the place of induction.
LEMMA LeastNatural ==
  ASSUME NEW T \in SUBSET Nat, T # {}
  PROVE  \E n \in T : \A m \in T : n <= m
<1> DEFINE R == OpToRel(<, Nat)
<1>1. IsWellFoundedOn(R, Nat)
  BY NatLessThanWellFounded
<1>2. R = {ss \in Nat \X Nat : ss[1] < ss[2]}
  BY DEF OpToRel
<1> HIDE DEF R
<1>3. PICK n \in T : \A m \in T : ~(<<m, n>> \in R)
  BY <1>1, WFMin
<1>4. ASSUME NEW m \in T PROVE n <= m
  <2>1. ~(m < n)
    BY <1>2, <1>3
  <2> QED
    BY <2>1
<1> QED
  BY <1>4

\* SetToSeq, by which compaction and the tick go through a set, has every
\* element once.
LEMMA SetToSeqElements ==
  ASSUME NEW S, IsFiniteSet(S)
  PROVE  /\ SetToSeq(S) \in Seq(S) /\ Len(SetToSeq(S)) = Cardinality(S)
         /\ Cardinality(S) \in Nat
         /\ \A x \in S : \E i \in 1..Cardinality(S) : SetToSeq(S)[i] = x
         /\ \A i, j \in 1..Cardinality(S) :
              SetToSeq(S)[i] = SetToSeq(S)[j] => i = j
<1> DEFINE n == Cardinality(S)
           D == 1..n
<1>1. n \in Nat /\ ExistsBijection(D, S)
  BY FS_CardinalityType
<1>2. PICK g \in [D -> S] : IsInjective(g)
  BY <1>1 DEF ExistsBijection, Bijection, Injection
<1>3. SetToSeq(S) \in [D -> S] /\ IsInjective(SetToSeq(S))
  BY <1>2 DEF SetToSeq
<1>4. IsFiniteSet(D) /\ Cardinality(D) = n
  BY <1>1, FS_Interval
<1>5. SetToSeq(S) \in Injection(D, S)
  BY <1>3 DEF Injection
<1>6. SetToSeq(S) \in Surjection(D, S)
  BY <1>4, <1>5, FS_Injection
<1> HIDE DEF D, n
<1>7. SetToSeq(S) \in Seq(S) /\ Len(SetToSeq(S)) = n
  BY <1>1, <1>3 DEF D
<1> QED
  BY <1>1, <1>3, <1>6, <1>7 DEF D, n, Surjection, IsInjective

LEMMA FunctionIsSeq ==
  ASSUME NEW S, NEW n \in Nat, NEW q \in [1..n -> S]
  PROVE  q \in Seq(S) /\ Len(q) = n /\ DOMAIN q = 1..n
OBVIOUS

\* The first step of a call and what is left after it.
LEMMA HeadAndTail ==
  ASSUME NEW q \in Seq(Step), q # << >>
  PROVE  /\ Head(q) \in Step /\ Tail(q) \in Seq(Step)
         /\ Steps(q) = {Head(q)} \cup Steps(Tail(q))
         /\ Ordered(q) => /\ Ordered(Tail(q))
                          /\ \A b \in Steps(Tail(q)) : Follows(Head(q), b)
<1>1. /\ Head(q) = q[1] /\ Head(q) \in Step /\ Tail(q) \in Seq(Step)
      /\ Len(q) \in Nat \ {0} /\ DOMAIN q = 1..Len(q)
      /\ DOMAIN Tail(q) = 1..(Len(q) - 1)
      /\ \A i \in 1..(Len(q) - 1) : Tail(q)[i] = q[i + 1]
  BY HeadTailProperties, LenProperties, EmptySeq
<1>2. ASSUME NEW x \in Steps(q), x # Head(q) PROVE x \in Steps(Tail(q))
  <2>1. PICK i \in 1..Len(q) : x = q[i]
    BY <1>1 DEF Steps
  <2>2. i - 1 \in DOMAIN Tail(q) /\ Tail(q)[i - 1] = x
    BY <1>1, <1>2, <2>1
  <2> QED
    BY <2>2 DEF Steps
<1>3. ASSUME NEW x \in Steps(Tail(q)) PROVE \E i \in 2..Len(q) : x = q[i]
  <2>1. PICK i \in 1..(Len(q) - 1) : x = Tail(q)[i]
    BY <1>1 DEF Steps
  <2>2. i + 1 \in 2..Len(q) /\ x = q[i + 1]
    BY <1>1, <2>1
  <2> QED
    BY <2>2
<1>4. Steps(q) = {Head(q)} \cup Steps(Tail(q))
  <2>1. Head(q) \in Steps(q)
    BY <1>1 DEF Steps
  <2>2. \A x \in Steps(Tail(q)) : x \in Steps(q)
    BY <1>1, <1>3 DEF Steps
  <2> QED
    BY <2>1, <2>2, <1>2
<1>5. ASSUME Ordered(q) PROVE Ordered(Tail(q))
  <2> SUFFICES ASSUME NEW i \in 1..(Len(q) - 1), NEW j \in 1..(Len(q) - 1), i < j
               PROVE  Follows(Tail(q)[i], Tail(q)[j])
    BY <1>1 DEF Ordered
  <2>1. i + 1 \in DOMAIN q /\ j + 1 \in DOMAIN q /\ i + 1 < j + 1
    BY <1>1
  <2>2. Follows(q[i + 1], q[j + 1])
    BY <1>5, <2>1 DEF Ordered
  <2> QED
    BY <1>1, <2>2
<1>6. ASSUME Ordered(q), NEW b \in Steps(Tail(q)) PROVE Follows(Head(q), b)
  <2>1. PICK i \in 2..Len(q) : b = q[i]
    BY <1>3
  <2>2. 1 \in DOMAIN q /\ i \in DOMAIN q /\ 1 < i
    BY <1>1, <2>1
  <2> QED
    BY <1>1, <1>6, <2>1, <2>2 DEF Ordered
<1> QED
  BY <1>1, <1>4, <1>5, <1>6

\* A call that is put before another.
LEMMA Joined ==
  ASSUME NEW q \in Seq(Step), NEW r \in Seq(Step)
  PROVE  /\ q \o r \in Seq(Step) /\ Steps(q \o r) = Steps(q) \cup Steps(r)
         /\ (/\ Ordered(q) /\ Ordered(r)
             /\ \A a \in Steps(q), b \in Steps(r) : Follows(a, b))
            => Ordered(q \o r)
<1>1. /\ q \o r \in Seq(Step) /\ Len(q) \in Nat /\ Len(r) \in Nat
      /\ DOMAIN q = 1..Len(q) /\ DOMAIN r = 1..Len(r)
      /\ DOMAIN (q \o r) = 1..(Len(q) + Len(r))
      /\ \A i \in 1..(Len(q) + Len(r)) :
           (q \o r)[i] = IF i <= Len(q) THEN q[i] ELSE r[i - Len(q)]
  BY ConcatProperties, LenProperties
<1>2. ASSUME NEW i \in 1..(Len(q) + Len(r))
      PROVE  \/ i \in 1..Len(q) /\ (q \o r)[i] = q[i]
             \/ i - Len(q) \in 1..Len(r) /\ (q \o r)[i] = r[i - Len(q)]
  BY <1>1
<1>3. Steps(q \o r) = Steps(q) \cup Steps(r)
  <2>1. \A x \in Steps(q \o r) : x \in Steps(q) \cup Steps(r)
    BY <1>1, <1>2 DEF Steps
  <2>2. \A x \in Steps(q) : x \in Steps(q \o r)
    BY <1>1 DEF Steps
  <2>3. ASSUME NEW x \in Steps(r) PROVE x \in Steps(q \o r)
    <3>1. PICK j \in 1..Len(r) : x = r[j]
      BY <1>1 DEF Steps
    <3>2. j + Len(q) \in DOMAIN (q \o r) /\ (q \o r)[j + Len(q)] = r[j]
      BY <1>1
    <3> QED
      BY <3>1, <3>2 DEF Steps
  <2> QED
    BY <2>1, <2>2, <2>3
<1>4. ASSUME Ordered(q), Ordered(r),
             \A a \in Steps(q), b \in Steps(r) : Follows(a, b),
             NEW i \in DOMAIN (q \o r), NEW j \in DOMAIN (q \o r), i < j
      PROVE  Follows((q \o r)[i], (q \o r)[j])
  <2>1. CASE j \in 1..Len(q)
    <3>1. i \in 1..Len(q) /\ (q \o r)[i] = q[i] /\ (q \o r)[j] = q[j]
      BY <1>1, <1>4, <2>1
    <3> QED
      BY <1>1, <1>4, <2>1, <3>1 DEF Ordered
  <2>2. CASE i \in 1..Len(q) /\ j \notin 1..Len(q)
    <3>1. /\ (q \o r)[i] = q[i] /\ (q \o r)[j] = r[j - Len(q)]
          /\ j - Len(q) \in 1..Len(r)
      BY <1>1, <2>2
    <3> QED
      BY <1>1, <1>4, <2>2, <3>1 DEF Steps
  <2>3. CASE i \notin 1..Len(q)
    <3>1. /\ i - Len(q) \in 1..Len(r) /\ j - Len(q) \in 1..Len(r)
          /\ i - Len(q) < j - Len(q)
          /\ (q \o r)[i] = r[i - Len(q)] /\ (q \o r)[j] = r[j - Len(q)]
      BY <1>1, <1>4, <2>3
    <3> QED
      BY <1>1, <1>4, <3>1 DEF Ordered
  <2> QED
    BY <1>1, <2>1, <2>2, <2>3
<1> QED
  BY <1>1, <1>3, <1>4 DEF Ordered

\* The empty call and calls of one step.
LEMMA Single ==
  /\ << >> \in Seq(Step) /\ Steps(<< >>) = {} /\ Ordered(<< >>)
  /\ \A x \in Step : << x >> \in Seq(Step) /\ Steps(<< x >>) = {x} /\ Ordered(<< x >>)
<1>1. << >> \in Seq(Step) /\ DOMAIN << >> = {}
  OBVIOUS
<1>2. ASSUME NEW x \in Step
      PROVE  << x >> \in Seq(Step) /\ DOMAIN << x >> = {1} /\ << x >>[1] = x
  OBVIOUS
<1> QED
  BY <1>1, <1>2 DEF Steps, Ordered

(***************************************************************************)
(* The journal.                                                            *)
(***************************************************************************)
\* The record avb_persist_replay_stream_journal settles on is there, and none
\* is newer.
LEMMA NewestExists ==
  ASSUME TypeInv, NEW J \in SUBSET nvs.journal, J # {}
  PROVE  Newest(J) \in J /\ \A q \in J : q.seq <= Newest(J).seq
<1>1. \A r \in J : r \in Record /\ r.seq \in Nat
  BY DEF TypeInv, Nvs, Record
<1>2. PICK n \in Nat : \A r \in J : r.seq <= n
  BY DEF TypeInv
<1> DEFINE T == {m \in Nat : \E r \in J : n - r.seq = m}
<1>3. T # {}
  BY <1>1, <1>2
<1>4. PICK m \in T : \A x \in T : m <= x
  BY <1>3, LeastNatural
<1>5. PICK r \in J : n - r.seq = m
  BY <1>4
<1>6. \A q \in J : q.seq <= r.seq
  <2> TAKE q \in J
  <2>1. n - q.seq \in T
    BY <1>1, <1>2
  <2>2. m <= n - q.seq
    BY <1>4, <2>1
  <2> QED
    BY <1>1, <1>5, <2>2
<1> QED
  BY <1>6 DEF Newest

\* The journal after a record is written.
LEMMA PutType ==
  ASSUME TypeInv, NEW s \in Stream, NEW n \in Nat, NEW v \in Binding, Put(s, n, v)
  PROVE  /\ nvs' \in Nvs /\ IsFiniteSet(nvs'.journal)
         /\ \E m \in Nat : \A r \in nvs'.journal : r.seq <= m
         /\ nvs'.blob = nvs.blob /\ nvs'.usable = nvs.usable
         /\ nvs'.direct = nvs.direct
         /\ nvs'.journal = {r \in nvs.journal : r.stream # s \/ r.seq # n}
                             \cup {[stream |-> s, seq |-> n, value |-> v]}
<1> DEFINE rest == {r \in nvs.journal : r.stream # s \/ r.seq # n}
           new == [stream |-> s, seq |-> n, value |-> v]
<1>1. nvs' = [nvs EXCEPT !.journal = rest \cup {new}] /\ nvs \in Nvs
  BY DEF Put, TypeInv
<1>2. new \in Record /\ rest \subseteq nvs.journal /\ nvs.journal \subseteq Record
  BY DEF Record, TypeInv, Nvs
<1>3. IsFiniteSet(rest \cup {new})
  BY <1>2, FS_Subset, FS_AddElement DEF TypeInv, TypeOK
<1>4. PICK m \in Nat : \A r \in nvs.journal : r.seq <= m
  BY DEF TypeInv
<1>5. \A r \in rest \cup {new} : r.seq <= m + n
  <2>1. new.seq = n
    OBVIOUS
  <2> HIDE DEF new
  <2>2. \A r \in rest : r.seq \in Nat /\ r.seq <= m
    BY <1>2, <1>4 DEF Record
  <2> QED
    BY <2>1, <2>2
<1>6. m + n \in Nat
  OBVIOUS
<1> HIDE DEF rest, new
<1>7. /\ nvs'.journal = rest \cup {new} /\ nvs'.blob = nvs.blob
      /\ nvs'.usable = nvs.usable /\ nvs'.direct = nvs.direct
  BY <1>1 DEF Nvs
<1>8. nvs' \in Nvs
  BY <1>1, <1>2 DEF Nvs
<1> QED
  BY <1>3, <1>5, <1>6, <1>7, <1>8 DEF rest, new

\* The journal while compaction erases it, one record after the other.
LEMMA EraseType ==
  ASSUME TypeInv, NEW r, nvs' = [nvs EXCEPT !.journal = @ \ {r}]
  PROVE  /\ nvs' \in Nvs /\ IsFiniteSet(nvs'.journal)
         /\ \E m \in Nat : \A q \in nvs'.journal : q.seq <= m
         /\ nvs'.blob = nvs.blob /\ nvs'.usable = nvs.usable
         /\ nvs'.direct = nvs.direct /\ nvs'.journal = nvs.journal \ {r}
<1>1. /\ nvs'.journal = nvs.journal \ {r} /\ nvs'.blob = nvs.blob
      /\ nvs'.usable = nvs.usable /\ nvs'.direct = nvs.direct /\ nvs' \in Nvs
  BY DEF TypeInv, Nvs
<1>2. IsFiniteSet(nvs.journal \ {r})
  BY FS_RemoveElement DEF TypeInv, TypeOK
<1> QED
  BY <1>1, <1>2 DEF TypeInv

(***************************************************************************)
(* The calls and their steps.                                              *)
(***************************************************************************)
\* avb_persist_append_stream_record when the journal is full.
Retries(s) == << [op |-> "compact"], [op |-> "retry", key |-> s] >>

LEMMA RetriesType ==
  ASSUME NEW s \in Stream
  PROVE  /\ Retries(s) \in Seq(Step) /\ Ordered(Retries(s))
         /\ Steps(Retries(s)) = {[op |-> "compact"], [op |-> "retry", key |-> s]}
<1> DEFINE a == [op |-> "compact"]
           b == [op |-> "retry", key |-> s]
<1>1. a \in Step /\ b \in Step /\ Follows(a, b)
  BY DEF Step, Plain, Keyed, Follows
<1> HIDE DEF a, b
<1>2. << a, b >> \in Seq(Step) /\ DOMAIN << a, b >> = {1, 2}
      /\ << a, b >>[1] = a /\ << a, b >>[2] = b
  BY <1>1
<1>3. Ordered(<< a, b >>) /\ Steps(<< a, b >>) = {a, b}
  BY <1>1, <1>2 DEF Ordered, Steps
<1> QED
  BY <1>2, <1>3 DEF a, b, Retries

\* What compaction keeps of each stream, and the steps that write it again.
Newests == {Newest(Latest(s)) : s \in {s \in Stream : Latest(s) # {}}}
Rewrites ==
  LET kept == SetToSeq(Newests)
  IN  << [op |-> "erase"] >>
        \o [i \in 1..Len(kept) |-> [op |-> "keep", record |-> kept[i]]]

LEMMA NewestsFit ==
  ASSUME TypeInv
  PROVE  /\ Newests \subseteq nvs.journal /\ IsFiniteSet(Newests)
         /\ \A r, q \in Newests : r.stream = q.stream => r = q
         /\ \A s \in Stream : Latest(s) # {} =>
              \E r \in Newests : /\ r.stream = s /\ r \in Latest(s)
                                 /\ \A q \in Latest(s) : q.seq <= r.seq
         /\ \A r \in Newests : /\ r \in Latest(r.stream)
                               /\ \A q \in Latest(r.stream) : q.seq <= r.seq
<1>1. ASSUME NEW s \in Stream, Latest(s) # {}
      PROVE  /\ Newest(Latest(s)) \in nvs.journal
             /\ Newest(Latest(s)) \in Latest(s) /\ Newest(Latest(s)).stream = s
             /\ \A q \in Latest(s) : q.seq <= Newest(Latest(s)).seq
  <2>1. Latest(s) \in SUBSET nvs.journal
    BY DEF Latest
  <2> QED
    BY <1>1, <2>1, NewestExists DEF Latest
<1>2. Newests \subseteq nvs.journal
  BY <1>1 DEF Newests
<1>3. IsFiniteSet(Newests)
  BY <1>2, FS_Subset DEF TypeInv, TypeOK
<1> QED
  BY <1>1, <1>2, <1>3 DEF Newests

LEMMA RewritesType ==
  ASSUME TypeInv
  PROVE  /\ Rewrites \in Seq(Step) /\ Ordered(Rewrites)
         /\ Steps(Rewrites) = {[op |-> "erase"]}
                                \cup {[op |-> "keep", record |-> r] : r \in Newests}
<1> DEFINE kept == SetToSeq(Newests)
           n == Cardinality(Newests)
           writes == [i \in 1..Len(kept) |-> [op |-> "keep", record |-> kept[i]]]
           erase == [op |-> "erase"]
<1>1. /\ kept \in Seq(Newests) /\ Len(kept) = n /\ n \in Nat
      /\ \A x \in Newests : \E i \in 1..n : kept[i] = x
      /\ \A i, j \in 1..n : kept[i] = kept[j] => i = j
  BY NewestsFit, SetToSeqElements
<1>2. \A i \in 1..n : kept[i] \in Newests
  BY <1>1
<1>3. Newests \subseteq Record /\ \A r, q \in Newests : r.stream = q.stream => r = q
  BY NewestsFit DEF TypeInv, Nvs
<1> HIDE DEF kept, n
<1>4. \A i \in 1..n : [op |-> "keep", record |-> kept[i]] \in Step
  BY <1>2, <1>3 DEF Step, Kept
<1>5. DOMAIN writes = 1..n /\ \A i \in 1..n :
        writes[i] = [op |-> "keep", record |-> kept[i]] /\ writes[i] \in Step
  BY <1>1, <1>4
<1>6. writes \in [1..n -> Step]
  BY <1>1, <1>4
<1>7. writes \in Seq(Step)
  BY <1>1, <1>6
<1> HIDE DEF writes
<1>8. Steps(writes) = {[op |-> "keep", record |-> r] : r \in Newests}
  BY <1>1, <1>2, <1>5 DEF Steps
<1>9. Ordered(writes)
  <2> SUFFICES ASSUME NEW i \in 1..n, NEW j \in 1..n, i < j
               PROVE  Follows(writes[i], writes[j])
    BY <1>5 DEF Ordered
  <2>1. kept[i] # kept[j] /\ kept[i] \in Newests /\ kept[j] \in Newests
    BY <1>1, <1>2
  <2>2. kept[i].stream # kept[j].stream
    BY <1>3, <2>1
  <2>3. /\ writes[i].op = "keep" /\ writes[i].record = kept[i]
        /\ writes[j].op = "keep" /\ writes[j].record = kept[j]
    BY <1>5
  <2> QED
    BY <2>2, <2>3 DEF Follows
<1>10. erase \in Step /\ \A r \in Newests :
         Follows(erase, [op |-> "keep", record |-> r])
  BY DEF Step, Plain, Follows
<1> HIDE DEF erase
<1>11. /\ << erase >> \in Seq(Step) /\ Steps(<< erase >>) = {erase}
       /\ Ordered(<< erase >>)
  BY <1>10, Single
<1>12. \A a \in Steps(<< erase >>), b \in Steps(writes) : Follows(a, b)
  BY <1>8, <1>10, <1>11
<1>13. /\ << erase >> \o writes \in Seq(Step) /\ Ordered(<< erase >> \o writes)
       /\ Steps(<< erase >> \o writes) = {erase} \cup Steps(writes)
  BY <1>7, <1>9, <1>11, <1>12, Joined
<1>14. Rewrites = << erase >> \o writes
  BY DEF Rewrites, erase, writes, kept
<1> QED
  BY <1>8, <1>13, <1>14 DEF erase

\* What is left of the call when its first step is taken.
Rest == Steps(Tail(main))

LEMMA FirstStep ==
  ASSUME TypeInv, main # << >>
  PROVE  /\ Head(main) \in Step /\ Tail(main) \in Seq(Step) /\ Ordered(Tail(main))
         /\ Left = {Head(main)} \cup Rest
         /\ \A b \in Rest : b \in Step /\ Follows(Head(main), b)
<1>1. main \in Seq(Step) /\ Ordered(main)
  BY DEF TypeInv
<1>2. Tail(main) \in Seq(Step)
  BY <1>1, HeadAndTail
<1>3. \A b \in Rest : b \in Step
  BY <1>2 DEF Rest, Steps
<1> QED
  BY <1>1, <1>3, HeadAndTail DEF Left, Rest

\* Each step of a call: what it does to the call, to flash and to RAM.
RamStep(h) ==
  /\ h.op \in RamOp
  /\ Left' = Rest /\ UNCHANGED <<nvs, seq>>
  /\ shared' = IF h.op = "gather" THEN Gathered ELSE shared
  /\ age' \in {0, age} /\ lazy' \in BOOLEAN
  /\ dirty' = (dirty \/ h.op = "mark")
  /\ task' = IF h.op = "spawn" THEN [task EXCEPT !.at = "poll"] ELSE task

AppendStep(h) ==
  /\ h.op = "append" /\ h \in Keyed /\ h.key \in Stream /\ seq' = seq + 1
  /\ \/ Full /\ nvs' = nvs /\ Left' = Steps(Retries(h.key)) \cup Rest
     \/ ~Full /\ Left' = Rest /\ Put(h.key, seq + 1, live[h.key])
  /\ UNCHANGED taskVars

RetryStep(h) ==
  /\ h.op = "retry" /\ h \in Keyed /\ h.key \in Stream /\ seq' = seq + 1
  /\ Left' = Rest
  /\ IF Full THEN UNCHANGED nvs ELSE Put(h.key, seq + 1, live[h.key])
  /\ UNCHANGED taskVars

CompactStep(h) ==
  /\ h.op = "compact" /\ Left' = Steps(Rewrites) \cup Rest
  /\ UNCHANGED <<nvs, seq, taskVars>>

EraseStep(h) ==
  /\ h.op = "erase"
  /\ \/ nvs.journal = {} /\ Left' = Rest /\ seq' = 0 /\ UNCHANGED nvs
     \/ /\ \E r \in nvs.journal : nvs' = [nvs EXCEPT !.journal = @ \ {r}]
        /\ Left' = Left /\ UNCHANGED seq
  /\ UNCHANGED taskVars

KeepStep(h) ==
  /\ h.op = "keep" /\ h \in Kept /\ h.record \in Record /\ seq' = seq + 1
  /\ Left' = Rest /\ Put(h.record.stream, seq + 1, h.record.value)
  /\ UNCHANGED taskVars

DirectStep(h) ==
  /\ h.op = "direct" /\ h \in Keyed /\ h.key \in Direct
  /\ nvs' = [nvs EXCEPT !.direct[h.key] = live[h.key]]
  /\ Left' = Rest /\ UNCHANGED <<seq, taskVars>>

BlobStep(h) ==
  /\ h.op = "blob"
  /\ nvs' = [nvs EXCEPT !.blob = shared, !.usable = TRUE]
  /\ Left' = Rest /\ UNCHANGED <<seq, taskVars>>

LEMMA StepEffects ==
  ASSUME TypeInv, MainStep
  PROVE  /\ on /\ main # << >>
         /\ main' \in Seq(Step) /\ Ordered(main')
         /\ UNCHANGED <<on, streaming, live, conf, pending, since, quiet>>
         /\ \/ RamStep(Head(main)) \/ AppendStep(Head(main)) \/ RetryStep(Head(main))
            \/ CompactStep(Head(main)) \/ EraseStep(Head(main))
            \/ KeepStep(Head(main)) \/ DirectStep(Head(main)) \/ BlobStep(Head(main))
<1> DEFINE h == Head(main)
           t == Tail(main)
<1>1. on /\ main # << >> /\ UNCHANGED <<on, streaming, live, conf, pending, since, quiet>>
  BY DEF MainStep
<1>2. /\ h \in Step /\ t \in Seq(Step) /\ Ordered(t) /\ Left = {h} \cup Rest
      /\ \A b \in Rest : b \in Step /\ Follows(h, b)
      /\ main \in Seq(Step) /\ Ordered(main)
  BY <1>1, FirstStep DEF TypeInv
<1>3. main' = t => main' \in Seq(Step) /\ Ordered(main') /\ Left' = Rest
  BY <1>2 DEF Left, Rest
<1> HIDE DEF h, t
<1>4. CASE h.op \in RamOp
  <2>1. Ram(h, t)
    BY <1>4 DEF MainStep, RamOp, h, t
  <2>2. RamStep(h)
    BY <2>1, <1>3, <1>4 DEF Ram, RamStep, TypeInv, TypeOK
  <2> QED
    BY <1>1, <1>3, <2>1, <2>2 DEF Ram, h
<1>5. CASE h.op \notin RamOp
  <2>0. Flash(h, t)
    BY <1>5 DEF MainStep, RamOp, h, t
  <2>1. CASE h.op = "append"
    <3>1. h \in Keyed /\ h.key \in Stream /\ AppendRecord(h.key, t) /\ UNCHANGED taskVars
      BY <1>2, <2>0, <2>1 DEF Flash, Step, Plain, Kept, Keyed, RamOp
    <3>2. CASE Full
      <4>1. main' = Retries(h.key) \o t /\ nvs' = nvs /\ seq' = seq + 1
        BY <3>1, <3>2 DEF AppendRecord, Retries
      <4>2. \A a \in Steps(Retries(h.key)), b \in Rest : Follows(a, b)
        BY <1>2, <2>1, <3>1, RetriesType DEF Follows
      <4>3. main' \in Seq(Step) /\ Ordered(main')
            /\ Steps(main') = Steps(Retries(h.key)) \cup Rest
        BY <1>2, <3>1, <4>1, <4>2, RetriesType, Joined DEF Rest, t
      <4> QED
        BY <1>1, <2>1, <3>1, <3>2, <4>1, <4>3 DEF AppendStep, Left, h
    <3>3. CASE ~Full
      BY <1>1, <1>3, <2>1, <3>1, <3>3 DEF AppendRecord, AppendStep, h
    <3> QED
      BY <3>2, <3>3
  <2>2. CASE h.op = "retry"
    <3>1. h \in Keyed /\ h.key \in Stream /\ Retry(h.key, t) /\ UNCHANGED taskVars
      BY <1>2, <2>0, <2>2 DEF Flash, Step, Plain, Kept, Keyed, RamOp
    <3> QED
      BY <1>1, <1>3, <2>2, <3>1 DEF Retry, RetryStep, h
  <2>3. CASE h.op = "compact"
    <3>1. Compact(t) /\ UNCHANGED taskVars
      BY <2>0, <2>3 DEF Flash
    <3>2. main' = Rewrites \o t /\ UNCHANGED <<nvs, seq>>
      BY <3>1 DEF Compact, Rewrites, Newests
    <3>3. \A a \in Steps(Rewrites), b \in Rest : Follows(a, b)
      <4>1. \A b \in Rest : b.op \notin {"gather", "compact", "erase", "keep"}
        BY <1>2, <2>3 DEF Follows
      <4>2. \A a \in Steps(Rewrites) : a.op \in {"erase", "keep"}
        BY RewritesType
      <4> QED
        BY <4>1, <4>2 DEF Follows
    <3>4. main' \in Seq(Step) /\ Ordered(main')
          /\ Steps(main') = Steps(Rewrites) \cup Rest
      BY <1>2, <3>2, <3>3, RewritesType, Joined DEF Rest, t
    <3> QED
      BY <1>1, <2>3, <3>1, <3>2, <3>4 DEF CompactStep, Left, h
  <2>4. CASE h.op = "erase"
    <3>1. Erase(t) /\ UNCHANGED taskVars
      BY <2>0, <2>4 DEF Flash
    <3> QED
      BY <1>1, <1>2, <1>3, <2>4, <3>1 DEF Erase, EraseStep, Left, h
  <2>5. CASE h.op = "keep"
    <3>1. h \in Kept /\ h.record \in Record /\ Keep(h.record, t) /\ UNCHANGED taskVars
      BY <1>2, <2>0, <2>5 DEF Flash, Step, Plain, Kept, Keyed, RamOp
    <3> QED
      BY <1>1, <1>3, <2>5, <3>1 DEF Keep, KeepStep, h
  <2>6. CASE h.op = "direct"
    <3>1. h \in Keyed /\ h.key \in Direct
      BY <1>2, <2>6 DEF Step, Plain, Kept, Keyed, RamOp
    <3>2. /\ nvs' = [nvs EXCEPT !.direct[h.key] = live[h.key]]
          /\ main' = t /\ UNCHANGED seq /\ UNCHANGED taskVars
      BY <2>0, <2>6 DEF Flash
    <3> QED
      BY <1>1, <1>3, <2>6, <3>1, <3>2 DEF DirectStep, h
  <2>7. CASE h.op = "blob"
    <3>1. /\ nvs' = [nvs EXCEPT !.blob = shared, !.usable = TRUE]
          /\ main' = t /\ UNCHANGED seq /\ UNCHANGED taskVars
      BY <2>0, <2>7 DEF Flash
    <3> QED
      BY <1>1, <1>3, <2>7, <3>1 DEF BlobStep, h
  <2> QED
    BY <1>2, <1>5, <2>1, <2>2, <2>3, <2>4, <2>5, <2>6, <2>7
    DEF Step, Plain, Keyed, Kept
<1> QED
  BY <1>4, <1>5

(***************************************************************************)
(* Types.                                                                  *)
(***************************************************************************)
LEMMA BlankFits == Blank \in Snapshot /\ Default \in Binding /\ Default \in Conf
BY PersistAssumption DEF Blank, Snapshot

LEMMA RestoredFits ==
  ASSUME TypeInv
  PROVE  /\ \A k \in Key : Restored(k) \in Binding
         /\ nvs.blob.conf \in Conf
         /\ nvs.journal # {} => Newest(nvs.journal).seq \in Nat
<1>1. /\ nvs.blob \in Snapshot /\ nvs.journal \subseteq Record
      /\ nvs.direct \in [Direct -> Binding]
  BY DEF TypeInv, Nvs
<1>2. ASSUME NEW k \in Stream, Latest(k) # {} PROVE Newest(Latest(k)) \in Record
  <2>1. Latest(k) \in SUBSET nvs.journal
    BY DEF Latest
  <2> QED
    BY <1>1, <1>2, <2>1, NewestExists
<1>3. nvs.journal # {} => Newest(nvs.journal) \in Record
  BY <1>1, NewestExists
<1> QED
  BY <1>1, <1>2, <1>3 DEF Restored, Key, Snapshot, Record

\* avb_persist_load.
LEMMA BootSteps ==
  ASSUME Boot
  PROVE  /\ main' \in Seq(Step) /\ Ordered(main')
         /\ Left' = IF nvs.usable THEN {[op |-> "compact"], [op |-> "spawn"]}
                    ELSE {[op |-> "gather"], [op |-> "blob"], [op |-> "spawn"]}
<1> DEFINE c == [op |-> "compact"]
           s == [op |-> "spawn"]
           g == [op |-> "gather"]
           b == [op |-> "blob"]
<1>1. /\ c \in Step /\ s \in Step /\ g \in Step /\ b \in Step
      /\ Follows(c, s) /\ Follows(g, b) /\ Follows(g, s) /\ Follows(b, s)
  BY DEF Step, Plain, RamOp, Follows
<1>2. main' = IF nvs.usable THEN << c, s >> ELSE << g, b, s >>
  BY DEF Boot
<1> HIDE DEF c, s, g, b
<1>3. /\ << c, s >> \in Seq(Step) /\ DOMAIN << c, s >> = {1, 2}
      /\ << c, s >>[1] = c /\ << c, s >>[2] = s
  BY <1>1
<1>4. /\ << g, b, s >> \in Seq(Step) /\ DOMAIN << g, b, s >> = {1, 2, 3}
      /\ << g, b, s >>[1] = g /\ << g, b, s >>[2] = b /\ << g, b, s >>[3] = s
  BY <1>1
<1>5. Ordered(<< c, s >>) /\ Steps(<< c, s >>) = {c, s}
  BY <1>1, <1>3 DEF Ordered, Steps
<1>6. Ordered(<< g, b, s >>) /\ Steps(<< g, b, s >>) = {g, b, s}
  BY <1>1, <1>4 DEF Ordered, Steps
<1> QED
  BY <1>2, <1>3, <1>4, <1>5, <1>6 DEF Left, c, s, g, b

LEMMA BootType == ASSUME TypeInv, Boot PROVE TypeInv'
<1>1. on' = TRUE /\ UNCHANGED <<nvs, streaming, pending, since, quiet, dirty, lazy,
                                age, task>>
  BY DEF Boot
<1>4. main' \in Seq(Step) /\ Ordered(main')
  BY BootSteps
<1>5. live' \in [Key -> Binding] /\ conf' \in Conf /\ seq' \in Nat
  BY RestoredFits, BlankFits DEF Boot
<1>6. shared' \in Snapshot
  <2>1. CASE nvs.usable
    <3>1. shared' = [conf |-> conf', bind |-> [s1 \in Stream |-> live'[s1]]]
      BY <2>1 DEF Boot
    <3>2. [s1 \in Stream |-> live'[s1]] \in [Stream -> Binding]
      BY <1>5 DEF Key
    <3> QED
      BY <1>5, <3>1, <3>2 DEF Snapshot
  <2>2. CASE ~nvs.usable
    BY <2>2 DEF Boot, TypeInv, TypeOK
  <2> QED
    BY <2>1, <2>2
<1> QED
  BY <1>1, <1>4, <1>5, <1>6 DEF TypeInv, TypeOK

\* A power failure.
LEMMA PowerLossType == ASSUME TypeInv, PowerLoss PROVE TypeInv'
<1>1. main' \in Seq(Step) /\ Ordered(main')
  BY Single DEF PowerLoss
<1>2. task' \in Task /\ shared' \in Snapshot
  BY BlankFits DEF PowerLoss, Task
<1>3. /\ on' = FALSE /\ streaming' = FALSE /\ seq' = 0 /\ pending' = {}
      /\ since' = 0 /\ quiet' = TRUE /\ dirty' = FALSE /\ lazy' = FALSE
      /\ age' = 0 /\ task'.at = "none" /\ shared' = Blank /\ main' = << >>
      /\ UNCHANGED <<live, conf, nvs>>
  BY DEF PowerLoss
<1>4. TypeOK'
  <2>1. /\ live \in [Key -> Binding] /\ conf \in Conf /\ nvs.blob \in Snapshot
        /\ nvs.direct \in [Direct -> Binding] /\ nvs.journal \subseteq Record
        /\ IsFiniteSet(nvs.journal)
    BY DEF TypeInv, TypeOK
  <2>2. (since' = 0) = (pending' = {})
    BY <1>3
  <2>3. seq' \in Nat /\ since' \in 0..QuietMax + 1 /\ age' \in 0..ForcedFlush
    BY <1>3, PersistAssumption
  <2>4. task'.copy \in Snapshot
    BY <1>2 DEF Task
  <2> QED
    BY <1>2, <1>3, <2>1, <2>2, <2>3, <2>4 DEF TypeOK
<1> QED
  BY <1>1, <1>2, <1>3, <1>4 DEF TypeInv

\* New firmware.
LEMMA ReflashType == ASSUME TypeInv, Reflash PROVE TypeInv'
<1>1. /\ nvs' = [nvs EXCEPT !.usable = FALSE]
      /\ UNCHANGED <<on, seq, streaming, mainVars, taskVars>>
  BY DEF Reflash
<1>2. /\ nvs'.journal = nvs.journal /\ nvs'.blob = nvs.blob
      /\ nvs'.direct = nvs.direct /\ nvs' \in Nvs
  BY <1>1 DEF TypeInv, Nvs
<1> QED
  BY <1>1, <1>2 DEF TypeInv, TypeOK, mainVars, taskVars

\* A binding, a rate or a map is set.
LEMMA WriteFits ==
  ASSUME NEW k \in Key
  PROVE  Write(k) \in Keyed /\ Write(k).key = k /\ Write(k).op \in {"append", "direct"}
BY DEF Write, Keyed, Key

LEMMA BindType ==
  ASSUME TypeInv, NEW k \in Key, NEW v \in Binding, NEW q \in BOOLEAN, Bind(k, v, q)
  PROVE  TypeInv'
<1>1. /\ live' = [live EXCEPT ![k] = v] /\ quiet' = q /\ on
      /\ UNCHANGED <<on, conf, nvs, seq, streaming, taskVars>>
  BY DEF Bind, Idle
<1>2. live' \in [Key -> Binding]
  BY <1>1 DEF TypeInv, TypeOK
<1>3. main' \in Seq(Step) /\ Ordered(main')
  <2>1. Write(k) \in Step
    BY WriteFits DEF Step
  <2>2. main' = << Write(k) >> \/ main' = main
    BY DEF Bind
  <2> QED
    BY <2>1, <2>2, Single DEF TypeInv
<1>4. pending' \subseteq Key /\ since' \in 0..QuietMax + 1
      /\ (since' = 0) = (pending' = {})
  <2>0. /\ pending \subseteq Key /\ since \in 0..QuietMax + 1 /\ QuietMax \in Nat
        /\ (since = 0) = (pending = {})
    BY PersistAssumption DEF TypeInv, TypeOK
  <2>1. CASE q
    BY <2>0, <2>1 DEF Bind
  <2>2. CASE ~q
    <3>1. pending' = pending \cup {k} /\ since' = IF since = 0 THEN 1 ELSE since
      BY <2>2 DEF Bind
    <3> QED
      BY <2>0, <3>1
  <2> QED
    BY <2>1, <2>2
<1> QED
  BY <1>1, <1>2, <1>3, <1>4 DEF TypeInv, TypeOK, taskVars

\* What the tick writes: every deferred change once.
LEMMA TickWrites ==
  ASSUME TypeInv, NEW q \in BOOLEAN, JournalTick(q)
  PROVE  \/ UNCHANGED <<main, pending, since>>
         \/ /\ main' \in Seq(Step) /\ Ordered(main') /\ pending' = {} /\ since' = 0
            /\ Left' = {Write(k) : k \in pending}
<1> DEFINE D == SetToSeq(pending \cap Direct)
           S == SetToSeq(pending \cap Stream)
           n == Cardinality(pending)
<1>1. CASE ~(since # 0 /\ (q \/ since > QuietMax))
  BY <1>1 DEF JournalTick
<1>2. CASE since # 0 /\ (q \/ since > QuietMax)
  <2>1. main' = [i \in 1..n |-> Write((D \o S)[i])] /\ pending' = {} /\ since' = 0
    BY <1>2 DEF JournalTick
  <2>2. pending \subseteq Key /\ IsFiniteSet(pending)
    BY PersistAssumption, FS_Subset DEF TypeInv, TypeOK
  <2>3. /\ IsFiniteSet(pending \cap Direct) /\ IsFiniteSet(pending \cap Stream)
        /\ pending = (pending \cap Direct) \cup (pending \cap Stream)
        /\ (pending \cap Direct) \cap (pending \cap Stream) = {}
    BY <2>2, FS_Intersection, PersistAssumption DEF Key
  <2>4. /\ n = Cardinality(pending \cap Direct) + Cardinality(pending \cap Stream)
        /\ n \in Nat
    <3>1. n = Cardinality(pending \cap Direct) + Cardinality(pending \cap Stream)
                - Cardinality({})
      BY <2>3, FS_Union
    <3>2. Cardinality({}) = 0
      BY FS_EmptySet
    <3>3. Cardinality(pending \cap Direct) \in Nat
          /\ Cardinality(pending \cap Stream) \in Nat
      BY <2>3, FS_CardinalityType
    <3> QED
      BY <3>1, <3>2, <3>3
  <2>5. /\ D \in Seq(pending \cap Direct) /\ Len(D) = Cardinality(pending \cap Direct)
        /\ \A x \in pending \cap Direct : \E i \in 1..Len(D) : D[i] = x
        /\ S \in Seq(pending \cap Stream) /\ Len(S) = Cardinality(pending \cap Stream)
        /\ \A x \in pending \cap Stream : \E i \in 1..Len(S) : S[i] = x
        /\ Len(D) \in Nat /\ Len(S) \in Nat
    <3>1. /\ D \in Seq(pending \cap Direct) /\ Len(D) = Cardinality(pending \cap Direct)
          /\ Len(D) \in Nat
          /\ \A x \in pending \cap Direct : \E i \in 1..Len(D) : D[i] = x
      <4> DEFINE X == pending \cap Direct
      <4>1. IsFiniteSet(X)
        BY <2>3
      <4> HIDE DEF X
      <4>2. /\ SetToSeq(X) \in Seq(X) /\ Len(SetToSeq(X)) = Cardinality(X)
            /\ Cardinality(X) \in Nat
            /\ \A x \in X : \E i \in 1..Cardinality(X) : SetToSeq(X)[i] = x
        BY <4>1, SetToSeqElements
      <4> QED
        BY <4>2 DEF X
    <3>2. /\ S \in Seq(pending \cap Stream) /\ Len(S) = Cardinality(pending \cap Stream)
          /\ Len(S) \in Nat
          /\ \A x \in pending \cap Stream : \E i \in 1..Len(S) : S[i] = x
      <4> DEFINE X == pending \cap Stream
      <4>1. IsFiniteSet(X)
        BY <2>3
      <4> HIDE DEF X
      <4>2. /\ SetToSeq(X) \in Seq(X) /\ Len(SetToSeq(X)) = Cardinality(X)
            /\ Cardinality(X) \in Nat
            /\ \A x \in X : \E i \in 1..Cardinality(X) : SetToSeq(X)[i] = x
        BY <4>1, SetToSeqElements
      <4> QED
        BY <4>2 DEF X
    <3> QED
      BY <3>1, <3>2
  <2> HIDE DEF D, S, n
  <2>6. D \in Seq(pending) /\ S \in Seq(pending)
    BY <2>5, SeqMonotonic
  <2>7. /\ \A i \in 1..n : (D \o S)[i] = IF i <= Len(D) THEN D[i] ELSE S[i - Len(D)]
        /\ D \o S \in Seq(pending) /\ Len(D \o S) = n
    <3>1. n = Len(D) + Len(S)
      BY <2>4, <2>5
    <3>2. /\ D \o S \in Seq(pending) /\ Len(D \o S) = Len(D) + Len(S)
          /\ \A i \in 1..Len(D) + Len(S) :
               (D \o S)[i] = IF i <= Len(D) THEN D[i] ELSE S[i - Len(D)]
      BY <2>6, ConcatProperties
    <3> QED
      BY <3>1, <3>2
  <2>8. \A i \in 1..n : (D \o S)[i] \in pending
    BY <2>7
  <2>9. \A k \in pending : \E i \in 1..n : (D \o S)[i] = k
    <3> TAKE k \in pending
    <3>1. CASE k \in Direct
      <4>1. PICK i \in 1..Len(D) : D[i] = k
        BY <2>5, <3>1
      <4> QED
        BY <2>4, <2>5, <2>7, <4>1
    <3>2. CASE k \in Stream
      <4>1. PICK i \in 1..Len(S) : S[i] = k
        BY <2>5, <3>2
      <4>2. i + Len(D) \in 1..n /\ (D \o S)[i + Len(D)] = k
        BY <2>4, <2>5, <2>7, <4>1
      <4> QED
        BY <4>2
    <3> QED
      BY <2>2, <3>1, <3>2 DEF Key
  <2>10. \A k \in pending : Write(k) \in Step /\ Write(k).op \in {"append", "direct"}
    BY <2>2, WriteFits DEF Step
  <2>11. /\ DOMAIN main' = 1..n
         /\ \A i \in 1..n : main'[i] = Write((D \o S)[i]) /\ main'[i] \in Step
    BY <2>1, <2>8, <2>10
  <2>12. main' \in Seq(Step)
    <3>1. main' \in [1..n -> Step]
      BY <2>1, <2>8, <2>10
    <3> QED
      BY <2>4, <3>1, FunctionIsSeq
  <2>13. Left' = {Write(k) : k \in pending}
    <3>1. \A x \in Left' : x \in {Write(k) : k \in pending}
      BY <2>8, <2>11 DEF Left, Steps
    <3>2. ASSUME NEW k \in pending PROVE Write(k) \in Left'
      <4>1. PICK i \in 1..n : (D \o S)[i] = k
        BY <2>9
      <4> QED
        BY <2>11, <4>1 DEF Left, Steps
    <3> QED
      BY <3>1, <3>2
  <2>14. Ordered(main')
    BY <2>8, <2>10, <2>11 DEF Ordered, Follows
  <2> QED
    BY <2>1, <2>12, <2>13, <2>14
<1> QED
  BY <1>1, <1>2

LEMMA TickType == ASSUME TypeInv, NEW q \in BOOLEAN, JournalTick(q) PROVE TypeInv'
<1>1. on /\ quiet' = q /\ UNCHANGED <<on, live, conf, nvs, seq, streaming, taskVars>>
  BY DEF JournalTick, Idle
<1> QED
  BY <1>1, TickWrites, PersistAssumption DEF TypeInv, TypeOK, taskVars

\* avb_persist_request_save and avb_persist_request_lazy_save.
LEMMA ConfigureSteps ==
  ASSUME TypeInv, NEW c \in Conf, NEW eager \in BOOLEAN, Configure(c, eager)
  PROVE  /\ main' \in Seq(Step) /\ Ordered(main')
         /\ Left' \subseteq Plain
         /\ \A step \in Left' : step.op \in {"gather", "stamp", "eager", "lazy", "mark"}
         /\ \E a, b \in Left' : a.op = "gather" /\ b.op = "mark"
<1> DEFINE g == [op |-> "gather"]
           s == [op |-> "stamp"]
           e == [op |-> "eager"]
           l == [op |-> "lazy"]
           m == [op |-> "mark"]
<1>1. /\ {g, s, e, l, m} \subseteq Plain /\ Plain \subseteq Step
      /\ g.op = "gather" /\ m.op = "mark"
      /\ \A x \in {g, s, e, l, m} :
           x.op \in {"gather", "stamp", "eager", "lazy", "mark"}
  BY DEF Step, Plain, RamOp
<1>2. \A x \in {g, s, e, l, m}, y \in {s, e, l, m} : Follows(x, y)
  BY DEF Follows
<1>3. main' = << g, s, e, m >> \/ main' = << g, l, m >>
  BY DEF Configure
<1> HIDE DEF g, s, e, l, m
<1>4. CASE main' = << g, s, e, m >>
  <2>1. /\ main' \in Seq(Step) /\ DOMAIN main' = {1, 2, 3, 4}
        /\ main'[1] = g /\ main'[2] = s /\ main'[3] = e /\ main'[4] = m
    BY <1>1, <1>4
  <2>2. Left' = {g, s, e, m}
    BY <2>1 DEF Left, Steps
  <2>3. Ordered(main')
    BY <1>2, <2>1 DEF Ordered
  <2> QED
    BY <1>1, <2>1, <2>2, <2>3
<1>5. CASE main' = << g, l, m >>
  <2>1. /\ main' \in Seq(Step) /\ DOMAIN main' = {1, 2, 3}
        /\ main'[1] = g /\ main'[2] = l /\ main'[3] = m
    BY <1>1, <1>5
  <2>2. Left' = {g, l, m}
    BY <2>1 DEF Left, Steps
  <2>3. Ordered(main')
    BY <1>2, <2>1 DEF Ordered
  <2> QED
    BY <1>1, <2>1, <2>2, <2>3
<1> QED
  BY <1>3, <1>4, <1>5

LEMMA ConfigureType ==
  ASSUME TypeInv, NEW c \in Conf, NEW eager \in BOOLEAN, Configure(c, eager)
  PROVE  TypeInv'
BY ConfigureSteps DEF Configure, Idle, TypeInv, TypeOK, taskVars

\* The steps of a call.
LEMMA GatheredFits == ASSUME TypeInv PROVE Gathered \in Snapshot
BY DEF TypeInv, TypeOK, Gathered, Snapshot, Key

LEMMA MainStepType == ASSUME TypeInv, MainStep PROVE TypeInv'
<1> DEFINE h == Head(main)
<1>1. /\ on /\ main' \in Seq(Step) /\ Ordered(main')
      /\ UNCHANGED <<on, streaming, live, conf, pending, since, quiet>>
      /\ live \in [Key -> Binding]
  BY StepEffects DEF TypeInv, TypeOK
<1>2. ASSUME nvs' \in Nvs, IsFiniteSet(nvs'.journal),
             \E n \in Nat : \A r \in nvs'.journal : r.seq <= n,
             seq' \in Nat, UNCHANGED taskVars
      PROVE  TypeInv'
  <2>1. /\ nvs'.blob \in Snapshot /\ nvs'.direct \in [Direct -> Binding]
        /\ nvs'.journal \subseteq Record
    BY <1>2 DEF Nvs
  <2> QED
    BY <1>1, <1>2, <2>1 DEF TypeInv, TypeOK, taskVars
<1>3. seq \in Nat /\ nvs \in Nvs /\ IsFiniteSet(nvs.journal)
      /\ \E n \in Nat : \A r \in nvs.journal : r.seq <= n
  BY DEF TypeInv, TypeOK
<1> HIDE DEF h
<1>4. CASE RamStep(h)
  <2>1. shared' \in Snapshot /\ age' \in 0..ForcedFlush /\ task' \in Task
        /\ task'.at \in {"none", "poll", "clear", "copy", "write"}
        /\ task'.copy \in Snapshot
    <3>1. shared' \in Snapshot
      BY <1>4, GatheredFits DEF RamStep, TypeInv, TypeOK
    <3>2. age' \in 0..ForcedFlush
      BY <1>4, PersistAssumption DEF RamStep, TypeInv, TypeOK
    <3>3. task' = task \/ task' = [task EXCEPT !.at = "poll"]
      BY <1>4 DEF RamStep
    <3>4. task' \in Task
      BY <3>3 DEF TypeInv, Task
    <3> QED
      BY <3>1, <3>2, <3>4 DEF Task
  <2>2. dirty' \in BOOLEAN /\ lazy' \in BOOLEAN
    BY <1>4 DEF RamStep, TypeInv, TypeOK
  <2> QED
    BY <1>1, <1>4, <2>1, <2>2 DEF RamStep, TypeInv, TypeOK
<1>5. CASE AppendStep(h) \/ RetryStep(h)
  <2>1. h.key \in Stream /\ live[h.key] \in Binding /\ seq + 1 \in Nat
        /\ seq' = seq + 1 /\ UNCHANGED taskVars
    BY <1>1, <1>3, <1>5 DEF AppendStep, RetryStep, Key
  <2>2. nvs' = nvs \/ Put(h.key, seq + 1, live[h.key])
    BY <1>5 DEF AppendStep, RetryStep
  <2> QED
    BY <1>2, <1>3, <2>1, <2>2, PutType
<1>6. CASE CompactStep(h)
  BY <1>2, <1>3, <1>6 DEF CompactStep
<1>7. CASE EraseStep(h)
  BY <1>2, <1>3, <1>7, EraseType DEF EraseStep
<1>8. CASE KeepStep(h)
  <2>1. /\ h.record.stream \in Stream /\ h.record.value \in Binding /\ seq + 1 \in Nat
        /\ Put(h.record.stream, seq + 1, h.record.value)
        /\ seq' = seq + 1 /\ UNCHANGED taskVars
    BY <1>3, <1>8 DEF KeepStep, Record
  <2> QED
    BY <1>2, <1>3, <2>1, PutType
<1>9. CASE DirectStep(h)
  <2>1. h.key \in Direct /\ live[h.key] \in Binding /\ UNCHANGED <<seq, taskVars>>
        /\ nvs' = [nvs EXCEPT !.direct[h.key] = live[h.key]]
    BY <1>1, <1>9 DEF DirectStep, Key
  <2>2. nvs' \in Nvs /\ nvs'.journal = nvs.journal
    BY <1>3, <2>1 DEF Nvs
  <2> QED
    BY <1>2, <1>3, <2>1, <2>2
<1>10. CASE BlobStep(h)
  <2>1. shared \in Snapshot /\ UNCHANGED <<seq, taskVars>>
        /\ nvs' = [nvs EXCEPT !.blob = shared, !.usable = TRUE]
    BY <1>10 DEF BlobStep, TypeInv, TypeOK
  <2>2. nvs' \in Nvs /\ nvs'.journal = nvs.journal
    BY <1>3, <2>1 DEF Nvs
  <2> QED
    BY <1>2, <1>3, <2>1, <2>2
<1> QED
  BY <1>4, <1>5, <1>6, <1>7, <1>8, <1>9, <1>10, StepEffects DEF h

\* The snapshot task.
LEMMA TaskStepType == ASSUME TypeInv, TaskStep PROVE TypeInv'
<1>1. on /\ UNCHANGED <<on, seq, streaming, live, conf, main, pending, since, quiet>>
      /\ UNCHANGED <<shared, age>>
  BY DEF TaskStep, TaskPoll, TaskClear, TaskCopy, TaskWrite, mainVars
<1>2. task \in Task /\ shared \in Snapshot /\ nvs \in Nvs /\ IsFiniteSet(nvs.journal)
      /\ dirty \in BOOLEAN /\ lazy \in BOOLEAN
  BY DEF TypeInv, TypeOK
<1>3. /\ task' \in Task /\ task'.copy \in Snapshot
      /\ task'.at \in {"none", "poll", "clear", "copy", "write"}
  BY <1>2, BlankFits DEF TaskStep, TaskPoll, TaskClear, TaskCopy, TaskWrite, Task
<1>4. dirty' \in BOOLEAN /\ lazy' \in BOOLEAN
  BY <1>2 DEF TaskStep, TaskPoll, TaskClear, TaskCopy, TaskWrite
<1>5. nvs' \in Nvs /\ nvs'.journal = nvs.journal
  <2>1. nvs' = nvs \/ nvs' = [nvs EXCEPT !.blob = task.copy, !.usable = TRUE]
    BY DEF TaskStep, TaskPoll, TaskClear, TaskCopy, TaskWrite
  <2>2. task.copy \in Snapshot
    BY <1>2 DEF Task
  <2> QED
    BY <1>2, <2>1, <2>2 DEF Nvs
<1>6. /\ nvs'.blob \in Snapshot /\ nvs'.direct \in [Direct -> Binding]
      /\ nvs'.journal \subseteq Record
  BY <1>5 DEF Nvs
<1> QED
  BY <1>1, <1>3, <1>4, <1>5, <1>6 DEF TypeInv, TypeOK

LEMMA RestType == ASSUME TypeInv, Elapse \/ Streaming PROVE TypeInv'
<1>1. CASE Elapse
  <2>1. /\ since' = IF since \in 1..QuietMax THEN since + 1 ELSE since
        /\ age' = IF age < ForcedFlush THEN age + 1 ELSE age
        /\ on /\ UNCHANGED <<on, nvs, seq, streaming, live, conf, main, pending, quiet,
                             shared, dirty, lazy, task>>
    BY <1>1 DEF Elapse
  <2>2. since' \in 0..QuietMax + 1 /\ age' \in 0..ForcedFlush
    BY <2>1, PersistAssumption DEF TypeInv, TypeOK
  <2>3. (since' = 0) = (pending' = {})
    <3>1. (since' = 0) = (since = 0) /\ pending' = pending
      BY <2>1, PersistAssumption DEF TypeInv, TypeOK
    <3> QED
      BY <3>1 DEF TypeInv, TypeOK
  <2> QED
    BY <2>1, <2>2, <2>3 DEF TypeInv, TypeOK
<1>2. CASE Streaming
  BY <1>2 DEF Streaming, TypeInv, TypeOK, mainVars, taskVars
<1> QED
  BY <1>1, <1>2

LEMMA InitType == Init => TypeInv
<1> SUFFICES ASSUME Init PROVE TypeInv
  OBVIOUS
<1>1. main \in Seq(Step) /\ Ordered(main)
  BY Single DEF Init
<1>2. live \in [Key -> Binding] /\ conf \in Conf /\ nvs \in Nvs /\ task \in Task
      /\ shared \in Snapshot
  BY BlankFits, PersistAssumption DEF Init, Nvs, Task
<1>3. nvs.journal = {} /\ IsFiniteSet(nvs.journal)
  BY FS_EmptySet DEF Init
<1>4. /\ nvs.blob \in Snapshot /\ nvs.direct \in [Direct -> Binding]
      /\ nvs.journal \subseteq Record /\ task.copy \in Snapshot
      /\ task.at \in {"none", "poll", "clear", "copy", "write"}
  BY <1>2 DEF Nvs, Task
<1>5. seq \in Nat /\ since \in 0..QuietMax + 1 /\ age \in 0..ForcedFlush
  BY PersistAssumption DEF Init
<1>6. (since = 0) = (pending = {})
  BY DEF Init
<1>7. TypeOK
  BY <1>2, <1>3, <1>4, <1>5, <1>6 DEF Init, TypeOK
<1> QED
  BY <1>1, <1>2, <1>3, <1>7 DEF Init, TypeInv

LEMMA TypeStep == TypeInv /\ [Next]_vars => TypeInv'
<1> SUFFICES ASSUME TypeInv, [Next]_vars PROVE TypeInv'
  OBVIOUS
<1>1. CASE UNCHANGED vars
  <2>1. UNCHANGED <<on, nvs, seq, streaming, live, conf, main, pending, since, quiet,
                    shared, dirty, lazy, age, task>>
    BY <1>1 DEF vars, mainVars, taskVars
  <2> QED
    BY <2>1 DEF TypeInv, TypeOK
<1>2. CASE Next
  BY <1>2, BootType, PowerLossType, ReflashType, MainStepType, TickType, TaskStepType,
     RestType, BindType, ConfigureType DEF Next, Tick
<1> QED
  BY <1>1, <1>2

\* Every variable keeps to its set, through every power failure.
THEOREM TypeCorrect == Spec => []TypeOK
<1>1. TypeInv => TypeOK
  BY DEF TypeInv
<1> QED
  BY <1>1, InitType, TypeStep, PTL DEF Spec

(***************************************************************************)
(* No change of the configuration is lost between the two tasks.           *)
(***************************************************************************)
LEMMA ConfInit == Init => ConfInv
<1> SUFFICES ASSUME Init PROVE ConfInv
  OBVIOUS
<1>1. on = FALSE /\ main = << >> /\ task.at = "none"
  BY DEF Init
<1>2. Left = {}
  BY <1>1, Single DEF Left
<1> QED
  BY <1>1, <1>2 DEF ConfInv, Has

LEMMA ConfBoot == ASSUME TypeInv, Boot PROVE ConfInv'
<1>1. on' /\ UNCHANGED <<nvs, dirty, task>> /\ task.at = "none"
  BY DEF Boot, TypeInv
<1>2. CASE nvs.usable
  <2>1. Left' = {[op |-> "compact"], [op |-> "spawn"]}
    BY <1>2, BootSteps
  <2>2. conf' = nvs.blob.conf /\ shared'.conf = conf'
    BY <1>2 DEF Boot
  <2>3. Has("spawn")' /\ ~Has("gather")'
    BY <2>1 DEF Has
  <2> QED
    BY <1>1, <1>2, <2>2, <2>3 DEF ConfInv
<1>3. CASE ~nvs.usable
  <2>1. Left' = {[op |-> "gather"], [op |-> "blob"], [op |-> "spawn"]}
    BY <1>3, BootSteps
  <2>2. Has("spawn")' /\ Has("gather")' /\ Has("blob")'
    BY <2>1 DEF Has
  <2> QED
    BY <1>1, <2>2 DEF ConfInv
<1> QED
  BY <1>2, <1>3

LEMMA ConfPowerLoss == ASSUME PowerLoss PROVE ConfInv'
<1>1. on' = FALSE /\ main' = << >> /\ task'.at = "none"
  BY DEF PowerLoss
<1>2. Left' = {}
  BY <1>1, Single DEF Left
<1> QED
  BY <1>1, <1>2 DEF ConfInv, Has

\* A call starts from nothing left, so that only Configure brings a gathering.
LEMMA IdleLeft == ASSUME Idle PROVE on /\ Left = {} /\ \A o : ~Has(o)
BY Single DEF Idle, Left, Has

LEMMA ConfBind ==
  ASSUME TypeInv, ConfInv, NEW k \in Key, NEW v \in Binding, NEW q \in BOOLEAN,
         Bind(k, v, q)
  PROVE  ConfInv'
<1>1. on /\ UNCHANGED <<on, conf, nvs, taskVars>> /\ \A o : ~Has(o)
  BY IdleLeft DEF Bind, Idle
<1>2. Left' \subseteq {Write(k)}
  <2>1. Write(k) \in Step
    BY WriteFits DEF Step
  <2>2. main' = << Write(k) >> \/ main' = << >>
    BY DEF Bind, Idle
  <2> QED
    BY <2>1, <2>2, Single DEF Left
<1>3. \A o \in RamOp : ~Has(o)'
  BY <1>2, WriteFits DEF Has, RamOp
<1> QED
  BY <1>1, <1>3 DEF ConfInv, taskVars, RamOp

LEMMA ConfTick ==
  ASSUME TypeInv, ConfInv, NEW q \in BOOLEAN, JournalTick(q) PROVE ConfInv'
<1>1. on /\ UNCHANGED <<on, conf, nvs, taskVars>> /\ \A o : ~Has(o)
  BY IdleLeft DEF JournalTick, Idle
<1>2. Left' = Left \/ Left' = {Write(k) : k \in pending}
  BY TickWrites DEF Left
<1>3. \A k \in pending : Write(k).op \in {"append", "direct"}
  BY WriteFits DEF TypeInv, TypeOK
<1>4. \A o \in RamOp : ~Has(o)'
  BY <1>1, <1>2, <1>3 DEF Has, RamOp
<1> QED
  BY <1>1, <1>4 DEF ConfInv, taskVars, RamOp

LEMMA ConfConfigure ==
  ASSUME TypeInv, ConfInv, NEW c \in Conf, NEW eager \in BOOLEAN, Configure(c, eager)
  PROVE  ConfInv'
<1>1. on /\ UNCHANGED <<on, nvs, taskVars>> /\ task.at # "none"
  BY DEF Configure, Idle
<1>2. Has("gather")' /\ Has("mark")' /\ ~Has("spawn")'
  BY ConfigureSteps DEF Has
<1> QED
  BY <1>1, <1>2 DEF ConfInv, taskVars

\* Only the first step gathers; no spawn has a step after it.
LEMMA ConfMainStep == ASSUME TypeInv, ConfInv, MainStep PROVE ConfInv'
<1> DEFINE h == Head(main)
<1>1. /\ on /\ UNCHANGED <<on, conf>> /\ Left = {h} \cup Rest
      /\ \A b \in Rest : b \in Step /\ Follows(h, b)
  BY StepEffects, FirstStep
<1> HIDE DEF h
<1>2. \A b \in Rest : b.op # "gather"
  BY <1>1 DEF Follows
<1>3. CASE RamStep(h)
  <2>1. \A o : Has(o)' <=> \E b \in Rest : b.op = o
    BY <1>3 DEF RamStep, Has
  <2>2. \A o : Has(o) <=> h.op = o \/ Has(o)'
    BY <1>1, <2>1 DEF Has
  <2>3. ~Has("gather")'
    BY <1>2, <2>1
  <2>4. shared'.conf = conf'
    <3>1. CASE h.op = "gather"
      BY <1>1, <1>3, <3>1 DEF RamStep, Gathered
    <3>2. CASE h.op # "gather"
      <4>1. ~Has("gather")
        BY <2>2, <2>3, <3>2
      <4> QED
        BY <1>1, <1>3, <3>2, <4>1 DEF RamStep, ConfInv
    <3> QED
      BY <3>1, <3>2
  <2>5. nvs' = nvs
    BY <1>3 DEF RamStep
  <2>6. CASE h.op = "spawn"
    <3>1. Rest = {}
      BY <1>1, <2>6 DEF Follows
    <3>2. ~Has("blob")
      BY <2>1, <2>2, <2>6, <3>1
    <3>3. task'.at = "poll" /\ dirty' = dirty
      BY <1>3, <2>6 DEF RamStep, TypeInv, TypeOK, Task
    <3>4. task.at = "none" /\ ~Has("spawn")'
      BY <2>1, <2>2, <2>6, <3>1 DEF ConfInv
    <3> QED
      BY <1>1, <2>3, <2>4, <2>5, <3>2, <3>3, <3>4 DEF ConfInv
  <2>7. CASE h.op # "spawn"
    <3>1. task' = task
      BY <1>3, <2>7 DEF RamStep
    <3>2. ~dirty' /\ ~Has("mark")' => ~dirty /\ ~Has("mark")
      BY <1>3, <2>2 DEF RamStep
    <3>3. (Has("spawn") <=> Has("spawn")') /\ (Has("blob") => Has("blob")')
      BY <1>3, <2>2, <2>7 DEF RamStep, RamOp
    <3> QED
      BY <1>1, <2>3, <2>4, <2>5, <3>1, <3>2, <3>3 DEF ConfInv
  <2> QED
    BY <2>6, <2>7
<1>4. CASE BlobStep(h)
  <2>1. \A o : Has(o)' <=> \E b \in Rest : b.op = o
    BY <1>4 DEF BlobStep, Has
  <2>2. \A o : Has(o) <=> h.op = o \/ Has(o)'
    BY <1>1, <2>1 DEF Has
  <2>3. ~Has("gather")' /\ ~Has("gather")
    BY <1>2, <1>4, <2>1, <2>2 DEF BlobStep
  <2>4. shared.conf = conf /\ UNCHANGED <<shared, dirty, task>>
    BY <1>1, <1>4, <2>3 DEF ConfInv, BlobStep, taskVars
  <2>5. nvs'.usable /\ nvs'.blob.conf = conf'
    BY <1>1, <1>4, <2>4 DEF BlobStep, TypeInv, Nvs
  <2>6. (Has("spawn") <=> Has("spawn")') /\ (Has("mark") => Has("mark")')
    BY <1>4, <2>2 DEF BlobStep
  <2> QED
    BY <1>1, <2>3, <2>4, <2>5, <2>6 DEF ConfInv
<1>5. ASSUME UNCHANGED taskVars,
             nvs'.blob = nvs.blob, nvs'.usable = nvs.usable,
             \A o \in {"gather", "mark", "spawn", "blob"} : Has(o)' <=> Has(o)
      PROVE  ConfInv'
  BY <1>1, <1>5 DEF ConfInv, taskVars
<1>6. ASSUME h.op \notin {"gather", "mark", "spawn", "blob"}, Left' = Rest
      PROVE  \A o \in {"gather", "mark", "spawn", "blob"} : Has(o)' <=> Has(o)
  BY <1>1, <1>6 DEF Has
<1>7. CASE AppendStep(h) \/ RetryStep(h)
  <2>1. h.key \in Stream /\ live[h.key] \in Binding /\ seq + 1 \in Nat
    BY <1>7 DEF AppendStep, RetryStep, TypeInv, TypeOK, Key
  <2>2. /\ nvs' = nvs \/ Put(h.key, seq + 1, live[h.key])
        /\ h.op \in {"append", "retry"} /\ UNCHANGED taskVars
    BY <1>7 DEF AppendStep, RetryStep
  <2>3. nvs'.blob = nvs.blob /\ nvs'.usable = nvs.usable
    BY <2>1, <2>2, PutType
  <2>4. Left' = Rest \/ Left' = Steps(Retries(h.key)) \cup Rest
    BY <1>7 DEF AppendStep, RetryStep
  <2>5. \A b \in Steps(Retries(h.key)) : b.op \in {"compact", "retry"}
    BY <2>1, RetriesType
  <2>6. \A o \in {"gather", "mark", "spawn", "blob"} : Has(o)' <=> Has(o)
    BY <1>1, <2>2, <2>4, <2>5 DEF Has
  <2> QED
    BY <1>5, <2>2, <2>3, <2>6
<1>8. CASE CompactStep(h)
  <2>1. \A b \in Steps(Rewrites) : b.op \in {"erase", "keep"}
    BY RewritesType
  <2>2. \A o \in {"gather", "mark", "spawn", "blob"} : Has(o)' <=> Has(o)
    BY <1>1, <1>8, <2>1 DEF Has, CompactStep
  <2> QED
    BY <1>5, <1>8, <2>2 DEF CompactStep
<1>9. CASE EraseStep(h)
  <2>1. nvs'.blob = nvs.blob /\ nvs'.usable = nvs.usable
    BY <1>9, EraseType DEF EraseStep
  <2>2. Left' = Rest \/ Left' = Left
    BY <1>9 DEF EraseStep
  <2>3. \A o \in {"gather", "mark", "spawn", "blob"} : Has(o)' <=> Has(o)
    BY <1>1, <1>9, <2>2 DEF Has, EraseStep
  <2> QED
    BY <1>5, <1>9, <2>1, <2>3 DEF EraseStep
<1>10. CASE KeepStep(h)
  <2>1. /\ h.record.stream \in Stream /\ h.record.value \in Binding /\ seq + 1 \in Nat
        /\ Put(h.record.stream, seq + 1, h.record.value) /\ UNCHANGED taskVars
        /\ h.op = "keep" /\ Left' = Rest
    BY <1>10 DEF KeepStep, Record, TypeInv, TypeOK
  <2>2. nvs'.blob = nvs.blob /\ nvs'.usable = nvs.usable
    BY <2>1, PutType
  <2> QED
    BY <1>5, <1>6, <2>1, <2>2
<1>11. CASE DirectStep(h)
  <2>1. nvs'.blob = nvs.blob /\ nvs'.usable = nvs.usable
    BY <1>11 DEF DirectStep, TypeInv, Nvs
  <2> QED
    BY <1>5, <1>6, <1>11, <2>1 DEF DirectStep
<1> QED
  BY <1>3, <1>4, <1>7, <1>8, <1>9, <1>10, <1>11, StepEffects DEF h

\* The order of the snapshot task: flag, copy, write.
LEMMA ConfTaskStep == ASSUME TypeInv, ConfInv, TaskStep PROVE ConfInv'
<1>1. /\ on /\ UNCHANGED <<on, conf, main, shared>>
      /\ UNCHANGED Left
  BY DEF TaskStep, TaskPoll, TaskClear, TaskCopy, TaskWrite, mainVars, Left
<1>2. \A o : Has(o)' <=> Has(o)
  BY <1>1 DEF Has
<1>3. task \in Task /\ nvs \in Nvs
  BY DEF TypeInv
<1>4. CASE TaskPoll
  BY <1>1, <1>2, <1>3, <1>4 DEF TaskPoll, ConfInv, Task
<1>5. CASE TaskClear
  BY <1>1, <1>2, <1>3, <1>5 DEF TaskClear, ConfInv, Task
<1>6. CASE TaskCopy
  <2>1. task'.at = "write" /\ task'.copy = shared /\ UNCHANGED <<nvs, dirty>>
        /\ task.at = "copy"
    BY <1>6 DEF TaskCopy
  <2>2. ~Has("mark") => shared.conf = conf
    BY <1>1, <2>1 DEF ConfInv
  <2> QED
    BY <1>1, <1>2, <2>1, <2>2 DEF ConfInv
<1>7. CASE TaskWrite
  <2>1. /\ task'.at = "poll" /\ nvs'.blob = task.copy /\ nvs'.usable
        /\ task.at = "write" /\ UNCHANGED dirty
    BY <1>3, <1>7 DEF TaskWrite, Nvs
  <2> QED
    BY <1>1, <1>2, <2>1 DEF ConfInv
<1> QED
  BY <1>4, <1>5, <1>6, <1>7 DEF TaskStep

LEMMA ConfStep == TypeInv /\ ConfInv /\ [Next]_vars => ConfInv'
<1> SUFFICES ASSUME TypeInv, ConfInv, [Next]_vars PROVE ConfInv'
  OBVIOUS
<1>1. ASSUME UNCHANGED <<on, conf, nvs, main, shared, dirty, task>> PROVE ConfInv'
  <2>1. \A o : Has(o)' <=> Has(o)
    BY <1>1 DEF Has, Left
  <2> QED
    BY <1>1, <2>1 DEF ConfInv
<1>2. CASE UNCHANGED vars \/ Elapse \/ Streaming
  BY <1>1, <1>2 DEF vars, mainVars, taskVars, Elapse, Streaming
<1>3. CASE Reflash
  <2>1. ~on /\ UNCHANGED <<on, main, task>> /\ main = << >> /\ task.at = "none"
    BY <1>3 DEF Reflash, mainVars, taskVars, TypeInv
  <2>2. Left' = {}
    BY <2>1, Single DEF Left
  <2> QED
    BY <2>1, <2>2 DEF ConfInv, Has
<1> QED
  BY <1>2, <1>3, ConfBoot, ConfPowerLoss, ConfMainStep, ConfTick, ConfTaskStep,
     ConfBind, ConfConfigure DEF Next, Tick

\* A marked change is in flash once nothing is marked and the snapshot task is
\* back at its poll, whenever it cleared the flag and copied
\* (avb_persist_task, avb_persist_request_save).
THEOREM MarkedSaved == Spec => []SaveNotLost
<1>1. ConfInv => SaveNotLost
  <2> SUFFICES ASSUME ConfInv, Idle, task.at = "poll", ~dirty
               PROVE  nvs.usable /\ nvs.blob.conf = conf
    BY DEF SaveNotLost
  <2> QED
    BY IdleLeft DEF ConfInv
<1>2. Init => TypeInv /\ ConfInv
  BY InitType, ConfInit
<1>3. TypeInv /\ ConfInv /\ [Next]_vars => (TypeInv /\ ConfInv)'
  BY TypeStep, ConfStep
<1> QED
  BY <1>1, <1>2, <1>3, PTL DEF Spec

(***************************************************************************)
(* Every binding comes back.                                               *)
(***************************************************************************)
BInv == BootInv /\ JournalInv /\ CompactInv /\ BindInv

\* A step that leaves the records of a stream and what a compaction has still
\* to write of it alone leaves its binding where it is.
LEMMA StaysSafe ==
  ASSUME NEW s \in Stream, Safe(s), Latest(s)' = Latest(s), live'[s] = live[s],
         InSnapshots(s) => InSnapshots(s)',
         \A step \in Kept :
           step.record.stream = s => (step \in Left' <=> step \in Left),
         Has("erase")' => Has("erase")
  PROVE  Safe(s)'
<1>1. IsKept(s)' <=> IsKept(s)
  BY DEF IsKept
<1> QED
  BY <1>1 DEF Safe

LEMMA BindingInit == Init => BInv
<1> SUFFICES ASSUME Init PROVE BInv
  OBVIOUS
<1>1. /\ on = FALSE /\ main = << >> /\ nvs.journal = {} /\ nvs.blob = Blank
  BY DEF Init
<1>2. Left = {}
  BY <1>1, Single DEF Left
<1> QED
  BY <1>1, <1>2 DEF BInv, BootInv, JournalInv, CompactInv, BindInv, Has

\* What avb_persist_load restores is what is then bound, and no record is
\* numbered above what it counts on from.
LEMMA BindingBoot == ASSUME TypeInv, BInv, Boot PROVE BInv'
<1>1. /\ on' /\ nvs' = nvs /\ task' = task /\ pending' = {} /\ task.at = "none"
      /\ shared = Blank
  BY DEF Boot, TypeInv
<1>2. \A step \in Left' : step.op \in {"compact", "spawn", "gather", "blob"}
  BY BootSteps
<1>3. \A s \in Stream : ~IsKept(s)' /\ ~Has("erase")'
  BY <1>2 DEF IsKept, Has, Kept
<1>4. \A s \in Stream : s \notin Direct /\ s \in Key
  BY PersistAssumption DEF Key
<1>5. \A k \in Direct : k \in Key
  BY DEF Key
<1>6. \A s \in Stream : Latest(s)' = Latest(s)
  BY <1>1 DEF Latest
<1>7. BootInv'
  <2>0. Left' = IF nvs.usable THEN {[op |-> "compact"], [op |-> "spawn"]}
                ELSE {[op |-> "gather"], [op |-> "blob"], [op |-> "spawn"]}
    BY BootSteps
  <2>1. nvs.usable => ~Has("blob")'
    <3>1. nvs.usable => \A step \in Left' : step.op # "blob"
      BY <2>0
    <3> QED
      BY <3>1 DEF Has
  <2>2. ~nvs.usable =>
          Has("blob")' /\ \A step \in Left' : step.op \in {"gather", "blob", "spawn"}
    <3>1. ~nvs.usable => [op |-> "blob"] \in Left'
      BY <2>0
    <3>2. [op |-> "blob"].op = "blob"
      OBVIOUS
    <3>3. ~nvs.usable => Has("blob")'
      BY <3>1, <3>2 DEF Has
    <3>4. ~nvs.usable => \A step \in Left' : step.op \in {"gather", "blob", "spawn"}
      BY <2>0
    <3> QED
      BY <3>3, <3>4
  <2> QED
    BY <1>1, <2>1, <2>2 DEF BInv, BootInv
<1>8. CompactInv'
  <2>1. ~Has("keep")' /\ ~Has("retry")'
    BY <1>2 DEF Has
  <2> QED
    BY <2>1 DEF CompactInv, Has
<1>9. JournalInv'
  <2>1. CASE nvs.usable /\ nvs.journal # {}
    <3>1. seq' = Newest(nvs.journal).seq
      BY <2>1 DEF Boot
    <3> QED
      BY <1>1, <2>1, <3>1, NewestExists DEF BInv, JournalInv
  <2>2. CASE ~(nvs.usable /\ nvs.journal # {})
    <3>1. nvs.journal = {}
      BY <2>2 DEF BInv, BootInv
    <3> QED
      BY <1>1, <3>1 DEF JournalInv
  <2> QED
    BY <2>1, <2>2
<1>10. CASE nvs.usable
  <2>1. /\ live' = [k \in Key |-> Restored(k)]
        /\ shared' = [conf |-> conf', bind |-> [s \in Stream |-> live'[s]]]
    BY <1>10 DEF Boot
  <2>2. ASSUME NEW s \in Stream PROVE Safe(s)'
    <3>1. live'[s] = Restored(s) /\ shared'.bind[s] = live'[s]
      BY <1>4, <2>1
    <3>2. CASE Latest(s) = {}
      <4>1. live'[s] = nvs.blob.bind[s]
        BY <1>4, <3>1, <3>2 DEF Restored
      <4>2. InSnapshots(s)'
        BY <1>1, <3>1, <4>1 DEF InSnapshots
      <4> QED
        BY <1>3, <1>6, <3>2, <4>2 DEF Safe
    <3>3. CASE Latest(s) # {}
      <4>1. Latest(s) \in SUBSET nvs.journal
        BY DEF Latest
      <4>2. Newest(Latest(s)) \in Latest(s)
            /\ \A q \in Latest(s) : q.seq <= Newest(Latest(s)).seq
        BY <3>3, <4>1, NewestExists
      <4>3. Newest(Latest(s)).value = live'[s]
        BY <1>4, <3>1, <3>3 DEF Restored
      <4> QED
        BY <1>3, <1>6, <4>2, <4>3 DEF Safe
    <3> QED
      BY <3>2, <3>3
  <2>3. \A k \in Direct : nvs'.direct[k] = live'[k]
    BY <1>1, <1>5, <2>1 DEF Restored
  <2> QED
    BY <1>7, <1>8, <1>9, <2>2, <2>3 DEF BInv, BindInv
<1>11. CASE ~nvs.usable
  <2>1. /\ live' = [k \in Key |-> IF k \in Direct THEN Restored(k) ELSE Default]
        /\ shared' = shared /\ nvs.blob = Blank /\ nvs.journal = {}
    BY <1>11 DEF Boot, BInv, BootInv
  <2>2. ASSUME NEW s \in Stream PROVE Safe(s)'
    <3>1. live'[s] = Default /\ Blank.bind[s] = Default /\ Latest(s) = {}
      BY <1>4, <2>1 DEF Blank, Latest
    <3>2. InSnapshots(s)'
      BY <1>1, <2>1, <3>1 DEF InSnapshots
    <3> QED
      BY <1>3, <1>6, <3>1, <3>2 DEF Safe
  <2>3. \A k \in Direct : nvs'.direct[k] = live'[k]
    BY <1>1, <1>5, <2>1 DEF Restored
  <2> QED
    BY <1>7, <1>8, <1>9, <2>2, <2>3 DEF BInv, BindInv
<1> QED
  BY <1>10, <1>11

LEMMA BindingPowerLoss == ASSUME BInv, PowerLoss PROVE BInv'
<1>1. on' = FALSE /\ main' = << >> /\ nvs' = nvs
  BY DEF PowerLoss
<1>2. Left' = {}
  BY <1>1, Single DEF Left
<1> QED
  BY <1>1, <1>2 DEF BInv, BootInv, JournalInv, CompactInv, BindInv, Has

\* A call that starts: what it writes waits, the rest stays.
LEMMA CallStarts ==
  ASSUME TypeInv, BInv, Idle, UNCHANGED <<on, nvs, seq, taskVars>>,
         \A step \in Left' : step \notin Kept
                             /\ step.op \notin {"keep", "retry", "erase", "blob"},
         \A k \in Key : ~Waits(k)' => ~Waits(k) /\ live'[k] = live[k]
  PROVE  BInv'
<1>1. on /\ Left = {} /\ (\A o : ~Has(o)) /\ nvs.usable
  BY IdleLeft DEF BInv, BootInv
<1>2. BootInv' /\ JournalInv'
  BY <1>1 DEF BInv, BootInv, JournalInv, Has
<1>3. CompactInv'
  BY DEF CompactInv, Has
<1>4. ASSUME NEW s \in Stream, ~Waits(s)' PROVE Safe(s)'
  <2>1. Safe(s) /\ live'[s] = live[s]
    BY <1>1, <1>4 DEF BInv, BindInv, Key
  <2>2. InSnapshots(s) => InSnapshots(s)'
    BY <2>1 DEF InSnapshots, taskVars
  <2>3. ~Has("erase")'
    BY DEF Has
  <2>4. Latest(s)' = Latest(s)
    BY DEF Latest
  <2> QED
    BY <1>1, <2>1, <2>2, <2>3, <2>4, StaysSafe
<1>5. ASSUME NEW k \in Direct, ~Waits(k)' PROVE nvs'.direct[k] = live'[k]
  BY <1>1, <1>5 DEF BInv, BindInv, Key
<1> QED
  BY <1>2, <1>3, <1>4, <1>5 DEF BInv, BindInv

\* The calls that start: only what they defer or write is not in flash.
LEMMA BindWaits ==
  ASSUME TypeInv, NEW k \in Key, NEW v \in Binding, NEW q \in BOOLEAN, Bind(k, v, q)
  PROVE  /\ Idle /\ UNCHANGED <<on, nvs, seq, taskVars>>
         /\ \A j \in Key : ~Waits(j)' => ~Waits(j) /\ live'[j] = live[j]
         /\ \A step \in Left' : step \notin Kept
                                /\ step.op \notin {"keep", "retry", "erase", "blob"}
<1>0. Idle /\ main = << >>
  BY DEF Bind, Idle
<1>1. /\ Idle /\ live' = [live EXCEPT ![k] = v]
      /\ UNCHANGED <<on, nvs, seq, taskVars>>
      /\ \/ main' = << Write(k) >> /\ pending' = pending
         \/ main' = << >> /\ pending' = pending \cup {k}
  <2>1. CASE q
    BY <1>0, <2>1 DEF Bind
  <2>2. CASE ~q
    BY <1>0, <2>2 DEF Bind
  <2> QED
    BY <2>1, <2>2
<1>2. Write(k) \in Step /\ Write(k) \in Keyed /\ Write(k).key = k
      /\ Write(k).op \in {"append", "direct"} /\ Write(k) \notin Kept
  BY WriteFits DEF Step, Kept
<1>3. /\ main' = << Write(k) >> => Left' = {Write(k)}
      /\ main' = << >> => Left' = {}
  BY <1>2, Single DEF Left
<1>4. Waits(k)'
  BY <1>1, <1>2, <1>3 DEF Waits
<1>5. \A j \in Key : ~Waits(j)' => ~Waits(j) /\ live'[j] = live[j]
  BY <1>1, <1>4, IdleLeft DEF Waits, TypeInv, TypeOK
<1>6. \A step \in Left' : step \notin Kept
                          /\ step.op \notin {"keep", "retry", "erase", "blob"}
  BY <1>1, <1>2, <1>3
<1> QED
  BY <1>1, <1>5, <1>6

LEMMA TickWaits ==
  ASSUME TypeInv, NEW q \in BOOLEAN, JournalTick(q)
  PROVE  /\ Idle /\ UNCHANGED <<on, nvs, seq, taskVars>>
         /\ \A j \in Key : ~Waits(j)' => ~Waits(j) /\ live'[j] = live[j]
         /\ \A step \in Left' : step \notin Kept
                                /\ step.op \notin {"keep", "retry", "erase", "blob"}
<1>1. Idle /\ UNCHANGED <<on, live, nvs, seq, taskVars>>
  BY DEF JournalTick
<1>2. \/ Left' = {} /\ pending' = pending
      \/ Left' = {Write(k) : k \in pending}
  BY <1>1, TickWrites, IdleLeft DEF Left
<1>3. \A k \in pending : /\ Write(k) \in Keyed /\ Write(k).key = k
                         /\ Write(k).op \in {"append", "direct"}
  BY WriteFits DEF TypeInv, TypeOK
<1>4. \A k \in Key : ~Waits(k)' => ~Waits(k) /\ live'[k] = live[k]
  BY <1>1, <1>2, <1>3, IdleLeft DEF Waits
<1>5. \A step \in Left' : step \notin Kept
                          /\ step.op \notin {"keep", "retry", "erase", "blob"}
  BY <1>2, <1>3 DEF Kept
<1> QED
  BY <1>1, <1>4, <1>5

LEMMA ConfigureWaits ==
  ASSUME TypeInv, NEW c \in Conf, NEW eager \in BOOLEAN, Configure(c, eager)
  PROVE  /\ Idle /\ UNCHANGED <<on, nvs, seq, taskVars>>
         /\ \A j \in Key : ~Waits(j)' => ~Waits(j) /\ live'[j] = live[j]
         /\ \A step \in Left' : step \notin Kept
                                /\ step.op \notin {"keep", "retry", "erase", "blob"}
<1>1. Idle /\ UNCHANGED <<on, live, nvs, seq, pending, taskVars>>
  BY DEF Configure
<1>2. \A k \in Key : ~Waits(k)' => ~Waits(k) /\ live'[k] = live[k]
  BY <1>1, IdleLeft DEF Waits
<1>3. \A step \in Left' : step \notin Kept
                          /\ step.op \notin {"keep", "retry", "erase", "blob"}
  BY ConfigureSteps DEF Kept
<1> QED
  BY <1>1, <1>2, <1>3

LEMMA BindingCalls ==
  /\ \A k \in Key, v \in Binding, q \in BOOLEAN :
       TypeInv /\ BInv /\ Bind(k, v, q) => BInv'
  /\ \A q \in BOOLEAN : TypeInv /\ BInv /\ JournalTick(q) => BInv'
  /\ \A c \in Conf, eager \in BOOLEAN :
       TypeInv /\ BInv /\ Configure(c, eager) => BInv'
BY CallStarts, BindWaits, TickWaits, ConfigureWaits

\* The step a call is at, and what is left after it.
AtStep(h) ==
  /\ on /\ on' = on /\ live' = live /\ pending' = pending
  /\ h \in Step /\ Left = {h} \cup Rest
  /\ \A b \in Rest : b \in Step /\ Follows(h, b)

\* A step that writes no record.
LEMMA LeavesJournal ==
  ASSUME TypeInv, BInv, NEW h, AtStep(h), Left' = Rest,
         nvs'.journal = nvs.journal, seq' = seq,
         h.op \in RamOp \cup {"blob", "direct"}, h \notin Kept,
         h \in Keyed => h.key \notin Stream,
         \A s \in Stream : InSnapshots(s) => InSnapshots(s)'
  PROVE  JournalInv' /\ CompactInv' /\ \A s \in Stream : ~Waits(s)' => Safe(s)'
<1>1. \A o \in {"erase", "compact", "keep", "retry"} : Has(o)' <=> Has(o)
  BY DEF AtStep, Has, RamOp
<1>2. \A s : Latest(s)' = Latest(s)
  BY DEF Latest
<1>3. JournalInv'
  BY DEF BInv, JournalInv, AtStep
<1>4. CompactInv'
  <2>1. \A step \in Left' : step \in Left
    BY DEF AtStep
  <2> QED
    BY <1>1, <1>2, <2>1 DEF BInv, CompactInv
<1>5. ASSUME NEW s \in Stream, ~Waits(s)' PROVE Safe(s)'
  <2>1. ~Waits(s)
    BY <1>5 DEF Waits, AtStep
  <2>2. Safe(s)
    BY <2>1 DEF BInv, BindInv, AtStep
  <2>3. \A step \in Kept : step \in Left' <=> step \in Left
    BY DEF AtStep
  <2> QED
    BY <1>1, <1>2, <2>2, <2>3, StaysSafe DEF AtStep
<1> QED
  BY <1>3, <1>4, <1>5

\* The boot's snapshot is written before the calls that need it.
LEMMA NoBlob ==
  ASSUME BInv, NEW h, AtStep(h), h.op \notin {"gather", "blob", "spawn"}
  PROVE  ~Has("blob") /\ nvs.usable /\ \A b \in Rest : b.op # "blob"
BY DEF BInv, BootInv, AtStep, Has

LEMMA BindingRam == ASSUME TypeInv, BInv, NEW h, AtStep(h), RamStep(h) PROVE BInv'
<1>1. /\ h.op \in RamOp /\ Left' = Rest /\ nvs' = nvs /\ seq' = seq
      /\ shared' = shared \/ shared' = Gathered
      /\ task' = IF h.op = "spawn" THEN [task EXCEPT !.at = "poll"] ELSE task
  BY DEF RamStep
<1>2. h \notin Kept /\ h \notin Keyed
  BY <1>1 DEF Kept, Keyed, RamOp
<1>3. BootInv'
  <2>1. Has("blob")' <=> Has("blob")
    BY <1>1 DEF AtStep, Has, RamOp
  <2> QED
    BY <1>1, <2>1 DEF AtStep, BInv, BootInv
<1>4. ASSUME NEW s \in Stream, InSnapshots(s) PROVE InSnapshots(s)'
  <2>1. shared'.bind[s] = live'[s]
    BY <1>1, <1>4 DEF Gathered, InSnapshots, AtStep
  <2>2. task'.at = "write" => task' = task
    BY <1>1 DEF TypeInv, Task
  <2> QED
    BY <1>1, <1>4, <2>1, <2>2 DEF InSnapshots, AtStep
<1>5. JournalInv' /\ CompactInv' /\ \A s \in Stream : ~Waits(s)' => Safe(s)'
  BY <1>1, <1>2, <1>4, LeavesJournal
<1>6. \A k \in Direct : ~Waits(k)' => nvs'.direct[k] = live'[k]
  BY <1>1, <1>2 DEF BInv, BindInv, Waits, AtStep
<1> QED
  BY <1>3, <1>5, <1>6 DEF BInv, BindInv

\* avb_persist_write_blob of the boot.
LEMMA BindingBlob == ASSUME TypeInv, BInv, NEW h, AtStep(h), BlobStep(h) PROVE BInv'
<1>1. /\ h.op = "blob" /\ Left' = Rest /\ seq' = seq /\ shared' = shared /\ task' = task
  BY DEF BlobStep, taskVars
<1>2. /\ nvs'.blob = shared /\ nvs'.usable = TRUE /\ nvs'.journal = nvs.journal
      /\ nvs'.direct = nvs.direct
  BY DEF BlobStep, TypeInv, Nvs
<1>3. h \notin Kept /\ h \notin Keyed
  BY <1>1 DEF Kept, Keyed
<1>4. BootInv'
  BY <1>1, <1>2 DEF AtStep, BInv, BootInv, Has
<1>5. \A s \in Stream : InSnapshots(s) => InSnapshots(s)'
  BY <1>1, <1>2 DEF InSnapshots, AtStep
<1>6. JournalInv' /\ CompactInv' /\ \A s \in Stream : ~Waits(s)' => Safe(s)'
  BY <1>1, <1>2, <1>3, <1>5, LeavesJournal
<1>7. \A k \in Direct : ~Waits(k)' => nvs'.direct[k] = live'[k]
  BY <1>1, <1>2, <1>3 DEF BInv, BindInv, Waits, AtStep
<1> QED
  BY <1>4, <1>6, <1>7 DEF BInv, BindInv

\* avb_persist_save_rate and avb_persist_save_input_map.
LEMMA BindingDirect ==
  ASSUME TypeInv, BInv, NEW h, AtStep(h), DirectStep(h) PROVE BInv'
<1>1. /\ h.op = "direct" /\ Left' = Rest /\ seq' = seq /\ shared' = shared
      /\ task' = task /\ h.key \in Direct
  BY DEF DirectStep, taskVars
<1>2. /\ nvs'.blob = nvs.blob /\ nvs'.usable = nvs.usable
      /\ nvs'.journal = nvs.journal
      /\ nvs'.direct = [nvs.direct EXCEPT ![h.key] = live[h.key]]
  BY DEF DirectStep, TypeInv, Nvs
<1>3. h \notin Kept /\ h.key \notin Stream
  BY <1>1, PersistAssumption DEF Kept
<1>4. BootInv'
  BY <1>1, <1>2, NoBlob DEF AtStep, BInv, BootInv, Has
<1>5. \A s \in Stream : InSnapshots(s) => InSnapshots(s)'
  BY <1>1, <1>2 DEF InSnapshots, AtStep
<1>6. JournalInv' /\ CompactInv' /\ \A s \in Stream : ~Waits(s)' => Safe(s)'
  BY <1>1, <1>2, <1>3, <1>5, LeavesJournal
<1>7. ASSUME NEW k \in Direct, ~Waits(k)' PROVE nvs'.direct[k] = live'[k]
  <2>0. nvs.direct \in [Direct -> Binding]
    BY DEF TypeInv, Nvs
  <2>1. CASE k = h.key
    BY <1>2, <2>0, <2>1 DEF AtStep
  <2>2. CASE k # h.key
    <3>1. ~Waits(k)
      BY <1>1, <1>7, <2>2 DEF Waits, AtStep
    <3> QED
      BY <1>2, <2>0, <2>2, <3>1 DEF BInv, BindInv, AtStep
  <2> QED
    BY <2>1, <2>2
<1> QED
  BY <1>4, <1>6, <1>7 DEF BInv, BindInv

\* A record numbered above all others is the newest of its stream and leaves
\* the records of the other streams alone.
LEMMA PutsNewest ==
  ASSUME TypeInv, BInv, on, on' = on, NEW s \in Stream, NEW v \in Binding,
         Put(s, seq + 1, v), seq' = seq + 1
  PROVE  /\ JournalInv'
         /\ nvs'.blob = nvs.blob /\ nvs'.usable = nvs.usable
         /\ nvs'.direct = nvs.direct
         /\ \A t \in Stream \ {s} : Latest(t)' = Latest(t)
         /\ \E n \in Latest(s)' :
              /\ n.value = v /\ n.stream = s
              /\ \A q \in Latest(s)' : q.seq <= n.seq
              /\ nvs'.journal = nvs.journal \cup {n}
<1> DEFINE n == [stream |-> s, seq |-> seq + 1, value |-> v]
<1>1. /\ \A r \in nvs.journal : r \in Record /\ r.seq \in Nat /\ r.seq <= seq
      /\ seq \in Nat
  BY DEF TypeInv, TypeOK, BInv, JournalInv, Record
<1>2. /\ nvs'.blob = nvs.blob /\ nvs'.usable = nvs.usable
      /\ nvs'.direct = nvs.direct
      /\ nvs'.journal = {r \in nvs.journal : r.stream # s \/ r.seq # seq + 1} \cup {n}
  BY <1>1, PutType
<1>3. n.value = v /\ n.stream = s /\ n.seq = seq + 1
  OBVIOUS
<1> HIDE DEF n
<1>4. \A r \in nvs.journal : r.seq # seq + 1 /\ r.seq <= seq + 1
  BY <1>1
<1>5. nvs'.journal = nvs.journal \cup {n}
  BY <1>2, <1>4
<1>6. \A r, q \in nvs'.journal : r.stream = q.stream /\ r.seq = q.seq => r = q
  BY <1>3, <1>4, <1>5 DEF BInv, JournalInv
<1>7. \A r \in nvs'.journal : r.seq <= seq'
  BY <1>1, <1>3, <1>4, <1>5
<1>8. JournalInv'
  BY <1>6, <1>7 DEF JournalInv
<1>9. \A t \in Stream \ {s} : Latest(t)' = Latest(t)
  BY <1>3, <1>5 DEF Latest
<1>10. n \in Latest(s)' /\ \A q \in Latest(s)' : q.seq <= n.seq
  BY <1>3, <1>5, <1>7 DEF Latest
<1> QED
  BY <1>2, <1>3, <1>5, <1>8, <1>9, <1>10

\* A record of a change: its stream waits no longer, the others stay.
LEMMA WritesChange ==
  ASSUME TypeInv, BInv, NEW h, AtStep(h), h.op \in {"append", "retry"}, h \in Keyed,
         h.key \in Stream, seq' = seq + 1, Left' = Rest, UNCHANGED taskVars,
         Put(h.key, seq + 1, live[h.key])
  PROVE  BInv'
<1>1. live[h.key] \in Binding /\ on /\ on' = on
  BY DEF TypeInv, TypeOK, Key, AtStep
<1>2. PICK n \in Latest(h.key)' : /\ n.value = live[h.key] /\ n.stream = h.key
                                  /\ \A q \in Latest(h.key)' : q.seq <= n.seq
  BY <1>1, PutsNewest
<1>3. /\ JournalInv' /\ nvs'.blob = nvs.blob /\ nvs'.usable = nvs.usable
      /\ nvs'.direct = nvs.direct
      /\ \A t \in Stream \ {h.key} : Latest(t)' = Latest(t)
      /\ nvs.usable => nvs'.usable
  BY <1>1, PutsNewest
<1>4. \A b \in Left' : b.op \notin {"gather", "compact", "erase", "retry", "keep"}
  BY DEF AtStep, Follows
<1>5. h \notin Kept /\ \A b \in Left' : b \notin Kept
  BY <1>4 DEF Kept
<1>6. BootInv'
  BY <1>3, NoBlob DEF AtStep, BInv, BootInv, Has
<1>7. CompactInv'
  BY <1>4 DEF CompactInv, Has
<1>8. \A s \in Stream : ~IsKept(s)' /\ ~Has("erase")'
  BY <1>4, <1>5 DEF IsKept, Has
<1>9. ASSUME NEW s \in Stream, ~Waits(s)' PROVE Safe(s)'
  <2>1. CASE s = h.key
    <3>1. live'[s] = live[s]
      BY DEF AtStep
    <3> QED
      BY <1>2, <1>8, <2>1, <3>1 DEF Safe
  <2>2. CASE s # h.key
    <3>1. ~Waits(s)
      BY <1>9, <2>2 DEF Waits, AtStep
    <3>2. Safe(s) /\ live'[s] = live[s]
      BY <3>1 DEF BInv, BindInv, AtStep
    <3>3. InSnapshots(s) => InSnapshots(s)'
      BY <1>3, <3>2 DEF InSnapshots, taskVars
    <3>4. \A step \in Kept : step \in Left' <=> step \in Left
      BY <1>5 DEF AtStep
    <3>5. Latest(s)' = Latest(s)
      BY <1>3, <2>2
    <3> QED
      BY <1>8, <3>2, <3>3, <3>4, <3>5, StaysSafe
  <2> QED
    BY <2>1, <2>2
<1>10. ASSUME NEW k \in Direct, ~Waits(k)' PROVE nvs'.direct[k] = live'[k]
  <2>1. k # h.key
    BY PersistAssumption
  <2>2. ~Waits(k)
    BY <1>10, <2>1 DEF Waits, AtStep
  <2> QED
    BY <1>3, <2>2 DEF BInv, BindInv, AtStep
<1> QED
  BY <1>3, <1>6, <1>7, <1>9, <1>10 DEF BInv, BindInv

\* avb_persist_append_stream_record.
LEMMA BindingAppend ==
  ASSUME TypeInv, BInv, NEW h, AtStep(h), AppendStep(h) PROVE BInv'
<1>1. /\ h.op = "append" /\ h \in Keyed /\ h.key \in Stream /\ seq' = seq + 1
      /\ UNCHANGED taskVars
  BY DEF AppendStep
<1>2. CASE ~Full
  BY <1>1, <1>2, WritesChange DEF AppendStep
<1>3. CASE Full
  <2> DEFINE c == [op |-> "compact"]
             r == [op |-> "retry", key |-> h.key]
  <2>1. nvs' = nvs /\ Left' = {c, r} \cup Rest
    BY <1>1, <1>3, RetriesType DEF AppendStep
  <2>2. /\ c.op = "compact" /\ r.op = "retry" /\ r.key = h.key
        /\ r \in Keyed /\ c \notin Keyed /\ c \notin Kept /\ r \notin Kept
        /\ h \notin Kept
    BY <1>1 DEF Keyed, Kept
  <2> HIDE DEF c, r
  <2>3. BootInv'
    BY <1>1, <2>1, <2>2, NoBlob DEF BInv, BootInv, Has
  <2>4. JournalInv'
    BY <1>1, <2>1 DEF BInv, JournalInv, AtStep, TypeInv, TypeOK, Nvs, Record
  <2>5. CompactInv'
    BY <2>1, <2>2 DEF CompactInv, Has
  <2>7. \A k : ~Waits(k)' => ~Waits(k)
    BY <2>1, <2>2 DEF Waits, AtStep
  <2>8. ASSUME NEW s \in Stream, ~Waits(s)' PROVE Safe(s)'
    <3>1. Safe(s) /\ live'[s] = live[s]
      BY <2>7, <2>8 DEF BInv, BindInv, AtStep
    <3>2. InSnapshots(s) => InSnapshots(s)'
      BY <1>1, <2>1, <3>1 DEF InSnapshots, taskVars
    <3>3. \A step \in Kept : step \in Left' <=> step \in Left
      BY <2>1, <2>2 DEF AtStep
    <3>4. Latest(s)' = Latest(s)
      BY <2>1 DEF Latest
    <3>5. Has("erase")' => Has("erase")
      BY <2>1, <2>2 DEF Has, AtStep
    <3> QED
      BY <3>1, <3>2, <3>3, <3>4, <3>5, StaysSafe
  <2>9. \A k \in Direct : ~Waits(k)' => nvs'.direct[k] = live'[k]
    BY <2>1, <2>7 DEF BInv, BindInv, AtStep
  <2> QED
    BY <2>3, <2>4, <2>5, <2>8, <2>9 DEF BInv, BindInv
<1> QED
  BY <1>2, <1>3

\* After a compaction there is room: the journal holds at most one record of
\* each stream.
LEMMA RoomAfterCompaction ==
  ASSUME TypeInv, \A r, q \in nvs.journal : r.stream = q.stream => r = q
  PROVE  ~Full
<1> DEFINE f == [r \in nvs.journal |-> r.stream]
<1>1. nvs.journal \subseteq Record /\ IsFiniteSet(nvs.journal)
  BY DEF TypeInv, TypeOK
<1>2. IsFiniteSet(Stream) /\ Capacity \in Nat /\ Capacity > Cardinality(Stream)
  BY PersistAssumption, FS_Subset DEF Key
<1>3. f \in [nvs.journal -> Stream]
  BY <1>1 DEF Record
<1>4. \A r, q \in nvs.journal : f[r] = f[q] => r = q
  OBVIOUS
<1> HIDE DEF f
<1>5. f \in Injection(nvs.journal, Stream)
  BY <1>3, <1>4 DEF Injection, IsInjective
<1>6. Cardinality(nvs.journal) <= Cardinality(Stream)
  BY <1>2, <1>5, FS_Injection
<1>7. Cardinality(nvs.journal) \in Nat /\ Cardinality(Stream) \in Nat
  BY <1>1, <1>2, FS_CardinalityType
<1> QED
  BY <1>2, <1>6, <1>7 DEF Full

\* The second try of avb_persist_append_stream_record.
LEMMA BindingRetry ==
  ASSUME TypeInv, BInv, NEW h, AtStep(h), RetryStep(h) PROVE BInv'
<1>1. /\ h.op = "retry" /\ h \in Keyed /\ h.key \in Stream /\ seq' = seq + 1
      /\ UNCHANGED taskVars /\ Left' = Rest
      /\ ~Full => Put(h.key, seq + 1, live[h.key])
  BY DEF RetryStep
<1>2. ~Has("erase") /\ ~Has("compact") /\ Has("retry")
  BY <1>1 DEF Has, AtStep, Follows
<1>3. ~Full
  BY <1>2, RoomAfterCompaction DEF BInv, CompactInv
<1> QED
  BY <1>1, <1>3, WritesChange

\* avb_persist_compact_stream_journal: what it keeps of a stream is what is
\* bound, for the newest record is the only one with its number.
LEMMA BindingCompact ==
  ASSUME TypeInv, BInv, NEW h, AtStep(h), CompactStep(h) PROVE BInv'
<1> DEFINE e == [op |-> "erase"]
           w(r) == [op |-> "keep", record |-> r]
<1>1. /\ h.op = "compact" /\ UNCHANGED <<nvs, seq, taskVars>>
      /\ Left' = {e} \cup {w(r) : r \in Newests} \cup Rest
  BY RewritesType DEF CompactStep
<1>2. /\ Newests \subseteq nvs.journal /\ nvs.journal \subseteq Record
  BY NewestsFit DEF TypeInv, Nvs
<1>3. /\ e.op = "erase" /\ e \notin Keyed /\ e \notin Kept
      /\ \A r \in Newests : /\ w(r).op = "keep" /\ w(r).record = r
                            /\ w(r) \in Kept /\ w(r) \notin Keyed
  BY <1>2 DEF Keyed, Kept
<1> HIDE DEF e, w
<1>4. /\ \A b \in Rest : b.op \notin {"gather", "compact", "erase", "keep"}
      /\ h \notin Keyed /\ h \notin Kept
  BY <1>1 DEF AtStep, Follows, Keyed, Kept
<1>5. ~Has("erase") /\ ~Has("keep")
  BY <1>1, <1>4 DEF Has, AtStep
<1>6. \A s \in Stream : ~IsKept(s)
  BY <1>5 DEF IsKept, Has, Kept
<1>7. BootInv'
  BY <1>1, <1>3, NoBlob DEF BInv, BootInv, Has
<1>8. JournalInv' /\ CompactInv'
  BY <1>1, <1>3 DEF BInv, JournalInv, CompactInv, Has, AtStep
<1>9. \A k : ~Waits(k)' => ~Waits(k)
  BY <1>1, <1>4 DEF Waits, AtStep
<1>10. \A s \in Stream : Latest(s)' = Latest(s)
  BY <1>1 DEF Latest
<1>11. ASSUME NEW s \in Stream, ~Waits(s)' PROVE Safe(s)'
  <2>1. Safe(s) /\ live'[s] = live[s]
    BY <1>9, <1>11 DEF BInv, BindInv, AtStep
  <2>2. CASE Latest(s) = {}
    <3>1. \A r \in Newests : r.stream # s
      BY <1>2, <2>2 DEF Latest
    <3>2. ~IsKept(s)'
      BY <1>1, <1>3, <1>4, <3>1 DEF IsKept, Kept
    <3>3. InSnapshots(s)
      BY <1>6, <2>1, <2>2 DEF Safe, IsKept
    <3>4. InSnapshots(s)'
      BY <1>1, <2>1, <3>3 DEF InSnapshots, taskVars
    <3> QED
      BY <1>10, <2>2, <3>2, <3>4 DEF Safe
  <2>3. CASE Latest(s) # {}
    <3>1. PICK r \in Latest(s) : /\ r.value = live[s]
                                 /\ \A q \in Latest(s) : q.seq <= r.seq
      BY <1>6, <2>1, <2>3 DEF Safe, IsKept
    <3>2. PICK n \in Newests : /\ n.stream = s /\ n \in Latest(s)
                               /\ \A q \in Latest(s) : q.seq <= n.seq
      BY <2>3, NewestsFit
    <3>3. /\ r \in nvs.journal /\ n \in nvs.journal /\ r.stream = n.stream
          /\ r.seq \in Nat /\ n.seq \in Nat /\ r.seq <= n.seq /\ n.seq <= r.seq
      BY <1>2, <3>1, <3>2 DEF Latest, Record
    <3>4. r.seq = n.seq
      BY <3>3
    <3>5. r = n
      BY <3>3, <3>4 DEF BInv, JournalInv
    <3>6. w(n) \in Left' /\ w(n) \in Kept /\ w(n).record = n
      BY <1>1, <1>3
    <3>7. n.value = live'[s]
      BY <2>1, <3>1, <3>5
    <3> QED
      BY <3>2, <3>6, <3>7 DEF Safe
  <2> QED
    BY <2>2, <2>3
<1>12. \A k \in Direct : ~Waits(k)' => nvs'.direct[k] = live'[k]
  BY <1>1, <1>9 DEF BInv, BindInv, AtStep
<1> QED
  BY <1>7, <1>8, <1>11, <1>12 DEF BInv, BindInv

\* The erasing of a compaction: until it is over no binding counts on a record.
LEMMA BindingErase ==
  ASSUME TypeInv, BInv, NEW h, AtStep(h), EraseStep(h) PROVE BInv'
<1>1. h.op = "erase" /\ UNCHANGED taskVars /\ h \notin Kept /\ h \notin Keyed
  BY DEF EraseStep, Kept, Keyed
<1>2. Has("erase") /\ ~Has("blob") /\ nvs.usable
  BY <1>1, NoBlob DEF Has, AtStep
<1>3. /\ nvs'.blob = nvs.blob /\ nvs'.usable = nvs.usable
      /\ nvs'.direct = nvs.direct /\ nvs'.journal \subseteq nvs.journal
      /\ Left' = Rest \/ Left' = Left
      /\ \/ nvs'.journal = {} /\ nvs.journal = {} /\ Left' = Rest
         \/ Left' = Left /\ seq' = seq
  BY EraseType DEF EraseStep
<1>4. BootInv'
  BY <1>2, <1>3 DEF BootInv, AtStep, Has
<1>5. JournalInv'
  BY <1>3 DEF BInv, JournalInv, AtStep
<1>6. CompactInv'
  <2>1. CASE Left' = Left
    BY <1>2, <2>1 DEF CompactInv, Has
  <2>2. CASE nvs'.journal = {}
    BY <2>2 DEF CompactInv, Latest
  <2> QED
    BY <1>3, <2>1, <2>2
<1>7. \A k : ~Waits(k)' => ~Waits(k)
  BY <1>1, <1>3 DEF Waits, AtStep
<1>8. \A step \in Kept : step \in Left' <=> step \in Left
  BY <1>1, <1>3 DEF AtStep
<1>9. ASSUME NEW s \in Stream, ~Waits(s)' PROVE Safe(s)'
  <2>1. Safe(s) /\ live'[s] = live[s]
    BY <1>7, <1>9 DEF BInv, BindInv, AtStep
  <2>2. IsKept(s)' <=> IsKept(s)
    BY <1>8 DEF IsKept
  <2>3. Latest(s) = {} => Latest(s)' = {}
    BY <1>3 DEF Latest
  <2>4. InSnapshots(s) => InSnapshots(s)'
    BY <1>1, <1>3, <2>1 DEF InSnapshots, taskVars
  <2> QED
    BY <1>2, <1>8, <2>1, <2>2, <2>3, <2>4 DEF Safe
<1>10. \A k \in Direct : ~Waits(k)' => nvs'.direct[k] = live'[k]
  BY <1>3, <1>7 DEF BInv, BindInv, AtStep
<1> QED
  BY <1>4, <1>5, <1>6, <1>9, <1>10 DEF BInv, BindInv

\* A record that compaction writes again.
LEMMA BindingKeep ==
  ASSUME TypeInv, BInv, NEW h, AtStep(h), KeepStep(h) PROVE BInv'
<1> DEFINE s0 == h.record.stream
<1>1. /\ h.op = "keep" /\ h \in Kept /\ seq' = seq + 1 /\ Left' = Rest
      /\ UNCHANGED taskVars /\ s0 \in Stream /\ h.record.value \in Binding
      /\ Put(s0, seq + 1, h.record.value) /\ on /\ on' = on
  BY DEF KeepStep, Record, AtStep
<1> HIDE DEF s0
<1>2. PICK n \in Latest(s0)' : /\ n.value = h.record.value /\ n.stream = s0
                               /\ \A q \in Latest(s0)' : q.seq <= n.seq
                               /\ nvs'.journal = nvs.journal \cup {n}
  BY <1>1, PutsNewest
<1>3. /\ JournalInv' /\ nvs'.blob = nvs.blob /\ nvs'.usable = nvs.usable
      /\ nvs'.direct = nvs.direct
      /\ \A t \in Stream \ {s0} : Latest(t)' = Latest(t)
  BY <1>1, PutsNewest
<1>4. \A b \in Left' : /\ b.op \notin {"gather", "compact", "erase"}
                       /\ b.op = "keep" => b.record.stream # s0
  BY <1>1 DEF AtStep, Follows, s0
<1>5. ~Has("erase") /\ ~Has("compact") /\ Has("keep")
  BY <1>1, <1>4 DEF Has, AtStep
<1>6. /\ \A step \in Left : step.op = "keep" => Latest(step.record.stream) = {}
      /\ \A r, q \in nvs.journal : r.stream = q.stream => r = q
      /\ Latest(s0) = {}
  BY <1>1, <1>5 DEF BInv, CompactInv, AtStep, s0
<1>7. BootInv'
  BY <1>1, <1>3, NoBlob DEF AtStep, BInv, BootInv, Has
<1>8. CompactInv'
  <2>1. ASSUME NEW step \in Left', step.op = "keep"
        PROVE  Latest(step.record.stream)' = {}
    <3>1. step \in Left /\ step \in Step
      BY <1>1, <2>1 DEF AtStep
    <3>2. step.record.stream \in Stream \ {s0}
      BY <1>4, <2>1, <3>1 DEF Step, Plain, Keyed, Kept, RamOp, Record
    <3> QED
      BY <1>3, <1>6, <2>1, <3>1, <3>2
  <2>2. \A r \in nvs.journal : r.stream # n.stream
    BY <1>2, <1>6 DEF Latest
  <2>3. \A r, q \in nvs'.journal : r.stream = q.stream => r = q
    BY <1>2, <1>6, <2>2
  <2> QED
    BY <2>1, <2>3 DEF CompactInv
<1>9. h \notin Keyed
  BY <1>1 DEF Keyed
<1>10. \A k : ~Waits(k)' => ~Waits(k)
  BY <1>1, <1>9 DEF Waits, AtStep
<1>11. ~Has("erase")'
  BY <1>4 DEF Has
<1>12. ASSUME NEW s \in Stream, ~Waits(s)' PROVE Safe(s)'
  <2>1. Safe(s) /\ live'[s] = live[s]
    BY <1>10, <1>12 DEF BInv, BindInv, AtStep
  <2>2. CASE s = s0
    <3>1. \A step \in Rest : ~(step \in Kept /\ step.record.stream = s0)
      BY <1>1, <1>4 DEF Kept
    <3>2. IsKept(s)
      BY <1>1, <2>2 DEF IsKept, AtStep, s0
    <3>3. h.record.value = live[s]
      BY <2>1, <2>2, <3>1, <3>2 DEF Safe, AtStep
    <3>4. ~IsKept(s)'
      BY <1>1, <2>2, <3>1 DEF IsKept
    <3> QED
      BY <1>2, <1>11, <2>1, <2>2, <3>3, <3>4 DEF Safe
  <2>3. CASE s # s0
    <3>1. InSnapshots(s) => InSnapshots(s)'
      BY <1>1, <1>3, <2>1 DEF InSnapshots, taskVars
    <3>2. \A step \in Kept :
            step.record.stream = s => (step \in Left' <=> step \in Left)
      BY <1>1, <2>3 DEF AtStep, s0
    <3>3. Latest(s)' = Latest(s)
      BY <1>3, <2>3
    <3> QED
      BY <1>11, <2>1, <3>1, <3>2, <3>3, StaysSafe
  <2> QED
    BY <2>2, <2>3
<1>13. \A k \in Direct : ~Waits(k)' => nvs'.direct[k] = live'[k]
  BY <1>3, <1>10 DEF BInv, BindInv, AtStep
<1> QED
  BY <1>3, <1>7, <1>8, <1>12, <1>13 DEF BInv, BindInv

LEMMA BindingMainStep == ASSUME TypeInv, BInv, MainStep PROVE BInv'
<1> DEFINE h == Head(main)
<1>1. AtStep(h)
  BY StepEffects, FirstStep DEF AtStep
<1> QED
  BY <1>1, StepEffects, BindingRam, BindingBlob, BindingDirect, BindingAppend,
     BindingRetry, BindingCompact, BindingErase, BindingKeep

\* avb_persist_task writes what every snapshot has.
LEMMA BindingTaskStep == ASSUME TypeInv, BInv, TaskStep PROVE BInv'
<1>1. /\ UNCHANGED <<on, seq, live, main, pending>> /\ on
      /\ UNCHANGED Left /\ shared' = shared
  BY DEF TaskStep, mainVars, Left, TaskPoll, TaskClear, TaskCopy, TaskWrite
<1>2. /\ nvs'.journal = nvs.journal /\ nvs'.direct = nvs.direct
      /\ \/ nvs' = nvs /\ task'.at # "write"
         \/ nvs' = nvs /\ task' = [at |-> "write", copy |-> shared]
         \/ /\ task.at = "write" /\ nvs'.blob = task.copy /\ nvs'.usable
            /\ task'.at = "poll"
  <2>1. CASE TaskPoll \/ TaskClear
    BY <2>1 DEF TaskPoll, TaskClear, TypeInv, Task
  <2>2. CASE TaskCopy
    BY <2>2 DEF TaskCopy
  <2>3. CASE TaskWrite
    BY <2>3 DEF TaskWrite, TypeInv, Nvs
  <2> QED
    BY <2>1, <2>2, <2>3 DEF TaskStep
<1>3. BootInv'
  BY <1>1, <1>2 DEF BInv, BootInv, Has
<1>4. \A s : Latest(s)' = Latest(s)
  BY <1>2 DEF Latest
<1>5. JournalInv' /\ CompactInv'
  BY <1>1, <1>2, <1>4 DEF BInv, JournalInv, CompactInv, Has
<1>6. \A k : Waits(k)' <=> Waits(k)
  BY <1>1 DEF Waits
<1>7. ASSUME NEW s \in Stream, ~Waits(s)' PROVE Safe(s)'
  <2>1. Safe(s)
    BY <1>1, <1>6, <1>7 DEF BInv, BindInv
  <2>2. InSnapshots(s) => InSnapshots(s)'
    BY <1>1, <1>2 DEF InSnapshots
  <2>3. Has("erase")' => Has("erase")
    BY <1>1 DEF Has
  <2> QED
    BY <1>1, <1>4, <2>1, <2>2, <2>3, StaysSafe
<1>8. \A k \in Direct : ~Waits(k)' => nvs'.direct[k] = live'[k]
  BY <1>1, <1>2, <1>6 DEF BInv, BindInv
<1> QED
  BY <1>3, <1>5, <1>7, <1>8 DEF BInv, BindInv

LEMMA BindingStep ==
  ASSUME Reflashes = FALSE PROVE TypeInv /\ BInv /\ [Next]_vars => BInv'
<1> SUFFICES ASSUME TypeInv, BInv, [Next]_vars PROVE BInv'
  OBVIOUS
<1>1. CASE UNCHANGED vars \/ Elapse \/ Streaming
  <2>1. UNCHANGED <<on, nvs, seq, live, main, pending, shared, task>>
    BY <1>1 DEF vars, mainVars, taskVars, Elapse, Streaming
  <2>2. UNCHANGED Left /\ \A s : Latest(s)' = Latest(s)
    BY <2>1 DEF Left, Latest
  <2>3. /\ \A o : Has(o)' <=> Has(o)
        /\ \A k : Waits(k)' <=> Waits(k)
        /\ \A s \in Stream : Safe(s) => Safe(s)'
    BY <2>1, <2>2, StaysSafe DEF Has, Waits, InSnapshots
  <2> QED
    BY <2>1, <2>2, <2>3 DEF BInv, BootInv, JournalInv, CompactInv, BindInv
<1>2. CASE Reflash
  BY <1>2 DEF Reflash
<1> QED
  BY <1>1, <1>2, BindingBoot, BindingPowerLoss, BindingMainStep, BindingTaskStep,
     BindingCalls DEF Next, Tick

\* A compaction between the first record it erases and the last it writes.
Compacting == Has("erase") \/ Has("keep")

\* What flash gives back.
LEMMA SafeRestored ==
  ASSUME TypeInv, BInv, on, ~Compacting, NEW k \in Key, ~Waits(k)
  PROVE  Restored(k) = live[k]
<1>1. CASE k \in Direct
  BY <1>1 DEF Restored, BInv, BindInv
<1>2. CASE k \notin Direct
  <2>1. k \in Stream
    BY <1>2 DEF Key
  <2>2. Safe(k) /\ \A step \in Left : step \notin Kept
    BY <2>1 DEF BInv, BindInv, Compacting, Has, Kept
  <2>3. CASE Latest(k) = {}
    BY <1>2, <2>2, <2>3 DEF Safe, InSnapshots, Restored
  <2>4. CASE Latest(k) # {}
    <3>1. PICK r \in Latest(k) : /\ r.value = live[k]
                                 /\ \A q \in Latest(k) : q.seq <= r.seq
      BY <2>2, <2>4 DEF Safe
    <3>2. Latest(k) \in SUBSET nvs.journal /\ nvs.journal \subseteq Record
      BY DEF Latest, TypeInv, Nvs
    <3>3. /\ Newest(Latest(k)) \in Latest(k)
          /\ \A q \in Latest(k) : q.seq <= Newest(Latest(k)).seq
      BY <2>4, <3>2, NewestExists
    <3>4. /\ r.seq \in Nat /\ Newest(Latest(k)).seq \in Nat
          /\ r.seq <= Newest(Latest(k)).seq /\ Newest(Latest(k)).seq <= r.seq
      BY <3>1, <3>2, <3>3 DEF Record
    <3>5. r.seq = Newest(Latest(k)).seq
      BY <3>4
    <3>6. r = Newest(Latest(k))
      BY <3>1, <3>3, <3>5 DEF BInv, JournalInv, Latest
    <3> QED
      BY <1>2, <2>4, <3>1, <3>6 DEF Restored
  <2> QED
    BY <2>3, <2>4
<1> QED
  BY <1>1, <1>2

\* Whenever the power fails, only a compaction under way can lose a binding
\* whose record was written: at every other moment, between two calls or within
\* one, flash gives back what is bound, save what is deferred or what the call
\* has still to write.  Of a firmware that stays: another AVB_PERSIST_VERSION
\* leaves the old journal beside a new snapshot (avb_persist_load).
THEOREM OnlyCompactionLoses ==
  ASSUME Reflashes = FALSE
  PROVE  Spec => [](on /\ ~Compacting =>
                      \A k \in Key : ~Waits(k) => Restored(k) = live[k])
<1>1. TypeInv /\ BInv =>
        (on /\ ~Compacting => \A k \in Key : ~Waits(k) => Restored(k) = live[k])
  BY SafeRestored
<1>2. Init => TypeInv /\ BInv
  BY InitType, BindingInit
<1>3. TypeInv /\ BInv /\ [Next]_vars => (TypeInv /\ BInv)'
  BY TypeStep, BindingStep
<1> QED
  BY <1>1, <1>2, <1>3, PTL DEF Spec

\* Between calls flash holds every binding, rate and map that is not deferred,
\* after any power failures, full journals and compactions, of a firmware that
\* stays (avb_persist_append_stream_record, avb_persist_replay_stream_journal).
THEOREM BindingsReturn ==
  ASSUME Reflashes = FALSE
  PROVE  Spec => []BindingRestored
<1>1. (on /\ ~Compacting => \A k \in Key : ~Waits(k) => Restored(k) = live[k])
        => BindingRestored
  <2> SUFFICES ASSUME on /\ ~Compacting =>
                        \A k \in Key : ~Waits(k) => Restored(k) = live[k],
                      Idle, NEW k \in Key \ pending
               PROVE  Restored(k) = live[k]
    BY DEF BindingRestored
  <2>1. on /\ ~Compacting /\ ~Waits(k)
    BY IdleLeft DEF Compacting, Waits
  <2> QED
    BY <2>1
<1> QED
  BY <1>1, OnlyCompactionLoses, PTL

(***************************************************************************)
(* The rate and the input map, whatever firmware comes.                    *)
(***************************************************************************)
DirectInv == on => \A k \in Direct : ~Waits(k) => nvs.direct[k] = live[k]

\* A step after which the same keys wait to be written.
LEMMA DirectStays ==
  ASSUME DirectInv, on, \A k \in Direct : ~Waits(k)' => ~Waits(k),
         nvs'.direct = nvs.direct, live' = live
  PROVE  DirectInv'
BY DEF DirectInv

LEMMA DirectMainStep == ASSUME TypeInv, DirectInv, MainStep PROVE DirectInv'
<1> DEFINE h == Head(main)
<1>1. AtStep(h)
  BY StepEffects, FirstStep DEF AtStep
<1>2. \/ RamStep(h) \/ AppendStep(h) \/ RetryStep(h) \/ CompactStep(h)
      \/ EraseStep(h) \/ KeepStep(h) \/ DirectStep(h) \/ BlobStep(h)
  BY StepEffects
<1> HIDE DEF h
<1>3. CASE DirectStep(h)
  <2>1. /\ Left' = Rest /\ h.key \in Direct
        /\ nvs'.direct = [nvs.direct EXCEPT ![h.key] = live[h.key]]
        /\ nvs.direct \in [Direct -> Binding]
    BY <1>3 DEF DirectStep, TypeInv, Nvs
  <2>2. ASSUME NEW k \in Direct, ~Waits(k)' PROVE nvs'.direct[k] = live'[k]
    <3>1. CASE k = h.key
      BY <1>1, <2>1, <3>1 DEF AtStep
    <3>2. CASE k # h.key
      <4>1. ~Waits(k)
        BY <1>1, <2>1, <2>2, <3>2 DEF Waits, AtStep
      <4> QED
        BY <1>1, <2>1, <3>2, <4>1 DEF DirectInv, AtStep
    <3> QED
      BY <3>1, <3>2
  <2> QED
    BY <2>2 DEF DirectInv
<1>4. ASSUME h.op # "direct", Left' = Rest \/ Left' = Left \/ Rest \subseteq Left',
             nvs'.direct = nvs.direct
      PROVE  DirectInv'
  <2>1. ASSUME NEW k \in Direct, ~Waits(k)' PROVE ~Waits(k)
    <3>1. k \notin Stream
      BY PersistAssumption
    <3>2. ~(h \in Keyed /\ h.key = k)
      BY <1>4, <3>1 DEF Keyed
    <3> QED
      BY <1>1, <1>4, <2>1, <3>2 DEF Waits, AtStep
  <2> QED
    BY <1>1, <1>4, <2>1, DirectStays DEF AtStep
<1>5. CASE RamStep(h) \/ CompactStep(h)
  BY <1>4, <1>5 DEF RamStep, CompactStep, RamOp
<1>6. CASE AppendStep(h) \/ RetryStep(h)
  <2>1. /\ h.key \in Stream /\ live[h.key] \in Binding /\ seq + 1 \in Nat
        /\ h.op # "direct"
        /\ Left' = Rest \/ Rest \subseteq Left'
        /\ nvs' = nvs \/ Put(h.key, seq + 1, live[h.key])
    BY <1>6 DEF AppendStep, RetryStep, TypeInv, TypeOK, Key
  <2>2. nvs'.direct = nvs.direct
    BY <2>1, PutType
  <2> QED
    BY <1>4, <2>1, <2>2
<1>7. CASE EraseStep(h)
  <2>1. nvs'.direct = nvs.direct
    BY <1>7, EraseType DEF EraseStep
  <2> QED
    BY <1>4, <1>7, <2>1 DEF EraseStep
<1>8. CASE KeepStep(h)
  <2>1. /\ h.record.stream \in Stream /\ h.record.value \in Binding /\ seq + 1 \in Nat
        /\ Put(h.record.stream, seq + 1, h.record.value) /\ h.op = "keep"
        /\ Left' = Rest
    BY <1>8 DEF KeepStep, Record, TypeInv, TypeOK
  <2>2. nvs'.direct = nvs.direct
    BY <2>1, PutType
  <2> QED
    BY <1>4, <2>1, <2>2
<1>9. CASE BlobStep(h)
  <2>1. nvs'.direct = nvs.direct
    BY <1>9 DEF BlobStep, TypeInv, Nvs
  <2> QED
    BY <1>4, <1>9, <2>1 DEF BlobStep
<1> QED
  BY <1>2, <1>3, <1>5, <1>6, <1>7, <1>8, <1>9

LEMMA DirectCalls ==
  ASSUME TypeInv, DirectInv, Idle, UNCHANGED <<on, nvs>>,
         \A k \in Key : ~Waits(k)' => ~Waits(k) /\ live'[k] = live[k]
  PROVE  DirectInv'
BY DEF DirectInv, Key

LEMMA DirectInvStep == TypeInv /\ DirectInv /\ [Next]_vars => DirectInv'
<1> SUFFICES ASSUME TypeInv, DirectInv, [Next]_vars PROVE DirectInv'
  OBVIOUS
<1>1. CASE UNCHANGED vars \/ Elapse \/ Streaming
  <2>1. UNCHANGED <<on, nvs, live, main, pending>>
    BY <1>1 DEF vars, mainVars, taskVars, Elapse, Streaming
  <2> QED
    BY <2>1 DEF DirectInv, Waits, Left
<1>2. CASE Reflash \/ PowerLoss
  BY <1>2 DEF Reflash, PowerLoss, DirectInv
<1>3. CASE Boot
  <2>1. nvs' = nvs /\ \A k \in Direct : live'[k] = nvs.direct[k]
    BY <1>3 DEF Boot, Restored, Key
  <2> QED
    BY <2>1 DEF DirectInv
<1>4. CASE TaskStep
  <2>1. UNCHANGED <<on, live, main, pending>>
    BY <1>4 DEF TaskStep, mainVars
  <2>2. nvs'.direct = nvs.direct
    BY <1>4 DEF TaskStep, TaskPoll, TaskClear, TaskCopy, TaskWrite, TypeInv, Nvs
  <2> QED
    BY <2>1, <2>2 DEF DirectInv, Waits, Left
<1>5. ASSUME NEW k \in Key, NEW v \in Binding, NEW q \in BOOLEAN, Bind(k, v, q)
      PROVE  DirectInv'
  BY <1>5, BindWaits, DirectCalls
<1>6. ASSUME NEW q \in BOOLEAN, JournalTick(q) PROVE DirectInv'
  BY <1>6, TickWaits, DirectCalls
<1>7. ASSUME NEW c \in Conf, NEW eager \in BOOLEAN, Configure(c, eager)
      PROVE  DirectInv'
  BY <1>7, ConfigureWaits, DirectCalls
<1> QED
  BY <1>1, <1>2, <1>3, <1>4, <1>5, <1>6, <1>7, DirectMainStep DEF Next, Tick

\* The rate and the input map come back from the keys of their own between any
\* two calls, after power failures and even when the firmware is replaced by
\* one that cannot read the snapshot (avb_persist_load_rate, _load_input_map).
THEOREM DirectReturns ==
  Spec => [](Idle => \A k \in Direct \ pending : Restored(k) = live[k])
<1>1. DirectInv => (Idle => \A k \in Direct \ pending : Restored(k) = live[k])
  <2> SUFFICES ASSUME DirectInv, Idle, NEW k \in Direct \ pending
               PROVE  Restored(k) = live[k]
    OBVIOUS
  <2> QED
    BY IdleLeft DEF DirectInv, Waits, Restored
<1>2. Init => TypeInv /\ DirectInv
  BY InitType DEF Init, DirectInv
<1>3. TypeInv /\ DirectInv /\ [Next]_vars => (TypeInv /\ DirectInv)'
  BY TypeStep, DirectInvStep
<1> QED
  BY <1>1, <1>2, <1>3, PTL DEF Spec
=============================================================================
