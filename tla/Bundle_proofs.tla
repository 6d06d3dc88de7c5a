--------------------------- MODULE Bundle_proofs ---------------------------
(***************************************************************************)
(* What TLAPS proves of Bundle: that the receiver's hold and the sender's  *)
(* buffers stay in their bounds and the hold is empty exactly when no time *)
(* runs, that a station never waits behind a gap past its time, that a     *)
(* bundle splits into the frames put into it, and that with nothing lost   *)
(* nothing is played that a stopped stream left behind.                    *)
(***************************************************************************)
EXTENDS Bundle, FiniteSetTheorems, SequenceTheorems, WellFoundedInduction, TLAPS

-----------------------------------------------------------------------------
(* FlattenSeq.  Its recursion has a solution, found along its length; the    *)
(* minimal-element theorem takes the place of induction.                     *)

FlatStep(q, g, i) == IF i = 1 THEN q[i] ELSE g[i - 1] \o q[i]

Flat(q) == CHOOSE g : g = [i \in 1..Len(q) |-> FlatStep(q, g, i)]

LEMMA FlattenIsFlat ==
  \A q : FlattenSeq(q) = IF Len(q) = 0 THEN q ELSE Flat(q)[Len(q)]
BY Zenon DEF FlattenSeq, Flat, FlatStep

\* A set of numbers has a least one.
LEMMA LeastOf ==
  ASSUME NEW T \in SUBSET Nat, T # {}
  PROVE  \E n \in T : \A m \in T : n <= m
<1> DEFINE R == OpToRel(<, Nat)
<1>1. IsWellFoundedOn(R, Nat)
  BY NatLessThanWellFounded
<1>2. R = {ss \in Nat \X Nat : ss[1] < ss[2]}
  BY DEF OpToRel
<1> HIDE DEF R
<1>3. PICK n \in T : \A m \in T : ~(<<m, n>> \in R)
  BY <1>1, WFMin
<1>4. ASSUME NEW m \in T PROVE n <= m
  <2>1. ~(m < n)
    BY <1>2, <1>3
  <2> QED
    BY <2>1
<1> QED
  BY <1>4

LEMMA FlatExists ==
  ASSUME NEW q, NEW l \in Nat
  PROVE  \E g : g = [i \in 1..l |-> FlatStep(q, g, i)]
<1> DEFINE Solved(n) == \E g : g = [i \in 1..n |-> FlatStep(q, g, i)]
           Bad == {n \in Nat : ~Solved(n)}
<1>1. Solved(0)
  <2> DEFINE g == [i \in 1..0 |-> 0]
  <2>1. g = [i \in 1..0 |-> FlatStep(q, g, i)]
    OBVIOUS
  <2> HIDE DEF g
  <2> QED
    BY <2>1
<1>2. ASSUME NEW n \in Nat, Solved(n) PROVE Solved(n + 1)
  <2>1. PICK g : g = [i \in 1..n |-> FlatStep(q, g, i)]
    BY <1>2
  <2> DEFINE k == [i \in 1..(n + 1) |-> IF i \in 1..n THEN g[i] ELSE FlatStep(q, g, i)]
  <2>2. ASSUME NEW i \in 1..(n + 1) PROVE k[i] = FlatStep(q, k, i)
    <3>1. k[i] = FlatStep(q, g, i)
      <4>1. CASE i \in 1..n
        <5>1. g[i] = FlatStep(q, g, i)
          BY <2>1, <4>1
        <5> QED
          BY <4>1, <5>1
      <4>2. CASE i \notin 1..n
        BY <4>2
      <4> QED
        BY <4>1, <4>2
    <3>2. CASE i = 1
      BY <3>1, <3>2 DEF FlatStep
    <3>3. CASE i # 1
      <4>1. i - 1 \in 1..n /\ i - 1 \in 1..(n + 1)
        BY <3>3
      <4>2. k[i - 1] = g[i - 1]
        BY <4>1
      <4> HIDE DEF k
      <4> QED
        BY <3>1, <3>3, <4>2 DEF FlatStep
    <3> QED
      BY <3>2, <3>3
  <2>3. k = [i \in 1..(n + 1) |-> FlatStep(q, k, i)]
    <3>1. k = [i \in 1..(n + 1) |-> k[i]]
      OBVIOUS
    <3> HIDE DEF k
    <3> QED
      BY <2>2, <3>1
  <2> HIDE DEF k
  <2> QED
    BY <2>3
<1> HIDE DEF Solved
<1>3. Bad = {}
  <2> SUFFICES ASSUME Bad # {} PROVE FALSE
    OBVIOUS
  <2>1. PICK n \in Bad : \A m \in Bad : n <= m
    BY LeastOf
  <2>2. n \in Nat /\ n # 0
    BY <1>1
  <2>3. n - 1 \in Nat /\ n - 1 \notin Bad
    BY <2>1, <2>2
  <2>4. Solved((n - 1) + 1)
    BY <1>2, <2>3
  <2> QED
    BY <2>2, <2>4
<1> QED
  BY <1>3 DEF Solved

\* Sequences over a set, put end to end.
LEMMA FlattenType ==
  ASSUME NEW X, NEW q \in Seq(Seq(X))
  PROVE  FlattenSeq(q) \in Seq(X)
<1> DEFINE g == Flat(q)
           Bad == {n \in Nat : n \in 1..Len(q) /\ g[n] \notin Seq(X)}
<1>1. Len(q) \in Nat /\ \A i \in 1..Len(q) : q[i] \in Seq(X)
  BY LenProperties, ElementOfSeq
<1>2. \A i \in 1..Len(q) : g[i] = FlatStep(q, g, i)
  <2>1. g = [i \in 1..Len(q) |-> FlatStep(q, g, i)]
    BY <1>1, FlatExists DEF Flat
  <2> HIDE DEF g
  <2> QED
    BY <2>1
<1> HIDE DEF g
<1>3. Bad = {}
  <2> SUFFICES ASSUME Bad # {} PROVE FALSE
    OBVIOUS
  <2>1. PICK n \in Bad : \A m \in Bad : n <= m
    BY LeastOf
  <2>2. n \in 1..Len(q) /\ q[n] \in Seq(X) /\ g[n] = FlatStep(q, g, n) /\ g[n] \notin Seq(X)
    BY <1>1, <1>2
  <2>3. n # 1
    BY <2>2 DEF FlatStep
  <2>4. n - 1 \in 1..Len(q) /\ n - 1 \in Nat /\ ~(n <= n - 1)
    BY <1>1, <2>2, <2>3
  <2>5. g[n - 1] \in Seq(X)
    BY <2>1, <2>4
  <2>6. g[n - 1] \o q[n] \in Seq(X)
    BY <2>2, <2>5, ConcatProperties
  <2> QED
    BY <2>2, <2>3, <2>6 DEF FlatStep
<1>4. CASE Len(q) = 0
  <2>1. FlattenSeq(q) = q /\ q = <<>>
    BY <1>4, FlattenIsFlat, EmptySeq
  <2> QED
    BY <2>1
<1>5. CASE Len(q) # 0
  <2>1. FlattenSeq(q) = g[Len(q)]
    BY <1>5, FlattenIsFlat DEF g
  <2>2. Len(q) \in 1..Len(q)
    BY <1>1, <1>5
  <2> QED
    BY <1>1, <1>3, <2>1, <2>2
<1> QED
  BY <1>4, <1>5

\* A finite set, one element after another.
LEMMA SetToSeqType ==
  ASSUME NEW S, IsFiniteSet(S)
  PROVE  SetToSeq(S) \in Seq(S)
<1> DEFINE n == Cardinality(S)
<1>1. n \in Nat /\ \E f : f \in Bijection(1..n, S)
  BY FS_CardinalityType DEF ExistsBijection
<1>2. PICK f : f \in [1..n -> S] /\ IsInjective(f)
  BY <1>1 DEF Bijection, Injection, IsInjective
<1>3. SetToSeq(S) \in [1..n -> S]
  BY <1>2 DEF SetToSeq
<1> QED
  BY <1>1, <1>3, SeqDef

-----------------------------------------------------------------------------
(* The bundle numbers.                                                       *)

Number == 0..(Word - 1)

LEMMA WordType ==
  /\ Word \in Nat /\ Word > 2 /\ Window \in Nat
  /\ HoldMax \in Nat /\ HoldMax > 0 /\ 2 * HoldMax < Word
<1>1. Word \in Nat /\ Window \in Nat /\ 2 * Window < Word /\ HoldMax \in 1..Window
  BY BundleAssumption
<1> QED
  BY <1>1

LEMMA LaterType ==
  ASSUME NEW s \in Int, NEW n \in Int
  PROVE  Later(s, n) \in Number
BY WordType DEF Later, Number

LEMMA AheadType ==
  ASSUME NEW s \in Int, NEW e \in Int
  PROVE  Ahead(s, e) \in Int /\ Ahead(s, e) > -Word /\ Ahead(s, e) < Word
<1>1. (s - e) % Word \in 0..(Word - 1)
  BY WordType
<1> QED
  BY <1>1, WordType DEF Ahead, Signed

LEMMA AheadSame ==
  ASSUME NEW s \in Number
  PROVE  Ahead(s, s) = 0
<1>1. (s - s) % Word = 0
  BY WordType DEF Number
<1> QED
  BY <1>1, WordType DEF Ahead, Signed

\* The remainder of what is less than two words.
LEMMA OneWrap ==
  ASSUME NEW x \in 0..(2 * Word - 1)
  PROVE  x % Word = IF x < Word THEN x ELSE x - Word
BY WordType

LEMMA LaterIs ==
  ASSUME NEW s \in Number, NEW n \in 0..Word
  PROVE  Later(s, n) = IF s + n < Word THEN s + n ELSE s + n - Word
<1> DEFINE x == s + n
<1>1. x \in 0..(2 * Word - 1)
  BY WordType DEF Number
<1> HIDE DEF x
<1>2. x % Word = IF x < Word THEN x ELSE x - Word
  BY <1>1, OneWrap
<1>3. Later(s, n) = x % Word
  BY DEF Later, x
<1>4. Later(s, n) = IF x < Word THEN x ELSE x - Word
  BY <1>2, <1>3
<1>5. s \in Int /\ n \in Int /\ Word \in Int
  BY WordType DEF Number
<1> QED
  BY <1>4, <1>5 DEF x

LEMMA LaterNone == ASSUME NEW s \in Number PROVE Later(s, 0) = s
BY LaterIs, WordType DEF Number

LEMMA LaterTwice == ASSUME NEW s \in Number PROVE Later(Later(s, 1), 1) = Later(s, 2)
<1>1. Later(s, 1) \in Number
  BY LaterType DEF Number
<1>2. /\ Later(s, 1) = IF s + 1 < Word THEN s + 1 ELSE s + 1 - Word
      /\ Later(s, 2) = IF s + 2 < Word THEN s + 2 ELSE s + 2 - Word
      /\ Later(Later(s, 1), 1) = IF Later(s, 1) + 1 < Word THEN Later(s, 1) + 1
                                 ELSE Later(s, 1) + 1 - Word
  BY <1>1, LaterIs, WordType
<1> QED
  BY <1>2, WordType DEF Number

\* The numbers of less than a word of bundles are all different.
LEMMA LaterDiffer ==
  ASSUME NEW s \in Number, NEW i \in 0..(Word - 1), NEW j \in 0..(Word - 1),
         Later(s, i) = Later(s, j)
  PROVE  i = j
<1>1. /\ Later(s, i) = IF s + i < Word THEN s + i ELSE s + i - Word
      /\ Later(s, j) = IF s + j < Word THEN s + j ELSE s + j - Word
  BY LaterIs, WordType
<1> HIDE DEF Number
<1>2. s \in Int /\ s >= 0 /\ s < Word
  BY WordType DEF Number
<1>3. i \in Int /\ j \in Int /\ 0 <= i /\ i < Word /\ 0 <= j /\ j < Word /\ Word \in Int
  BY WordType
<1>4. (IF s + i < Word THEN s + i ELSE s + i - Word)
        = IF s + j < Word THEN s + j ELSE s + j - Word
  BY <1>1
<1> QED
  BY <1>2, <1>3, <1>4

-----------------------------------------------------------------------------
(* The receiver.                                                             *)

HeldBundle == [seq : Number, frames : Seq(Frame)]

Nack == [first : Int, count : Nat, budget : Int, age : Nat]

Entries ==
  [seeded : BOOLEAN, expected : Number, next : Number, held : SUBSET HeldBundle,
   deadline : Int, granted : Int, nacked : Int]

\* A time runs exactly while something is held, and not below low.
Waits(r, low) == IF r.held = {} THEN r.deadline = None ELSE r.deadline >= low

Fits(r) == IsFiniteSet(r.held) /\ Cardinality(r.held) <= HoldMax

EntryOK(r, low) == r \in Entries /\ Fits(r) /\ Waits(r, low)

\* The numbers of what is held are no more than what is held.
LEMMA SeqsBound ==
  ASSUME NEW H, IsFiniteSet(H)
  PROVE  /\ IsFiniteSet(Seqs(H)) /\ Cardinality(Seqs(H)) <= Cardinality(H)
         /\ Cardinality(H) \in Nat /\ Cardinality(Seqs(H)) \in Nat
<1> DEFINE f == [x \in H |-> x.seq]
<1>1. f \in Surjection(H, Seqs(H))
  BY DEF Surjection, Seqs
<1>2. IsFiniteSet(Seqs(H)) /\ Cardinality(Seqs(H)) <= Cardinality(H)
  BY <1>1, FS_Surjection DEF ExistsSurjection
<1> QED
  BY <1>2, FS_CardinalityType

\* The run from a number: somewhere among what is held and one more a number
\* is missing, because the numbers of so few bundles are all different.
LEMMA RunExists ==
  ASSUME NEW H \in SUBSET HeldBundle, IsFiniteSet(H), Cardinality(H) <= HoldMax,
         NEW e \in Number
  PROVE  /\ Run(H, e) \in 0..Cardinality(H)
         /\ \A k \in 0..(Run(H, e) - 1) : Later(e, k) \in Seqs(H)
         /\ Later(e, Run(H, e)) \notin Seqs(H)
<1> DEFINE c == Cardinality(H)
           T == {n \in 0..c : Later(e, n) \notin Seqs(H)}
<1>1. /\ IsFiniteSet(Seqs(H)) /\ Cardinality(Seqs(H)) <= c /\ c \in Nat
      /\ Cardinality(Seqs(H)) \in Nat
  BY SeqsBound
<1>2. c < Word - 1
  BY <1>1, WordType
<1>3. T # {}
  <2> SUFFICES ASSUME T = {} PROVE FALSE
    OBVIOUS
  <2> DEFINE f == [n \in 0..c |-> Later(e, n)]
  <2>1. f \in [0..c -> Seqs(H)]
    OBVIOUS
  <2>2. \A i, j \in 0..c : Later(e, i) = Later(e, j) => i = j
    <3> TAKE i, j \in 0..c
    <3>1. i \in 0..(Word - 1) /\ j \in 0..(Word - 1)
      BY <1>1, <1>2, WordType
    <3> QED
      BY <3>1, LaterDiffer
  <2>3. f \in Injection(0..c, Seqs(H))
    BY <2>1, <2>2 DEF Injection, IsInjective
  <2>4. Cardinality(0..c) <= Cardinality(Seqs(H))
    BY <1>1, <2>3, FS_Injection DEF ExistsInjection
  <2>5. Cardinality(0..c) = c + 1
    BY <1>1, FS_Interval
  <2> QED
    BY <1>1, <2>4, <2>5
<1>4. PICK n \in T : \A m \in T : n <= m
  <2>1. T \in SUBSET Nat
    BY <1>1
  <2> HIDE DEF T
  <2> QED
    BY <1>3, <2>1, LeastOf
<1>5. \A k \in 0..(n - 1) : Later(e, k) \in Seqs(H)
  BY <1>1, <1>4
<1> QED
  BY <1>4, <1>5 DEF Run

LEMMA LowestExists ==
  ASSUME NEW r \in Entries, r.held # {}
  PROVE  Lowest(r) \in Number /\ Lowest(r) \in Seqs(r.held)
<1> DEFINE d(x) == Ahead(x.seq, r.expected)
           T == {d(x) + Word : x \in r.held}
<1>1. \A x \in r.held : x.seq \in Number /\ d(x) \in Int /\ d(x) + Word \in Nat
  <2> TAKE x \in r.held
  <2>1. x.seq \in Number /\ x.seq \in Int /\ r.expected \in Int
    BY WordType DEF Entries, HeldBundle, Number
  <2>2. d(x) \in Int /\ d(x) > -Word
    BY <2>1, AheadType
  <2> QED
    BY <2>1, <2>2, WordType
<1> HIDE DEF d
<1>2. PICK n \in T : \A m \in T : n <= m
  BY <1>1, LeastOf
<1>3. PICK x \in r.held : n = d(x) + Word
  BY <1>2
<1>4. \A y \in r.held : d(x) <= d(y)
  <2> TAKE y \in r.held
  <2>1. d(x) + Word <= d(y) + Word
    BY <1>2, <1>3
  <2> QED
    BY <1>1, <2>1, WordType
<1>5. \E z \in r.held : \A y \in r.held : d(z) <= d(y)
  BY <1>4
<1> DEFINE z == CHOOSE z \in r.held : \A y \in r.held : d(z) <= d(y)
<1>6. z \in r.held
  BY <1>5
<1>7. Lowest(r) = z.seq
  BY DEF Lowest, d
<1> HIDE DEF z
<1> QED
  BY <1>1, <1>6, <1>7 DEF Seqs

\* What a call leaves: a well-formed entry and a NACK or none.
ResultOK(v, low) ==
  /\ v = [rx |-> v.rx, out |-> v.out, nack |-> v.nack, gave |-> v.gave]
  /\ EntryOK(v.rx, low) /\ v.nack \in Seq(Nack)

\* The least a running time can be.
Low(low) == low \in Int /\ low <= 0 /\ None < low

LEMMA NoneType == None \in Int /\ None < -1
<1>1. StaleTime \in Nat
  BY Zenon, BundleAssumption
<1> QED
  BY <1>1 DEF None

LEMMA HoldTimeType == \A h \in HoldTime : h \in Int /\ h > 0
<1>1. \A h \in HoldTime : h \in Nat \ {0}
  BY Zenon, BundleAssumption
<1> QED
  BY <1>1

LEMMA NumberInt == \A x \in Number : x \in Int
BY WordType DEF Number

LEMMA AdvanceOK ==
  ASSUME NEW r \in Entries, Fits(r), NEW e \in Number, NEW h \in HoldTime,
         NEW low, Low(low)
  PROVE  LET v == Advance(r, e, h) IN
         /\ ResultOK(v, low)
         /\ Cardinality(v.rx.held) <= Cardinality(r.held)
         /\ e \in Seqs(r.held) => Cardinality(v.rx.held) < Cardinality(r.held)
<1> DEFINE n == Run(r.held, e)
           rest == {x \in r.held : ~\E k \in 0..(n - 1) : x.seq = Later(e, k)}
           wait == IF rest = {} THEN None ELSE h
           q == [r EXCEPT !.expected = Later(e, n), !.held = rest, !.deadline = wait,
                          !.granted = h]
           v == Advance(r, e, h)
<1>1. r.held \in SUBSET HeldBundle /\ IsFiniteSet(r.held) /\ Cardinality(r.held) <= HoldMax
  BY DEF Fits, Entries
<1>2. /\ n \in 0..Cardinality(r.held) /\ Cardinality(r.held) \in Nat
      /\ Later(e, n) \notin Seqs(r.held)
  BY <1>1, RunExists, FS_CardinalityType
<1> HIDE DEF n
<1>3. Later(e, n) \in Number
  BY <1>2, NumberInt, LaterType
<1>4. /\ rest \in SUBSET r.held /\ IsFiniteSet(rest)
      /\ Cardinality(rest) <= Cardinality(r.held) /\ Cardinality(rest) \in Nat
      /\ Cardinality(r.held) = Cardinality(rest) => rest = r.held
  BY <1>1, FS_Subset, FS_CardinalityType
<1>5. ASSUME e \in Seqs(r.held) PROVE Cardinality(rest) < Cardinality(r.held)
  <2>1. PICK x \in r.held : x.seq = e
    BY <1>5 DEF Seqs
  <2>2. Later(e, 0) = e
    BY LaterNone
  <2>3. n # 0
    BY <1>2, <1>5, <2>2
  <2>4. 0 \in 0..(n - 1)
    BY <1>2, <2>3
  <2>5. x \notin rest
    BY <2>1, <2>2, <2>4
  <2> HIDE DEF rest
  <2> QED
    BY <1>2, <1>4, <2>1, <2>5
<1> HIDE DEF rest
<1>6. wait \in Int /\ h \in Int /\ h >= low
  BY NoneType, HoldTimeType DEF Low
<1>7. IF rest = {} THEN wait = None ELSE wait >= low
  BY <1>6
<1> HIDE DEF wait
<1>8. /\ q \in Entries /\ q.held = rest /\ q.deadline = wait
  BY <1>1, <1>3, <1>4, <1>6 DEF Entries
<1>9. EntryOK(q, low)
  BY <1>1, <1>2, <1>4, <1>7, <1>8, WordType DEF EntryOK, Fits, Waits
<1> HIDE DEF q
<1>10. v = [rx |-> q, out |-> Frames(r.held, e, n), nack |-> <<>>, gave |-> FALSE]
  <2>1. v = [Quiet(q) EXCEPT !.out = Frames(r.held, e, n)]
    BY Zenon DEF Advance, q, n, rest, wait
  <2> HIDE DEF v
  <2> QED
    BY <2>1 DEF Quiet
<1> HIDE DEF v
<1>11. ResultOK(v, low)
  BY <1>9, <1>10, EmptySeq DEF ResultOK
<1> QED
  BY <1>4, <1>5, <1>8, <1>10, <1>11 DEF v

LEMMA QuietOK ==
  ASSUME NEW r, NEW low, EntryOK(r, low)
  PROVE  ResultOK(Quiet(r), low)
BY EmptySeq DEF ResultOK, Quiet

LEMMA DrainOK ==
  ASSUME NEW r, NEW low, EntryOK(r, low), Low(low), NEW h \in HoldTime
  PROVE  LET v == Drain(r, h) IN
         /\ ResultOK(v, low)
         /\ Cardinality(v.rx.held) <= Cardinality(r.held)
         /\ r.held # {} /\ r.deadline = 0 => Cardinality(v.rx.held) < Cardinality(r.held)
<1> DEFINE v == Drain(r, h)
           a == Advance(r, r.expected, h)
           l == Advance(r, Lowest(r), h)
<1>1. r \in Entries /\ Fits(r) /\ r.expected \in Number /\ Cardinality(r.held) \in Int
  BY FS_CardinalityType DEF EntryOK, Entries, Fits
<1>2. CASE r.expected \in Seqs(r.held)
  <2>1. v = a
    BY <1>2 DEF Drain
  <2> HIDE DEF v, a
  <2>2. /\ ResultOK(a, low) /\ Cardinality(a.rx.held) < Cardinality(r.held)
        /\ Cardinality(a.rx.held) <= Cardinality(r.held)
    BY <1>1, <1>2, AdvanceOK DEF a
  <2> QED
    BY <2>1, <2>2 DEF v
<1>3. CASE r.expected \notin Seqs(r.held) /\ (r.held = {} \/ r.deadline > 0)
  <2>1. v = Quiet(r)
    BY <1>3 DEF Drain
  <2>2. ResultOK(v, low)
    BY <2>1, QuietOK
  <2>3. v.rx = r
    BY <2>1 DEF Quiet
  <2> HIDE DEF v
  <2> QED
    BY <1>1, <1>3, <2>2, <2>3 DEF v
<1>4. CASE r.expected \notin Seqs(r.held) /\ ~(r.held = {} \/ r.deadline > 0)
  <2>1. v = [l EXCEPT !.gave = r.granted >= Enough]
    BY <1>4 DEF Drain
  <2>2. /\ ResultOK(l, low) /\ Cardinality(l.rx.held) < Cardinality(r.held)
        /\ Cardinality(l.rx.held) <= Cardinality(r.held)
    <3>1. Lowest(r) \in Number /\ Lowest(r) \in Seqs(r.held)
      BY <1>1, <1>4, LowestExists
    <3> HIDE DEF l
    <3> QED
      BY <1>1, <3>1, AdvanceOK DEF l
  <2> HIDE DEF v, l
  <2>3. /\ v = [rx |-> v.rx, out |-> v.out, nack |-> v.nack, gave |-> v.gave]
        /\ v.rx = l.rx /\ v.nack = l.nack
    <3>1. l = [rx |-> l.rx, out |-> l.out, nack |-> l.nack, gave |-> l.gave]
      BY <2>2 DEF ResultOK
    <3> DEFINE g == r.granted >= Enough
    <3> HIDE DEF g
    <3>2. v = [rx |-> l.rx, out |-> l.out, nack |-> l.nack, gave |-> g]
      BY <2>1, <3>1 DEF g
    <3> QED
      BY <3>2
  <2>4. ResultOK(v, low)
    BY <2>2, <2>3 DEF ResultOK
  <2> QED
    BY <2>2, <2>3, <2>4 DEF v
<1> QED
  BY <1>2, <1>3, <1>4

AirBundle == [seq : Number, frames : Seq(Frame), age : Nat]

LEMMA OneNack ==
  ASSUME NEW f \in Int, NEW c \in Nat, NEW w \in Int
  PROVE  <<[first |-> f, count |-> c, budget |-> w, age |-> 0]>> \in Seq(Nack)
BY DEF Nack

LEMMA HoldOK ==
  ASSUME NEW r, NEW low, EntryOK(r, low), Low(low), NEW h \in HoldTime,
         NEW x \in AirBundle, Cardinality(r.held) < HoldMax
  PROVE  ResultOK(Hold(r, x, h), low)
<1> DEFINE wait  == IF r.deadline = None THEN h ELSE r.deadline
           next  == IF Ahead(r.next, r.expected) < 0 THEN r.expected ELSE r.next
           fresh == Ahead(x.seq, next)
           nack  == IF wait < MinBudget THEN <<>>
                    ELSE IF fresh > 0
                    THEN <<[first |-> next, count |-> fresh, budget |-> wait, age |-> 0]>>
                    ELSE IF r.nacked >= Repeat
                    THEN <<[first |-> r.expected, count |-> 1, budget |-> wait, age |-> 0]>>
                    ELSE <<>>
           new   == [seq |-> x.seq, frames |-> x.frames]
           more  == r.held \cup {new}
           asked == IF nack # <<>> THEN 0 ELSE r.nacked
           given == IF r.deadline = None THEN h ELSE r.granted
           after == IF fresh >= 0 THEN Later(x.seq, 1) ELSE next
           q     == [r EXCEPT !.held = more, !.deadline = wait, !.granted = given,
                              !.nacked = asked, !.next = after]
           d == Drain(q, h)
           v == Hold(r, x, h)
<1>1. /\ r \in Entries /\ Fits(r) /\ r.deadline \in Int /\ r.expected \in Number
      /\ r.next \in Number /\ r.held \in SUBSET HeldBundle
      /\ r.granted \in Int /\ r.nacked \in Int
  BY DEF EntryOK, Entries
<1>2. wait \in Int /\ wait >= low
  <2>1. h \in Int /\ h >= low
    BY HoldTimeType DEF Low
  <2>2. r.deadline # None => r.deadline >= low
    BY DEF EntryOK, Waits
  <2> QED
    BY <1>1, <2>1, <2>2
<1> HIDE DEF wait
<1>3. next \in Number /\ next \in Int
  BY <1>1, NumberInt
<1> HIDE DEF next
<1>4. x.seq \in Number /\ x.seq \in Int /\ x.frames \in Seq(Frame)
  BY NumberInt DEF AirBundle
<1>5. fresh \in Int
  BY <1>3, <1>4, AheadType
<1> HIDE DEF fresh
<1>6. nack \in Seq(Nack)
  <2>1. CASE wait < MinBudget
    BY <2>1, EmptySeq
  <2>2. CASE ~(wait < MinBudget) /\ fresh > 0
    BY <1>2, <1>3, <1>5, <2>2, OneNack
  <2>3. CASE ~(wait < MinBudget) /\ ~(fresh > 0) /\ r.nacked >= Repeat
    <3>1. r.expected \in Int
      BY <1>1, NumberInt
    <3> QED
      BY <1>2, <2>3, <3>1, OneNack
  <2>4. CASE ~(wait < MinBudget) /\ ~(fresh > 0) /\ ~(r.nacked >= Repeat)
    BY <2>4, EmptySeq
  <2> QED
    BY <2>1, <2>2, <2>3, <2>4
<1> HIDE DEF nack
<1>7. asked \in Int /\ given \in Int /\ after \in Number
  BY <1>1, <1>3, <1>4, HoldTimeType, LaterType
<1>8. new \in HeldBundle
  BY <1>4 DEF HeldBundle
<1> HIDE DEF asked, given, after, new
<1>9. more \in SUBSET HeldBundle /\ more # {}
  BY <1>1, <1>8
<1>10. IsFiniteSet(more) /\ Cardinality(more) <= HoldMax
  <2>1. Cardinality(r.held) \in Nat
    BY <1>1, FS_CardinalityType DEF Fits
  <2>2. /\ IsFiniteSet(more)
        /\ Cardinality(more) = IF new \in r.held THEN Cardinality(r.held)
                               ELSE Cardinality(r.held) + 1
    BY <1>1, FS_AddElement DEF Fits
  <2> QED
    BY <2>1, <2>2, WordType
<1> HIDE DEF more
<1>11. q \in Entries /\ q.held = more /\ q.deadline = wait
  BY <1>1, <1>2, <1>7, <1>9 DEF Entries
<1> HIDE DEF q
<1>12. EntryOK(q, low)
  BY <1>2, <1>9, <1>10, <1>11 DEF EntryOK, Fits, Waits
<1>13. ResultOK(d, low)
  BY <1>12, DrainOK
<1>14. v = [d EXCEPT !.nack = nack]
  BY Zenon DEF Hold, nack, q, wait, next, fresh, more, new, asked, given, after
<1> HIDE DEF d, v
<1>15. v = [rx |-> d.rx, out |-> d.out, nack |-> nack, gave |-> d.gave]
  <2>1. d = [rx |-> d.rx, out |-> d.out, nack |-> d.nack, gave |-> d.gave]
    BY <1>13 DEF ResultOK
  <2> QED
    BY <1>14, <2>1
<1>16. ResultOK(v, low)
  BY <1>6, <1>13, <1>15 DEF ResultOK
<1> QED
  BY <1>16 DEF v

LEMMA PlacedOK ==
  ASSUME NEW r, NEW low, EntryOK(r, low), Low(low), NEW h \in HoldTime,
         NEW x \in AirBundle,
         Cardinality(r.held) < HoldMax \/ Ahead(x.seq, r.expected) <= 0
           \/ x.seq \in Seqs(r.held)
  PROVE  ResultOK(Placed(r, x, h), low)
<1> DEFINE ahead == Ahead(x.seq, r.expected)
           e == Later(r.expected, 1)
           after == IF Ahead(e, r.next) > 0 THEN e ELSE r.next
           q == [r EXCEPT !.expected = e, !.next = after]
           d == Drain(q, h)
           v == Placed(r, x, h)
<1>1. r \in Entries /\ r.expected \in Number /\ r.next \in Number /\ x.seq \in Number
  BY DEF EntryOK, Entries, AirBundle
<1>2. ahead \in Int
  BY <1>1, NumberInt, AheadType
<1>3. e \in Number /\ after \in Number
  BY <1>1, NumberInt, LaterType
<1> HIDE DEF e, after
<1>4. EntryOK(q, low)
  BY <1>1, <1>3 DEF EntryOK, Fits, Waits, Entries
<1> HIDE DEF q
<1>5. CASE ahead < 0
  <2> DEFINE o == [d EXCEPT !.out = x.frames \o @]
             w == IF x.seq \in Seqs(r.held) THEN Drain(r, h) ELSE Hold(r, x, h)
  <2>0. v = CASE ahead < 0 -> Quiet(r) [] ahead = 0 -> o [] ahead > 0 -> w
    BY Zenon DEF Placed, q, e, after
  <2> HIDE DEF o, w, v
  <2>1. v = Quiet(r)
    BY <1>2, <1>5, <2>0
  <2> QED
    BY <2>1, QuietOK DEF v
<1>6. CASE ahead = 0
  <2>1. v = [d EXCEPT !.out = x.frames \o @]
    BY <1>6 DEF Placed, q, e, after
  <2>2. ResultOK(d, low)
    BY <1>4, DrainOK
  <2> HIDE DEF d, v
  <2>3. d = [rx |-> d.rx, out |-> d.out, nack |-> d.nack, gave |-> d.gave]
    BY <2>2 DEF ResultOK
  <2> DEFINE o == x.frames \o d.out
  <2> HIDE DEF o
  <2>4. v = [rx |-> d.rx, out |-> o, nack |-> d.nack, gave |-> d.gave]
    BY <2>1, <2>3 DEF o
  <2>5. ResultOK(v, low)
    BY <2>2, <2>4 DEF ResultOK
  <2> QED
    BY <2>5 DEF v
<1>7. CASE ahead > 0 /\ x.seq \in Seqs(r.held)
  <2>1. v = Drain(r, h)
    BY <1>2, <1>7 DEF Placed
  <2> QED
    BY <2>1, DrainOK
<1>8. CASE ahead > 0 /\ x.seq \notin Seqs(r.held)
  <2>1. v = Hold(r, x, h)
    BY <1>2, <1>8 DEF Placed
  <2> QED
    BY <1>2, <1>8, <2>1, HoldOK
<1> QED
  BY <1>2, <1>5, <1>6, <1>7, <1>8

\* With the hold full, giving the gap up makes room.
LEMMA PlacedInFullOK ==
  ASSUME NEW r, NEW low, EntryOK(r, low), Low(low), NEW h \in HoldTime,
         NEW x \in AirBundle, Cardinality(r.held) >= HoldMax
  PROVE  ResultOK(PlacedInFull(r, x, h), low)
<1> DEFINE q == [r EXCEPT !.deadline = 0]
           d == Drain(q, h)
           p == Placed(d.rx, x, h)
           v == PlacedInFull(r, x, h)
<1>1. r \in Entries /\ Cardinality(r.held) <= HoldMax /\ Cardinality(r.held) \in Nat
  BY FS_CardinalityType DEF EntryOK, Fits
<1>2. r.held # {}
  <2>1. Cardinality(r.held) # 0
    BY <1>1, WordType
  <2>2. Cardinality({}) = 0
    BY FS_EmptySet
  <2> QED
    BY <2>1, <2>2
<1>3. EntryOK(q, low) /\ q.held = r.held /\ q.deadline = 0
  BY <1>1, <1>2 DEF EntryOK, Fits, Waits, Entries, Low
<1> HIDE DEF q
<1>4. ResultOK(d, low) /\ Cardinality(d.rx.held) < Cardinality(r.held)
  BY <1>2, <1>3, DrainOK
<1>5. v = [p EXCEPT !.out = d.out \o @]
  BY DEF PlacedInFull, q
<1> HIDE DEF d
<1>6. EntryOK(d.rx, low) /\ Cardinality(d.rx.held) \in Nat
  BY <1>4, FS_CardinalityType DEF ResultOK, EntryOK, Fits
<1>7. Cardinality(d.rx.held) < HoldMax
  BY <1>1, <1>4, <1>6, WordType
<1>8. ResultOK(p, low)
  BY <1>6, <1>7, PlacedOK
<1> HIDE DEF p, v
<1>9. p = [rx |-> p.rx, out |-> p.out, nack |-> p.nack, gave |-> p.gave]
  BY <1>8 DEF ResultOK
<1> DEFINE o == d.out \o p.out
<1> HIDE DEF o
<1>10. v = [rx |-> p.rx, out |-> o, nack |-> p.nack, gave |-> p.gave]
  BY <1>5, <1>9 DEF o
<1>11. ResultOK(v, low)
  BY <1>8, <1>10 DEF ResultOK
<1> QED
  BY <1>11 DEF v

LEMMA FreshOK ==
  ASSUME NEW r, NEW low, EntryOK(r, low), NEW x \in AirBundle
  PROVE  EntryOK(Fresh(r, x), low)
<1> DEFINE yes == TRUE
           q == [r EXCEPT !.seeded = yes, !.held = {}, !.deadline = None,
                          !.expected = x.seq, !.next = x.seq]
<1>1. yes \in BOOLEAN /\ x.seq \in Number /\ None \in Int /\ r \in Entries
  BY NoneType DEF AirBundle, EntryOK
<1>2. IsFiniteSet({}) /\ Cardinality({}) = 0
  BY FS_EmptySet
<1>3. Fresh(r, x) = r \/ Fresh(r, x) = q
  BY Zenon DEF Fresh
<1> HIDE DEF yes
<1>4. q \in Entries /\ q.held = {} /\ q.deadline = None
  BY <1>1 DEF Entries
<1> HIDE DEF q
<1>5. EntryOK(q, low)
  BY <1>2, <1>4, WordType DEF EntryOK, Fits, Waits
<1> QED
  BY <1>3, <1>5

LEMMA ReceivedOK ==
  ASSUME NEW low, EntryOK(rx, low), Low(low), NEW h \in HoldTime, NEW x \in AirBundle
  PROVE  ResultOK(Received(x, h), low)
<1> DEFINE r == Fresh(rx, x)
           full == /\ Cardinality(r.held) >= HoldMax /\ Ahead(x.seq, r.expected) > 0
                   /\ x.seq \notin Seqs(r.held)
           v == IF full THEN PlacedInFull(r, x, h) ELSE Placed(r, x, h)
           g == v.gave \/ (rx.seeded /\ Strayed(rx, x))
           u == Received(x, h)
<1>1. EntryOK(r, low)
  BY FreshOK
<1>2. u = [v EXCEPT !.gave = g]
  BY Zenon DEF Received
<1> HIDE DEF r
<1>3. ResultOK(v, low)
  <2>1. CASE full
    BY <1>1, <2>1, PlacedInFullOK
  <2>2. CASE ~full
    <3>1. x.seq \in Int /\ r.expected \in Int /\ Cardinality(r.held) \in Nat
      BY <1>1, NumberInt, FS_CardinalityType DEF EntryOK, Entries, AirBundle, Fits
    <3>2. Ahead(x.seq, r.expected) \in Int
      BY <3>1, AheadType
    <3>3. \/ Cardinality(r.held) < HoldMax
          \/ Ahead(x.seq, r.expected) <= 0
          \/ x.seq \in Seqs(r.held)
      BY <2>2, <3>1, <3>2, WordType
    <3>4. ResultOK(Placed(r, x, h), low)
      BY <1>1, <3>3, PlacedOK
    <3> QED
      BY <2>2, <3>4
  <2> QED
    BY <2>1, <2>2
<1> HIDE DEF v, g, u
<1>4. v = [rx |-> v.rx, out |-> v.out, nack |-> v.nack, gave |-> v.gave]
  BY <1>3 DEF ResultOK
<1>5. u = [rx |-> v.rx, out |-> v.out, nack |-> v.nack, gave |-> g]
  BY <1>2, <1>4
<1>6. ResultOK(u, low)
  BY <1>3, <1>5 DEF ResultOK
<1> QED
  BY <1>6 DEF u

-----------------------------------------------------------------------------
(* The inductive invariant. *)

KeptBundle == [seq : Number, frames : Seq(Frame), again : Int]

LowTime == IF uplink THEN -StaleTime - 1 ELSE 0

SenderOK ==
  /\ made \in 0..MaxFrame /\ fill \in Seq(Frame) /\ Len(fill) < PerBundle
  /\ fillAge \in Nat /\ seq \in Number
  /\ hist \in Seq(KeptBundle) /\ Len(hist) <= History

AirOK == air \in Seq(AirBundle) /\ nacks \in Seq(Nack)

ReceiverOK == uplink \in BOOLEAN /\ EntryOK(rx, LowTime) /\ timer = Armed(rx)

BInv == SenderOK /\ AirOK /\ ReceiverOK

LEMMA Constants ==
  /\ StaleTime \in Nat /\ LeftAge \in Nat /\ Delay \in Nat /\ Spacing \in Nat
  /\ MaxFrame \in Nat /\ MaxAge \in Nat /\ Repeat \in Nat
  /\ PerBundle \in Nat \ {0} /\ History \in Nat /\ History > 0
<1>1. History \in 1..Window /\ Window \in Nat /\ PerBundle \in Nat \ {0}
  BY Zenon, BundleAssumption
<1>2. /\ StaleTime \in Nat /\ LeftAge \in Nat /\ Delay \in Nat /\ Spacing \in Nat
      /\ MaxAge \in Nat /\ Repeat \in Nat
  BY Zenon, BundleAssumption
<1>3. MaxFrame \in Nat
  BY Zenon, BundleAssumption
<1> QED
  BY <1>1, <1>2, <1>3

LEMMA LowTimeOK == Low(LowTime)
BY Constants DEF Low, LowTime, None

LEMMA SentType ==
  ASSUME NEW s \in Number, NEW f \in Seq(Frame)
  PROVE  Sent(s, f) \in AirBundle
BY DEF Sent, AirBundle

LEMMA KeptType ==
  ASSUME NEW h \in Seq(KeptBundle), Len(h) <= History, NEW s \in Number,
         NEW f \in Seq(Frame)
  PROVE  Kept(h, s, f) \in Seq(KeptBundle) /\ Len(Kept(h, s, f)) <= History
<1> DEFINE new == [seq |-> s, frames |-> f, again |-> Long]
           all == Append(h, new)
<1>1. new \in KeptBundle
  BY Constants DEF KeptBundle, Long
<1> HIDE DEF new
<1>2. all \in Seq(KeptBundle) /\ Len(all) = Len(h) + 1 /\ all # <<>> /\ Len(h) \in Nat
  BY <1>1, AppendProperties, LenProperties
<1>3. Kept(h, s, f) = IF Len(all) > History THEN Tail(all) ELSE all
  BY DEF Kept, new
<1> HIDE DEF all
<1>4. CASE Len(all) > History
  <2>1. Tail(all) \in Seq(KeptBundle) /\ Len(Tail(all)) = Len(all) - 1
    BY <1>2, HeadTailProperties
  <2> QED
    BY <1>2, <1>3, <1>4, <2>1, Constants
<1>5. CASE ~(Len(all) > History)
  BY <1>2, <1>3, <1>5, Constants
<1> QED
  BY <1>4, <1>5

\* What AddFrame does, in its two halves: a bundle that goes out before the
\* frame is added, and one that goes out after.
Old1 == StillFilled(fill)
Flush == Old1 # <<>> /\ fillAge > MaxAge
Mine == IF Flush THEN <<made + 1>> ELSE Append(Old1, made + 1)
Full == Len(Mine) >= PerBundle
Seq1 == IF Flush THEN Later(seq, 1) ELSE seq
Air1 == IF Flush THEN Append(air, Sent(seq, Old1)) ELSE air
Hist1 == IF Flush THEN Kept(hist, seq, Old1) ELSE hist

LEMMA AddFrameHalves ==
  ASSUME SenderOK, AirOK, AddFrame
  PROVE  /\ made + 1 \in Frame /\ Old1 \in Seq(Frame) /\ Mine \in Seq(Frame)
         /\ Old1 \in {fill, <<>>} /\ Seq1 \in Number
         /\ made' = made + 1
         /\ fill' = IF Full THEN <<>> ELSE Mine
         /\ fillAge' = IF Len(Mine) = 1 THEN 0 ELSE fillAge
         /\ seq' = IF Full THEN Later(Seq1, 1) ELSE Seq1
         /\ air' = IF Full THEN Append(Air1, Sent(Seq1, Mine)) ELSE Air1
         /\ hist' = IF Full THEN Kept(Hist1, Seq1, Mine) ELSE Hist1
<1>1. made + 1 \in Frame /\ made' = made + 1
  BY Constants DEF SenderOK, AddFrame, Frame
<1>2. Old1 \in {fill, <<>>} /\ Old1 \in Seq(Frame)
  BY EmptySeq DEF SenderOK, Old1, StillFilled
<1>3. Mine \in Seq(Frame)
  <2>1. <<made + 1>> \in Seq(Frame)
    BY <1>1
  <2>2. Append(Old1, made + 1) \in Seq(Frame)
    BY <1>1, <1>2, AppendProperties
  <2> QED
    BY <2>1, <2>2 DEF Mine
<1> DEFINE first == IF Flush THEN 1 ELSE 0
<1>4. Seq1 \in Number /\ Later(seq, first) = Seq1
  <2>1. seq \in Number /\ seq \in Int
    BY NumberInt DEF SenderOK
  <2>2. CASE Flush
    <3>1. Seq1 = Later(seq, 1) /\ first = 1
      BY <2>2 DEF Seq1
    <3> QED
      BY <2>1, <3>1, LaterType
  <2>3. CASE ~Flush
    <3>1. Seq1 = seq /\ first = 0
      BY <2>3 DEF Seq1
    <3> QED
      BY <2>1, <3>1, LaterNone
  <2> QED
    BY <2>2, <2>3
<1>5. seq' = IF Full THEN Later(Seq1, 1) ELSE Seq1
  <2>1. seq' = Later(seq, first + IF Full THEN 1 ELSE 0)
    BY DEF AddFrame, Full, Mine, Flush, Old1
  <2>2. CASE ~Full
    <3>1. first + 0 = first
      OBVIOUS
    <3> QED
      BY <1>4, <2>1, <2>2, <3>1
  <2>3. CASE Full /\ ~Flush
    <3>1. first + 1 = 1 /\ Seq1 = seq
      BY <2>3 DEF Seq1
    <3> QED
      BY <2>1, <2>3, <3>1
  <2>4. CASE Full /\ Flush
    <3>1. first + 1 = 2 /\ Seq1 = Later(seq, 1)
      BY <2>4 DEF Seq1
    <3>2. Later(Later(seq, 1), 1) = Later(seq, 2)
      BY LaterTwice DEF SenderOK
    <3> QED
      BY <2>1, <2>4, <3>1, <3>2
  <2> QED
    BY <2>2, <2>3, <2>4
<1>6. air' = IF Full THEN Append(Air1, Sent(Seq1, Mine)) ELSE Air1
  <2> DEFINE one == IF Flush THEN <<Sent(seq, Old1)>> ELSE <<>>
             two == IF Full THEN <<Sent(Later(seq, first), Mine)>> ELSE <<>>
  <2>1. air' = (air \o one) \o two
    BY Zenon DEF AddFrame, Full, Mine, Flush, Old1
  <2>2. Sent(seq, Old1) \in AirBundle /\ Sent(Seq1, Mine) \in AirBundle
    BY <1>2, <1>3, <1>4, SentType DEF SenderOK
  <2>3. air \o one = Air1 /\ Air1 \in Seq(AirBundle)
    <3> DEFINE x == Sent(seq, Old1)
    <3> HIDE DEF x
    <3>1. CASE Flush
      <4>1. air \o <<x>> = Append(air, x) /\ Append(air, x) \in Seq(AirBundle)
        BY <2>2 DEF AirOK, x
      <4> QED
        BY <3>1, <4>1 DEF Air1, x
    <3>2. CASE ~Flush
      <4>1. air \o <<>> = air
        BY DEF AirOK
      <4> QED
        BY <3>2, <4>1 DEF Air1, AirOK
    <3> QED
      BY <3>1, <3>2
  <2>4. CASE Full
    <3> DEFINE x == Sent(Seq1, Mine)
    <3>1. two = <<x>>
      BY <1>4, <2>4
    <3> HIDE DEF x
    <3>2. Air1 \o <<x>> = Append(Air1, x)
      BY <2>2, <2>3 DEF x
    <3> QED
      BY <2>1, <2>3, <2>4, <3>1, <3>2 DEF x
  <2>5. CASE ~Full
    <3>1. Air1 \o <<>> = Air1
      BY <2>3
    <3> QED
      BY <2>1, <2>3, <2>5, <3>1
  <2> QED
    BY <2>4, <2>5
<1>7. hist' = IF Full THEN Kept(Hist1, Seq1, Mine) ELSE Hist1
  <2>1. hist' = IF Full THEN Kept(Hist1, Later(seq, first), Mine) ELSE Hist1
    BY Zenon DEF AddFrame, Full, Mine, Flush, Old1, Hist1
  <2> QED
    BY <1>4, <2>1
<1>8. fill' = (IF Full THEN <<>> ELSE Mine) /\ fillAge' = IF Len(Mine) = 1 THEN 0 ELSE fillAge
  BY Zenon DEF AddFrame, Full, Mine, Flush, Old1
<1> QED
  BY <1>1, <1>2, <1>3, <1>4, <1>5, <1>6, <1>7, <1>8

\* A step that leaves the receiver alone.
LEMMA ReceiverStays ==
  ASSUME ReceiverOK, UNCHANGED <<uplink, rx, timer>>
  PROVE  ReceiverOK'
BY DEF ReceiverOK, EntryOK, Fits, Waits, LowTime, Armed

LEMMA AddFrameKeeps ==
  ASSUME BInv, AddFrame
  PROVE  BInv'
<1>1. /\ made + 1 \in Frame /\ Old1 \in Seq(Frame) /\ Mine \in Seq(Frame)
      /\ Old1 \in {fill, <<>>} /\ Seq1 \in Number
      /\ made' = made + 1
      /\ fill' = IF Full THEN <<>> ELSE Mine
      /\ fillAge' = IF Len(Mine) = 1 THEN 0 ELSE fillAge
      /\ seq' = IF Full THEN Later(Seq1, 1) ELSE Seq1
      /\ air' = IF Full THEN Append(Air1, Sent(Seq1, Mine)) ELSE Air1
      /\ hist' = IF Full THEN Kept(Hist1, Seq1, Mine) ELSE Hist1
  BY AddFrameHalves DEF BInv
<1>2. UNCHANGED <<uplink, rx, timer, nacks>>
  BY DEF AddFrame
<1>3. seq \in Number /\ Sent(seq, Old1) \in AirBundle /\ Sent(Seq1, Mine) \in AirBundle
  BY <1>1, SentType DEF BInv, SenderOK
<1>4. Air1 \in Seq(AirBundle)
  BY <1>3, AppendProperties DEF Air1, BInv, AirOK
<1>5. Hist1 \in Seq(KeptBundle) /\ Len(Hist1) <= History
  BY <1>1, <1>3, KeptType DEF Hist1, BInv, SenderOK
<1>6. air' \in Seq(AirBundle)
  BY <1>1, <1>3, <1>4, AppendProperties
<1>7. hist' \in Seq(KeptBundle) /\ Len(hist') <= History
  BY <1>1, <1>5, KeptType
<1>8. fill' \in Seq(Frame) /\ Len(fill') < PerBundle
  <2>1. CASE Full
    BY <1>1, <2>1, EmptySeq, Constants
  <2>2. CASE ~Full
    <3>1. fill' = Mine /\ Len(Mine) \in Nat
      BY <1>1, <2>2, LenProperties
    <3> QED
      BY <1>1, <2>2, <3>1, Constants DEF Full
  <2> QED
    BY <2>1, <2>2
<1>9. seq' \in Number
  BY <1>1, LaterType, NumberInt
<1>10. made' \in 0..MaxFrame /\ fillAge' \in Nat
  BY <1>1, Constants DEF Frame, BInv, SenderOK
<1>11. ReceiverOK'
  BY <1>2, ReceiverStays DEF BInv
<1> QED
  BY <1>2, <1>6, <1>7, <1>8, <1>9, <1>10, <1>11 DEF BInv, SenderOK, AirOK

LEMMA SendAgedKeeps ==
  ASSUME BInv, SendAged
  PROVE  BInv'
<1>1. /\ air' = Append(air, Sent(seq, fill)) /\ hist' = Kept(hist, seq, fill)
      /\ fill' = <<>> /\ seq' = Later(seq, 1)
      /\ UNCHANGED <<uplink, made, fillAge, nacks, rx, timer>>
  BY DEF SendAged
<1>2. Sent(seq, fill) \in AirBundle
  BY SentType DEF BInv, SenderOK
<1>3. air' \in Seq(AirBundle)
  BY <1>1, <1>2, AppendProperties DEF BInv, AirOK
<1>4. hist' \in Seq(KeptBundle) /\ Len(hist') <= History
  BY <1>1, KeptType DEF BInv, SenderOK
<1>5. fill' \in Seq(Frame) /\ Len(fill') < PerBundle /\ seq' \in Number
  BY <1>1, EmptySeq, Constants, LaterType, NumberInt DEF BInv, SenderOK
<1>6. ReceiverOK'
  BY <1>1, ReceiverStays DEF BInv
<1> QED
  BY <1>1, <1>3, <1>4, <1>5, <1>6 DEF BInv, SenderOK, AirOK

LEMMA CopiesType ==
  ASSUME hist \in Seq(KeptBundle), NEW ks \in SUBSET DOMAIN hist, NEW s \in Number
  PROVE  Copies(ks, s) \in Seq(AirBundle)
<1> DEFINE js == {j \in ks : hist[j].seq = s}
           S == {Sent(s, hist[k].frames) : k \in js}
           f == [k \in js |-> Sent(s, hist[k].frames)]
<1>1. DOMAIN hist = 1..Len(hist) /\ Len(hist) \in Nat
  BY LenProperties
<1>2. IsFiniteSet(js)
  <2>1. IsFiniteSet(1..Len(hist)) /\ js \in SUBSET (1..Len(hist))
    BY <1>1, FS_Interval
  <2> HIDE DEF js
  <2> QED
    BY <2>1, FS_Subset
<1>3. f \in Surjection(js, S)
  BY DEF Surjection
<1>4. IsFiniteSet(S)
  BY <1>2, <1>3, FS_Surjection
<1>5. S \in SUBSET AirBundle
  <2> SUFFICES ASSUME NEW k \in js PROVE Sent(s, hist[k].frames) \in AirBundle
    OBVIOUS
  <2>1. hist[k] \in KeptBundle
    BY <1>1, ElementOfSeq
  <2> QED
    BY <2>1, SentType DEF KeptBundle
<1> HIDE DEF S
<1>6. SetToSeq(S) \in Seq(S)
  BY <1>4, SetToSeqType
<1>7. SetToSeq(S) \in Seq(AirBundle)
  BY <1>5, <1>6
<1> QED
  BY <1>7 DEF Copies, S

LEMMA HandleNackKeeps ==
  ASSUME BInv, HandleNack
  PROVE  BInv'
<1> DEFINE nack == Head(nacks)
           ks == Answered(nack)
           copies == [n \in 1..nack.count |-> Copies(ks, Later(nack.first, n - 1))]
           h == [k \in DOMAIN hist |->
                   IF k \in ks THEN [hist[k] EXCEPT !.again = 0] ELSE hist[k]]
<1>1. /\ air' = air \o FlattenSeq(copies) /\ hist' = h
      /\ nacks' = Tail(nacks) /\ nacks # <<>>
      /\ UNCHANGED <<uplink, made, fill, fillAge, seq, rx, timer>>
  BY DEF HandleNack
<1>2. nack \in Nack /\ nacks' \in Seq(Nack)
  BY <1>1, HeadTailProperties DEF BInv, AirOK
<1>3. hist \in Seq(KeptBundle) /\ DOMAIN hist = 1..Len(hist) /\ Len(hist) \in Nat
  BY LenProperties DEF BInv, SenderOK
<1>4. ks \in SUBSET DOMAIN hist
  BY DEF Answered
<1>5. nack.first \in Int /\ nack.count \in Nat
  BY <1>2 DEF Nack
<1> HIDE DEF ks, nack
<1>6. \A n \in 1..nack.count : Copies(ks, Later(nack.first, n - 1)) \in Seq(AirBundle)
  BY <1>3, <1>4, <1>5, CopiesType, LaterType
<1>7. copies \in Seq(Seq(AirBundle))
  BY <1>5, <1>6, SeqDef
<1> HIDE DEF copies
<1>8. FlattenSeq(copies) \in Seq(AirBundle)
  BY <1>7, FlattenType
<1>9. air' \in Seq(AirBundle)
  BY <1>1, <1>8, ConcatProperties DEF BInv, AirOK
<1>10. \A k \in 1..Len(hist) : h[k] \in KeptBundle
  <2> TAKE k \in 1..Len(hist)
  <2>1. hist[k] \in KeptBundle
    BY <1>3, ElementOfSeq
  <2>2. [hist[k] EXCEPT !.again = 0] \in KeptBundle
    BY <2>1 DEF KeptBundle
  <2> QED
    BY <1>3, <2>1, <2>2
<1>11. h \in Seq(KeptBundle) /\ Len(h) = Len(hist)
  <2>1. h = [k \in 1..Len(hist) |-> h[k]]
    BY <1>3
  <2> HIDE DEF h
  <2>2. h \in [1..Len(hist) -> KeptBundle]
    BY <1>10, <2>1
  <2> QED
    BY <1>3, <2>2, SeqDef, LenProperties
<1> HIDE DEF h
<1>12. ReceiverOK'
  BY <1>1, ReceiverStays DEF BInv
<1> QED
  BY <1>1, <1>2, <1>9, <1>11, <1>12 DEF BInv, SenderOK, AirOK

LEMMA RestartKeeps ==
  ASSUME BInv, Restart
  PROVE  BInv'
<1>1. /\ fill' = <<>> /\ seq' = 0 /\ hist' = <<>>
      /\ UNCHANGED <<uplink, made, fillAge, air, nacks, rx, timer>>
  BY DEF Restart
<1>2. /\ fill' \in Seq(Frame) /\ Len(fill') < PerBundle /\ seq' \in Number
      /\ hist' \in Seq(KeptBundle) /\ Len(hist') <= History
  BY <1>1, EmptySeq, Constants, WordType DEF Number
<1>3. ReceiverOK'
  BY <1>1, ReceiverStays DEF BInv
<1> QED
  BY <1>1, <1>2, <1>3 DEF BInv, SenderOK, AirOK

LEMMA ResultKeeps ==
  ASSUME ReceiverOK, NEW v, ResultOK(v, LowTime), Result(v), timer' = Armed(rx'),
         uplink' = uplink
  PROVE  ReceiverOK'
<1>1. rx' = v.rx
  BY DEF Result
<1>2. EntryOK(rx', LowTime)
  BY <1>1 DEF ResultOK
<1>3. LowTime' = LowTime /\ Armed(rx)' = Armed(rx')
  BY DEF LowTime, Armed
<1> QED
  BY <1>2, <1>3 DEF ReceiverOK, EntryOK, Fits, Waits, LowTime

LEMMA ReceiveKeeps ==
  ASSUME BInv, Receive
  PROVE  BInv'
<1>1. PICK h \in HoldTime : LET v == Received(Head(air), h) IN
                            Result(v) /\ nacks' = nacks \o v.nack
  BY DEF Receive
<1> DEFINE v == Received(Head(air), h)
<1>2. /\ air # <<>> /\ air' = Tail(air) /\ timer' = Armed(rx')
      /\ UNCHANGED <<uplink, made, fill, fillAge, seq, hist>>
  BY DEF Receive, sender
<1>3. Head(air) \in AirBundle /\ air' \in Seq(AirBundle)
  BY <1>2, HeadTailProperties DEF BInv, AirOK
<1>4. ResultOK(v, LowTime)
  BY <1>3, ReceivedOK, LowTimeOK DEF BInv, ReceiverOK
<1>5. Result(v) /\ nacks' = nacks \o v.nack
  BY <1>1
<1> HIDE DEF v
<1>6. nacks' \in Seq(Nack)
  BY <1>4, <1>5, ConcatProperties DEF BInv, AirOK, ResultOK
<1>7. ReceiverOK'
  BY <1>2, <1>4, <1>5, ResultKeeps DEF BInv
<1> QED
  BY <1>2, <1>3, <1>6, <1>7 DEF BInv, SenderOK, AirOK

LEMMA HoldTimerKeeps ==
  ASSUME BInv, HoldTimer
  PROVE  BInv'
<1>1. PICK h \in HoldTime : Result(Drain(rx, h))
  BY DEF HoldTimer
<1> DEFINE v == Drain(rx, h)
<1>2. /\ timer' = Armed(rx')
      /\ UNCHANGED <<uplink, made, fill, fillAge, seq, hist, air, nacks>>
  BY DEF HoldTimer, sender
<1>3. ResultOK(v, LowTime)
  BY DrainOK, LowTimeOK DEF BInv, ReceiverOK
<1>4. Result(v)
  BY <1>1
<1> HIDE DEF v
<1>5. ReceiverOK'
  BY <1>2, <1>3, <1>4, ResultKeeps DEF BInv
<1> QED
  BY <1>2, <1>5 DEF BInv, SenderOK, AirOK

LEMMA LossKeeps ==
  ASSUME BInv, LoseBundle \/ LoseNack
  PROVE  BInv'
<1>1. UNCHANGED <<uplink, made, fill, fillAge, seq, hist, rx, timer>>
  BY DEF LoseBundle, LoseNack, sender
<1>2. AirOK'
  <2>1. CASE LoseBundle
    BY <2>1, HeadTailProperties DEF LoseBundle, BInv, AirOK
  <2>2. CASE LoseNack
    BY <2>2, HeadTailProperties DEF LoseNack, BInv, AirOK
  <2> QED
    BY <2>1, <2>2
<1>3. ReceiverOK'
  BY <1>1, ReceiverStays DEF BInv
<1> QED
  BY <1>1, <1>2, <1>3 DEF BInv, SenderOK

LEMMA UpToType ==
  ASSUME NEW n \in Int, NEW m
  PROVE  UpTo(n, m) \in {n, n + 1} /\ UpTo(n, m) \in Int /\ (n \in Nat => UpTo(n, m) \in Nat)
BY DEF UpTo

LEMMA OlderType ==
  ASSUME NEW X, NEW q \in Seq(X), \A x \in X : [x EXCEPT !.age = @ + 1] \in X
  PROVE  /\ Older(q) \in Seq(X) /\ Len(Older(q)) = Len(q)
         /\ \A i \in 1..Len(q) : Older(q)[i] = [q[i] EXCEPT !.age = @ + 1]
<1> DEFINE o == [i \in 1..Len(q) |-> [q[i] EXCEPT !.age = @ + 1]]
<1>1. DOMAIN q = 1..Len(q) /\ Len(q) \in Nat
  BY LenProperties
<1>2. Older(q) = o
  BY <1>1 DEF Older
<1>3. \A i \in 1..Len(q) : o[i] \in X
  BY ElementOfSeq
<1>4. o \in [1..Len(q) -> X]
  BY <1>3
<1>5. o \in Seq(X) /\ Len(o) = Len(q)
  <2> HIDE DEF o
  <2> QED
    BY <1>1, <1>4, SeqDef, LenProperties
<1> QED
  BY <1>2, <1>5

LEMMA TickAir ==
  ASSUME AirOK
  PROVE  /\ Older(air) \in Seq(AirBundle) /\ Len(Older(air)) = Len(air)
         /\ \A i \in 1..Len(air) : Older(air)[i] = [air[i] EXCEPT !.age = @ + 1]
         /\ Older(nacks) \in Seq(Nack)
<1>1. \A x \in AirBundle : [x EXCEPT !.age = @ + 1] \in AirBundle
  BY DEF AirBundle
<1>2. \A x \in Nack : [x EXCEPT !.age = @ + 1] \in Nack
  BY DEF Nack
<1> QED
  BY <1>1, <1>2, OlderType DEF AirOK

LEMMA TickKeeps ==
  ASSUME BInv, Tick
  PROVE  BInv'
<1> DEFINE dead == Sooner(rx.deadline)
           asked == UpTo(rx.nacked, Repeat)
           h == [k \in DOMAIN hist |-> [hist[k] EXCEPT !.again = UpTo(@, Long)]]
<1>1. /\ timer = None \/ timer > 0
      /\ fillAge' = UpTo(fillAge, LeftAge + 1) /\ hist' = h
      /\ air' = Older(air) /\ nacks' = Older(nacks)
      /\ rx' = [rx EXCEPT !.deadline = dead, !.nacked = asked]
      /\ timer' = Sooner(timer)
      /\ UNCHANGED <<uplink, made, fill, seq>>
  BY DEF Tick
<1>2. AirOK'
  BY <1>1, TickAir DEF BInv, AirOK
<1>3. fillAge' \in Nat
  BY <1>1, UpToType DEF BInv, SenderOK
<1>4. hist \in Seq(KeptBundle) /\ DOMAIN hist = 1..Len(hist) /\ Len(hist) \in Nat
  BY LenProperties DEF BInv, SenderOK
<1>5. \A k \in 1..Len(hist) : h[k] \in KeptBundle
  <2> TAKE k \in 1..Len(hist)
  <2>1. hist[k] \in KeptBundle
    BY <1>4, ElementOfSeq
  <2>2. UpTo(hist[k].again, Long) \in Int
    BY <2>1, UpToType DEF KeptBundle
  <2>3. [hist[k] EXCEPT !.again = UpTo(@, Long)] \in KeptBundle
    BY <2>1, <2>2 DEF KeptBundle
  <2> QED
    BY <1>4, <2>3
<1>6. h \in Seq(KeptBundle) /\ Len(h) = Len(hist)
  <2>1. h = [k \in 1..Len(hist) |-> h[k]]
    BY <1>4
  <2> HIDE DEF h
  <2>2. h \in [1..Len(hist) -> KeptBundle]
    BY <1>5, <2>1
  <2> QED
    BY <1>4, <2>2, SeqDef, LenProperties
<1> HIDE DEF h
<1>7. SenderOK'
  BY <1>1, <1>3, <1>6 DEF BInv, SenderOK
<1>8. /\ rx \in Entries /\ Fits(rx) /\ Waits(rx, LowTime) /\ rx.deadline \in Int
      /\ uplink \in BOOLEAN /\ timer = Armed(rx) /\ rx.nacked \in Int
  BY DEF BInv, ReceiverOK, EntryOK, Entries
<1>9. asked \in Int
  BY <1>8, UpToType
<1>10. dead \in Int
  BY <1>8, NoneType DEF Sooner
<1>11. IF rx.held = {} THEN dead = None ELSE dead >= LowTime
  <2>1. CASE rx.held = {}
    BY <1>8, <2>1 DEF Waits, Sooner
  <2>2. CASE rx.held # {} /\ uplink
    <3>1. rx.deadline >= -StaleTime - 1 /\ LowTime = -StaleTime - 1
      BY <1>8, <2>2 DEF Waits, LowTime
    <3> QED
      BY <1>8, <2>2, <3>1, Constants DEF Sooner, None
  <2>3. CASE rx.held # {} /\ ~uplink
    <3>1. rx.deadline >= 0 /\ LowTime = 0 /\ timer = rx.deadline
      BY <1>8, <2>3 DEF Waits, LowTime, Armed
    <3>2. rx.deadline > 0
      BY <1>1, <1>8, <3>1, NoneType
    <3> QED
      BY <1>8, <2>3, <3>1, <3>2, Constants DEF Sooner, None
  <2> QED
    BY <1>8, <2>1, <2>2, <2>3
<1>12. timer' = IF uplink THEN None ELSE dead
  <2>1. CASE uplink
    BY <1>1, <1>8, <2>1 DEF Armed, Sooner
  <2>2. CASE ~uplink
    BY <1>1, <1>8, <2>2 DEF Armed
  <2> QED
    BY <2>1, <2>2
<1> HIDE DEF dead, asked
<1>13. rx' \in Entries /\ rx'.held = rx.held /\ rx'.deadline = dead
  BY <1>1, <1>8, <1>9, <1>10 DEF Entries
<1>14. ReceiverOK'
  BY <1>1, <1>8, <1>11, <1>12, <1>13 DEF ReceiverOK, EntryOK, Fits, Waits, Armed, LowTime
<1> QED
  BY <1>2, <1>7, <1>14 DEF BInv

LEMMA InitBInv == Init => BInv
<1> SUFFICES ASSUME Init PROVE BInv
  OBVIOUS
<1>1. SenderOK
  BY Constants, WordType, EmptySeq DEF Init, SenderOK, Number
<1>2. AirOK
  BY EmptySeq DEF Init, AirOK
<1>3. rx \in Entries /\ rx.held = {} /\ rx.deadline = None
  BY Constants, NoneType, WordType DEF Init, Entries, Number
<1>4. IsFiniteSet({}) /\ Cardinality({}) = 0
  BY FS_EmptySet
<1>5. EntryOK(rx, LowTime)
  BY <1>3, <1>4, WordType DEF EntryOK, Fits, Waits
<1>6. timer = Armed(rx) /\ uplink \in BOOLEAN
  BY <1>3 DEF Armed, Init
<1> QED
  BY <1>1, <1>2, <1>5, <1>6 DEF BInv, ReceiverOK

LEMMA NextBInv ==
  ASSUME BInv, [Next]_vars
  PROVE  BInv'
<1>1. CASE UNCHANGED vars
  <2>1. UNCHANGED <<uplink, made, fill, fillAge, seq, hist, air, nacks, rx, timer>>
    BY <1>1 DEF vars, sender
  <2>2. ReceiverOK'
    BY <2>1, ReceiverStays DEF BInv
  <2> QED
    BY <2>1, <2>2 DEF BInv, SenderOK, AirOK
<1>2. CASE Next
  BY <1>2, AddFrameKeeps, SendAgedKeeps, HandleNackKeeps, RestartKeeps, ReceiveKeeps,
     HoldTimerKeeps, LossKeeps, TickKeeps DEF Next
<1> QED
  BY <1>1, <1>2

\* The bundle being filled, the history and the hold stay in their arrays
\* (wifi_tx_bundle_t and the slots of the bridge, wifi_bundle_rx_t): a frame
\* always finds room, an answer to a NACK is never longer than the history, and
\* a full hold gives its gap up before it takes another bundle.
BuffersBounded ==
  Len(fill) < PerBundle /\ Len(hist) <= History /\ Cardinality(rx.held) <= HoldMax

THEOREM BuffersHold == Spec => []BuffersBounded
<1>1. BInv => BuffersBounded
  BY DEF BInv, SenderOK, ReceiverOK, EntryOK, Fits, BuffersBounded
<1> QED
  BY <1>1, InitBInv, NextBInv, PTL DEF Spec

\* A time runs exactly while something is held, whichever side receives
\* (deadline_us of wifi_bundle_rx_t and its array of held bundles).
TimeRunsIffHeld == rx.held = {} <=> rx.deadline = None

THEOREM TimeRuns == Spec => []TimeRunsIffHeld
<1>1. BInv => TimeRunsIffHeld
  <2> SUFFICES ASSUME BInv PROVE TimeRunsIffHeld
    OBVIOUS
  <2>1. Low(LowTime) /\ Waits(rx, LowTime) /\ rx.deadline \in Int
    BY LowTimeOK DEF BInv, ReceiverOK, EntryOK, Entries
  <2> QED
    BY <2>1, NoneType DEF Low, Waits, TimeRunsIffHeld
<1> QED
  BY <1>1, InitBInv, NextBInv, PTL DEF Spec

\* A station's hold timer is armed for the deadline of the gap after every
\* call, so that nothing waits behind a gap past its time although nothing more
\* arrives (wifi_hold_timer_arm, wifi_hold_timer_cb, wifi_bundle_poll).
THEOREM HeldInTime == Spec => []HeldReleased
<1>1. BInv => HeldReleased
  BY DEF BInv, ReceiverOK, EntryOK, Waits, LowTime, HeldReleased
<1> QED
  BY <1>1, InitBInv, NextBInv, PTL DEF Spec

LEMMA SplitIsPdu ==
  ASSUME NEW t \in Frame, NEW f \in Frame
  PROVE  SplitEntry(t, Entry(t, f)) = Pdu[f]
<1> DEFINE H == {Pdu[g].head : g \in 1..MaxFrame}
<1>1. Pdu \in [1..MaxFrame -> [head : H, low : BOOLEAN]]
  BY Zenon, BundleAssumption
<1> HIDE DEF H
<1>2. Pdu[f] = [head |-> Pdu[f].head, low |-> Pdu[f].low] /\ Pdu[f].low \in BOOLEAN
  BY <1>1 DEF Frame
<1> DEFINE e == Entry(t, f)
<1>3. /\ e.n = f /\ (e.own <=> Pdu[f].head # Pdu[t].head)
      /\ (e.packed <=> Packable(f))
  BY DEF Entry
<1>4. Packable(f) => ~Pdu[f].low
  BY DEF Packable
<1> HIDE DEF e
<1>5. Pdu[IF e.own THEN e.n ELSE t].head = Pdu[f].head
  BY <1>3
<1> DEFINE l == Pdu[e.n].low /\ ~e.packed
<1>6. l = Pdu[f].low
  <2>1. CASE Pdu[f].low
    BY Zenon, <1>2, <1>3, <1>4, <2>1
  <2>2. CASE ~Pdu[f].low
    BY Zenon, <1>2, <1>3, <2>2
  <2> QED
    BY <2>1, <2>2
<1>7. SplitEntry(t, e) = [head |-> Pdu[IF e.own THEN e.n ELSE t].head, low |-> l]
  BY Zenon DEF SplitEntry
<1> HIDE DEF l
<1> QED
  BY <1>2, <1>5, <1>6, <1>7 DEF e

\* Every bundle under way, a copy out of the history or the bundle itself,
\* splits into the frames that were put into it: the template, the headers that
\* differ from it and the octets left out come back (wifi_compact_put,
\* wifi_bundle_split_compact).
THEOREM BundlesSplit == Spec => []SplitRestores
<1>1. BInv => SplitRestores
  <2> SUFFICES ASSUME BInv, NEW i \in DOMAIN air, NEW k \in DOMAIN air[i].frames
               PROVE  SplitEntry(air[i].frames[1], Entry(air[i].frames[1], air[i].frames[k]))
                        = Pdu[air[i].frames[k]]
    BY DEF SplitRestores
  <2> DEFINE fs == air[i].frames
  <2>1. air[i] \in AirBundle
    BY ElementOfSeq, LenProperties DEF BInv, AirOK
  <2>2. fs \in Seq(Frame)
    BY <2>1 DEF AirBundle
  <2>3. k \in 1..Len(fs) /\ Len(fs) \in Nat
    BY <2>2, LenProperties
  <2>4. 1 \in 1..Len(fs)
    BY <2>3
  <2> HIDE DEF fs
  <2>5. fs[1] \in Frame /\ fs[k] \in Frame
    BY <2>2, <2>3, <2>4, ElementOfSeq
  <2> QED
    BY <2>5, SplitIsPdu DEF fs
<1> QED
  BY <1>1, InitBInv, NextBInv, PTL DEF Spec

-----------------------------------------------------------------------------
(* Uplink, with nothing lost and no reboot.  What is under way follows what  *)
(* was received without a gap, so that nothing is ever held, nor asked for;  *)
(* and what is sent is no older than the bundle it was put into.             *)

Calm == uplink /\ lost = 0 /\ restarts = 0

\* The number of the i-th bundle under way, or the sender's next.
Slot(q, s, i) == IF i = Len(q) + 1 THEN s ELSE q[i].seq

Chain(q, s) == \A i \in 1..Len(q) : Slot(q, s, i + 1) = Later(q[i].seq, 1)

AgesOK(q, a) ==
  /\ \A i \in 1..Len(q) : \A j \in i..Len(q) : q[j].age <= q[i].age
  /\ \A i \in 1..Len(q) :
       /\ q[i].age <= Delay
       /\ \A k \in 1..Len(q[i].frames) : a[q[i].frames[k]] <= LeftAge + q[i].age

FillYoung(f, fa, a) == fa <= LeftAge => \A k \in 1..Len(f) : a[f[k]] <= fa

CalmOK ==
  /\ rx.held = {} /\ nacks = <<>> /\ played \in Seq(Frame)
  /\ Chain(air, seq) /\ (rx.seeded => rx.expected = Slot(air, seq, 1))
  /\ AgesOK(air, age)
  /\ age \in [Frame -> Nat] /\ \A f \in Frame : f > made => age[f] = 0
  /\ FillYoung(fill, fillAge, age)

CalmInv == lost \in Nat /\ restarts \in Nat /\ (Calm => CalmOK)

LEMMA ChainAppend ==
  ASSUME NEW q \in Seq(AirBundle), NEW s \in Number, NEW f \in Seq(Frame), Chain(q, s)
  PROVE  LET n == Append(q, Sent(s, f))
             t == Later(s, 1)
         IN  Chain(n, t) /\ Slot(n, t, 1) = Slot(q, s, 1)
<1> DEFINE x == Sent(s, f)
           n == Append(q, x)
           t == Later(s, 1)
<1>1. x \in AirBundle /\ x.seq = s
  BY SentType DEF Sent
<1> HIDE DEF x, t
<1>2. /\ n \in Seq(AirBundle) /\ Len(n) = Len(q) + 1 /\ Len(q) \in Nat
      /\ \A i \in 1..Len(q) : n[i] = q[i]
      /\ n[Len(q) + 1] = x
  BY <1>1, AppendProperties, LenProperties
<1> HIDE DEF n
<1>3. ASSUME NEW i \in 1..Len(n) PROVE Slot(n, t, i + 1) = Later(n[i].seq, 1)
  <2>1. CASE i = Len(q) + 1
    <3>1. i + 1 = Len(n) + 1 /\ n[i].seq = s
      BY <1>1, <1>2, <2>1
    <3> QED
      BY <3>1 DEF Slot, t
  <2>2. CASE i # Len(q) + 1
    <3>1. i \in 1..Len(q) /\ i + 1 # Len(n) + 1 /\ n[i] = q[i]
      BY <1>2, <2>2
    <3>2. Slot(q, s, i + 1) = Later(q[i].seq, 1)
      BY <3>1 DEF Chain
    <3>3. Slot(n, t, i + 1) = n[i + 1].seq
      BY <3>1 DEF Slot
    <3>4. n[i + 1].seq = Slot(q, s, i + 1)
      <4>1. CASE i = Len(q)
        BY <1>1, <1>2, <4>1 DEF Slot
      <4>2. CASE i # Len(q)
        <5>1. i + 1 \in 1..Len(q) /\ i + 1 # Len(q) + 1
          BY <1>2, <3>1, <4>2
        <5> QED
          BY <1>2, <5>1 DEF Slot
      <4> QED
        BY <4>1, <4>2
    <3> QED
      BY <3>1, <3>2, <3>3, <3>4
  <2> QED
    BY <2>1, <2>2
<1>4. Slot(n, t, 1) = Slot(q, s, 1)
  <2>1. CASE Len(q) = 0
    BY <1>1, <1>2, <2>1 DEF Slot
  <2>2. CASE Len(q) # 0
    <3>1. 1 \in 1..Len(q) /\ 1 # Len(q) + 1 /\ 1 # Len(n) + 1
      BY <1>2, <2>2
    <3> QED
      BY <1>2, <3>1 DEF Slot
  <2> QED
    BY <2>1, <2>2
<1> QED
  BY <1>3, <1>4 DEF Chain, n, t, x

LEMMA ChainTail ==
  ASSUME NEW q \in Seq(AirBundle), q # <<>>, NEW s \in Number, Chain(q, s)
  PROVE  Chain(Tail(q), s) /\ Slot(Tail(q), s, 1) = Later(q[1].seq, 1)
         /\ Slot(q, s, 1) = q[1].seq
<1> DEFINE n == Tail(q)
<1>1. /\ n \in Seq(AirBundle) /\ Len(n) = Len(q) - 1 /\ Len(q) \in Nat \ {0}
      /\ Len(n) \in Nat /\ \A i \in 1..Len(n) : n[i] = q[i + 1]
  BY HeadTailProperties, LenProperties, EmptySeq
<1> HIDE DEF n
<1>2. ASSUME NEW i \in 0..Len(n) PROVE Slot(n, s, i + 1) = Slot(q, s, i + 2)
  <2>1. CASE i = Len(n)
    <3>1. i + 1 = Len(n) + 1 /\ i + 2 = Len(q) + 1
      BY <1>1, <2>1
    <3> QED
      BY <3>1 DEF Slot
  <2>2. CASE i # Len(n)
    <3>1. i + 1 \in 1..Len(n) /\ i + 1 # Len(n) + 1 /\ i + 2 # Len(q) + 1
          /\ (i + 1) + 1 = i + 2
      BY <1>1, <2>2
    <3>2. n[i + 1] = q[i + 2]
      BY <1>1, <3>1
    <3> QED
      BY <3>1, <3>2 DEF Slot
  <2> QED
    BY <2>1, <2>2
<1>3. ASSUME NEW i \in 1..Len(n) PROVE Slot(n, s, i + 1) = Later(n[i].seq, 1)
  <2>1. i \in 0..Len(n) /\ i + 1 \in 1..Len(q) /\ n[i] = q[i + 1] /\ (i + 1) + 1 = i + 2
    BY <1>1
  <2>2. Slot(q, s, (i + 1) + 1) = Later(q[i + 1].seq, 1)
    BY <2>1 DEF Chain
  <2> QED
    BY <1>2, <2>1, <2>2
<1>4. Slot(n, s, 1) = Later(q[1].seq, 1)
  <2>1. 0 \in 0..Len(n) /\ 0 + 1 = 1 /\ 0 + 2 = 2 /\ 1 + 1 = 2 /\ 1 \in 1..Len(q)
    BY <1>1
  <2>2. Slot(n, s, 1) = Slot(q, s, 2)
    BY <1>2, <2>1
  <2>3. Slot(q, s, 1 + 1) = Later(q[1].seq, 1)
    BY <2>1 DEF Chain
  <2> QED
    BY <2>1, <2>2, <2>3
<1>5. Slot(q, s, 1) = q[1].seq
  BY <1>1 DEF Slot
<1> QED
  BY <1>3, <1>4, <1>5 DEF Chain, n

LEMMA AgesAppend ==
  ASSUME NEW q \in Seq(AirBundle), NEW a, NEW s \in Number, NEW f \in Seq(Frame),
         AgesOK(q, a), \A k \in 1..Len(f) : a[f[k]] <= LeftAge
  PROVE  AgesOK(Append(q, Sent(s, f)), a)
<1> DEFINE x == Sent(s, f)
           n == Append(q, x)
<1>1. x \in AirBundle /\ x.age = 0 /\ x.frames = f
  BY SentType DEF Sent
<1> HIDE DEF x
<1>2. /\ n \in Seq(AirBundle) /\ Len(n) = Len(q) + 1 /\ Len(q) \in Nat
      /\ \A i \in 1..Len(q) : n[i] = q[i]
      /\ n[Len(q) + 1] = x
  BY <1>1, AppendProperties, LenProperties
<1> HIDE DEF n
<1>3. \A i \in 1..Len(n) : n[i].age \in Nat
  <2> TAKE i \in 1..Len(n)
  <2>1. n[i] \in AirBundle
    BY <1>2, ElementOfSeq
  <2> QED
    BY <2>1 DEF AirBundle
<1>4. ASSUME NEW i \in 1..Len(n), NEW j \in i..Len(n) PROVE n[j].age <= n[i].age
  <2>1. CASE j = Len(q) + 1
    BY <1>1, <1>2, <1>3, <2>1
  <2>2. CASE j # Len(q) + 1
    <3>1. i \in 1..Len(q) /\ j \in i..Len(q) /\ j \in 1..Len(q)
      BY <1>2, <2>2
    <3>2. q[j].age <= q[i].age
      BY <3>1 DEF AgesOK
    <3> QED
      BY <1>2, <3>1, <3>2
  <2> QED
    BY <2>1, <2>2
<1>5. ASSUME NEW i \in 1..Len(n)
      PROVE  /\ n[i].age <= Delay
             /\ \A k \in 1..Len(n[i].frames) : a[n[i].frames[k]] <= LeftAge + n[i].age
  <2>1. CASE i = Len(q) + 1
    <3>1. n[i].age = 0 /\ n[i].frames = f /\ LeftAge + 0 = LeftAge /\ 0 <= Delay
      BY <1>1, <1>2, <2>1, Constants
    <3> QED
      BY <3>1
  <2>2. CASE i # Len(q) + 1
    <3>1. i \in 1..Len(q)
      BY <1>2, <2>2
    <3> QED
      BY <1>2, <3>1 DEF AgesOK
  <2> QED
    BY <2>1, <2>2
<1> QED
  BY <1>4, <1>5 DEF AgesOK, n, x

LEMMA AgesTail ==
  ASSUME NEW q \in Seq(AirBundle), q # <<>>, NEW a, AgesOK(q, a)
  PROVE  AgesOK(Tail(q), a)
<1> DEFINE n == Tail(q)
<1>1. /\ Len(n) = Len(q) - 1 /\ Len(q) \in Nat \ {0} /\ Len(n) \in Nat
      /\ \A i \in 1..Len(n) : n[i] = q[i + 1]
  BY HeadTailProperties, LenProperties, EmptySeq
<1> HIDE DEF n
<1>2. ASSUME NEW i \in 1..Len(n), NEW j \in i..Len(n) PROVE n[j].age <= n[i].age
  <2>1. /\ i + 1 \in 1..Len(q) /\ j + 1 \in (i + 1)..Len(q)
        /\ n[i] = q[i + 1] /\ n[j] = q[j + 1]
    BY <1>1
  <2> QED
    BY <2>1 DEF AgesOK
<1>3. ASSUME NEW i \in 1..Len(n)
      PROVE  /\ n[i].age <= Delay
             /\ \A k \in 1..Len(n[i].frames) : a[n[i].frames[k]] <= LeftAge + n[i].age
  <2>1. i + 1 \in 1..Len(q) /\ n[i] = q[i + 1]
    BY <1>1
  <2> QED
    BY <2>1 DEF AgesOK
<1> QED
  BY <1>2, <1>3 DEF AgesOK, n

\* With nothing held, the bundle that is expected, or the first one, is
\* delivered at once, and nothing is asked for.
LEMMA ReceivedCalm ==
  ASSUME NEW low, EntryOK(rx, low), NEW h, NEW x \in AirBundle, rx.held = {},
         rx.seeded => rx.expected = x.seq
  PROVE  LET v == Received(x, h)
         IN  /\ v.rx.held = {} /\ v.nack = <<>> /\ v.out = x.frames
             /\ v.rx.expected = Later(x.seq, 1)
<1> DEFINE r == Fresh(rx, x)
           yes == TRUE
           f == [rx EXCEPT !.seeded = yes, !.held = {}, !.deadline = None,
                           !.expected = x.seq, !.next = x.seq]
           e == Later(x.seq, 1)
           after == IF Ahead(e, r.next) > 0 THEN e ELSE r.next
           q == [r EXCEPT !.expected = e, !.next = after]
           d == Drain(q, h)
           p == Placed(r, x, h)
           v == Received(x, h)
<1>1. rx \in Entries /\ x.seq \in Number /\ x.frames \in Seq(Frame)
  BY DEF EntryOK, AirBundle
<1>2. Ahead(x.seq, x.seq) = 0
  BY <1>1, AheadSame
<1>3. r.held = {} /\ r.expected = x.seq /\ r \in Entries
  <2> HIDE DEF yes
  <2>1. f.held = {} /\ f.expected = x.seq /\ f \in Entries
    BY <1>1, NoneType DEF Entries, yes
  <2>2. r = IF ~rx.seeded \/ Strayed(rx, x) THEN f ELSE rx
    BY DEF Fresh, yes
  <2>3. CASE rx.seeded
    <3>1. ~Strayed(rx, x)
      BY <1>2, <2>3, WordType DEF Strayed
    <3> QED
      BY <1>1, <2>2, <2>3, <3>1
  <2>4. CASE ~rx.seeded
    <3> HIDE DEF f, r
    <3> QED
      BY <2>1, <2>2, <2>4
  <2> QED
    BY <2>3, <2>4
<1> HIDE DEF f
<1>4. \/ v.rx = p.rx /\ v.out = p.out /\ v.nack = p.nack
      \/ p # [rx |-> p.rx, out |-> p.out, nack |-> p.nack, gave |-> p.gave]
  <2> DEFINE g == p.gave \/ (rx.seeded /\ Strayed(rx, x))
  <2>1. v = [p EXCEPT !.gave = g]
    <3>1. Cardinality({}) = 0
      BY FS_EmptySet
    <3>2. ~(Cardinality(r.held) >= HoldMax)
      BY <1>3, <3>1, WordType
    <3> QED
      BY Zenon, <3>2 DEF Received
  <2> HIDE DEF p, g, v
  <2> SUFFICES ASSUME p = [rx |-> p.rx, out |-> p.out, nack |-> p.nack, gave |-> p.gave]
               PROVE  v.rx = p.rx /\ v.out = p.out /\ v.nack = p.nack
    OBVIOUS
  <2>2. v = [rx |-> p.rx, out |-> p.out, nack |-> p.nack, gave |-> g]
    BY <2>1
  <2> QED
    BY <2>2
<1> HIDE DEF r, after, v
<1>5. q.held = {} /\ q.expected = e
  BY <1>3 DEF Entries
<1>6. d = Quiet(q)
  BY <1>5 DEF Drain, Seqs
<1>7. p = [d EXCEPT !.out = x.frames \o @]
  <2> DEFINE o == [d EXCEPT !.out = x.frames \o @]
             w == IF x.seq \in Seqs(r.held) THEN Drain(r, h) ELSE Hold(r, x, h)
             ahead == Ahead(x.seq, r.expected)
  <2>1. p = CASE ahead < 0 -> Quiet(r) [] ahead = 0 -> o [] ahead > 0 -> w
    BY Zenon, <1>3 DEF Placed, after
  <2>2. ahead = 0
    BY <1>2, <1>3
  <2> HIDE DEF o, w, p, ahead
  <2> QED
    BY <2>1, <2>2 DEF o
<1> HIDE DEF q, p, d
<1>8. p = [rx |-> q, out |-> x.frames \o <<>>, nack |-> <<>>, gave |-> FALSE]
  <2> DEFINE no == FALSE
             fs == x.frames \o <<>>
             nil == <<>>
  <2>1. d = [rx |-> q, out |-> nil, nack |-> nil, gave |-> no]
    BY <1>6 DEF Quiet
  <2>2. p = [d EXCEPT !.out = x.frames \o @]
    BY <1>7
  <2> HIDE DEF no, nil
  <2>3. d.out = nil
    BY <2>1
  <2>4. p = [rx |-> q, out |-> x.frames \o nil, nack |-> nil, gave |-> no]
    BY <2>1, <2>2, <2>3
  <2> QED
    BY <2>4 DEF no, nil
<1>9. x.frames \o <<>> = x.frames
  BY <1>1
<1>10. p.rx = q /\ p.out = x.frames /\ p.nack = <<>>
       /\ p = [rx |-> p.rx, out |-> p.out, nack |-> p.nack, gave |-> p.gave]
  <2> DEFINE no == FALSE
  <2>1. p = [rx |-> q, out |-> x.frames, nack |-> <<>>, gave |-> no]
    BY <1>8, <1>9
  <2> HIDE DEF no
  <2> QED
    BY <2>1
<1> QED
  BY <1>4, <1>5, <1>10 DEF v, e

\* Ages that are no more than they were.
LEMMA AgesLess ==
  ASSUME NEW q \in Seq(AirBundle), NEW a \in [Frame -> Nat], NEW b \in [Frame -> Nat],
         \A f \in Frame : b[f] <= a[f], AgesOK(q, a)
  PROVE  AgesOK(q, b)
<1>1. ASSUME NEW i \in 1..Len(q), NEW k \in 1..Len(q[i].frames)
      PROVE  b[q[i].frames[k]] <= LeftAge + q[i].age
  <2> DEFINE f == q[i].frames[k]
  <2>1. q[i] \in AirBundle
    BY ElementOfSeq
  <2>2. q[i].frames \in Seq(Frame) /\ q[i].age \in Nat
    BY <2>1 DEF AirBundle
  <2>3. f \in Frame
    BY <2>2, ElementOfSeq
  <2>4. a[f] <= LeftAge + q[i].age
    BY DEF AgesOK
  <2> HIDE DEF f
  <2>5. a[f] \in Nat /\ b[f] \in Nat /\ b[f] <= a[f]
    BY <2>3
  <2>6. b[f] <= LeftAge + q[i].age
    BY <2>2, <2>4, <2>5, Constants
  <2> QED
    BY <2>6 DEF f
<1> QED
  BY <1>1 DEF AgesOK

LEMMA AddFrameCalm ==
  ASSUME BInv, Calm, CalmOK, AddFrame
  PROVE  CalmOK'
<1>1. /\ made + 1 \in Frame /\ Old1 \in Seq(Frame) /\ Mine \in Seq(Frame)
      /\ Old1 \in {fill, <<>>} /\ Seq1 \in Number
      /\ made' = made + 1
      /\ fill' = IF Full THEN <<>> ELSE Mine
      /\ fillAge' = IF Len(Mine) = 1 THEN 0 ELSE fillAge
      /\ seq' = IF Full THEN Later(Seq1, 1) ELSE Seq1
      /\ air' = IF Full THEN Append(Air1, Sent(Seq1, Mine)) ELSE Air1
  BY AddFrameHalves DEF BInv
<1>2. UNCHANGED <<rx, nacks, played, age>>
  BY DEF AddFrame
<1>3. /\ air \in Seq(AirBundle) /\ seq \in Number /\ fillAge \in Nat /\ made \in Nat
      /\ age \in [Frame -> Nat] /\ fill \in Seq(Frame) /\ LeftAge \in Nat
  BY Constants DEF BInv, SenderOK, AirOK, CalmOK
<1>4. age[made + 1] = 0
  BY <1>1, <1>3 DEF CalmOK
<1>5. Old1 # <<>> => Old1 = fill /\ fillAge <= LeftAge
  <2>1. uplink
    BY DEF Calm
  <2>2. CASE fillAge > LeftAge
    BY <2>1, <2>2 DEF Old1, StillFilled
  <2>3. CASE ~(fillAge > LeftAge)
    BY <1>1, <1>3, <2>3
  <2> QED
    BY <2>2, <2>3
<1>6. \A k \in 1..Len(Old1) : age[Old1[k]] \in Nat /\ age[Old1[k]] <= fillAge
                               /\ fillAge <= LeftAge
  <2> TAKE k \in 1..Len(Old1)
  <2>1. Old1 # <<>>
    BY <1>1, EmptySeq
  <2>2. Old1[k] \in Frame
    BY <1>1, ElementOfSeq
  <2>3. \A l \in 1..Len(fill) : age[fill[l]] <= fillAge
    BY <1>5, <2>1 DEF CalmOK, FillYoung
  <2> QED
    BY <1>3, <1>5, <2>1, <2>2, <2>3
<1>7. \A k \in 1..Len(Old1) : age[Old1[k]] <= LeftAge
  BY <1>3, <1>6
<1>8. /\ Air1 \in Seq(AirBundle) /\ Chain(Air1, Seq1) /\ AgesOK(Air1, age)
      /\ Slot(Air1, Seq1, 1) = Slot(air, seq, 1)
  <2>1. Chain(air, seq) /\ AgesOK(air, age)
    BY DEF CalmOK
  <2>2. CASE Flush
    <3>1. Air1 = Append(air, Sent(seq, Old1)) /\ Seq1 = Later(seq, 1)
      BY <2>2 DEF Air1, Seq1
    <3>2. Sent(seq, Old1) \in AirBundle
      BY <1>1, <1>3, SentType
    <3>3. Air1 \in Seq(AirBundle)
      BY <1>3, <3>1, <3>2, AppendProperties
    <3>4. Chain(Air1, Seq1) /\ Slot(Air1, Seq1, 1) = Slot(air, seq, 1)
      BY <1>1, <1>3, <2>1, <3>1, ChainAppend
    <3>5. AgesOK(Air1, age)
      BY <1>1, <1>3, <1>7, <2>1, <3>1, AgesAppend
    <3> QED
      BY <3>3, <3>4, <3>5
  <2>3. CASE ~Flush
    BY <1>3, <2>1, <2>3 DEF Air1, Seq1
  <2> QED
    BY <2>2, <2>3
<1>9. \A k \in 1..Len(Mine) : age[Mine[k]] <= LeftAge /\ age[Mine[k]] <= fillAge'
  <2>1. CASE Old1 = <<>> \/ Flush
    <3>1. Mine = <<made + 1>>
      <4>1. Append(<<>>, made + 1) = <<made + 1>>
        BY <1>1
      <4> QED
        BY <2>1, <4>1 DEF Mine
    <3>2. Len(Mine) = 1 /\ fillAge' = 0
      BY <1>1, <3>1
    <3> QED
      BY <1>3, <1>4, <3>1, <3>2
  <2>2. CASE Old1 # <<>> /\ ~Flush
    <3>1. Mine = Append(Old1, made + 1)
      BY <2>2 DEF Mine
    <3>2. /\ Len(Mine) = Len(Old1) + 1 /\ Len(Old1) \in Nat \ {0}
          /\ \A k \in 1..Len(Old1) : Mine[k] = Old1[k]
          /\ Mine[Len(Old1) + 1] = made + 1
      BY <1>1, <2>2, <3>1, AppendProperties, LenProperties, EmptySeq
    <3>3. fillAge' = fillAge
      BY <1>1, <3>2
    <3> TAKE k \in 1..Len(Mine)
    <3>4. CASE k \in 1..Len(Old1)
      BY <1>6, <1>7, <3>2, <3>3, <3>4
    <3>5. CASE k = Len(Old1) + 1
      BY <1>3, <1>4, <3>2, <3>3, <3>5
    <3> QED
      BY <3>2, <3>4, <3>5
  <2> QED
    BY <2>1, <2>2
<1>10. /\ Chain(air', seq') /\ AgesOK(air', age)
       /\ Slot(air', seq', 1) = Slot(air, seq, 1)
  <2>1. CASE Full
    <3>1. air' = Append(Air1, Sent(Seq1, Mine)) /\ seq' = Later(Seq1, 1)
      BY <1>1, <2>1
    <3>2. Chain(air', seq') /\ Slot(air', seq', 1) = Slot(Air1, Seq1, 1)
      BY <1>1, <1>8, <3>1, ChainAppend
    <3>3. AgesOK(air', age)
      BY <1>1, <1>8, <1>9, <3>1, AgesAppend
    <3> QED
      BY <1>8, <3>2, <3>3
  <2>2. CASE ~Full
    BY <1>1, <1>8, <2>2
  <2> QED
    BY <2>1, <2>2
<1>11. FillYoung(fill', fillAge', age)
  <2>1. CASE Full
    <3>1. fill' = <<>> /\ Len(<<>>) = 0
      BY <1>1, <2>1
    <3> QED
      BY <3>1 DEF FillYoung
  <2>2. CASE ~Full
    BY <1>1, <1>9, <2>2 DEF FillYoung
  <2> QED
    BY <2>1, <2>2
<1>12. \A f \in Frame : f > made' => age[f] = 0
  BY <1>1, <1>3 DEF CalmOK, Frame
<1> QED
  BY <1>2, <1>10, <1>11, <1>12 DEF CalmOK

LEMMA ReceiveCalm ==
  ASSUME BInv, Calm, CalmOK, Receive
  PROVE  CalmOK' /\ played' = played \o air[1].frames
<1>1. PICK h \in HoldTime : LET v == Received(Head(air), h) IN
                            Result(v) /\ nacks' = nacks \o v.nack
  BY DEF Receive
<1> DEFINE x == Head(air)
           v == Received(x, h)
<1>2. air # <<>> /\ air' = Tail(air) /\ UNCHANGED <<made, fill, fillAge, seq>>
  BY DEF Receive, sender
<1>3. air \in Seq(AirBundle) /\ seq \in Number /\ Len(air) \in Nat \ {0}
  BY <1>2, LenProperties, EmptySeq DEF BInv, AirOK, SenderOK
<1>4. x = air[1] /\ x \in AirBundle
  BY <1>2, <1>3, HeadTailProperties
<1>5. Chain(air', seq) /\ Slot(air', seq, 1) = Later(x.seq, 1) /\ Slot(air, seq, 1) = x.seq
  BY <1>2, <1>3, <1>4, ChainTail DEF CalmOK
<1>6. /\ v.rx.held = {} /\ v.nack = <<>> /\ v.out = x.frames
      /\ v.rx.expected = Later(x.seq, 1)
  <2> HIDE DEF x
  <2>1. rx.held = {} /\ (rx.seeded => rx.expected = x.seq)
    BY <1>5 DEF CalmOK
  <2> QED
    BY <1>4, <2>1, ReceivedCalm DEF BInv, ReceiverOK
<1>7. Result(v) /\ nacks' = nacks \o v.nack
  BY <1>1
<1> HIDE DEF v, x
<1>8. rx' = v.rx /\ played' = played \o x.frames /\ nacks' = <<>>
  BY <1>6, <1>7 DEF Result, CalmOK
<1>9. played' \in Seq(Frame)
  BY <1>4, <1>8, ConcatProperties DEF CalmOK, AirBundle
<1>10. /\ age \in [Frame -> Nat] /\ age' \in [Frame -> Nat]
       /\ \A f \in Frame : age'[f] <= age[f] /\ (age[f] = 0 => age'[f] = 0)
  <2>1. age \in [Frame -> Nat]
    BY DEF CalmOK
  <2>2. age' = [f \in Frame |-> IF f \in Range(v.out) THEN 0 ELSE age[f]]
    BY <1>7 DEF Result
  <2> QED
    BY <2>1, <2>2
<1>11. AgesOK(air', age')
  <2>1. AgesOK(air', age) /\ air' \in Seq(AirBundle)
    BY <1>2, <1>3, AgesTail, HeadTailProperties DEF CalmOK
  <2> QED
    BY <1>10, <2>1, AgesLess
<1>12. FillYoung(fill', fillAge', age')
  <2> SUFFICES ASSUME fillAge <= LeftAge, NEW k \in 1..Len(fill)
               PROVE  age'[fill[k]] <= fillAge
    BY <1>2 DEF FillYoung
  <2>1. fill[k] \in Frame /\ fillAge \in Nat
    BY ElementOfSeq DEF BInv, SenderOK
  <2>2. age[fill[k]] <= fillAge
    BY DEF CalmOK, FillYoung
  <2>3. age'[fill[k]] \in Nat /\ age[fill[k]] \in Nat
    BY <1>10, <2>1
  <2> QED
    BY <1>10, <2>1, <2>2, <2>3
<1> QED
  BY <1>2, <1>4, <1>5, <1>6, <1>8, <1>9, <1>10, <1>11, <1>12 DEF CalmOK

LEMMA TickCalm ==
  ASSUME BInv, Calm, CalmOK, Tick
  PROVE  CalmOK'
<1>1. /\ air # <<>> => Head(air).age < Delay
      /\ age' = [f \in Frame |-> IF f <= made /\ f \notin Range(played)
                                 THEN UpTo(age[f], Old + 1) ELSE age[f]]
      /\ fillAge' = UpTo(fillAge, LeftAge + 1)
      /\ air' = Older(air) /\ nacks' = Older(nacks)
      /\ rx' = [rx EXCEPT !.deadline = Sooner(@), !.nacked = UpTo(@, Repeat)]
      /\ UNCHANGED <<made, fill, seq, played>>
  BY DEF Tick
<1>2. /\ air \in Seq(AirBundle) /\ Len(air) \in Nat /\ age \in [Frame -> Nat]
      /\ made \in Nat /\ fill \in Seq(Frame) /\ fillAge \in Nat /\ nacks = <<>>
      /\ LeftAge \in Nat /\ Delay \in Nat
  BY LenProperties, Constants DEF BInv, AirOK, SenderOK, CalmOK
<1>3. nacks' = <<>>
  <2>1. nacks' = [i \in DOMAIN nacks |-> [nacks[i] EXCEPT !.age = @ + 1]]
    BY <1>1 DEF Older
  <2>2. DOMAIN nacks = {}
    BY <1>2
  <2> QED
    BY <2>1, <2>2
<1>4. rx'.held = rx.held /\ rx'.expected = rx.expected /\ rx'.seeded = rx.seeded
  BY <1>1 DEF BInv, ReceiverOK, EntryOK, Entries
<1>5. /\ Len(air') = Len(air)
      /\ \A i \in 1..Len(air) : /\ air'[i].seq = air[i].seq
                                /\ air'[i].frames = air[i].frames
                                /\ air[i].age \in Nat /\ air'[i].age = air[i].age + 1
  <2>1. /\ Len(air') = Len(air)
        /\ \A i \in 1..Len(air) : air'[i] = [air[i] EXCEPT !.age = @ + 1]
    BY <1>1, TickAir DEF BInv
  <2> SUFFICES ASSUME NEW i \in 1..Len(air)
               PROVE  /\ air'[i].seq = air[i].seq /\ air'[i].frames = air[i].frames
                      /\ air[i].age \in Nat /\ air'[i].age = air[i].age + 1
    BY <2>1
  <2>2. air[i] \in AirBundle
    BY <1>2, ElementOfSeq
  <2> QED
    BY <2>1, <2>2 DEF AirBundle
<1>6. /\ age' \in [Frame -> Nat]
      /\ \A f \in Frame : age'[f] <= age[f] + 1 /\ (f > made => age'[f] = age[f])
  <2>1. \A f \in Frame : /\ UpTo(age[f], Old + 1) \in {age[f], age[f] + 1}
                         /\ age[f] \in Nat /\ UpTo(age[f], Old + 1) \in Nat
    BY <1>2, UpToType
  <2>2. \A f \in Frame : f \in Int
    BY <1>2, Constants DEF Frame
  <2> QED
    BY <1>1, <1>2, <2>1, <2>2
<1>7. Chain(air', seq') /\ Slot(air', seq', 1) = Slot(air, seq, 1)
  <2>1. \A i \in 1..(Len(air) + 1) : Slot(air', seq', i) = Slot(air, seq, i)
    BY <1>1, <1>2, <1>5 DEF Slot
  <2>2. \A i \in 1..Len(air) : i + 1 \in 1..(Len(air) + 1)
    BY <1>2
  <2>3. 1 \in 1..(Len(air) + 1)
    BY <1>2
  <2> QED
    BY <1>5, <2>1, <2>2, <2>3 DEF Chain, CalmOK
<1>8. AgesOK(air', age')
  <2>1. ASSUME NEW i \in 1..Len(air), NEW j \in i..Len(air)
        PROVE  air'[j].age <= air'[i].age
    <3>1. j \in 1..Len(air) /\ air[j].age <= air[i].age
      BY <1>2 DEF CalmOK, AgesOK
    <3> QED
      BY <1>5, <3>1
  <2>2. ASSUME NEW i \in 1..Len(air) PROVE air'[i].age <= Delay
    <3>1. 1 \in 1..Len(air) /\ i \in 1..Len(air) /\ air # <<>>
      BY <1>2, EmptySeq
    <3>2. air[1].age < Delay
      BY <1>1, <1>2, <3>1, HeadTailProperties
    <3>3. air[i].age <= air[1].age
      BY <1>2, <3>1 DEF CalmOK, AgesOK
    <3> QED
      BY <1>2, <1>5, <3>1, <3>2, <3>3
  <2>3. ASSUME NEW i \in 1..Len(air), NEW k \in 1..Len(air'[i].frames)
        PROVE  age'[air'[i].frames[k]] <= LeftAge + air'[i].age
    <3> DEFINE f == air[i].frames[k]
    <3>1. air'[i].frames = air[i].frames /\ k \in 1..Len(air[i].frames)
      BY <1>5
    <3>2. air[i] \in AirBundle
      BY <1>2, ElementOfSeq
    <3>3. air[i].frames \in Seq(Frame)
      BY <3>2 DEF AirBundle
    <3>4. f \in Frame
      BY <3>1, <3>3, ElementOfSeq
    <3>5. age[f] <= LeftAge + air[i].age
      BY <3>1 DEF CalmOK, AgesOK
    <3>6. air'[i].frames[k] = f
      BY <3>1
    <3> HIDE DEF f
    <3>7. age'[f] <= LeftAge + air'[i].age
      <4>1. age[f] \in Nat /\ age'[f] \in Nat /\ age'[f] <= age[f] + 1
        BY <1>2, <1>6, <3>4
      <4>2. air[i].age \in Nat /\ air'[i].age = air[i].age + 1
        BY <1>5
      <4> QED
        BY <1>2, <3>5, <4>1, <4>2
    <3> QED
      BY <3>6, <3>7
  <2> QED
    BY <1>5, <2>1, <2>2, <2>3 DEF AgesOK
<1>9. FillYoung(fill', fillAge', age')
  <2> SUFFICES ASSUME fillAge' <= LeftAge, NEW k \in 1..Len(fill)
               PROVE  age'[fill[k]] <= fillAge'
    BY <1>1 DEF FillYoung
  <2>1. fillAge <= LeftAge /\ fillAge' = fillAge + 1
    BY <1>1, <1>2 DEF UpTo
  <2>2. fill[k] \in Frame
    BY <1>2, ElementOfSeq
  <2>3. age[fill[k]] <= fillAge
    BY <2>1 DEF CalmOK, FillYoung
  <2>4. age'[fill[k]] \in Nat /\ age[fill[k]] \in Nat /\ age'[fill[k]] <= age[fill[k]] + 1
    BY <1>2, <1>6, <2>2
  <2> QED
    BY <1>2, <2>1, <2>3, <2>4
<1>10. \A f \in Frame : f > made' => age'[f] = 0
  BY <1>1, <1>6 DEF CalmOK
<1> QED
  BY <1>1, <1>3, <1>4, <1>6, <1>7, <1>8, <1>9, <1>10 DEF CalmOK

LEMMA InitCalm == Init => CalmInv
<1> SUFFICES ASSUME Init PROVE CalmInv
  OBVIOUS
<1>1. /\ made = 0 /\ age = [f \in Frame |-> 0] /\ fill = <<>> /\ air = <<>>
      /\ nacks = <<>> /\ played = <<>> /\ lost = 0 /\ restarts = 0
      /\ rx.held = {} /\ rx.seeded = FALSE
  BY DEF Init
<1>2. Len(<<>>) = 0 /\ <<>> \in Seq(Frame)
  BY EmptySeq
<1> QED
  BY <1>1, <1>2 DEF CalmInv, CalmOK, Chain, AgesOK, FillYoung

\* The steps that a calm state does not take, or that end the calm.
LEMMA OthersCalm ==
  ASSUME BInv, CalmInv,
         \/ SendAged \/ HandleNack \/ Restart \/ HoldTimer \/ LoseBundle \/ LoseNack
  PROVE  /\ CalmInv'
         /\ Calm => played' = played
<1>1. /\ lost \in Nat /\ restarts \in Nat /\ uplink' = uplink
      /\ timer = Armed(rx) /\ (Calm => CalmOK)
  BY DEF CalmInv, BInv, ReceiverOK, SendAged, HandleNack, Restart, HoldTimer, LoseBundle,
         LoseNack
<1>2. CASE SendAged \/ HandleNack \/ HoldTimer \/ LoseNack
  <2>1. lost' = lost /\ restarts' = restarts
    BY <1>2 DEF SendAged, HandleNack, HoldTimer, LoseNack, bounds
  <2>2. ~Calm
    BY <1>1, <1>2 DEF Calm, CalmOK, Armed, SendAged, HandleNack, HoldTimer, LoseNack
  <2> QED
    BY <1>1, <2>1, <2>2 DEF Calm, CalmInv
<1>3. CASE Restart \/ LoseBundle
  <2>1. \/ lost' = lost /\ restarts' = restarts + 1
        \/ lost' = lost + 1 /\ restarts' = restarts
    BY <1>3 DEF Restart, LoseBundle
  <2>2. lost' \in Nat /\ restarts' \in Nat /\ ~(lost' = 0 /\ restarts' = 0)
    BY <1>1, <2>1
  <2>3. played' = played
    BY <1>3 DEF Restart, LoseBundle
  <2> QED
    BY <2>2, <2>3 DEF Calm, CalmInv
<1> QED
  BY <1>2, <1>3

LEMMA NextCalm ==
  ASSUME BInv, CalmInv, [Next]_vars
  PROVE  /\ CalmInv'
         /\ Calm => played' = played \/ (Receive /\ played' = played \o air[1].frames)
<1>1. CASE UNCHANGED vars
  BY <1>1 DEF vars, sender, bounds, Calm, CalmInv, CalmOK, Chain, Slot, AgesOK, FillYoung
<1>2. CASE AddFrame \/ Receive \/ Tick
  <2>1. UNCHANGED <<uplink, lost, restarts>>
    BY <1>2 DEF AddFrame, Receive, Tick, bounds
  <2>2. Calm' = Calm /\ lost \in Nat /\ restarts \in Nat /\ (Calm => CalmOK)
    BY <2>1 DEF Calm, CalmInv
  <2>3. Calm => CalmOK'
    BY <1>2, <2>2, AddFrameCalm, ReceiveCalm, TickCalm
  <2>4. AddFrame \/ Tick => played' = played
    BY DEF AddFrame, Tick
  <2>5. Calm /\ Receive => played' = played \o air[1].frames
    BY <2>2, ReceiveCalm
  <2> QED
    BY <1>2, <2>1, <2>2, <2>3, <2>4, <2>5 DEF CalmInv
<1>3. CASE SendAged \/ HandleNack \/ Restart \/ HoldTimer \/ LoseBundle \/ LoseNack
  BY <1>3, OthersCalm
<1> QED
  BY <1>1, <1>2, <1>3 DEF Next

LEMMA NothingLeftStep ==
  ASSUME BInv, CalmInv, [Next]_vars, Calm, NEW i \in DOMAIN played' \ DOMAIN played
  PROVE  age[played'[i]] <= LeftAge + Delay
<1>1. CalmOK /\ Receive /\ played' = played \o air[1].frames
  BY NextCalm DEF CalmInv
<1>2. air \in Seq(AirBundle) /\ 1 \in 1..Len(air)
  BY <1>1, LenProperties, EmptySeq DEF Receive, BInv, AirOK
<1> DEFINE fs == air[1].frames
<1>3. air[1] \in AirBundle
  BY <1>2, ElementOfSeq
<1>4. fs \in Seq(Frame) /\ air[1].age \in Nat
  BY <1>3 DEF AirBundle
<1>5. air[1].age <= Delay /\ \A k \in 1..Len(fs) : age[fs[k]] <= LeftAge + air[1].age
  BY <1>1, <1>2 DEF CalmOK, AgesOK
<1> HIDE DEF fs
<1>6. played \in Seq(Frame) /\ played' = played \o fs
  BY <1>1 DEF CalmOK, fs
<1>7. PICK k \in 1..Len(fs) : played'[i] = fs[k]
  <2>1. /\ DOMAIN played = 1..Len(played) /\ Len(played) \in Nat /\ Len(fs) \in Nat
        /\ DOMAIN played' = 1..(Len(played) + Len(fs))
    BY <1>4, <1>6, ConcatProperties, LenProperties
  <2>2. i - Len(played) \in 1..Len(fs) /\ i \in Nat
    BY <2>1
  <2>3. played'[i] = fs[i - Len(played)]
    BY <1>4, <1>6, <2>1, <2>2
  <2> QED
    BY <2>2, <2>3
<1>8. fs[k] \in Frame
  BY <1>4, ElementOfSeq
<1>9. age[fs[k]] \in Nat /\ age[fs[k]] <= LeftAge + air[1].age
  BY <1>1, <1>5, <1>8 DEF CalmOK
<1> QED
  BY <1>4, <1>5, <1>7, <1>9, Constants

\* Uplink, and with no bundle lost and no reboot, a frame that is played was
\* not left behind when its stream stopped: a station throws away a partial
\* bundle that has waited too long (wifi_tx_bundle_add), and the receiver never
\* holds one back (wifi_bundle_receive).
THEOREM NothingLeft == Spec => NothingLeftPlayed
<1>1. ASSUME BInv, CalmInv, [Next]_vars
      PROVE  [uplink /\ lost = 0 /\ restarts = 0 =>
                \A i \in DOMAIN played' \ DOMAIN played :
                  age[played'[i]] <= LeftAge + Delay]_vars
  BY <1>1, NothingLeftStep DEF Calm
<1>2. ASSUME BInv, CalmInv, [Next]_vars PROVE (BInv /\ CalmInv)'
  BY <1>2, NextBInv, NextCalm
<1> QED
  BY <1>1, <1>2, InitBInv, InitCalm, PTL DEF Spec, NothingLeftPlayed
=============================================================================
