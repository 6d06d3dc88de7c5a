--------------------------- MODULE Entity_proofs ---------------------------
(* What TLAPS proves of Entity. *)
EXTENDS Entity, FiniteSetTheorems, TLAPS

(***************************************************************************)
(* The inductive invariant.                                                *)
(***************************************************************************)
Field == {"rate", "format", "knob", "tone", "lock", "acquired", "info", "ex"}

\* A registered controller's record is up to date in what KnowsSettings names.
Current(r, f, k, o, l, a) ==
  /\ DOMAIN r = Field
  /\ r["format"] = f /\ r["knob"] = k /\ r["tone"] = o
  /\ r["lock"] = l /\ r["acquired"] = a

AllCurrent ==
  \A p \in table : Current(told[p], format, knob, tone, locked, acquired # NoOne)

\* What the comparison of the AVB Lite status last sent is what the entity has:
\* SET_LITE_CONFIG compares in the same step.
LiteSent == sent.lite \in {{}, {knob["lite"]}}

SentFits ==
  /\ DOMAIN sent = {"info", "ex", "lite"}
  /\ DOMAIN sent.info \subseteq Stream

IInv ==
  /\ TypeOK /\ IsFiniteSet(table)
  /\ SentFits /\ LiteSent
  /\ AllCurrent /\ ToneNeedsStream
(***************************************************************************)
(* Notification.                                                           *)
(***************************************************************************)
\* The requester, too, learns what its command changed: every registered
\* controller does.
LEMMA InformedIsTable == ASSUME NEW p PROVE Informed(p) = table
BY DEF Informed, Notified

\* A notification changes one field of the records of those it goes to
\* (avb_unsol_notify).
LEMMA HeardOne ==
  ASSUME NEW t, NEW who, NEW f, NEW v, NEW q \in Port
  PROVE  /\ q \notin who => Heard(t, who, f, v)[q] = t[q]
         /\ DOMAIN Heard(t, who, f, v)[q] = DOMAIN t[q]
         /\ q \in who /\ f \in DOMAIN t[q] => Heard(t, who, f, v)[q][f] = v
         /\ \A g \in DOMAIN t[q] : g # f => Heard(t, who, f, v)[q][g] = t[q][g]
BY DEF Heard

\* A controller that registers reads all there is.
LEMMA ViewCurrent == Current(View, format, knob, tone, locked, acquired # NoOne)
BY DEF Current, View, Field

\* What avb_unsol_register does to the table and the records.
LEMMA ReadsCurrent ==
  ASSUME IInv, NEW p \in Port
  PROVE  /\ Admitted(p) \subseteq Port /\ IsFiniteSet(Admitted(p))
         /\ Cardinality(Admitted(p)) <= MaxTable
         /\ DOMAIN Reads(p) = Port
         /\ \A q \in Admitted(p) :
              Current(Reads(p)[q], format, knob, tone, locked, acquired # NoOne)
<1>1. table \subseteq Port /\ IsFiniteSet(table) /\ DOMAIN told = Port
      /\ Cardinality(table) <= MaxTable
  BY DEF IInv, TypeOK
<1>2. Cardinality(table) \in Nat /\ IsFiniteSet(table \cup {p})
      /\ Cardinality(table \cup {p})
           = IF p \in table THEN Cardinality(table) ELSE Cardinality(table) + 1
  BY <1>1, FS_CardinalityType, FS_AddElement
<1>3. Admitted(p) \subseteq Port /\ IsFiniteSet(Admitted(p))
      /\ Admitted(p) \subseteq table \cup {p}
  BY <1>1, <1>2 DEF Admitted
<1>4. Cardinality(Admitted(p)) <= MaxTable
  BY <1>1, <1>2, EntityAssumption DEF Admitted
<1>5. ASSUME NEW q \in Admitted(p)
      PROVE  Current(Reads(p)[q], format, knob, tone, locked, acquired # NoOne)
  <2>1. CASE q \in table
    <3>1. Reads(p)[q] = told[q]
      BY <2>1, <1>1 DEF Reads
    <3> QED
      BY <3>1, <2>1 DEF IInv, AllCurrent
  <2>2. CASE q \notin table
    <3>1. Reads(p)[q] = View
      BY <2>2, <1>1, <1>3 DEF Reads
    <3> QED
      BY <3>1, ViewCurrent
  <2> QED
    BY <2>1, <2>2
<1>6. DOMAIN Reads(p) = Port
  BY <1>1 DEF Reads
<1> QED
  BY <1>3, <1>4, <1>5, <1>6

(***************************************************************************)
(* One lemma per action, or group of actions that touch the same state.    *)
(***************************************************************************)
\* The bounds and the actor stay in their sets.
LEMMA CountersType ==
  ASSUME TypeOK, Uncounted \/ Event \/ \E p \in Port : Command(p)
  PROVE  /\ milan' \in BOOLEAN /\ actor' \in Controller \cup {NoOne}
         /\ commands' \in 0..MaxCommand /\ events' \in 0..MaxEvent
<1>1. CASE Uncounted
  BY <1>1 DEF TypeOK, Uncounted
<1>2. CASE Event
  BY <1>2, EntityAssumption DEF TypeOK, Event
<1>3. ASSUME NEW p \in Port, Command(p)
      PROVE  /\ milan' \in BOOLEAN /\ actor' \in Controller \cup {NoOne}
             /\ commands' \in 0..MaxCommand /\ events' \in 0..MaxEvent
  BY <1>3, EntityAssumption DEF TypeOK, Command
<1> QED
  BY <1>1, <1>2, <1>3

\* avb_unsol_register.
LEMMA RegisterStep ==
  ASSUME IInv, NEW p \in Port, Register(p) PROVE IInv'
<1>1. TypeOK'
  <2>1. /\ milan' \in BOOLEAN /\ actor' \in Controller \cup {NoOne}
        /\ commands' \in 0..MaxCommand /\ events' \in 0..MaxEvent
    BY CountersType DEF Register, IInv
  <2> QED
    BY <2>1, ReadsCurrent DEF Register, IInv, TypeOK, settings
<1>2. IsFiniteSet(table') /\ AllCurrent'
  BY ReadsCurrent DEF Register, AllCurrent, settings
<1>3. SentFits' /\ LiteSent' /\ ToneNeedsStream'
  BY DEF IInv, SentFits, LiteSent, ToneNeedsStream, Register, settings
<1> QED
  BY <1>1, <1>2, <1>3 DEF IInv

\* DEREGISTER_UNSOLICITED_NOTIFICATION, or a registration that lapses.
LEMMA LeavesStep ==
  ASSUME IInv, NEW p \in Port, Leaves(p) PROVE IInv'
<1>1. table \subseteq Port /\ IsFiniteSet(table) /\ DOMAIN told = Port
      /\ Cardinality(table) <= MaxTable
  BY DEF IInv, TypeOK
<1>2. IsFiniteSet(table') /\ Cardinality(table') <= MaxTable
  <2>1. table' = table \ {p} /\ p \in table
    BY DEF Leaves
  <2>2. IsFiniteSet(table') /\ Cardinality(table') = Cardinality(table) - 1
    BY <1>1, <2>1, FS_RemoveElement
  <2>3. Cardinality(table) \in Nat
    BY <1>1, FS_CardinalityType
  <2> QED
    BY <1>1, <2>2, <2>3, EntityAssumption
<1>3. TypeOK'
  <2>1. /\ milan' \in BOOLEAN /\ actor' \in Controller \cup {NoOne}
        /\ commands' \in 0..MaxCommand /\ events' \in 0..MaxEvent
    BY CountersType DEF Leaves, IInv
  <2> QED
    BY <1>2, <2>1 DEF Leaves, IInv, TypeOK, settings
<1>4. AllCurrent'
  <2> SUFFICES ASSUME NEW q \in table'
               PROVE  Current(told[q], format, knob, tone, locked, acquired # NoOne)'
    BY DEF AllCurrent
  <2>1. q \in table /\ told'[q] = told[q]
    BY <1>1 DEF Leaves
  <2> QED
    BY <2>1 DEF Leaves, settings, IInv, AllCurrent
<1>5. SentFits' /\ LiteSent' /\ ToneNeedsStream'
  BY DEF IInv, SentFits, LiteSent, ToneNeedsStream, Leaves, settings
<1> QED
  BY <1>2, <1>3, <1>4, <1>5 DEF IInv

\* LOCK_ENTITY and the end of its 60 s.
LEMMA LockStep ==
  ASSUME IInv,
         LockTick \/ \E p \in Port, unlock \in BOOLEAN : LockEntity(p, unlock)
  PROVE  IInv'
<1>1. locked' \in Controller \cup {NoOne}
  BY EntityAssumption DEF LockTick, LockEntity
<1>2. /\ UNCHANGED <<settings, crf, streaming, acquired, table, sent>>
      /\ Uncounted \/ \E p \in Port : Command(p)
  BY DEF LockTick, LockEntity
<1>3. told' = Heard(told, table, "lock", locked')
      \/ (told' = told /\ locked' = locked)
  BY <1>1, InformedIsTable, EntityAssumption DEF LockTick, LockEntity
<1>4. TypeOK'
  <2>1. /\ milan' \in BOOLEAN /\ actor' \in Controller \cup {NoOne}
        /\ commands' \in 0..MaxCommand /\ events' \in 0..MaxEvent
    BY <1>2, CountersType DEF IInv
  <2>2. DOMAIN told' = Port
    BY <1>3 DEF Heard, IInv, TypeOK
  <2> QED
    BY <1>1, <1>2, <2>1, <2>2 DEF IInv, TypeOK, settings
<1>5. AllCurrent'
  <2> SUFFICES ASSUME NEW q \in table
               PROVE  Current(told'[q], format, knob, tone, locked', acquired # NoOne)
    BY <1>2 DEF AllCurrent, settings
  <2>1. q \in Port /\ Current(told[q], format, knob, tone, locked, acquired # NoOne)
    BY DEF IInv, TypeOK, AllCurrent
  <2> QED
    BY <1>3, <2>1, HeardOne DEF Current, Field
<1>6. SentFits' /\ LiteSent' /\ ToneNeedsStream' /\ IsFiniteSet(table')
  BY <1>2 DEF IInv, SentFits, LiteSent, ToneNeedsStream, settings
<1> QED
  BY <1>4, <1>5, <1>6 DEF IInv

\* ACQUIRE_ENTITY registers the owner before the others are told.
LEMMA AcquireStep ==
  ASSUME IInv, NEW p \in Port, Acquire(p) PROVE IInv'
<1>1. Id[p] \in Controller /\ acquired' = Id[p] /\ acquired' # NoOne
  BY EntityAssumption DEF Acquire
<1>2. TypeOK'
  <2>1. /\ milan' \in BOOLEAN /\ actor' \in Controller \cup {NoOne}
        /\ commands' \in 0..MaxCommand /\ events' \in 0..MaxEvent
    BY CountersType DEF Acquire, IInv
  <2>2. DOMAIN told' = Port
    BY DEF Acquire, Heard
  <2> QED
    BY <1>1, <2>1, <2>2, ReadsCurrent DEF Acquire, IInv, TypeOK, settings
<1>3. AllCurrent'
  <2> SUFFICES ASSUME NEW q \in Admitted(p)
               PROVE  Current(told'[q], format, knob, tone, locked, TRUE)
    BY <1>1 DEF AllCurrent, Acquire, settings
  <2>1. q \in Port
        /\ Current(Reads(p)[q], format, knob, tone, locked, acquired # NoOne)
    BY ReadsCurrent
  <2> DEFINE r == Reads(p)[q]
  <2>2. told'[q] = [r EXCEPT !["acquired"] = TRUE]
    BY <2>1 DEF Acquire, Heard
  <2>3. /\ DOMAIN told'[q] = DOMAIN r
        /\ "acquired" \in DOMAIN r => told'[q]["acquired"] = TRUE
        /\ \A g \in DOMAIN r : g # "acquired" => told'[q][g] = r[g]
    BY <2>2
  <2> QED
    BY <2>1, <2>3 DEF Current, Field
<1>4. SentFits' /\ LiteSent' /\ ToneNeedsStream' /\ IsFiniteSet(table')
  BY ReadsCurrent DEF IInv, SentFits, LiteSent, ToneNeedsStream, Acquire, settings
<1> QED
  BY <1>2, <1>3, <1>4 DEF IInv

\* The release of the acquisition.
LEMMA ReleaseStep ==
  ASSUME IInv, NEW p \in Port, Release(p) PROVE IInv'
<1>1. acquired' = NoOne /\ told' = Heard(told, table, "acquired", FALSE)
  BY InformedIsTable DEF Release
<1>2. TypeOK'
  <2>1. /\ milan' \in BOOLEAN /\ actor' \in Controller \cup {NoOne}
        /\ commands' \in 0..MaxCommand /\ events' \in 0..MaxEvent
    BY CountersType DEF Release, IInv
  <2>2. DOMAIN told' = Port
    BY <1>1 DEF Heard
  <2> QED
    BY <1>1, <2>1, <2>2 DEF Release, IInv, TypeOK, settings
<1>3. AllCurrent'
  <2> SUFFICES ASSUME NEW q \in table
               PROVE  Current(told'[q], format, knob, tone, locked, FALSE)
    BY <1>1 DEF AllCurrent, Release, settings
  <2>1. q \in Port /\ Current(told[q], format, knob, tone, locked, acquired # NoOne)
    BY DEF IInv, TypeOK, AllCurrent
  <2>2. /\ DOMAIN told'[q] = DOMAIN told[q]
        /\ "acquired" \in DOMAIN told[q] => told'[q]["acquired"] = FALSE
        /\ \A g \in DOMAIN told[q] : g # "acquired" => told'[q][g] = told[q][g]
    <3>1. told'[q] = [told[q] EXCEPT !["acquired"] = FALSE]
      BY <1>1, <2>1 DEF Heard
    <3> QED
      BY <3>1
  <2> QED
    BY <2>1, <2>2 DEF Current, Field
<1>4. SentFits' /\ LiteSent' /\ ToneNeedsStream' /\ IsFiniteSet(table')
  BY DEF IInv, SentFits, LiteSent, ToneNeedsStream, Release, settings
<1> QED
  BY <1>2, <1>3, <1>4 DEF IInv

\* Every knob: SET_NAME, SET_CONTROL, the mappings, SET_MAX_TRANSIT_TIME and
\* the media clock reference.
LEMMA TurnsStep ==
  ASSUME IInv, NEW p \in Port, NEW k \in Knob, NEW v \in {0, 1}, k # "lite",
         Command(p), Turns(p, k, v)
  PROVE  IInv'
<1>1. /\ knob' = [knob EXCEPT ![k] = v] /\ knob \in [Knob -> {0, 1}]
      /\ UNCHANGED <<rate, format, tone, clock, input, crf, streaming, locked,
                     acquired, table, sent>>
  BY DEF Turns, IInv, TypeOK
<1>2. \/ told' = HeardKnob(table, k, v)
      \/ told' = told /\ knob' = knob
  BY <1>1, InformedIsTable DEF Turns
<1>3. TypeOK'
  <2>1. /\ milan' \in BOOLEAN /\ actor' \in Controller \cup {NoOne}
        /\ commands' \in 0..MaxCommand /\ events' \in 0..MaxEvent
    BY CountersType DEF IInv
  <2>2. DOMAIN told' = Port
    BY <1>2 DEF HeardKnob, IInv, TypeOK
  <2>3. knob' \in [Knob -> {0, 1}]
    BY <1>1
  <2> QED
    BY <1>1, <2>1, <2>2, <2>3 DEF IInv, TypeOK
<1>4. AllCurrent'
  <2> SUFFICES ASSUME NEW q \in table
               PROVE  Current(told'[q], format, knob', tone, locked, acquired # NoOne)
    BY <1>1 DEF AllCurrent
  <2>1. q \in Port /\ Current(told[q], format, knob, tone, locked, acquired # NoOne)
    BY DEF IInv, TypeOK, AllCurrent
  <2>2. CASE told' = HeardKnob(table, k, v)
    <3>1. DOMAIN told[q] = Field
      BY <2>1 DEF Current
    <3>2. /\ DOMAIN told'[q] = Field
          /\ told'[q]["knob"] = [told[q]["knob"] EXCEPT ![k] = v]
          /\ \A g \in Field : g # "knob" => told'[q][g] = told[q][g]
      <4>1. told'[q] = [told[q] EXCEPT !.knob[k] = v]
        BY <2>1, <2>2 DEF HeardKnob
      <4> QED
        BY <3>1, <4>1 DEF Field
    <3>4. told'[q]["knob"] = knob'
      BY <2>1, <3>2, <1>1 DEF Current
    <3> QED
      BY <2>1, <3>2, <3>4 DEF Current, Field
  <2> QED
    BY <1>2, <2>1, <2>2
<1>5. LiteSent'
  <2>1. knob'["lite"] = knob["lite"] /\ "lite" \in Knob
    BY <1>1 DEF Knob
  <2> QED
    BY <1>1, <2>1 DEF LiteSent, IInv
<1>6. SentFits' /\ ToneNeedsStream' /\ IsFiniteSet(table')
  BY <1>1 DEF IInv, SentFits, ToneNeedsStream
<1> QED
  BY <1>3, <1>4, <1>5, <1>6 DEF IInv

\* The AVB Lite configuration and the comparison of its status: what is sent
\* is always the configuration, and the copy is always what was sent.
LEMMA LiteStep ==
  ASSUME IInv, NEW v \in {0, 1}, Uncounted \/ \E p \in Port : Command(p),
         knob' = [knob EXCEPT !["lite"] = v], LiteTold(v),
         UNCHANGED <<rate, format, tone, clock, input, crf, streaming, locked,
                     acquired, table>>
  PROVE  IInv'
<1>1. knob \in [Knob -> {0, 1}] /\ "lite" \in Knob /\ knob'["lite"] = v
  BY DEF IInv, TypeOK, Knob
<1>2. sent.lite \in {{}, {knob["lite"]}} /\ DOMAIN sent = {"info", "ex", "lite"}
  BY DEF IInv, LiteSent, SentFits
<1>3. sent' = [sent EXCEPT !.lite = {v}]
  BY DEF LiteTold
<1>4. sent'.lite = {v} /\ sent'.info = sent.info /\ DOMAIN sent' = DOMAIN sent
  BY <1>2, <1>3
<1>5. \/ told' = HeardKnob(table, "lite", v)
      \/ told' = told /\ knob' = knob
  <2>1. CASE sent.lite # {v}
    BY <2>1 DEF LiteTold
  <2>2. CASE sent.lite = {v}
    <3>1. v = knob["lite"]
      BY <1>2, <2>2
    <3> QED
      BY <1>1, <2>2, <3>1 DEF LiteTold
  <2> QED
    BY <2>1, <2>2
<1>6. TypeOK'
  <2>1. /\ milan' \in BOOLEAN /\ actor' \in Controller \cup {NoOne}
        /\ commands' \in 0..MaxCommand /\ events' \in 0..MaxEvent
    BY CountersType DEF IInv
  <2>2. DOMAIN told' = Port
    BY <1>5 DEF HeardKnob, IInv, TypeOK
  <2>3. knob' \in [Knob -> {0, 1}]
    BY <1>1
  <2> QED
    BY <1>4, <2>1, <2>2, <2>3 DEF IInv, TypeOK
<1>7. AllCurrent'
  <2> SUFFICES ASSUME NEW q \in table
               PROVE  Current(told'[q], format, knob', tone, locked, acquired # NoOne)
    BY DEF AllCurrent
  <2>1. q \in Port /\ Current(told[q], format, knob, tone, locked, acquired # NoOne)
    BY DEF IInv, TypeOK, AllCurrent
  <2>2. CASE told' = HeardKnob(table, "lite", v)
    <3>1. DOMAIN told[q] = Field
      BY <2>1 DEF Current
    <3>2. /\ DOMAIN told'[q] = Field
          /\ told'[q]["knob"] = [told[q]["knob"] EXCEPT !["lite"] = v]
          /\ \A g \in Field : g # "knob" => told'[q][g] = told[q][g]
      <4>1. told'[q] = [told[q] EXCEPT !.knob["lite"] = v]
        BY <2>1, <2>2 DEF HeardKnob
      <4> QED
        BY <3>1, <4>1 DEF Field
    <3>4. told'[q]["knob"] = knob'
      BY <2>1, <3>2 DEF Current
    <3> QED
      BY <2>1, <3>2, <3>4 DEF Current, Field
  <2> QED
    BY <1>5, <2>1, <2>2
<1>8. LiteSent' /\ SentFits'
  BY <1>1, <1>2, <1>4 DEF LiteSent, SentFits, IInv
<1>9. ToneNeedsStream' /\ IsFiniteSet(table')
  BY DEF IInv, ToneNeedsStream
<1> QED
  BY <1>6, <1>7, <1>8, <1>9 DEF IInv

\* The test tone, by SET_CONTROL or with the last stream that stops.
LEMMA ToneStep ==
  ASSUME IInv,
         \/ \E p \in Port, on \in BOOLEAN : SetTone(p, on)
         \/ \E o \in Output : StopsStreaming(o)
  PROVE  IInv'
<1>1. /\ UNCHANGED <<rate, format, knob, clock, input, crf, locked, acquired,
                     table, sent>>
      /\ Event \/ \E p \in Port : Command(p)
      /\ streaming' \subseteq streaming
      /\ tone' \in BOOLEAN /\ (tone' => streaming' # {})
  BY DEF SetTone, StopsStreaming, Allowed, IInv, TypeOK
<1>2. told' = Heard(told, table, "tone", tone') \/ (told' = told /\ tone' = tone)
  <2>1. ASSUME NEW p \in Port, NEW on \in BOOLEAN, SetTone(p, on)
        PROVE  told' = Heard(told, table, "tone", tone') \/ (told' = told /\ tone' = tone)
    BY <2>1, InformedIsTable DEF SetTone
  <2>2. ASSUME NEW o \in Output, StopsStreaming(o)
        PROVE  told' = Heard(told, table, "tone", tone') \/ (told' = told /\ tone' = tone)
    <3>1. CASE tone' # tone
      <4>1. tone' = FALSE
        BY <2>2, <3>1, <1>1 DEF StopsStreaming, IInv, TypeOK
      <4> QED
        BY <2>2, <3>1, <4>1 DEF StopsStreaming
    <3>2. CASE tone' = tone
      BY <2>2, <3>2 DEF StopsStreaming
    <3> QED
      BY <3>1, <3>2
  <2> QED
    BY <2>1, <2>2
<1>3. TypeOK'
  <2>1. /\ milan' \in BOOLEAN /\ actor' \in Controller \cup {NoOne}
        /\ commands' \in 0..MaxCommand /\ events' \in 0..MaxEvent
    BY <1>1, CountersType DEF IInv
  <2>2. DOMAIN told' = Port
    BY <1>2 DEF Heard, IInv, TypeOK
  <2> QED
    BY <1>1, <2>1, <2>2 DEF IInv, TypeOK
<1>4. AllCurrent'
  <2> SUFFICES ASSUME NEW q \in table
               PROVE  Current(told'[q], format, knob, tone', locked, acquired # NoOne)
    BY <1>1 DEF AllCurrent
  <2>1. q \in Port /\ Current(told[q], format, knob, tone, locked, acquired # NoOne)
    BY DEF IInv, TypeOK, AllCurrent
  <2> QED
    BY <1>2, <2>1, HeardOne DEF Current, Field
<1>5. SentFits' /\ LiteSent' /\ ToneNeedsStream' /\ IsFiniteSet(table')
  BY <1>1 DEF IInv, SentFits, LiteSent, ToneNeedsStream
<1> QED
  BY <1>3, <1>4, <1>5 DEF IInv

\* SET_STREAM_FORMAT: the changed stream's format is told to all.
LEMMA StreamFormatStep ==
  ASSUME IInv, NEW p \in Port, NEW s \in Stream, NEW r \in Rate,
         NEW ok \in BOOLEAN, SetStreamFormat(p, s, r, ok)
  PROVE  IInv'
<1>1. /\ format' = [format EXCEPT ![s] = r] /\ rate' = r
      /\ Command(p)
      /\ UNCHANGED <<knob, tone, clock, input, crf, streaming, locked, acquired,
                     table, sent>>
  BY DEF SetStreamFormat, Allowed
<1>2. \/ told' = Heard(told, table, "format", format')
      \/ told' = told /\ format' = format
  BY InformedIsTable DEF SetStreamFormat
<1>3. TypeOK'
  <2>1. /\ milan' \in BOOLEAN /\ actor' \in Controller \cup {NoOne}
        /\ commands' \in 0..MaxCommand /\ events' \in 0..MaxEvent
    BY <1>1, CountersType DEF IInv
  <2>2. DOMAIN told' = Port
    BY <1>2 DEF Heard, IInv, TypeOK
  <2>3. format' \in [Stream -> Rate]
    BY <1>1 DEF IInv, TypeOK
  <2> QED
    BY <1>1, <2>1, <2>2, <2>3 DEF IInv, TypeOK
<1>4. AllCurrent'
  <2> SUFFICES ASSUME NEW q \in table
               PROVE  Current(told'[q], format', knob, tone, locked, acquired # NoOne)
    BY <1>1 DEF AllCurrent
  <2>1. q \in Port /\ Current(told[q], format, knob, tone, locked, acquired # NoOne)
    BY DEF IInv, TypeOK, AllCurrent
  <2> QED
    BY <1>2, <2>1, HeardOne DEF Current, Field
<1>5. SentFits' /\ LiteSent' /\ ToneNeedsStream' /\ IsFiniteSet(table')
  BY <1>1 DEF IInv, SentFits, LiteSent, ToneNeedsStream
<1> QED
  BY <1>3, <1>4, <1>5 DEF IInv

\* SET_SAMPLING_RATE: the rate is told, then every stream's format.
LEMMA SamplingRateStep ==
  ASSUME IInv, NEW p \in Port, NEW r \in Rate, NEW ok \in BOOLEAN,
         SetSamplingRate(p, r, ok)
  PROVE  IInv'
<1> DEFINE t == Heard(told, Informed(p), "rate", r)
<1>1. /\ format' = FormatsAt(r) /\ rate' = r /\ Command(p)
      /\ told' = Heard(t, table, "format", format')
      /\ UNCHANGED <<knob, tone, clock, input, crf, streaming, locked, acquired,
                     table, sent>>
  BY DEF SetSamplingRate, Allowed, FormatsTold
<1>2. TypeOK'
  <2>1. /\ milan' \in BOOLEAN /\ actor' \in Controller \cup {NoOne}
        /\ commands' \in 0..MaxCommand /\ events' \in 0..MaxEvent
    BY <1>1, CountersType DEF IInv
  <2>2. DOMAIN told' = Port
    BY <1>1 DEF Heard
  <2>3. format' \in [Stream -> Rate]
    BY <1>1 DEF FormatsAt
  <2> QED
    BY <1>1, <2>1, <2>2, <2>3 DEF IInv, TypeOK
<1>3. AllCurrent'
  <2> SUFFICES ASSUME NEW q \in table
               PROVE  Current(told'[q], format', knob, tone, locked, acquired # NoOne)
    BY <1>1 DEF AllCurrent
  <2>1. q \in Port /\ Current(told[q], format, knob, tone, locked, acquired # NoOne)
    BY DEF IInv, TypeOK, AllCurrent
  <2>2. /\ DOMAIN t[q] = DOMAIN told[q]
        /\ \A g \in DOMAIN told[q] : g # "rate" => t[q][g] = told[q][g]
    BY <2>1, HeardOne
  <2> HIDE DEF t
  <2>3. /\ DOMAIN told'[q] = DOMAIN t[q]
        /\ "format" \in DOMAIN t[q] => told'[q]["format"] = format'
        /\ \A g \in DOMAIN t[q] : g # "format" => told'[q][g] = t[q][g]
    BY <1>1, <2>1, HeardOne
  <2> QED
    BY <2>1, <2>2, <2>3 DEF Current, Field
<1>4. SentFits' /\ LiteSent' /\ ToneNeedsStream' /\ IsFiniteSet(table')
  BY <1>1 DEF IInv, SentFits, LiteSent, ToneNeedsStream
<1> QED
  BY <1>2, <1>3, <1>4 DEF IInv

\* What changes only a connection, a clock or which outputs stream tells nobody
\* and changes nothing KnowsSettings names.
LEMMA SilentStep ==
  ASSUME IInv, Uncounted \/ Event \/ \E p \in Port : Command(p),
         UNCHANGED <<rate, format, knob, tone, locked, acquired, table, told, sent>>,
         clock' \in {"internal", "crf"}, crf' \in BOOLEAN,
         input' \in [Input -> Binding],
         streaming' \subseteq Output, streaming \subseteq streaming'
  PROVE  IInv'
<1>1. /\ milan' \in BOOLEAN /\ actor' \in Controller \cup {NoOne}
      /\ commands' \in 0..MaxCommand /\ events' \in 0..MaxEvent
  BY CountersType DEF IInv
<1>2. TypeOK'
  BY <1>1 DEF IInv, TypeOK
<1>3. AllCurrent' /\ SentFits' /\ LiteSent' /\ IsFiniteSet(table')
  BY DEF IInv, AllCurrent, SentFits, LiteSent
<1>4. ToneNeedsStream'
  BY DEF IInv, ToneNeedsStream
<1> QED
  BY <1>2, <1>3, <1>4 DEF IInv

\* The bindings an input may be given.
LEMMA InputStep ==
  ASSUME IInv, NEW i \in Input,
         \/ \E p \in Port, stop \in BOOLEAN : StartStop(p, i, stop)
         \/ \E p \in Port, t \in Talker, wait \in BOOLEAN : BindStream(p, i, t, wait)
         \/ \E p \in Port, t \in Talker : UnbindStream(p, i, t)
         \/ Connects(i) \/ ConnectFails(i)
  PROVE  IInv'
<1> DEFINE b == input[i]
<1>1. b \in Binding /\ input \in [Input -> Binding]
  BY DEF IInv, TypeOK
<1>2. /\ UNCHANGED <<rate, format, knob, tone, clock, crf, streaming, locked,
                     acquired, table, told, sent>>
      /\ Event \/ \E p \in Port : Command(p)
  BY DEF StartStop, BindStream, UnbindStream, Connects, ConnectFails, Allowed
<1>3. \E new \in Binding : input' = [input EXCEPT ![i] = new]
  <2>1. ASSUME NEW p \in Port, NEW stop \in BOOLEAN, StartStop(p, i, stop)
        PROVE  \E new \in Binding : input' = [input EXCEPT ![i] = new]
    <3>1. [b EXCEPT !.wait = stop] \in Binding
      BY <1>1 DEF Binding
    <3> QED
      BY <2>1, <3>1 DEF StartStop
  <2>2. ASSUME NEW p \in Port, NEW t \in Talker, NEW wait \in BOOLEAN, BindStream(p, i, t, wait)
        PROVE  \E new \in Binding : input' = [input EXCEPT ![i] = new]
    <3>1. [b EXCEPT !.wait = wait] \in Binding
      BY <1>1 DEF Binding
    <3>2. [talker |-> t, wait |-> wait,
           phase |-> IF b.phase = "idle" THEN "pending" ELSE b.phase] \in Binding
      BY <1>1 DEF Binding, Phase
    <3> QED
      BY <2>2, <3>1, <3>2 DEF BindStream
  <2>3. ASSUME NEW p \in Port, NEW t \in Talker, UnbindStream(p, i, t)
        PROVE  \E new \in Binding : input' = [input EXCEPT ![i] = new]
    BY <2>3 DEF UnbindStream, Free, Binding, Phase
  <2>4. ASSUME Connects(i) PROVE \E new \in Binding : input' = [input EXCEPT ![i] = new]
    <3>1. [b EXCEPT !.phase = "connected"] \in Binding
      BY <1>1 DEF Binding, Phase
    <3> QED
      BY <2>4, <3>1 DEF Connects
  <2>5. ASSUME ConnectFails(i)
        PROVE  \E new \in Binding : input' = [input EXCEPT ![i] = new]
    <3>1. [b EXCEPT !.phase = "idle"] \in Binding
      BY <1>1 DEF Binding, Phase
    <3> QED
      BY <2>5, <3>1 DEF ConnectFails
  <2> QED
    BY <2>1, <2>2, <2>3, <2>4, <2>5
<1>4. input' \in [Input -> Binding]
  BY <1>1, <1>3
<1>5. clock' \in {"internal", "crf"} /\ crf' \in BOOLEAN /\ streaming' \subseteq Output
  BY <1>2 DEF IInv, TypeOK
<1> QED
  BY <1>2, <1>4, <1>5, SilentStep

\* The comparison of the stream information, which nothing of KnowsSettings
\* depends on.
LEMMA StreamInfoStep == ASSUME IInv, StreamInfoTick PROVE IInv'
<1>1. /\ UNCHANGED <<settings, crf, streaming, locked, acquired, table>>
      /\ Uncounted
      /\ sent' = [sent EXCEPT !.info = StreamInfo,
                              !.ex = IF milan THEN InputInfoEx ELSE @]
  BY DEF StreamInfoTick
<1>2. DOMAIN sent = {"info", "ex", "lite"}
  BY DEF IInv, SentFits
<1>3. DOMAIN sent' = DOMAIN sent /\ sent'.info = StreamInfo /\ sent'.lite = sent.lite
  BY <1>1, <1>2
<1>4. DOMAIN StreamInfo = Stream
  BY DEF StreamInfo
<1>5. TypeOK'
  <2>1. /\ milan' \in BOOLEAN /\ actor' \in Controller \cup {NoOne}
        /\ commands' \in 0..MaxCommand /\ events' \in 0..MaxEvent
    BY <1>1, CountersType DEF IInv
  <2>2. DOMAIN told' = Port
    BY DEF StreamInfoTick
  <2> QED
    BY <1>1, <1>3, <1>4, <2>1, <2>2 DEF IInv, TypeOK, settings
<1>6. AllCurrent'
  <2> SUFFICES ASSUME NEW q \in table
               PROVE  Current(told'[q], format, knob, tone, locked, acquired # NoOne)
    BY <1>1 DEF AllCurrent, settings
  <2>1. q \in Port /\ Current(told[q], format, knob, tone, locked, acquired # NoOne)
    BY DEF IInv, TypeOK, AllCurrent
  <2>2. \E a, b : told'[q] = [told[q] EXCEPT !.info = a, !.ex = b]
    BY <2>1 DEF StreamInfoTick
  <2> QED
    BY <2>1, <2>2 DEF Current, Field
<1>7. SentFits' /\ LiteSent' /\ ToneNeedsStream' /\ IsFiniteSet(table')
  BY <1>1, <1>2, <1>3, <1>4 DEF IInv, SentFits, LiteSent, ToneNeedsStream, settings
<1> QED
  BY <1>5, <1>6, <1>7 DEF IInv

(***************************************************************************)
(* The invariant holds.                                                    *)
(***************************************************************************)
\* The entity starts with nobody registered and nothing sent.
LEMMA InitInvariant == Init => IInv
<1> SUFFICES ASSUME Init PROVE IInv
  OBVIOUS
<1>1. IsFiniteSet(table) /\ Cardinality(table) = 0
  BY FS_EmptySet DEF Init
<1>2. TypeOK
  <2>1. format \in [Stream -> Rate] /\ knob \in [Knob -> {0, 1}]
        /\ input \in [Input -> Binding]
    BY EntityAssumption DEF Init, Free, Binding, Phase
  <2>2. DOMAIN told = Port /\ DOMAIN sent.info \subseteq Stream
    BY DEF Init, Unsent
  <2>3. milan \in BOOLEAN /\ rate \in Rate /\ tone \in BOOLEAN
        /\ clock \in {"internal", "crf"} /\ crf \in BOOLEAN
    BY EntityAssumption DEF Init
  <2>4. commands \in 0..MaxCommand /\ events \in 0..MaxEvent
        /\ Cardinality(table) <= MaxTable
    BY <1>1, EntityAssumption DEF Init
  <2>5. {locked, acquired, actor} \subseteq Controller \cup {NoOne}
        /\ table \subseteq Port /\ streaming \subseteq Output
    BY DEF Init
  <2> QED
    BY <2>1, <2>2, <2>3, <2>4, <2>5 DEF TypeOK
<1>3. SentFits /\ LiteSent
  <2>1. sent = [info |-> << >>, ex |-> << >>, lite |-> {}] /\ DOMAIN << >> = {}
    BY DEF Init, Unsent
  <2> QED
    BY <2>1 DEF SentFits, LiteSent
<1>4. AllCurrent /\ ToneNeedsStream
  BY DEF Init, AllCurrent, ToneNeedsStream
<1> QED
  BY <1>1, <1>2, <1>3, <1>4 DEF IInv

\* The same of what happens without a controller.
LEMMA EventsInvariant ==
  ASSUME IInv, Events PROVE IInv'
<1>0. clock \in {"internal", "crf"} /\ crf \in BOOLEAN /\ input \in [Input -> Binding]
      /\ streaming \subseteq Output /\ knob \in [Knob -> {0, 1}] /\ "lite" \in Knob
  BY DEF IInv, TypeOK, Knob
<1>1. CASE LockTick
  BY <1>1, LockStep
<1>2. CASE CrfChanges
  BY <1>0, <1>2, SilentStep DEF CrfChanges, settings
<1>3. CASE FollowCrf
  BY <1>0, <1>3, SilentStep DEF FollowCrf, settings
<1>4. CASE StreamInfoTick
  BY <1>4, StreamInfoStep
<1>5. CASE LiteStatusTick
  <2>1. knob["lite"] \in {0, 1} /\ knob = [knob EXCEPT !["lite"] = knob["lite"]]
    BY <1>0
  <2> QED
    BY <1>5, <2>1, LiteStep DEF LiteStatusTick, settings
<1>6. ASSUME NEW q \in Port, Lapses(q) PROVE IInv'
  BY <1>6, LeavesStep DEF Lapses
<1>7. ASSUME NEW i \in Input, Connects(i) \/ ConnectFails(i) PROVE IInv'
  BY <1>7, InputStep
<1>8. ASSUME NEW o \in Output, StartsStreaming(o) PROVE IInv'
  BY <1>0, <1>8, SilentStep DEF StartsStreaming, settings
<1>9. ASSUME NEW o \in Output, StopsStreaming(o) PROVE IInv'
  BY <1>9, ToneStep
<1> QED
  BY <1>1, <1>2, <1>3, <1>4, <1>5, <1>6, <1>7, <1>8, <1>9 DEF Events

\* The same of a command.
LEMMA CommandsInvariant ==
  ASSUME IInv, NEW p \in Port, Commands(p) PROVE IInv'
<1>0. clock \in {"internal", "crf"} /\ crf \in BOOLEAN /\ input \in [Input -> Binding]
      /\ streaming \subseteq Output
  BY DEF IInv, TypeOK
<1>1. CASE Register(p)
  BY <1>1, RegisterStep
<1>2. CASE Deregister(p)
  BY <1>2, LeavesStep DEF Deregister
<1>3. CASE Acquire(p) \/ Release(p)
  BY <1>3, AcquireStep, ReleaseStep
<1>4. CASE \E unlock \in BOOLEAN : LockEntity(p, unlock)
  BY <1>4, LockStep
<1>5. ASSUME NEW v \in {0, 1},
             \/ SetName(p, v) \/ SetControl(p, v) \/ AudioMappings(p, v)
             \/ SetMediaClockReference(p, v)
      PROVE  IInv'
  <2>1. {"name", "control", "map", "reference"} \subseteq Knob
    BY EntityAssumption DEF Knob
  <2> QED
    BY <1>5, <2>1, TurnsStep
    DEF SetName, SetControl, AudioMappings, SetMediaClockReference, Allowed
<1>6. ASSUME NEW v \in {0, 1}, SetLiteConfig(p, v) PROVE IInv'
  BY <1>6, LiteStep DEF SetLiteConfig, Allowed
<1>7. ASSUME NEW v \in {0, 1}, NEW o \in Output, SetMaxTransitTime(p, o, v)
      PROVE  IInv'
  <2>1. o \in Knob /\ o # "lite"
    BY EntityAssumption DEF Knob
  <2> QED
    BY <1>7, <2>1, TurnsStep DEF SetMaxTransitTime, Allowed
<1>8. CASE \E on \in BOOLEAN : SetTone(p, on)
  BY <1>8, ToneStep
<1>9. ASSUME NEW s \in Stream, NEW r \in Rate, NEW ok \in BOOLEAN,
             SetStreamFormat(p, s, r, ok)
      PROVE  IInv'
  BY <1>9, StreamFormatStep
<1>10. ASSUME NEW r \in Rate, NEW ok \in BOOLEAN, SetSamplingRate(p, r, ok)
       PROVE  IInv'
  BY <1>10, SamplingRateStep
<1>11. ASSUME NEW c \in {"internal", "crf"}, SetClockSource(p, c) PROVE IInv'
  BY <1>0, <1>11, SilentStep DEF SetClockSource, Allowed
<1>12. CASE \/ \E i \in Input, stop \in BOOLEAN : StartStop(p, i, stop)
            \/ \E i \in Input, t \in Talker, wait \in BOOLEAN : BindStream(p, i, t, wait)
            \/ \E i \in Input, t \in Talker : UnbindStream(p, i, t)
  BY <1>12, InputStep
<1> QED
  BY <1>1, <1>2, <1>3, <1>4, <1>5, <1>6, <1>7, <1>8, <1>9, <1>10, <1>11, <1>12
  DEF Commands

LEMMA Invariance == Spec => []IInv
<1>1. IInv /\ [Next]_vars => IInv'
  <2> SUFFICES ASSUME IInv, [Next]_vars PROVE IInv'
    OBVIOUS
  <2>1. CASE Events
    BY <2>1, EventsInvariant
  <2>2. ASSUME NEW p \in Port, Commands(p) PROVE IInv'
    BY <2>2, CommandsInvariant
  <2>3. CASE UNCHANGED vars
    BY <2>3 DEF vars, IInv, TypeOK, SentFits, LiteSent, AllCurrent, ToneNeedsStream,
                Binding, Stream, Knob
  <2> QED
    BY <2>1, <2>2, <2>3 DEF Next
<1> QED
  BY <1>1, InitInvariant, PTL DEF Spec

(***************************************************************************)
(* The theorems.                                                           *)
(***************************************************************************)
\* Every variable keeps to its set, and the table of registered controllers
\* (avb_unsol_register) to its size.
THEOREM TypeCorrect == Spec => []TypeOK
<1>1. IInv => TypeOK
  BY DEF IInv
<1> QED
  BY <1>1, Invariance, PTL

\* Whatever set it, every registered controller has heard the formats, the
\* knobs, the test tone, the lock and the acquisition as they are
\* (avb_unsol_notify and its callers, src/atdecc_unsol.c).
THEOREM ControllersKnow == Spec => []KnowsSettings
<1>1. IInv => KnowsSettings
  BY DEF IInv, AllCurrent, Current, KnowsSettings, View
<1> QED
  BY <1>1, Invariance, PTL

\* The test tone is never on with no output streaming (avb_stop_stream_out ends
\* it with the last).
THEOREM ToneEnds == Spec => []ToneNeedsStream
<1>1. IInv => ToneNeedsStream
  BY DEF IInv
<1> QED
  BY <1>1, Invariance, PTL

\* A command that is let past the lock is of the controller that holds it.
LEMMA HolderActs ==
  ASSUME NEW p \in Port, NEW c \in Controller, c \in {locked, acquired},
         ~LockedOut(Id[p]), Command(p)
  PROVE  actor' = c
<1>1. c # NoOne
  BY EntityAssumption
<1> QED
  BY <1>1 DEF LockedOut, Command

\* While one controller holds the lock or the acquisition, only its own commands
\* and the entity itself change a setting or a connection
\* (avb_acquired_or_locked_by_other, before every handler).
THEOREM LockHolds == Spec => LockProtects
<1> DEFINE Protects ==
      \A c \in Controller :
        /\ c \in {locked, acquired}
        /\ \/ <<rate, format, tone>>' # <<rate, format, tone>>
           \/ \E k \in Knob \ {"reference"} : knob'[k] # knob[k]
           \/ \E i \in Input : \/ input'[i].talker # input[i].talker
                               \/ input'[i].phase # input[i].phase
        => actor' \in {c, NoOne}
<1>1. IInv /\ [Next]_vars => [Protects]_vars
  <2> SUFFICES ASSUME IInv, Next, NEW c \in Controller, c \in {locked, acquired},
                      \/ <<rate, format, tone>>' # <<rate, format, tone>>
                      \/ \E k \in Knob \ {"reference"} : knob'[k] # knob[k]
                      \/ \E i \in Input : \/ input'[i].talker # input[i].talker
                                          \/ input'[i].phase # input[i].phase
               PROVE  actor' \in {c, NoOne}
    OBVIOUS
  <2>1. CASE Events
    BY <2>1 DEF Events, LockTick, CrfChanges, FollowCrf, StreamInfoTick,
                LiteStatusTick, Lapses, Leaves, Connects, ConnectFails,
                StartsStreaming, StopsStreaming, Event, Uncounted
  <2>2. ASSUME NEW p \in Port, Commands(p) PROVE actor' \in {c, NoOne}
    <3>1. CASE ~LockedOut(Id[p]) /\ Command(p)
      BY <3>1, HolderActs
    <3>2. CASE Register(p) \/ Deregister(p)
      BY <3>2 DEF Register, Deregister, Leaves, Uncounted
    <3>3. CASE Acquire(p) \/ Release(p) \/ \E unlock \in BOOLEAN : LockEntity(p, unlock)
      BY <3>3 DEF Acquire, Release, LockEntity, settings
    <3>4. ASSUME NEW v \in {0, 1}, SetMediaClockReference(p, v)
          PROVE  actor' \in {c, NoOne}
      <4>1. \A k \in Knob \ {"reference"} : knob'[k] = knob[k]
        BY <3>4 DEF SetMediaClockReference, Turns, IInv, TypeOK
      <4> QED
        BY <3>4, <4>1 DEF SetMediaClockReference, Turns
    <3>5. ASSUME NEW i \in Input, NEW t \in Talker, NEW wait \in BOOLEAN,
                 BindStream(p, i, t, wait), ~Bindable(Id[p], i, t)
          PROVE  actor' \in {c, NoOne}
      <4>1. input' = [input EXCEPT ![i] = [@ EXCEPT !.wait = wait]]
        BY <3>5 DEF BindStream
      <4>2. ASSUME NEW j \in Input
            PROVE  input'[j].talker = input[j].talker /\ input'[j].phase = input[j].phase
        BY <4>1 DEF IInv, TypeOK, Binding
      <4> QED
        BY <3>5, <4>2 DEF BindStream
    <3>6. ASSUME NEW i \in Input, NEW t \in Talker, Bindable(Id[p], i, t)
          PROVE  ~LockedOut(Id[p])
      BY <3>6 DEF Bindable
    <3>7. ASSUME NEW i \in Input, NEW t \in Talker, NEW wait \in BOOLEAN,
                 BindStream(p, i, t, wait) \/ UnbindStream(p, i, t)
          PROVE  actor' \in {c, NoOne}
      BY <3>1, <3>5, <3>6, <3>7 DEF BindStream, UnbindStream
    <3> QED
      BY <2>2, <3>1, <3>2, <3>3, <3>4, <3>7
      DEF Commands, Allowed, SetName, SetControl, AudioMappings, SetLiteConfig,
          SetMaxTransitTime, SetTone, SetStreamFormat, SetSamplingRate,
          SetClockSource, StartStop
  <2> QED
    BY <2>1, <2>2 DEF Next
<1> QED
  BY <1>1, Invariance, PTL DEF Spec, LockProtects

\* SET_STREAM_FORMAT and SET_SAMPLING_RATE change neither the format of a
\* stream that runs nor the rate under it.
THEOREM RunningKeeps == Spec => RunningKeepsFormat
<1> DEFINE Keeps ==
      \A s \in Stream : Running(s) /\ Running(s)' =>
        format'[s] = format[s] /\ rate' = rate
<1>1. IInv /\ [Next]_vars => [Keeps]_vars
  <2> SUFFICES ASSUME IInv, Next, NEW s \in Stream, Running(s)
               PROVE  format'[s] = format[s] /\ rate' = rate
    OBVIOUS
  <2>1. AnyRunning
    BY DEF AnyRunning
  <2>2. ASSUME NEW p \in Port, NEW z \in Stream, NEW r \in Rate, NEW ok \in BOOLEAN,
               SetStreamFormat(p, z, r, ok)
        PROVE  format'[s] = format[s] /\ rate' = rate
    <3>1. z # s /\ r = rate
      BY <2>1, <2>2 DEF SetStreamFormat
    <3> QED
      BY <2>2, <3>1 DEF SetStreamFormat, IInv, TypeOK
  <2>3. ASSUME NEW p \in Port, NEW r \in Rate, NEW ok \in BOOLEAN
        PROVE  ~SetSamplingRate(p, r, ok)
    BY <2>1 DEF SetSamplingRate
  <2>4. CASE UNCHANGED <<rate, format>>
    BY <2>4
  <2>5. CASE Events
    BY <2>4, <2>5 DEF Events, LockTick, CrfChanges, FollowCrf, StreamInfoTick,
         LiteStatusTick, Lapses, Leaves, Connects, ConnectFails, StartsStreaming,
         StopsStreaming, settings
  <2>6. ASSUME NEW p \in Port, Commands(p)
        PROVE  format'[s] = format[s] /\ rate' = rate
    BY <2>2, <2>3, <2>4, <2>6
    DEF Commands, Register, Deregister, Leaves, Acquire, Release, LockEntity,
        SetName, SetControl, AudioMappings, SetMediaClockReference, SetLiteConfig,
        SetMaxTransitTime, Turns, SetTone, SetClockSource, StartStop, BindStream,
        UnbindStream, settings
  <2> QED
    BY <2>5, <2>6 DEF Next
<1> QED
  BY <1>1, Invariance, PTL DEF Spec, RunningKeepsFormat
=============================================================================
