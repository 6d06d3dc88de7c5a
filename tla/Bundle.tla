------------------------------- MODULE Bundle -------------------------------
(***************************************************************************)
(* The stream bundles of the Wi-Fi hop (src/avbnet.c): a sender packs the  *)
(* frames of a stream several to a bundle, numbers the bundles and keeps   *)
(* the last ones; the receiver delivers in sequence, holds what comes      *)
(* behind a gap, asks for what is missing with a NACK, and gives a gap up  *)
(* when its time runs out.                                                 *)
(*                                                                         *)
(* Uplink, a station sends and the bridge receives: the sender drops a     *)
(* partial bundle left when its stream stopped, and the receiver has no    *)
(* timer, so what it holds waits for the next bundle.  Downlink, the       *)
(* bridge sends and a station receives with a timer.                       *)
(*                                                                         *)
(* One stream; its frames are numbered.  Time passes in units; what is     *)
(* under way arrives within Delay of them or is lost.                      *)
(***************************************************************************)
EXTENDS Integers, SequencesExt

CONSTANTS
  Word,         \* bundle sequence numbers, 2^16 in the code
  Window,       \* 64: further off, the sender restarted
  PerBundle,    \* CONFIG_ESP_AVB_WIFI_BUNDLE_FRAMES
  MaxAge,       \* WIFI_TX_BUNDLE_MAX_AGE_US, WIFI_BUNDLE_MAX_AGE_US
  LeftAge,      \* WIFI_TX_BUNDLE_STALE_US
  History,      \* WIFI_TX_HISTORY, WIFI_BUNDLE_HISTORY
  Spacing,      \* WIFI_TX_RETX_SPACING_US
  Trip,         \* WIFI_NACK_TRIP_US
  MinBudget,    \* WIFI_RETX_MIN_BUDGET_US
  HoldMax,      \* WIFI_BUNDLE_HOLD
  HoldTime,     \* how long wifi_bundle_hold_until lets a gap wait
  StaleTime,    \* WIFI_BUNDLE_STALE_US
  Repeat,       \* WIFI_NACK_REPEAT_US
  Delay,
  Boot,         \* units a reboot of the sender takes, at least
  PerTick,      \* frames of the stream in a unit of time
  MaxFrame, MaxLoss, MaxNackLoss, MaxRestart,
  Pdu           \* a frame: the rest of its header, and whether its samples have
                \* low octets that are not zero

ASSUME BundleAssumption ==
  /\ Word \in Nat /\ Window \in Nat /\ 2 * Window < Word
  /\ HoldMax \in 1..Window /\ History \in 1..Window /\ PerBundle \in Nat \ {0}
  /\ HoldTime \subseteq Nat \ {0} /\ HoldTime # {}
  /\ {MaxAge, LeftAge, Spacing, Trip, MinBudget, StaleTime, Repeat, Delay, Boot} \subseteq Nat
  /\ {PerTick, MaxFrame, MaxLoss, MaxNackLoss, MaxRestart} \subseteq Nat
  /\ Pdu \in [1..MaxFrame -> [head : {Pdu[f].head : f \in 1..MaxFrame}, low : BOOLEAN]]
  /\ \A f \in 1..MaxFrame : Pdu[f].head.int32 \in BOOLEAN

VARIABLES
  uplink,      \* the sender is a station
  made, quota, \* frames of the stream so far, and those of this unit of time
  age,         \* how long ago each was made, for those not yet played
  fill, fillAge, seq,  \* the bundle being filled
  hist,        \* the last bundles sent; again: the time since a copy was sent
  air, nacks,  \* bundles and NACKs under way
  rx,          \* the receiver's entry of the stream
  timer,       \* s_hold_timer
  played,      \* frames delivered
  gaveUp,      \* bundles were given up that had time for an answer
  lost, nackLost, restarts

sender == <<made, quota, fill, fillAge, seq, hist>>
bounds == <<lost, nackLost, restarts>>
vars   == <<uplink, sender, age, air, nacks, rx, timer, played, gaveUp, bounds>>

None    == -2 - StaleTime              \* no time set: below any that is
Long    == Spacing                     \* long enough for a copy
Old     == LeftAge + 2 * Delay + Max(HoldTime) + StaleTime
Frame   == 1..MaxFrame
Enough  == 2 * Delay + 1               \* a NACK and its answer

Signed(d)  == LET x == d % Word IN IF 2 * x >= Word THEN x - Word ELSE x
\* The same as a plain difference, as if the numbers never wrapped.
AheadPlain(a, b) == a - b

Ahead(a, b) == Signed(a - b)
Later(s, n) == (s + n) % Word

Init ==
  /\ uplink \in BOOLEAN
  /\ made = 0 /\ quota = PerTick /\ age = [f \in Frame |-> 0]
  /\ fill = <<>> /\ fillAge = 0 /\ seq \in {0, Word - 2}
  /\ hist = <<>> /\ air = <<>> /\ nacks = <<>>
  /\ rx = [seeded |-> FALSE, expected |-> 0, next |-> 0, held |-> {},
           deadline |-> None, granted |-> 0, nacked |-> Repeat]
  /\ timer = None
  /\ played = <<>> /\ gaveUp = FALSE
  /\ lost = 0 /\ nackLost = 0 /\ restarts = 0

(***************************************************************************)
(* The body of a compact bundle.  Every entry carries the frame's sequence *)
(* number and presentation time; the rest of the header is that of the     *)
(* first frame, the template t, unless the entry has its own.              *)
(***************************************************************************)
\* The same by the header alone.
PackableAll(f) == Pdu[f].head.int32

\* Samples of 32 bits whose low octets are all zero are carried as 24.
Packable(f) == Pdu[f].head.int32 /\ ~Pdu[f].low

\* wifi_compact_flags, wifi_compact_put.
Entry(t, f) == [n |-> f, own |-> Pdu[f].head # Pdu[t].head, packed |-> Packable(f)]

\* wifi_bundle_split_compact: the frame an entry becomes.
SplitEntry(t, e) == [head |-> Pdu[IF e.own THEN e.n ELSE t].head,
                     low  |-> Pdu[e.n].low /\ ~e.packed]

(***************************************************************************)
(* The sender.                                                             *)
(***************************************************************************)
\* wifi_tx_bundle_send, wifi_bundle_send: numbered, under way and kept, also
\* when the driver refused it.
Sent(s, f) == [seq |-> s, frames |-> f, age |-> 0]
Kept(h, s, f) ==
  LET all == Append(h, [seq |-> s, frames |-> f, again |-> Long])
  IN  IF Len(all) > History THEN Tail(all) ELSE all

\* The same whatever its age.
StillFilledAlways(f) == f

\* What is still in the bundle when a frame comes: on a station nothing that
\* was left when the stream stopped.
StillFilled(f) == IF uplink /\ f # <<>> /\ fillAge > LeftAge THEN <<>> ELSE f

\* wifi_tx_bundle_add, wifi_bundle_add: a bundle too old to wait goes out
\* before the frame is added, one that is full after.
AddFrame ==
  LET kept  == StillFilled(fill)
      flush == kept # <<>> /\ fillAge > MaxAge
      mine  == IF flush THEN <<made + 1>> ELSE Append(kept, made + 1)
      full  == Len(mine) >= PerBundle
      first == IF flush THEN 1 ELSE 0
  IN  /\ made < MaxFrame /\ quota > 0
      /\ made' = made + 1 /\ quota' = quota - 1
      /\ fill' = IF full THEN <<>> ELSE mine
      /\ fillAge' = IF Len(mine) = 1 THEN 0 ELSE fillAge
      /\ seq' = Later(seq, first + IF full THEN 1 ELSE 0)
      /\ air' = air \o (IF flush THEN <<Sent(seq, kept)>> ELSE <<>>)
                    \o (IF full THEN <<Sent(Later(seq, first), mine)>> ELSE <<>>)
      /\ hist' = LET h == IF flush THEN Kept(hist, seq, kept) ELSE hist
                 IN  IF full THEN Kept(h, Later(seq, first), mine) ELSE h
      /\ UNCHANGED <<uplink, age, nacks, rx, timer, played, gaveUp, bounds>>

\* Each frame the bridge bundles for any stream sends what is too old.
SendAged ==
  /\ ~uplink /\ fill # <<>> /\ fillAge > MaxAge
  /\ air' = Append(air, Sent(seq, fill)) /\ hist' = Kept(hist, seq, fill)
  /\ fill' = <<>> /\ seq' = Later(seq, 1)
  /\ UNCHANGED <<uplink, made, quota, age, fillAge, nacks, rx, timer, played,
                 gaveUp, bounds>>

\* wifi_tx_nack_handle, wifi_nack_handle: the bundles asked for that are still
\* kept, unless the receiver cannot wait for them or a copy has just gone.
Answered(nack) ==
  {k \in DOMAIN hist :
     /\ \E n \in 0..(nack.count - 1) : hist[k].seq = Later(nack.first, n)
     /\ nack.budget - Trip >= MinBudget
     /\ hist[k].again >= Spacing}

\* The copy of the bundle numbered s, if it is one of ks.
Copies(ks, s) ==
  SetToSeq({Sent(s, hist[k].frames) : k \in {j \in ks : hist[j].seq = s}})

HandleNack ==
  /\ nacks # <<>>
  /\ LET ks == Answered(Head(nacks))
         first == Head(nacks).first
     IN  /\ air' = air \o FlattenSeq([n \in 1..Head(nacks).count |->
                                        Copies(ks, Later(first, n - 1))])
         /\ hist' = [k \in DOMAIN hist |->
                       IF k \in ks THEN [hist[k] EXCEPT !.again = 0] ELSE hist[k]]
  /\ nacks' = Tail(nacks)
  /\ UNCHANGED <<uplink, made, quota, age, fill, fillAge, seq, rx, timer, played,
                 gaveUp, bounds>>

\* The sender reboots: its numbers begin again and its history is gone.
Restart ==
  /\ restarts < MaxRestart /\ restarts' = restarts + 1
  /\ fill' = <<>> /\ seq' = 0 /\ hist' = <<>> /\ quota' = -Boot
  /\ UNCHANGED <<uplink, made, age, fillAge, air, nacks, rx, timer, played,
                 gaveUp, lost, nackLost>>

(***************************************************************************)
(* The receiver's entry of the stream.  What a call does to it is a record *)
(* of the entry, the frames delivered, the NACK sent, if any, and whether  *)
(* bundles were given up that had time for an answer: that of their gap    *)
(* ran out, or the receiver started over.                                  *)
(***************************************************************************)
Seqs(held) == {b.seq : b \in held}
Quiet(r)   == [rx |-> r, out |-> <<>>, nack |-> <<>>, gave |-> FALSE]

\* wifi_bundle_split: the frames of the n held bundles from number e on.
Frames(held, e, n) ==
  FlattenSeq([k \in 1..n |->
                (CHOOSE b \in held : b.seq = Later(e, k - 1)).frames])

\* How many bundles from number e on are held without a gap.
Run(held, e) ==
  CHOOSE n \in 0..Cardinality(held) :
    /\ \A k \in 0..(n - 1) : Later(e, k) \in Seqs(held)
    /\ Later(e, n) \notin Seqs(held)

\* The run from e is delivered; what is held behind the next gap may wait h.
Advance(r, e, h) ==
  LET n    == Run(r.held, e)
      rest == {b \in r.held : ~\E k \in 0..(n - 1) : b.seq = Later(e, k)}
  IN  [Quiet([r EXCEPT !.expected = Later(e, n), !.held = rest,
                       !.deadline = IF rest = {} THEN None ELSE h,
                       !.granted = h])
         EXCEPT !.out = Frames(r.held, e, n)]

Lowest(r) ==
  (CHOOSE b \in r.held : \A c \in r.held :
     Ahead(b.seq, r.expected) <= Ahead(c.seq, r.expected)).seq

\* wifi_bundle_drain.
Drain(r, h) ==
  IF r.expected \in Seqs(r.held) THEN Advance(r, r.expected, h)
  ELSE IF r.held = {} \/ r.deadline > 0 THEN Quiet(r)
  ELSE [Advance(r, Lowest(r), h) EXCEPT !.gave = r.granted >= Enough]

\* A bundle behind a gap is held.  What is newly missing is asked for once,
\* the oldest gap again when a NACK or its answer may have been lost, and
\* nothing when the gap cannot wait for an answer.
Hold(r, b, h) ==
  LET wait  == IF r.deadline = None THEN h ELSE r.deadline
      next  == IF Ahead(r.next, r.expected) < 0 THEN r.expected ELSE r.next
      fresh == Ahead(b.seq, next)
      nack  == IF wait < MinBudget THEN <<>>
               ELSE IF fresh > 0
               THEN <<[first |-> next, count |-> fresh, budget |-> wait, age |-> 0]>>
               ELSE IF r.nacked >= Repeat
               THEN <<[first |-> r.expected, count |-> 1, budget |-> wait, age |-> 0]>>
               ELSE <<>>
      q     == [r EXCEPT !.held = @ \cup {[seq |-> b.seq, frames |-> b.frames]},
                         !.deadline = wait,
                         !.granted = IF r.deadline = None THEN h ELSE @,
                         !.nacked = IF nack # <<>> THEN 0 ELSE @,
                         !.next = IF fresh >= 0 THEN Later(b.seq, 1) ELSE next]
  IN  [Drain(q, h) EXCEPT !.nack = nack]

\* The same delivering what comes too late.
PlacedLate(r, b, h) ==
  IF Ahead(b.seq, r.expected) < 0
  THEN [Quiet(r) EXCEPT !.out = b.frames]
  ELSE Hold(r, b, h)

\* A bundle in its place: behind what was delivered it is a duplicate or comes
\* too late, next it is delivered, and further on it is held.
Placed(r, b, h) ==
  LET ahead == Ahead(b.seq, r.expected)
      e     == Later(r.expected, 1)
      d     == Drain([r EXCEPT !.expected = e,
                               !.next = IF Ahead(e, @) > 0 THEN e ELSE @], h)
  IN  CASE ahead < 0 -> Quiet(r)
        [] ahead = 0 -> [d EXCEPT !.out = b.frames \o @]
        [] ahead > 0 -> IF b.seq \in Seqs(r.held) THEN Drain(r, h) ELSE Hold(r, b, h)

\* With the hold full the gap is given up at once, then the bundle is placed.
PlacedInFull(r, b, h) ==
  LET d == Drain([r EXCEPT !.deadline = 0], h)
      p == Placed(d.rx, b, h)
  IN  [p EXCEPT !.out = d.out \o @]

Strayed(r, b) == \/ Ahead(b.seq, r.expected) > Window
                 \/ Ahead(b.seq, r.expected) < -Window

\* The first bundle, one after a restart of the sender, or one after bundles
\* that were held too long: the receiver starts over.
Fresh(r, b) ==
  LET stale == r.held # {} /\ r.deadline < -StaleTime
  IN  IF ~r.seeded \/ stale \/ Strayed(r, b)
      THEN [r EXCEPT !.seeded = TRUE, !.held = {}, !.deadline = None,
                     !.expected = b.seq, !.next = b.seq]
      ELSE r

\* wifi_bundle_receive.
Received(b, h) ==
  LET r == Fresh(rx, b)
      v == IF /\ Cardinality(r.held) >= HoldMax /\ Ahead(b.seq, r.expected) > 0
              /\ b.seq \notin Seqs(r.held)
           THEN PlacedInFull(r, b, h)
           ELSE Placed(r, b, h)
  IN  [v EXCEPT !.gave = @ \/ (rx.seeded /\ Strayed(rx, b))]

\* wifi_hold_timer_arm, with wifi_bundle_next_deadline.
Armed(r) == IF uplink THEN None ELSE r.deadline

\* What a call leaves behind.
Result(v) ==
  /\ rx' = v.rx /\ played' = played \o v.out /\ gaveUp' = (gaveUp \/ v.gave)
  /\ age' = [f \in Frame |-> IF f \in Range(v.out) THEN 0 ELSE age[f]]

Receive ==
  /\ air # <<>>
  /\ air' = Tail(air)
  /\ \E v \in {Received(Head(air), h) : h \in HoldTime} :
       Result(v) /\ nacks' = nacks \o v.nack
  /\ timer' = Armed(rx')
  /\ UNCHANGED <<uplink, sender, bounds>>

\* The same without arming it again.
HoldTimerOnce ==
  /\ timer # None /\ timer <= 0
  /\ \E v \in {Drain(rx, h) : h \in HoldTime} : Result(v)
  /\ timer' = None
  /\ UNCHANGED <<uplink, sender, air, nacks, bounds>>

\* wifi_hold_timer_cb, with wifi_bundle_poll.
HoldTimer ==
  /\ timer # None /\ timer <= 0
  /\ \E v \in {Drain(rx, h) : h \in HoldTime} : Result(v)
  /\ timer' = Armed(rx')
  /\ UNCHANGED <<uplink, sender, air, nacks, bounds>>

(***************************************************************************)
(* The air and the clock.                                                  *)
(***************************************************************************)
LoseBundle ==
  /\ air # <<>> /\ lost < MaxLoss
  /\ air' = Tail(air) /\ lost' = lost + 1
  /\ UNCHANGED <<uplink, sender, age, nacks, rx, timer, played, gaveUp,
                 nackLost, restarts>>

\* Also a NACK that wifi_nack_rate_ok holds back.
LoseNack ==
  /\ nacks # <<>> /\ nackLost < MaxNackLoss
  /\ nacks' = Tail(nacks) /\ nackLost' = nackLost + 1
  /\ UNCHANGED <<uplink, sender, age, air, rx, timer, played, gaveUp, lost,
                 restarts>>

Older(q)   == [i \in DOMAIN q |-> [q[i] EXCEPT !.age = @ + 1]]
Sooner(t)  == IF t = None THEN None ELSE IF t < -StaleTime THEN t ELSE t - 1
UpTo(n, m) == IF n < m THEN n + 1 ELSE n

Tick ==
  /\ \A q \in {air, nacks} : q # <<>> => Head(q).age < Delay
  /\ timer = None \/ timer > 0
  /\ age' = [f \in Frame |-> IF f <= made /\ f \notin Range(played)
                            THEN UpTo(age[f], Old + 1) ELSE age[f]]
  /\ quota' = IF quota < 0 THEN quota + 1 ELSE PerTick
  /\ fillAge' = UpTo(fillAge, LeftAge + 1)
  /\ hist' = [k \in DOMAIN hist |-> [hist[k] EXCEPT !.again = UpTo(@, Long)]]
  /\ air' = Older(air) /\ nacks' = Older(nacks)
  /\ rx' = [rx EXCEPT !.deadline = Sooner(@), !.nacked = UpTo(@, Repeat)]
  /\ timer' = Sooner(timer)
  /\ UNCHANGED <<uplink, made, fill, seq, played, gaveUp, bounds>>

Next == \/ AddFrame \/ SendAged \/ HandleNack \/ Restart \/ Receive \/ HoldTimer
        \/ LoseBundle \/ LoseNack \/ Tick

Spec == Init /\ [][Next]_vars

-----------------------------------------------------------------------------
\* Type invariant.
TypeOK ==
  /\ uplink \in BOOLEAN /\ made \in 0..MaxFrame /\ quota \in -Boot..PerTick
  /\ age \in [Frame -> 0..(Old + 1)] /\ fillAge \in 0..(LeftAge + 1)
  /\ seq \in 0..(Word - 1) /\ Len(fill) < PerBundle /\ Len(hist) <= History
  /\ {rx.expected, rx.next} \subseteq 0..(Word - 1)
  /\ Cardinality(rx.held) <= HoldMax
  /\ rx.held = {} <=> rx.deadline = None

\* The frames of a stream reach the listener in their order and once each,
\* over every loss, late copy, wrap of the numbers and reboot of the sender.
InOrder == \A i, j \in DOMAIN played : i < j => played[i] < played[j]

\* A NACK asks only for what is missing: nothing that is held, was delivered
\* or was given up.
NacksMissing ==
  [][\A i \in DOMAIN nacks' \ DOMAIN nacks :
       \A n \in 0..(nacks'[i].count - 1) :
         LET s == Later(nacks'[i].first, n)
         IN  s \notin Seqs(rx'.held) /\ Ahead(s, rx'.expected) >= 0]_vars

\* What a bundle is split into are the frames that were put into it.
SplitRestores ==
  \A i \in DOMAIN air : \A k \in DOMAIN air[i].frames :
    LET t == air[i].frames[1]
        f == air[i].frames[k]
    IN  SplitEntry(t, Entry(t, f)) = Pdu[f]

\* With time for an answer and room to wait, one lost bundle is not heard: the
\* NACK brings it back before the time of its gap runs out, and the receiver
\* never takes the sender for restarted.
OneLossRecovered == lost <= 1 /\ nackLost = 0 /\ restarts = 0 => ~gaveUp

\* Uplink and with no gap, nothing is delivered that was left when the
\* stream stopped.
NothingLeftPlayed ==
  [][uplink /\ lost = 0 /\ restarts = 0 => \A i \in DOMAIN played' \ DOMAIN played :
       age[played'[i]] <= LeftAge + Delay]_vars

\* The same whoever sends and whatever is lost (the code breaks it: the
\* bridge sends a partial bundle of any age, and both resend one of any age).
NothingOldPlayed ==
  [][\A i \in DOMAIN played' \ DOMAIN played : age[played'[i]] <= Old]_vars

\* What a station holds behind a gap is played or given up by the deadline,
\* although nothing more arrives.
HeldReleased == ~uplink /\ rx.held # {} => rx.deadline >= 0
=============================================================================
