------------------------------ MODULE StreamIn ------------------------------
(***************************************************************************)
(* The playback of an audio stream input (src/avtp.c): the receive handler *)
(* writes each AVTP packet into the jitter ring, the drain task takes the  *)
(* ring to the DMA of the DAC, and between them they keep each packet at   *)
(* its presentation time: the gate that starts playout, the concealment of *)
(* lost packets, the trim of surplus latency and the unlock of a stream    *)
(* that stopped.                                                           *)
(*                                                                         *)
(* Time is counted in packets: each takes one tick, and so does a buffer   *)
(* of the DMA.  A packet is its lead, the ticks left to its presentation   *)
(* time, which falls as time passes; consecutive packets have consecutive  *)
(* leads.  What the ring and the DMA hold is the leads of what was written *)
(* there, a concealed packet's with `real' FALSE.  The DAC runs at the     *)
(* talker's rate (frame slips and the converter belong to the media clock).*)
(*                                                                         *)
(* The drain task runs above the receive task on the same core: a pass of  *)
(* the drain falls between any two steps of the handler and is not         *)
(* interrupted by them.                                                    *)
(***************************************************************************)
EXTENDS Integers, SequencesExt

CONSTANTS
  Offset,      \* lead of a packet when it is sent
  Extra,       \* stream_in_extra_latency_ns less output_delay_ns
  Wifi,        \* is the listener a Wi-Fi station
  Transit,     \* ticks a packet takes at most, unless it is held
  Word,        \* numbers of a sequence, 256
  LateSpan,    \* how far back a number counts as late, 6
  Sizable,     \* most losses a number can size, 200
  Capacity,    \* JITTER_RING_SIZE
  Prefill,     \* JITTER_PREFILL
  DmaDepth,    \* i2s_tx_dma_ring_bytes
  GateLate,    \* GATE_LATE_NS
  GateFar,     \* 50 ms: no lateness of a packet on this timeline
  Patience,    \* GATE_LATE_PATIENCE_US
  Stale,       \* GATE_ANCHOR_STALE_US
  GiveUp,      \* 100 ms of awaiting an anchor
  UnarmedMin,  \* PT_AWAIT_UNARMED_MIN
  RegateMin,   \* PT_REGATE_INTERVAL_MIN_US
  RegateMax,   \* PT_REGATE_INTERVAL_MAX_US
  IdleWait,    \* STREAM_TX_IDLE_WAIT_US
  LongPause,   \* 10 ms: ring and DMA are dry
  Sane,        \* 400 ms
  Slack,       \* 16 packets
  Swing,       \* 1 ms
  MinSamples,  \* STANDING_DEPTH_MIN_SAMPLES
  HoldSamples, \* STANDING_DEPTH_HOLD_PACKETS
  Unlock,      \* 65 ms without a packet
  TrimWindow,  \* CONFIG_ESP_AVB_LISTENER_LATENCY_TRIM_S
  Margin,      \* STREAM_TRIM_MARGIN_US, _WIRED_US
  Sparse,      \* packets per stamp of last_packet_us, 8
  TuHold,      \* uncertain time stamps around a change of clock, 8
  Shifts,      \* what a talker's clock may be off before it has synced
  MaxPreempt,  \* passes of the drain in the middle of the handler
  MaxFault     \* losses, delays, duplicates and restarts of a behaviour

ASSUME StreamInAssumption ==
  /\ {Offset, Transit, Word, LateSpan, Sizable, Capacity, Prefill, DmaDepth,
      GateLate, GateFar, Patience, Stale, GiveUp, UnarmedMin, RegateMin,
      RegateMax, IdleWait, LongPause, Sane, Slack, Swing, MinSamples,
      HoldSamples, Unlock, TrimWindow, Margin, Sparse, TuHold,
      MaxPreempt, MaxFault} \subseteq Nat
  /\ Extra \in Nat /\ Wifi \in BOOLEAN /\ Shifts \subseteq Int
  /\ 0 < Sparse /\ 0 < Prefill /\ Prefill < Capacity
  /\ Offset + Unlock < Capacity /\ Sizable + LateSpan < Word
  /\ GateLate < GateFar /\ GateFar <= Stale

VARIABLES
  p,     \* stream_rx_ctx_t, and the DMA of the DAC
  h,     \* the handler: the packet it is at
  net,   \* packets sent and not yet received
  env    \* the talker's clock and the faults left

vars == <<p, h, net, env>>

Floor == -Stale
Never == RegateMax + 1
Aged(t, max) == IF t < max THEN t + 1 ELSE max
Passed(lead) == IF lead > Floor THEN lead - 1 ELSE Floor

Slot == [lead : Floor..Offset + Unlock + Word, real : BOOLEAN]

\* A cleared context: avb_start_stream_in.
Started(queue) ==
  [ring |-> << >>, dma |-> queue, quiet |-> 0,
   locked |-> FALSE, mode |-> 0, armed |-> FALSE, anchor |-> 0, armAge |-> 0,
   await |-> FALSE, wait |-> Never, unarmed |-> 0, late |-> 0, idle |-> 0,
   done |-> FALSE, interval |-> RegateMin, learned |-> 0,
   window |-> 0, ahead |-> 0, ticked |-> TRUE,
   heard |-> FALSE, last |-> 0, stamped |-> FALSE, age |-> Unlock + 1,
   count |-> 0, standing |-> 0, samples |-> 0, hold |-> 0]

NoPacket == [at |-> "idle"]

Init ==
  /\ p = Started(<< >>) /\ h = NoPacket /\ net = << >>
  /\ \E s \in Shifts, tu \in {0, TuHold, TuHold + 1} :
       env = [shift |-> s, tu |-> tu, valid |-> FALSE, preempt |-> MaxPreempt,
              faults |-> MaxFault]

(***************************************************************************)
(* The receive handler.                                                    *)
(***************************************************************************)
Readable(c) == Len(c.ring)
Writable(c) == Capacity - Len(c.ring)

\* What the sequence number of a packet says was lost before it.  After a
\* pause too long to tell, it may say anything.
LostBefore(lead) ==
  IF ~p.heard THEN {0}
  ELSE IF p.last = Floor THEN 0..Word - 1
  ELSE {(lead - p.last - 1) % Word}

\* pause_us: only looked at when something may be missing.
PauseBefore(lost) ==
  IF p.locked /\ p.stamped /\ (lost > 0 \/ p.ring = << >>) THEN p.age ELSE 0

\* How long until a packet stamped ts should leave the ring.
LeadOf(ts) == ts + Extra + p.learned

\* An insert after a pause in which the DAC ran dry: what brings the packet to
\* its presentation time, or nothing.
AlignedFill(ts) ==
  LET lead == LeadOf(ts) IN
  IF p.mode = 1 /\ lead \in 1..Sane - 1
  THEN IF lead > Readable(p) THEN lead - Readable(p) ELSE 0
  ELSE 0

\* Loss concealment: how many packets to insert, up to the depth the ring has
\* stood at plus what the DAC played meanwhile.
Fill(ts, lost, pause) ==
  LET wanted == IF pause > LongPause THEN AlignedFill(ts)
                ELSE IF lost >= Sizable THEN 0
                ELSE IF pause > 0 /\ lost > pause + Slack THEN pause + Slack
                ELSE lost
      ceiling == p.standing + Swing + pause
      room    == IF ceiling > Readable(p) THEN ceiling - Readable(p) ELSE 0
  IN  IF ~p.locked \/ wanted = 0 THEN 0
      ELSE IF p.samples >= MinSamples /\ wanted > room THEN room ELSE wanted

\* avb_stream_rx_handler, up to the concealment: a late or duplicate packet is
\* dropped before anything is noted of it.
Receive ==
  /\ h.at = "idle" /\ net # << >>
  /\ net' = Tail(net)
  /\ \E lost \in LostBefore(Head(net)) :
       IF lost >= Word - LateSpan THEN UNCHANGED <<p, h, env>>
       ELSE LET ts == Head(net) + env.shift
                pause == PauseBefore(lost)
            IN /\ h' = [at |-> "insert", lead |-> Head(net), ts |-> ts,
                        tu |-> env.tu > 0, lost |-> lost,
                        fill |-> Fill(ts, lost, pause)]
               /\ p' = [p EXCEPT !.heard = TRUE, !.last = Head(net)]
               /\ env' = [env EXCEPT !.tu = IF @ \in 1..TuHold THEN @ - 1 ELSE @]

\* The concealed packets follow what was written last.
Concealed(n) ==
  LET from == IF p.ring # << >> THEN Last(p.ring).lead + 1 ELSE h.lead - n
  IN  [i \in 1..n |-> [lead |-> from + i - 1, real |-> FALSE]]

\* What the samples of the ring's depth make the standing depth: something
\* between the old one and the new.
Depths(depth) ==
  IF p.samples = 0 \/ depth = p.standing THEN {depth}
  ELSE IF depth > p.standing THEN p.standing..depth ELSE depth..p.standing

\* stream_conceal_fill, then pre_fill and the sample of the standing depth.
Insert ==
  LET fits == h.fill > 0 /\ Writable(p) >= h.fill + 1
      ring == IF fits THEN p.ring \o Concealed(h.fill) ELSE p.ring
      c == [p EXCEPT !.ring = ring]
  IN  /\ h.at = "insert"
      /\ h' = [h EXCEPT !.at = "publish"] @@ [pre |-> Len(ring)]
      /\ IF ~p.locked THEN p' = [c EXCEPT !.samples = 0]
         ELSE IF h.lost > 0 THEN p' = [c EXCEPT !.hold = HoldSamples]
         ELSE IF p.hold > 0 THEN p' = [c EXCEPT !.hold = @ - 1]
         ELSE \E d \in Depths(Len(ring)) :
                p' = [c EXCEPT !.standing = d,
                               !.samples = Aged(@, MinSamples)]
      /\ UNCHANGED <<net, env>>

\* The same without a look at the room.
PublishAnyway ==
  /\ h.at = "publish"
  /\ h' = [h EXCEPT !.at = "arm"]
  /\ p' = [p EXCEPT !.ring = Append(@, [lead |-> h.lead, real |-> TRUE])]
  /\ UNCHANGED <<net, env>>

\* The packet and its head, visible to the drain at once.
Publish ==
  /\ h.at = "publish"
  /\ h' = [h EXCEPT !.at = IF Writable(p) >= 1 THEN "arm" ELSE "done"]
  /\ p' = IF Writable(p) >= 1
          THEN [p EXCEPT !.ring = Append(@, [lead |-> h.lead, real |-> TRUE])]
          ELSE p
  /\ UNCHANGED <<net, env>>

\* pkt_count and, every few packets, last_packet_us.
Stamp(c) ==
  IF c.count + 1 = Sparse THEN [c EXCEPT !.count = 0, !.stamped = TRUE, !.age = 0]
  ELSE [c EXCEPT !.count = @ + 1]

\* The same for every packet that finds no anchor.
ArmAny ==
  /\ h.at \in {"arm", "done"}
  /\ h' = NoPacket
  /\ p' = Stamp(IF h.at = "done" \/ p.armed THEN p
                ELSE IF h.tu THEN [p EXCEPT !.unarmed = Aged(@, UnarmedMin)]
                ELSE [p EXCEPT !.armed = TRUE, !.anchor = h.ts, !.armAge = 0])
  /\ UNCHANGED <<net, env>>

\* The presentation anchor: the packet that found the ring empty, unless its
\* time stamp is uncertain.
Arm ==
  /\ h.at \in {"arm", "done"}
  /\ h' = NoPacket
  /\ p' = Stamp(IF h.at = "done" \/ h.pre # 0 \/ p.armed THEN p
                ELSE IF h.tu THEN [p EXCEPT !.unarmed = Aged(@, UnarmedMin)]
                ELSE [p EXCEPT !.armed = TRUE, !.anchor = h.ts, !.armAge = 0])
  /\ UNCHANGED <<net, env>>

(***************************************************************************)
(* A pass of the drain task over the context.                              *)
(***************************************************************************)
\* stream_in_await_anchor.
AwaitAnchor(c) == [c EXCEPT !.await = TRUE, !.wait = 0, !.unarmed = 0]

Flushed(c) == [c EXCEPT !.ring = << >>]

\* stream_in_tx_idle: the DMA has played a whole ring of silence since the last
\* write, or was waited for long enough.
IdleNow(c)     == c.quiet >= DmaDepth \/ c.idle > IdleWait
IdleWaiting(c) == [c EXCEPT !.idle = IF @ = 0 THEN 1 ELSE @]

\* Playout starts: the ticks the start is late are skipped.
Lock(c, mode, skip) ==
  [c EXCEPT !.await = FALSE, !.late = 0, !.idle = 0, !.locked = TRUE,
            !.mode = mode, !.window = 0,
            !.ring = IF skip >= Len(@) THEN << >> ELSE SubSeq(@, skip + 1, Len(@)),
            !.interval = IF mode = 1 THEN RegateMin ELSE @,
            !.done = @ /\ mode # 1]

\* A start the gate has decided on, once the DMA is idle; the ring's pressure
\* starts playout whatever the gate finds.
Start(c, start, mode, skip) ==
  IF ~start /\ 4 * Readable(c) <= 3 * Capacity THEN c
  ELSE IF ~IdleNow(c) THEN IdleWaiting(c)
  ELSE IF start THEN Lock(c, mode, skip) ELSE Lock(c, 2, 0)

\* An anchor on the clock the talker shares, `diff' past its time.
PtGate(c, diff) ==
  IF diff > GateLate /\ diff < GateFar /\ c.late <= Patience
  THEN AwaitAnchor([c EXCEPT !.armed = FALSE, !.late = IF @ = 0 THEN 1 ELSE @])
  ELSE IF diff >= GateFar THEN AwaitAnchor([c EXCEPT !.armed = FALSE])
  ELSE Start(c, diff >= 0, 1, diff)

\* The same without a look at what the wait for an anchor found.
GateNoGiveUp(c) ==
  IF c.await /\ ~c.armed THEN Flushed(c)
  ELSE IF c.ring = << >> THEN c
  ELSE IF c.armed /\ c.armAge <= Stale /\ env.valid
  THEN PtGate(c, -(c.anchor + Extra + c.learned))
  ELSE Start(c, Readable(c) >= Prefill /\ ~c.await, 2, 0)

\* The playout gate, while playout is not locked.
Gate(c) ==
  LET waiting == c.await /\ ~c.armed
      gaveUp  == waiting /\ c.wait > GiveUp /\ c.unarmed >= UnarmedMin
      g == IF gaveUp THEN [c EXCEPT !.await = FALSE, !.done = TRUE] ELSE c
  IN  IF waiting /\ ~gaveUp THEN Flushed(c)
      ELSE IF g.ring = << >> THEN g
      ELSE IF g.armed /\ g.armAge <= Stale /\ env.valid
      THEN PtGate(g, -(g.anchor + Extra + g.learned))
      ELSE Start(g, Readable(g) >= Prefill /\ (~g.await \/ (g.armed /\ g.armAge > Stale)),
                 2, 0)

\* From a prefill lock back to presentation time, once the clock allows it.
MayRegate(c) ==
  /\ c.mode = 2 /\ ~c.done /\ env.valid
  /\ c.wait = Never \/ c.wait > c.interval

Regate(c) ==
  AwaitAnchor([c EXCEPT
    !.interval = IF 2 * @ > RegateMax THEN RegateMax ELSE 2 * @,
    !.locked = FALSE, !.late = 0, !.armed = FALSE])

\* How late the audio at the DAC is, and how much follows it.
AtDac(c) == IF c.dma # << >> THEN Head(c.dma).lead ELSE Head(c.ring).lead
Phase(c) == -(AtDac(c) + Extra)
Ahead(c) == Len(c.dma) + Len(c.ring)

\* The surplus of a whole window, never past presentation time.
Trim(c) ==
  LET surplus == IF c.ahead - Margin > Phase(c) THEN Phase(c) ELSE c.ahead - Margin
      n == IF surplus > Len(c.ring) THEN Len(c.ring) ELSE surplus
  IN  IF c.window <= TrimWindow \/ n < 1 THEN c
      ELSE [c EXCEPT !.ring = SubSeq(@, n + 1, Len(@))]

\* stream_in_trim_latency, from stream_in_phase_tick: a window starts, goes on
\* or ends.
TrimLatency(c) ==
  LET w == [c EXCEPT !.ahead = IF c.window = 0 \/ Ahead(c) < @ THEN Ahead(c) ELSE @]
  IN  IF c.window = 0 THEN [w EXCEPT !.window = 1]
      ELSE IF c.window <= TrimWindow THEN w
      ELSE [Trim(w) EXCEPT !.window = 1, !.ahead = Ahead(c)]

\* What the path has needed, for the next lock; a station's alone.
Learn(c) ==
  IF Wifi /\ c.quiet = 0
  THEN [c EXCEPT !.learned = IF Phase(c) < 1 THEN 0 ELSE Phase(c)] ELSE c

\* stream_in_phase_tick: once a tick, and only of audio.
PhaseTick(c) ==
  IF ~c.ticked \/ Ahead(c) = 0 \/ c.mode # 1 THEN [c EXCEPT !.ticked = FALSE]
  ELSE TrimLatency(Learn([c EXCEPT !.ticked = FALSE]))

\* stream_in_drain_empty.
DrainEmpty(c) ==
  IF c.age <= Unlock THEN c
  ELSE [Flushed(c) EXCEPT !.locked = FALSE, !.late = 0, !.armed = FALSE]

\* The ring to the DMA, as much as it takes.
Write(c) ==
  LET room == DmaDepth - Len(c.dma)
      n == IF room < Len(c.ring) THEN room ELSE Len(c.ring)
  IN  IF n = 0 THEN c
      ELSE [c EXCEPT !.dma = @ \o SubSeq(c.ring, 1, n), !.quiet = 0,
                     !.ring = SubSeq(@, n + 1, Len(@))]

\* stream_in_drain_body.
Pass(c) ==
  LET g == IF c.locked THEN c ELSE Gate(c)
      t == PhaseTick(g)
  IN  IF ~g.locked THEN g
      ELSE IF MayRegate(g) THEN Regate(g)
      ELSE IF t.ring = << >> THEN DrainEmpty(t) ELSE Write(t)

\* A pass, at worst in the middle of a packet.
Drain ==
  /\ h.at # "idle" => env.preempt > 0
  /\ p' = [Pass(p) EXCEPT !.ticked = FALSE]
  /\ env' = [env EXCEPT !.preempt = IF h.at = "idle" THEN @ ELSE @ - 1]
  /\ UNCHANGED <<h, net>>

(***************************************************************************)
(* Time, the talker and the network.                                       *)
(***************************************************************************)
\* Packets leave and arrive in order; one that takes longer is held up with
\* all that follow it.
Held == net # << >> /\ Head(net) <= Offset - Transit

Later(slots) == [i \in DOMAIN slots |-> [slots[i] EXCEPT !.lead = Passed(@)]]

AgedContext ==
  [p EXCEPT
    !.ring = Later(@), !.dma = IF @ = << >> THEN @ ELSE Later(Tail(@)),
    !.quiet = IF p.dma = << >> THEN Aged(@, DmaDepth) ELSE @,
    !.anchor = IF p.locked THEN 0 ELSE Passed(@),
    !.armAge = IF p.locked \/ ~p.armed THEN 0 ELSE Aged(@, Stale + 1),
    !.last = Passed(@),
    !.age = Aged(@, Unlock + 1),
    !.wait = Aged(@, Never),
    !.late = IF @ = 0 THEN 0 ELSE Aged(@, Patience + 1),
    !.idle = IF @ = 0 THEN 0 ELSE Aged(@, IdleWait + 1),
    !.window = IF @ = 0 THEN 0 ELSE Aged(@, TrimWindow + 1),
    !.ticked = TRUE]

\* A tick: the DAC plays a buffer, the talker sends a packet.  The drain is
\* woken at least once a tick and the handler is far faster than one.  The
\* drain's view of the talker's clock is a tick old at most.
Tick ==
  /\ ~p.ticked /\ h.at = "idle"
  /\ Held => env.faults > 0
  /\ p' = AgedContext
  /\ net' = Append([i \in DOMAIN net |-> Passed(net[i])], Offset)
  /\ env' = [env EXCEPT !.faults = IF Held THEN @ - 1 ELSE @,
                        !.valid = (env.shift = 0)]
  /\ UNCHANGED h

Lose ==
  /\ net # << >> /\ env.faults > 0
  /\ net' = Tail(net) /\ env' = [env EXCEPT !.faults = @ - 1]
  /\ UNCHANGED <<p, h>>

\* The last packet again.
Duplicate ==
  /\ env.faults > 0 /\ h.at = "idle" /\ p.heard /\ p.last > Floor
  /\ net' = <<p.last>> \o net /\ env' = [env EXCEPT !.faults = @ - 1]
  /\ UNCHANGED <<p, h>>

\* The talker's clock joins the listener's.
Sync == env.shift # 0 /\ env' = [env EXCEPT !.shift = 0] /\ UNCHANGED <<p, h, net>>

\* avb_stop_stream_in and avb_start_stream_in: what the DMA holds plays on.
Restart ==
  /\ env.faults > 0 /\ env' = [env EXCEPT !.faults = @ - 1]
  /\ p' = Started(p.dma) /\ h' = NoPacket /\ UNCHANGED net

Next ==
  \/ Receive \/ Insert \/ Publish \/ Arm \/ Drain
  \/ Tick \/ Lose \/ Duplicate \/ Sync \/ Restart

Spec == Init /\ [][Next]_vars

\* The receive task and the drain run when they are woken.
FairSpec ==
  /\ Spec
  /\ WF_vars(Receive) /\ WF_vars(Insert \/ Publish \/ Arm) /\ WF_vars(Drain)
  /\ WF_vars(Tick)

-----------------------------------------------------------------------------
\* The ring and the DMA hold no more than their size, and playout that is
\* locked has a mode (ring_writable, i2s_tx_dma_ring_bytes, diag_gate_mode).
TypeOK ==
  /\ p.ring \in Seq(Slot) /\ Len(p.ring) <= Capacity
  /\ p.dma \in Seq(Slot) /\ Len(p.dma) <= DmaDepth
  /\ p.mode \in 0..2 /\ p.locked => p.mode # 0

\* Received audio is what the DAC plays, on presentation time.
Playing == p.locked /\ p.mode = 1 /\ p.dma # << >> /\ Head(p.dma).real

\* What the DAC plays of a synchronized talker is a tick off its presentation
\* time at most, and one more for each loss, delay, duplicate or restart so
\* far: concealment gives back what a loss took and nothing twice, a trim ends
\* at presentation time, and an anchor is of the packet the ring starts with
\* (avb_stream_rx_handler, stream_in_drain_body, stream_in_trim_latency).
OnTime ==
  Playing /\ env.shift = 0 =>
    Phase(p) \in -(1 + MaxFault - env.faults)..1 + MaxFault - env.faults

\* Whatever was lost, late or uncertain, playout locks in the end and stays
\* locked, on presentation time unless the talker's time stamps stay uncertain
\* or its clock never joins (the gate, its patience, and stream_in_await_anchor
\* with the way out of it).
Plays == <>[](p.locked /\ (p.mode = 1 \/ env.tu > TuHold \/ env.shift # 0))
=============================================================================
