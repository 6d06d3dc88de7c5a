-------------------------------- MODULE Maap --------------------------------
(***************************************************************************)
(* The acquisition of a multicast destination address for each output      *)
(* stream of the stations on one network (src/mrp.c, section MAAP): three  *)
(* probes, an announcement every 30 s, and what a station does about the   *)
(* messages of the others that name an address of its own.                 *)
(*                                                                         *)
(* An address follows from the station's MAC address, the stream and how   *)
(* often the station had to choose anew.  The clock moves only when        *)
(* nothing is due and nothing on its way: a network delivers in far less   *)
(* than the probe interval.  A station does not hear itself.               *)
(***************************************************************************)
EXTENDS Integers, Sequences, FiniteSets

CONSTANTS
  Station,
  Streams,        \* Streams[st]: num_output_streams
  Seed,           \* Seed[st]: the hash of its MAC address
  Stride,         \* 0x0101
  Pool,           \* MAAP_POOL_SIZE
  Retransmits,    \* MAAP_PROBE_RETRANSMITS
  ProbeTime,      \* the probe intervals with their jitter
  AnnounceTime,   \* the announce intervals with theirs
  NoAddress,      \* a stream_dest_addr of zeroes
  MaxMissed,       \* bound: messages a station does not hear
  MaxOff          \* bound: stations switched off

Index(st) == 0..(Streams[st] - 1)

ASSUME MaapAssumption ==
  /\ Streams \in [Station -> Nat \ {0}] /\ Seed \in [Station -> Nat]
  /\ {Stride, Pool} \subseteq Nat \ {0} /\ NoAddress \notin Nat
  /\ Retransmits \in Nat /\ Retransmits > 2
  /\ ProbeTime \cup AnnounceTime \subseteq Nat \ {0}
  /\ ProbeTime # {} /\ AnnounceTime # {}
  /\ {MaxMissed, MaxOff} \subseteq Nat

VARIABLES
  maap,     \* state->maap of each station
  dest,     \* stream_dest_addr of each output stream
  on,       \* stations switched on
  heard,    \* messages on their way to each station
  shared,   \* units that two streams hold one address
  missed, offs

maapVars == <<maap, dest, on, heard, shared, missed, offs>>

\* maap_generate_addr: what the count of choices adds repeats after Pool.
Address(st, i, choice) == (Seed[st] + i + choice * Stride) % Pool

Addr(st, i) == Address(st, i, maap[st][i].reselect)

Message == [type : {"probe", "defend", "announce"}, addr : 0..(Pool - 1)]

Probing(choice, wait) ==
  [state |-> "probe", reselect |-> choice, probes |-> Retransmits,
   timer |-> wait]

Initial == [state |-> "initial", reselect |-> 0, probes |-> 0, timer |-> 0]

MaapInit ==
  /\ maap = [st \in Station |-> [i \in Index(st) |-> Initial]]
  /\ dest = [st \in Station |-> [i \in Index(st) |-> NoAddress]]
  /\ on = {}
  /\ heard = [st \in Station |-> << >>]
  /\ shared = 0 /\ missed = 0 /\ offs = 0

\* A multicast of `from', after what is on its way.
Multicast(h, from, msgs) ==
  [st \in Station |-> IF st \in on \ {from} THEN h[st] \o msgs ELSE h[st]]

\* Some streams in the order of the table.
TableOrder(some) ==
  CHOOSE q \in [1..Cardinality(some) -> some] :
    \A j, k \in DOMAIN q : j < k => q[j] < q[k]

\* A message for each of some streams, in that order.
InOrder(msg) ==
  LET order == TableOrder(DOMAIN msg)
  IN  [k \in DOMAIN order |-> msg[order[k]]]

\* avb_maap_init.
Boot(st) ==
  /\ st \notin on /\ on' = on \cup {st}
  /\ \E wait \in [Index(st) -> ProbeTime] :
       maap' = [maap EXCEPT ![st] = [i \in Index(st) |-> Probing(0, wait[i])]]
  /\ heard' = Multicast(heard, st, InOrder([i \in Index(st) |->
                [type |-> "probe", addr |-> Address(st, i, 0)]]))
  /\ UNCHANGED <<dest, shared, missed, offs>>

\* A station loses power.
StationOff(st) ==
  /\ st \in on /\ offs < MaxOff
  /\ on' = on \ {st} /\ offs' = offs + 1
  /\ maap' = [maap EXCEPT ![st] = [i \in Index(st) |-> Initial]]
  /\ dest' = [dest EXCEPT ![st] = [i \in Index(st) |-> NoAddress]]
  /\ heard' = [heard EXCEPT ![st] = << >>]
  /\ UNCHANGED <<shared, missed>>

-----------------------------------------------------------------------------
(* avb_maap_tick.                                                          *)
DueStreams(st) == {i \in Index(st) : maap[st][i].timer = 0}

\* The same with one probe alone.
AcquiresAtOnce(m) == m.state = "probe" /\ m.probes <= Retransmits

\* The last interval passed and nobody objected.
Acquires(m) == m.state = "probe" /\ m.probes = 1

Ticked(m, probe, announce) ==
  IF m.state = "probe" /\ ~Acquires(m)
  THEN [m EXCEPT !.probes = @ - 1, !.timer = probe]
  ELSE [m EXCEPT !.state = "defend", !.probes = 0, !.timer = announce]

MaapTick(st) ==
  /\ st \in on /\ DueStreams(st) # {}
  /\ \E probe \in [Index(st) -> ProbeTime],
        announce \in [Index(st) -> AnnounceTime] :
       maap' = [maap EXCEPT ![st] = [i \in Index(st) |->
         IF i \in DueStreams(st) THEN Ticked(@[i], probe[i], announce[i]) ELSE @[i]]]
  /\ dest' = [dest EXCEPT ![st] = [i \in Index(st) |->
       IF i \in DueStreams(st) /\ Acquires(maap[st][i]) THEN Addr(st, i) ELSE @[i]]]
  /\ heard' = Multicast(heard, st, InOrder([i \in DueStreams(st) |->
       [type |-> IF maap'[st][i].state = "probe" THEN "probe" ELSE "announce",
        addr |-> Addr(st, i)]]))
  /\ UNCHANGED <<on, shared, missed, offs>>

-----------------------------------------------------------------------------
(* avb_process_maap.                                                       *)

\* The same for an owner that gives way to a probe.
YieldsToProbe(m, type) ==
  \/ m.state = "probe" /\ type \in {"probe", "defend"}
  \/ m.state = "defend" /\ type # "defend"

\* The same for an owner that insists.
YieldsNotToAnnounce(m, type) ==
  m.state = "probe" /\ type \in {"probe", "defend"}

\* Who probes gives way to a probe as to a defence, whichever MAC address is
\* lower, and an owner to an announcement.
Yields(m, type) ==
  \/ m.state = "probe" /\ type \in {"probe", "defend"}
  \/ m.state = "defend" /\ type = "announce"

MaapReceive(st) ==
  /\ st \in on /\ heard[st] # << >>
  /\ LET msg   == Head(heard[st])
         own   == {i \in Index(st) : Addr(st, i) = msg.addr}
         gives == {i \in own : Yields(maap[st][i], msg.type)}
         owner == {i \in own \ gives :
                     maap[st][i].state = "defend" /\ msg.type = "probe"}
     IN  /\ \E wait \in [Index(st) -> ProbeTime] :
              maap' = [maap EXCEPT ![st] = [i \in Index(st) |->
                IF i \in gives
                THEN Probing((@[i].reselect + 1) % Pool, wait[i]) ELSE @[i]]]
         /\ heard' = Multicast([heard EXCEPT ![st] = Tail(@)], st,
              InOrder([i \in owner |-> [type |-> "defend", addr |-> msg.addr]]))
  /\ UNCHANGED <<dest, on, shared, missed, offs>>

MaapLose(st) ==
  /\ heard[st] # << >> /\ missed < MaxMissed
  /\ missed' = missed + 1
  /\ heard' = [heard EXCEPT ![st] = Tail(@)]
  /\ UNCHANGED <<maap, dest, on, shared, offs>>

Output == UNION {{st} \X Index(st) : st \in Station}
Holds(o) == maap[o[1]][o[2]].state = "defend"
AddrOf(o) == Addr(o[1], o[2])
DestOf(o) == dest[o[1]][o[2]]

TwoHold == \E o, p \in Output :
  o # p /\ Holds(o) /\ Holds(p) /\ AddrOf(o) = AddrOf(p)

MaapPass ==
  /\ \A st \in on : DueStreams(st) = {} /\ heard[st] = << >>
  /\ shared' = IF TwoHold THEN shared + 1 ELSE 0
  /\ maap' = [st \in Station |-> [i \in Index(st) |->
       [maap[st][i] EXCEPT !.timer = IF st \in on THEN @ - 1 ELSE @]]]
  /\ UNCHANGED <<dest, on, heard, missed, offs>>

MaapNext ==
  \/ MaapPass
  \/ \E st \in Station :
       Boot(st) \/ StationOff(st) \/ MaapTick(st) \/ MaapReceive(st) \/ MaapLose(st)

MaapSpec == MaapInit /\ [][MaapNext]_maapVars

-----------------------------------------------------------------------------
\* Type invariant.
MaapTypeOK ==
  /\ \A st \in Station : \A i \in Index(st) :
       /\ maap[st][i].state \in {"initial", "probe", "defend"}
       /\ maap[st][i].reselect \in 0..(Pool - 1)
       /\ maap[st][i].probes \in 0..Retransmits
       /\ dest[st][i] \in (0..(Pool - 1)) \cup {NoAddress}
  /\ on \subseteq Station /\ \A st \in Station : heard[st] \in Seq(Message)

\* One lost message does not lead two talkers to the same destination: who
\* chose an address probes it more than once before it is taken
\* (avb_maap_tick, avb_process_maap).
DestUnique ==
  missed <= 1 => \A o, p \in Output :
    o # p /\ DestOf(o) # NoAddress => DestOf(o) # DestOf(p)

\* Nor does it, or any newcomer, make a talker leave the address it has.
HeldIsKept ==
  [][missed' <= 1 => \A o \in Output :
       Holds(o) /\ o[1] \in on' => Holds(o)' /\ AddrOf(o)' = AddrOf(o)]_maapVars

\* However many messages are lost, an address that two talkers hold is given
\* up by one of them: each announces it, and the other gives way.  Two losses
\* make them share one, and each that follows costs an interval
\* (avb_maap_tick, avb_process_maap).
SharedNotLong ==
  shared > 0 => \A t \in AnnounceTime : shared <= (missed - 1) * t

\* The destination a talker advertises is the one it holds (the code breaks
\* it: who gives way keeps stream_dest_addr until the next one is acquired).
DestIsHeld == \A o \in Output : DestOf(o) # NoAddress => Holds(o)
=============================================================================
