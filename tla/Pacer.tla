-------------------------------- MODULE Pacer --------------------------------
(***************************************************************************)
(* The bridge's pacer of station streams (src/avbnet.c): Wi-Fi hands the   *)
(* bridge a stream in bursts, and each frame of a reserved stream leaves   *)
(* the wired port no sooner than its class measurement interval after the  *)
(* MaxIntervalFrames-th before it.  A frame that is early waits in the     *)
(* queue of its stream.  Two tasks drain the queues, the one that forwards *)
(* and the one the timer wakes; they share a spinlock and transmit outside *)
(* it.                                                                     *)
(*                                                                         *)
(* A frame is the number its talker gave it.  Time is in ticks, each       *)
(* longer than what the tasks have to do in it: it passes when neither is  *)
(* in the middle of something.  Each step of a task is what it does under  *)
(* the lock, and a transmission ends with the count of it.                 *)
(***************************************************************************)
EXTENDS Integers, SequencesExt

CONSTANTS
  Stream, None,
  Entry,     \* 1..STATION_PACER_STREAMS
  Depth,     \* STATION_PACER_DEPTH
  Interval,  \* class measurement interval of a stream
  Tspecs,    \* MaxIntervalFrames a talker may declare; 0: not reserved
  Idle,      \* STATION_PACER_IDLE_US
  MaxFrame   \* frames of a stream in a behaviour

ASSUME PacerAssumption ==
  /\ None \notin Stream
  /\ Depth \in Nat /\ Depth > 1 /\ Idle \in Nat /\ MaxFrame \in Nat
  /\ Interval \in [Stream -> Nat \ {0}] /\ Tspecs \subseteq Nat
  /\ IsFiniteSet(Stream) /\ IsFiniteSet(Entry) /\ Entry = 1..Cardinality(Entry)

VARIABLES
  pacer,   \* s_pacers
  rx,      \* the task that forwards a frame
  drain,   \* station_pacer_drain, by that task and by the timer's
  timer,   \* the alarm, and the notification of the timer's task
  talker,  \* the frames sent so far and the TSpec declared
  wire     \* what left the port of late, and whether two tasks crossed

vars == <<pacer, rx, drain, timer, talker, wire>>

Task == {"rx", "timer"}
Off == -1   \* no alarm
Longest == Max({Interval[s] : s \in Stream})

Aged(t, max) == IF t < max THEN t + 1 ELSE max

NoEntry == [stream |-> None, slots |-> FALSE,
            slot |-> [i \in 0..Depth - 1 |-> 0], head |-> 0, count |-> 0,
            flight |-> 0, max |-> 0, sent |-> << >>, interval |-> 1, idle |-> 0]
Resting == [at |-> "off"]

Init ==
  /\ pacer = [e \in Entry |-> NoEntry]
  /\ rx = Resting /\ drain = [k \in Task |-> Resting]
  /\ timer = [alarm |-> Off, notified |-> FALSE]
  /\ talker \in [Stream -> [sent : {0}, tspec : Tspecs]]
  /\ wire = [s \in Stream |-> [recent |-> << >>, crossed |-> FALSE]]

\* How long until station_pacer_next_ns: an interval after the oldest of the
\* last MaxIntervalFrames frames.
Wait(p) == IF p.interval > Head(p.sent) THEN p.interval - Head(p.sent) ELSE 0

\* station_pacer_note_send.
Noted(p) == [p EXCEPT !.sent = Append(Tail(@), 0)]

\* The frame at the head of the queue is taken off it to be sent.
Taken(p) == [Noted(p) EXCEPT !.head = (@ + 1) % Depth, !.count = @ - 1,
                             !.flight = @ + 1]

\* Frames of e that both tasks have at once may leave in either order.
Crossed(e) ==
  wire' = [wire EXCEPT ![pacer[e].stream].crossed = @ \/ pacer[e].flight > 0]

Sent(e) == pacer' = [pacer EXCEPT ![e].flight = @ - 1]

\* avb_bridge_forward: frame n of s leaves the port.
Left(s, n, how) ==
  wire' = [wire EXCEPT ![s].recent =
             Append(@, [n |-> n, age |-> 0, how |-> how])]

-----------------------------------------------------------------------------
(* station_pacer_drain. *)

\* One task drains at a time; what is queued meanwhile the other one finds.
Draining == \E k \in Task : drain[k].at \in {"look", "send"}

Drain(k) ==
  drain' = [drain EXCEPT ![k] = IF Draining THEN Resting ELSE [at |-> "look"]]

Queued == {e \in Entry : pacer[e].count > 0}
Due == {e \in Queued : Wait(pacer[e]) = 0}

\* The same without an alarm.
TakeUnarmed(k) ==
  /\ drain[k].at = "look"
  /\ \/ /\ Due # {}
        /\ LET e == Min(Due) IN
           /\ drain' = [drain EXCEPT ![k] =
                [at |-> "send", entry |-> e, slot |-> pacer[e].head,
                 n |-> pacer[e].slot[pacer[e].head]]]
           /\ pacer' = [pacer EXCEPT ![e] = Taken(@)]
           /\ Crossed(e)
     \/ /\ Due = {}
        /\ drain' = [drain EXCEPT ![k] = Resting]
        /\ UNCHANGED <<pacer, wire>>
  /\ UNCHANGED <<rx, timer, talker>>

\* A frame that is due, of the first queue that has one; with none the drain
\* ends and the alarm is for the first that will be.
Take(k) ==
  /\ drain[k].at = "look"
  /\ \/ /\ Due # {}
        /\ LET e == Min(Due) IN
           /\ drain' = [drain EXCEPT ![k] =
                [at |-> "send", entry |-> e, slot |-> pacer[e].head,
                 n |-> pacer[e].slot[pacer[e].head]]]
           /\ pacer' = [pacer EXCEPT ![e] = Taken(@)]
           /\ Crossed(e)
     \/ /\ Due = {} /\ Queued # {}
        /\ drain' = [drain EXCEPT ![k] =
             [at |-> "arm", wait |-> Min({Wait(pacer[e]) : e \in Queued})]]
        /\ UNCHANGED <<pacer, wire>>
     \/ /\ Queued = {}
        /\ drain' = [drain EXCEPT ![k] = Resting]
        /\ UNCHANGED <<pacer, wire>>
  /\ UNCHANGED <<rx, timer, talker>>

\* The frame is what its slot holds by now.
Send(k) ==
  /\ drain[k].at = "send"
  /\ LET p == pacer[drain[k].entry]
     IN  Left(p.stream, p.slot[drain[k].slot], "paced")
  /\ Sent(drain[k].entry)
  /\ drain' = [drain EXCEPT ![k] = [at |-> "look"]]
  /\ UNCHANGED <<rx, timer, talker>>

\* The alarm of the task that sets it last, whatever the other one found.
Arm(k) ==
  /\ drain[k].at = "arm"
  /\ timer' = [timer EXCEPT !.alarm = drain[k].wait]
  /\ drain' = [drain EXCEPT ![k] = Resting]
  /\ UNCHANGED <<pacer, rx, talker, wire>>

\* station_pacer_task, woken by station_pacer_alarm.
Wake ==
  /\ timer.notified /\ drain["timer"].at = "off"
  /\ timer' = [timer EXCEPT !.notified = FALSE]
  /\ Drain("timer")
  /\ UNCHANGED <<pacer, rx, talker, wire>>

-----------------------------------------------------------------------------
(* station_pacer_forward. *)

Of(s) == {e \in Entry : pacer[e].stream = s}
Spare == {e \in Entry : pacer[e].stream = None
                         \/ (pacer[e].count = 0 /\ pacer[e].flight = 0
                             /\ pacer[e].idle > Idle)}

\* The same for each frame.
UsedAnew(p, s) ==
  LET max == talker[s].tspec IN
  [p EXCEPT !.stream = s, !.interval = Interval[s], !.idle = 0, !.max = max,
            !.sent = [i \in 1..max |-> Interval[s]]]

\* The same only for a new entry.
UsedOn(p, s) ==
  LET max == talker[s].tspec IN
  [p EXCEPT !.stream = s, !.interval = Interval[s], !.idle = 0, !.max = max,
            !.sent = IF p.max # 0 THEN @ ELSE [i \in 1..max |-> Interval[s]]]

\* The send history starts anew with another MaxIntervalFrames.
Used(p, s) ==
  LET max == talker[s].tspec IN
  [p EXCEPT !.stream = s, !.interval = Interval[s], !.idle = 0, !.max = max,
            !.sent = IF p.max = max THEN @ ELSE [i \in 1..max |-> Interval[s]]]

Reset(p, s) == [p EXCEPT !.stream = s, !.head = 0, !.count = 0, !.max = 0]

\* The same without a look at what is on its way out.
ClearCount(p) == p.count = 0

\* Is there nothing before a frame that is not out.
Clear(p) == p.count = 0 /\ p.flight = 0 /\ ~Draining

\* A frame arrives.  One of no reservation passes unpaced, and so does one of a
\* stream without an entry, whose queue is allocated for the next.
Forward(s) ==
  LET n == talker[s].sent + 1
      unpaced ==
        /\ wire' = [wire EXCEPT ![s] =
             [recent |-> Append(@.recent, [n |-> n, age |-> 0,
                                           how |-> "unpaced"]),
              crossed |-> @.crossed \/ \E e \in Of(s) : ~Clear(pacer[e])]]
        /\ UNCHANGED rx
      paced(e, p) ==
        /\ rx' = [at |-> "queue", entry |-> e, n |-> n]
        /\ pacer' = [pacer EXCEPT ![e] = Used(p, s)]
        /\ wire' = IF p.max = talker[s].tspec THEN wire
                   ELSE [wire EXCEPT ![s] =
                     [recent |-> << >>, crossed |-> @.crossed \/ p.flight > 0]]
  IN  /\ rx.at = "off" /\ drain["rx"].at = "off" /\ n <= MaxFrame
      /\ talker' = [talker EXCEPT ![s].sent = n]
      /\ \/ talker[s].tspec = 0 /\ unpaced /\ UNCHANGED pacer
         \/ talker[s].tspec > 0 /\ \E e \in Of(s) : paced(e, pacer[e])
         \/ /\ talker[s].tspec > 0 /\ Of(s) = {} /\ Spare # {}
            /\ pacer[Min(Spare)].slots
            /\ paced(Min(Spare), Reset(pacer[Min(Spare)], s))
         \/ /\ talker[s].tspec > 0 /\ Of(s) = {}
            /\ Spare # {} => ~pacer[Min(Spare)].slots
            /\ unpaced
            /\ pacer' = [e \in Entry |-> IF Spare # {} /\ e = Min(Spare)
                                        THEN [pacer[e] EXCEPT !.slots = TRUE]
                                        ELSE pacer[e]]
      /\ UNCHANGED <<drain, timer>>

\* The frame goes, is queued, or lets the oldest go early and tries again.  (The
\* code has a case for every slot in flight, which takes as many tasks.)
Place ==
  LET e == rx.entry  p == pacer[rx.entry] IN
  /\ rx.at = "queue"
  /\ \/ /\ Clear(p) /\ Wait(p) = 0
        /\ rx' = [rx EXCEPT !.at = "send"]
        /\ pacer' = [pacer EXCEPT ![e] = [Noted(p) EXCEPT !.flight = @ + 1]]
        /\ UNCHANGED <<drain, wire>>
     \/ /\ ~(Clear(p) /\ Wait(p) = 0) /\ p.count + p.flight < Depth
        /\ pacer' = [pacer EXCEPT ![e].slot[(p.head + p.count) % Depth] = rx.n,
                                  ![e].count = @ + 1]
        /\ rx' = Resting
        /\ Drain("rx")
        /\ UNCHANGED wire
     \/ /\ ~(Clear(p) /\ Wait(p) = 0) /\ p.count + p.flight >= Depth
        /\ rx' = [at |-> "head", entry |-> e, n |-> rx.n, slot |-> p.head]
        /\ pacer' = [pacer EXCEPT ![e] = Taken(p)]
        /\ Crossed(e)
        /\ UNCHANGED drain
  /\ UNCHANGED <<timer, talker>>

\* The frame that goes early is out.
SendHead ==
  /\ rx.at = "head"
  /\ LET p == pacer[rx.entry] IN Left(p.stream, p.slot[rx.slot], "early")
  /\ Sent(rx.entry)
  /\ rx' = [at |-> "queue", entry |-> rx.entry, n |-> rx.n]
  /\ UNCHANGED <<drain, timer, talker>>

\* The frame is out, and then this task drains what is due.
SendNow ==
  /\ rx.at = "send"
  /\ Left(pacer[rx.entry].stream, rx.n, "paced")
  /\ Sent(rx.entry) /\ rx' = Resting
  /\ Drain("rx")
  /\ UNCHANGED <<timer, talker>>

-----------------------------------------------------------------------------
\* What is too old to matter is forgotten, but the last frame's number.
Recent(s, r) ==
  LET old == {i \in DOMAIN r : r[i].age >= Interval[s] /\ i < Len(r)}
  IN  SubSeq(r, Cardinality(old) + 1, Len(r))

Older(r, max) == [i \in DOMAIN r |-> [r[i] EXCEPT !.age = Aged(@, max)]]

\* A tick: all that was to do is done.
Tick ==
  /\ rx.at = "off" /\ \A k \in Task : drain[k].at = "off"
  /\ ~timer.notified
  /\ pacer' = [e \in Entry |->
       [pacer[e] EXCEPT
          !.sent = [i \in DOMAIN @ |-> Aged(@[i], pacer[e].interval)],
          !.idle = IF pacer[e].stream = None THEN 0 ELSE Aged(@, Idle + 1)]]
  /\ timer' = [alarm |-> IF timer.alarm > 1 THEN timer.alarm - 1 ELSE Off,
               notified |-> timer.alarm = 1]
  /\ wire' = [s \in Stream |-> [wire[s] EXCEPT !.recent =
       Recent(s, Older(@, Interval[s]))]]
  /\ UNCHANGED <<rx, drain, talker>>

\* The talker declares another TSpec, or withdraws it.
Declare(s, max) ==
  /\ max # talker[s].tspec /\ talker[s].sent < MaxFrame
  /\ talker' = [talker EXCEPT ![s].tspec = max]
  /\ UNCHANGED <<pacer, rx, drain, timer, wire>>

Next ==
  \/ \E s \in Stream : Forward(s) \/ \E max \in Tspecs : Declare(s, max)
  \/ Place \/ SendHead \/ SendNow \/ Wake \/ Tick
  \/ \E k \in Task : Take(k) \/ Send(k) \/ Arm(k)

Spec == Init /\ [][Next]_vars

\* Both tasks run when they have something to do, and time passes.
Fairness ==
  /\ WF_vars(Tick) /\ WF_vars(Wake)
  /\ WF_vars(Place) /\ WF_vars(SendHead) /\ WF_vars(SendNow)
  /\ \A k \in Task : WF_vars(Take(k)) /\ WF_vars(Send(k)) /\ WF_vars(Arm(k))

FairSpec == Spec /\ Fairness

-----------------------------------------------------------------------------
\* No queue holds more than its slots, two tasks at most have a frame of it, and
\* its send history is as long as MaxIntervalFrames says (sent_idx stays in it).
TypeOK ==
  /\ \A e \in Entry :
       /\ pacer[e].count \in 0..Depth /\ pacer[e].head \in 0..Depth - 1
       /\ pacer[e].flight \in 0..2 /\ Len(pacer[e].sent) = pacer[e].max
  /\ timer.alarm \in {Off} \cup 0..Longest

\* Each frame leaves behind the one before it and none is left out, whichever
\* of the two tasks sends it: the forwarding task lets a frame pass the queue
\* only when nothing of the stream is queued or on its way out, and nobody
\* drains.  (A full queue that both tasks send from, or a frame that came after
\* the reservation went, can be out of order.)
InOrder ==
  \A s \in Stream : LET r == wire[s].recent IN
    ~wire[s].crossed => \A i \in 2..Len(r) : r[i].n = r[i - 1].n + 1

\* A paced frame leaves when fewer than MaxIntervalFrames left in the interval
\* before it, those a full queue let go early among them
\* (station_pacer_note_send, station_pacer_next_ns).
Spacing ==
  \A e \in Entry : pacer[e].stream # None =>
    LET w == wire[pacer[e].stream]
        r == w.recent IN
    ~w.crossed => \A i \in DOMAIN r :
      r[i].how = "paced" /\ r[i].age = 0 =>
        Cardinality({j \in 1..i - 1 : /\ r[j].age < pacer[e].interval
                                      /\ r[j].how # "unpaced"}) < pacer[e].max

\* What is queued goes out in the end, though one task drains at a time and the
\* other goes on without it, and the alarm is set outside the lock
\* (s_pacer_draining, station_pacer_drain).
Leaves == \A e \in Entry : pacer[e].count > 0 ~> pacer[e].count = 0

\* "queue this one behind the rest once its slot is free" (avbnet.c:526): what
\* is being sent from a slot stays there until it is out (the code breaks it).
SlotFree ==
  \A k \in Task : drain[k].at = "send" =>
    pacer[drain[k].entry].slot[drain[k].slot] = drain[k].n
=============================================================================
