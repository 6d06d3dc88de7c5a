------------------------------- MODULE Entity -------------------------------
(***************************************************************************)
(* What controllers set and are told (src/atdecc.c, src/atdecc_unsol.c):   *)
(* the state-changing AECP commands with their refusals, the entity's lock *)
(* and acquisition, and the notifications that keep every registered       *)
(* controller up to date, those sent with a command and those sent by the  *)
(* 100 ms comparison with what was last sent.                              *)
(*                                                                         *)
(* A controller registers, and is told, per MAC address: a Port.  When it  *)
(* registers it reads the whole state.  Of a stream format only the rate   *)
(* matters here; names, volumes, mappings, presentation offsets, the media *)
(* clock reference and the configuration of AVB Lite are knobs of two      *)
(* values.  The network loses nothing, and a registration may lapse at any *)
(* time.                                                                   *)
(***************************************************************************)
EXTENDS Naturals, FiniteSets

CONSTANTS
  Controller,
  Port,         \* MAC addresses the controllers send from
  Id,           \* the controller behind each
  NoOne,        \* holds no lock
  Input, Output,
  Rate, DefaultRate,
  Talker, None, \* what an input may be bound to, or not
  MaxTable,     \* AVB_MAX_UNSOL_CONTROLLERS
  AutoCrf,      \* CONFIG_ESP_AVB_AUTO_CRF_CLOCK_SOURCE
  MaxCommand,   \* commands that may still change something
  MaxEvent      \* events of the network and the audio that may still happen

ASSUME EntityAssumption ==
  /\ Id \in [Port -> Controller] /\ NoOne \notin Controller /\ None \notin Talker
  /\ Input \cap Output = {} /\ DefaultRate \in Rate
  /\ Output \cap {"name", "control", "map", "reference", "lite"} = {}
  /\ MaxTable \in Nat \ {0} /\ AutoCrf \in BOOLEAN
  /\ MaxCommand \in Nat /\ MaxEvent \in Nat

VARIABLES
  milan,      \* config.milan_compliant, which never changes
  rate,       \* config.default_sample_rate, the codec's
  format,     \* the rate of each stream's format
  knob,
  tone,       \* the test tone
  clock,      \* active_clock_source_index: avb_pll_tick moves it too, and tells nobody
  crf,        \* the CRF input is connected and its anchor fresh
  input,      \* talker, phase of the connection, and streaming_wait
  streaming,  \* output streams that send
  locked, acquired,
  table,      \* ports registered for unsolicited notifications
  told,       \* what each of them has last heard of the state
  sent,       \* what the comparisons with the current state last sent
  actor,      \* the controller whose command the last step was, or NoOne
  commands, events

settings == <<rate, format, knob, tone, clock, input>>
vars == <<milan, rate, format, knob, tone, clock, crf, input, streaming, locked,
          acquired, table, told, sent, actor, commands, events>>

Stream == Input \cup Output
Knob   == {"name", "control", "map", "reference", "lite"}
            \cup Output                \* of an output: its presentation offset
Phase  == {"idle", "pending", "connected"}
Binding == [talker : Talker \cup {None}, phase : Phase, wait : BOOLEAN]
Free   == [talker |-> None, phase |-> "idle", wait |-> FALSE]

\* avb_fill_rsp_get_stream_info, for every stream.
StreamInfo ==
  [s \in Stream |->
     IF s \in Input
     THEN <<format[s], input[s].phase = "connected",
            input[s].talker # None /\ input[s].wait>>
     ELSE <<format[s]>>]

\* avb_fill_rsp_mvu_stream_input_info_ex, for every input.
InputInfoEx ==
  [i \in Input |-> <<input[i].talker, input[i].phase = "connected">>]

View == [rate |-> rate, format |-> format, knob |-> knob, tone |-> tone,
         lock |-> locked, acquired |-> acquired # NoOne, info |-> StreamInfo,
         ex |-> InputInfoEx]

NotRegistered == [rate |-> NoOne]
Unsent == [info |-> << >>, ex |-> << >>, lite |-> {}]

Init ==
  /\ milan \in BOOLEAN
  /\ rate = DefaultRate /\ format = [s \in Stream |-> rate]
  /\ knob = [k \in Knob |-> 0] /\ tone = FALSE
  /\ clock = "internal" /\ crf = FALSE
  /\ input = [i \in Input |-> Free] /\ streaming = {}
  /\ locked = NoOne /\ acquired = NoOne
  /\ table = {} /\ told = [p \in Port |-> NotRegistered] /\ sent = Unsent
  /\ actor = NoOne
  /\ commands = MaxCommand /\ events = MaxEvent

\* What every action does to the bounds and to the name of the actor.
Command(p) == /\ commands > 0 /\ commands' = commands - 1
              /\ actor' = Id[p] /\ UNCHANGED <<milan, events>>
Event      == /\ events > 0 /\ events' = events - 1
              /\ actor' = NoOne /\ UNCHANGED <<milan, commands>>
Uncounted  == actor' = NoOne /\ UNCHANGED <<milan, commands, events>>

(***************************************************************************)
(* Notification.                                                           *)
(***************************************************************************)
\* The same skipping every entry with the requester's entity ID.
NotifiedById(p) == {q \in table : Id[q] # Id[p]}

\* avb_unsol_notify after a command from p: everyone but the entry with the
\* requester's ID and address.
Notified(p) == table \ {p}

\* The requester learns the same from the answer.
Informed(p) == Notified(p) \cup ({p} \cap table)

Heard(t, who, field, value) ==
  [q \in Port |-> IF q \in who THEN [t[q] EXCEPT ![field] = value] ELSE t[q]]

(***************************************************************************)
(* Registration, lock and acquisition.                                     *)
(***************************************************************************)
\* avb_unsol_register: a port that is not in a full table is refused; a new
\* entry's controller then reads what it is to be kept informed of.
Admitted(p) == IF Cardinality(table) < MaxTable THEN table \cup {p} ELSE table
Reads(p)    == IF p \in Admitted(p) \ table THEN [told EXCEPT ![p] = View] ELSE told

Register(p) ==
  /\ table' = Admitted(p) /\ told' = Reads(p)
  /\ Uncounted
  /\ UNCHANGED <<settings, crf, streaming, locked, acquired, sent>>

\* The entry is cleared.
Leaves(p) ==
  /\ p \in table
  /\ table' = table \ {p} /\ told' = [told EXCEPT ![p] = NotRegistered]
  /\ Uncounted
  /\ UNCHANGED <<settings, crf, streaming, locked, acquired, sent>>

\* avb_process_aecp_cmd_deregister_unsol_notif.
Deregister(p) == Leaves(p)

\* avb_unsol_registrations_tick, when a registration lapsed or its controller
\* departed.
Lapses(p) == Leaves(p)

\* The same without the acquisition.
LockedOutByLock(c) == locked \notin {NoOne, c}

\* avb_acquired_or_locked_by_other.
LockedOut(c) == acquired \notin {NoOne, c} \/ locked \notin {NoOne, c}

\* avb_process_aecp_cmd_lock_entity.
LockEntity(p, unlock) ==
  /\ Command(p)
  /\ locked \in {NoOne, Id[p]}
  /\ locked' = IF unlock THEN NoOne ELSE Id[p]
  /\ told' = IF (locked = NoOne) # (locked' = NoOne)
             THEN Heard(told, Informed(p), "lock", locked') ELSE told
  /\ UNCHANGED <<settings, crf, streaming, acquired, table, sent>>

\* avb_unsol_lock_tick, once the 60 s are over: every registered controller
\* is told.
LockTick ==
  /\ locked # NoOne
  /\ locked' = NoOne /\ told' = Heard(told, table, "lock", NoOne)
  /\ Uncounted
  /\ UNCHANGED <<settings, crf, streaming, acquired, table, sent>>

\* avb_process_aecp_cmd_acquire_entity, whoever holds the entity: the answer
\* may fail to leave, and then nothing changes.  The new owner is registered
\* if there is room, before the others are told.
Acquire(p) ==
  /\ Command(p) /\ ~milan
  /\ acquired' = Id[p]
  /\ table' = Admitted(p)
  /\ told' = Heard(Reads(p), table', "acquired", TRUE)
  /\ UNCHANGED <<settings, crf, streaming, locked, sent>>

Release(p) ==
  /\ Command(p) /\ ~milan
  /\ acquired' = NoOne
  /\ told' = Heard(told, Informed(p), "acquired", FALSE)
  /\ UNCHANGED <<settings, crf, streaming, locked, table, sent>>

(***************************************************************************)
(* The commands that change a setting.  avb_process_aecp turns away those  *)
(* of a controller that is locked out before their handlers see them; each *)
(* is answered, and a change is told to the others.                        *)
(***************************************************************************)
Allowed(p) == Command(p) /\ ~LockedOut(Id[p])

Running(s) == IF s \in Output THEN s \in streaming ELSE input[s].phase = "connected"
AnyRunning == \E s \in Stream : Running(s)

\* A knob is turned, and a change told.
HeardKnob(who, k, v) ==
  [q \in Port |-> IF q \in who THEN [told[q] EXCEPT !.knob[k] = v] ELSE told[q]]

Turns(p, k, v) ==
  /\ knob' = [knob EXCEPT ![k] = v]
  /\ told' = IF v # knob[k] THEN HeardKnob(Informed(p), k, v) ELSE told
  /\ UNCHANGED <<rate, format, tone, clock, input, crf, streaming, locked,
                 acquired, table, sent>>

\* avb_process_aecp_cmd_set_name.
SetName(p, v) == Allowed(p) /\ Turns(p, "name", v)

\* avb_process_aecp_cmd_set_control of a volume, a gain or IDENTIFY.
SetControl(p, v) == Allowed(p) /\ Turns(p, "control", v)

\* avb_process_aecp_cmd_audio_mappings: the mappings an ADD replaces are told
\* as removed, to the requester too, before the answer that tells the new ones.
AudioMappings(p, v) == Allowed(p) /\ Turns(p, "map", v)

\* avb_process_aecp_cmd_mvu_media_clock_ref_info, which asks for no lock.
SetMediaClockReference(p, v) == Command(p) /\ Turns(p, "reference", v)

\* avb_lite_status_tick: the status (avb_lite_status_fill), of which only the
\* configuration matters here, goes to everyone when it differs from the copy
\* last sent, and the first time.
LiteTold(v) ==
  /\ sent' = [sent EXCEPT !.lite = {v}]
  /\ told' = IF sent.lite # {v} THEN HeardKnob(table, "lite", v) ELSE told

\* avb_process_aecp_cmd_lite_config.
SetLiteConfig(p, v) ==
  /\ Allowed(p)
  /\ knob' = [knob EXCEPT !["lite"] = v]
  /\ LiteTold(v)
  /\ UNCHANGED <<rate, format, tone, clock, input, crf, streaming, locked,
                 acquired, table>>

\* avb_process_aecp_cmd_get_max_transit_time, SET: not while that output streams.
SetMaxTransitTime(p, o, v) == Allowed(p) /\ o \notin streaming /\ Turns(p, o, v)

\* SET_CONTROL of the test tone: on only while an audio output streams.
SetTone(p, on) ==
  /\ Allowed(p)
  /\ tone' = (on /\ streaming # {})
  /\ told' = IF tone' # tone THEN Heard(told, Informed(p), "tone", tone') ELSE told
  /\ UNCHANGED <<rate, format, knob, clock, input, crf, streaming, locked,
                 acquired, table, sent>>

\* avb_audio_set_rate: the hardware may fail, and is then put back to the rate
\* it had.
AudioSetRate(r, ok) == ok \/ r = rate

\* The same refused for the stream alone.
SetStreamFormatOfIdle(p, s, r, ok) ==
  /\ Allowed(p)
  /\ ~Running(s)
  /\ AudioSetRate(r, ok)
  /\ format' = [format EXCEPT ![s] = r]
  /\ rate' = r
  /\ told' = IF format' # format THEN Heard(told, Informed(p), "format", format') ELSE told
  /\ UNCHANGED <<knob, tone, clock, input, crf, streaming, locked, acquired,
                 table, sent>>

\* avb_process_aecp_cmd_set_stream_format: refused while the stream runs and,
\* when the codec's rate must change with it, while any stream runs.  Neither
\* the formats of the other streams nor the rate are told.
SetStreamFormat(p, s, r, ok) ==
  /\ Allowed(p)
  /\ ~Running(s) /\ (r # rate => ~AnyRunning)
  /\ AudioSetRate(r, ok)
  /\ format' = [format EXCEPT ![s] = r]
  /\ rate' = r
  /\ told' = IF format' # format THEN Heard(told, Informed(p), "format", format') ELSE told
  /\ UNCHANGED <<knob, tone, clock, input, crf, streaming, locked, acquired,
                 table, sent>>

\* avb_stream_format_at_rate, for every stream: its family at the new rate.
FormatsAt(r) == [s \in Stream |-> r]

\* avb_unsol_notify_stream_format, for every stream: to the requester too.
FormatsTold(t, f) == Heard(t, table, "format", f)

\* avb_process_aecp_cmd_sampling_rate: every stream follows, and everyone is
\* told of the rate and of each stream's format.
SetSamplingRate(p, r, ok) ==
  /\ Allowed(p)
  /\ r # rate /\ ~AnyRunning
  /\ AudioSetRate(r, ok)
  /\ rate' = r /\ format' = FormatsAt(r)
  /\ told' = FormatsTold(Heard(told, Informed(p), "rate", r), format')
  /\ UNCHANGED <<knob, tone, clock, input, crf, streaming, locked, acquired,
                 table, sent>>

\* avb_process_aecp_cmd_set_clock_source: refused while an output streams,
\* and CRF while its input gives no timestamps.
SetClockSource(p, c) ==
  /\ Allowed(p)
  /\ c # clock /\ streaming = {} /\ (c = "crf" => crf)
  /\ clock' = c
  /\ UNCHANGED <<rate, format, knob, tone, input, crf, streaming, locked,
                 acquired, table, told, sent>>

\* avb_process_aecp_cmd_streaming: a bound input is started or stopped.  The
\* change is told; the comparison tells it again with the stream information.
StartStop(p, i, stop) ==
  /\ Allowed(p)
  /\ input[i].talker # None
  /\ input' = [input EXCEPT ![i].wait = stop]
  /\ UNCHANGED <<rate, format, knob, tone, clock, crf, streaming, locked,
                 acquired, table, told, sent>>

\* avb_process_aecp_cmd_mvu_bind_stream: STREAMING_WAIT is stored first, and
\* stays when avb_process_acmp_connect_rx_command then refuses the binding,
\* because of the lock or of another talker.  CONNECT_RX is the same without
\* the flag.
Bindable(c, i, t) ==
  ~LockedOut(c) /\ (input[i].phase # "idle" => input[i].talker = t)

BindStream(p, i, t, wait) ==
  /\ Command(p)
  /\ input' = [input EXCEPT ![i] =
       IF Bindable(Id[p], i, t)
       THEN [talker |-> t, wait |-> wait,
             phase |-> IF @.phase = "idle" THEN "pending" ELSE @.phase]
       ELSE [@ EXCEPT !.wait = wait]]
  /\ UNCHANGED <<rate, format, knob, tone, clock, crf, streaming, locked,
                 acquired, table, told, sent>>

\* DISCONNECT_RX and UNBIND_STREAM: the input is cleared, its format kept.
UnbindStream(p, i, t) ==
  /\ Command(p)
  /\ Bindable(Id[p], i, t)
  /\ input' = [input EXCEPT ![i] = Free]
  /\ UNCHANGED <<rate, format, knob, tone, clock, crf, streaming, locked,
                 acquired, table, told, sent>>

(***************************************************************************)
(* What happens without a controller.                                      *)
(***************************************************************************)
\* avb_process_acmp_connect_tx_response for a bound input: a success connects
\* it, an error leaves the binding.
Connects(i) ==
  /\ Event
  /\ input[i].talker # None
  /\ input' = [input EXCEPT ![i].phase = "connected"]
  /\ UNCHANGED <<rate, format, knob, tone, clock, crf, streaming, locked,
                 acquired, table, told, sent>>

ConnectFails(i) ==
  /\ Event
  /\ input[i].phase = "pending"
  /\ input' = [input EXCEPT ![i].phase = "idle"]
  /\ UNCHANGED <<rate, format, knob, tone, clock, crf, streaming, locked,
                 acquired, table, told, sent>>

\* avb_start_stream_out.
StartsStreaming(o) ==
  /\ Event
  /\ streaming' = streaming \cup {o}
  /\ UNCHANGED <<settings, crf, locked, acquired, table, told, sent>>

\* avb_stop_stream_out: the test tone ends with the last audio stream.
StopsStreaming(o) ==
  /\ Event
  /\ o \in streaming
  /\ streaming' = streaming \ {o}
  /\ tone' = (tone /\ streaming' # {})
  /\ told' = IF tone' # tone THEN Heard(told, table, "tone", FALSE) ELSE told
  /\ UNCHANGED <<rate, format, knob, clock, input, crf, locked, acquired,
                 table, sent>>

\* Timestamps of the CRF stream begin or cease to arrive.
CrfChanges ==
  /\ Event
  /\ crf' = ~crf
  /\ UNCHANGED <<settings, streaming, locked, acquired, table, told, sent>>

\* The automatic clock source of avb_pll_tick.
FollowCrf ==
  /\ AutoCrf /\ Uncounted
  /\ clock' = IF crf THEN "crf" ELSE "internal"
  /\ UNCHANGED <<rate, format, knob, tone, input, crf, streaming, locked,
                 acquired, table, told, sent>>

\* avb_unsol_send_changed: what differs from the copy last sent goes to
\* everyone; the first time it only becomes the copy.
Changed(old, new) == {x \in DOMAIN old : old[x] # new[x]}
Updated(known, new, changed) ==
  [x \in DOMAIN known |-> IF x \in changed THEN new[x] ELSE known[x]]

\* avb_unsol_stream_info_tick and, for a Milan entity,
\* avb_unsol_stream_input_info_ex_tick.
StreamInfoTick ==
  /\ sent' = [sent EXCEPT !.info = StreamInfo,
                          !.ex = IF milan THEN InputInfoEx ELSE @]
  /\ told' = [q \in Port |->
       IF q \in table
       THEN [told[q] EXCEPT
               !.info = Updated(@, StreamInfo, Changed(sent.info, StreamInfo)),
               !.ex = Updated(@, InputInfoEx, Changed(sent.ex, InputInfoEx))]
       ELSE told[q]]
  /\ Uncounted
  /\ UNCHANGED <<settings, crf, streaming, locked, acquired, table>>

\* avb_lite_status_tick of the main loop.
LiteStatusTick ==
  /\ LiteTold(knob["lite"]) /\ Uncounted
  /\ UNCHANGED <<settings, crf, streaming, locked, acquired, table>>

Commands(p) ==
  \/ Register(p) \/ Deregister(p) \/ Acquire(p) \/ Release(p)
  \/ \E unlock \in BOOLEAN : LockEntity(p, unlock)
  \/ \E v \in {0, 1} : \/ SetName(p, v) \/ SetControl(p, v) \/ AudioMappings(p, v)
                        \/ SetMediaClockReference(p, v) \/ SetLiteConfig(p, v)
                        \/ \E o \in Output : SetMaxTransitTime(p, o, v)
  \/ \E on \in BOOLEAN : SetTone(p, on)
  \/ \E s \in Stream, r \in Rate, ok \in BOOLEAN : SetStreamFormat(p, s, r, ok)
  \/ \E r \in Rate, ok \in BOOLEAN : SetSamplingRate(p, r, ok)
  \/ \E c \in {"internal", "crf"} : SetClockSource(p, c)
  \/ \E i \in Input, stop \in BOOLEAN : StartStop(p, i, stop)
  \/ \E i \in Input, t \in Talker, wait \in BOOLEAN : BindStream(p, i, t, wait)
  \/ \E i \in Input, t \in Talker : UnbindStream(p, i, t)

Events ==
  \/ LockTick \/ CrfChanges \/ FollowCrf \/ StreamInfoTick \/ LiteStatusTick
  \/ \E p \in Port : Lapses(p)
  \/ \E i \in Input : Connects(i) \/ ConnectFails(i)
  \/ \E o \in Output : StartsStreaming(o) \/ StopsStreaming(o)

Next == Events \/ \E p \in Port : Commands(p)
Spec == Init /\ [][Next]_vars

-----------------------------------------------------------------------------
\* Type invariant.
TypeOK ==
  /\ milan \in BOOLEAN
  /\ rate \in Rate /\ format \in [Stream -> Rate] /\ knob \in [Knob -> {0, 1}]
  /\ tone \in BOOLEAN /\ clock \in {"internal", "crf"} /\ crf \in BOOLEAN
  /\ input \in [Input -> Binding] /\ streaming \subseteq Output
  /\ {locked, acquired, actor} \subseteq Controller \cup {NoOne}
  /\ table \subseteq Port /\ Cardinality(table) <= MaxTable
  /\ DOMAIN told = Port /\ DOMAIN sent.info \subseteq Stream
  /\ commands \in 0..MaxCommand /\ events \in 0..MaxEvent

\* What a registered controller last heard is what the entity has, whichever
\* way it changed: by a command of its own or of another (also of itself from
\* another address), with the end of a stream, or with the end of a lock.
\* The rate is left out: SET_STREAM_FORMAT changes it and tells nobody.
KnowsSettings ==
  \A p \in table : \A f \in {"format", "knob", "tone", "lock", "acquired"} :
    told[p][f] = View[f]

\* While one controller holds the lock, or the acquisition, no other one
\* changes a setting or a connection.  STREAMING_WAIT is left out: BIND_STREAM
\* stores it before it is refused; so is the media clock reference, whose
\* command looks at no lock.
LockProtects ==
  [][\A c \in Controller :
       /\ c \in {locked, acquired}
       /\ \/ <<rate, format, tone>>' # <<rate, format, tone>>
          \/ \E k \in Knob \ {"reference"} : knob'[k] # knob[k]
          \/ \E i \in Input : \/ input'[i].talker # input[i].talker
                              \/ input'[i].phase # input[i].phase
       => actor' \in {c, NoOne}]_vars

\* The format of a stream that runs, and the codec's rate under it, do not
\* change, also not through another stream's format.
RunningKeepsFormat ==
  [][\A s \in Stream : Running(s) /\ Running(s)' =>
       format'[s] = format[s] /\ rate' = rate]_vars

\* The test tone is on only while the talker streams, so that the next
\* listener does not start on it.
ToneNeedsStream == tone => streaming # {}

\* The same as LockProtects of STREAMING_WAIT, the started or stopped state of
\* an input (the code breaks it in BIND_STREAM).
LockProtectsWait ==
  [][\A c \in Controller :
       c \in {locked, acquired} /\ (\E i \in Input : input'[i].wait # input[i].wait)
       => actor' \in {c, NoOne}]_vars

\* Every stream's format has the codec's rate (the code breaks it in
\* SET_STREAM_FORMAT, which moves the one stream).
FormatsAtRate == \A s \in Stream : format[s] = rate
=============================================================================
