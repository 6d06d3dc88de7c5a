# Verification of esp_avb

esp_avb is an AVB end station and bridge for the ESP32: stream reservation
(MSRP, MVRP, with AVB Lite as a lean variant), address acquisition (MAAP),
discovery and control (ATDECC: ADP, ACMP, AECP), the audio data path (AVTP in
and out, media clock recovery) and a two-port wired/Wi-Fi bridge.  This
directory holds TLA+ models of its control logic, the TLC runs that check them
and the theorems TLAPS proves about them.  `PROJECT.json` lists the runs, the
source lines each definition models, the hazards and the findings.

## The system and its parts

One main task (`avb_task`, avb.c 1966-2177) polls the sockets, hands each
frame to its protocol and calls `avb_periodic_send`, which runs every timer.
Everything that is protocol state belongs to that task.  Beside it run the
Wi-Fi and Ethernet receive callbacks (bridge forwarding, jitter ring), the
playback and capture tasks, the FQTSS worker and the snapshot task; they share
lock-free tables, rings and flags with it.

| part | source | state it keeps | operations | correct when |
|---|---|---|---|---|
| MRP state machines | mrp.c 60-375 | Applicant, Registrar, LeaveTimer of an attribute entry | one step per event | the tables of 802.1Q clause 10 hold |
| MRP port | mrp.c 377-556, 3331-3400, 3728-3870 | Join, LeaveAll and Periodic timers, LeaveAll pending | `mrp_port_tick`, `mrp_tx_flush_port`, `mrp_port_dispatch_*` | what stands declared stays registered; what is gone ages out |
| MSRP, MVRP | mrp.c 560-3200, 3875-4039 | talker, listener, domain, VLAN tables per port | `mrp_rx_msrp`, `mrp_rx_mvrp`, `mrp_declare_*`, `mrp_withdraw_*` | one form per Talker, one value per stream |
| bridge MAP, talkers | mrp.c 1174-1451, 1904-2004, 2843-3040 | snapshot of what was propagated, hold-off | `mrp_on_talker_registrar_change`, `mrp_declare_talker_advertise` | an Advertise only with bandwidth behind it |
| admission | mrp.c 960-1014, 4388-4474 | a bandwidth account per port and class, its share in each entry | `avb_srp_admission_*`, `msrp_*_admission` | the account is what the entries say; no budget is passed |
| bridge MAP, listeners | mrp.c 1024-1172, 1451-1527 | merged declaration | `mrp_propagate_listener` | the merge of what is registered is what is declared |
| Wi-Fi admission and unicast | mrp.c 2030-2407 | frames per second admitted, DA table | `msrp_wifi_admission_*`, `msrp_wifi_ucast_*` | no frame budget passed, no stale entry read |
| bridge receive path | avbbridge.c, avbnet.c 580-840, atdecc.c 4283-4330 | entity table, copies of ACMP | Wi-Fi receive hook, `avb_acmp_received_twice` | control reaches the station that runs the entity, once |
| endpoint talker | mrp.c 1530-1736, avb.c 307-545, atdecc.c 4621-4882 | rows of connected listeners, readiness, class, stream ID | ACMP CONNECT_TX, MSRP Listener, `avb_start_stream_out` | it streams exactly while someone listens |
| ACMP listener | atdecc.c 4416-4619, 4884-4989, 5314-5703, avb.c 1805-1850 | binding, connection, pending probe, inflight list | CONNECT_RX, BIND_STREAM, answers, timeouts, fast connect, demotion | a bound input connects again; it receives the stream it is connected to |
| ADP | atdecc.c 1250-1480 | tables of discovered entities | available, departing, discover | |
| AECP, unsolicited | atdecc.c 1480-4400, atdecc_unsol.c | descriptors, lock, registered controllers | commands, `avb_unsol_tick` | who is registered knows every change; a lock keeps the others out |
| MAAP | mrp.c 4160-4386 | address and probe state per stream | `avb_maap_tick`, `avb_maap_rx` | two stations never keep one address |
| AVB Lite | mrp.c 3440-3653, avb.c 586-792 | unicast rows with refresh stamps, transport plan | `mrp_lite_*` | |
| persistence | avb.c 2660-3597 | snapshot, journal, direct keys; dirty flags | append, compact, replay, snapshot task | what was bound comes back after a power failure |
| AVTP in and out | avtp.c, avbcodec.c | jitter ring, gate and anchor, stream contexts | receive, drain, conceal, trim | what is played is on presentation time, and it plays in the end |
| media clock | avbpll.c | loop filter | `avb_pll_tick` | |
| FQTSS | avbfqtss.c | credit and queue per port and class | worker tick | |
| bundles | avbnet.c 841-1635, 2240-2420, 3190-3422 | the bundle being filled, history, held bundles, gaps | add, NACK, hold timer | in order, once, one loss made good in time |
| station pacer | avbnet.c 312-560 | queue and send history per stream, a timer | forward, drain, withdraw | in order, spaced, nothing stuck |

How they interact: a received MSRP attribute steps its entry; a registrar
change calls the MAP, which admits on the other port and declares there, and
the endpoint bookkeeping, which changes the rows of a talker stream.  ACMP
adds and removes rows too, binds inputs and declares Listeners, and appends to
the journal.  Admission pushes its sum into the shaper.  The demotion and fast
connect of a listener read what MSRP registered and what ADP discovered.

What is hard here: timers of four kinds whose order decides whether a
declaration survives; a registration that ends in five ways (Lv, LeaveTimer,
displacement by its twin, a value change, a reset) and must release its
bandwidth exactly once; probes, timeouts and late answers of several talkers
for one input; two tasks over one snapshot, and a power failure between any
two writes; a jitter ring, a table and a queue each written by one task and read
by another without a lock; bundles lost, late or sent twice.  `PROJECT.json`
lists these under "hazards", each at its line.

## The modules

| module | models | checked as |
|---|---|---|
| `MrpSM` | the Applicant and Registrar step functions, as operators | in `MrpLink`, `TalkerMap`, `WifiPort` |
| `MrpLink` | two MRP ports on a link, one attribute type | `MCMrp`, `MCMrpLink` (`MCLinkStation.cfg`), `TalkerMap_proofs` |
| `Maap` | destination addresses of the streams of any stations | `MCMrp`, `TalkerListeners_proofs` |
| `Bandwidth` | the arithmetic of one admission account | in `Admission`, `TalkerMap` |
| `Admission` | abstract specification: how an account may change | as the property `ImplementsAdmission` |
| `TalkerMap` | the bridge: talkers of two ports, MAP, admission, hold-off | `MCTalkerMap`, `TalkerMap_proofs` |
| `WifiPort` | the bridge toward its stations: listeners' MAP, frame budget, unicast table | `MCWifiPort`, `WifiPort_proofs` |
| `TalkerListeners` | an output stream: rows of listeners, start and stop | `MCTalkerListeners`, `TalkerListeners_proofs` |
| `Acmp` | listener inputs, talkers, controllers, network | itself (`MCAcmp.cfg`), `Acmp_proofs` |
| `Entity` | AECP commands, lock, acquisition, notifications | `MCEntity`, `Entity_proofs` |
| `Persist` | journal, direct keys, snapshot, snapshot task, power | `MCPersist`, `Persist_proofs` |
| `StreamIn` | jitter ring, gate, concealment, trims of an audio input | `MCStreamIn` |
| `Bundle` | bundles over a Wi-Fi hop, gaps and NACKs | `MCBundle`, `Bundle_proofs` |
| `Pacer` | the queue that spaces a station's stream on the wire | `MCPacer`, `BridgeRx_proofs` |
| `BridgeRx` | what a bridge does with each frame it receives; extends `Pacer` | `MCPacer`, `BridgeRx_proofs` |

A definition that ends a comment "The same without ..." is a mutant: a variant
of the definition after it that the listed property must refute.

### MrpLink

`port[n]` is `avb_port_s` plus the entries of one attribute type (an entry
never inserted behaves as one in VO and MT).  `PortTick` is one
`mrp_port_tick` with all its branches in the order of the code; `Receive` is
one MRPDU through `mrp_rx_msrp` or `mrp_rx_mvrp` (`ArmsOnLeaveAll` tells which);
`Declare` and `Withdraw` are `mrp_declare_*` and `mrp_withdraw_*`.  A role
tells what the code asks of a port: wired, Wi-Fi station, access point; "switch"
is the port of a standard 802.1Q switch, which is not in `src/` and does what
the standard says of a LeaveAll.  Time is in units of JoinTime (200 ms):
LeaveTime and PeriodicTime are 5 units (1 s), a switch's LeaveTime 3 (600 ms).
LeaveAllTime is 10 to 15 s in the code (30 to 60 s on Wi-Fi) and the station's
own leave time 10 s; the runs take 12 and 10 units, about two PeriodicTimes,
so that LeaveAlls meet every phase of the other timers.  That is harder on a
declaration than the real times, not easier.  The
clock moves only when nothing is due and nothing is under way: the main loop
polls far more often than 200 ms.  `held` counts how long a declaration has
stood; it is bookkeeping of the model.

### Bandwidth, Admission, TalkerMap

`b` is the bridge: `app`, `reg`, `timer`, `val`, `origin`, `prop`, `hold` are
the fields of `msrp_talker_entry_t` of each port, stream and form, and
`acct[p]` the account of a port with the share each stream's entry recorded.
`RxTalker` is one Talker value through `msrp_rx_talker_attr` and, in the same
step, the displacement of its twin and the MAP on the other port, as in the
code.  `RxLeaveAll`, `LeaveTimer`, `ReleaseHeld`, `JoinTimer`, `PeriodicTimer`
are the dispatch loops, `SetLinkSpeed` is `avb_srp_admission_set_link_speed`.
A FirstValue is abstracted to class and bandwidth.  Timers may fire at any
moment, which includes every order real time allows.  `Admission` says an
account changes only by `Reserve`, `Free` or `SetLinkSpeed` of one stream, and
the bridge is shown to implement it for each port (`PortAccount`).

### TalkerListeners

One output stream.  `rows` is `connected_listeners` with its address, identity,
`msrp_ready`, `msrp_ready_live`, `acmp_connected` and the age of an
AskingFailed (`since`); `MsrpRow` and `AcmpRow` are the two find-or-add
functions.  A new row has an address or an identity no other row has, and no
code depends on the order, so the table is a set.  `RxDeclaration` is one
MRPDU through `mrp_rx_msrp` and `mrp_on_listener_registrar_change`, `AgeOut` the
call from the LeaveTimer, `ConnectTx` and `DisconnectTx` the ACMP handlers,
`MoveId` the move to a new stream ID.  `StartIf` and `StopIf` are
`avb_start_stream_out` and `avb_stop_stream_out`; the task they start ends at
`TaskExit`, when it looks at `stop_streaming`.  Memory may be short at each of the
places the code looks for it or does not: for the parameters (`Unstarted`: the
start returns ERROR and a later Ready repeats it), for the task itself (`Tasked`:
`streaming` is set all the same) and for the buffers of the task (`TaskFails`, the
`goto err` of avtp.c:930-961 and 1290: it ends and `streaming` stays set).  How far
a task has come with its buffers is left out; one that has not ended may be
at them still.  `failed` and `fails` are bookkeeping.  The environment is chosen at
the start (`Settings`): Milan mode or plain AVB, where each listener is attached (a
bridge merges the declarations behind it and sends them from its own address),
whether a peer may send In or Empty in LO; ADP finds and loses `Roaming` listeners at any time.

### Acmp

`in` is `input_streams` (`id` is its stream ID, `rx` the stream its stream-in
receives), `inflight` the tracked CONNECT_TX commands, `known` the discovered
talkers, `out` the rows (`connected_listeners`), class and stream ID
generation of a talker of this code, `cmds` and `rsps` the network.
`Connect` is CONNECT_RX and BIND_STREAM, `Disconnect` DISCONNECT_RX and
UNBIND_STREAM, `ConnectResponse` the handler of CONNECT_TX_RESPONSE with the
start and stop of the stream-in, `Timeout` one expiry of
`avb_process_inflight_timeouts`, `FastConnect`, `Demote`, `Departing`,
`Restart` the ways back to a probe.  A sequence number only matters for
whether an answer removes its inflight entry: a message carries that as a mark.

### Persist

`nvs` is the flash: the blob, the journal as a set of records, the direct
keys.  A call of the main task is a sequence of steps, so that the snapshot
task (`TaskPoll`, `TaskClear`, `TaskCopy`, `TaskWrite`) and `PowerLoss` fall
between any two of them.  `Boot` is `avb_persist_load`.  `since` and `age` are
the ages the deferral and the forced flush look at.

### WifiPort

Talkers are on the wire and listeners on the air.  `rows` are the Listener
entries of the Wi-Fi port in table order, `up` the declaration the bridge makes
of them on the wire, `adm` is `s_wifi_admission`, `tbl` is `s_ucast` with its
index.  A handler is a sequence of steps of `task` where it rebuilds the table,
because the Ethernet receive callback looks an address up (`look`) in the
middle of it; `torn` marks a lookup whose entry was rewritten under it.

### Maap

`maap[st][i]` is `avb_maap_state_s` of an output, `dest` its
`stream_dest_addr`.  `MaapTick` is one pass of `avb_maap_tick`, `MaapReceive` is
`avb_process_maap`, and time passes in `MaapPass`.  An address is a number that
follows from the MAC address, the stream and the count of choices, as in the code.
`missed` counts lost messages and `shared` how long two streams hold one address.

### Entity

A controller is an entity ID and a `Port`, the address it speaks from; a
registration is of a port.  One action per command that changes state, with the
refusals in the order of the handlers; `LockedOut` is
`avb_acquired_or_locked_by_other`.  Every action says who is told what (`told`)
and `View` is what there is to be known.  `StreamInfoTick` and `LiteStatusTick`
are the comparisons with the copy last sent (`sent`).  Events of the network
and the audio (a connection, a stream that starts or stops, the CRF
timestamps) happen at any time; a registration lapses at any time too.

### StreamIn

Time and audio are counted in packets.  A packet is its `lead`, the ticks left
to its presentation time; ring and DMA are sequences of leads, so that "on
presentation time" is a statement about what the DAC plays.  The receive
handler is four steps (`Receive`, `Insert`, `Publish`, `Arm`), and a pass of
`Drain` may fall between any two, as the drain task preempts it.  The
environment loses, delays and duplicates packets, restarts the talker, and has
a talker whose clock is right, joins later, or never is trusted (`tu`).

### Bundle

One stream of numbered frames.  `hist` is what the sender keeps for a resend,
`rx` the receiver's entry with what it holds behind a gap, `air` and `nacks`
what is under way.  The numbers wrap, the sender reboots, and both directions
are chosen at the start, since a bridge and a station differ (a station drops
a stale partial bundle and has a hold timer, a bridge does neither).
`SplitEntry` is the header compression of the frames of a bundle by what it
loses and restores.

### Pacer and BridgeRx

A frame of the pacer is its number.  Two tasks drain the queues: `drain[k]` is
where each is, under the spinlock in one step and outside it between two.
`wire` keeps what left of late, for the spacing.  `BridgeRx` adds the other
traffic of the receive hook: `table` is `s_wifi_entities`, `recent` the
station's memory of ACMP frames, `air` the copies sent.  Streams and control
share no state, so a behaviour of `MCPacer` has one or the other; `MCMrp` does
the same with its two protocols.

## The runs

| run | question | bounds |
|---|---|---|
| `MCMrp` | does a standing declaration survive every LeaveAll (`StandingIsRegistered`)? do two talkers keep apart addresses, keep them, and give a shared one up (`DestUnique`, `HeldIsKept`, `SharedNotLong`)? | link: three attributes, two declared by one end, two changes, every phase of the PeriodicTimers, no loss, access point to station and wired to switch; addresses: three streams of two stations, two of which start from one address, three lost messages, a station switched off |
| `MCLinkStation` | what is declared for ever gets registered, what is not is dropped by a station (`DeclaredConverges`, `StationAgesOut`) | one attribute, one loss, one reboot, shortened timers |
| `MCTalkerMap` | one form registered, an Advertise only with its own value reserved, no reservation past its registration, every step one of `Admission` | one stream whose values change in class and bandwidth or in bandwidth alone, a wired and a Wi-Fi port, caps below and at the largest value |
| `MCWifiPort` | what is declared upstream is the merge, each of the three tables says the same of a refusal, admitted streams fit, a lookup goes to the right station | two streams that do not fit beside each other and share an index, one of which may change its class |
| `MCWifiPortDeclared` | a listener that returns before its withdrawal is out: `MergedIsDeclared` violated | the same |
| `MCTalkerListeners` | no stream outlives its registration (`StreamIsRegistered`), rows are merged (`RowsDistinct`), no start is ended by an earlier stop (`StreamKeepsTask`); a listener the talker can tell gets its stream (`KnownReadyStreams`), silence stops it (`QuietStops`) | two listeners, direct or behind a bridge, one of them roaming, two rows, two tasks, one start or task without memory, both modes |
| `MCAcmp` | an input waits only for a tracked probe; a bound input connects again for ever | two talkers, one input, one message under way each way, an inflight list of two |
| `MCEntity` | who is registered knows the settings, a lock protects them, a running stream keeps its format | two controllers at three addresses and a table of two, one input, one output, two commands and three events, Milan or not |
| `MCPersist` | what is bound comes back, deferred records are written; no marked change is lost between the two tasks, an eager one is written | two streams and a direct key, a journal of three records, two contents of the snapshot, new firmware, power failures without a bound |
| `MCStreamIn` | what is played is on presentation time, and playout locks in the end | a ring of 9 packets and a DMA of 2, one fault, one preemption of the handler, three talker clocks |
| `MCBundle` | in order and once, a split gives back what was bundled, one loss is made good, nothing is held for ever or left of a stopped run | five frames in bundles of two, numbers of 9 values, two lost bundles, a lost NACK, a reboot |
| `MCPacer` | in order, spaced, nothing stuck; the entity's station is known and answers once | two streams on one entry of two slots, three frames; two stations, three entities, two messages, a table of two |

Why the bounds are enough.  The state machines of two attributes of one type
meet only in the shared timers and in the order of the MRPDUs of a flush: a
third attribute at the other end makes both ends send.  One stream is enough
for what an entry, its twin and its account do to each other; competition for
an account is what `Admission` is about.  A journal of three records with two
streams is full after the second change.  Two listeners behind one
bridge have every way to share or miss a row, and a table of two is full with
them and a bridge's own row; the theorems cover any number.  A hold-down of one
tick has the same order of events as one of ten seconds.  One input with two talkers has
every race of old and new answers; inputs share nothing but the inflight list,
whose size the theorem covers.  Two commands and three events in `MCEntity` are
a lock or an acquisition and a command of another controller, or a stream that
starts, a tone and a stop; registrations, lapses and ticks have no bound.  A
ring of nine packets has room for the prefill, the largest gap that is concealed
and a surplus to trim; a second fault finds the same states as one at another
time.  Two bundles lost and one NACK lost reach every branch of the receiver:
a gap at its deadline, one that is filled, one behind another.  A queue of two
slots is full with one frame behind another.

Fairness.  `MrpLink`: the main loop polls for ever, so a due `PortTick`
happens; the link delivers what it does not lose (a bounded number); time
passes.  Nobody has to declare, withdraw or reboot.  `Persist`: a call runs to
its end and the snapshot task polls for ever (weak fairness); `Tick` gets
strong fairness because the main loop calls `avb_persist_journal_tick` in every
pass although other calls, which disable it, come in between.  `Acmp`: the
timers run for ever; the network does not lose every command that a talker
could serve nor every success (strong fairness of `ConnectTx` and `Success`);
commands of controllers, losses, departures and restarts are never forced.
`TalkerListeners`: a standing declaration is repeated until it gets through, a
registration nobody renews ages out, MAAP gets an address and the task its
turn; no listener, controller or loss is forced.  `Pacer`: each of the two tasks
runs what it has begun, the timer's task is woken by its alarm, and time passes;
no talker has to send.  `StreamIn`: the receive task and the drain run when they
are woken and time passes; nothing is said of losses, whose number is bounded.

`MCTalkerMap` has a state constraint: the rate of the talkers' own port stays,
since nothing is declared there, and a talker offers two of the three values in
a behaviour.  `MCPersist` has two boards, one that binds and
one that is configured, to keep apart what shares only the flash; `MCEntity`
takes the two addresses of one controller as symmetric.  `MCAcmp` takes one class
and one generation of stream IDs, which `BoundConnects` does not depend on; the
wider instance (`Gen = {0, 1}`, two classes) fits one talker.

Each module states a type invariant `TypeOK` (`LinkTypeOK` in `MrpLink`).  Those of
`TalkerMap`, `MrpLink`, `TalkerListeners`, `Acmp`, `Entity`, `Persist` and `Pacer`
are proved; of `Bundle`
and `Maap` the proofs keep the part of it they need; the others document the state and are no
question of a run.

## The theorems

Eight modules hold the proofs, each beside the module it is named for (the pacer's
are in `BridgeRx_proofs`, those of `Maap` in `TalkerListeners_proofs`, those of
`MrpLink` in `TalkerMap_proofs`), for every
value of the constants that the named assumptions of the modules admit (any set
of streams, talkers, listeners and controllers, any link rates and word size,
any queue and table bounds).  Where a theorem has a hypothesis of its own, it is
named below with the reason.

The provers have no induction over data.  Where a proof needs it (a sum over a
set, the recursion of `FlattenSeq`, a search through slots, the folds of an
update of `WifiPort` over its rows and slots), the least
counterexample takes its place: the library's theorem that a set of numbers that
is not empty has a minimal element is a statement without operator parameters.

Reservation:

- `TalkerMap_proofs!TypeCorrect`: the state of the bridge is well formed.  Its
  core is a chain of lemmas on the functions the handlers are composed of, each
  "a bridge in, a bridge out"; `ReleaseType` and `UpdateType` show the accounts
  stay words.
- `TalkerMap_proofs!TwinExclusion`: `TwinExclusive` holds.  The invariant is
  inductive together with the type: an event can put only its own entry out of
  MT, and `DisplaceTwin` puts the other in MT in the same step.
- `TalkerMap_proofs!ReservationsEnd`: `AdmittedIsRegistered` holds if every
  talker stays on one port (`SingleHome`).  Alone it is not inductive: a
  release happens only where the snapshot says that something was propagated.
  `Settled` adds that a reservation has the snapshot of the entry it was made
  for (`Backed`) and that a snapshot has a registration (`LiveSnapshots`).
  Without `SingleHome` the code violates it, see below.
- `TalkerMap_proofs!AdvertisesAreReserved`: `AdvertiseIsReserved` holds if every
  talker stays on one port and answers a LeaveAll with the value it had
  (`~Rejoins`).  The inductive invariant says of each declared Advertise that its
  value was propagated from the other port and that exactly this value is
  charged (`Reserved`), and of each charge that it is the snapshot of its
  registration (`Snapshot`).  With `Rejoins` the code breaks it (mrp.c:1288).
- `TalkerMap_proofs!AdmissionRefined`: each port's account implements `Admission`
  (`ImplementsAdmission`), for finitely many streams.  The invariant `Exact` says
  that the running total of a class is the sum of what its streams were charged
  and that some link rate had room for it; every handler is shown to move the
  charge of one stream at most.  The hypothesis `NoWrap`, that a request and a
  budget together stay below 2^32, is the finding on mrp.c:4449: beyond it the
  sum wraps and the code admits what does not fit.  No link of this board
  carries such a request.

The link:

- `TalkerMap_proofs!LinkTypeCorrect`: the ports are well formed and a LeaveTimer runs
  exactly while its Registrar is in LV, with any number of losses and reboots.
- `TalkerMap_proofs!StandingKept`: `StandingIsRegistered` holds while nothing is lost
  and nobody reboots.  It is not inductive: in LV the registration lives by a
  Join that has still to come.  `Standing` says of each declaration that it is
  young and its first Join is on its way or its JoinTimer runs (`First`), or that it
  is `Safe`: a Join is on the link with nothing behind it that undoes it (`Coming`),
  or the link is clear of what would undo it and the peer's Registrar is IN or has
  more of its LeaveTimer left than the declaration takes to its next Join
  (`Delay`: the JoinTimer, or the PeriodicTimer and a JoinTimer).  A LeaveAll of
  either end starts a LeaveTimer; each case shows that the declarant is then
  asked to send in time.  The theorem takes `LinkFits`: the station's own leave
  time exceeds a PeriodicTime and a JoinTime (10 s against 1.2 s); a standard
  switch is one end only for MSRP, which arms the JoinTimer on a LeaveAll, and has
  a LeaveTime above two JoinTimes (600 ms against 400 ms); and one end alone
  declares an attribute, as with talkers and listeners.  The last two leave
  out what the code does not promise: the findings on mrp.c:3961 and mrp.c:261
  are the counterexamples TLC shows without them.

Addresses:

- `TalkerListeners_proofs!DestinationsDiffer`: `DestUnique` of `Maap` holds.  Of two
  streams at one address one is the newer, and while it probes the other has been
  sent each of its probes: what is lost or still on its way accounts for those it has
  sent without an answer (`PairInv`).  With one loss it therefore has an answer
  before its last interval ends.  The theorem has a condition on the behaviour
  (`OwnApart`): the streams of one station have different addresses.  A station
  does not hear itself, so that nothing in the code parts two of its own; with the
  stride of 257 and the pool of 65024 they meet only when one stream has chosen
  anew over twenty thousand times more often than the other.
- `TalkerListeners_proofs!AddressKept`: `HeldIsKept` of `Maap` holds, without that
  condition.  An owner leaves only for an announcement of its address, and who hears
  one neither has that address nor is about to (`AnnounceInv`).

Streams and connections:

- `TalkerListeners_proofs!TypeCorrect` and `OneRowPerListener`: the table never
  passes its size and has no listener twice.  A find-or-add returns a row that
  `Fits`: there is room for it and it is `Apart` from all others; whatever a
  handler then does to its flags leaves a `Table`.
- `TalkerListeners_proofs!RegisteredStream`: `StreamIsRegistered` holds.  It is
  not inductive: a stream may start from a row that is ready, so readiness must
  be held up by the registration too (`Held`).  Each end of a registration
  therefore takes all readiness back.
- `TalkerListeners_proofs!RunningTask`: `StreamKeepsTask` holds, because a stream
  that runs is not asked to stop (`TaskRuns`): it can be without a task only when
  the creation of its task or a task failed in this run.  For any number of
  failures.  Without them it would be `StreamHasTask`, which the code does not
  keep.
- `Acmp_proofs!TypeCorrect`: the state is well formed, and an input is connected
  exactly while its stream-in runs.
- `Acmp_proofs!PendingTracked`: `PendingIsTracked` holds if no controller uses
  BIND_STREAM and the inflight list has room for a probe of each talker and
  input (`RoomForAll`).  The argument is a counting one: a probe that is not in
  the list finds room in it.  The code has 10 discovered talkers and 2 inputs
  for a list of 20.

The entity:

- `Entity_proofs!TypeCorrect`, `ControllersKnow`, `ToneEnds`, `LockHolds` and
  `RunningKeeps`: `KnowsSettings`, `LockProtects` and `RunningKeepsFormat` hold,
  and no test tone outlives the last stream.  `KnowsSettings` alone is not
  inductive: that a registered controller has heard the AVB Lite status follows
  from what the comparison last sent (`LiteSent`), and that the tone is heard to
  end from the stop of the last stream.

Persistence:

- `Persist_proofs!MarkedSaved`: `SaveNotLost` holds.  `ConfInv` follows a change
  through the five places it can be in: the call of the main task, the shared
  snapshot, the flag, the copy of the snapshot task and flash.
- `Persist_proofs!BindingsReturn` and `OnlyCompactionLoses`: `BindingRestored`
  holds, and at every moment within a call too, except while a compaction has
  records still to write; that window is the finding on the journal.  A binding
  is `Safe` in one of three places: in what a compaction has still to write, in
  its newest record, or in all snapshots that a later step may write.  Both are of
  a board whose firmware stays (`Reflashes = FALSE`, as the binding board of the
  run): a new firmware puts a new snapshot under old records.
- `Persist_proofs!DirectReturns`: the rate and the input map return from their own
  keys, whatever firmware comes.

Bridge:

- `BridgeRx_proofs!EntityKnown`: `KnownEntity` holds of `AllSpec`: the slots of the
  table and the stations agree (`TableInv`), through moves, departures and
  expiry.
- `BridgeRx_proofs!AnswersOnce`: `AnsweredOnce` holds if a controller repeats a
  command only after the window (`Window <= Retry`: 100 ms against timeouts of
  at least 200 ms, atdecc.c:4293) and while no entity is sent more messages within a window than
  its ring remembers (`[]Few`, a condition on the behaviour).  Beyond it the ring
  forgets and a copy is answered again.
- `BridgeRx_proofs!InOrderKept`: `InOrder` of `Pacer` holds.  `PacerInv` says that
  an entry counts what the tasks have of it (`flight`), that no two entries are of
  one stream and that one task drains at a time; `OrderInv` that, of a stream
  neither crossed, the queue holds the newest frames in the places from its head
  on (`QueueLine`), what is sent from a slot is the frame before those
  (`Before`), and what left last the frame before that.  A taken slot is written
  again only when the ring has gone round, so it needs a ring of two slots
  (`Depth > 1`; the code has 64).
- `BridgeRx_proofs!SpacingKept`: `Spacing` of `Pacer` holds.  It is not inductive:
  it relates what left to a send history that starts anew, ages, forgets and is
  written before the frame is out.  `Spaced` relates the two: if the m-th last
  send is older than a ticks, what left within a ticks or is on its way are sends
  after it.  A tick shifts both by one, and a frame that is due therefore finds
  room.
- `BridgeRx_proofs!QueuesFit`: no entry queues more frames than its ring has slots
  or remembers more sends than the history has places, and the alarm is off or at
  most the longest interval away (`TimerInv`).
- `WifiPort_proofs!RightStation`: `SentToListener` holds: a valid entry is whole,
  the one being written is not valid, and a lookup that no write has met still
  has before it what it saw.
- `WifiPort_proofs!BudgetKept`: `AdmittedFits` holds.  Between updates a slot has a
  stream exactly if it is wanted.  After each decision of an update, either every
  admitted slot was admitted before, or what is admitted fits (`Decided`): a
  release and a refusal keep both, an admission makes the second true.
- `WifiPort_proofs!UpstreamTrue`: `UpstreamIsMerged` holds.  A stream that was
  decided about is declared upstream as it was decided (`DecidedDeclared`), what
  the stations left is withdrawn, and unless an update is still to come every
  wanted stream has a slot (`Seated`), of which there are enough.
- `WifiPort_proofs!TablesAgree`: `RefusedEverywhere` holds.  What the stations are
  told follows the talker's registration and says whether the stream is refused
  (`ToldInv`; a stream the MAP has still to take up may be told nothing).  A
  refresh leaves behind the entries it should (`Written`), which are those of the
  rows that are served (`ServedIs`), and an update that ends without another
  refresh has decided nothing anew (`Kept`).

Bundles:

- `Bundle_proofs!BuffersHold`, `TimeRuns` and `HeldInTime`: the bundle being filled,
  the history and the hold stay in their arrays, a time runs exactly while
  something is held, and `HeldReleased` holds.  Each is a fact about every call on
  the receiver's entry (`EntryOK`): the hold gives a gap up before it takes one
  more bundle, since the lowest bundle it holds always leaves it.
- `Bundle_proofs!BundlesSplit`: `SplitRestores` holds of every bundle and every
  copy out of the history.
- `Bundle_proofs!NothingLeft`: `NothingLeftPlayed` holds.  While nothing is lost,
  the numbers of what is under way follow what was received without a gap
  (`Chain`, across their wrap), so that nothing is held or asked for; what is
  under way is in order of age, and what it carries is no older than `LeftAge`
  beyond it (`AgesOK`).

Only model-checked: everything temporal under fairness, which is out of the
prover's reach, and

- `InOrder` and `OneLossRecovered` of `Bundle`: they rest on the arithmetic of time
  (how many numbers can pass while a copy, a NACK or a reboot is under way)
  modulo the word;
- `SharedNotLong` of `Maap`: how long two talkers share an address adds up over
  every pair, and it is stated for a run whose stations announce at one interval;
- `OnTime` of `StreamIn`, which rests on the arithmetic of media time and losses
  too; the module has no proofs.

The assumptions the proofs rest on say no more than the code: that names of
different kinds differ (`EntityAssumption`), that the bridge's table
(`BridgeRxAssumption`), the streams and the pacer's entries
(`PacerAssumption`) are finite, that a link has two ends and its times are not zero
(`LinkAssumption`), that there are no more streams than each of the
three tables toward the stations has entries (`WifiPortAssumption`), and that times
and bounds are numbers (`BundleAssumption`), and that a stream is probed at least three times
(`MaapAssumption`; mrp.c:4162 says three).  TLC evaluates them all.

## Findings

With a run, `MCWifiPortDeclared`: a listener that returns with the same
declaration before the JoinTimer has sent the withdrawal is not declared again
(mrp.c:1516 takes LA and LO for declaring).

Met while modelling, without a run of their own.  Where a property is named, it
is stated in its module and TLC refutes it in the instance described.

Reservation:

- mrp.c:2859 against 3733: a talker that moves to the other port keeps its
  reservation there, since `mrp_sm_reset_for_new_value` forgets what was
  propagated.  `AdmittedIsRegistered` with `Home` of both ports.
- mrp.c:1288: a register edge after a LeaveAll admits anew and declares without
  a withdrawal first: with two streams on one port, one that stands refused
  (Failed) is declared as Advertise too once the other gave its bandwidth back.
- mrp.c:4449: `admitted_bps + request_bps` is a `uint32_t` sum.  Requests near
  2^32 bits per second are needed to pass the budget, which no link of this
  board carries.
- mrp.c:4388: the comment speaks of one 75 % budget per port, the code grants
  it to each class.
- mrp.c:3961: MVRP does not arm the JoinTimer on a LeaveAll, so a re-declaration
  waits for the 1 s PeriodicTimer and a switch with a LeaveTime of 600 ms drops
  it; mrp.c:2554 describes this for MSRP, where it is mended.  With
  `ArmsOnLeaveAll = FALSE` against a switch TLC violates `StandingIsRegistered`.
- mrp.c:261: the tx! row of `mrp_applicant_step` has no entry for AP and QP.
  When both ends declare an attribute, a member that went passive never sends
  it, so it can be missing at the peer after a loss; mrp.c:3839 says quiet
  states re-arm to ensure re-transmission.  With `Owns` the same on both ends
  TLC violates `StandingIsRegistered`.
- mrp.c:484 (TODO) against 535: wired and access point ports never age out
  what a silent peer registered.
- mrp.c:1092: `find_or_add_msrp_listener` behind a bridge can make a second row
  for one listener.

The bridge toward its stations:

- mrp.c:2173: a lookup returns a pointer into the table and the address is read
  after the check, so a frame can go to the station of a rewritten entry; the
  comment promises a miss.  TLC violates `NeverMisdelivered`.
- mrp.c:2334 against 950: a stream that was refused and became class A is
  re-advertised when it is released.  TLC violates `ClassAOnlyIfAllowed`.
- The table of unicast receivers ignores the Registrar: a station whose
  declaration aged out but whose row still says Ready is served.  Neither timer
  runs a refresh or an update.
- An admitted stream whose TSpec grows is not admitted anew, so that the sum can
  pass the budget; `AdmittedFits` speaks of admissions.
- A refusal that is lifted when nobody wants the stream is not propagated again.
- During the decision on a stream whose last listener leaves, the merge is none,
  and what is declared upstream goes away until the next declaration.
- The window of `avb_acmp_received_twice` relies on a retry of 200 ms or more and
  on at most `ACMP_RECENT_COUNT` messages between two copies.

Talkers and listeners:

- mrp.c:1062: in plain AVB a listener behind a bridge that connects before it
  declares Ready never gets its stream.  `ReadyStreams` with
  `Settings` of plain AVB alone and three rows.
- mrp.c:1597: only Lv is taken as an absence, so an In or Empty that a peer
  without a declaration may send in LO (802.1Q) counts as Ready and can start a
  stream without a registration.  With `observers` TLC violates
  `AnyStreamIsRegistered`.
- mrp.c:1051: a table full of ACMP rows has none for the declarations of a
  bridge, and then even a Milan talker does not start.  `KnownReadyStreams`
  excludes that.
- atdecc.c:4678: the merge of CONNECT_TX into the only pending row takes the row
  of another listener when that one declared first.
- atdecc.c:4760: DISCONNECT_TX stops the stream only when no row is left, not
  when no ready and connected one is; mrp.c:1062 says both halves are needed.
  TLC violates `StreamsToBothHalves`.
- avtp.c:6070 sets `streaming` and 6079 ignores the result of
  `xTaskCreatePinnedToCore`; a task that has no memory for its buffers ends at `err`
  (933-960 and 1290, to 2355-2375) without clearing it.  The comment at avb.h:647
  says "true when stream_out_task running", and `avb_start_stream_out` is to return
  ERROR on failure.  No later Ready starts the stream then, since it counts as
  running; it takes a stop and another start.  With `MaxFail` of 1 TLC violates
  `StreamHasTask`; `KnownReadyStreams` is of the flag, so it does not say that
  frames are sent.
- avtp.c:5970: a stream that is stopped and started again before its task looks
  at `stop_streaming` has two tasks that send it.  TLC violates `OneTransmitter`.
- avb.c:438: a listener that asks again with another class may move the talker
  to a new stream ID; the connected input keeps its stream-in on the old one.
- atdecc.c:4929: `avb_process_acmp_connect_tx_response` keeps the running
  stream-in whenever the input was connected, also when the response comes from
  another talker than before.  With two talkers TLC violates `ReceiverFollows`:
  the input ends connected to the second and receiving the first.
- atdecc.c:4884: a success that arrives after DISCONNECT_RX connects the
  cleared input again, and nothing journals it.
- atdecc.c:5316: when the list is full the probe is sent and not tracked, and
  the input waits for ever, as for BIND_STREAM.
- atdecc.c:4519: the probe of BIND_STREAM is not tracked, so when it is lost
  `pending_connection` stays for ever.  `BoundConnects` with `MvuBinds = TRUE`.
- atdecc.c:1950: BIND_STREAM stores STREAMING_WAIT before the binding is refused.
  TLC violates `LockProtectsWait`.
- atdecc.c:5444: a new stream ID is declared without withdrawing the Listener
  of the old one.

Commands and notifications:

- atdecc.c:2602: ACQUIRE_ENTITY takes the entity from another owner, who is
  told nothing, because only a change of `acquired` is notified.
- atdecc.c:3355: SET_STREAM_FORMAT with a change of rate tells nobody of the rate
  and leaves the formats of the other streams at the old one.  TLC violates
  `FormatsAtRate`; `KnowsSettings` leaves the rate out.
- atdecc.c:1987: the media clock reference is set whoever holds the lock;
  `LockProtects` leaves it out.
- atdecc_unsol.c:305: stream information that changes and changes back within
  100 ms is not sent; a controller that read it in between keeps the wrong one.
- atdecc.c:2854: a format with fewer channels leaves audio mappings that name
  the channels it lost.
- avbpll.c:942: the automatic clock source changes under streaming outputs and
  tells nobody, which the command (atdecc.c:3511) refuses to do.

Addresses:

- mrp.c:4366: a talker that gives way to an announcement keeps
  `stream_dest_addr`, and streams to it and advertises it, until the next address
  is acquired; `acquired` is never read.  TLC violates `DestIsHeld`.
- mrp.c:4337: two stations that probe in step with the same jitter give way to
  each other each time (the comment lets the lower MAC yield), so that acquiring
  an address is no liveness property of the code.

Persistence:

- avb.c:2833 against 3560: compaction erases the journal before it writes it
  again, so a power failure in between loses bindings.  TLC violates
  `BindingDurable`.
- avb.c:3409: after a change of `AVB_PERSIST_VERSION` the old journal stays and
  the numbering starts at 0, so at the next boot the old records, of higher
  numbers, win over the new ones.

Streams:

- avtp.c:4882: "Its first byte is at ring tail" is no longer true of an anchor
  that a pass of the drain came before, and the disarm of the empty drain can
  cancel one just armed.
- avtp.c:5699: the stop frees the context while the handler may be inside it.
- avtp.c:4640: a stale `last_packet_us`, stamped every eighth packet, makes the
  aligned fill repeat for up to seven packets; before the first stamp, 3909, an
  empty drain unlocks at once.
- A talker whose clock was ahead at the anchor and then synchronizes is locked
  late, as the anchor is not taken again.
- avbnet.c:1647 against 3319: a bridge sends a partial bundle of any age, and a
  NACK that carries a budget is answered with bundles of any age.  TLC violates
  `NothingOldPlayed`.
- avbnet.c:2314: only a station has a hold timer; a bridge holds up to four
  bundles behind a gap until the next one comes.
- avbnet.c:1130: the bundles of a sender that restarts within 64 numbers of where
  it was are dropped as duplicates.
- avbnet.c:526: a full queue reuses a slot in flight ("once its slot is free"),
  and two tasks then send out of order.  TLC violates `SlotFree`; `InOrder` and
  `Spacing` leave out what follows such a crossing.  A frame that is unpaced
  after a withdrawal passes the queue.

## Not modelled

Of the modules above: AVB Lite's schedule and rows (mrp.c 3440-3653), the values
of domain attributes, and tables that overflow other than those the runs name;
bridges of more than two ports; the 5-minute check of a registration with its
timers, AVB_INFO, AS_PATH and counters; frame slips, the rate converter and the
CRF input of `StreamIn`; the fanout limit of a unicast sender; the forwarding
database of the driver; in `Persist`, a blob that the flash refuses (the snapshot
task ignores the result of `avb_persist_write_blob`, so the change waits for the
next mark).

Not at all, because there is nothing discrete to check: the transmit pacing of
AVTP (hardware timing), the media clock's control loop and the sample rate
conversion (numbers over time), the credit arithmetic of FQTSS (two clamps that
hold by construction), statistics, static descriptors, conversions.

Next would be a composition of `TalkerListeners` and `Acmp` (the talker's rows
against the inputs connected to it), a module of AVB Lite's reservations, and
proofs: `NacksMissing` and `InOrder` of `Bundle`.
