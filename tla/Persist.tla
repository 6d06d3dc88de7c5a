------------------------------ MODULE Persist ------------------------------
(***************************************************************************)
(* What src/avb.c keeps in flash: the journal of stream bindings, the keys *)
(* written directly (sample rate, input map) and the snapshot of the rest. *)
(* The AVB main task appends to the journal and marks the snapshot; a      *)
(* second task writes the snapshot when no stream runs; power may fail     *)
(* between any two writes to flash.                                        *)
(*                                                                         *)
(* The main task runs a call as a sequence of steps, `main', so that the   *)
(* snapshot task and a power failure fall between them.  A write to flash  *)
(* is atomic and fails only for want of space in the journal.              *)
(***************************************************************************)
EXTENDS Naturals, FiniteSets, SequencesExt

CONSTANTS
  Stream,      \* the streams that have a journal
  Direct,      \* what has a key of its own
  Binding,     \* what can be saved of a stream, or under such a key
  Conf,        \* contents of the snapshot besides the bindings
  Default,     \* Default \in Binding \cap Conf: a board never configured
  Capacity,    \* records that fit the journal
  QuietMax,    \* AVB_PERSIST_QUIET_MAX_US
  ForcedFlush, \* AVB_PERSIST_FORCED_FLUSH_MSEC
  Reflashes    \* may the firmware be replaced by one that cannot read nvs

Key == Stream \cup Direct

ASSUME PersistAssumption ==
  /\ IsFiniteSet(Key) /\ Stream \cap Direct = {}
  /\ Default \in Binding \cap Conf
  /\ Capacity \in Nat /\ Capacity > Cardinality(Stream)
  /\ QuietMax \in Nat /\ ForcedFlush \in Nat /\ Reflashes \in BOOLEAN

VARIABLES
  on,          \* powered
  live,        \* what is bound or set
  conf,        \* names, volume, clock source, media clock trim
  nvs,         \* contents of the flash
  seq,         \* s_persist_journal_seq
  main,        \* what is left of the call the main task is in
  pending,     \* s_journal_pending, s_rate_pending, s_input_map_pending
  since,       \* age of s_journal_pending_since_us, 0 when it is 0
  quiet,       \* s_ingress_quiet
  streaming,   \* stream_in_active, or an output stream is streaming
  shared,      \* state->persist
  dirty, lazy, \* persist_dirty, persist_lazy
  age,         \* age of persist_dirty_since_tick, up to ForcedFlush
  task         \* where the snapshot task is

mainVars == <<live, conf, main, pending, since, quiet>>
taskVars == <<shared, dirty, lazy, age, task>>
vars == <<on, nvs, seq, streaming, mainVars, taskVars>>

Snapshot == [conf : Conf, bind : [Stream -> Binding]]
Record   == [stream : Stream, seq : Nat, value : Binding]

\* What avb_persist_load finds: the snapshot and the newest journal record of
\* each stream over it.
Newest(records) == CHOOSE r \in records : \A q \in records : q.seq <= r.seq
Latest(s) == {r \in nvs.journal : r.stream = s}
Restored(k) ==
  IF k \in Direct THEN nvs.direct[k]
  ELSE IF Latest(k) = {} THEN nvs.blob.bind[k] ELSE Newest(Latest(k)).value

Gathered == [conf |-> conf, bind |-> [s \in Stream |-> live[s]]]

Blank == [conf |-> Default, bind |-> [s \in Stream |-> Default]]

Init ==
  /\ on = FALSE /\ streaming = FALSE /\ seq = 0
  /\ live = [k \in Key |-> Default] /\ conf = Default
  /\ nvs = [blob |-> Blank, usable |-> FALSE, journal |-> {},
            direct |-> [k \in Direct |-> Default]]
  /\ main = << >> /\ pending = {} /\ since = 0 /\ quiet = TRUE
  /\ shared = Blank /\ dirty = FALSE /\ lazy = FALSE /\ age = 0
  /\ task = [at |-> "none", copy |-> Blank]

(***************************************************************************)
(* Power.                                                                  *)
(***************************************************************************)
\* avb_persist_load: an unusable snapshot is replaced and the journal left as
\* it is; otherwise the journal is replayed and then compacted.
Boot ==
  /\ ~on /\ on' = TRUE
  /\ IF nvs.usable
     THEN /\ live' = [k \in Key |-> Restored(k)] /\ conf' = nvs.blob.conf
          /\ shared' = [conf |-> conf', bind |-> [s \in Stream |-> live'[s]]]
          /\ seq' = IF nvs.journal = {} THEN 0 ELSE Newest(nvs.journal).seq
          /\ main' = << [op |-> "compact"], [op |-> "spawn"] >>
     ELSE /\ live' = [k \in Key |-> IF k \in Direct THEN Restored(k) ELSE Default]
          /\ conf' = Default
          /\ seq' = 0
          /\ main' = << [op |-> "gather"], [op |-> "blob"], [op |-> "spawn"] >>
          /\ UNCHANGED shared
  /\ UNCHANGED <<nvs, streaming, pending, since, quiet, dirty, lazy, age, task>>

\* RAM is lost; `live' and `conf' keep what was last set, to compare with.
PowerLoss ==
  /\ on /\ on' = FALSE
  /\ streaming' = FALSE /\ seq' = 0
  /\ main' = << >> /\ pending' = {} /\ since' = 0 /\ quiet' = TRUE
  /\ shared' = Blank /\ dirty' = FALSE /\ lazy' = FALSE /\ age' = 0
  /\ task' = [at |-> "none", copy |-> Blank]
  /\ UNCHANGED <<live, conf, nvs>>

(***************************************************************************)
(* The calls of the main task.                                             *)
(***************************************************************************)
Idle == on /\ main = << >>

\* avb_persist_append_stream, _save_rate, _save_input_map.  q: what
\* avb_persist_sample_ingress finds.
Write(k) == [op |-> IF k \in Direct THEN "direct" ELSE "append", key |-> k]

\* The same with the wait counted from the latest record.
BindRestarts(k, v, q) ==
  /\ Idle
  /\ live' = [live EXCEPT ![k] = v] /\ quiet' = q
  /\ IF q THEN main' = << Write(k) >> /\ UNCHANGED <<pending, since>>
     ELSE pending' = pending \cup {k} /\ since' = 1 /\ UNCHANGED main
  /\ UNCHANGED <<on, conf, nvs, seq, streaming, taskVars>>

Bind(k, v, q) ==
  /\ Idle
  /\ live' = [live EXCEPT ![k] = v] /\ quiet' = q
  /\ IF q THEN main' = << Write(k) >> /\ UNCHANGED <<pending, since>>
     ELSE /\ pending' = pending \cup {k}
          /\ since' = IF since = 0 THEN 1 ELSE since
          /\ UNCHANGED main
  /\ UNCHANGED <<on, conf, nvs, seq, streaming, taskVars>>

\* The same without a reset of the time stamp.
JournalTickStale(q) ==
  /\ Idle
  /\ quiet' = q
  /\ IF since # 0 /\ (q \/ since > QuietMax)
     THEN /\ main' = [i \in 1..Cardinality(pending) |-> Write(SetToSeq(pending)[i])]
          /\ pending' = {} /\ UNCHANGED since
     ELSE UNCHANGED <<main, pending, since>>
  /\ UNCHANGED <<on, live, conf, nvs, seq, streaming, taskVars>>

\* avb_persist_journal_tick: the directly written keys before the streams.
JournalTick(q) ==
  /\ Idle
  /\ quiet' = q
  /\ IF since # 0 /\ (q \/ since > QuietMax)
     THEN /\ main' = [i \in 1..Cardinality(pending) |->
                        Write((SetToSeq(pending \cap Direct)
                               \o SetToSeq(pending \cap Stream))[i])]
          /\ pending' = {} /\ since' = 0
     ELSE UNCHANGED <<main, pending, since>>
  /\ UNCHANGED <<on, live, conf, nvs, seq, streaming, taskVars>>

\* avb_persist_request_save and avb_persist_request_lazy_save, after a change
\* of what the snapshot holds.
Configure(c, eager) ==
  /\ Idle /\ task.at # "none"
  /\ conf' = c
  /\ main' = IF eager THEN << [op |-> "gather"], [op |-> "stamp"],
                              [op |-> "eager"], [op |-> "mark"] >>
             ELSE << [op |-> "gather"], [op |-> "lazy"], [op |-> "mark"] >>
  /\ UNCHANGED <<on, live, nvs, seq, streaming, pending, since, quiet, taskVars>>

(***************************************************************************)
(* The steps of a call.                                                    *)
(***************************************************************************)
\* A journal key is the stream and the sequence number: a second record
\* under the same key replaces the first.
Put(s, n, v) ==
  nvs' = [nvs EXCEPT !.journal =
            {r \in @ : r.stream # s \/ r.seq # n}
              \cup {[stream |-> s, seq |-> n, value |-> v]}]

Full == Cardinality(nvs.journal) >= Capacity

\* The same without a second try.
AppendRecordOnce(s, then) ==
  /\ seq' = seq + 1
  /\ IF Full THEN main' = << [op |-> "compact"] >> \o then /\ UNCHANGED nvs
     ELSE main' = then /\ Put(s, seq + 1, live[s])

\* avb_persist_append_stream_record: compact and retry once when full.
AppendRecord(s, then) ==
  /\ seq' = seq + 1
  /\ IF Full
     THEN main' = << [op |-> "compact"], [op |-> "retry", key |-> s] >> \o then
          /\ UNCHANGED nvs
     ELSE main' = then /\ Put(s, seq + 1, live[s])

Retry(s, then) ==
  /\ seq' = seq + 1 /\ main' = then
  /\ IF Full THEN UNCHANGED nvs ELSE Put(s, seq + 1, live[s])

\* avb_persist_compact_stream_journal: keep the newest of each stream in RAM,
\* erase every record, number from 0 again, write the kept ones.
Compact(then) ==
  LET kept == SetToSeq({Newest(Latest(s)) : s \in {s \in Stream : Latest(s) # {}}})
  IN  /\ main' = << [op |-> "erase"] >>
                 \o [i \in 1..Len(kept) |-> [op |-> "keep", record |-> kept[i]]]
                 \o then
      /\ UNCHANGED <<nvs, seq>>

\* The same with the sequence number kept.
EraseNumbersOn(then) ==
  IF nvs.journal = {} THEN main' = then /\ UNCHANGED <<nvs, seq>>
  ELSE /\ \E r \in nvs.journal : nvs' = [nvs EXCEPT !.journal = @ \ {r}]
       /\ UNCHANGED <<main, seq>>

Erase(then) ==
  IF nvs.journal = {} THEN main' = then /\ seq' = 0 /\ UNCHANGED nvs
  ELSE /\ \E r \in nvs.journal : nvs' = [nvs EXCEPT !.journal = @ \ {r}]
       /\ UNCHANGED <<main, seq>>

Keep(r, then) ==
  /\ seq' = seq + 1 /\ main' = then
  /\ Put(r.stream, seq + 1, r.value)

\* Flash: the steps that write to it.
Flash(step, then) ==
  /\ CASE step.op = "append"  -> AppendRecord(step.key, then)
       [] step.op = "retry"   -> Retry(step.key, then)
       [] step.op = "compact" -> Compact(then)
       [] step.op = "erase"   -> Erase(then)
       [] step.op = "keep"    -> Keep(step.record, then)
       [] step.op = "direct"  -> /\ nvs' = [nvs EXCEPT !.direct[step.key] = live[step.key]]
                                 /\ main' = then /\ UNCHANGED seq
       [] step.op = "blob"    -> /\ nvs' = [nvs EXCEPT !.blob = shared, !.usable = TRUE]
                                 /\ main' = then /\ UNCHANGED seq
  /\ UNCHANGED taskVars

\* The same with every eager call stamped.
RamStamps(step, then) ==
  /\ main' = then /\ UNCHANGED <<nvs, seq>>
  /\ shared' = IF step.op = "gather" THEN Gathered ELSE shared
  /\ age'    = IF step.op = "stamp" THEN 0 ELSE age
  /\ lazy'   = CASE step.op = "eager" -> FALSE
                 [] step.op = "lazy"  -> lazy \/ ~dirty
                 [] OTHER -> lazy
  /\ dirty'  = (dirty \/ step.op = "mark")
  /\ task'   = IF step.op = "spawn" THEN [task EXCEPT !.at = "poll"] ELSE task

\* Ram: the steps on what the main task shares with the snapshot task.
Ram(step, then) ==
  /\ main' = then /\ UNCHANGED <<nvs, seq>>
  /\ shared' = IF step.op = "gather" THEN Gathered ELSE shared
  /\ age'    = IF step.op = "stamp" /\ (~dirty \/ lazy) THEN 0 ELSE age
  /\ lazy'   = CASE step.op = "eager" -> FALSE
                 [] step.op = "lazy"  -> lazy \/ ~dirty
                 [] OTHER -> lazy
  /\ dirty'  = (dirty \/ step.op = "mark")
  /\ task'   = IF step.op = "spawn" THEN [task EXCEPT !.at = "poll"] ELSE task

MainStep ==
  /\ on /\ main # << >>
  /\ IF Head(main).op \in {"gather", "stamp", "eager", "lazy", "mark", "spawn"}
     THEN Ram(Head(main), Tail(main)) ELSE Flash(Head(main), Tail(main))
  /\ UNCHANGED <<on, streaming, live, conf, pending, since, quiet>>

(***************************************************************************)
(* avb_persist_task.                                                       *)
(***************************************************************************)
Gate ==
  streaming \/ ~quiet => ~lazy /\ age >= ForcedFlush

TaskPoll ==
  /\ task.at = "poll" /\ dirty /\ Gate
  /\ lazy' = FALSE /\ task' = [task EXCEPT !.at = "clear"]
  /\ UNCHANGED <<nvs, dirty, shared, age>>

TaskClear ==
  /\ task.at = "clear"
  /\ dirty' = FALSE /\ task' = [task EXCEPT !.at = "copy"]
  /\ UNCHANGED <<nvs, lazy, shared, age>>

TaskCopy ==
  /\ task.at = "copy"
  /\ task' = [at |-> "write", copy |-> shared]
  /\ UNCHANGED <<nvs, dirty, lazy, shared, age>>

\* The same with the flag cleared after the write.
TaskWriteClears ==
  /\ task.at = "write"
  /\ nvs' = [nvs EXCEPT !.blob = task.copy, !.usable = TRUE]
  /\ task' = [at |-> "poll", copy |-> Blank]
  /\ dirty' = FALSE /\ UNCHANGED <<lazy, shared, age>>

TaskWrite ==
  /\ task.at = "write"
  /\ nvs' = [nvs EXCEPT !.blob = task.copy, !.usable = TRUE]
  /\ task' = [at |-> "poll", copy |-> Blank]
  /\ UNCHANGED <<dirty, lazy, shared, age>>

TaskStep ==
  /\ on /\ (TaskPoll \/ TaskClear \/ TaskCopy \/ TaskWrite)
  /\ UNCHANGED <<on, seq, streaming, mainVars>>

(***************************************************************************)
(* Time and the streams.                                                   *)
(***************************************************************************)
Elapse ==
  /\ on
  /\ since' = IF since \in 1..QuietMax THEN since + 1 ELSE since
  /\ age' = IF age < ForcedFlush THEN age + 1 ELSE age
  /\ UNCHANGED <<on, nvs, seq, streaming, live, conf, main, pending, quiet,
                 shared, dirty, lazy, task>>

Streaming ==
  /\ on /\ task.at # "none"
  /\ streaming' = ~streaming
  /\ UNCHANGED <<on, nvs, seq, mainVars, taskVars>>

\* Firmware of another AVB_PERSIST_VERSION.
Reflash ==
  /\ Reflashes /\ ~on /\ nvs.usable
  /\ nvs' = [nvs EXCEPT !.usable = FALSE]
  /\ UNCHANGED <<on, seq, streaming, mainVars, taskVars>>

Tick == \E q \in BOOLEAN : JournalTick(q)

Next ==
  \/ Boot \/ PowerLoss \/ Reflash
  \/ MainStep \/ Tick \/ TaskStep \/ Elapse \/ Streaming
  \/ \E k \in Key, v \in Binding, q \in BOOLEAN : Bind(k, v, q)
  \/ \E c \in Conf, eager \in BOOLEAN : Configure(c, eager)

Spec == Init /\ [][Next]_vars

\* Every pass of the main loop calls the tick, whatever else it handles; the
\* snapshot task polls for ever, and a call runs to its end.
FairSpec ==
  /\ Spec
  /\ WF_vars(MainStep) /\ WF_vars(TaskStep) /\ WF_vars(Elapse) /\ SF_vars(Tick)

-----------------------------------------------------------------------------
TypeOK ==
  /\ on \in BOOLEAN /\ streaming \in BOOLEAN /\ quiet \in BOOLEAN
  /\ dirty \in BOOLEAN /\ lazy \in BOOLEAN
  /\ live \in [Key -> Binding] /\ conf \in Conf
  /\ nvs.blob \in Snapshot /\ nvs.direct \in [Direct -> Binding]
  /\ nvs.journal \subseteq Record /\ IsFiniteSet(nvs.journal)
  /\ seq \in Nat /\ pending \subseteq Key /\ since \in 0..QuietMax + 1
  /\ (since = 0) = (pending = {})
  /\ shared \in Snapshot /\ age \in 0..ForcedFlush
  /\ task.at \in {"none", "poll", "clear", "copy", "write"}
  /\ task.copy \in Snapshot

\* Between calls of the main task the flash holds every binding, rate and map
\* that is not waiting for the ingress to calm, whatever power failures, full
\* journals and compactions came before (avb_persist_append_stream_record,
\* avb_persist_replay_stream_journal).
BindingRestored ==
  Idle => \A k \in Key \ pending : Restored(k) = live[k]

\* No change of the configuration is lost between the two tasks: nothing
\* marked and nothing being written means the flash has it (the order in which
\* avb_persist_task clears its flags and copies the snapshot).
SaveNotLost ==
  Idle /\ task.at = "poll" /\ ~dirty => nvs.usable /\ nvs.blob.conf = conf

\* Compaction keeps the sequence number small: it never comes near the 24 bits
\* of a journal key, past which older records would win.
SequenceFits == seq <= Capacity + 1

\* A binding whose journal record was written survives a power failure
\* (the comment of avb_persist_task on the journal).
Appending ==
  {main[i].key : i \in {i \in 1..Len(main) : main[i].op \in {"append", "retry"}}}
BindingDurable ==
  [][on /\ ~on' => \A s \in Stream \ (pending \cup Appending) :
                     Restored(s) = live[s]]_vars

\* A change other than a refined trim reaches the flash although a stream
\* runs for ever (AVB_PERSIST_FORCED_FLUSH_MSEC, the 0 to 1 edge that
\* avb_persist_request_save stamps).
EagerSaved == (dirty /\ ~lazy) ~> ~dirty

\* Deferred records are written although the ingress never calms
\* (AVB_PERSIST_QUIET_MAX_US in avb_persist_journal_tick).
DeferredWritten == pending # {} ~> pending = {}
=============================================================================
