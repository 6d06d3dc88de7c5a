--------------------------- MODULE TalkerListeners ---------------------------
(***************************************************************************)
(* One output stream of a talker: the rows of its connected_listeners      *)
(* table, filled by ACMP (src/atdecc.c) and by MSRP Listener declarations  *)
(* (src/mrp.c), and the start and stop of the stream-out task              *)
(* (src/avtp.c) they decide.  A row has an address or an identity that no  *)
(* other has when it is added, and their order decides nothing, so they    *)
(* are a set.  AVB Lite, whose transport pass starts and stops streams     *)
(* instead, is left out.                                                   *)
(*                                                                         *)
(* ACMP knows a listener by its entity, MSRP by the source address of the  *)
(* MRPDU, and that of a listener behind a bridge is the bridge's.  ADP     *)
(* tells which entity has which address.  An entity listens to the stream  *)
(* with one input, so its unique ID is left out.                           *)
(***************************************************************************)
EXTENDS Integers, FiniteSets

CONSTANTS
  Listener,    \* listener entities
  Mac,
  NoListener,  \* an identity not known: zero
  NoMac,       \* an address not known: zero
  MacOf,       \* the address an entity sends its ADPDUs from
  Roaming,     \* entities that ADP finds and loses again
  MaxRows,     \* AVB_MAX_NUM_CONNECTED_LISTENERS
  HoldDown,    \* MSRP_ASKING_FAILED_HOLDDOWN_US, in ticks
  MaxTasks,    \* bound: stream-out tasks alive at once
  MaxFail,     \* bound: starts and tasks in a behaviour that get no memory
  Settings     \* what milan, observers and sourceOf may be

Never == -1    \* asking_failed_since_us of 0

ASSUME RowsAssumption ==
  /\ NoListener \notin Listener /\ NoMac \notin Mac
  /\ MacOf \in [Listener -> Mac] /\ Roaming \subseteq Listener
  /\ Settings \subseteq
       [milan : BOOLEAN, observers : BOOLEAN, sourceOf : [Listener -> Mac]]
  /\ MaxRows \in Nat \ {0} /\ HoldDown \in Nat /\ MaxTasks \in Nat \ {0}
  /\ MaxFail \in Nat

VARIABLES
  milan,      \* config.milan_compliant
  observers,  \* may a peer that declares nothing answer a LeaveAll
  sourceOf,   \* the addresses the declarations of the listeners come from
  known,      \* the listeners table of ADP
  want,       \* what each listener declares
  reg,        \* is the Listener attribute of the stream registered
  rows,       \* connected_listeners
  addr,       \* has MAAP given the stream its address
  streaming,
  stop,       \* stop_streaming
  tasks,      \* stream-out tasks alive
  failed,     \* has a task failed in this run of the stream (bookkeeping)
  fails       \* failures so far (bookkeeping)

env    == <<milan, observers, sourceOf, known>>
stream == <<streaming, stop, tasks, failed, fails>>
vars   == <<env, want, reg, rows, addr, stream>>

Row == [mac : Mac \cup {NoMac}, id : Listener \cup {NoListener}, ready : BOOLEAN,
        live : BOOLEAN, acmp : BOOLEAN, since : Never .. HoldDown + 1]

Wants == {"None", "Ready", "AskingFailed"}

NewRow(m, l) == [mac |-> m, id |-> l, ready |-> FALSE, live |-> FALSE,
                 acmp |-> FALSE, since |-> Never]

Init ==
  /\ \E c \in Settings :
       milan = c.milan /\ observers = c.observers /\ sourceOf = c.sourceOf
  /\ known = Listener \ Roaming
  /\ want = [l \in Listener |-> "None"] /\ reg = FALSE
  /\ rows = {} /\ addr = FALSE
  /\ streaming = FALSE /\ stop = FALSE /\ tasks = 0
  /\ failed = FALSE /\ fails = 0

-----------------------------------------------------------------------------
(* The stream-out task.  A start that the MAAP address defers, or that has *)
(* no memory for the parameters of its task, leaves everything as it is.   *)
(* One that cannot create the task reports success all the same.           *)
Fail == fails < MaxFail /\ fails' = fails + 1

Unstarted == Fail /\ UNCHANGED <<streaming, stop, tasks, failed>>

Tasked ==
  \/ tasks < MaxTasks /\ tasks' = tasks + 1 /\ failed' = FALSE /\ UNCHANGED fails
  \/ Fail /\ failed' = TRUE /\ UNCHANGED tasks

\* The same without withdrawing the stop request.
StartKeepsStop(wanted) ==
  IF wanted /\ ~streaming /\ addr
    THEN Unstarted \/ (streaming' = TRUE /\ UNCHANGED stop /\ Tasked)
    ELSE UNCHANGED stream

StartIf(wanted) ==
  IF wanted /\ ~streaming /\ addr
    THEN Unstarted \/ (streaming' = TRUE /\ stop' = FALSE /\ Tasked)
    ELSE UNCHANGED stream

\* The same without the stop request.
StopUnasked(wanted) ==
  IF wanted /\ streaming
    THEN streaming' = FALSE /\ failed' = FALSE /\ UNCHANGED <<stop, tasks, fails>>
    ELSE UNCHANGED stream

StopIf(wanted) ==
  IF wanted /\ streaming
    THEN /\ streaming' = FALSE /\ stop' = TRUE /\ failed' = FALSE
         /\ UNCHANGED <<tasks, fails>>
    ELSE UNCHANGED stream

(* The task looks at stop_streaming before each packet. *)
TaskExit ==
  /\ stop /\ tasks > 0
  /\ tasks' = tasks - 1
  /\ UNCHANGED <<env, want, reg, rows, addr, streaming, stop, failed, fails>>

(* A task that has no memory for its buffers ends before the first look,   *)
(* and does not tell.  How far a task has come is left out: as long as it  *)
(* has not ended it may be allocating still.                               *)
TaskFails ==
  /\ tasks > 0 /\ Fail
  /\ tasks' = tasks - 1 /\ failed' = streaming
  /\ UNCHANGED <<env, want, reg, rows, addr, streaming, stop>>

AcquireAddress ==
  /\ addr' = TRUE
  /\ UNCHANGED <<env, want, reg, rows, stream>>

-----------------------------------------------------------------------------
(* MSRP *)

AnyReady(rs) == \E r \in rs : r.ready
AnyConnected(rs) == \E r \in rs : r.acmp
ShouldStop(rs) == ~AnyReady(rs) \/ (~milan /\ ~AnyConnected(rs))

(* What find_or_add_msrp_listener may find or add, with the other rows;    *)
(* nothing when the table is full.  Two entities at one address are found  *)
(* in the order of the ADP table, which is arbitrary.                      *)
Found(r, row) == [row |-> row, others |-> rows \ {r}]
Added(row) == IF Cardinality(rows) < MaxRows THEN {[row |-> row, others |-> rows]}
              ELSE {}

AtMac(m) == {l \in known : MacOf[l] = m}
ByMac(m) == {r \in rows : r.mac = m}
ByEntity(m) == {r \in rows : r.id \in AtMac(m)}
NameOf(m) == IF Cardinality(AtMac(m)) = 1 THEN CHOOSE l \in AtMac(m) : TRUE
             ELSE NoListener

\* The same without merging into the row of the entity.
MsrpRowByMac(m) ==
  IF ByMac(m) # {} THEN {Found(r, r) : r \in ByMac(m)}
  ELSE Added(NewRow(m, NameOf(m)))

MsrpRow(m) ==
  CASE ByMac(m) # {} -> {Found(r, r) : r \in ByMac(m)}
    [] ByMac(m) = {} /\ ByEntity(m) # {} ->
         {Found(r, [r EXCEPT !.mac = m]) : r \in ByEntity(m)}
    [] OTHER -> Added(NewRow(m, NameOf(m)))

Readied(row) == [row EXCEPT !.ready = TRUE, !.live = TRUE, !.since = Never]

\* The same without a start for a row that is ready already.
RxReadyEdge(row, others) ==
  /\ rows' = others \cup {Readied(row)}
  /\ StartIf(~row.ready /\ (milan \/ row.acmp))

RxReady(row, others) ==
  /\ rows' = others \cup {Readied(row)}
  /\ StartIf(milan \/ row.acmp)

(* AskingFailed clears readiness only once it has lasted: *)
Asking(row) ==
  CASE row.live /\ row.since = Never -> [row EXCEPT !.since = 0]
    [] row.live /\ row.since > HoldDown ->
         [row EXCEPT !.ready = FALSE, !.live = FALSE, !.since = Never]
    [] OTHER -> row

RxAskingFailed(row, others) ==
  /\ rows' = others \cup {Asking(row)}
  /\ StopIf(row.live /\ row.since > HoldDown /\ ShouldStop(rows'))

(* One MRPDU with a Listener value for this stream. *)
RxListener(m, decl) ==
  IF MsrpRow(m) = {} THEN UNCHANGED <<rows, stream>>
  ELSE \E f \in MsrpRow(m) :
         IF decl = "AskingFailed" THEN RxAskingFailed(f.row, f.others)
         ELSE RxReady(f.row, f.others)

(* What the declarations of the listeners that share a source merge to. *)
Behind(m) == {l \in Listener : sourceOf[l] = m}
Merged(m) ==
  LET decls == {want[l] : l \in Behind(m)} \ {"None"} IN
  CASE decls = {} -> "None"
    [] decls = {"Ready"} -> "Ready"
    [] decls = {"AskingFailed"} -> "AskingFailed"
    [] OTHER -> "ReadyFailed"

RxDeclaration(m) ==
  /\ Merged(m) # "None"
  /\ RxListener(m, Merged(m))
  /\ reg' = TRUE
  /\ UNCHANGED <<env, want, addr>>

(* A peer that declares nothing may answer a LeaveAll with In or Empty     *)
(* (802.1Q, LO): it registers nothing, but the handler looks only for Lv.  *)
RxObserver(m) ==
  /\ observers /\ Behind(m) # {} /\ Merged(m) = "None"
  /\ RxListener(m, "Ready")
  /\ UNCHANGED <<env, want, reg, addr>>

\* The same without clearing readiness.
ClearedNot(rs) == rs

Cleared(rs) == {[r EXCEPT !.ready = FALSE] : r \in rs}

AcmpRows == {r \in rows : r.acmp}

(* The LeaveTimer of the registration ran out. *)
AgeOut ==
  /\ reg /\ reg' = FALSE
  /\ rows' = Cleared(AcmpRows)
  /\ StopIf(ShouldStop(rows'))
  /\ UNCHANGED <<env, want, addr>>

-----------------------------------------------------------------------------
(* ACMP *)

RowOf(l) == {r \in rows : r.id = l}
Pending == {r \in rows : ~r.acmp /\ r.ready}

(* As MsrpRow, for find_or_add_talker_listener_by_identity. *)
\* The same without the limit of the table.
AcmpRowUnlimited(l) ==
  CASE RowOf(l) # {} -> {Found(r, r) : r \in RowOf(l)}
    [] RowOf(l) = {} /\ Cardinality(Pending) = 1 ->
         {Found(r, [r EXCEPT !.id = l]) : r \in Pending}
    [] OTHER -> {[row |-> NewRow(NoMac, l), others |-> rows]}

AcmpRow(l) ==
  CASE RowOf(l) # {} -> {Found(r, r) : r \in RowOf(l)}
    [] RowOf(l) = {} /\ Cardinality(Pending) = 1 ->
         {Found(r, [r EXCEPT !.id = l]) : r \in Pending}
    [] OTHER -> Added(NewRow(NoMac, l))

(* avb_output_stream_renew_id: readiness was declared for the old ID. *)
Renewed(rs) ==
  {[r EXCEPT !.ready = FALSE, !.live = FALSE, !.since = Never] :
     r \in {q \in rs : q.acmp}}

(* CONNECT_TX.  moves: it asks for another class that makes the            *)
(* reservation grow, and an ID is free; other connections hold the class.  *)
(* The move leaves no row ready, so it does not start the stream.          *)
ConnectTx(l, moves) ==
  \E f \in AcmpRow(l) :
    LET row == [f.row EXCEPT !.acmp = TRUE] IN
    IF moves /\ addr /\ ~streaming /\ ~AnyConnected(f.others)
    THEN /\ rows' = Renewed(f.others \cup {row}) /\ reg' = FALSE
         /\ want' = [k \in Listener |-> "None"]
         /\ UNCHANGED <<env, addr, stream>>
    ELSE /\ rows' = f.others \cup {row}
         /\ StartIf(row.ready)
         /\ UNCHANGED <<env, want, reg, addr>>

DisconnectTx(l) ==
  \E r \in RowOf(l) :
    /\ rows' = rows \ {r}
    /\ StopIf(rows' = {})
    /\ UNCHANGED <<env, want, reg, addr>>

(* The periodic declaration of a grown stream moves it to a new ID. *)
MoveId ==
  /\ addr /\ ~streaming /\ ~AnyConnected(rows)
  /\ rows' = Renewed(rows) /\ reg' = FALSE
  /\ want' = [l \in Listener |-> "None"]
  /\ UNCHANGED <<env, addr, stream>>

-----------------------------------------------------------------------------
(* ADP, the listeners and time *)

Discover(l) ==
  /\ known' = known \cup {l}
  /\ UNCHANGED <<milan, observers, sourceOf, want, reg, rows, addr, stream>>

Depart(l) ==
  /\ known' = known \ {l}
  /\ UNCHANGED <<milan, observers, sourceOf, want, reg, rows, addr, stream>>

Declare(l, d) ==
  /\ want' = [want EXCEPT ![l] = d]
  /\ UNCHANGED <<env, reg, rows, addr, stream>>

Later(n) == IF n > HoldDown THEN n ELSE n + 1

Tick ==
  /\ rows' = {IF r.since = Never THEN r ELSE [r EXCEPT !.since = Later(@)] :
                r \in rows}
  /\ UNCHANGED <<env, want, reg, addr, stream>>

Next ==
  \/ \E m \in Mac : RxDeclaration(m) \/ RxObserver(m)
  \/ \E l \in Listener :
       \/ \E moves \in BOOLEAN : ConnectTx(l, moves)
       \/ DisconnectTx(l)
       \/ \E d \in Wants : Declare(l, d)
  \/ \E l \in Roaming : Discover(l) \/ Depart(l)
  \/ AgeOut \/ MoveId \/ AcquireAddress \/ TaskExit \/ TaskFails \/ Tick

Spec == Init /\ [][Next]_vars

(* A declaration is repeated until it gets through (PeriodicTimer), a      *)
(* registration nobody renews runs out (LeaveTimer), MAAP and the task get *)
(* their turn.                                                             *)
FairSpec ==
  /\ Spec
  /\ \A m \in Mac : WF_vars(RxDeclaration(m))
  /\ WF_vars(AgeOut /\ \A l \in Listener : want[l] = "None")
  /\ WF_vars(AcquireAddress) /\ WF_vars(TaskExit)
-----------------------------------------------------------------------------
TypeOK ==
  /\ milan \in BOOLEAN /\ observers \in BOOLEAN /\ sourceOf \in [Listener -> Mac]
  /\ known \in SUBSET Listener /\ want \in [Listener -> Wants]
  /\ reg \in BOOLEAN /\ rows \subseteq Row /\ Cardinality(rows) <= MaxRows
  /\ addr \in BOOLEAN
  /\ streaming \in BOOLEAN /\ stop \in BOOLEAN /\ tasks \in 0 .. MaxTasks
  /\ failed \in BOOLEAN /\ fails \in 0 .. MaxFail

(* A stream runs only while MSRP has a registration for it and the table a *)
(* row: in whichever order Ready, AskingFailed, CONNECT_TX, DISCONNECT_TX  *)
(* and age-out come, none leaves a stream that no later event will stop.   *)
(* It holds between peers that, like this code, send nothing in LO.        *)
StreamIsRegistered == ~observers /\ streaming => reg /\ rows # {}

(* The same with any peer.                                                 *)
AnyStreamIsRegistered == streaming => reg

(* ACMP and MSRP merge the rows they can tell to be of one listener: no    *)
(* address and no identity is in two rows (a listener behind a bridge may  *)
(* have one under the bridge's address and one under its identity).        *)
RowsDistinct ==
  \A r, q \in rows : r # q =>
    /\ r.mac = q.mac => r.mac = NoMac
    /\ r.id = q.id => r.id = NoListener

(* A stream that is said to run has a task unless one failed in this run:  *)
(* however stops and starts follow each other, no task ends by the stop    *)
(* request of an earlier run, which a start withdraws, and the failure of  *)
(* a task does not outlast the run that it met (avb_start_stream_out).     *)
StreamKeepsTask == streaming => tasks > 0 \/ failed

(* The comment on streaming at avb.h:647, "true when stream_out_task       *)
(* running": avb_start_stream_out sets it before it creates the task, and  *)
(* neither a failed creation nor the err exit of the task takes it back.   *)
StreamHasTask == streaming => tasks > 0

IsReadyAndConnected(l) ==
  want[l] = "Ready" /\ \E r \in RowOf(l) : r.acmp

(* A listener that is connected and keeps declaring Ready gets the stream, *)
(* and gets it back after a registration lost to lost declarations.        *)
ReadyStreams ==
  \A l \in Listener : <>[]IsReadyAndConnected(l) => []<>streaming

(* The same where the table has a row for its declarations and the code    *)
(* can tell whose they are, also after starts that had no memory.  In      *)
(* Milan mode it need not tell; in plain AVB ADP must know the listener    *)
(* and no bridge may stand before it.  Of `streaming', which is what the   *)
(* code takes for running; StreamHasTask says what that is worth.          *)
KnownReadyStreams ==
  \A l \in Listener :
    <>[](IsReadyAndConnected(l) /\ MsrpRow(sourceOf[l]) # {}
         /\ (milan \/ (sourceOf[l] = MacOf[l] /\ l \notin Roaming)))
      => []<>streaming

(* When no listener declares any more, the stream stops and its task ends. *)
QuietStops ==
  ~observers /\ <>[](\A l \in Listener : want[l] = "None") => <>[](~streaming /\ tasks = 0)

(* The comment at mrp.c:1069: streaming needs Ready and ACMP of a listener. *)
StreamsToBothHalves ==
  streaming /\ ~milan => \E r \in rows : r.ready /\ r.acmp

(* One task sends a stream. *)
OneTransmitter == tasks <= 1
=============================================================================
