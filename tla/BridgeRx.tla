------------------------------ MODULE BridgeRx ------------------------------
(***************************************************************************)
(* What the bridge does with a frame it receives (src/avbbridge.c,         *)
(* src/avbnet.c), beside the stream frames of the wire, which WifiPort     *)
(* addresses anew: a stream of a station goes through Pacer, and ATDECC    *)
(* control passes both ways.  A group addressed frame is not acknowledged  *)
(* on the air, so the bridge learns from ADP which station runs an entity  *)
(* and sends it ACMP a second time, individually addressed; the station    *)
(* answers once (src/atdecc.c).                                            *)
(*                                                                         *)
(* Control passes by the ACMP window; the streams of Pacer, far faster,    *)
(* share no state with it.                                                 *)
(***************************************************************************)
EXTENDS Pacer

CONSTANTS
  Entity,    \* entities of the stations, and a controller on the wire
  Sta,       \* addresses of stations
  Msg,       \* ACMP messages
  Slot,      \* 1..AVB_WIFI_ENTITY_TABLE_SIZE
  Valid,     \* valid_time an entity advertises
  Ring,      \* ACMP_RECENT_COUNT
  Window,    \* ACMP_COPY_WINDOW_US
  Retry,     \* a controller repeats a command after its timeout
  ClassA     \* allow_class_a_over_wifi

Role == {"talker", "listener", "controller"}
AcmpType ==
  {"connect_tx_command", "disconnect_tx_command", "get_tx_state_command",
   "get_tx_connection_command", "connect_rx_command", "disconnect_rx_command",
   "get_rx_state_command", "connect_tx_response", "disconnect_tx_response",
   "get_tx_state_response", "connect_rx_response", "disconnect_rx_response",
   "get_rx_state_response", "get_tx_connection_response"}

ASSUME BridgeRxAssumption ==
  /\ None \notin Entity \cup Sta
  /\ Msg \subseteq [type : AcmpType, of : [Role -> Entity]]
  /\ IsFiniteSet(Slot) /\ Slot = 1..Cardinality(Slot) /\ Valid \in Nat \ {0}
  /\ Ring \in Nat \ {0} /\ Window \in Nat \ {0} /\ Retry \in Nat
  /\ ClassA \in BOOLEAN

VARIABLES
  table,    \* s_wifi_entities
  runs,     \* which station runs an entity, and how long it stays valid
  air,      \* ACMP frames on their way to stations
  recent,   \* s_recent of each entity
  tries     \* of each message: since it was sent, copies come, answers

control == <<table, runs, air, recent, tries>>
allVars == <<vars, control>>

Unused == -1                                         \* expires_us = 0
FreeSlot == [id |-> None, sta |-> None, left |-> Unused]
FirstTry == [since |-> Retry, came |-> FALSE, answers |-> 0]
Gone == [sta |-> None, left |-> 0]

ControlInit ==
  /\ table = [i \in Slot |-> FreeSlot]
  /\ runs = [e \in Entity |-> Gone]
  /\ air = {}
  /\ recent = [e \in Entity |-> << >>]
  /\ tries = [m \in Msg |-> FirstTry]

-----------------------------------------------------------------------------
(* avb_bridge_classify: streams of class A are not for the air, what ptpd   *)
(* and the MRP tasks handle ends here, and the rest goes to the other port. *)
Verdict(from, type, cls) ==
  CASE type \in {"ptp", "msrp", "mvrp"} -> "terminate"
    [] type = "vlan" /\ cls = "A" /\ from = "wire" /\ ~ClassA -> "drop"
    [] OTHER -> "bridge"

\* acmp_target_entity_id.
TargetRole(type) ==
  CASE type \in {"connect_tx_command", "disconnect_tx_command",
                 "get_tx_state_command", "get_tx_connection_command"} ->
         "talker"
    [] type \in {"connect_rx_command", "disconnect_rx_command",
                 "get_rx_state_command", "connect_tx_response",
                 "disconnect_tx_response"} -> "listener"
    [] OTHER -> "controller"

Target(m) == m.of[TargetRole(m.type)]

\* avb_wifi_entity_station.
Station(id) ==
  LET found == {i \in Slot : table[i].left > 0 /\ table[i].id = id}
  IN  IF found = {} THEN None ELSE table[Min(found)].sta

\* The same without a look at what expires.
FirstOther(id) == 1

\* The slot of a new entity: the one that expires first.
Oldest(id) ==
  Min({i \in Slot : \A j \in Slot : table[i].left <= table[j].left})

Known(id) == {i \in Slot : table[i].left # Unused /\ table[i].id = id}

\* avb_wifi_entity_learn: an entity that is available or departs.
Learn(id, sta) ==
  LET slot == IF Known(id) # {} THEN Min(Known(id)) ELSE Oldest(id)
  IN  table' = [table EXCEPT ![slot] = [id |-> id, sta |-> sta, left |-> Valid]]

Unlearn(id) ==
  table' = [i \in Slot |-> IF i \in Known(id) /\ i = Min(Known(id))
                           THEN [table[i] EXCEPT !.left = Unused] ELSE table[i]]

-----------------------------------------------------------------------------
\* A frame of a station's stream.
RxStream(s, cls) ==
  /\ Verdict("air", "vlan", cls) = "bridge"
  /\ Forward(s)
  /\ UNCHANGED control

\* ADP of a station.  There are no more entities than the table holds.
Available(id, sta) ==
  /\ Verdict("air", "avtp", None) = "bridge"
  /\ Cardinality({e \in Entity \ {id} : runs[e].left > 0}) < Cardinality(Slot)
  /\ runs' = [runs EXCEPT ![id] = [sta |-> sta, left |-> Valid]]
  /\ Learn(id, sta)
  /\ UNCHANGED <<vars, air, recent, tries>>

Departing(id) ==
  /\ Verdict("air", "avtp", None) = "bridge" /\ runs[id].left > 0
  /\ runs' = [runs EXCEPT ![id] = Gone]
  /\ Unlearn(id)
  /\ UNCHANGED <<vars, air, recent, tries>>

\* avb_bridge_wifi_control with ACMP of the wire: the group addressed frame, and
\* one for the station of the entity it is for.
RxAcmp(m) ==
  /\ Verdict("wire", "avtp", None) = "bridge" /\ tries[m].since >= Retry
  /\ air' = air \cup {[msg |-> m, to |-> "group"]}
                \cup IF Station(Target(m)) = None THEN {}
                     ELSE {[msg |-> m, to |-> Station(Target(m))]}
  /\ tries' = [tries EXCEPT ![m] = [FirstTry EXCEPT !.since = 0]]
  /\ UNCHANGED <<vars, table, runs, recent>>

-----------------------------------------------------------------------------
(* The station: avb_process_acmp.                                          *)

\* The same however long ago.
TwiceEver(id, m) == \E i \in DOMAIN recent[id] : recent[id][i].msg = m

\* avb_acmp_received_twice.
Twice(id, m) ==
  \E i \in DOMAIN recent[id] :
    recent[id][i].msg = m /\ recent[id][i].age < Window

\* What the dispatcher hands to a handler.
Handled ==
  {"connect_rx_command", "disconnect_rx_command", "connect_tx_command",
   "connect_tx_response", "disconnect_tx_command", "disconnect_tx_response",
   "get_rx_state_command", "get_tx_state_command", "get_tx_connection_command"}

Remembered(r, m) ==
  LET all == Append(r, [msg |-> m, age |-> 0])
  IN  IF Len(all) > Ring THEN Tail(all) ELSE all

Arrive(f) ==
  LET m == f.msg  id == Target(f.msg) IN
  /\ f \in air /\ air' = air \ {f}
  /\ IF runs[id].left > 0 /\ f.to \in {"group", runs[id].sta}
     THEN /\ recent' = IF Twice(id, m) THEN recent
                       ELSE [recent EXCEPT ![id] = Remembered(@, m)]
          /\ tries' = [tries EXCEPT
               ![m].came = TRUE,
               ![m].answers = IF Twice(id, m) \/ m.type \notin Handled THEN @
                              ELSE @ + 1]
     ELSE UNCHANGED <<recent, tries>>
  /\ UNCHANGED <<vars, table, runs>>

\* A group addressed frame is lost on the air, and one to a station that left.
Lose(f) ==
  /\ f \in air /\ air' = air \ {f}
  /\ f.to # "group" => f.to # runs[Target(f.msg)].sta
  /\ UNCHANGED <<vars, table, runs, recent, tries>>

\* The copies of a frame arrive within the window.
Pass ==
  /\ air = {}
  /\ table' = [i \in Slot |-> [table[i] EXCEPT !.left =
                 IF @ > 0 THEN @ - 1 ELSE @]]
  /\ runs' = [e \in Entity |-> IF runs[e].left > 1
                               THEN [runs[e] EXCEPT !.left = @ - 1] ELSE Gone]
  /\ recent' = [e \in Entity |-> [i \in DOMAIN recent[e] |->
                  [recent[e][i] EXCEPT !.age = Aged(@, Window)]]]
  /\ tries' = [m \in Msg |-> [tries[m] EXCEPT !.since = Aged(@, Retry)]]
  /\ UNCHANGED <<vars, air>>

-----------------------------------------------------------------------------
Control ==
  \/ \E id \in Entity : Departing(id) \/ \E sta \in Sta : Available(id, sta)
  \/ \E m \in Msg : RxAcmp(m)
  \/ \E f \in air : Arrive(f) \/ Lose(f)
  \/ Pass

Streams ==
  \/ \E s \in Stream : \E cls \in {"A", "B"} : RxStream(s, cls)
  \/ \E s \in Stream, max \in Tspecs : Declare(s, max) /\ UNCHANGED control
  \/ (Place \/ SendHead \/ SendNow \/ Wake \/ Tick) /\ UNCHANGED control
  \/ \E k \in Task : (Take(k) \/ Send(k) \/ Arm(k)) /\ UNCHANGED control

AllInit == Init /\ ControlInit
AllNext == Control \/ Streams
AllSpec == AllInit /\ [][AllNext]_allVars /\ Fairness

-----------------------------------------------------------------------------
\* With no more entities about than the table holds, a lookup finds the station
\* that runs an entity, whatever moved, departed or just went silent, and none
\* for any other (avb_wifi_entity_learn, avb_wifi_entity_station).
KnownEntity ==
  \A id \in Entity : Station(id) = runs[id].sta

\* A message that came to its station, once or twice, is answered once, and a
\* retry of it again (avb_acmp_received_twice).
AnsweredOnce ==
  \A m \in Msg :
    tries[m].answers = IF tries[m].came /\ m.type \in Handled THEN 1 ELSE 0
=============================================================================
