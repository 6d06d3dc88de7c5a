-------------------------------- MODULE Acmp --------------------------------
(***************************************************************************)
(* Connection management (src/atdecc.c): the stream inputs of a listener   *)
(* of this code, talkers of this code, the controllers' commands and the   *)
(* network between listener and talkers, which keeps the order of what one *)
(* sends to another and may lose any of it.                                *)
(*                                                                         *)
(* A sequence number only tells the answer of the command that is in the   *)
(* inflight list from other answers, so a message carries that as a mark,  *)
(* `tracked'.  A stream has one controller.  A DISCONNECT_TX response      *)
(* changes nothing and is left out.                                        *)
(***************************************************************************)
EXTENDS Naturals, FiniteSets, Sequences

CONSTANTS
  Talker,
  Stream,       \* the inputs of the listener
  None,         \* no talker, or no stream
  Class,        \* SR classes a connect may ask for; A is the default
  Gen,          \* generations of a talker's stream ID; 0 is the usual one
  MaxInflight,  \* AVB_MAX_NUM_INFLIGHT_COMMANDS
  MaxQueue,     \* messages under way from one to another
  MvuBinds,     \* do controllers use Milan's BIND_STREAM and UNBIND_STREAM
  Superfast     \* CONFIG_ESP_AVB_SUPERFAST_CONNECT

ASSUME AcmpAssumption ==
  /\ None \notin Talker \cup (Talker \X Gen) /\ "A" \in Class /\ 0 \in Gen
  /\ MaxInflight \in Nat /\ MaxQueue \in Nat \ {0}
  /\ MvuBinds \in BOOLEAN /\ Superfast \in BOOLEAN

VARIABLES
  in,        \* input_streams
  saved,     \* the talker of each input in the stream journal
  inflight,  \* inflight_commands: tracked CONNECT_TX, as <<talker, stream>>
  known,     \* talkers discovered by ADP
  out,       \* the output stream of each talker
  cmds,      \* commands under way to each talker
  rsps       \* responses under way from each talker

vars == <<in, saved, inflight, known, out, cmds, rsps>>

Input ==
  [talker : Talker \cup {None}, connected : BOOLEAN, provisional : BOOLEAN,
   pending : BOOLEAN, class : Class, id : (Talker \X Gen) \cup {None},
   rx : (Talker \X Gen) \cup {None}]

Output == [rows : SUBSET Stream, class : Class, gen : Gen]

Command == [disconnect : BOOLEAN, stream : Stream, class : Class, tracked : BOOLEAN]

Response == [stream : Stream, ok : BOOLEAN, id : Talker \X Gen, class : Class,
             tracked : BOOLEAN]

Unbound == [talker |-> None, connected |-> FALSE, provisional |-> FALSE,
            pending |-> FALSE, class |-> "A", id |-> None, rx |-> None]

Silent(t) == [rows |-> {}, class |-> "A", gen |-> 0]

Init ==
  /\ in = [s \in Stream |-> Unbound] /\ saved = [s \in Stream |-> None]
  /\ inflight = {} /\ known = {}
  /\ out = [t \in Talker |-> Silent(t)]
  /\ cmds = [t \in Talker |-> << >>] /\ rsps = [t \in Talker |-> << >>]

\* What finds the network full is lost; a talker waits to answer.
Bounded(q, m) == IF Len(q) < MaxQueue THEN Append(q, m) ELSE q

Unmarked(q, s) ==
  [i \in 1..Len(q) |-> [q[i] EXCEPT !.tracked = @ /\ q[i].stream # s]]

(***************************************************************************)
(* The listener: what the controllers ask.                                 *)
(***************************************************************************)
\* avb_send_acmp_command for a CONNECT_TX, and avb_add_inflight_command: not
\* when the list is full, nor when the same command, with another sequence
\* number, is in it.
SendConnect(t, s, c, track) ==
  LET added == track /\ <<t, s>> \notin inflight
                     /\ Cardinality(inflight) < MaxInflight
  IN  /\ cmds' = [cmds EXCEPT ![t] = Bounded(@,
           [disconnect |-> FALSE, stream |-> s, class |-> c, tracked |-> added])]
      /\ inflight' = IF added THEN inflight \cup {<<t, s>>} ELSE inflight

SendDisconnect(t, s) ==
  cmds' = [cmds EXCEPT ![t] = Bounded(@,
    [disconnect |-> TRUE, stream |-> s, class |-> "A", tracked |-> FALSE])]

HasBinding(s) == in[s].connected \/ in[s].pending

\* avb_process_acmp_connect_rx_command: CONNECT_RX, or BIND_STREAM, whose
\* probe is not tracked and whose flags ask for class A.
Connect(s, t, c, mvu) ==
  /\ HasBinding(s) => in[s].talker = t
  /\ mvu => MvuBinds /\ c = "A"
  /\ in' = [in EXCEPT ![s].talker = t, ![s].pending = TRUE]
  /\ SendConnect(t, s, c, ~mvu)
  /\ saved' = [saved EXCEPT ![s] = t]
  /\ UNCHANGED <<known, out, rsps>>

\* The same without avb_stop_stream_in.
DisconnectKeepsReceiver(s, t) ==
  /\ HasBinding(s) => in[s].talker = t
  /\ in' = [in EXCEPT ![s] = [Unbound EXCEPT !.rx = in[s].rx]]
  /\ SendDisconnect(t, s)
  /\ saved' = [saved EXCEPT ![s] = None]
  /\ UNCHANGED <<inflight, known, out, rsps>>

\* The same for DISCONNECT_RX and UNBIND_STREAM.  avb_disconnect_listener
\* stops the stream-in and clears the input; with no connection the input is
\* cleared alone.
Disconnect(s, t) ==
  /\ HasBinding(s) => in[s].talker = t
  /\ in' = [in EXCEPT ![s] = Unbound]
  /\ SendDisconnect(t, s)
  /\ saved' = [saved EXCEPT ![s] = None]
  /\ UNCHANGED <<inflight, known, out, rsps>>

(***************************************************************************)
(* The listener: the answers of the talkers and its own timers.            *)
(***************************************************************************)
\* avb_connect_listener and, around it, what
\* avb_process_acmp_connect_tx_response does with the stream-in.
Connected(s, t, m) ==
  LET i == in[s]
      restart == ~i.connected \/ (i.provisional /\ i.id # m.id)
  IN  [talker |-> t, connected |-> TRUE, provisional |-> FALSE,
       pending |-> FALSE, class |-> m.class, id |-> m.id,
       rx |-> IF restart THEN m.id ELSE i.rx]

\* avb_process_acmp_connect_tx_response.
ConnectResponse(t) ==
  /\ rsps[t] # << >>
  /\ LET m == Head(rsps[t])
         s == m.stream
     IN  /\ in' = [in EXCEPT ![s] =
                     IF m.ok THEN Connected(s, t, m) ELSE [@ EXCEPT !.pending = FALSE]]
         /\ inflight' = IF m.tracked THEN inflight \ {<<t, s>>} ELSE inflight
  /\ rsps' = [rsps EXCEPT ![t] = Tail(@)]
  /\ UNCHANGED <<saved, known, out, cmds>>

\* The same with the input left as it is.
TimeoutKeepsPending(t, s) ==
  /\ <<t, s>> \in inflight
  /\ inflight' = inflight \ {<<t, s>>}
  /\ cmds' = [cmds EXCEPT ![t] = Unmarked(@, s)]
  /\ rsps' = [rsps EXCEPT ![t] = Unmarked(@, s)]
  /\ UNCHANGED <<in, saved, known, out>>

\* avb_process_inflight_timeouts, for a CONNECT_TX.
Timeout(t, s) ==
  /\ <<t, s>> \in inflight
  /\ inflight' = inflight \ {<<t, s>>}
  /\ in' = [in EXCEPT ![s].pending = FALSE]
  /\ cmds' = [cmds EXCEPT ![t] = Unmarked(@, s)]
  /\ rsps' = [rsps EXCEPT ![t] = Unmarked(@, s)]
  /\ UNCHANGED <<saved, known, out>>

\* The same with a provisional connection left alone.
FastConnectUnconnected(s) ==
  LET t == in[s].talker
  IN  /\ t \in known /\ ~in[s].connected /\ ~in[s].pending
      /\ in' = [in EXCEPT ![s].pending = TRUE]
      /\ SendConnect(t, s, in[s].class, TRUE)
      /\ UNCHANGED <<saved, known, out, rsps>>

\* avb_fast_connect_listener.
FastConnect(s) ==
  LET t == in[s].talker
  IN  /\ t \in known
      /\ ~(in[s].connected /\ ~in[s].provisional) /\ ~in[s].pending
      /\ in' = [in EXCEPT ![s].pending = TRUE]
      /\ SendConnect(t, s, in[s].class, TRUE)
      /\ UNCHANGED <<saved, known, out, rsps>>

\* The demotion in avb_periodic_send: no talker has declared the stream, nor
\* sent a frame of it, for ten seconds.  It has another stream ID now, or is
\* cut off.
Demote(s) ==
  /\ in[s].connected /\ ~in[s].provisional
  /\ in' = [in EXCEPT ![s].provisional = TRUE]
  /\ UNCHANGED <<saved, inflight, known, out, cmds, rsps>>

\* avb_process_adp.
Available(t) ==
  /\ t \notin known /\ known' = known \cup {t}
  /\ UNCHANGED <<in, saved, inflight, out, cmds, rsps>>

Departing(t) ==
  /\ t \in known /\ known' = known \ {t}
  /\ in' = [s \in Stream |-> [in[s] EXCEPT
              !.provisional = @ \/ (in[s].connected /\ in[s].talker = t)]]
  /\ UNCHANGED <<saved, inflight, out, cmds, rsps>>

\* A restart: avb_persist_apply restores the bindings, and with superfast
\* connect avb_superfast_connect_start receives the stream it guesses.  The
\* class is the one the input had when its record was written.
Restored(s, c) ==
  LET t == saved[s]
      b == [Unbound EXCEPT !.talker = t, !.class = c]
  IN  IF Superfast /\ t # None
      THEN [b EXCEPT !.connected = TRUE, !.provisional = TRUE,
                     !.id = <<t, 0>>, !.rx = <<t, 0>>]
      ELSE b

Restart ==
  /\ \E c \in [Stream -> Class] : in' = [s \in Stream |-> Restored(s, c[s])]
  /\ inflight' = {} /\ known' = {}
  /\ cmds' = [t \in Talker |-> << >>] /\ rsps' = [t \in Talker |-> << >>]
  /\ UNCHANGED <<saved, out>>

(***************************************************************************)
(* A talker.                                                               *)
(***************************************************************************)
Answer(t, m, ok) ==
  /\ Len(rsps[t]) < MaxQueue
  /\ rsps' = [rsps EXCEPT ![t] = Append(@,
       [stream |-> m.stream, ok |-> ok, id |-> <<t, out'[t].gen>>,
        class |-> out'[t].class, tracked |-> m.tracked])]

\* avb_process_acmp_connect_tx_command.  The class is the asking listener's
\* unless another is connected.  A stream that grows with its class may move
\* to a new stream ID (avb_output_stream_renew_id): whether it is running,
\* which keeps its ID, is not in this module.
ConnectTx(t) ==
  /\ cmds[t] # << >> /\ ~Head(cmds[t]).disconnect
  /\ LET m == Head(cmds[t])
         o == out[t]
         class == IF o.rows \ {m.stream} = {} THEN m.class ELSE o.class
     IN  \E gen \in IF class # o.class THEN Gen ELSE {o.gen} :
           /\ out' = [out EXCEPT ![t].rows = @ \cup {m.stream},
                                 ![t].class = class, ![t].gen = gen]
           /\ Answer(t, m, TRUE)
  /\ cmds' = [cmds EXCEPT ![t] = Tail(@)]
  /\ UNCHANGED <<in, saved, inflight, known>>

\* It is acquired or locked by another controller, or its table is full.
RefuseTx(t) ==
  /\ cmds[t] # << >> /\ ~Head(cmds[t]).disconnect
  /\ UNCHANGED out /\ Answer(t, Head(cmds[t]), FALSE)
  /\ cmds' = [cmds EXCEPT ![t] = Tail(@)]
  /\ UNCHANGED <<in, saved, inflight, known>>

DisconnectTx(t) ==
  /\ cmds[t] # << >> /\ Head(cmds[t]).disconnect
  /\ out' = [out EXCEPT ![t].rows = @ \ {Head(cmds[t]).stream}]
  /\ cmds' = [cmds EXCEPT ![t] = Tail(@)]
  /\ UNCHANGED <<in, saved, inflight, known, rsps>>

\* A talker starts anew, perhaps with another stream ID.
TalkerRestart(t) ==
  /\ \E gen \in Gen : out' = [out EXCEPT ![t] = [Silent(t) EXCEPT !.gen = gen]]
  /\ cmds' = [cmds EXCEPT ![t] = << >>] /\ rsps' = [rsps EXCEPT ![t] = << >>]
  /\ UNCHANGED <<in, saved, inflight, known>>

\* The network loses a message.
Lose(t) ==
  \/ /\ cmds[t] # << >> /\ cmds' = [cmds EXCEPT ![t] = Tail(@)]
     /\ UNCHANGED <<in, saved, inflight, known, out, rsps>>
  \/ /\ rsps[t] # << >> /\ rsps' = [rsps EXCEPT ![t] = Tail(@)]
     /\ UNCHANGED <<in, saved, inflight, known, out, cmds>>

Next ==
  \/ \E s \in Stream, t \in Talker :
       \/ \E c \in Class, mvu \in BOOLEAN : Connect(s, t, c, mvu)
       \/ Disconnect(s, t) \/ Timeout(t, s)
  \/ \E s \in Stream : FastConnect(s) \/ Demote(s)
  \/ \E t \in Talker :
       \/ ConnectResponse(t) \/ Available(t) \/ Departing(t)
       \/ ConnectTx(t) \/ RefuseTx(t) \/ DisconnectTx(t)
       \/ TalkerRestart(t) \/ Lose(t)
  \/ Restart

Spec == Init /\ [][Next]_vars

\* The main loop runs the timers for ever.  A talker is not locked for ever
\* and the network does not lose every command, nor every success.
Success(t) == rsps[t] # << >> /\ Head(rsps[t]).ok /\ ConnectResponse(t)

FairSpec ==
  /\ Spec
  /\ \A s \in Stream : WF_vars(FastConnect(s))
  /\ \A t \in Talker, s \in Stream : WF_vars(Timeout(t, s))
  /\ \A t \in Talker : /\ WF_vars(ConnectResponse(t)) /\ SF_vars(Success(t))
                       /\ SF_vars(ConnectTx(t)) /\ WF_vars(DisconnectTx(t))

-----------------------------------------------------------------------------
TypeOK ==
  /\ in \in [Stream -> Input]
  /\ \A s \in Stream : /\ in[s].connected = (in[s].id # None)
                       /\ in[s].connected = (in[s].rx # None)
                       /\ in[s].connected => in[s].talker # None
  /\ saved \in [Stream -> Talker \cup {None}]
  /\ inflight \subseteq Talker \X Stream
  /\ known \subseteq Talker /\ out \in [Talker -> Output]
  /\ cmds \in [Talker -> Seq(Command)] /\ rsps \in [Talker -> Seq(Response)]

\* A probe that is waited for is in the inflight list, whose timeout ends the
\* waiting (pending_connection gates avb_fast_connect_listener).
PendingIsTracked ==
  \A s \in Stream : in[s].pending => \E t \in Talker : <<t, s>> \in inflight

\* A stream-in receives the stream its input is connected to.
ReceiverFollows == \A s \in Stream : in[s].rx = in[s].id

\* A bound input whose talker is on the network connects again whatever was
\* lost, timed out, demoted or restarted before (avb_periodic_fast_connect:
\* "the listener retries on a 4 s cadence").
BoundConnects ==
  \A s \in Stream, t \in Talker :
    <>[](in[s].talker = t /\ t \in known)
      => []<>(in[s].connected /\ ~in[s].provisional)
=============================================================================
