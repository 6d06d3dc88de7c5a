---------------------------- MODULE Acmp_proofs ----------------------------
(* What TLAPS proves of Acmp. *)
EXTENDS Acmp, FiniteSetTheorems, SequenceTheorems, TLAPS

(***************************************************************************)
(* Messages under way.                                                     *)
(***************************************************************************)
LEMMA BoundedType ==
  ASSUME NEW M, NEW q \in Seq(M), NEW m \in M
  PROVE  Bounded(q, m) \in Seq(M)
BY DEF Bounded

LEMMA UnmarkedCommands ==
  ASSUME NEW q \in Seq(Command), NEW s PROVE Unmarked(q, s) \in Seq(Command)
<1>1. ASSUME NEW i \in 1..Len(q)
      PROVE  [q[i] EXCEPT !.tracked = @ /\ q[i].stream # s] \in Command
  <2> DEFINE still == q[i].tracked /\ q[i].stream # s
  <2>1. still \in BOOLEAN /\ q[i] \in Command
    OBVIOUS
  <2> HIDE DEF still
  <2>2. [q[i] EXCEPT !.tracked = still] \in Command
    BY <2>1 DEF Command
  <2> QED
    BY <2>2 DEF still
<1>2. Len(q) \in Nat /\ Unmarked(q, s) \in [1..Len(q) -> Command]
  BY <1>1 DEF Unmarked
<1> QED
  BY <1>2, SeqDef

LEMMA UnmarkedResponses ==
  ASSUME NEW q \in Seq(Response), NEW s PROVE Unmarked(q, s) \in Seq(Response)
<1>1. ASSUME NEW i \in 1..Len(q)
      PROVE  [q[i] EXCEPT !.tracked = @ /\ q[i].stream # s] \in Response
  <2> DEFINE still == q[i].tracked /\ q[i].stream # s
  <2>1. still \in BOOLEAN /\ q[i] \in Response
    OBVIOUS
  <2> HIDE DEF still
  <2>2. [q[i] EXCEPT !.tracked = still] \in Response
    BY <2>1 DEF Response
  <2> QED
    BY <2>2 DEF still
<1>2. Len(q) \in Nat /\ Unmarked(q, s) \in [1..Len(q) -> Response]
  BY <1>1 DEF Unmarked
<1> QED
  BY <1>2, SeqDef

LEMMA SendConnectType ==
  ASSUME NEW t \in Talker, NEW s \in Stream, NEW c \in Class,
         NEW track \in BOOLEAN, TypeOK, SendConnect(t, s, c, track)
  PROVE  /\ cmds' \in [Talker -> Seq(Command)]
         /\ inflight' \subseteq Talker \X Stream
<1> DEFINE added == track /\ <<t, s>> \notin inflight
                          /\ Cardinality(inflight) < MaxInflight
           m == [disconnect |-> FALSE, stream |-> s, class |-> c, tracked |-> added]
<1>1. m \in Command
  BY DEF Command
<1>2. cmds[t] \in Seq(Command)
  BY DEF TypeOK
<1>3. Bounded(cmds[t], m) \in Seq(Command)
  BY <1>1, <1>2, BoundedType
<1>4. /\ cmds' = [cmds EXCEPT ![t] = Bounded(@, m)]
      /\ inflight' = IF added THEN inflight \cup {<<t, s>>} ELSE inflight
  BY DEF SendConnect
<1> HIDE DEF added, m
<1> QED
  BY <1>3, <1>4 DEF TypeOK

LEMMA SendDisconnectType ==
  ASSUME NEW t \in Talker, NEW s \in Stream, TypeOK, AcmpAssumption,
         SendDisconnect(t, s)
  PROVE  cmds' \in [Talker -> Seq(Command)]
<1> DEFINE m == [disconnect |-> TRUE, stream |-> s, class |-> "A", tracked |-> FALSE]
<1>1. m \in Command
  BY DEF Command, AcmpAssumption
<1>2. cmds[t] \in Seq(Command)
  BY DEF TypeOK
<1>3. Bounded(cmds[t], m) \in Seq(Command)
  BY <1>1, <1>2, BoundedType
<1>4. cmds' = [cmds EXCEPT ![t] = Bounded(@, m)]
  BY DEF SendDisconnect
<1> HIDE DEF m
<1> QED
  BY <1>3, <1>4 DEF TypeOK

LEMMA AnswerType ==
  ASSUME NEW t \in Talker, NEW m \in Command, NEW ok \in BOOLEAN, TypeOK,
         out' \in [Talker -> Output], Answer(t, m, ok)
  PROVE  rsps' \in [Talker -> Seq(Response)]
<1> DEFINE r == [stream |-> m.stream, ok |-> ok, id |-> <<t, out'[t].gen>>,
                 class |-> out'[t].class, tracked |-> m.tracked]
<1>1. r \in Response
  BY DEF Response, Command, Output
<1>2. rsps[t] \in Seq(Response)
  BY DEF TypeOK
<1>3. Append(rsps[t], r) \in Seq(Response)
  BY <1>1, <1>2
<1>4. rsps' = [rsps EXCEPT ![t] = Append(@, r)]
  BY DEF Answer
<1> HIDE DEF r
<1> QED
  BY <1>3, <1>4 DEF TypeOK

LEMMA TailType ==
  ASSUME NEW M, NEW q \in Seq(M), q # << >>
  PROVE  Head(q) \in M /\ Tail(q) \in Seq(M)
OBVIOUS

(***************************************************************************)
(* The inputs.                                                             *)
(***************************************************************************)
\* What TypeOK asks of an input.
WellFormed(i) ==
  /\ i \in Input
  /\ i.connected = (i.id # None)
  /\ i.connected = (i.rx # None)
  /\ i.connected => i.talker # None

LEMMA UnboundFits == AcmpAssumption => WellFormed(Unbound)
BY DEF WellFormed, Unbound, Input, AcmpAssumption

LEMMA ConnectedFits ==
  ASSUME NEW s \in Stream, NEW t \in Talker, NEW m \in Response,
         WellFormed(in[s]), AcmpAssumption
  PROVE  WellFormed(Connected(s, t, m))
<1>1. m.id \in Talker \X Gen /\ m.id # None /\ t # None /\ m.class \in Class
  BY DEF Response, AcmpAssumption
<1>2. in[s].connected \in BOOLEAN /\ in[s].rx \in (Talker \X Gen) \cup {None}
      /\ in[s].connected = (in[s].rx # None)
  BY DEF WellFormed, Input
<1> QED
  BY <1>1, <1>2 DEF Connected, WellFormed, Input

LEMMA RestoredFits ==
  ASSUME NEW s \in Stream, NEW c \in Class, saved[s] \in Talker \cup {None},
         AcmpAssumption
  PROVE  WellFormed(Restored(s, c))
<1>1. WellFormed(Unbound) /\ 0 \in Gen
  BY UnboundFits DEF AcmpAssumption
<1>2. CASE Superfast /\ saved[s] # None
  <2>1. saved[s] \in Talker /\ <<saved[s], 0>> \in Talker \X Gen
        /\ <<saved[s], 0>> # None
    BY <1>1, <1>2 DEF AcmpAssumption
  <2> QED
    BY <1>1, <1>2, <2>1 DEF Restored, WellFormed, Input, Unbound
<1>3. CASE ~(Superfast /\ saved[s] # None)
  BY <1>1, <1>3 DEF Restored, WellFormed, Input, Unbound
<1> QED
  BY <1>2, <1>3

LEMMA FormedInputs ==
  ASSUME TypeOK
  PROVE  \A s \in Stream : WellFormed(in[s])
BY DEF TypeOK, WellFormed

LEMMA NextFormed ==
  ASSUME in' \in [Stream -> Input], \A s \in Stream : WellFormed(in'[s]),
         saved' \in [Stream -> Talker \cup {None}],
         inflight' \subseteq Talker \X Stream, known' \subseteq Talker,
         out' \in [Talker -> Output], cmds' \in [Talker -> Seq(Command)],
         rsps' \in [Talker -> Seq(Response)]
  PROVE  TypeOK'
BY DEF TypeOK, WellFormed

\* An input is changed in one place.
LEMMA OneInput ==
  ASSUME TypeOK, NEW s \in Stream, NEW i, WellFormed(i),
         in' = [in EXCEPT ![s] = i]
  PROVE  in' \in [Stream -> Input] /\ \A r \in Stream : WellFormed(in'[r])
<1>1. in \in [Stream -> Input] /\ \A r \in Stream : WellFormed(in[r])
  BY FormedInputs DEF TypeOK
<1>2. i \in Input
  BY DEF WellFormed
<1>3. \A r \in Stream : in'[r] = IF r = s THEN i ELSE in[r]
  BY <1>1
<1> QED
  BY <1>1, <1>2, <1>3

LEMMA PendingFits ==
  ASSUME NEW i, WellFormed(i), NEW b \in BOOLEAN
  PROVE  WellFormed([i EXCEPT !.pending = b])
BY DEF WellFormed, Input

LEMMA ProvisionalFits ==
  ASSUME NEW i, WellFormed(i), NEW b \in BOOLEAN
  PROVE  WellFormed([i EXCEPT !.provisional = b])
BY DEF WellFormed, Input

LEMMA TalkerFits ==
  ASSUME NEW i, WellFormed(i), NEW t \in Talker, AcmpAssumption
  PROVE  WellFormed([i EXCEPT !.talker = t])
BY DEF WellFormed, Input, AcmpAssumption

(***************************************************************************)
(* Type correctness.                                                       *)
(***************************************************************************)
LEMMA TypeInit == AcmpAssumption /\ Init => TypeOK
<1> SUFFICES ASSUME AcmpAssumption, Init PROVE TypeOK
  OBVIOUS
<1>1. WellFormed(Unbound) /\ \A t \in Talker : Silent(t) \in Output
  BY UnboundFits DEF Silent, Output, AcmpAssumption
<1>2. \A s \in Stream : in[s] = Unbound
  BY DEF Init
<1>3. in \in [Stream -> Input]
  BY <1>1 DEF Init, WellFormed
<1>4. out \in [Talker -> Output]
  BY <1>1 DEF Init
<1> QED
  BY <1>1, <1>2, <1>3, <1>4 DEF Init, TypeOK, WellFormed

LEMMA TypeConnect ==
  ASSUME TypeOK, AcmpAssumption, NEW s \in Stream, NEW t \in Talker,
         NEW c \in Class, NEW mvu \in BOOLEAN, Connect(s, t, c, mvu)
  PROVE  TypeOK'
<1> DEFINE yes == TRUE
           track == ~mvu
           bound == [in[s] EXCEPT !.talker = t]
           i == [bound EXCEPT !.pending = yes]
<1>1. yes \in BOOLEAN /\ track \in BOOLEAN
  OBVIOUS
<1>2. in' = [in EXCEPT ![s] = i]
  BY DEF Connect, TypeOK
<1>3. SendConnect(t, s, c, track)
  BY DEF Connect
<1> HIDE DEF yes, track
<1>4. WellFormed(bound)
  BY FormedInputs, TalkerFits
<1> HIDE DEF bound
<1>5. WellFormed(i)
  BY <1>1, <1>4, PendingFits
<1> HIDE DEF i
<1>6. in' \in [Stream -> Input] /\ \A r \in Stream : WellFormed(in'[r])
  BY <1>2, <1>5, OneInput
<1>7. cmds' \in [Talker -> Seq(Command)] /\ inflight' \subseteq Talker \X Stream
  BY <1>1, <1>3, SendConnectType
<1> QED
  BY <1>6, <1>7, NextFormed DEF Connect, TypeOK

LEMMA TypeDisconnect ==
  ASSUME TypeOK, AcmpAssumption, NEW s \in Stream, NEW t \in Talker,
         Disconnect(s, t)
  PROVE  TypeOK'
<1>1. in' \in [Stream -> Input] /\ \A r \in Stream : WellFormed(in'[r])
  BY UnboundFits, OneInput DEF Disconnect
<1>2. cmds' \in [Talker -> Seq(Command)]
  BY SendDisconnectType DEF Disconnect
<1> QED
  BY <1>1, <1>2, NextFormed DEF Disconnect, TypeOK

LEMMA TypeConnectResponse ==
  ASSUME TypeOK, AcmpAssumption, NEW t \in Talker, ConnectResponse(t)
  PROVE  TypeOK'
<1> DEFINE m == Head(rsps[t])
           s == m.stream
           no == FALSE
           i == IF m.ok THEN Connected(s, t, m) ELSE [in[s] EXCEPT !.pending = no]
<1>1. rsps[t] \in Seq(Response) /\ rsps[t] # << >>
  BY DEF TypeOK, ConnectResponse
<1>2. m \in Response /\ Tail(rsps[t]) \in Seq(Response)
  BY <1>1, TailType
<1>3. s \in Stream
  BY <1>2 DEF Response
<1>4. in' = [in EXCEPT ![s] = i]
  BY <1>3 DEF ConnectResponse, TypeOK
<1>5. inflight' \subseteq Talker \X Stream /\ rsps' = [rsps EXCEPT ![t] = Tail(@)]
      /\ UNCHANGED <<saved, known, out, cmds>>
  BY DEF ConnectResponse, TypeOK
<1>6. no \in BOOLEAN
  OBVIOUS
<1> HIDE DEF no, m
<1>7. WellFormed(Connected(s, t, m)) /\ WellFormed([in[s] EXCEPT !.pending = no])
  BY <1>2, <1>3, <1>6, FormedInputs, ConnectedFits, PendingFits
<1>8. WellFormed(i)
  BY <1>7
<1> HIDE DEF i, s
<1>9. in' \in [Stream -> Input] /\ \A r \in Stream : WellFormed(in'[r])
  BY <1>3, <1>4, <1>8, OneInput
<1>10. rsps' \in [Talker -> Seq(Response)]
  BY <1>2, <1>5 DEF TypeOK
<1> QED
  BY <1>5, <1>9, <1>10, NextFormed DEF TypeOK

LEMMA TypeTimeout ==
  ASSUME TypeOK, NEW s \in Stream, NEW t \in Talker, Timeout(t, s)
  PROVE  TypeOK'
<1> DEFINE no == FALSE
           i == [in[s] EXCEPT !.pending = no]
<1>1. no \in BOOLEAN
  OBVIOUS
<1>2. in' = [in EXCEPT ![s] = i]
  BY DEF Timeout, TypeOK
<1> HIDE DEF no
<1>3. WellFormed(i)
  BY <1>1, FormedInputs, PendingFits
<1> HIDE DEF i
<1>4. in' \in [Stream -> Input] /\ \A r \in Stream : WellFormed(in'[r])
  BY <1>2, <1>3, OneInput
<1>5. cmds[t] \in Seq(Command) /\ rsps[t] \in Seq(Response)
  BY DEF TypeOK
<1>6. Unmarked(cmds[t], s) \in Seq(Command) /\ Unmarked(rsps[t], s) \in Seq(Response)
  BY <1>5, UnmarkedCommands, UnmarkedResponses
<1>7. cmds' \in [Talker -> Seq(Command)] /\ rsps' \in [Talker -> Seq(Response)]
  BY <1>6 DEF Timeout, TypeOK
<1> QED
  BY <1>4, <1>7, NextFormed DEF Timeout, TypeOK

LEMMA TypeFastConnect ==
  ASSUME TypeOK, NEW s \in Stream, FastConnect(s)
  PROVE  TypeOK'
<1> DEFINE yes == TRUE
           i == [in[s] EXCEPT !.pending = yes]
           t == in[s].talker
<1>1. yes \in BOOLEAN
  OBVIOUS
<1>2. in' = [in EXCEPT ![s] = i]
  BY DEF FastConnect, TypeOK
<1>3. SendConnect(t, s, in[s].class, yes) /\ t \in Talker
  BY DEF FastConnect, TypeOK
<1> HIDE DEF yes
<1>4. WellFormed(i) /\ in[s].class \in Class
  BY <1>1, FormedInputs, PendingFits DEF WellFormed, Input
<1> HIDE DEF i, t
<1>5. in' \in [Stream -> Input] /\ \A r \in Stream : WellFormed(in'[r])
  BY <1>2, <1>4, OneInput
<1>6. cmds' \in [Talker -> Seq(Command)] /\ inflight' \subseteq Talker \X Stream
  BY <1>1, <1>3, <1>4, SendConnectType
<1> QED
  BY <1>5, <1>6, NextFormed DEF FastConnect, TypeOK

LEMMA TypeDemote ==
  ASSUME TypeOK, NEW s \in Stream, Demote(s)
  PROVE  TypeOK'
<1> DEFINE yes == TRUE
           i == [in[s] EXCEPT !.provisional = yes]
<1>1. yes \in BOOLEAN
  OBVIOUS
<1>2. in' = [in EXCEPT ![s] = i]
  BY DEF Demote, TypeOK
<1> HIDE DEF yes
<1>3. WellFormed(i)
  BY <1>1, FormedInputs, ProvisionalFits
<1> HIDE DEF i
<1>4. in' \in [Stream -> Input] /\ \A r \in Stream : WellFormed(in'[r])
  BY <1>2, <1>3, OneInput
<1> QED
  BY <1>4, NextFormed DEF Demote, TypeOK

LEMMA TypeDeparting ==
  ASSUME TypeOK, NEW t \in Talker, Departing(t)
  PROVE  TypeOK'
<1>1. ASSUME NEW r \in Stream PROVE WellFormed(in'[r])
  <2> DEFINE b == in[r].provisional \/ (in[r].connected /\ in[r].talker = t)
  <2>1. b \in BOOLEAN
    BY FormedInputs DEF WellFormed, Input
  <2>2. in'[r] = [in[r] EXCEPT !.provisional = b]
    BY DEF Departing
  <2> HIDE DEF b
  <2> QED
    BY <2>1, <2>2, FormedInputs, ProvisionalFits
<1>2. in' \in [Stream -> Input]
  <2>1. in' = [r \in Stream |-> in'[r]]
    BY DEF Departing
  <2> QED
    BY <1>1, <2>1 DEF WellFormed
<1> QED
  BY <1>1, <1>2, NextFormed DEF Departing, TypeOK

LEMMA TypeRestart ==
  ASSUME TypeOK, AcmpAssumption, Restart
  PROVE  TypeOK'
<1>1. PICK c \in [Stream -> Class] : in' = [r \in Stream |-> Restored(r, c[r])]
  BY DEF Restart
<1>2. \A r \in Stream : WellFormed(Restored(r, c[r]))
  BY RestoredFits DEF TypeOK
<1>3. in' \in [Stream -> Input] /\ \A r \in Stream : WellFormed(in'[r])
  BY <1>1, <1>2 DEF WellFormed
<1>4. cmds' \in [Talker -> Seq(Command)] /\ rsps' \in [Talker -> Seq(Response)]
  BY DEF Restart
<1> QED
  BY <1>3, <1>4, NextFormed DEF Restart, TypeOK

LEMMA TypeConnectTx ==
  ASSUME TypeOK, NEW t \in Talker, ConnectTx(t) \/ RefuseTx(t)
  PROVE  TypeOK'
<1> DEFINE m == Head(cmds[t])
<1>1. cmds[t] \in Seq(Command) /\ cmds[t] # << >>
  BY DEF TypeOK, ConnectTx, RefuseTx
<1>2. m \in Command /\ Tail(cmds[t]) \in Seq(Command)
  BY <1>1, TailType
<1>3. cmds' \in [Talker -> Seq(Command)]
  BY <1>2 DEF TypeOK, ConnectTx, RefuseTx
<1>4. out' \in [Talker -> Output]
  <2>1. CASE RefuseTx(t)
    BY <2>1 DEF RefuseTx, TypeOK
  <2>2. CASE ConnectTx(t)
    <3> DEFINE o == out[t]
               class == IF o.rows \ {m.stream} = {} THEN m.class ELSE o.class
    <3>1. PICK gen \in IF class # o.class THEN Gen ELSE {o.gen} :
            out' = [out EXCEPT ![t].rows = @ \cup {m.stream},
                               ![t].class = class, ![t].gen = gen]
      BY <2>2 DEF ConnectTx
    <3>2. o \in Output /\ class \in Class /\ m.stream \in Stream
      BY <1>2 DEF TypeOK, Output, Command
    <3>3. gen \in Gen
      BY <3>1, <3>2 DEF Output
    <3> DEFINE n == [[[o EXCEPT !.rows = @ \cup {m.stream}]
                        EXCEPT !.class = class] EXCEPT !.gen = gen]
    <3>4. out' = [out EXCEPT ![t] = n]
      BY <3>1 DEF TypeOK
    <3> HIDE DEF o, class
    <3>5. n \in Output
      BY <3>2, <3>3 DEF Output
    <3> HIDE DEF n
    <3> QED
      BY <3>4, <3>5 DEF TypeOK
  <2> QED
    BY <2>1, <2>2
<1>5. \E ok \in BOOLEAN : Answer(t, m, ok)
  <2> DEFINE yes == TRUE
             no == FALSE
  <2>1. yes \in BOOLEAN /\ no \in BOOLEAN
    OBVIOUS
  <2>2. Answer(t, m, yes) \/ Answer(t, m, no)
    BY DEF ConnectTx, RefuseTx
  <2> HIDE DEF yes, no
  <2> QED
    BY <2>1, <2>2
<1>6. rsps' \in [Talker -> Seq(Response)]
  BY <1>2, <1>4, <1>5, AnswerType
<1>7. UNCHANGED <<in, saved, inflight, known>>
  BY DEF ConnectTx, RefuseTx
<1> QED
  BY <1>3, <1>4, <1>6, <1>7 DEF TypeOK

LEMMA TypeTalker ==
  ASSUME TypeOK, AcmpAssumption, NEW t \in Talker,
         DisconnectTx(t) \/ TalkerRestart(t) \/ Lose(t) \/ Available(t)
  PROVE  TypeOK'
<1>1. CASE DisconnectTx(t)
  <2>1. cmds[t] \in Seq(Command) /\ cmds[t] # << >>
    BY <1>1 DEF TypeOK, DisconnectTx
  <2>2. Tail(cmds[t]) \in Seq(Command)
    BY <2>1, TailType
  <2> DEFINE rest == out[t].rows \ {Head(cmds[t]).stream}
             n == [out[t] EXCEPT !.rows = rest]
  <2>3. n \in Output
    <3>1. rest \in SUBSET Stream /\ out[t] \in Output
      BY DEF TypeOK, Output
    <3> HIDE DEF rest
    <3> QED
      BY <3>1 DEF Output
  <2>4. out' = [out EXCEPT ![t] = n] /\ cmds' = [cmds EXCEPT ![t] = Tail(@)]
        /\ UNCHANGED <<in, saved, inflight, known, rsps>>
    BY <1>1 DEF DisconnectTx, TypeOK
  <2> HIDE DEF n
  <2>5. out' \in [Talker -> Output] /\ cmds' \in [Talker -> Seq(Command)]
    BY <2>2, <2>3, <2>4 DEF TypeOK
  <2> QED
    BY <2>4, <2>5 DEF TypeOK
<1>2. CASE TalkerRestart(t)
  <2>1. PICK gen \in Gen : out' = [out EXCEPT ![t] = [Silent(t) EXCEPT !.gen = gen]]
    BY <1>2 DEF TalkerRestart
  <2>2. [Silent(t) EXCEPT !.gen = gen] \in Output
    BY DEF Silent, Output, AcmpAssumption
  <2>3. << >> \in Seq(Command) /\ << >> \in Seq(Response)
    OBVIOUS
  <2>4. cmds' = [cmds EXCEPT ![t] = << >>] /\ rsps' = [rsps EXCEPT ![t] = << >>]
        /\ UNCHANGED <<in, saved, inflight, known>>
    BY <1>2 DEF TalkerRestart
  <2>5. cmds' \in [Talker -> Seq(Command)] /\ rsps' \in [Talker -> Seq(Response)]
    BY <2>3, <2>4 DEF TypeOK
  <2>6. out' \in [Talker -> Output]
    BY <2>1, <2>2 DEF TypeOK
  <2> QED
    BY <2>4, <2>5, <2>6 DEF TypeOK
<1>3. CASE Lose(t)
  <2>1. cmds[t] \in Seq(Command) /\ rsps[t] \in Seq(Response)
    BY DEF TypeOK
  <2>2. cmds[t] # << >> => Tail(cmds[t]) \in Seq(Command)
    BY <2>1, TailType
  <2>3. rsps[t] # << >> => Tail(rsps[t]) \in Seq(Response)
    BY <2>1, TailType
  <2>4. UNCHANGED <<in, saved, inflight, known, out>>
        /\ cmds' \in [Talker -> Seq(Command)] /\ rsps' \in [Talker -> Seq(Response)]
    <3>1. CASE cmds[t] # << >> /\ cmds' = [cmds EXCEPT ![t] = Tail(@)]
               /\ UNCHANGED <<in, saved, inflight, known, out, rsps>>
      BY <2>2, <3>1 DEF TypeOK
    <3>2. CASE rsps[t] # << >> /\ rsps' = [rsps EXCEPT ![t] = Tail(@)]
               /\ UNCHANGED <<in, saved, inflight, known, out, cmds>>
      BY <2>3, <3>2 DEF TypeOK
    <3> QED
      BY <1>3, <3>1, <3>2 DEF Lose
  <2> QED
    BY <2>4 DEF TypeOK
<1>4. CASE Available(t)
  BY <1>4 DEF Available, TypeOK
<1> QED
  BY <1>1, <1>2, <1>3, <1>4

\* The listener's inputs, the inflight list, the talkers' tables and the
\* messages under way are well formed in every reachable state; in particular
\* an input is connected exactly while its stream-in runs, on a stream with an
\* identity (avb_connect_listener, avb_disconnect_listener).
THEOREM TypeCorrect == Spec => []TypeOK
<1> USE AcmpAssumption
<1>1. Init => TypeOK
  BY TypeInit
<1>2. TypeOK /\ [Next]_vars => TypeOK'
  <2> SUFFICES ASSUME TypeOK, [Next]_vars PROVE TypeOK'
    OBVIOUS
  <2>1. CASE UNCHANGED vars
    BY <2>1 DEF vars, TypeOK
  <2>2. CASE Next
    BY <2>2, TypeConnect, TypeDisconnect, TypeTimeout, TypeFastConnect,
       TypeDemote, TypeConnectResponse, TypeDeparting, TypeConnectTx,
       TypeTalker, TypeRestart DEF Next
  <2> QED
    BY <2>1, <2>2
<1> QED
  BY <1>1, <1>2, PTL DEF Spec

(***************************************************************************)
(* A probe that is waited for is in the inflight list.                     *)
(***************************************************************************)
\* The list has room for a command of every input to every talker, and no
\* controller binds with BIND_STREAM.
RoomForAll ==
  /\ ~MvuBinds
  /\ IsFiniteSet(Talker \X Stream)
  /\ MaxInflight >= Cardinality(Talker \X Stream)

LEMMA PlaceInList ==
  ASSUME RoomForAll, AcmpAssumption, inflight \subseteq Talker \X Stream,
         NEW t \in Talker, NEW s \in Stream, <<t, s>> \notin inflight
  PROVE  Cardinality(inflight) < MaxInflight
<1>1. IsFiniteSet(inflight) /\ Cardinality(inflight) <= Cardinality(Talker \X Stream)
  BY FS_Subset DEF RoomForAll
<1>2. Cardinality(inflight) # Cardinality(Talker \X Stream)
  BY FS_Subset, <<t, s>> \in Talker \X Stream DEF RoomForAll
<1>3. Cardinality(inflight) \in Nat /\ Cardinality(Talker \X Stream) \in Nat
  BY <1>1, FS_CardinalityType DEF RoomForAll
<1> QED
  BY <1>1, <1>2, <1>3 DEF RoomForAll, AcmpAssumption

\* What sending a tracked CONNECT_TX leaves in the list.
LEMMA Tracks ==
  ASSUME RoomForAll, AcmpAssumption, inflight \subseteq Talker \X Stream,
         NEW t \in Talker, NEW s \in Stream, NEW c, SendConnect(t, s, c, TRUE)
  PROVE  inflight' = inflight \cup {<<t, s>>}
BY PlaceInList DEF SendConnect

\* An action that gives one input a value without a wait, and takes nothing
\* of another input from the list.
LEMMA StopsWaiting ==
  ASSUME TypeOK, PendingIsTracked, NEW s \in Stream, NEW i,
         in' = [in EXCEPT ![s] = i], i.pending = FALSE,
         \A t \in Talker, r \in Stream :
           r # s /\ <<t, r>> \in inflight => <<t, r>> \in inflight'
  PROVE  PendingIsTracked'
BY DEF PendingIsTracked, TypeOK

LEMMA Waits ==
  ASSUME TypeOK, PendingIsTracked, NEW s \in Stream, NEW t \in Talker, NEW i,
         in' = [in EXCEPT ![s] = i], inflight' = inflight \cup {<<t, s>>}
  PROVE  PendingIsTracked'
BY DEF PendingIsTracked, TypeOK

LEMMA SameWaits ==
  ASSUME TypeOK, PendingIsTracked, inflight' = inflight,
         \A s \in Stream : in'[s].pending = in[s].pending
  PROVE  PendingIsTracked'
BY DEF PendingIsTracked, TypeOK

\* avb_process_inflight_timeouts ends every wait: pending_connection is never
\* set without a command in the inflight list, however many talkers and
\* inputs there are, as long as the list has room for all of them.
THEOREM PendingTracked ==
  ASSUME RoomForAll PROVE Spec => []PendingIsTracked
<1> USE AcmpAssumption
<1>1. Init => PendingIsTracked
  BY DEF Init, PendingIsTracked, Unbound
<1>2. TypeOK /\ PendingIsTracked /\ [Next]_vars => PendingIsTracked'
  <2> SUFFICES ASSUME TypeOK, PendingIsTracked, [Next]_vars
               PROVE  PendingIsTracked'
    OBVIOUS
  <2>1. ASSUME NEW s \in Stream, NEW t \in Talker, NEW c \in Class,
               NEW mvu \in BOOLEAN, Connect(s, t, c, mvu)
        PROVE  PendingIsTracked'
    <3> DEFINE i == [[in[s] EXCEPT !.talker = t] EXCEPT !.pending = TRUE]
    <3>1. SendConnect(t, s, c, TRUE)
      BY <2>1 DEF Connect, RoomForAll
    <3>2. in' = [in EXCEPT ![s] = i]
      BY <2>1 DEF Connect, TypeOK
    <3> HIDE DEF i
    <3> QED
      BY <3>1, <3>2, Tracks, Waits DEF TypeOK
  <2>2. ASSUME NEW s \in Stream, NEW t \in Talker, Disconnect(s, t)
        PROVE  PendingIsTracked'
    <3>1. in' = [in EXCEPT ![s] = Unbound] /\ inflight' = inflight
      BY <2>2 DEF Disconnect
    <3>2. Unbound.pending = FALSE
      BY DEF Unbound
    <3> QED
      BY <3>1, <3>2, StopsWaiting
  <2>3. ASSUME NEW s \in Stream, NEW t \in Talker, Timeout(t, s)
        PROVE  PendingIsTracked'
    <3> DEFINE i == [in[s] EXCEPT !.pending = FALSE]
    <3>1. in' = [in EXCEPT ![s] = i] /\ i.pending = FALSE
      BY <2>3 DEF Timeout, TypeOK, Input
    <3> HIDE DEF i
    <3> QED
      BY <2>3, <3>1, StopsWaiting DEF Timeout
  <2>4. ASSUME NEW s \in Stream, FastConnect(s)
        PROVE  PendingIsTracked'
    <3> DEFINE i == [in[s] EXCEPT !.pending = TRUE]
               t == in[s].talker
    <3>1. SendConnect(t, s, in[s].class, TRUE) /\ t \in Talker
      BY <2>4 DEF FastConnect, TypeOK
    <3>2. in' = [in EXCEPT ![s] = i]
      BY <2>4 DEF FastConnect, TypeOK
    <3> HIDE DEF i, t
    <3> QED
      BY <3>1, <3>2, Tracks, Waits DEF TypeOK
  <2>5. ASSUME NEW s \in Stream, Demote(s) PROVE PendingIsTracked'
    BY <2>5, SameWaits DEF Demote, TypeOK, Input
  <2>6. ASSUME NEW t \in Talker, ConnectResponse(t) PROVE PendingIsTracked'
    <3> DEFINE m == Head(rsps[t])
               s == m.stream
               i == IF m.ok THEN Connected(s, t, m) ELSE [in[s] EXCEPT !.pending = FALSE]
    <3>1. rsps[t] \in Seq(Response) /\ rsps[t] # << >>
      BY <2>6 DEF TypeOK, ConnectResponse
    <3>2. s \in Stream
      <4>1. Head(rsps[t]) \in Response
        BY <3>1, TailType
      <4> QED
        BY <4>1 DEF Response
    <3>3. in' = [in EXCEPT ![s] = i]
      BY <2>6, <3>2 DEF ConnectResponse, TypeOK
    <3>4. i.pending = FALSE
      <4>1. Connected(s, t, m).pending = FALSE
        BY DEF Connected
      <4>2. [in[s] EXCEPT !.pending = FALSE].pending = FALSE
        BY <3>2 DEF TypeOK, Input
      <4> QED
        BY <4>1, <4>2
    <3>5. inflight' = inflight \/ inflight' = inflight \ {<<t, s>>}
      BY <2>6 DEF ConnectResponse
    <3> HIDE DEF i, s
    <3> QED
      BY <3>2, <3>3, <3>4, <3>5, StopsWaiting
  <2>7. ASSUME NEW t \in Talker, Departing(t) PROVE PendingIsTracked'
    BY <2>7, SameWaits DEF Departing, TypeOK, Input
  <2>8. CASE Restart
    <3>1. PICK c \in [Stream -> Class] :
            in' = [r \in Stream |-> Restored(r, c[r])]
      BY <2>8 DEF Restart
    <3>2. ASSUME NEW r \in Stream PROVE ~Restored(r, c[r]).pending
      BY DEF Restored, Unbound
    <3> QED
      BY <3>1, <3>2 DEF PendingIsTracked
  <2>9. CASE UNCHANGED <<in, inflight>>
    BY <2>9 DEF PendingIsTracked
  <2> QED
    BY <2>1, <2>2, <2>3, <2>4, <2>5, <2>6, <2>7, <2>8, <2>9
    DEF Next, vars, Available, ConnectTx, RefuseTx, DisconnectTx,
        TalkerRestart, Lose
<1> QED
  BY <1>1, <1>2, TypeCorrect, PTL DEF Spec
=============================================================================
