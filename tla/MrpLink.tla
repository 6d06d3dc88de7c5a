------------------------------ MODULE MrpLink ------------------------------
(***************************************************************************)
(* Two MRP participants running src/mrp.c on the two ends of one link, for *)
(* the attributes of ONE attribute type.  Every mrp_port_tick that has     *)
(* something due is one PortTick; every received MRPDU is one Receive.     *)
(*                                                                         *)
(* Time is counted in units of at most JoinTime.  A timer holds the units  *)
(* it has left, Off when disarmed, and 0 when due.  The clock (Pass) moves *)
(* only when nothing is due and nothing is in flight: the main loop polls  *)
(* every port at least once per OS tick and a link delivers in             *)
(* microseconds, both far below the 200 ms unit.                           *)
(*                                                                         *)
(* ArmsOnLeaveAll tells MSRP (mrp_rx_msrp) from MVRP (mrp_rx_mvrp), whose  *)
(* handler does not arm the JoinTimer.  `held', `losses', `crashes' and   *)
(* `changes' are bookkeeping of the model, not of the code.                *)
(***************************************************************************)
EXTENDS MrpSM, Sequences, SequencesExt

CONSTANTS
  Node,            \* the two ends
  AttrOrder,       \* the attributes, in the order of the attribute table
  Owns,            \* Owns[n]: the attributes the application of n may declare
  Roles,           \* the pairs of ports to look at, functions Node -> Role
  ArmsOnLeaveAll,  \* TRUE for MSRP, FALSE for MVRP
  Phase,           \* Phase[n]: what the PeriodicTimer of n may start with
  JoinMax,         \* MRP_JOIN_TIMER_US
  LeaveTime,       \* MRP_LEAVE_TIMER_US
  PeriodicTime,    \* MRP_PERIODIC_TIMER_US
  SelfLeaveTime,   \* MRP_STATION_SELF_LEAVE_US
  SwitchLeaveTime, \* the LeaveTime of a standard switch
  LeaveAllMin,     \* shortest and longest LeaveAllTime drawn
  LeaveAllMax,
  MaxLoss,         \* bound: MRPDUs lost on the link in a behaviour
  MaxCrash,        \* bound: reboots in a behaviour
  MaxChange        \* bound: declarations and withdrawals in a behaviour

Attr == Range(AttrOrder)
Off  == -1

NoAttr == "none"

\* A wired port, a Wi-Fi station, a bridge's Wi-Fi access point, or the port
\* of a standard 802.1Q switch that runs other code.
Role == {"wired", "sta", "ap", "switch"}

ASSUME LinkAssumption ==
  /\ \E m, n \in Node : m # n /\ Node = {m, n}
  /\ AttrOrder \in Seq(Attr) /\ NoAttr \notin Attr
  /\ Owns \in [Node -> SUBSET Attr]
  /\ Roles \subseteq [Node -> Role]
  /\ Phase \in [Node -> SUBSET (1..PeriodicTime)]
  /\ ArmsOnLeaveAll \in BOOLEAN
  /\ {JoinMax, LeaveTime, PeriodicTime, SelfLeaveTime, SwitchLeaveTime} \subseteq Nat \ {0}
  /\ {LeaveAllMin, LeaveAllMax} \subseteq Nat \ {0} /\ LeaveAllMin <= LeaveAllMax
  /\ {MaxLoss, MaxCrash, MaxChange} \subseteq Nat

VARIABLES
  port,    \* port[n]: the attribute table, timers and role of the port of n
  decl,    \* decl[n]: what the application of n declares now
  chan,    \* chan[n]: MRPDUs on their way to n
  alive,   \* alive[n]: n is powered
  held,    \* held[n][a]: units a declaration has stood, up to JoinMax + 1
  losses,
  crashes,
  changes

linkVars == <<port, decl, chan, alive, held, losses, crashes, changes>>

Peer(n) == CHOOSE m \in Node : m # n

PortState ==
  [role: Role, app: [Attr -> ApplicantState], reg: [Attr -> RegistrarState],
   leave: [Attr -> Nat \cup {Off}], join: Off..JoinMax, leaveAll: 0..LeaveAllMax,
   periodic: 0..PeriodicTime, leaveAllPending: BOOLEAN]

\* A vector of no values carries the LeaveAll alone.
PureLeaveAll == [attr |-> NoAttr, ev |-> NoAttr, leaveAll |-> TRUE]

Mrpdu == [attr: Attr, ev: WireEvent, leaveAll: BOOLEAN] \cup {PureLeaveAll}

\* An entry that is not in the table behaves as one in (VO, MT).
PortInit(role, la, per) ==
  [role |-> role, app |-> [a \in Attr |-> "VO"], reg |-> [a \in Attr |-> "MT"],
   leave |-> [a \in Attr |-> Off], join |-> Off, leaveAll |-> la,
   periodic |-> per, leaveAllPending |-> FALSE]

LinkInit ==
  /\ \E role \in Roles, per \in [Node -> 1..PeriodicTime] :
       /\ \A n \in Node : per[n] \in Phase[n]
       /\ port = [n \in Node |-> PortInit(role[n], LeaveAllMin, per[n])]
  /\ decl = [n \in Node |-> {}]
  /\ chan = [n \in Node |-> <<>>]
  /\ alive = [n \in Node |-> TRUE]
  /\ held = [n \in Node |-> [a \in Attr |-> 0]]
  /\ losses = 0 /\ crashes = 0 /\ changes = 0

(***************************************************************************)
(* mrp_port_tick, as the composition of its four timer branches.           *)
(***************************************************************************)
\* Registrar step of every attribute in S; rLv and rLA (re)start LeaveTimer
\* at t, a Join or the expiry switches it off.
RegistrarsStep(p, S, ev, t) ==
  LET r(a) == RegistrarStep(p.reg[a], ev) IN
  [p EXCEPT
     !.reg   = [a \in Attr |-> IF a \in S THEN r(a) ELSE p.reg[a]],
     !.leave = [a \in Attr |->
                  CASE a \in S /\ r(a) = "LV" /\ ev \in {"rLv", "rLA"} -> t
                    [] a \in S /\ r(a) # "LV" /\ r(a) # p.reg[a]      -> Off
                    [] OTHER                             -> p.leave[a]]]

AppStep(p, S, ev) ==
  [p EXCEPT !.app = [a \in Attr |-> IF a \in S THEN ApplicantStep(p.app[a], ev)
                                               ELSE p.app[a]]]

Arm(p, j) == IF p.join = Off THEN [p EXCEPT !.join = j] ELSE p

\* A station applies its own LeaveAll to its IN Registrars, with a long timer.
SelfLeaveAll(p) ==
  RegistrarsStep(p, {a \in Attr : p.reg[a] = "IN"}, "rLA", SelfLeaveTime)

\* A standard switch applies it too, with its own LeaveTime, and asks for
\* the next transmission at once.
SwitchLeaveAll(p, j) ==
  Arm(RegistrarsStep(p, {a \in Attr : p.reg[a] = "IN"}, "rLA", SwitchLeaveTime), j)

\* The same with no step of the station's own Registrars.
LeaveAllTimerPeersOnly(p, suppress, la, j) ==
  IF p.leaveAll # 0 THEN p
  ELSE LET q == [p EXCEPT !.leaveAll = la] IN
       IF suppress THEN q
       ELSE [(IF p.role = "switch" THEN SwitchLeaveAll(q, j) ELSE q)
               EXCEPT !.leaveAllPending = TRUE]

\* The LeaveAllTimer branch of mrp_port_tick.
LeaveAllTimer(p, suppress, la, j) ==
  IF p.leaveAll # 0 THEN p
  ELSE LET q == [p EXCEPT !.leaveAll = la] IN
       IF suppress THEN q
       ELSE [(CASE p.role = "sta"    -> SelfLeaveAll(q)
                [] p.role = "switch" -> SwitchLeaveAll(q, j)
                [] OTHER             -> q) EXCEPT !.leaveAllPending = TRUE]

\* The same without a new JoinTimer.
PeriodicUnarmed(p, j) ==
  IF p.periodic # 0 THEN p
  ELSE AppStep([p EXCEPT !.periodic = PeriodicTime], Attr, "periodic")

\* The PeriodicTimer branch of mrp_port_tick.
Periodic(p, j) ==
  IF p.periodic # 0 THEN p
  ELSE Arm(AppStep([p EXCEPT !.periodic = PeriodicTime], Attr, "periodic"), j)

FlushEvent(p) == IF p.leaveAllPending THEN "txLA" ELSE "tx"

\* A declaration sends, and the 3pe value it sends.
Sends(p, a) == TxAction(p.app[a], FlushEvent(p)) # "none"

Encoded(p, a) == Resolve3pe(TxAction(p.app[a], FlushEvent(p)), p.reg[a])

\* One MRPDU per declaration that sends; only the first carries the LeaveAll.
Mrpdus(p) ==
  FlattenSeq([i \in DOMAIN AttrOrder |->
    LET a == AttrOrder[i] IN
    IF ~Sends(p, a) THEN << >>
    ELSE << [attr |-> a, ev |-> Encoded(p, a),
             leaveAll |-> /\ p.leaveAllPending
                          /\ \A j \in 1..(i - 1) : ~Sends(p, AttrOrder[j])] >>])

\* What a flush sends.  A standard switch that has nothing to declare sends
\* the LeaveAll alone.
Sent(p) ==
  IF p.role = "switch" /\ p.leaveAllPending /\ Mrpdus(p) = <<>>
  THEN <<PureLeaveAll>> ELSE Mrpdus(p)

Flushed(p) ==
  [AppStep(p, Attr, FlushEvent(p)) EXCEPT !.join = Off, !.leaveAllPending = FALSE]

LeaveTimers(p) == RegistrarsStep(p, {a \in Attr : p.leave[a] = 0}, "leaveTimer", Off)

Due(p) == 0 \in {p.join, p.leaveAll, p.periodic} \cup Range(p.leave)

\* No association is left on an access point whose station is gone.
Suppressed(n) == port[n].role = "ap" /\ ~alive[Peer(n)]

PortTick(n) ==
  /\ alive[n] /\ Due(port[n])
  /\ \E la \in LeaveAllMin..LeaveAllMax, j \in 0..JoinMax :
       LET p == Periodic(LeaveAllTimer(port[n], Suppressed(n), la, j), j)
           fires == p.join = 0
       IN  /\ port' = [port EXCEPT ![n] =
                         LeaveTimers(IF fires THEN Flushed(p) ELSE p)]
           /\ chan' = [chan EXCEPT ![Peer(n)] =
                         IF fires THEN @ \o Sent(p) ELSE @]
  /\ UNCHANGED <<decl, alive, held, losses, crashes, changes>>

(***************************************************************************)
(* mrp_rx_msrp and mrp_rx_mvrp: the LeaveAll of the PDU first, to every    *)
(* attribute of the type, then the event of the one value.                 *)
(***************************************************************************)
\* The same without a new JoinTimer at an MSRP node.
OnLeaveAllUnarmed(p, j) ==
  LET q == RegistrarsStep(AppStep(p, Attr, "rLA"), Attr, "rLA", LeaveTime)
  IN  IF p.role = "switch" THEN Arm(q, j) ELSE q

OnLeaveAll(p, j) ==
  LET q == RegistrarsStep(AppStep(p, Attr, "rLA"), Attr, "rLA", LeaveTime)
  IN  IF ArmsOnLeaveAll \/ p.role = "switch" THEN Arm(q, j) ELSE q

OnValue(p, a, ev) ==
  IF a = NoAttr THEN p ELSE RegistrarsStep(AppStep(p, {a}, ev), {a}, ev, LeaveTime)

Receive(n) ==
  /\ chan[n] # <<>>
  /\ LET m == Head(chan[n]) IN
       \E j \in 0..JoinMax :
         port' = IF alive[n]
                 THEN [port EXCEPT ![n] =
                         OnValue(IF m.leaveAll THEN OnLeaveAll(@, j) ELSE @,
                                 m.attr, m.ev)]
                 ELSE port
  /\ chan' = [chan EXCEPT ![n] = Tail(@)]
  /\ UNCHANGED <<decl, alive, held, losses, crashes, changes>>

\* mrp_declare_*: the application starts to declare an attribute.
Declare(n, a) ==
  /\ alive[n] /\ a \in Owns[n] \ decl[n] /\ changes < MaxChange
  /\ changes' = changes + 1
  /\ decl' = [decl EXCEPT ![n] = @ \cup {a}]
  /\ \E j \in 0..JoinMax :
       port' = [port EXCEPT ![n] =
                  Arm(AppStep(@, {a}, DeclareEvent(@.app[a])), j)]
  /\ UNCHANGED <<chan, alive, held, losses, crashes>>

Withdrawn(p, a) == [p EXCEPT !.app[a] = WithdrawStep(@, FALSE)]

\* mrp_withdraw_*: the application stops declaring it.
Withdraw(n, a) ==
  /\ alive[n] /\ a \in decl[n] /\ changes < MaxChange
  /\ changes' = changes + 1
  /\ decl' = [decl EXCEPT ![n] = @ \ {a}]
  /\ \E j \in 0..JoinMax :
       port' = [port EXCEPT ![n] = Arm(Withdrawn(@, a), j)]
  /\ held' = [held EXCEPT ![n][a] = 0]
  /\ UNCHANGED <<chan, alive, losses, crashes>>

(***************************************************************************)
(* The environment: the link loses an MRPDU, a node loses power and comes  *)
(* back with an empty table, time passes.                                  *)
(***************************************************************************)
Lose(n) ==
  /\ chan[n] # <<>> /\ losses < MaxLoss
  /\ chan' = [chan EXCEPT ![n] = Tail(@)]
  /\ losses' = losses + 1
  /\ UNCHANGED <<port, decl, alive, held, crashes, changes>>

Crash(n) ==
  /\ alive[n] /\ crashes < MaxCrash
  /\ crashes' = crashes + 1
  /\ alive' = [alive EXCEPT ![n] = FALSE]
  /\ decl' = [decl EXCEPT ![n] = {}]
  /\ held' = [held EXCEPT ![n] = [a \in Attr |-> 0]]
  /\ port' = [port EXCEPT ![n] = PortInit(@.role, LeaveAllMin, PeriodicTime)]
  /\ UNCHANGED <<chan, losses, changes>>

\* mrp_port_init of the next boot.
Restart(n) ==
  /\ ~alive[n]
  /\ alive' = [alive EXCEPT ![n] = TRUE]
  /\ \E la \in LeaveAllMin..LeaveAllMax :
       port' = [port EXCEPT ![n] = PortInit(@.role, la, PeriodicTime)]
  /\ UNCHANGED <<decl, chan, held, losses, crashes, changes>>

Down(t) == IF t > 0 THEN t - 1 ELSE t

Aged(p) == [p EXCEPT !.leave = [a \in Attr |-> Down(p.leave[a])],
                     !.join = Down(@), !.leaveAll = Down(@), !.periodic = Down(@)]

Quiet == \A n \in Node : chan[n] = <<>> /\ ~(alive[n] /\ Due(port[n]))

Pass ==
  /\ Quiet
  /\ port' = [n \in Node |-> IF alive[n] THEN Aged(port[n]) ELSE port[n]]
  /\ held' = [n \in Node |-> [a \in Attr |->
                IF a \in decl[n] /\ held[n][a] <= JoinMax
                THEN held[n][a] + 1 ELSE held[n][a]]]
  /\ UNCHANGED <<decl, chan, alive, losses, crashes, changes>>

LinkNext ==
  \/ Pass
  \/ \E n \in Node :
       \/ PortTick(n) \/ Receive(n) \/ Lose(n) \/ Crash(n) \/ Restart(n)
       \/ \E a \in Attr : Declare(n, a) \/ Withdraw(n, a)

LinkSpec == LinkInit /\ [][LinkNext]_linkVars

\* The main loop keeps polling, the link delivers what it does not lose and
\* time goes on; nobody is obliged to declare, withdraw, crash or restart.
LinkFairSpec ==
  /\ LinkSpec
  /\ WF_linkVars(Pass)
  /\ \A n \in Node : WF_linkVars(PortTick(n)) /\ WF_linkVars(Receive(n))

-----------------------------------------------------------------------------
\* The state is well formed, timers lie in their ranges, and the LeaveTimer
\* of an attribute runs exactly while its Registrar is in LV
\* (mrp_registrar_step, mrp_port_tick).
LinkTypeOK ==
  /\ port \in [Node -> PortState] /\ decl \in [Node -> SUBSET Attr]
  /\ chan \in [Node -> Seq(Mrpdu)] /\ alive \in [Node -> BOOLEAN]
  /\ held \in [Node -> [Attr -> 0..JoinMax + 1]]
  /\ losses \in 0..MaxLoss /\ crashes \in 0..MaxCrash /\ changes \in 0..MaxChange
  /\ \A n \in Node : \A a \in Attr :
       (port[n].leave[a] # Off) <=> (port[n].reg[a] = "LV")

\* On a link that loses nothing, a declaration that has stood for JoinTime
\* is registered at the peer and stays registered through every LeaveAll of
\* either side: the re-declaration comes inside the LeaveTimer
\* (mrp_rx_msrp, the comment on the JoinTimer at the LeaveAll).
StandingIsRegistered ==
  \A n \in Node : \A a \in Attr :
    held[n][a] > JoinMax => port[Peer(n)].reg[a] # "MT"

\* Finitely many losses and reboots: what a node declares for ever is, from
\* some point on, never missing at a live peer (periodic re-declaration of
\* mrp_port_dispatch_periodic, LeaveAll of mrp_port_tick).
DeclaredConverges ==
  \A n \in Node : \A a \in Attr :
    <>[](a \in decl[n] /\ alive[n] /\ alive[Peer(n)])
      => <>[](port[Peer(n)].reg[a] # "MT")

\* A station drops in the end every registration whose declarant withdrew it,
\* lost the Lv or went silent: its own LeaveAll steps its Registrars
\* (mrp_station_self_leaveall).
StationAgesOut ==
  \A n \in Node : \A a \in Attr :
    port[Peer(n)].role = "sta" /\ <>[](a \notin decl[n] /\ alive[Peer(n)])
      => <>[](port[Peer(n)].reg[a] = "MT")
=============================================================================
