----------------------------- MODULE TalkerMap -----------------------------
(***************************************************************************)
(* The MSRP talker side of the two-port bridge of src/mrp.c: the Talker    *)
(* Advertise and Talker Failed entries of each port with their Applicant   *)
(* and Registrar, the MAP that declares a stream registered on one port    *)
(* on the other, the bandwidth admission it asks for, and the hold-off of  *)
(* a changed value.  Both ports are bridged and the MAP admits where it    *)
(* propagates: a wired port, or a Wi-Fi one in a build without             *)
(* ESP_AVB_WIFI_UNICAST_STREAMS.                                           *)
(*                                                                         *)
(* A FirstValue is abstracted to the class and bandwidth of its TSpec; the *)
(* rest of it is the same for a stream wherever it is declared.  Timers    *)
(* are untimed: a running timer may fire at any moment.                    *)
(***************************************************************************)
EXTENDS MrpSM, Bandwidth

CONSTANTS
  Port,        \* the two bridged ports
  Wifi,        \* those of them that are Wi-Fi
  Home,        \* Home[s]: the ports the talker of s may be attached to
  Rejoins      \* may a talker answer a LeaveAll with another value

Type == {"adv", "fail"}

ASSUME MapAssumption ==
  /\ \E x, y \in Port : x # y /\ Port = {x, y}
  /\ Wifi \subseteq Port
  /\ Home \in [Stream -> SUBSET Port]
  /\ Rejoins \in BOOLEAN

Key == Port \X Stream \X Type

Other(p) == CHOOSE y \in Port : y # p
Twin(t)  == IF t = "adv" THEN "fail" ELSE "adv"

VARIABLE b

\* One attribute entry per key (an entry never inserted behaves as one in
\* VO and MT), one admission account per port and class.
Bridge ==
  [app    : [Key -> ApplicantState],      \* sm.applicant
   reg    : [Key -> RegistrarState],      \* sm.registrar
   timer  : SUBSET Key,                   \* sm.leave_timer_us # 0
   val    : [Key -> Value0],              \* wire, NoValue in a fresh slot
   origin : SUBSET Key,                   \* locally_originated
   prop   : [Key -> Value0],              \* last_propagated_*
   hold   : [Port \X Stream -> {"none", "quiet", "held"}],
                                          \* redeclare_after_us, declare_held
   acct   : [Port -> Account]]            \* s_admission[], and what the
                                          \* entries of the other port record

Init ==
  \E cap \in [Port -> CapChoice] :
    b = [app |-> [k \in Key |-> "VO"], reg |-> [k \in Key |-> "MT"],
         timer |-> {}, val |-> [k \in Key |-> NoValue], origin |-> {},
         prop |-> [k \in Key |-> NoValue],
         hold |-> [h \in Port \X Stream |-> "none"],
         acct |-> [p \in Port |-> EmptyAccount(cap[p])]]

(***************************************************************************)
(* Declaring and withdrawing a stream on port y.                           *)
(***************************************************************************)
Declared(m, k) ==
  [m EXCEPT !.app[k] = ApplicantStep(@, DeclareEvent(@)),
            !.origin = @ \cup {k}]

\* mrp_declare_talker_advertise.  A changed value resets the entry and, if
\* there was one before, quarantines the new one; `over' is what
\* mrp_value_change_holdoff_over finds of an earlier quarantine.
DeclareAdvertise(m, y, s, v, over) ==
  LET k == <<y, s, "adv">>
      h == <<y, s>>
      changed  == m.val[k] # v
      replaced == changed /\ m.val[k] # NoValue
      hold == IF replaced THEN "quiet" ELSE m.hold[h]
      n == IF ~changed THEN m
           ELSE [m EXCEPT !.app[k] = "VO", !.reg[k] = "MT",
                          !.timer = @ \ {k}, !.val[k] = v]
  IN  IF hold # "none" /\ (replaced \/ ~over)
      THEN [n EXCEPT !.hold[h] = "held", !.origin = @ \cup {k}]
      ELSE Declared([n EXCEPT !.hold[h] = "none"], k)

\* mrp_declare_talker_failed.
DeclareFailed(m, y, s, v) ==
  LET k == <<y, s, "fail">> IN Declared([m EXCEPT !.val[k] = v], k)

\* mrp_withdraw_talker: both forms, and a held declaration is cancelled.
WithdrawTalker(m, y, s) ==
  [m EXCEPT !.app[<<y, s, "adv">>]  = WithdrawStep(@, FALSE),
            !.app[<<y, s, "fail">>] = WithdrawStep(@, FALSE),
            !.hold[<<y, s>>] = IF @ = "held" THEN "quiet" ELSE @]

(***************************************************************************)
(* mrp_on_talker_registrar_change: what the MAP does on the other port     *)
(* about entry <<p, s, t>> with value v after transition tr.               *)
(***************************************************************************)
Changed(m, k, v) ==
  LET old == m.prop[k] IN
  old # NoValue /\ (old.cls # v.cls \/ (k[3] = "adv" /\ old.bps # v.bps))

\* The same with the result of the admission ignored.
PropagateRefused(m, p, s, t, v, over) ==
  LET y == Other(p)
      a == [m EXCEPT !.acct[y] = IF y \in Wifi /\ v.cls = "A" THEN Release(@, s)
                                 ELSE Update(@, s, v)]
  IN  IF t = "fail" THEN DeclareFailed(m, y, s, v)
      ELSE DeclareAdvertise(a, y, s, v, over)

\* The declaration the other port gets for a stream registered here.
Propagate(m, p, s, t, v, over) ==
  LET y == Other(p)
      a == [m EXCEPT !.acct[y] = IF y \in Wifi /\ v.cls = "A" THEN Release(@, s)
                                 ELSE Update(@, s, v)]
  IN  IF t = "fail" THEN DeclareFailed(m, y, s, v)
      ELSE IF a.acct[y].entry[s] = v THEN DeclareAdvertise(a, y, s, v, over)
      ELSE DeclareFailed(a, y, s, v)

\* The same without a release where the registration ends.
OnTalkerChangeLeaks(m, p, s, t, v, tr, over) ==
  LET k == <<p, s, t>>
      y == Other(p)
      changed  == tr = "none" /\ Changed(m, k, v)
      withdraw == tr = "deregister" \/ changed
      m2 == IF withdraw THEN WithdrawTalker(m, y, s) ELSE m
  IN  IF tr = "register" \/ changed
      THEN [Propagate(m2, p, s, t, v, over) EXCEPT !.prop[k] = v]
      ELSE IF withdraw THEN [m2 EXCEPT !.prop[k] = NoValue] ELSE m2

OnTalkerChange(m, p, s, t, v, tr, over) ==
  LET k == <<p, s, t>>
      y == Other(p)
      changed  == tr = "none" /\ Changed(m, k, v)
      withdraw == tr = "deregister" \/ changed
      release  == withdraw /\ m.prop[k] # NoValue /\ t = "adv"
      m1 == IF release THEN [m EXCEPT !.acct[y] = Release(@, s)] ELSE m
      m2 == IF withdraw THEN WithdrawTalker(m1, y, s) ELSE m1
  IN  IF tr = "register" \/ changed
      THEN [Propagate(m2, p, s, t, v, over) EXCEPT !.prop[k] = v]
      ELSE IF withdraw THEN [m2 EXCEPT !.prop[k] = NoValue] ELSE m2

(***************************************************************************)
(* Events from the peers.                                                  *)
(***************************************************************************)
\* A Registrar step with its LeaveTimer.
RegStep(m, k, ev) ==
  [m EXCEPT !.reg[k] = RegistrarStep(@, ev),
            !.timer = IF ev \in {"rLv", "rLA"} /\ m.reg[k] # "MT" THEN @ \cup {k}
                      ELSE IF RegistrarStep(m.reg[k], ev) = "IN" THEN @ \ {k}
                      ELSE @]

SmStep(m, k, ev) == RegStep([m EXCEPT !.app[k] = ApplicantStep(@, ev)], k, ev)

\* msrp_rx_talker_attr up to the twin: the value, then both state machines.
Registered(m, k, v, ev) ==
  SmStep([m EXCEPT !.val[k] = IF k \in m.origin THEN @ ELSE v], k, ev)

\* The same with the displaced Registrar left as it is.
DisplaceTwinStays(m, p, s, t) ==
  LET k == <<p, s, Twin(t)>> IN
  IF m.reg[<<p, s, t>>] = "MT" \/ m.reg[k] = "MT" THEN m
  ELSE OnTalkerChange(m, p, s, Twin(t), m.val[k], "deregister", TRUE)

\* Registering one form displaces a registration of the other.  The LeaveTimer
\* of the displaced entry is left as it is.
DisplaceTwin(m, p, s, t) ==
  LET k == <<p, s, Twin(t)>> IN
  IF m.reg[<<p, s, t>>] = "MT" \/ m.reg[k] = "MT" THEN m
  ELSE [OnTalkerChange(m, p, s, Twin(t), m.val[k], "deregister", TRUE)
          EXCEPT !.reg[k] = "MT"]

\* What mrp_value_change_holdoff_over may find where there is a hold-off.
Over(p, s) == IF b.hold[<<Other(p), s>>] = "none" THEN {TRUE} ELSE BOOLEAN

\* mrp_rx_msrp for one talker attribute value.  Only a talker that Rejoins
\* brings another value where a LeaveAll left its registration.
RxTalker(p, s, t, v, ev) ==
  LET k == <<p, s, t>>
      m == Registered(b, k, v, ev)
  IN  /\ p \in Home[s]
      /\ Rejoins \/ b.reg[k] # "LV" \/ b.prop[k] \in {NoValue, v}
      /\ \E over \in Over(p, s) :
           b' = OnTalkerChange(DisplaceTwin(m, p, s, t), p, s, t, v,
                               RegTransition(b.reg[k], m.reg[k]), over)

\* msrp_dispatch_leaveall: every entry of one type on the port.
RxLeaveAll(p, t) ==
  LET S == {k \in Key : k[1] = p /\ k[3] = t} IN
  b' = [b EXCEPT
          !.app = [k \in Key |-> IF k \in S THEN ApplicantStep(b.app[k], "rLA")
                                            ELSE b.app[k]],
          !.reg = [k \in Key |-> IF k \in S THEN RegistrarStep(b.reg[k], "rLA")
                                            ELSE b.reg[k]],
          !.timer = @ \cup {k \in S : b.reg[k] # "MT"}]

(***************************************************************************)
(* Timers of a port, the branches of mrp_port_tick.                        *)
(***************************************************************************)
\* The LeaveTimer of an entry, surfaced to the MAP as a deregistration.
LeaveTimer(p, s, t) ==
  LET k == <<p, s, t>>
      m == [b EXCEPT !.reg[k] = "MT", !.timer = @ \ {k}]
  IN  /\ k \in b.timer /\ b.reg[k] = "LV"
      /\ b' = OnTalkerChange(m, p, s, t, b.val[k], "deregister", TRUE)

\* mrp_talker_release_held: the quarantine of a held declaration is over.
ReleaseHeld(p, s) ==
  /\ b.hold[<<p, s>>] = "held"
  /\ b' = Declared([b EXCEPT !.hold[<<p, s>>] = "none"], <<p, s, "adv">>)

StepAll(p, ev) ==
  b' = [b EXCEPT !.app = [k \in Key |-> IF k[1] = p THEN ApplicantStep(b.app[k], ev)
                                                    ELSE b.app[k]]]

\* The flush of the JoinTimer, with or without our own LeaveAll.
JoinTimer(p) == \E ev \in TxEvent : StepAll(p, ev)

PeriodicTimer(p) == StepAll(p, "periodic")

\* avb_srp_admission_set_link_speed, when the link comes up at another rate.
SetLinkSpeed(p) == \E c \in CapChoice : b' = [b EXCEPT !.acct[p].cap = c]

Next ==
  \E p \in Port :
    \/ \E s \in Stream : \E t \in Type :
         \/ \E v \in Value : \E ev \in WireEvent : RxTalker(p, s, t, v, ev)
         \/ LeaveTimer(p, s, t)
    \/ \E t \in Type : RxLeaveAll(p, t)
    \/ \E s \in Stream : ReleaseHeld(p, s)
    \/ JoinTimer(p)
    \/ PeriodicTimer(p)
    \/ SetLinkSpeed(p)

Spec == Init /\ [][Next]_b

-----------------------------------------------------------------------------
Declaring(k) == b.app[k] \in {"VP", "VN", "AN", "AA", "QA", "AP", "QP"}

\* The state is well formed (the entry and account types of mrp.c).
TypeOK == b \in Bridge

\* Talker Advertise and Talker Failed are alternate declarations: of one
\* stream, one port never holds a registration of both
\* (msrp_rx_talker_attr, the displaced twin).
TwinExclusive ==
  \A p \in Port : \A s \in Stream :
    b.reg[<<p, s, "adv">>] = "MT" \/ b.reg[<<p, s, "fail">>] = "MT"

\* The reservations of each port change as Admission says, whatever the
\* talkers and the timers do: one event makes, replaces or releases at most one,
\* and the running total decides as the sum of what is held would
\* (mrp_on_talker_registrar_change and its callers, msrp_update_admission).
PortAccount(y) ==
  INSTANCE Admission WITH held <- b.acct[y].entry, cap <- b.acct[y].cap

ImplementsAdmission ==
  /\ \A y \in Port : PortAccount(y)!Init
  /\ [][\A y \in Port : b.acct'[y] = b.acct[y] \/ PortAccount(y)!Next]_b

\* A reservation lives no longer than the registration it was made for, so
\* that no bandwidth stays taken for a talker that is gone
\* (mrp_on_talker_registrar_change, mrp_port_dispatch_leave_timers).
AdmittedIsRegistered ==
  \A y \in Port : \A s \in Stream :
    b.acct[y].entry[s] # NoValue => b.reg[<<Other(y), s, "adv">>] # "MT"

\* The bridge declares a Talker Advertise only with the bandwidth of the very
\* value it declares reserved on that port.
AdvertiseIsReserved ==
  \A y \in Port : \A s \in Stream :
    Declaring(<<y, s, "adv">>)
      => b.acct[y].entry[s] = b.val[<<y, s, "adv">>]
=============================================================================
