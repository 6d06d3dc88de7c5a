------------------------------ MODULE WifiPort ------------------------------
(***************************************************************************)
(* The bridge toward its stations (src/mrp.c, src/avbnet.c): the listeners *)
(* registered on the Wi-Fi port and what is declared for them upstream,    *)
(* the admission by frames per second that may refuse them a stream, and   *)
(* the table that tells which station a stream is addressed to on the air. *)
(* The AVB task writes that table and the receive callback of the wire     *)
(* reads it, without a lock.                                               *)
(*                                                                         *)
(* Talkers are on the wire, listeners on the air; a stream keeps its       *)
(* destination address, which is told from others by its stream.  What the *)
(* talker's side of the MAP does otherwise, and the hold-off of a changed  *)
(* value, is in TalkerMap.  Timers are untimed.                            *)
(***************************************************************************)
EXTENDS MrpSM, SequencesExt, FiniteSetsExt

CONSTANTS
  Stream, None,
  Value,        \* TSpecs: class, frames a second and bits a second
  Offers,       \* Offers[s]: those the talker of s may declare
  Steady,       \* streams whose talker answers each LeaveAll at once
  Hears,        \* Hears[s]: the station that listens to s
  Says,         \* Says[s]: the declarations it sends for s
  AllowA,       \* msrp_wifi_class_a_allowed
  Budget, Cap,  \* frames and bits a second the port may carry
  Size,         \* MSRP_LISTENER_TABLE_SIZE, the size of all three tables
  Octet         \* the last octet of each stream's address

ASSUME WifiPortAssumption ==
  /\ IsFiniteSet(Stream) /\ None \notin Stream /\ None \notin Value
  /\ None \notin {"asking", "ready", "readyFailed"}
  /\ Value \subseteq [cls : {"A", "B"}, frames : Nat, bps : Nat]
  /\ Offers \in [Stream -> SUBSET Value]
  /\ Steady \subseteq Stream
  /\ Says \in [Stream -> SUBSET {"asking", "ready", "readyFailed"}]
  /\ AllowA \in BOOLEAN /\ Budget \in Nat /\ Cap \in Nat
  /\ Size \in Nat /\ Size >= Cardinality(Stream)

VARIABLES
  talker,     \* the Talker Advertise of each stream, registered on the wire
  ours,       \* the forms of it declared toward the stations
  rows,       \* the Listener entries of the Wi-Fi port, in table order
  listener,   \* what each holds: Registrar and declaration of the peer
  up,         \* our Listener declaration on the wire: Applicant and type
  adm,        \* s_wifi_admission
  tbl,        \* s_ucast and s_ucast_idx
  task,       \* where the AVB task is in a handler
  look        \* a lookup of the receive callback

vars == <<talker, ours, rows, listener, up, adm, tbl, task, look>>

Slot == 1..Size
Free == [stream |-> None, wanted |-> FALSE, refused |-> FALSE,
         told |-> FALSE, frames |-> 0, bps |-> 0]   \* told: refusal_declared
Empty == [valid |-> FALSE, da |-> None, sta |-> None]
Idle == [at |-> "idle"]
Off == [at |-> "off"]

Init ==
  /\ talker = [s \in Stream |-> [reg |-> "MT", val |-> None, prop |-> None]]
  /\ ours = [s \in Stream |-> [adv |-> None, fail |-> None]]
  /\ rows = << >>
  /\ listener = [s \in Stream |-> [reg |-> "MT", decl |-> "asking"]]
  /\ up = [s \in Stream |-> [app |-> "VO", decl |-> "asking"]]
  /\ adm = [i \in Slot |-> Free]
  /\ tbl = [entry |-> [i \in Slot |-> Empty],
            index |-> [o \in {Octet[s] : s \in Stream} |-> 0]]
  /\ task = Idle /\ look = Off

-----------------------------------------------------------------------------
(* What a stream is declared as. *)

\* msrp_wifi_admission_refused.
Refused(a, s) == \E i \in Slot : a[i].stream = s /\ a[i].refused

Allowed(v) == v.cls = "B" \/ AllowA

\* mrp_withdraw_talker.
Withdrawn == [adv |-> None, fail |-> None]

\* The same without the refusal.
FormAsAsked(o, v, refused) ==
  IF ~Allowed(v) THEN [o EXCEPT !.fail = v] ELSE [o EXCEPT !.adv = v]

\* The other form is not withdrawn here.
Form(o, v, refused) ==
  IF ~Allowed(v) \/ refused THEN [o EXCEPT !.fail = v] ELSE [o EXCEPT !.adv = v]

\* mrp_on_talker_registrar_change toward the Wi-Fi port.
OnTalkerChange(s, v, tr) ==
  LET p == talker[s].prop
      changed == tr = "none" /\ p # None /\ p # v
      o == IF tr = "deregister" \/ changed THEN Withdrawn ELSE ours[s]
  IN  IF tr = "register" \/ changed
      THEN [ours |-> Form(o, v, Refused(adm, s)), prop |-> v]
      ELSE [ours |-> o, prop |-> IF tr = "deregister" THEN None ELSE p]

\* msrp_merge_listener_decls for the wire: there is one other port.
Merged(a, s, row) ==
  IF row.reg # "IN" THEN None
  ELSE IF Refused(a, s) THEN "asking" ELSE row.decl

\* mrp_declare_listener: another type goes out as New.
Declared(u, d) ==
  LET ev == IF u.decl # d THEN "new" ELSE DeclareEvent(u.app)
  IN  [app |-> ApplicantStep(u.app, ev), decl |-> d]

\* The same without a look at the type.
PropagatedAtEdge(u, a, s, row) ==
  LET merged == Merged(a, s, row) IN
  CASE merged = None /\ u.app # "VO" ->
         [u EXCEPT !.app = WithdrawStep(@, FALSE)]
    [] merged # None /\ u.app = "VO" -> Declared(u, merged)
    [] OTHER -> u

\* msrp_propagate_listener: a Listener declaration that changed.
Propagated(u, a, s, row) ==
  LET merged == Merged(a, s, row)
      declaring == u.app # "VO"
  IN  CASE merged = None /\ declaring ->
             [u EXCEPT !.app = WithdrawStep(@, FALSE)]
        [] merged # None /\ (~declaring \/ u.decl # merged) ->
             Declared(u, merged)
        [] OTHER -> u

-----------------------------------------------------------------------------
(* What the AVB task receives and what its timers do.  It refreshes the    *)
(* table and the admission after a Talker or Listener attribute.           *)

Refreshing(admit) == [at |-> "refresh", admit |-> admit]

\* A talker keeps its value until its registration ends or it declares anew.
RxTalker(s, v, ev) ==
  LET t == talker[s]
      reg == RegistrarStep(t.reg, ev)
      c == OnTalkerChange(s, v, RegTransition(t.reg, reg))
  IN  /\ task = Idle /\ v \in Offers[s]
      /\ ev = "rLv" => s \notin Steady
      /\ t.reg = "LV" /\ t.prop # None => v = t.prop
      /\ ev = "rLv" => v = t.val
      /\ talker' = [talker EXCEPT ![s] = [reg |-> reg, val |-> v,
                                          prop |-> c.prop]]
      /\ ours' = [ours EXCEPT ![s] = c.ours]
      /\ task' = Refreshing(TRUE)
      /\ UNCHANGED <<rows, listener, up, adm, tbl, look>>

\* msrp_rx_listener_attr and mrp_on_listener_registrar_change: the MAP runs at
\* an edge of the Registrar or when the type of the declaration changed.
RxListener(s, d, ev) ==
  LET r == listener[s]
      n == [reg |-> RegistrarStep(r.reg, ev), decl |-> d]
      known == \E i \in DOMAIN rows : rows[i] = s
      edge == RegTransition(r.reg, n.reg) # "none"
  IN  /\ task = Idle
      /\ ev = "rLv" => known /\ d = r.decl
      /\ rows' = IF known THEN rows ELSE Append(rows, s)
      /\ listener' = [listener EXCEPT ![s] = n]
      /\ up' = IF edge \/ ~known \/ d # r.decl
               THEN [up EXCEPT ![s] = Propagated(@, adm, s, n)] ELSE up
      /\ task' = Refreshing(TRUE)
      /\ UNCHANGED <<talker, ours, adm, tbl, look>>

\* A LeaveAll comes without values.  What our own declarations upstream answer
\* to one is in MrpLink.
RxTalkerLeaveAll ==
  /\ task = Idle
  /\ talker' = [s \in Stream |->
       IF s \in Steady THEN talker[s]
       ELSE [talker[s] EXCEPT !.reg = RegistrarStep(@, "rLA")]]
  /\ UNCHANGED <<ours, rows, listener, up, adm, tbl, task, look>>

RxListenerLeaveAll ==
  /\ task = Idle
  /\ listener' =
       [s \in Stream |-> [listener[s] EXCEPT !.reg = RegistrarStep(@, "rLA")]]
  /\ UNCHANGED <<talker, ours, rows, up, adm, tbl, task, look>>

\* mrp_port_dispatch_leave_timers, for a talker and for a listener.  The table
\* and the admission wait for the next attribute.
TalkerLeaves(s) ==
  /\ task = Idle /\ talker[s].reg = "LV"
  /\ LET c == OnTalkerChange(s, talker[s].val, "deregister") IN
     /\ talker' = [talker EXCEPT ![s].reg = "MT", ![s].prop = c.prop]
     /\ ours' = [ours EXCEPT ![s] = c.ours]
  /\ UNCHANGED <<rows, listener, up, adm, tbl, task, look>>

ListenerLeaves(s) ==
  /\ task = Idle /\ listener[s].reg = "LV"
  /\ listener' = [listener EXCEPT ![s].reg = "MT"]
  /\ up' = [up EXCEPT ![s] = Propagated(@, adm, s, listener'[s])]
  /\ UNCHANGED <<talker, ours, rows, adm, tbl, task, look>>

\* The JoinTimer of the wire, until it has nothing left to send.
Sent(app) == ApplicantStep(ApplicantStep(ApplicantStep(app, "tx"), "tx"), "tx")

JoinTimer ==
  /\ task = Idle
  /\ up' = [s \in Stream |-> [up[s] EXCEPT !.app = Sent(@)]]
  /\ UNCHANGED <<talker, ours, rows, listener, adm, tbl, task, look>>

-----------------------------------------------------------------------------
(* msrp_wifi_admission_update. *)

Talking(s) == talker[s].reg \in {"IN", "LV"}   \* mrp_talker_advertise_active

\* The streams listener stations declare for.
Wanted(s) ==
  /\ \E i \in DOMAIN rows : rows[i] = s
  /\ listener[s].reg \in {"IN", "LV"}
  /\ Talking(s) /\ Allowed(talker[s].val)

\* Those that have no slot yet get one, in table order.
Asked(a, s) ==
  LET own == {i \in Slot : a[i].stream = s}
      spare == {i \in Slot : a[i].stream = None}
      asks(slot) == [slot EXCEPT !.wanted = TRUE, !.stream = s,
                                 !.frames = talker[s].val.frames,
                                 !.bps = talker[s].val.bps]
  IN  IF ~Wanted(s) THEN a
      ELSE IF own # {} THEN [a EXCEPT ![Min(own)] = asks(@)]
      ELSE IF spare # {}
      THEN [a EXCEPT ![Min(spare)] = asks([Free EXCEPT !.refused = TRUE])]
      ELSE a

Claims ==
  FoldLeft(Asked, [i \in Slot |-> [adm[i] EXCEPT !.wanted = FALSE]], rows)

Admitted(a) == {i \in Slot : a[i].stream # None /\ a[i].wanted /\ ~a[i].refused}

\* The same with a sum that is taken once.
FitsOnce(a, i) ==
  LET before == Admitted(adm) IN
  /\ MapThenSumSet(LAMBDA j : a[j].frames, before) + a[i].frames <= Budget
  /\ MapThenSumSet(LAMBDA j : a[j].bps, before) + a[i].bps <= Cap

Fits(a, i) ==
  /\ MapThenSumSet(LAMBDA j : a[j].frames, Admitted(a)) + a[i].frames <= Budget
  /\ MapThenSumSet(LAMBDA j : a[j].bps, Admitted(a)) + a[i].bps <= Cap

\* msrp_wifi_admission_declare.
Redeclared(s, refused) ==
  IF refused THEN [Withdrawn EXCEPT !.fail = talker[s].val]
  ELSE [Withdrawn EXCEPT !.adv = talker[s].val]

\* What the update does about one slot: release it, admit it or refuse it.
Decide(x, i) ==
  LET slot == x.adm[i]
      s == slot.stream
      propagated(a) == [x.up EXCEPT ![s] = Propagated(@, a, s, listener[s])]
  IN  IF s = None THEN x
      ELSE IF ~slot.wanted
      THEN [x EXCEPT !.adm[i] = Free,
                     !.ours[s] = IF slot.told /\ Talking(s)
                                 THEN Redeclared(s, FALSE) ELSE @]
      ELSE IF ~slot.refused THEN x
      ELSE IF Fits(x.adm, i)
      THEN LET a == [x.adm EXCEPT ![i].refused = FALSE, ![i].told = FALSE] IN
           [adm |-> a, up |-> propagated(a), decided |-> TRUE,
            ours |-> IF slot.told
                     THEN [x.ours EXCEPT ![s] = Redeclared(s, FALSE)]
                     ELSE x.ours]
      ELSE IF slot.told THEN x
      ELSE LET a == [x.adm EXCEPT ![i].told = TRUE] IN
           [adm |-> a, up |-> propagated(a), decided |-> TRUE,
            ours |-> [x.ours EXCEPT ![s] = Redeclared(s, TRUE)]]

Update ==
  /\ task.at = "admit"
  /\ LET x == FoldLeft(Decide, [adm |-> Claims, ours |-> ours, up |-> up,
                                decided |-> FALSE], [i \in Slot |-> i])
     IN  /\ adm' = x.adm /\ ours' = x.ours /\ up' = x.up
         /\ task' = IF x.decided THEN Refreshing(FALSE) ELSE Idle
  /\ UNCHANGED <<talker, rows, listener, tbl, look>>

-----------------------------------------------------------------------------
(* msrp_wifi_ucast_refresh, and the lookup it races. *)

\* msrp_wifi_ucast_build: which rows are served, and the table of them.
Serves(s) == /\ listener[s].decl \in {"ready", "readyFailed"}
             /\ ~Refused(adm, s) /\ talker[s].val # None

Serve(q, s) == IF Len(q) < Size /\ Serves(s) THEN Append(q, s) ELSE q

Served == FoldLeft(Serve, << >>, rows)

NextEntry(i) ==
  IF i \in DOMAIN Served
  THEN [valid |-> TRUE, da |-> Served[i], sta |-> Hears[Served[i]]] ELSE Empty

NextIndex ==
  [o \in DOMAIN tbl.index |->
     Max({0} \cup {i \in Slot \cap DOMAIN Served : Octet[Served[i]] = o})]

\* The entry after i to be written, then the index, then what follows.
After(i) ==
  LET left == {j \in Slot : j > i /\ tbl.entry[j] # NextEntry(j)} IN
  CASE left # {} -> [at |-> "off", i |-> Min(left), admit |-> task.admit]
    [] left = {} /\ tbl.index # NextIndex ->
         [at |-> "index", admit |-> task.admit]
    [] OTHER -> IF task.admit THEN [at |-> "admit"] ELSE Idle

Refresh ==
  /\ task.at = "refresh" /\ task' = After(0)
  /\ UNCHANGED <<talker, ours, rows, listener, up, adm, tbl, look>>

\* One field of an entry: a lookup that is at this entry may have read it.
Put(e) ==
  /\ tbl' = [tbl EXCEPT !.entry[task.i] = e]
  /\ look' = IF look.at # "off" /\ look.i = task.i
             THEN [look EXCEPT !.torn = TRUE] ELSE look
  /\ UNCHANGED <<talker, ours, rows, listener, up, adm>>

\* The same with the entry left valid.
InvalidateNot ==
  /\ task.at = "off" /\ Put(tbl.entry[task.i])
  /\ task' = [task EXCEPT !.at = "da"]

Invalidate ==
  /\ task.at = "off" /\ Put([tbl.entry[task.i] EXCEPT !.valid = FALSE])
  /\ task' = [task EXCEPT !.at = "da"]

WriteDa ==
  /\ task.at = "da"
  /\ Put([tbl.entry[task.i] EXCEPT !.da = NextEntry(task.i).da])
  /\ task' = [task EXCEPT !.at = "sta"]

WriteSta ==
  /\ task.at = "sta"
  /\ Put([tbl.entry[task.i] EXCEPT !.sta = NextEntry(task.i).sta])
  /\ task' = [task EXCEPT !.at = "valid"]

Validate ==
  /\ task.at = "valid" /\ Put(NextEntry(task.i))
  /\ task' = After(task.i)

\* A lookup is over before the handler is.
WriteIndex ==
  /\ task.at = "index" /\ look = Off
  /\ tbl' = [tbl EXCEPT !.index = NextIndex]
  /\ task' = IF task.admit THEN [at |-> "admit"] ELSE Idle
  /\ UNCHANGED <<talker, ours, rows, listener, up, adm, look>>

\* msrp_wifi_ucast_lookup_da for a frame of s, of a class that is not dropped.
\* Only a lookup that meets a refresh is told apart from one that does not.
Lookup(s) ==
  LET i == tbl.index[Octet[s]] IN
  /\ look = Off /\ task.at \in {"off", "da", "sta", "valid", "index"} /\ i # 0
  /\ talker[s].val # None /\ Allowed(talker[s].val)
  /\ look' = [at |-> "valid", s |-> s, i |-> i, torn |-> FALSE]
  /\ UNCHANGED <<talker, ours, rows, listener, up, adm, tbl, task>>

LookValid ==
  /\ look.at = "valid"
  /\ look' = IF tbl.entry[look.i].valid THEN [look EXCEPT !.at = "da"] ELSE Off
  /\ UNCHANGED <<talker, ours, rows, listener, up, adm, tbl, task>>

LookDa ==
  /\ look.at = "da"
  /\ look' = IF tbl.entry[look.i].da = look.s THEN [look EXCEPT !.at = "copy"]
             ELSE Off
  /\ UNCHANGED <<talker, ours, rows, listener, up, adm, tbl, task>>

\* The frame is addressed to what the entry holds by now.
Address ==
  /\ look.at = "copy" /\ look' = Off
  /\ UNCHANGED <<talker, ours, rows, listener, up, adm, tbl, task>>

-----------------------------------------------------------------------------
Next ==
  \/ \E s \in Stream :
       \/ \E ev \in {"rJoinIn", "rLv"} :
            \/ \E v \in Value : RxTalker(s, v, ev)
            \/ \E d \in Says[s] : RxListener(s, d, ev)
       \/ TalkerLeaves(s) \/ ListenerLeaves(s) \/ Lookup(s)
  \/ RxTalkerLeaveAll \/ RxListenerLeaveAll
  \/ JoinTimer \/ Update \/ Refresh
  \/ Invalidate \/ WriteDa \/ WriteSta \/ Validate \/ WriteIndex
  \/ LookValid \/ LookDa \/ Address

Spec == Init /\ [][Next]_vars

-----------------------------------------------------------------------------
Declaring(u) == u.app \in {"VP", "VN", "AN", "AA", "QA", "AP", "QP"}

AtRest == task = Idle

\* What is declared upstream is what the stations declare, a stream refused to
\* them as asking failed, and nothing once they are gone
\* (msrp_merge_listener_decls, msrp_propagate_listener,
\* msrp_wifi_admission_update).
UpstreamIsMerged ==
  AtRest => \A s \in Stream :
    /\ listener[s].reg = "MT" => ~Declaring(up[s])
    /\ listener[s].reg = "IN" /\ Declaring(up[s]) /\ Wanted(s) =>
         up[s].decl = Merged(adm, s, listener[s])

\* A stream is told its stations as Talker Failed exactly while it is refused,
\* and is addressed to its station exactly while it is admitted: each of the
\* three tables says the same (msrp_wifi_admission_update and its two callers).
RefusedEverywhere ==
  AtRest => \A i \in Slot : LET s == adm[i].stream IN
    (/\ s # None /\ adm[i].wanted
     /\ talker[s].reg = "IN" /\ Allowed(talker[s].val)) =>
      /\ (ours[s].fail # None) = adm[i].refused
      /\ (ours[s].adv # None) = ~adm[i].refused
      /\ listener[s].decl # "asking" =>
           (\E j \in Slot : tbl.entry[j].valid /\ tbl.entry[j].da = s)
             = ~adm[i].refused

\* Streams that are admitted together fit together, though a released one makes
\* room in the middle of the update and one admission leaves less for the next
\* (msrp_wifi_admission_update).
AdmittedFits ==
  [][ \A i \in Slot :
        adm'[i].wanted /\ ~adm'[i].refused /\ i \notin Admitted(adm) =>
          MapThenSumSet(LAMBDA j : adm'[j].frames, Admitted(adm)') <= Budget
    ]_adm

\* A frame whose entry is not rewritten under it goes to the station that
\* listens to its stream (msrp_wifi_ucast_lookup_da, msrp_wifi_ucast_refresh).
SentToListener ==
  look.at = "copy" /\ ~look.torn =>
    tbl.entry[look.i].sta = Hears[look.s]

\* "turns a collision into a miss, not a misdelivery" (mrp.c:2173): so does a
\* rewritten entry (the code breaks it: the address is read after the check).
NeverMisdelivered == look.at = "copy" => tbl.entry[look.i].sta = Hears[look.s]

\* "Class A goes toward the Wi-Fi port only where the access point delivers at
\* least 12000 frames a second" (mrp.c:950): it is no Talker Advertise there
\* (the code breaks it when it releases a refused stream that became class A).
ClassAOnlyIfAllowed ==
  \A s \in Stream : ours[s].adv # None => Allowed(ours[s].adv)

\* "Re-declare a stream's merged listener declaration on every bridged port
\* other than `port`, where it changed" (mrp.c:1500): once what is on its way
\* out is out, it is declared (the code breaks it: an Applicant in LA or LO is
\* taken for one that declares).
MergedIsDeclared ==
  AtRest => \A s \in Stream :
    listener[s].reg = "IN" /\ up[s].app \notin {"LA", "LO"} => Declaring(up[s])
=============================================================================
