------------------------------- MODULE MrpSM -------------------------------
(***************************************************************************)
(* The two MRP state machines of src/mrp.c as pure operators: the          *)
(* Applicant (IEEE 802.1Q Table 10-3 as this code writes it), the          *)
(* Registrar (Table 10-4) and the small helpers around them.  States and   *)
(* events carry the names of the mrp_applicant_*, mrp_registrar_* and      *)
(* mrp_event_* enumerators.  sm->pending_tx is set and consumed inside one *)
(* flush, so it is the result of TxAction and not a state.                 *)
(***************************************************************************)
EXTENDS Integers

ApplicantState ==
  {"VO", "VP", "VN", "AN", "AA", "QA", "LA", "AO", "QO", "AP", "QP", "LO"}

RegistrarState == {"IN", "LV", "MT"}

\* What a decoded 3pe component delivers (mrp_3pe_to_event).
WireEvent == {"rNew", "rJoinIn", "rIn", "rJoinMt", "rMt", "rLv"}

TxEvent == {"tx", "txLA"}

(***************************************************************************)
(* The Applicant: one row per event.  A state a row does not name stays.   *)
(***************************************************************************)
OnJoin(s) == CASE s \in {"VO", "LA", "LO"} -> "VP"
               [] s = "AO" -> "AP"
               [] s = "QO" -> "QP"
               [] OTHER    -> s

OnLv(s) == CASE s \in {"VO", "VN", "AN"} -> "LO"
             [] s \in {"AA", "QA"} -> "LA"
             [] s = "VP" -> "VO"
             [] s = "AP" -> "AO"
             [] s = "QP" -> "QO"
             [] OTHER    -> s

OnRJoinIn(s) == CASE s = "VO" -> "AO"
                  [] s = "VP" -> "AP"
                  [] s = "AA" -> "QA"
                  [] s = "AO" -> "QO"
                  [] s = "AP" -> "QP"
                  [] OTHER    -> s

OnRLeave(s) == CASE s \in {"VO", "AO", "QO"} -> "LO"
                 [] s \in {"AA", "QA", "AP", "QP"} -> "VP"
                 [] s = "AN" -> "VN"
                 [] s = "LO" -> "VO"
                 [] OTHER    -> s

OnTx(s, ev) == CASE s = "VP" -> "AA"
                 [] s = "VN" -> "AN"
                 [] s \in {"AN", "AA"} -> "QA"
                 [] s \in {"LA", "LO"} -> "VO"
                 [] s = "QA" /\ ev = "txLA" -> "AA"
                 [] OTHER    -> s

OnPeriodic(s) == CASE s = "QA" -> "AA"
                   [] s = "QO" -> "AO"
                   [] s = "QP" -> "AP"
                   [] OTHER    -> s

ApplicantStep(s, ev) ==
  CASE ev = "new"                 -> "VN"
    [] ev = "join"                -> OnJoin(s)
    [] ev = "lv"                  -> OnLv(s)
    [] ev = "rJoinIn"             -> OnRJoinIn(s)
    [] ev = "rIn"                 -> IF s = "AA" THEN "QA" ELSE s
    [] ev \in {"rJoinMt", "rMt"}  -> IF s = "QA" THEN "AA" ELSE s
    [] ev \in {"rLv", "rLA"}      -> OnRLeave(s)
    [] ev \in TxEvent             -> OnTx(s, ev)
    [] ev = "periodic"            -> OnPeriodic(s)
    [] OTHER                      -> s            \* rNew, leaveTimer

\* The send a tx! or txLA! causes in state s.
TxAction(s, ev) == CASE s \in {"VN", "AN"} -> "new"
                     [] s \in {"VP", "AA"} -> "join"
                     [] s = "QA" /\ ev = "txLA" -> "join"
                     [] s = "LA" -> "leave"
                     [] OTHER    -> "none"

\* The Registrar state after an event.  The LeaveTimer is off in IN and MT.
RegistrarStep(r, ev) ==
  CASE ev \in {"rNew", "rJoinIn", "rJoinMt", "rIn"} -> "IN"
    [] ev \in {"rLv", "rLA"} /\ r # "MT"            -> "LV"
    [] ev = "leaveTimer" /\ r = "LV"                -> "MT"
    [] OTHER                                        -> r

\* The 3pe value a send resolves to, as the event its receiver decodes.
Resolve3pe(action, r) == CASE action = "new"   -> "rNew"
                           [] action = "leave" -> "rLv"
                           [] action = "join" /\ r = "IN" -> "rJoinIn"
                           [] OTHER            -> "rJoinMt"

\* A first declaration is New!, a repeated one Join!.
DeclareEvent(s) == IF s \in {"VO", "AO", "QO", "LO"} THEN "new" ELSE "join"

\* A local withdrawal; AVB Lite turns a never acknowledged New into one Lv.
WithdrawStep(s, lite) ==
  IF lite /\ s \in {"VN", "AN"} THEN "LA" ELSE ApplicantStep(s, "lv")

\* The IN-centric edge the MAP callbacks are told of.
RegTransition(before, after) ==
  CASE before # "IN" /\ after = "IN" -> "register"
    [] before = "IN" /\ after # "IN" -> "deregister"
    [] OTHER                         -> "none"
=============================================================================
