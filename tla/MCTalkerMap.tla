---------------------------- MODULE MCTalkerMap ----------------------------
(* Small instances of TalkerMap: a talker whose values change in class and  *)
(* bandwidth or in bandwidth alone, against a cap of two or three.          *)
EXTENDS TalkerMap

A1 == [cls |-> "A", bps |-> 1]
B2 == [cls |-> "B", bps |-> 2]
B3 == [cls |-> "B", bps |-> 3]

MCValues == {A1, B2, B3}

\* Every talker on p1.
MCFixed == [s \in Stream |-> {"p1"}]

\* Nothing is declared on p1 then, so the rate of its link does not matter.
MCSteadyRate == b.acct["p1"].cap = 3

\* What the talkers of a behaviour may offer.
VARIABLE offered

MCNext ==
  /\ UNCHANGED offered
  /\ \E p \in Port :
       \/ \E s \in Stream, t \in Type :
            \/ \E v \in offered, ev \in WireEvent : RxTalker(p, s, t, v, ev)
            \/ LeaveTimer(p, s, t)
       \/ \E t \in Type : RxLeaveAll(p, t)
       \/ \E s \in Stream : ReleaseHeld(p, s)
       \/ JoinTimer(p) \/ PeriodicTimer(p) \/ SetLinkSpeed(p)

MCInit == Init /\ offered \in {{A1, B3}, {B2, B3}}

MCSpec == MCInit /\ [][MCNext]_<<b, offered>>
=============================================================================
