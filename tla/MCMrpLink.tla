----------------------------- MODULE MCMrpLink -----------------------------
(* A small instance of MrpLink: one attribute, declared by n1 (an access    *)
(* point) to n2 (a station).                                                *)
EXTENDS MrpLink

MCNodes   == {"n1", "n2"}
MCOne     == <<"a1">>
MCOwnsOne == [n \in MCNodes |-> IF n = "n1" THEN {"a1"} ELSE {}]
MCWifi    == {[n \in MCNodes |-> IF n = "n1" THEN "ap" ELSE "sta"]}

\* Only the distance of the two PeriodicTimers matters: n2's starts full.
MCPhase == [n \in MCNodes |-> IF n = "n1" THEN 1..PeriodicTime ELSE {PeriodicTime}]
=============================================================================
