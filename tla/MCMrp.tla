------------------------------- MODULE MCMrp -------------------------------
(* The two protocols of src/mrp.c: Maap for three streams of two stations,  *)
(* and MrpLink with three attributes on a link that loses nothing.  They    *)
(* share no state, so a behaviour has one or the other.                     *)
EXTENDS Maap, MrpLink

\* The second stream of a starts from the address of the stream of b.
MCStreams == [st \in Station |-> IF st = "a" THEN 2 ELSE 1]
MCSeed    == [st \in Station |-> IF st = "a" THEN 0 ELSE 1]

\* n1 declares two attributes, n2 one, in each pair of ports that the code can
\* be connected by; only the distance of the two PeriodicTimers matters.
MCNodes == {"n1", "n2"}
MCAttrs == <<"a1", "a2", "a3">>
MCOwns  == [n \in MCNodes |-> IF n = "n1" THEN {"a1", "a2"} ELSE {"a3"}]
Pair(r1, r2) == [n \in MCNodes |-> IF n = "n1" THEN r1 ELSE r2]
MCEach  == {Pair("ap", "sta"), Pair("wired", "switch")}
MCPhase == [n \in MCNodes |-> IF n = "n1" THEN 1..PeriodicTime ELSE {PeriodicTime}]

MCInit == MaapInit /\ LinkInit
MCNext ==
  \/ LinkNext /\ on = {} /\ offs = 0 /\ UNCHANGED maapVars
  \/ /\ MaapNext /\ UNCHANGED linkVars
     /\ port = [n \in Node |->
          PortInit(Pair("ap", "sta")[n], LeaveAllMin, PeriodicTime)]
     /\ changes = 0 /\ held = [n \in Node |-> [a \in Attr |-> 0]]

MCSpec == MCInit /\ [][MCNext]_<<maapVars, linkVars>>
=============================================================================
