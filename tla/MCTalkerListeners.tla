------------------------- MODULE MCTalkerListeners -------------------------
(* Small instances of TalkerListeners: two listeners, each attached to the *)
(* talker or both behind a bridge.                                         *)
EXTENDS TalkerListeners

MCMacOf == [l \in {"l1", "l2"} |-> IF l = "l1" THEN "m1" ELSE "m2"]
MCBridged == [l \in {"l1", "l2"} |-> "bridge"]

Setting(m, o, at) == [milan |-> m, observers |-> o, sourceOf |-> at]

\* Every mode and attachment; observers with one of each.
MCSettings ==
  {Setting(m, FALSE, at) : m \in BOOLEAN, at \in {MCMacOf, MCBridged}}
    \cup {Setting(FALSE, TRUE, MCMacOf), Setting(TRUE, TRUE, MCBridged)}
=============================================================================
