------------------------------- MODULE MCPacer -------------------------------
(* A small instance of Pacer and BridgeRx.  Streams and control share no     *)
(* state, so a behaviour has one or the other.                               *)
EXTENDS BridgeRx

MCInterval == [s \in Stream |-> IF s = "a" THEN 2 ELSE 3]

Message(type, from, to) ==
  [type |-> type, of |-> [talker |-> from, listener |-> to,
                          controller |-> "c"]]
MCMsg == {Message("connect_rx_command", "e", "f"),
          Message("connect_tx_response", "e", "f")}

MCNext == \/ Streams /\ table = [i \in Slot |-> FreeSlot] /\ air = {}
                 /\ tries = [m \in Msg |-> FirstTry]
          \/ Control /\ \A s \in Stream : talker[s] = [sent |-> 0, tspec |-> 0]

MCSpec == AllInit /\ [][MCNext]_allVars /\ Fairness
=============================================================================
