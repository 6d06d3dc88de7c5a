----------------------------- MODULE MCWifiPort -----------------------------
(* A small instance of WifiPort: two streams of class B that do not fit    *)
(* beside each other, one of which may change its class.  Their addresses  *)
(* share the octet the table is indexed by.                                *)
EXTENDS WifiPort

Large == [cls |-> "B", frames |-> 2, bps |-> 1]
Fast  == [cls |-> "A", frames |-> 1, bps |-> 1]

MCValue == {Large, Fast}
MCOffers == [s \in Stream |-> IF s = "s" THEN MCValue ELSE {Large}]
MCSays == [s \in Stream |-> IF s = "s" THEN {"asking", "ready"} ELSE {"ready"}]
MCHears == [s \in Stream |-> IF s = "s" THEN "p" ELSE "q"]
MCOctet == [s \in Stream |-> 1]
=============================================================================
