----------------------------- MODULE Admission -----------------------------
(***************************************************************************)
(* What the bridge promises about the bandwidth of one egress port, said   *)
(* without an account: which streams hold bandwidth, and that a request is *)
(* granted exactly when it fits under the cap beside what the other        *)
(* streams of its class hold.  TalkerMap is shown to implement it, with    *)
(* the running totals of src/mrp.c in place of the sums.                   *)
(***************************************************************************)
EXTENDS Bandwidth, FiniteSetsExt

VARIABLES
  held,   \* held[s]: the request of s that was granted, NoValue if none
  cap

Init == cap \in CapChoice /\ held = [s \in Stream |-> NoValue]

\* What the streams other than s hold of class c.
Others(s, c) ==
  MapThenSumSet(LAMBDA r : held[r].bps,
                {r \in Stream \ {s} : held[r].cls = c})

\* A new request replaces the old one of its stream, granted or not.
Reserve(s, v) ==
  /\ held[s] # v
  /\ held' = [held EXCEPT ![s] =
                IF cap # 0 /\ Others(s, v.cls) + v.bps <= cap THEN v ELSE NoValue]
  /\ UNCHANGED cap

Free(s) == held' = [held EXCEPT ![s] = NoValue] /\ UNCHANGED cap

\* Reservations made at another rate stay.
SetLinkSpeed(c) == cap' = c /\ UNCHANGED held

Next ==
  \/ \E s \in Stream : Free(s) \/ \E v \in Value : Reserve(s, v)
  \/ \E c \in CapChoice : SetLinkSpeed(c)

Spec == Init /\ [][Next]_<<held, cap>>
=============================================================================
