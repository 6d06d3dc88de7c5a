----------------------------- MODULE Bandwidth -----------------------------
(***************************************************************************)
(* The bandwidth account of one egress port of the bridge: the admission   *)
(* helpers avb_srp_admission_* and the msrp_*_admission pair of src/mrp.c, *)
(* which keep in each stream's entry what it was charged.                  *)
(*                                                                         *)
(* Bandwidths are uint32_t in the code: their sums are taken modulo Word.  *)
(* A TSpec of no frames, which asks for no bandwidth, is left out.         *)
(***************************************************************************)
EXTENDS Integers

CONSTANTS
  Stream,
  Value,       \* the requests: a class and its bits per second
  CapChoice,   \* cap_bps: what the link rates of the port can make it
  Word         \* 2^32 in the code

Class == {"A", "B"}

\* No reservation: admitted_bps is zero.
NoValue == [cls |-> "B", bps |-> 0]
Value0  == Value \cup {NoValue}

ASSUME BandwidthAssumption ==
  /\ Word \in Nat \ {0}
  /\ Value \subseteq [cls : Class, bps : 1..Word - 1]
  /\ CapChoice \subseteq 0..Word - 1

Account ==
  [admitted : [Class -> 0..Word - 1],   \* s_admission[port][class].admitted_bps
   cap      : CapChoice,                \* .cap_bps, the same for both classes
   entry    : [Stream -> Value0]]       \* admitted_class, admitted_bps[port]

EmptyAccount(cap) ==
  [admitted |-> [c \in Class |-> 0], cap |-> cap,
   entry |-> [s \in Stream |-> NoValue]]

\* The same without the request itself.
FitsAlready(acc, v) == acc.cap # 0 /\ acc.admitted[v.cls] <= acc.cap

\* avb_srp_admission_try_admit: room for v under the cap of its class alone.
Fits(acc, v) ==
  acc.cap # 0 /\ (acc.admitted[v.cls] + v.bps) % Word <= acc.cap

\* The same without the clamp, and with the record kept.
ReleaseAgain(acc, s) ==
  LET r == acc.entry[s] IN [acc EXCEPT !.admitted[r.cls] = @ - r.bps]

\* msrp_release_admission: what the entry of s was charged is given back.
Release(acc, s) ==
  LET r == acc.entry[s] IN
  [acc EXCEPT !.admitted[r.cls] = IF @ > r.bps THEN @ - r.bps ELSE 0,
              !.entry[s] = NoValue]

Charge(acc, s, v) ==
  IF Fits(acc, v)
  THEN [acc EXCEPT !.admitted[v.cls] = (@ + v.bps) % Word, !.entry[s] = v]
  ELSE acc

\* msrp_update_admission: afterwards entry[s] = v tells that v was admitted.
Update(acc, s, v) ==
  IF acc.entry[s] = v THEN acc ELSE Charge(Release(acc, s), s, v)
=============================================================================
