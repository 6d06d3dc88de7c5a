----------------------------- MODULE MCStreamIn -----------------------------
(* A small instance of StreamIn. *)
EXTENDS StreamIn

\* On the listener's clock, far behind it, or ahead of it.
MCShifts == {0, -6, 8}
=============================================================================
