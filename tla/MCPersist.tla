----------------------------- MODULE MCPersist -----------------------------
(* Small instances of Persist: a board whose streams are bound and rebound, *)
(* and one that is configured while streams run.                            *)
EXTENDS Persist

VARIABLE board

\* The main task and the power alone: no call marks the snapshot.
BindsNext ==
  \/ Boot \/ PowerLoss \/ MainStep \/ Tick \/ Elapse
  \/ \E k \in Stream, v \in Binding, q \in BOOLEAN : Bind(k, v, q)

\* Both tasks, and what has a key of its own.
ConfiguredNext ==
  \/ Boot \/ PowerLoss \/ Reflash \/ MainStep \/ TaskStep \/ Tick \/ Elapse
  \/ Streaming \/ \E k \in Direct, v \in Binding, q \in BOOLEAN : Bind(k, v, q)
  \/ \E c \in Conf, eager \in BOOLEAN : Configure(c, eager)

MCNext ==
  /\ UNCHANGED board
  /\ \/ board = "bound" /\ BindsNext
     \/ board = "configured" /\ ConfiguredNext

MCInit == board \in {"bound", "configured"} /\ Init

MCSpec ==
  /\ MCInit
  /\ [][MCNext]_<<vars, board>>
  /\ WF_vars(MainStep) /\ WF_vars(TaskStep) /\ WF_vars(Elapse) /\ SF_vars(Tick)
=============================================================================
