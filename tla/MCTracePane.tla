----------------------------- MODULE MCTracePane -----------------------------
(* The panes do not share anything but the tabs: one may reconnect and show  *)
(* rows of two answers, the other may only be asked for once.                *)
EXTENDS TracePane

Hops == 1..2
Requests == [s \in Stack |-> IF s = "ipv4" THEN 2 ELSE 1]
Rows == [s \in Stack |-> IF s = "ipv4" THEN 2 ELSE 0]
==============================================================================
