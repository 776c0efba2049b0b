--------------------------- MODULE MCChannelWebhooks ---------------------------
(* Values of ChannelWebhooks' constants for TLC. *)
EXTENDS ChannelWebhooks

CONSTANTS a1, a2, a3, w1, w2, app, m1, m2, m3, p1, p2

\* Two accounts of one WABA, by either way, and one of another WABA of the app.
MCWabaOf == [a \in Accounts |-> IF a = a3 THEN w2 ELSE w1]
MCAppOf == [w \in Wabas |-> app]
MCSentTo == [m \in Messages |-> IF m \in {m2, m3} THEN w2 ELSE w1]
=============================================================================
