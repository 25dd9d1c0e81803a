--------------------------- MODULE MCSubscriptions ---------------------------
(***************************************************************************)
(* Instances of Subscriptions for TLC.  The clients are named as the bridge *)
(* names them: an id is unique per transport only, so the WebSocket client  *)
(* and the gateway client below have the same one.                          *)
(***************************************************************************)
EXTENDS Subscriptions

CONSTANTS t1, t2, A, B, p1

Ws1 == [gw |-> FALSE, id |-> 1]
Ws2 == [gw |-> FALSE, id |-> 2]
Gw1 == [gw |-> TRUE, id |-> 1]

OneClient == {Ws1}
TwoClients == {Ws1, Ws2}
BothTransports == {Ws1, Gw1}

P1OnT1 == [p \in {p1} |-> t1]
=============================================================================
