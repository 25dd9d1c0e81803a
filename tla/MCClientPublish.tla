--------------------------- MODULE MCClientPublish ---------------------------
(* A WebSocket and a gateway client, each with client id 1 and channel id 1, *)
(* advertise the same topic.  Bound: the threads that run are one of Crews;  *)
(* the order in which a thread takes locks does not depend on the others.    *)
EXTENDS ClientPublish

CONSTANTS pt, s1, s2, sp, se, A, B

WsKey == [channel |-> 1, client |-> 1, isGateway |-> FALSE]
GwKey == [channel |-> 1, client |-> 1, isGateway |-> TRUE]
BothKeys == {WsKey, GwKey}

Crews == {{s1, s2}, {s1, pt}, {s1, sp, se}, {pt, sp, se}}

VARIABLE crew

MCInit == Init /\ crew \in Crews

MCNext == \E th \in crew : ThreadStep(th) /\ UNCHANGED crew

MCSpec == MCInit /\ [][MCNext]_<<vars, crew>>
=============================================================================
