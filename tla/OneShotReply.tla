---------------------------- MODULE OneShotReply ----------------------------
(***************************************************************************)
(* What a foxglove::ServiceResponder promises a client: a call that was    *)
(* made gets at most one answer, and the answer never changes.             *)
(***************************************************************************)
CONSTANTS Calls, Replies

VARIABLE outcome

OneShotInit == outcome = [c \in Calls |-> "idle"]

Open(c) ==
  /\ outcome[c] = "idle"
  /\ outcome' = [outcome EXCEPT ![c] = "open"]

Answer(c, r) ==
  /\ outcome[c] = "open"
  /\ outcome' = [outcome EXCEPT ![c] = r]

OneShotNext ==
  \E c \in Calls : Open(c) \/ \E r \in Replies : Answer(c, r)

OneShotSpec == OneShotInit /\ [][OneShotNext]_outcome
=============================================================================
