------------------------------ MODULE MCParamOps ------------------------------
(* Both transports and two parameters, y off the whitelist.                  *)
EXTENDS ParamOps

CONSTANTS ws, gw, x, y

ListOf(tr) == IF tr = ws THEN {x, y} ELSE {x}

(* Bounds: a transport always names the same parameters, the first callback  *)
(* is a subscription, and only the last one may be a setParams.              *)
Bounded ==
  \A tr \in Transports :
    LET c == call'[tr] IN
    c \notin {NoOp, call[tr]} =>
      /\ c.names \in {{}, ListOf(tr)}
      /\ c.kind \in Requests => c.id # 1
      /\ c.kind \in {"set", "setNone"} => c.id = MaxCalls

MCFairSpec == Init /\ [][Next /\ Bounded]_vars /\ Fairness
=============================================================================
