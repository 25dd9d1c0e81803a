----------------------------- MODULE MCPollLoop -----------------------------
(* Both transports use the connection graph; a client of the gateway also   *)
(* advertises channels.                                                     *)
EXTENDS PollLoop

CONSTANTS ws, gw
=============================================================================
