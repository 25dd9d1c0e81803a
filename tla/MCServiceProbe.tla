---------------------------- MODULE MCServiceProbe ----------------------------
(* Two whitelisted services and one that is not come, go and change type   *)
(* while the poll thread is in the middle of a cycle or of a probe.        *)
EXTENDS ServiceProbe

CONSTANTS sv1, sv2, sv3, A, B
=============================================================================
