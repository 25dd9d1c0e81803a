---------------------------- MODULE MCServiceCalls ----------------------------
(* One service of a type whose definition is known or not, and two calls.   *)
EXTENDS ServiceCalls

CONSTANTS sv1, A, B, c1, c2
=============================================================================
