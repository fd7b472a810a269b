------------------------------ MODULE MCRPCUDP ------------------------------
(* Model-checking instance of RPCUDP: two concurrent calls.               *)
EXTENDS RPCUDP

\* Two calls in flight at once are enough for one call's response, loss or
\* timer to interleave with the other's registration.
MCMsgIds == {1, 2}
=============================================================================
