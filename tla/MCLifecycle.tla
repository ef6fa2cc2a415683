---------------------------- MODULE MCLifecycle ----------------------------
(***************************************************************************)
(* Three requests, a backlog of one and both limiters: requests may be in  *)
(* flight while the event of another fills the bus.                        *)
(***************************************************************************)
EXTENDS Lifecycle

CONSTANTS r1, r2, r3
=============================================================================
