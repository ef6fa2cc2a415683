----------------------------- MODULE MCEventBus -----------------------------
(***************************************************************************)
(* Three events for two workers and a channel of one, and two callers of   *)
(* Shutdown: the smallest instance in which an event can be queued while   *)
(* both workers are busy and a later one dropped.                          *)
(***************************************************************************)
EXTENDS EventBus

CONSTANTS e1, e2, e3, w1, w2, s1, s2

MCEvents == {e1, e2, e3}
MCWorkers == {w1, w2}
MCClosers == {s1, s2}
=============================================================================
