--------------------------- MODULE MCRateLimiter ---------------------------
(***************************************************************************)
(* Four requests from one address, one more than the burst and the refill  *)
(* of a unit of time; unsigned and interchangeable, or of two users.       *)
(***************************************************************************)
EXTENDS RateLimiter, TLC

CONSTANTS ann, bob, office, r1, r2, r3, r4

MCUsers == {ann, bob}
Office == [r \in Requests |-> office]
Unsigned == [r \in Requests |-> None]
TwoUsers == [r \in Requests |-> IF r \in {r1, r2} THEN ann ELSE bob]
Interchangeable == Permutations(Requests)
=============================================================================
