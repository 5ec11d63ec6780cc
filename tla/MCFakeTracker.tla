---------------------------- MODULE MCFakeTracker ----------------------------
(***************************************************************************)
(* A small instance of FakeTracker: two issues compete for the project's   *)
(* one claim.  The first is high-risk and to be deployed, with versions    *)
(* enough for the longest lifecycle and a detour through blocked; the      *)
(* second can be claimed and ended.                                        *)
(***************************************************************************)
EXTENDS FakeTracker

CONSTANTS a, b

Pair == {a, b}
Single == {a}
Lives == [i \in Issues |-> IF i = a THEN 11 ELSE 3]

=============================================================================
