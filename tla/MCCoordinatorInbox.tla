-------------------------- MODULE MCCoordinatorInbox --------------------------
(***************************************************************************)
(* Small instances of CoordinatorInbox: two coordinators and one report,   *)
(* which wakes.                                                            *)
(***************************************************************************)
EXTENDS CoordinatorInbox

CONSTANTS a, b, blocker

Pair == {a, b}
Blocker == {blocker}

=============================================================================
