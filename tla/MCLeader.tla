------------------------------ MODULE MCLeader ------------------------------
(***************************************************************************)
(* Two candidates, one of which has a duty that may fail to start.         *)
(***************************************************************************)
EXTENDS LeaderLease

CONSTANTS e1, e2

Both == {e1, e2}
=============================================================================
