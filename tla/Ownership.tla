------------------------------- MODULE Ownership -------------------------------
(***************************************************************************)
(* What a lease is for, with no store, clock, heartbeat or token in sight: *)
(* a partition, or the role of the leader, is taken by a process only      *)
(* while no process takes it for its own, and so passes from one to        *)
(* another only by way of nobody.  Beliefs end at any time.                *)
(***************************************************************************)
CONSTANTS Things, Owners

VARIABLE owners  \* of each thing, those that take themselves for its owner

Init == owners = [t \in Things |-> {}]

(* One process looks at what it has: it finds some things its own that are nobody's,
   and some no longer its own. *)
Review(o) ==
  /\ owners' \in [Things -> SUBSET Owners]
  /\ \A t \in Things :
       \/ owners'[t] = owners[t]
       \/ owners[t] = {} /\ owners'[t] = {o}
       \/ owners[t] = {o} /\ owners'[t] = {}

(* Things are nobody's any more. *)
Lapse ==
  /\ owners' \in [Things -> SUBSET Owners]
  /\ \A t \in Things : owners'[t] \in {owners[t], {}}

Next == Lapse \/ \E o \in Owners : Review(o)

Spec == Init /\ [][Next]_owners
================================================================================
