------------------------------- MODULE MCWorkers -------------------------------
(* Two workers.  Each is the owner of one half of the partitions when both are
   members, the even ones being those of w1, and w1 reads a configuration that
   lists only itself. *)
EXTENDS WorkerCoordination, Integers

CONSTANTS w1, w2

TwoWorkers == {w1, w2}

Scores ==
  [p \in Partitions |-> [w \in Workers |-> IF w = w1 THEN 1 - (p % 2) ELSE p % 2]]

(* w2 runs, and keeps running; w1 comes and goes. *)
SurvivorSpec ==
  /\ Init /\ [][Next /\ (Up(w2) => Up(w2)' /\ ~wkr'[w2].stopping)]_vars
  /\ Fairness(w2)

(* The partitions of w1 come to w2 whenever w1 is gone for good: see TakesOver. *)
SurvivorTakesOver == TakesOver(w2)

Disagreeing == [w \in Workers |-> IF w = w1 THEN {w1} ELSE Workers]
================================================================================
