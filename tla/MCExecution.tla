----------------------------- MODULE MCExecution -----------------------------
(* Small instances of Execution: one order, executed in two trades. *)
EXTENDS Execution, TLC

CONSTANT o1

(* Every submitter's intent hashes to the same client order id. *)
OneIntent == [s \in Submitters |-> o1]

OneOrder == {o1}

AllTasks == Submitters \cup Cancellers

TradeSymmetry == Permutations(Trades)

TaskSymmetry ==
  TradeSymmetry \cup Permutations(Cancellers) \cup Permutations(Submitters)
==============================================================================
