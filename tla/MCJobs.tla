-------------------------------- MODULE MCJobs --------------------------------
(* Workers that agree on the fleet, and jobs of one account. *)
EXTENDS TradeJobs

CONSTANT w1

Scores == [p \in Partitions |-> [w \in Workers |-> IF w = w1 THEN 1 ELSE 0]]

Fleet == [w \in Workers |-> Workers]

OneAccount == [j \in Jobs |-> None]

OnePartition == [j \in Jobs |-> 0]
================================================================================
