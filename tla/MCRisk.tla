-------------------------------- MODULE MCRisk --------------------------------
(* Four submissions of one account: two of a process with the local ledger, two of
   processes that share the hash in Redis.  The ceiling of symbol A is one unit of the
   quote currency, which the acquire script lets pass once; that of B is a fraction. *)
EXTENDS RiskReservations

CONSTANTS o1, o2, o3, o4

UsesOf == [o \in Orders |-> {"account", IF o = o3 THEN "A" ELSE "B"}]
LastOf == [o \in Orders |-> IF o = o3 THEN "A" ELSE "B"]

Ceilings      == [b \in Buckets |-> IF b = "B" THEN 1 ELSE 2]
WholeCeilings == [b \in Buckets |-> 2]
================================================================================
