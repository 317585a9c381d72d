-------------------------------- MODULE MCBooks --------------------------------
(* One or two books of one feed: a busy one, and one that changes once. *)
EXTENDS OrderBookSync

CONSTANTS b1, b2

TwoBooks == <<b1, b2>>

Horizons == [b \in Books |-> IF b = b1 THEN 3 ELSE 1]
================================================================================
