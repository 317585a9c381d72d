----------------------------- MODULE TradeLedger -----------------------------
(***************************************************************************)
(* What the execution engine and its reconciliation promise together, with *)
(* no venue, store, lock or task in sight: an order is placed once, a      *)
(* trade enters the position once, a final status is final.                *)
(***************************************************************************)
EXTENDS Naturals

CONSTANTS Orders, Trades

VARIABLES placed,    \* placements transmitted, per order
          position,  \* how often each trade of an order was booked
          final      \* the order's final status, or "OPEN"

vars == <<placed, position, final>>

FinalStatuses == {"FILLED", "CANCELLED", "REJECTED", "EXPIRED", "FAILED"}

Init ==
  /\ placed = [o \in Orders |-> 0]
  /\ position = [o \in Orders |-> [t \in Trades |-> 0]]
  /\ final = [o \in Orders |-> "OPEN"]

Place(o) ==
  /\ placed[o] = 0 /\ final[o] = "OPEN"
  /\ placed' = [placed EXCEPT ![o] = 1]
  /\ UNCHANGED <<position, final>>

(* Trades not booked before are booked, an open order may close, or both. *)
Settle(o) ==
  /\ placed[o] = 1
  /\ \E ts \in SUBSET {t \in Trades : position[o][t] = 0} :
       position' = [position EXCEPT ![o] = [t \in Trades |->
                                              IF t \in ts THEN 1 ELSE @[t]]]
  /\ \/ UNCHANGED final
     \/ final[o] = "OPEN" /\ \E st \in FinalStatuses :
                               final' = [final EXCEPT ![o] = st]
  /\ UNCHANGED placed

(* A dry run closes an order that is never placed. *)
Discard(o) ==
  /\ placed[o] = 0 /\ final[o] = "OPEN"
  /\ final' = [final EXCEPT ![o] = "CANCELLED"]
  /\ UNCHANGED <<placed, position>>

Next == \E o \in Orders : Place(o) \/ Settle(o) \/ Discard(o)

Spec == Init /\ [][Next]_vars
==============================================================================
