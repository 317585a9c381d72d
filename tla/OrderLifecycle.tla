--------------------------- MODULE OrderLifecycle ---------------------------
(***************************************************************************)
(* The order of libs/trading-core/wlct_trading/orders.py: its statuses,    *)
(* the table of legal transitions and what a fill does to it.              *)
(*                                                                         *)
(* An order is executed by the venue in the trades of Trades; their        *)
(* quantities sum to the order's quantity, so "filled quantity >= order    *)
(* quantity" is "every trade has been recorded".  Prices and fees are      *)
(* abstracted away.                                                        *)
(***************************************************************************)
EXTENDS FiniteSets

CONSTANT Trades

ASSUME TradesAssumption == Trades # {}

TerminalStatuses == {"FILLED", "CANCELLED", "REJECTED", "EXPIRED", "FAILED"}

OpenStatuses == {"PENDING", "SUBMITTED", "ACKNOWLEDGED", "PARTIALLY_FILLED",
                 "CANCEL_REQUESTED"}

OrderStatuses == OpenStatuses \cup TerminalStatuses

ORDER_STATE_TRANSITIONS ==
  [PENDING          |-> {"SUBMITTED", "REJECTED", "FAILED", "CANCELLED"},
   SUBMITTED        |-> {"ACKNOWLEDGED", "PARTIALLY_FILLED", "FILLED", "REJECTED",
                         "CANCEL_REQUESTED", "CANCELLED", "EXPIRED", "FAILED"},
   ACKNOWLEDGED     |-> {"PARTIALLY_FILLED", "FILLED", "CANCEL_REQUESTED",
                         "CANCELLED", "REJECTED", "EXPIRED", "FAILED"},
   PARTIALLY_FILLED |-> {"PARTIALLY_FILLED", "FILLED", "CANCEL_REQUESTED",
                         "CANCELLED", "EXPIRED", "FAILED"},
   CANCEL_REQUESTED |-> {"CANCELLED", "FILLED", "PARTIALLY_FILLED", "EXPIRED",
                         "FAILED"},
   FILLED |-> {}, CANCELLED |-> {}, REJECTED |-> {}, EXPIRED |-> {}, FAILED |-> {}]

OrderRecord == [status : OrderStatuses, fills : SUBSET Trades]

NewOrder == [status |-> "PENDING", fills |-> {}]

IsLegalTransition(from, to) == to \in ORDER_STATE_TRANSITIONS[from]

(* A mistake to be caught: no table is consulted. *)
ForceTransition(ord, target) == [ord EXCEPT !.status = target]

(* Order.try_transition_to, and ExecutionEngine._safe_transition: an illegal
   target leaves the order as it is. *)
TryTransition(ord, target) ==
  IF IsLegalTransition(ord.status, target)
    THEN [ord EXCEPT !.status = target]
    ELSE ord

(* Order.apply_fill for one trade. *)
ApplyFill(ord, t) ==
  LET all == ord.fills \cup {t} IN
  IF t \in ord.fills
    THEN ord
    ELSE TryTransition([ord EXCEPT !.fills = all],
                       IF all = Trades THEN "FILLED" ELSE "PARTIALLY_FILLED")

(* The loops over the fills of a venue answer, which call apply_fill for each.
   The order in which the fills come does not matter. *)
ApplyFills(ord, ts) ==
  LET all == ord.fills \cup ts IN
  IF ts \subseteq ord.fills
    THEN ord
    ELSE TryTransition([ord EXCEPT !.fills = all],
                       IF all = Trades THEN "FILLED" ELSE "PARTIALLY_FILLED")
=============================================================================
