--------------------------- MODULE RiskReservations ---------------------------
(***************************************************************************)
(* The distributed part of the risk gate: the two ledgers that reserve the *)
(* budget of one account (risk/ledger.py), the shared order-rate windows   *)
(* (risk/rate_limits.py), and the life of a submission between them        *)
(* (RiskGate.evaluate, stage 10, and what submit does with the slots).     *)
(*                                                                         *)
(* The gates of one process hold a LocalReservationLedger, the others the  *)
(* RedisReservationLedger.  An order adds one unit to each bucket it uses  *)
(* and counts as one open order; One units make one unit of the quote      *)
(* currency.  The Redis scripts are atomic, and a call may fail before or  *)
(* after its script ran.  They are modelled with the arguments they read:  *)
(* acquire finds the ceiling of the last bucket where it looks for the     *)
(* open orders to add, those where it looks for their ceiling, and that    *)
(* ceiling where it looks for its expiry; release finds the last amount    *)
(* held where it looks for the open orders to take away.                   *)
(***************************************************************************)
EXTENDS Integers, FiniteSets

CONSTANTS
  Orders,        \* submissions; one may be followed by another of its name
  Local,         \* those of the process with the LocalReservationLedger
  Buckets,
  Uses,          \* the buckets an order adds to
  Last,          \* the last of them in sorted order: that of its symbol
  Ceiling,       \* of each bucket, in units; 0: none, which is refused
  OpenCeiling,   \* of open orders; 0: none
  One,           \* units in one unit of the quote currency
  MaxSecond, MaxMinute,
  MinuteLength   \* seconds in a minute

ASSUME RiskAssumption ==
  /\ IsFiniteSet(Orders) /\ Local \subseteq Orders
  /\ Uses \in [Orders -> SUBSET Buckets]
  /\ Last \in [Orders -> Buckets] /\ \A o \in Orders : Last[o] \in Uses[o]
  /\ Ceiling \in [Buckets -> Nat] /\ OpenCeiling \in Nat /\ One \in Nat \ {0}
  /\ MaxSecond \in Nat /\ MaxMinute \in Nat /\ MinuteLength \in Nat \ {0}

VARIABLES
  ledger,   \* LocalReservationLedger: units held, open orders
  budget,   \* the hash of the account in Redis: units held, its open_orders in units,
            \* and whether it has an expiry
  window,   \* the counters of the current second and minute
  sub       \* the submissions

vars == <<ledger, budget, window, sub>>

Steps == {"new", "counted", "reserved", "releasing", "undoing", "done"}

TypeOK ==
  /\ ledger \in [held : [Buckets -> Nat], orders : Nat]
  /\ budget \in [held : [Buckets -> Nat], orders : Nat, mortal : BOOLEAN]
  /\ window \in [second : Nat, minute : Nat, at : 0 .. MinuteLength - 1]
  /\ sub \in [Orders -> [pc : Steps,
                         hold : BOOLEAN,   \* its units were added, not taken back
                         inSecond : BOOLEAN, inMinute : BOOLEAN]]  \* slots it has

Nothing == [b \in Buckets |-> 0]
NoHolds == [held |-> Nothing, orders |-> 0, mortal |-> FALSE]
NoTickets == [held |-> Nothing, orders |-> 0]
NewOrder == [pc |-> "new", hold |-> FALSE, inSecond |-> FALSE, inMinute |-> FALSE]

Init ==
  /\ ledger = NoTickets
  /\ budget = NoHolds
  /\ window = [second |-> 0, minute |-> 0, at |-> 0]
  /\ sub = [o \in Orders |-> NewOrder]

Become(o, record) == sub' = [sub EXCEPT ![o] = record]
Goes(o, pc) == [sub[o] EXCEPT !.pc = pc]
--------------------------------------------------------------------------------
(* The ledgers *)

LessOne(n) == IF n > 0 THEN n - 1 ELSE 0

Added(held, o)    == [b \in Buckets |-> IF b \in Uses[o] THEN held[b] + 1 ELSE held[b]]
TakenOff(held, o) == [b \in Buckets |-> IF b \in Uses[o] THEN LessOne(held[b]) ELSE held[b]]

(* A mistake to be caught: the bound is crossed before it is noticed. *)
FitsLate(held, o) == \A b \in Uses[o] : held[b] <= Ceiling[b]

Fits(held, o) == \A b \in Uses[o] : held[b] + 1 <= Ceiling[b]

(* LocalReservationLedger *)
LocalRoom(o) ==
  /\ Fits(ledger.held, o)
  /\ OpenCeiling = 0 \/ ledger.orders + 1 <= OpenCeiling

LocallyAcquired(o) == [held |-> Added(ledger.held, o), orders |-> ledger.orders + 1]

(* A mistake to be caught: only the buckets are given back. *)
BucketsReturned(o) == [ledger EXCEPT !.held = TakenOff(@, o)]

LocallyReturned(o) == [held |-> TakenOff(ledger.held, o), orders |-> LessOne(ledger.orders)]

(* RESERVATION_ACQUIRE_SCRIPT: what it takes for the open orders to add *)
OpenAdd(o) == Ceiling[Last[o]]

ScriptRoom(o) ==
  /\ Fits(budget.held, o)
  /\ budget.orders + OpenAdd(o) <= One   \* its ceiling: add_open_orders, which is 1

Whole(units) == units % One = 0

(* HINCRBY refuses what is not an integer, PEXPIRE what is not a number: an error once
   the units of the buckets have been added. *)
CountsOpen(o) == Whole(OpenAdd(o)) /\ Whole(budget.orders)
ScriptBreaks(o) == ~CountsOpen(o) \/ OpenCeiling = 0

ScriptAcquired(o) ==
  [held   |-> Added(budget.held, o),
   orders |-> IF CountsOpen(o) THEN budget.orders + OpenAdd(o) ELSE budget.orders,
   mortal |-> budget.mortal \/ ~ScriptBreaks(o)]

(* A mistake to be caught: the amounts are taken off whatever is left. *)
ReturnedUnfloored(o) ==
  [budget EXCEPT !.held = [b \in Buckets |-> IF b \in Uses[o] THEN @[b] - 1 ELSE @[b]],
                 !.orders = LessOne(@)]

(* RESERVATION_RELEASE_SCRIPT: it knows amounts, not tickets, and takes the last of them
   from the open orders.  A hash without fields is gone, and its expiry with it. *)
ScriptReturned(o) ==
  LET held   == TakenOff(budget.held, o)
      orders == LessOne(budget.orders)
  IN [held |-> held, orders |-> orders,
      mortal |-> budget.mortal /\ (held # Nothing \/ orders # 0)]

(* A mistake to be caught: the minute is not looked at. *)
SecondHasRoom == window.second + 1 <= MaxSecond

WindowsHaveRoom == window.second + 1 <= MaxSecond /\ window.minute + 1 <= MaxMinute

(* RATE_COUNTER_SCRIPT, when granted *)
Consumed == [window EXCEPT !.second = @ + 1, !.minute = @ + 1]

(* RATE_ROLLBACK_SCRIPT: the buckets that were incremented, which may be past. *)
SlotsReturned(o) ==
  [window EXCEPT !.second = IF sub[o].inSecond THEN @ - 1 ELSE @,
                 !.minute = IF sub[o].inMinute THEN @ - 1 ELSE @]
--------------------------------------------------------------------------------
(* The gate: RiskGate.evaluate *)

TakesSlots(o, pc) ==
  /\ WindowsHaveRoom
  /\ window' = Consumed
  /\ Become(o, [Goes(o, pc) EXCEPT !.inSecond = TRUE, !.inMinute = TRUE])
  /\ UNCHANGED <<ledger, budget>>

RateGranted(o) == sub[o].pc = "new" /\ TakesSlots(o, "counted")

(* The windows are full, or the call fails before or after its script ran. *)
RateRefused(o) ==
  /\ sub[o].pc = "new"
  /\ \/ TakesSlots(o, "done")
     \/ Become(o, Goes(o, "done")) /\ UNCHANGED <<ledger, budget, window>>

(* A grant, with the ticket or, when its answer is lost, without *)
Reserves(o, pc) ==
  /\ sub[o].pc = "counted"
  /\ IF o \in Local
       THEN /\ LocalRoom(o)
            /\ ledger' = LocallyAcquired(o) /\ UNCHANGED budget
       ELSE /\ ScriptRoom(o)
            /\ budget' = ScriptAcquired(o) /\ UNCHANGED ledger
  /\ Become(o, [Goes(o, pc) EXCEPT !.hold = TRUE])
  /\ UNCHANGED window

ReservationGranted(o) ==
  /\ o \notin Local => ~ScriptBreaks(o)
  /\ Reserves(o, "reserved")

ReservationDenied(o) ==
  /\ sub[o].pc = "counted"
  /\ IF o \in Local THEN ~LocalRoom(o) ELSE ~ScriptRoom(o)
  /\ Become(o, Goes(o, "undoing"))
  /\ UNCHANGED <<ledger, budget, window>>

(* "ledger-error": a denial, whether the script did not run, ran and its answer was
   lost, or broke off halfway *)
ReservationFails(o) ==
  /\ o \notin Local
  /\ \/ Reserves(o, "undoing")
     \/ /\ sub[o].pc = "counted"
        /\ Become(o, Goes(o, "undoing"))
        /\ UNCHANGED <<ledger, budget, window>>
--------------------------------------------------------------------------------
(* The submission: submit and _release_risk_slots *)

(* ACCEPTED and UNKNOWN keep the slots, and nothing hands them back later. *)
OrderMayExist(o) ==
  /\ sub[o].pc = "reserved"
  /\ Become(o, Goes(o, "done"))
  /\ UNCHANGED <<ledger, budget, window>>

(* Every other outcome, and LockNotAcquired *)
OrderDoesNotExist(o) ==
  /\ sub[o].pc = "reserved"
  /\ Become(o, Goes(o, "releasing"))
  /\ UNCHANGED <<ledger, budget, window>>

HandsBack(o, pc) ==
  /\ sub[o].pc = "releasing"
  /\ IF o \in Local THEN ledger' = LocallyReturned(o) /\ UNCHANGED budget
                    ELSE budget' = ScriptReturned(o) /\ UNCHANGED ledger
  /\ Become(o, [Goes(o, pc) EXCEPT !.hold = FALSE])
  /\ UNCHANGED window

Released(o) == HandsBack(o, "undoing")

(* A release that raises is swallowed, and the rate slots with it. *)
ReleaseFails(o) ==
  /\ o \notin Local
  /\ \/ HandsBack(o, "done")
     \/ /\ sub[o].pc = "releasing"
        /\ Become(o, Goes(o, "done"))
        /\ UNCHANGED <<ledger, budget, window>>

(* rollback_rate *)
RateRolledBack(o) ==
  /\ sub[o].pc = "undoing"
  /\ window' = SlotsReturned(o)
  /\ Become(o, [Goes(o, "done") EXCEPT !.inSecond = FALSE, !.inMinute = FALSE])
  /\ UNCHANGED <<ledger, budget>>

(* Its process ends, an error other than LockNotAcquired leaves submit, or the rollback
   fails: nothing more is handed back. *)
Abandoned(o) ==
  /\ sub[o].pc \in {"counted", "reserved", "releasing", "undoing"}
  /\ Become(o, Goes(o, "done"))
  /\ UNCHANGED <<ledger, budget, window>>

(* Another submission takes the name of one that left nothing behind. *)
Another(o) ==
  /\ sub[o].pc = "done" /\ ~sub[o].hold /\ ~sub[o].inSecond /\ ~sub[o].inMinute
  /\ Become(o, NewOrder)
  /\ UNCHANGED <<ledger, budget, window>>
--------------------------------------------------------------------------------
MinuteEnds == window.at = MinuteLength - 1

(* A second passes. *)
TimePasses ==
  /\ window' = [second |-> 0,
                minute |-> IF MinuteEnds THEN 0 ELSE window.minute,
                at     |-> IF MinuteEnds THEN 0 ELSE window.at + 1]
  /\ sub' = [o \in Orders |->
               [sub[o] EXCEPT !.inSecond = FALSE, !.inMinute = @ /\ ~MinuteEnds]]
  /\ UNCHANGED <<ledger, budget>>

(* The hash expires, as many milliseconds after the last grant as there may be open
   orders: at any time. *)
HashExpires ==
  /\ budget.mortal
  /\ budget' = NoHolds
  /\ UNCHANGED <<ledger, window, sub>>

(* The process with the local ledger ends, its submissions with it, and starts anew. *)
ProcessRestarts ==
  /\ ledger' = NoTickets
  /\ sub' = [o \in Orders |->
               IF o \in Local
                 THEN [sub[o] EXCEPT !.pc = IF @ = "new" THEN @ ELSE "done", !.hold = FALSE]
                 ELSE sub[o]]
  /\ UNCHANGED <<budget, window>>

GateStep(o) == ReservationGranted(o) \/ ReservationDenied(o) \/ ReservationFails(o)

SlotStep(o) ==
  \/ OrderMayExist(o) \/ OrderDoesNotExist(o)
  \/ Released(o) \/ ReleaseFails(o) \/ RateRolledBack(o) \/ Abandoned(o)

Next ==
  \/ TimePasses \/ HashExpires \/ ProcessRestarts
  \/ \E o \in Orders :
       RateGranted(o) \/ RateRefused(o) \/ GateStep(o) \/ SlotStep(o) \/ Another(o)

Spec == Init /\ [][Next]_vars
--------------------------------------------------------------------------------
Holders == {o \in Orders : sub[o].hold}
HoldersOf(b) == {o \in Holders : b \in Uses[o]}

(* The local ledger counts exactly the orders that hold something of it, whichever of
   them were refused, released or left halfway, in every bucket and in open orders.
   The hash of Redis never counts more than is held in a bucket, although release
   takes away amounts of a hash that may have expired in between, and the amounts of
   somebody else with them. *)
CountsWhatIsHeld ==
  /\ ledger.orders = Cardinality(Holders \cap Local)
  /\ \A b \in Buckets : /\ ledger.held[b] = Cardinality(HoldersOf(b) \cap Local)
                        /\ budget.held[b] <= Cardinality(HoldersOf(b) \ Local)

(* However many submissions of a process are between the gate and the venue at once,
   those that hold a reservation stay within every ceiling: one that was approved and
   not released has its place whatever happens to the others. *)
WithinCeiling ==
  /\ \A b \in Buckets : Cardinality(HoldersOf(b) \cap Local) <= Ceiling[b]
  /\ OpenCeiling # 0 => Cardinality(Holders \cap Local) <= OpenCeiling

(* The orders that were let through in a second, or in a minute, stay within its
   limit, and the counters count exactly the slots that were not given back. *)
WithinRate ==
  /\ window.second = Cardinality({o \in Orders : sub[o].inSecond})
  /\ window.minute = Cardinality({o \in Orders : sub[o].inMinute})
  /\ window.second <= MaxSecond /\ window.minute <= MaxMinute

AtCapacity(o) ==
  \/ \E b \in Uses[o] : Cardinality(HoldersOf(b)) + 1 > Ceiling[b]
  \/ OpenCeiling # 0 /\ Cardinality(Holders) + 1 > OpenCeiling

(* "The script refuses a bucket whose addition would cross the ceiling passed in ARGV":
   who is denied would have crossed one, of a bucket or of the open orders. *)
RefusedAtCapacity == [][\A o \in Orders : ReservationDenied(o) => AtCapacity(o)]_vars
================================================================================
