-------------------------- MODULE DurableExecution --------------------------
(***************************************************************************)
(* The execution engine and the reconciliation over the Postgres store of  *)
(* services/execution-engine: several processes, one order.  Each          *)
(* operation works on its own Order, decoded from the row; each call of    *)
(* the store is a transaction; a process may die between any two.  Locks   *)
(* are in the memory of a process and exclude nobody here.                 *)
(***************************************************************************)
EXTENDS Venue, Naturals

CONSTANT Id    \* the client order id

ASSUME OneOrderAssumption == Orders = {Id}

VARIABLES
    row,       \* the row of engine_orders, and whether it exists
    ledger,    \* the trades in engine_order_fills
    sent,      \* placements transmitted (a counter)
    task       \* the operation each process is in

vars == <<venueVars, row, ledger, sent, task>>

ReconStates == {"IN_SYNC", "UNKNOWN", "DIVERGED"}

Row == [there: BOOLEAN, status: OrderStatuses, filled: SUBSET Trades,
        mark: ReconStates]

NoRow == [there |-> FALSE, status |-> "PENDING", filled |-> {}, mark |-> "IN_SYNC"]

(***************************************************************************)
(* An Order in memory: fills are the trades it lists (and _fill_ids),      *)
(* filled those that filled_quantity counts.                               *)
(***************************************************************************)
Object == [status: OrderStatuses, fills: SUBSET Trades, filled: SUBSET Trades]

NewObject == [status |-> "PENDING", fills |-> {}, filled |-> {}]

Places == {"idle", "save", "write", "submit", "send", "sent", "filling", "clear",
           "check", "cancel", "cancelling", "ask", "query"}

Task == [pc: Places, op: {"none", "submit", "cancel", "pass"}, ord: Object,
         mark: ReconStates, next: {"idle", "submit", "send", "clear", "cancel"},
         view: VenueOrder, todo: SUBSET Trades]

Idle == [pc |-> "idle", op |-> "none", ord |-> NewObject, mark |-> "IN_SYNC",
         next |-> "idle", view |-> Absent, todo |-> {}]

\* What the rows, the ledger and the operations may hold.
TypeOK ==
    /\ VenueTypeOK
    /\ row \in Row
    /\ ledger \in SUBSET Trades
    /\ sent \in Nat
    /\ task \in [Tasks -> Task]
    /\ ~row.there => row = NoRow /\ ledger = {} /\ inbox = {}

Init ==
    /\ VenueInit
    /\ row = NoRow
    /\ ledger = {}
    /\ sent = 0
    /\ task = [w \in Tasks |-> Idle]

(***************************************************************************)
(* The store, and the object.                                              *)
(***************************************************************************)
Goes(w, rec) == task' = [task EXCEPT ![w] = rec]

\* _decode_order: the status and the aggregates are assigned from the row,
\* the fills come from the ledger.
Loaded == [status |-> row.status, fills |-> ledger, filled |-> row.filled]

\* The object goes to save_order next, and then to the place next.
Saving(rec, next) == [rec EXCEPT !.pc = "save", !.next = next]

\* A save that does not keep the reconciliation state.
ReadsNoMark(w) ==
    /\ task[w].pc = "save"
    /\ Goes(w, [task[w] EXCEPT !.pc = "write", !.mark = "IN_SYNC"])
    /\ UNCHANGED <<venueVars, row, ledger, sent>>

\* save_order, in READ COMMITTED: it reads the reconciliation state ...
ReadsMark(w) ==
    /\ \/ task[w].pc = "save"
       \/ task[w].pc = "filling" /\ task[w].op = "submit" /\ task[w].todo = {}
    /\ Goes(w, [task[w] EXCEPT !.pc = "write", !.mark = row.mark])
    /\ UNCHANGED <<venueVars, row, ledger, sent>>

\* ... and overwrites the whole row with it and the object.
Writes(w) ==
    LET t == task[w] IN
    /\ t.pc = "write"
    /\ row' = [there |-> TRUE, status |-> t.ord.status, filled |-> t.ord.filled,
               mark |-> t.mark]
    /\ Goes(w, IF t.next = "idle" THEN Idle ELSE [t EXCEPT !.pc = t.next])
    /\ UNCHANGED <<venueVars, ledger, sent>>

Applied(x, t) ==
    IF t \in x.fills THEN x
    ELSE [ApplyFill(x, t) EXCEPT !.filled = x.fills \cup {t}]

\* A fill that is applied and not recorded.
AppliesUnrecorded(w) ==
    /\ task[w].pc = "filling"
    /\ \E t \in task[w].todo :
          Goes(w, [task[w] EXCEPT !.ord = Applied(@, t), !.todo = @ \ {t}])
    /\ UNCHANGED <<venueVars, row, ledger, sent>>

\* record_fill, then apply_fill: for _apply_fill and for _adopt_venue_state.
RecordsFill(w) ==
    /\ task[w].pc = "filling"
    /\ \E t \in task[w].todo :
          /\ ledger' = ledger \cup {t}
          /\ Goes(w, [task[w] EXCEPT !.ord = Applied(@, t), !.todo = @ \ {t}])
    /\ UNCHANGED <<venueVars, row, sent>>

(***************************************************************************)
(* _submit_under_lock.  A duplicate ends without a trace.                  *)
(***************************************************************************)
ReservesAgain(w) ==
    /\ task[w].pc = "idle"
    /\ row' = [NoRow EXCEPT !.there = TRUE, !.mark = "UNKNOWN"]
    /\ Goes(w, Saving([Idle EXCEPT !.op = "submit"], "submit"))
    /\ UNCHANGED <<venueVars, ledger, sent>>

SendsUnreserved(w) ==
    /\ task[w].pc = "idle"
    /\ ~row.there
    /\ Goes(w, [Idle EXCEPT !.op = "submit", !.pc = "send"])
    /\ UNCHANGED <<venueVars, row, ledger, sent>>

Reserves(w) ==
    /\ task[w].pc = "idle"
    /\ ~row.there
    /\ row' = [NoRow EXCEPT !.there = TRUE, !.mark = "UNKNOWN"]
    /\ Goes(w, Saving([Idle EXCEPT !.op = "submit"], "submit"))
    /\ UNCHANGED <<venueVars, ledger, sent>>

Submitted(w) ==
    /\ task[w].pc = "submit"
    /\ Goes(w, Saving([task[w] EXCEPT !.ord = TryTransition(@, "SUBMITTED")], "send"))
    /\ UNCHANGED <<venueVars, row, ledger, sent>>

Transmits(w) ==
    /\ task[w].pc = "send"
    /\ row' = [row EXCEPT !.mark = "UNKNOWN"]
    /\ inbox' = inbox \cup {[kind |-> "PLACE", order |-> Id, from |-> w]}
    /\ reply' = [reply EXCEPT ![w][Id] = Pending]
    /\ sent' = sent + 1
    /\ Goes(w, [task[w] EXCEPT !.pc = "sent"])
    /\ UNCHANGED <<venue, ledger>>

Hears(w, place, kinds) == task[w].pc = place /\ reply[w][Id].kind \in kinds

HangsUp(w) == reply' = [reply EXCEPT ![w][Id] = Closed] /\ UNCHANGED <<venue, inbox>>

Accepted(w) ==
    LET v == reply[w][Id].view IN
    /\ Hears(w, "sent", {"ACCEPTED"})
    /\ Goes(w, [task[w] EXCEPT !.pc = "filling", !.next = "clear", !.todo = v.fills,
                               !.ord = TryTransition(@, v.status)])
    /\ HangsUp(w)
    /\ UNCHANGED <<row, ledger, sent>>

\* _handle_rejection, _handle_definitive_failure
NotPlaced(w) ==
    /\ Hears(w, "sent", {"REJECTED", "REFUSED"})
    /\ Goes(w, Saving([task[w] EXCEPT !.ord =
                  TryTransition(@, IF reply[w][Id].kind = "REJECTED" THEN "REJECTED"
                                   ELSE "FAILED")], "clear"))
    /\ HangsUp(w)
    /\ UNCHANGED <<row, ledger, sent>>

\* _handle_unknown
FateUnknown(w) ==
    /\ task[w].pc = "sent"
    /\ row' = [row EXCEPT !.mark = "UNKNOWN"]
    /\ Goes(w, Saving(task[w], "idle"))
    /\ HangsUp(w)
    /\ UNCHANGED <<ledger, sent>>

\* set_reconciliation_state(IN_SYNC)
Clears(w) ==
    /\ task[w].pc = "clear"
    /\ row' = [row EXCEPT !.mark = "IN_SYNC"]
    /\ Goes(w, Idle)
    /\ UNCHANGED <<venueVars, ledger, sent>>

(***************************************************************************)
(* cancel, after get_order of the route.                                   *)
(***************************************************************************)
CancelLoads(w) ==
    /\ task[w].pc = "idle"
    /\ row.there /\ row.status \notin TerminalStatuses
    /\ Goes(w, [Idle EXCEPT !.pc = "check", !.op = "cancel", !.ord = Loaded])
    /\ UNCHANGED <<venueVars, row, ledger, sent>>

CancelChecks(w) ==
    LET t == task[w] IN
    /\ t.pc = "check"
    /\ Goes(w, IF row.mark # "IN_SYNC" THEN Idle
               ELSE IF IsLegalTransition(t.ord.status, "CANCEL_REQUESTED")
               THEN Saving([t EXCEPT !.ord = TryTransition(@, "CANCEL_REQUESTED")],
                           "cancel")
               ELSE [t EXCEPT !.pc = "cancel"])
    /\ UNCHANGED <<venueVars, row, ledger, sent>>

CancelTransmits(w) ==
    /\ task[w].pc = "cancel"
    /\ inbox' = inbox \cup {[kind |-> "CANCEL", order |-> Id, from |-> w]}
    /\ reply' = [reply EXCEPT ![w][Id] = Pending]
    /\ Goes(w, [task[w] EXCEPT !.pc = "cancelling"])
    /\ UNCHANGED <<venue, row, ledger, sent>>

Cancelled(w) ==
    /\ Hears(w, "cancelling", {"CANCELLED"})
    /\ Goes(w, Saving([task[w] EXCEPT !.ord = TryTransition(@, "CANCELLED")], "idle"))
    /\ HangsUp(w)
    /\ UNCHANGED <<row, ledger, sent>>

\* An order the venue no longer has is taken for cancelled.
GoneIsCancelled(w) ==
    /\ Hears(w, "cancelling", {"GONE"})
    /\ Goes(w, Saving([task[w] EXCEPT !.ord = TryTransition(@, "CANCELLED")], "idle"))
    /\ HangsUp(w)
    /\ UNCHANGED <<row, ledger, sent>>

NotCancelled(w) ==
    /\ Hears(w, "cancelling", {"GONE", "REFUSED"})
    /\ Goes(w, Idle)
    /\ HangsUp(w)
    /\ UNCHANGED <<row, ledger, sent>>

CancelUnknown(w) ==
    /\ task[w].pc = "cancelling"
    /\ row' = [row EXCEPT !.mark = "UNKNOWN"]
    /\ Goes(w, Idle)
    /\ HangsUp(w)
    /\ UNCHANGED <<ledger, sent>>

(***************************************************************************)
(* reconcile_account.  Its flagged part raises on this store, whatever is  *)
(* flagged, after the open orders are done.                                *)
(***************************************************************************)
PassLists(w) ==
    /\ task[w].pc = "idle"
    /\ row.there /\ row.status \notin TerminalStatuses
    /\ Goes(w, [Idle EXCEPT !.pc = "ask", !.op = "pass", !.ord = Loaded])
    /\ UNCHANGED <<venueVars, row, ledger, sent>>

Adopting(t, v) == [t EXCEPT !.pc = "filling", !.view = v, !.todo = v.fills]

\* fetch_open_orders: the order is among them, or has to be asked about.
PassAsks(w) ==
    /\ task[w].pc = "ask"
    /\ Goes(w, IF IsLive(venue[Id]) THEN Adopting(task[w], venue[Id])
               ELSE [task[w] EXCEPT !.pc = "query"])
    /\ UNCHANGED <<venueVars, row, ledger, sent>>

\* _fetch_venue_order
PassQueries(w) ==
    /\ task[w].pc = "query"
    /\ Goes(w, IF venue[Id] = Absent
               THEN Saving([task[w] EXCEPT !.ord = TryTransition(@, "FAILED")], "idle")
               ELSE Adopting(task[w], venue[Id]))
    /\ UNCHANGED <<venueVars, row, ledger, sent>>

\* A pass that adopts the fills and not the status.
AdoptsFillsOnly(w) ==
    LET t == task[w] IN
    /\ t.pc = "filling" /\ t.op = "pass" /\ t.todo = {}
    /\ Goes(w, Saving(t, "idle"))
    /\ UNCHANGED <<venueVars, row, ledger, sent>>

\* _adopt_venue_state, after the fills.
Adopts(w) ==
    LET t == task[w] IN
    /\ t.pc = "filling" /\ t.op = "pass" /\ t.todo = {}
    /\ Goes(w, Saving([t EXCEPT !.ord = TryTransition(@, t.view.status)], "idle"))
    /\ row' = IF t.view.status = t.ord.status
                 \/ IsLegalTransition(t.ord.status, t.view.status)
              THEN row ELSE [row EXCEPT !.mark = "DIVERGED"]
    /\ UNCHANGED <<venueVars, ledger, sent>>

(***************************************************************************)
(* A process dies, or an error that nobody catches ends the operation.     *)
(***************************************************************************)
Crashes(w) ==
    /\ task[w].pc # "idle"
    /\ Goes(w, Idle)
    /\ HangsUp(w)
    /\ UNCHANGED <<row, ledger, sent>>

StoreStep(w) == ReadsMark(w) \/ Writes(w) \/ RecordsFill(w)

SubmitStep(w) == \/ Reserves(w) \/ Submitted(w) \/ Transmits(w) \/ Accepted(w)
                 \/ NotPlaced(w) \/ FateUnknown(w) \/ Clears(w)

CancelStep(w) == \/ CancelLoads(w) \/ CancelChecks(w) \/ CancelTransmits(w)
                 \/ Cancelled(w) \/ NotCancelled(w) \/ CancelUnknown(w)

PassStep(w) == PassLists(w) \/ PassAsks(w) \/ PassQueries(w) \/ Adopts(w)

Next ==
    \/ VenueNext /\ UNCHANGED <<row, ledger, sent, task>>
    \/ \E w \in Tasks : \/ StoreStep(w) \/ SubmitStep(w) \/ CancelStep(w)
                        \/ PassStep(w) \/ Crashes(w)

Spec == Init /\ [][Next]_vars

(***************************************************************************)
(* Passes are begun again and again and go on, unless they die.            *)
(***************************************************************************)
FairSpec == Spec /\ \A w \in Tasks : WF_vars(StoreStep(w) \/ PassStep(w))

(***************************************************************************)
(* Properties.                                                             *)
(***************************************************************************)
\* An intent that is submitted again, by any process, after any crash, is never
\* transmitted a second time.
AtMostOnceSent == sent <= 1

\* While the venue may still come to know of the order, the row says that its
\* fate is not known, whoever died or saved a stale object meanwhile.
InFlightIsMarked ==
    (\E m \in inbox : m.kind = "PLACE") => row.there /\ row.mark # "IN_SYNC"

\* A row that says filled, cancelled or expired says what the venue says, although
\* every process overwrites it with an object of its own.
FinalIsVenueTruth ==
    row.status \in {"FILLED", "CANCELLED", "EXPIRED"} => venue[Id].status = row.status

\* The row never counts a trade that the ledger lacks, nor the ledger one that
\* the venue does not have, at whatever point a process dies.
RowBehindLedger == row.filled \subseteq ledger /\ ledger \subseteq venue[Id].fills

\* From some time on passes are all that goes on, the order being over at the
\* venue or unknown to it.
OverAndQuiet ==
    <>[](/\ ~IsLive(venue[Id]) /\ inbox = {}
         /\ \A w \in Tasks : task[w].op \in {"none", "pass"})

\* Such an order does not stay open in the row, wherever its submission, its
\* cancel and earlier passes died, unless passes go on dying, or find again and
\* again that its status is out of reach and flag it.
OverIsSeen ==
    OverAndQuiet =>
        \/ []<><<\E w \in Tasks : Crashes(w)>>_vars
        \/ []<>(row.there => row.status \in TerminalStatuses \/ row.mark = "DIVERGED")
=============================================================================
