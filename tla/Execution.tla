------------------------------- MODULE Execution -------------------------------
(***************************************************************************)
(* The execution engine and the reconciliation service of                  *)
(* libs/trading-core/wlct_trading/execution over the in-memory order       *)
(* store: one process, whose asyncio tasks share the Order objects.  The   *)
(* store and an uncontended lock never suspend a task, so the code between *)
(* two waits for a lock or for the venue is one action.                    *)
(***************************************************************************)
EXTENDS Venue, Naturals

CONSTANTS
  Submitters,        \* tasks running ExecutionEngine.submit, once each
  Cancellers,        \* tasks running ExecutionEngine.cancel, again and again
  Reconcilers,       \* tasks running ReconciliationService.reconcile_account
  Intent,            \* the client order id each submitter's intent hashes to
  ViewCarriesFills,  \* does the adapter's order query return the trades?
  None

ASSUME ExecutionAssumption ==
  /\ Intent \in [Submitters -> Orders]
  /\ Submitters \cap Cancellers = {}
  /\ Tasks = Submitters \cup Cancellers
  /\ ViewCarriesFills \in BOOLEAN
  /\ None \notin Tasks \cup Reconcilers \cup Orders

VARIABLES
  dryRun,       \* settings.dry_run, fixed when the engine is wired
  reserved,     \* client order ids the store has given out
  order,        \* the shared Order object of each reserved id
  recon,        \* its reconciliation state in the store
  stored,       \* trades in the store's fill ledger
  booked,       \* how many times each trade was folded into the position
  sent,         \* how many placements were transmitted (a counter)
  accountLock,  \* holder of the account lock (all orders are of one account)
  orderLock,    \* holder of each order lock
  reconLock,    \* holder of the account's reconciliation lock
  sub,          \* submitters
  can,          \* cancellers
  pass          \* reconciliation passes

orderVars == <<reserved, order, recon, stored, booked, sent>>
lockVars == <<accountLock, orderLock, reconLock>>
vars == <<venueVars, dryRun, orderVars, lockVars, sub, can, pass>>

ReconStates == {"IN_SYNC", "UNKNOWN", "DIVERGED"}
BlockingStates == {"UNKNOWN", "DIVERGED"}  \* blocks_further_submission
Outcomes == {"NONE", "ACCEPTED", "REJECTED_LOCALLY", "REJECTED_BY_EXCHANGE",
             "DUPLICATE", "UNKNOWN", "DRY_RUN", "RAISED"}

Sub == [pc : {"idle", "waiting", "sent", "done"}, outcome : Outcomes]
Can == [pc : {"idle", "waiting", "sent"}, target : Orders \cup {None}]
Pass == [pc     : {"idle", "listing", "orders", "missing", "flagged", "asking",
                   "resolving"},
         todo   : SUBSET Orders,
         open   : [Orders -> VenueOrder],
         cur    : Orders \cup {None},
         answer : VenueOrder]

NothingOpen == [o \in Orders |-> Absent]
IdlePass == [pc |-> "idle", todo |-> {}, open |-> NothingOpen, cur |-> None,
             answer |-> Absent]

EngineTypeOK ==
  /\ dryRun \in BOOLEAN
  /\ reserved \in SUBSET Orders
  /\ order \in [Orders -> OrderRecord]
  /\ recon \in [Orders -> ReconStates]
  /\ stored \in [Orders -> SUBSET Trades]
  /\ booked \in [Orders -> [Trades -> Nat]]
  /\ sent \in [Orders -> Nat]

LockTypeOK ==
  /\ accountLock \in Submitters \cup {None}
  /\ orderLock \in [Orders -> Cancellers \cup {None}]
  /\ reconLock \in Reconcilers \cup {None}

(* A task that is busy with an order knows which. *)
TaskTypeOK ==
  /\ sub \in [Submitters -> Sub]
  /\ can \in [Cancellers -> Can]
  /\ pass \in [Reconcilers -> Pass]
  /\ \A c \in Cancellers : can[c].pc # "idle" => can[c].target \in Orders
  /\ \A r \in Reconcilers :
       pass[r].pc \in {"missing", "asking", "resolving"} => pass[r].cur \in Orders

TypeOK == VenueTypeOK /\ EngineTypeOK /\ LockTypeOK /\ TaskTypeOK

Init ==
  /\ VenueInit
  /\ dryRun \in BOOLEAN
  /\ reserved = {}
  /\ order = [o \in Orders |-> NewOrder]
  /\ recon = [o \in Orders |-> "IN_SYNC"]
  /\ stored = [o \in Orders |-> {}]
  /\ booked = [o \in Orders |-> [t \in Trades |-> 0]]
  /\ sent = [o \in Orders |-> 0]
  /\ accountLock = None
  /\ orderLock = [o \in Orders |-> None]
  /\ reconLock = None
  /\ sub = [s \in Submitters |-> [pc |-> "idle", outcome |-> "NONE"]]
  /\ can = [c \in Cancellers |-> [pc |-> "idle", target |-> None]]
  /\ pass = [r \in Reconcilers |-> IdlePass]
--------------------------------------------------------------------------------
IsTerminal(o) == order[o].status \in TerminalStatuses

(* A mistake to be caught: a trade is booked each time it comes. *)
BookAgain(o, ts) ==
  /\ stored' = [stored EXCEPT ![o] = @ \cup ts]
  /\ booked' = [booked EXCEPT ![o] = [t \in Trades |->
                                        IF t \in ts THEN @[t] + 1 ELSE @[t]]]

(* ExecutionEngine._apply_fill and the loop of _adopt_venue_state: a trade is
   recorded in the ledger, in the order and, when it is new to both, in the
   position. *)
Book(o, ts) ==
  LET new == ts \ (stored[o] \cup order[o].fills) IN
  /\ stored' = [stored EXCEPT ![o] = @ \cup ts]
  /\ booked' = [booked EXCEPT ![o] = [t \in Trades |->
                                        IF t \in new THEN @[t] + 1 ELSE @[t]]]

Mark(o, state) == recon' = [recon EXCEPT ![o] = state]

OpenConnection(t, o) == [reply EXCEPT ![t][o] = Pending]
CloseConnection(t, o) == [reply EXCEPT ![t][o] = Closed]

(* The token comparison of LockManager.release: an expired lock, which another
   task may hold by now, is left alone. *)
Released(lock, t) == IF lock = t THEN None ELSE lock
--------------------------------------------------------------------------------
(* submit: the account lock.  Its acquisition polls until a deadline. *)
SubmitWaits(s) ==
  /\ sub[s].pc = "idle" /\ accountLock # None
  /\ sub' = [sub EXCEPT ![s].pc = "waiting"]
  /\ UNCHANGED <<venueVars, dryRun, orderVars, lockVars, can, pass>>

SubmitGivesUp(s) ==
  /\ sub[s].pc = "waiting" /\ accountLock # None
  /\ sub' = [sub EXCEPT ![s] = [pc |-> "done", outcome |-> "REJECTED_LOCALLY"]]
  /\ UNCHANGED <<venueVars, dryRun, orderVars, lockVars, can, pass>>

MayEnter(s) == sub[s].pc \in {"idle", "waiting"} /\ accountLock = None

(* A mistake to be caught: an intent whose order failed is sent once more. *)
IsUnusedOrFailed(o) == o \notin reserved \/ order[o].status = "FAILED"

(* OrderStore.reserve_client_order_id *)
IsUnused(o) == o \notin reserved

(* A mistake to be caught: the unknown marker waits for the answer. *)
MarkLater(o) == UNCHANGED recon

(* Mark before acting. *)
MarkInFlight(o) == Mark(o, "UNKNOWN")

(* _submit_under_lock *)
SubmitDuplicate(s) ==
  /\ MayEnter(s) /\ ~IsUnused(Intent[s])
  /\ sub' = [sub EXCEPT ![s] = [pc |-> "done", outcome |-> "DUPLICATE"]]
  /\ UNCHANGED <<venueVars, dryRun, orderVars, lockVars, can, pass>>

SubmitDryRun(s) ==
  LET o == Intent[s] IN
  /\ MayEnter(s) /\ IsUnused(o) /\ dryRun
  /\ reserved' = reserved \cup {o}
  /\ order' = [order EXCEPT ![o] = TryTransition(NewOrder, "CANCELLED")]
  /\ sub' = [sub EXCEPT ![s] = [pc |-> "done", outcome |-> "DRY_RUN"]]
  /\ UNCHANGED <<venueVars, dryRun, recon, stored, booked, sent, lockVars, can, pass>>

SubmitTransmits(s) ==
  LET o == Intent[s] IN
  /\ MayEnter(s) /\ IsUnused(o) /\ ~dryRun
  /\ reserved' = reserved \cup {o}
  /\ order' = [order EXCEPT ![o] = TryTransition(NewOrder, "SUBMITTED")]
  /\ MarkInFlight(o)
  /\ sent' = [sent EXCEPT ![o] = @ + 1]
  /\ inbox' = inbox \cup {[kind |-> "PLACE", order |-> o, from |-> s]}
  /\ reply' = OpenConnection(s, o)
  /\ accountLock' = s
  /\ sub' = [sub EXCEPT ![s].pc = "sent"]
  /\ UNCHANGED <<venue, dryRun, stored, booked, orderLock, reconLock, can, pass>>

(* What every outcome of a transmitted submission does last. *)
SubmitEnds(s, outcome) ==
  /\ reply' = CloseConnection(s, Intent[s])
  /\ accountLock' = Released(accountLock, s)
  /\ sub' = [sub EXCEPT ![s] = [pc |-> "done", outcome |-> outcome]]
  /\ UNCHANGED <<venue, inbox, dryRun, reserved, sent, orderLock, reconLock, can, pass>>

(* _handle_accepted: the status the venue reports, then the fills. *)
SubmitAccepted(s) ==
  LET o == Intent[s]
      v == reply[s][o].view IN
  /\ sub[s].pc = "sent" /\ reply[s][o].kind = "ACCEPTED"
  /\ order' = [order EXCEPT ![o] = ApplyFills(TryTransition(@, v.status), v.fills)]
  /\ Book(o, v.fills)
  /\ Mark(o, "IN_SYNC")
  /\ SubmitEnds(s, "ACCEPTED")

(* _handle_rejection, and _handle_accepted of a result that is not accepted *)
SubmitRejected(s) ==
  LET o == Intent[s] IN
  /\ sub[s].pc = "sent" /\ reply[s][o].kind = "REJECTED"
  /\ order' = [order EXCEPT ![o] = TryTransition(@, "REJECTED")]
  /\ Mark(o, "IN_SYNC")
  /\ UNCHANGED <<stored, booked>>
  /\ SubmitEnds(s, "REJECTED_BY_EXCHANGE")

(* _handle_definitive_failure *)
SubmitRefused(s) ==
  LET o == Intent[s] IN
  /\ sub[s].pc = "sent" /\ reply[s][o].kind = "REFUSED"
  /\ order' = [order EXCEPT ![o] = TryTransition(@, "FAILED")]
  /\ Mark(o, "IN_SYNC")
  /\ UNCHANGED <<stored, booked>>
  /\ SubmitEnds(s, "REJECTED_LOCALLY")

(* _handle_unknown, on a timeout or a connection error.  Re-entering SUBMITTED
   is a transition of no status, so it raises when the order has moved on. *)
SubmitUnknown(s) ==
  LET o == Intent[s] IN
  /\ sub[s].pc = "sent"
  /\ Mark(o, "UNKNOWN")
  /\ UNCHANGED <<order, stored, booked>>
  /\ SubmitEnds(s, IF order[o].status = "SUBMITTED" THEN "UNKNOWN" ELSE "RAISED")

(* apply_external_fill: the private stream delivers a trade, possibly again. *)
StreamFill(o, t) ==
  /\ o \in reserved /\ t \in venue[o].fills
  /\ order' = [order EXCEPT ![o] = ApplyFill(@, t)]
  /\ Book(o, {t})
  /\ UNCHANGED <<venueVars, dryRun, reserved, recon, sent, lockVars, sub, can, pass>>
--------------------------------------------------------------------------------
(* cancel: the refusals come before the order lock and are not repeated. *)
MayCancel(o) == o \in reserved /\ recon[o] \notin BlockingStates /\ ~IsTerminal(o)

CancelTransmits(c, o) ==
  /\ order' = [order EXCEPT ![o] = TryTransition(@, "CANCEL_REQUESTED")]
  /\ inbox' = inbox \cup {[kind |-> "CANCEL", order |-> o, from |-> c]}
  /\ reply' = OpenConnection(c, o)
  /\ orderLock' = [orderLock EXCEPT ![o] = c]
  /\ can' = [can EXCEPT ![c] = [pc |-> "sent", target |-> o]]
  /\ UNCHANGED <<venue, dryRun, reserved, recon, stored, booked, sent, accountLock,
                 reconLock, sub, pass>>

CancelNow(c, o) ==
  /\ can[c].pc = "idle" /\ MayCancel(o) /\ orderLock[o] = None
  /\ CancelTransmits(c, o)

CancelWaits(c, o) ==
  /\ can[c].pc = "idle" /\ MayCancel(o) /\ orderLock[o] # None
  /\ can' = [can EXCEPT ![c] = [pc |-> "waiting", target |-> o]]
  /\ UNCHANGED <<venueVars, dryRun, orderVars, lockVars, sub, pass>>

CancelResumes(c) ==
  /\ can[c].pc = "waiting" /\ orderLock[can[c].target] = None
  /\ CancelTransmits(c, can[c].target)

(* LockNotAcquired leaves cancel as an exception. *)
CancelGivesUp(c) ==
  /\ can[c].pc = "waiting" /\ orderLock[can[c].target] # None
  /\ can' = [can EXCEPT ![c] = [pc |-> "idle", target |-> None]]
  /\ UNCHANGED <<venueVars, dryRun, orderVars, lockVars, sub, pass>>

CancelEnds(c) ==
  /\ reply' = CloseConnection(c, can[c].target)
  /\ orderLock' = [orderLock EXCEPT ![can[c].target] = Released(@, c)]
  /\ can' = [can EXCEPT ![c] = [pc |-> "idle", target |-> None]]
  /\ UNCHANGED <<venue, inbox, dryRun, reserved, stored, booked, sent, accountLock,
                 reconLock, sub, pass>>

CancelAccepted(c) ==
  /\ can[c].pc = "sent" /\ reply[c][can[c].target].kind = "CANCELLED"
  /\ order' = [order EXCEPT ![can[c].target] = TryTransition(@, "CANCELLED")]
  /\ UNCHANGED recon
  /\ CancelEnds(c)

(* A mistake to be caught: an order the venue cannot find to cancel is taken for
   a cancelled one. *)
CancelGoneIsDone(c) ==
  /\ can[c].pc = "sent" /\ reply[c][can[c].target].kind \in {"GONE", "REFUSED"}
  /\ order' = [order EXCEPT ![can[c].target] = TryTransition(@, "CANCELLED")]
  /\ UNCHANGED recon
  /\ CancelEnds(c)

CancelRefused(c) ==
  /\ can[c].pc = "sent" /\ reply[c][can[c].target].kind \in {"GONE", "REFUSED"}
  /\ UNCHANGED <<order, recon>>
  /\ CancelEnds(c)

CancelUnknown(c) ==
  /\ can[c].pc = "sent"
  /\ Mark(can[c].target, "UNKNOWN")
  /\ UNCHANGED order
  /\ CancelEnds(c)
--------------------------------------------------------------------------------
(* reconcile_account.  A venue answer describes the venue when it answered. *)
View(v) == IF ViewCarriesFills THEN v ELSE [v EXCEPT !.fills = {}]

PassTo(r, p) == pass' = [pass EXCEPT ![r] = p]

PassBegins(r) ==
  /\ pass[r].pc = "idle" /\ reconLock = None
  /\ reconLock' = r
  /\ PassTo(r, [IdlePass EXCEPT !.pc = "listing",
                                !.todo = {o \in reserved : ~IsTerminal(o)}])
  /\ UNCHANGED <<venueVars, dryRun, orderVars, accountLock, orderLock, sub, can>>

PassLists(r) ==
  /\ pass[r].pc = "listing"
  /\ PassTo(r, [pass[r] EXCEPT
                  !.pc = "orders",
                  !.open = [o \in Orders |-> IF IsLive(venue[o]) THEN View(venue[o])
                                                                 ELSE Absent]])
  /\ UNCHANGED <<venueVars, dryRun, orderVars, lockVars, sub, can>>

(* A mistake to be caught: the status first, and no fills for a closed order. *)
AdoptedStatusFirst(o, v) ==
  LET moved == TryTransition(order[o], v.status) IN
  IF moved.status \in TerminalStatuses THEN moved ELSE ApplyFills(moved, v.fills)

(* _adopt_venue_state: the fills, then the status if it can be reached. *)
Adopted(o, v) == TryTransition(ApplyFills(order[o], v.fills), v.status)

(* A mistake to be caught: the answer's status is taken as it is. *)
AnswerAsItIs(o, v) == [ApplyFills(order[o], v.fills) EXCEPT !.status = v.status]

(* What a lookup by client order id makes of the order: the venue not knowing it
   means that it was never placed. *)
Resolution(o, v) ==
  IF v = Absent THEN TryTransition(order[o], "FAILED") ELSE Adopted(o, v)

(* _adopt_venue_state finds the venue's status out of reach. *)
Diverges(o, v) ==
  LET filled == ApplyFills(order[o], v.fills).status IN
  v # Absent /\ filled # v.status /\ ~IsLegalTransition(filled, v.status)

Resolve(o, v) ==
  /\ order' = [order EXCEPT ![o] = Resolution(o, v)]
  /\ Book(o, v.fills)

FlagIfDiverged(o, v) ==
  IF Diverges(o, v) THEN Mark(o, "DIVERGED") ELSE UNCHANGED recon

AdoptListed(r, o) ==
  LET v == pass[r].open[o] IN
  /\ pass[r].pc = "orders" /\ o \in pass[r].todo /\ v # Absent
  /\ Resolve(o, v) /\ FlagIfDiverged(o, v)
  /\ PassTo(r, [pass[r] EXCEPT !.todo = @ \ {o}])
  /\ UNCHANGED <<venueVars, dryRun, reserved, sent, lockVars, sub, can>>

(* _fetch_venue_order of an order the venue did not list *)
AskMissing(r, o) ==
  /\ pass[r].pc = "orders" /\ o \in pass[r].todo /\ pass[r].open[o] = Absent
  /\ PassTo(r, [pass[r] EXCEPT !.pc = "missing", !.cur = o,
                               !.answer = View(venue[o])])
  /\ UNCHANGED <<venueVars, dryRun, orderVars, lockVars, sub, can>>

Answered(r, pc) ==
  PassTo(r, [pass[r] EXCEPT !.pc = pc, !.todo = @ \ {pass[r].cur}, !.cur = None,
                            !.answer = Absent])

ApplyMissing(r) ==
  LET o == pass[r].cur
      v == pass[r].answer IN
  /\ pass[r].pc = "missing"
  /\ Resolve(o, v) /\ FlagIfDiverged(o, v)
  /\ Answered(r, "orders")
  /\ UNCHANGED <<venueVars, dryRun, reserved, sent, lockVars, sub, can>>

(* A mistake to be caught: only open orders are looked at again. *)
NeedsReconciliationIfOpen(o) == ~IsTerminal(o)

(* list_orders_needing_reconciliation *)
NeedsReconciliation(o) == recon[o] # "IN_SYNC" \/ ~IsTerminal(o)

PassFlagged(r) ==
  /\ pass[r].pc = "orders" /\ pass[r].todo = {}
  /\ PassTo(r, [IdlePass EXCEPT
                  !.pc = "flagged",
                  !.todo = {o \in reserved : NeedsReconciliation(o)}])
  /\ UNCHANGED <<venueVars, dryRun, orderVars, lockVars, sub, can>>

SkipFlagged(r, o) ==
  /\ pass[r].pc = "flagged" /\ o \in pass[r].todo /\ recon[o] # "UNKNOWN"
  /\ PassTo(r, [pass[r] EXCEPT !.todo = @ \ {o}])
  /\ UNCHANGED <<venueVars, dryRun, orderVars, lockVars, sub, can>>

AskFlagged(r, o) ==
  /\ pass[r].pc = "flagged" /\ o \in pass[r].todo /\ recon[o] = "UNKNOWN"
  /\ PassTo(r, [pass[r] EXCEPT !.pc = "asking", !.cur = o])
  /\ UNCHANGED <<venueVars, dryRun, orderVars, lockVars, sub, can>>

FlaggedAnswered(r) ==
  /\ pass[r].pc = "asking"
  /\ PassTo(r, [pass[r] EXCEPT !.pc = "resolving",
                               !.answer = View(venue[pass[r].cur])])
  /\ UNCHANGED <<venueVars, dryRun, orderVars, lockVars, sub, can>>

(* resolve_unknown_order: IN_SYNC whatever _adopt_venue_state concluded *)
ResolveUnknown(r) ==
  LET o == pass[r].cur
      v == pass[r].answer IN
  /\ pass[r].pc = "resolving"
  /\ Resolve(o, v) /\ Mark(o, "IN_SYNC")
  /\ Answered(r, "flagged")
  /\ UNCHANGED <<venueVars, dryRun, reserved, sent, lockVars, sub, can>>

(* A venue that cannot be reached ends the pass, except while a flagged order
   is resolved: that order stays unknown and the pass goes on. *)
VenueUnreachable(r) ==
  /\ \/ /\ pass[r].pc \in {"listing", "missing"}
        /\ PassTo(r, IdlePass)
        /\ reconLock' = Released(reconLock, r)
     \/ /\ pass[r].pc \in {"asking", "resolving"}
        /\ Answered(r, "flagged")
        /\ UNCHANGED reconLock
  /\ UNCHANGED <<venueVars, dryRun, orderVars, accountLock, orderLock, sub, can>>

PassEnds(r) ==
  /\ pass[r].pc = "flagged" /\ pass[r].todo = {}
  /\ PassTo(r, IdlePass)
  /\ reconLock' = Released(reconLock, r)
  /\ UNCHANGED <<venueVars, dryRun, orderVars, accountLock, orderLock, sub, can>>
--------------------------------------------------------------------------------
(* LockHandle.is_expired: no holder extends its lock, and none checks it. *)
LockExpires ==
  /\ \/ /\ accountLock # None /\ accountLock' = None
        /\ UNCHANGED <<orderLock, reconLock>>
     \/ /\ \E o \in Orders : /\ orderLock[o] # None
                             /\ orderLock' = [orderLock EXCEPT ![o] = None]
        /\ UNCHANGED <<accountLock, reconLock>>
     \/ /\ reconLock # None /\ reconLock' = None
        /\ UNCHANGED <<accountLock, orderLock>>
  /\ UNCHANGED <<venueVars, dryRun, orderVars, sub, can, pass>>

SubmitStep(s) ==
  \/ SubmitWaits(s) \/ SubmitGivesUp(s) \/ SubmitDuplicate(s) \/ SubmitDryRun(s)
  \/ SubmitTransmits(s) \/ SubmitAccepted(s) \/ SubmitRejected(s)
  \/ SubmitRefused(s) \/ SubmitUnknown(s)

CancelStep(c) ==
  \/ CancelResumes(c) \/ CancelGivesUp(c)
  \/ CancelAccepted(c) \/ CancelRefused(c) \/ CancelUnknown(c)
  \/ \E o \in Orders : CancelNow(c, o) \/ CancelWaits(c, o)

PassStep(r) ==
  \/ PassBegins(r) \/ PassLists(r) \/ ApplyMissing(r) \/ PassFlagged(r)
  \/ FlaggedAnswered(r) \/ ResolveUnknown(r) \/ PassEnds(r)
  \/ \E o \in Orders : \/ AdoptListed(r, o) \/ AskMissing(r, o)
                       \/ SkipFlagged(r, o) \/ AskFlagged(r, o)

ExchangeStep ==
  VenueNext /\ UNCHANGED <<dryRun, orderVars, lockVars, sub, can, pass>>

Next ==
  \/ \E s \in Submitters : SubmitStep(s)
  \/ \E o \in Orders : \E t \in Trades : StreamFill(o, t)
  \/ \E c \in Cancellers : CancelStep(c)
  \/ \E r \in Reconcilers : PassStep(r) \/ VenueUnreachable(r)
  \/ LockExpires
  \/ ExchangeStep

Spec == Init /\ [][Next]_vars

(* The tasks keep running, somebody keeps starting passes, and a venue asked
   again and again answers in the end.  Nothing is assumed of the stream, of the
   requests in flight or of the venue's own steps. *)
Fairness ==
  \A r \in Reconcilers :
    /\ WF_vars(PassStep(r))
    /\ SF_vars(PassLists(r)) /\ SF_vars(ApplyMissing(r))
    /\ SF_vars(FlaggedAnswered(r)) /\ SF_vars(ResolveUnknown(r))

FairSpec == Spec /\ Fairness
--------------------------------------------------------------------------------
(* "Ambiguity never resubmits" (engine.py): whatever is lost, times out, expires
   or is submitted again by another task, a client order id is transmitted to the
   venue at most once. *)
AtMostOnceSent == \A o \in Orders : sent[o] <= 1

(* The order, the fill ledger and the position agree: a trade that came by the
   placement answer, by the stream (once or more) and by a pass, in any order, is
   in all three, and was folded into the position once. *)
FillsBookedOnce ==
  \A o \in Orders :
    /\ stored[o] = order[o].fills
    /\ \A t \in Trades : booked[o][t] = (IF t \in stored[o] THEN 1 ELSE 0)

(* "Marking precedes acting" (engine.py): while a placement can still reach the
   venue, its order is flagged unknown, unless a pass has given it up. *)
InFlightIsMarked ==
  \A m \in inbox :
    m.kind = "PLACE" => \/ recon[m.order] = "UNKNOWN"
                        \/ order[m.order].status = "FAILED"

(* A final status is the venue's, whichever of the answers, the stream and the
   passes set it and in whatever order they came.  FAILED is the exception: see
   FailedNeverPlaced. *)
FinalIsVenueTruth ==
  \A o \in Orders :
    /\ order[o].status \in {"FILLED", "EXPIRED"} =>
         venue[o].status = order[o].status
    /\ order[o].status = "CANCELLED" /\ ~dryRun => venue[o].status = "CANCELLED"
    /\ order[o].status = "REJECTED" \/ dryRun => venue[o] = Absent

(* No message, no mark and no answer of the venue is about an order that was not
   transmitted: it is new or it was closed by a dry run. *)
UnsentIsUntouched ==
  \A o \in Orders :
    sent[o] = 0 =>
      /\ order[o] = [NewOrder EXCEPT !.status = IF o \in reserved THEN "CANCELLED" ELSE @]
      /\ recon[o] = "IN_SYNC" /\ venue[o] = Absent
      /\ \A m \in inbox : m.order # o

(* What a task works on was transmitted, and only what was handed out is. *)
WorkIsOnSent ==
  /\ \A o \in Orders : sent[o] # 0 => o \in reserved
  /\ \A s \in Submitters : sub[s].pc = "sent" => sent[Intent[s]] # 0
  /\ \A c \in Cancellers : can[c].target # None => sent[can[c].target] # 0
  /\ \A r \in Reconcilers : \A o \in pass[r].todo \cup {pass[r].cur} :
       o # None => sent[o] # 0

(* What LedgerSpec rests on: with TypeOK, every step keeps it. *)
LedgerInv == AtMostOnceSent /\ FillsBookedOnce /\ UnsentIsUntouched /\ WorkIsOnSent

(* What a user of the platform is promised, whatever the races behind it: see
   TradeLedger. *)
Ledger ==
  INSTANCE TradeLedger WITH
    placed <- sent,
    position <- booked,
    final <- [o \in Orders |-> IF IsTerminal(o) THEN order[o].status ELSE "OPEN"]

(* The engine and the passes together keep the ledger's promise: one placement an
   intent, one booking a trade, one final status an order. *)
LedgerSpec == Ledger!Spec

(* "Fills first, then status" (_adopt_venue_state): an order that claims to be
   filled has the trades to show for it. *)
FilledHasItsFills ==
  \A o \in Orders : order[o].status = "FILLED" => order[o].fills = Trades

(* "The order remains unknown and will be retried" (resolve_unknown_order): an
   order of unknown fate does not stay so. *)
UnknownIsResolved ==
  \A o \in Orders : recon[o] = "UNKNOWN" ~> recon[o] # "UNKNOWN"
--------------------------------------------------------------------------------
(* "The order never reached the matching engine" (resolve_unknown_order, on an
   answer that the venue does not know the order). *)
FailedNeverPlaced ==
  \A o \in Orders : order[o].status = "FAILED" => venue[o] = Absent
================================================================================
