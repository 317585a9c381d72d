--------------------------- MODULE ExecutionProofs ---------------------------
(***************************************************************************)
(* Theorems about Execution, for any sets of orders, trades and tasks.     *)
(***************************************************************************)
EXTENDS Execution, TLAPS

(* What Order.transition_to and _safe_transition may do to an order: nothing, or
   move an open one to the target. *)
LEMMA TransitionLemma ==
  ASSUME NEW ord \in OrderRecord, NEW target \in OrderStatuses
  PROVE  /\ TryTransition(ord, target) \in OrderRecord
         /\ TryTransition(ord, target).fills = ord.fills
         /\ TryTransition(ord, target).status \in {ord.status, target}
         /\ ord.status \in TerminalStatuses => TryTransition(ord, target) = ord
BY DEF TryTransition, IsLegalTransition, ORDER_STATE_TRANSITIONS, OrderRecord,
       OrderStatuses, OpenStatuses, TerminalStatuses

(* What Order.apply_fill may do, one trade or several: it adds the trades and
   never moves an order that has ended. *)
LEMMA FillsLemma ==
  ASSUME NEW ord \in OrderRecord, NEW ts \in SUBSET Trades
  PROVE  /\ ApplyFills(ord, ts) \in OrderRecord
         /\ ApplyFills(ord, ts).fills = ord.fills \cup ts
         /\ ApplyFills(ord, ts).status \in {ord.status, "FILLED", "PARTIALLY_FILLED"}
         /\ ApplyFills(ord, ts).status = "FILLED" =>
              ord.status = "FILLED" \/ ord.fills \cup ts = Trades
         /\ ord.status \in TerminalStatuses =>
              ApplyFills(ord, ts).status = ord.status
<1> DEFINE all == ord.fills \cup ts
           wider == [ord EXCEPT !.fills = all]
           target == IF all = Trades THEN "FILLED" ELSE "PARTIALLY_FILLED"
<1>1. wider \in OrderRecord /\ wider.fills = all /\ wider.status = ord.status
  BY DEF OrderRecord
<1>2. target \in OrderStatuses
  BY DEF OrderStatuses, OpenStatuses, TerminalStatuses
<1>3. CASE ts \subseteq ord.fills
  BY <1>3 DEF ApplyFills, OrderRecord
<1>4. CASE ~(ts \subseteq ord.fills)
  <2>1. ApplyFills(ord, ts) = TryTransition(wider, target)
    BY <1>4 DEF ApplyFills
  <2> HIDE DEF wider, target
  <2>2. /\ TryTransition(wider, target) \in OrderRecord
        /\ TryTransition(wider, target).fills = wider.fills
        /\ TryTransition(wider, target).status \in {wider.status, target}
        /\ wider.status \in TerminalStatuses => TryTransition(wider, target) = wider
    BY <1>1, <1>2, TransitionLemma
  <2> QED BY <1>1, <2>1, <2>2 DEF target
<1> QED BY <1>3, <1>4

LEMMA FillLemma ==
  ASSUME NEW ord \in OrderRecord, NEW t \in Trades
  PROVE  ApplyFill(ord, t) = ApplyFills(ord, {t})
BY DEF ApplyFill, ApplyFills

(* A trade that leaves an order partly filled closes no way that the next one takes,
   and opens none. *)
LEMMA LaterFillDecides ==
  ASSUME NEW ord \in OrderRecord, NEW target \in {"FILLED", "PARTIALLY_FILLED"}
  PROVE  TryTransition(TryTransition(ord, "PARTIALLY_FILLED"), target)
           = TryTransition(ord, target)
BY DEF TryTransition, IsLegalTransition, ORDER_STATE_TRANSITIONS, OrderRecord,
       OrderStatuses, OpenStatuses, TerminalStatuses

(* "Apply one execution slice.  Duplicate fill ids are ignored" (apply_fill): one more
   turn of a loop over the fills of an answer is one more trade for ApplyFills, and
   no turn is none.  So the model may apply the fills of an answer in one step. *)
THEOREM FillsAreOneStep ==
  ASSUME NEW ord \in OrderRecord, NEW ts \in SUBSET Trades, NEW t \in Trades
  PROVE  /\ ApplyFill(ApplyFills(ord, ts), t) = ApplyFills(ord, ts \cup {t})
         /\ ApplyFills(ord, {}) = ord
<1> DEFINE mid == ApplyFills(ord, ts)
           all == ord.fills \cup ts
           target == IF all \cup {t} = Trades THEN "FILLED" ELSE "PARTIALLY_FILLED"
<1>0. ApplyFills(ord, {}) = ord
  BY DEF ApplyFills
<1>1. mid \in OrderRecord /\ mid.fills = all
  BY FillsLemma
<1>2. CASE t \in all
  <2>1. ApplyFill(mid, t) = mid
    BY <1>1, <1>2 DEF ApplyFill
  <2>2. all \cup {t} = all /\ ord.fills \cup (ts \cup {t}) = all
    BY <1>2
  <2>3. ts \cup {t} \subseteq ord.fills <=> ts \subseteq ord.fills
    <3>1. CASE t \in ord.fills
      BY <3>1
    <3>2. CASE t \in ts
      BY <3>2
    <3> QED BY <1>2, <3>1, <3>2
  <2>4. ApplyFills(ord, ts \cup {t}) = mid
    BY <2>2, <2>3 DEF ApplyFills
  <2> QED BY <1>0, <2>1, <2>4
<1>3. CASE t \notin all
  <2> DEFINE wide(o) == [o EXCEPT !.fills = all \cup {t}]
  <2>1. ApplyFill(mid, t) = TryTransition(wide(mid), target)
    BY <1>1, <1>3 DEF ApplyFill
  <2>2. ApplyFills(ord, ts \cup {t}) = TryTransition(wide(ord), target)
    <3>1. ~(ts \cup {t} \subseteq ord.fills) /\ ord.fills \cup (ts \cup {t}) = all \cup {t}
      BY <1>3
    <3> QED BY <3>1 DEF ApplyFills
  <2>3. CASE ts \subseteq ord.fills
    BY <1>0, <2>1, <2>2, <2>3 DEF ApplyFills
  <2>4. CASE ~(ts \subseteq ord.fills)
    <3>1. all # Trades
      BY <1>3
    <3>2. mid = TryTransition([ord EXCEPT !.fills = all], "PARTIALLY_FILLED")
      BY <2>4, <3>1 DEF ApplyFills
    <3>3. wide(mid) = TryTransition(wide(ord), "PARTIALLY_FILLED")
      BY <3>2 DEF TryTransition, IsLegalTransition, OrderRecord
    <3>4. target \in {"FILLED", "PARTIALLY_FILLED"}
      OBVIOUS
    <3>5. wide(ord) \in OrderRecord
      BY DEF OrderRecord
    <3> HIDE DEF wide, target
    <3>6. TryTransition(TryTransition(wide(ord), "PARTIALLY_FILLED"), target)
            = TryTransition(wide(ord), target)
      BY <3>4, <3>5, LaterFillDecides
    <3> QED BY <1>0, <2>1, <2>2, <3>3, <3>6
  <2> QED BY <2>3, <2>4
<1> QED BY <1>2, <1>3

(* Two trades may be reported in either order, by whichever way: the order ends up
   the same, whatever its status was. *)
THEOREM FillsCommute ==
  ASSUME NEW ord \in OrderRecord, NEW t \in Trades, NEW u \in Trades
  PROVE  ApplyFill(ApplyFill(ord, t), u) = ApplyFill(ApplyFill(ord, u), t)
<1>1. ApplyFill(ord, t) = ApplyFills(ord, {t}) /\ ApplyFill(ord, u) = ApplyFills(ord, {u})
  BY FillLemma
<1>2. /\ ApplyFill(ApplyFills(ord, {t}), u) = ApplyFills(ord, {t} \cup {u})
      /\ ApplyFill(ApplyFills(ord, {u}), t) = ApplyFills(ord, {u} \cup {t})
  BY FillsAreOneStep
<1>3. {t} \cup {u} = {u} \cup {t}
  OBVIOUS
<1> QED BY <1>1, <1>2, <1>3

--------------------------------------------------------------------------------
(* Types.  A venue's view of an order is one, and what is made of it is an order. *)
LEMMA ViewLemma ==
  ASSUME NEW v \in VenueOrder
  PROVE  /\ View(v) \in VenueOrder
         /\ View(v).status = v.status
         /\ View(v).fills \subseteq v.fills
BY DEF View, VenueOrder

LEMMA AbsentLemma == Absent \in VenueOrder /\ Closed \in Reply /\ Pending \in Reply
BY DEF Absent, VenueOrder, VenueStatuses, Closed, Pending, Reply, ReplyKinds

LEMMA VenueStatusLemma ==
  ASSUME NEW v \in VenueOrder, v # Absent
  PROVE  v.status \in OrderStatuses /\ v.status \in VenueStatuses \ {"ABSENT"}
BY DEF VenueOrder, VenueStatuses, LiveStatuses, Absent, OrderStatuses, OpenStatuses,
       TerminalStatuses

(* What a venue answer makes of the order: it adds the answer's trades and never
   moves an order that has ended. *)
LEMMA AdoptedLemma ==
  ASSUME order \in [Orders -> OrderRecord], NEW o \in Orders,
         NEW v \in VenueOrder, v # Absent
  PROVE  /\ Adopted(o, v) \in OrderRecord
         /\ Adopted(o, v).fills = order[o].fills \cup v.fills
         /\ Adopted(o, v).status \in {order[o].status, ApplyFills(order[o], v.fills).status,
                                      v.status}
         /\ IsTerminal(o) => Adopted(o, v).status = order[o].status
<1>1. v.fills \in SUBSET Trades /\ v.status \in OrderStatuses
  BY VenueStatusLemma DEF VenueOrder
<1>2. order[o] \in OrderRecord
  OBVIOUS
<1> DEFINE filled == ApplyFills(order[o], v.fills)
<1>3. /\ filled \in OrderRecord
      /\ filled.fills = order[o].fills \cup v.fills
      /\ IsTerminal(o) => filled.status = order[o].status
  BY <1>1, <1>2, FillsLemma DEF IsTerminal
<1> HIDE DEF filled
<1>4. /\ TryTransition(filled, v.status) \in OrderRecord
      /\ TryTransition(filled, v.status).fills = filled.fills
      /\ TryTransition(filled, v.status).status \in {filled.status, v.status}
      /\ filled.status \in TerminalStatuses => TryTransition(filled, v.status) = filled
  BY <1>1, <1>3, TransitionLemma
<1>5. Adopted(o, v) = TryTransition(filled, v.status)
  BY DEF Adopted, filled
<1> QED BY <1>3, <1>4, <1>5 DEF filled, IsTerminal

LEMMA ResolutionLemma ==
  ASSUME order \in [Orders -> OrderRecord], NEW o \in Orders, NEW v \in VenueOrder
  PROVE  /\ Resolution(o, v) \in OrderRecord
         /\ Resolution(o, v).fills = order[o].fills \cup v.fills
         /\ IsTerminal(o) => Resolution(o, v).status = order[o].status
<1>1. CASE v = Absent
  <2>1. v.fills = {} /\ Resolution(o, v) = TryTransition(order[o], "FAILED")
    BY <1>1 DEF Absent, Resolution
  <2>2. order[o] \in OrderRecord /\ "FAILED" \in OrderStatuses
    BY DEF OrderStatuses, TerminalStatuses
  <2> QED BY <2>1, <2>2, TransitionLemma DEF IsTerminal
<1>2. CASE v # Absent
  BY <1>2, AdoptedLemma DEF Resolution
<1> QED BY <1>1, <1>2

LEMMA BookLemma ==
  ASSUME stored \in [Orders -> SUBSET Trades], booked \in [Orders -> [Trades -> Nat]],
         NEW o \in Orders, NEW ts \in SUBSET Trades, Book(o, ts)
  PROVE  stored' \in [Orders -> SUBSET Trades] /\ booked' \in [Orders -> [Trades -> Nat]]
BY DEF Book

THEOREM TypeInit == Init => TypeOK
<1> SUFFICES ASSUME Init PROVE TypeOK
  OBVIOUS
<1>1. VenueTypeOK
  BY AbsentLemma DEF Init, VenueInit, VenueTypeOK
<1>2. EngineTypeOK
  BY DEF Init, EngineTypeOK, OrderRecord, NewOrder, OrderStatuses, OpenStatuses,
         ReconStates
<1>3. LockTypeOK
  BY DEF Init, LockTypeOK
<1>4. TaskTypeOK
  BY AbsentLemma DEF Init, TaskTypeOK, Sub, Can, Pass, Outcomes, IdlePass,
                     NothingOpen
<1> QED BY <1>1, <1>2, <1>3, <1>4 DEF TypeOK

(* A step of the venue. *)
LEMMA VenueTypeStep ==
  ASSUME VenueTypeOK, VenueNext
  PROVE  VenueTypeOK'
<1> USE AbsentLemma DEF VenueTypeOK
<1>1. ASSUME NEW m \in inbox, NEW kind \in ReplyKinds, NEW view \in VenueOrder
      PROVE  Answer(m, kind, view) \in [Tasks -> [Orders -> Reply]]
  BY DEF Answer, Reply, Request
<1>2. ASSUME NEW ts \in SUBSET Trades
      PROVE  /\ StatusOf(ts) \in VenueStatuses \ {"ABSENT"}
             /\ [status |-> StatusOf(ts), fills |-> ts] \in VenueOrder
             /\ [status |-> "EXPIRED", fills |-> ts] \in VenueOrder
  BY DEF StatusOf, VenueOrder, VenueStatuses, LiveStatuses
<1>3. ASSUME NEW o \in Orders, NEW st \in {"CANCELLED", "EXPIRED"}
      PROVE  [venue EXCEPT ![o].status = st] \in [Orders -> VenueOrder]
  BY DEF VenueOrder, VenueStatuses
<1>4. ASSUME NEW m \in inbox, VenueAccepts(m) PROVE VenueTypeOK'
  <2>1. PICK ts \in SUBSET Trades : \E st \in {StatusOf(ts), "EXPIRED"} :
          /\ venue' = [venue EXCEPT ![m.order] = [status |-> st, fills |-> ts]]
          /\ reply' = Answer(m, "ACCEPTED", [status |-> st, fills |-> ts])
    BY <1>4 DEF VenueAccepts
  <2>2. PICK st \in {StatusOf(ts), "EXPIRED"} :
          /\ venue' = [venue EXCEPT ![m.order] = [status |-> st, fills |-> ts]]
          /\ reply' = Answer(m, "ACCEPTED", [status |-> st, fills |-> ts])
    BY <2>1
  <2>3. [status |-> st, fills |-> ts] \in VenueOrder
    BY <1>2
  <2>4. inbox' \in SUBSET Request /\ m.order \in Orders
    BY <1>4 DEF VenueAccepts, Request
  <2> QED BY <1>1, <2>2, <2>3, <2>4 DEF ReplyKinds
<1>5. ASSUME NEW m \in inbox, VenueRejects(m) PROVE VenueTypeOK'
  BY <1>1, <1>5 DEF VenueRejects, ReplyKinds
<1>6. ASSUME NEW m \in inbox, VenueCancels(m) PROVE VenueTypeOK'
  <2>1. m.order \in Orders
    BY DEF Request
  <2>2. venue' \in [Orders -> VenueOrder]
    BY <1>3, <1>6, <2>1 DEF VenueCancels
  <2>3. \A kind \in {"CANCELLED", "GONE", "REFUSED"} :
          Answer(m, kind, Absent) \in [Tasks -> [Orders -> Reply]]
    BY <1>1 DEF ReplyKinds
  <2>4. reply' \in [Tasks -> [Orders -> Reply]] /\ inbox' \in SUBSET Request
    BY <1>6, <2>3 DEF VenueCancels
  <2> QED BY <2>2, <2>4
<1>7. ASSUME NEW m \in inbox, VenueLoses(m) PROVE VenueTypeOK'
  BY <1>7 DEF VenueLoses
<1>8. ASSUME NEW o \in Orders, VenueTrades(o) PROVE VenueTypeOK'
  <2>1. PICK t \in Trades :
          venue' = [venue EXCEPT ![o] = [status |-> StatusOf(venue[o].fills \cup {t}),
                                         fills |-> venue[o].fills \cup {t}]]
    BY <1>8 DEF VenueTrades
  <2>2. venue[o].fills \cup {t} \in SUBSET Trades
    BY DEF VenueOrder
  <2> QED BY <1>2, <1>8, <2>1, <2>2 DEF VenueTrades
<1>9. ASSUME NEW o \in Orders, VenueExpires(o) PROVE VenueTypeOK'
  BY <1>3, <1>9 DEF VenueExpires
<1> QED BY <1>4, <1>5, <1>6, <1>7, <1>8, <1>9 DEF VenueNext

LEMMA ConnectionLemma ==
  ASSUME VenueTypeOK, NEW t, NEW o
  PROVE  /\ OpenConnection(t, o) \in [Tasks -> [Orders -> Reply]]
         /\ CloseConnection(t, o) \in [Tasks -> [Orders -> Reply]]
BY AbsentLemma DEF VenueTypeOK, OpenConnection, CloseConnection

LEMMA MarkLemma ==
  ASSUME EngineTypeOK, NEW o, NEW state \in ReconStates, Mark(o, state)
  PROVE  recon' \in [Orders -> ReconStates]
BY DEF EngineTypeOK, Mark

(* The steps of a submission. *)
LEMMA SubmitTypeStep ==
  ASSUME TypeOK, NEW s \in Submitters, SubmitStep(s)
  PROVE  TypeOK'
<1> DEFINE o == Intent[s]
<1>1. /\ VenueTypeOK /\ EngineTypeOK /\ LockTypeOK /\ TaskTypeOK
      /\ o \in Orders /\ s \in Tasks
  BY ExecutionAssumption DEF TypeOK
<1>2. order[o] \in OrderRecord /\ NewOrder \in OrderRecord
  BY <1>1 DEF EngineTypeOK, NewOrder, OrderRecord, OrderStatuses, OpenStatuses
<1> HIDE DEF o
<1>3. ASSUME /\ sub' \in [Submitters -> Sub]
             /\ UNCHANGED <<venueVars, dryRun, orderVars, lockVars, can, pass>>
      PROVE  TypeOK'
  BY <1>1, <1>3 
     DEF TypeOK, venueVars, orderVars, lockVars, VenueTypeOK, EngineTypeOK, LockTypeOK, TaskTypeOK
<1>4. ASSUME NEW outcome \in Outcomes, SubmitEnds(s, outcome),
             order' \in [Orders -> OrderRecord],
             recon' \in [Orders -> ReconStates],
             stored' \in [Orders -> SUBSET Trades],
             booked' \in [Orders -> [Trades -> Nat]]
      PROVE  TypeOK'
  <2>1. VenueTypeOK'
    BY <1>1, <1>4, ConnectionLemma DEF SubmitEnds, VenueTypeOK
  <2>2. EngineTypeOK'
    BY <1>1, <1>4 DEF SubmitEnds, EngineTypeOK
  <2>3. LockTypeOK'
    BY <1>1, <1>4 DEF SubmitEnds, LockTypeOK, Released
  <2>4. TaskTypeOK'
    BY <1>1, <1>4 DEF SubmitEnds, TaskTypeOK, Sub
  <2> QED BY <2>1, <2>2, <2>3, <2>4 DEF TypeOK
<1>5. \A target \in OrderStatuses :
        /\ TryTransition(order[o], target) \in OrderRecord
        /\ TryTransition(NewOrder, target) \in OrderRecord
  BY <1>2, TransitionLemma
<1>6. /\ {"SUBMITTED", "CANCELLED", "REJECTED", "FAILED"} \subseteq OrderStatuses
      /\ {"ACCEPTED", "REJECTED_LOCALLY", "REJECTED_BY_EXCHANGE", "DUPLICATE", "UNKNOWN",
          "DRY_RUN", "RAISED"} \subseteq Outcomes
      /\ {"IN_SYNC", "UNKNOWN", "DIVERGED"} \subseteq ReconStates
  BY DEF OrderStatuses, OpenStatuses, TerminalStatuses, Outcomes, ReconStates
<1>7. CASE SubmitWaits(s)
  BY <1>1, <1>3, <1>7 DEF SubmitWaits, TaskTypeOK, Sub
<1>8. CASE SubmitGivesUp(s)
  BY <1>1, <1>3, <1>6, <1>8 DEF SubmitGivesUp, TaskTypeOK, Sub
<1>9. CASE SubmitDuplicate(s)
  BY <1>1, <1>3, <1>6, <1>9 DEF SubmitDuplicate, TaskTypeOK, Sub
<1>10. CASE SubmitDryRun(s)
  <2>1. VenueTypeOK' /\ LockTypeOK'
    BY <1>1, <1>10 DEF SubmitDryRun, venueVars, lockVars, VenueTypeOK, LockTypeOK
  <2>2. EngineTypeOK'
    BY <1>1, <1>5, <1>6, <1>10 DEF SubmitDryRun, EngineTypeOK, o
  <2>3. TaskTypeOK'
    BY <1>1, <1>6, <1>10 DEF SubmitDryRun, TaskTypeOK, Sub
  <2> QED BY <2>1, <2>2, <2>3 DEF TypeOK
<1>11. CASE SubmitTransmits(s)
  <2>1. VenueTypeOK'
    BY <1>1, <1>11, ConnectionLemma DEF SubmitTransmits, VenueTypeOK, Request, o
  <2>2. recon' \in [Orders -> ReconStates]
    BY <1>1, <1>6, <1>11, MarkLemma DEF SubmitTransmits, MarkInFlight
  <2> DEFINE new == TryTransition(NewOrder, "SUBMITTED")
  <2>3. /\ new \in OrderRecord
        /\ order' = [order EXCEPT ![o] = new] /\ sent' = [sent EXCEPT ![o] = @ + 1]
        /\ reserved' = reserved \cup {o}
        /\ UNCHANGED <<dryRun, stored, booked>>
    BY <1>5, <1>6, <1>11 DEF SubmitTransmits, o
  <2> HIDE DEF new
  <2>6. EngineTypeOK'
    BY <1>1, <2>2, <2>3 DEF EngineTypeOK
  <2>4. LockTypeOK'
    BY <1>1, <1>11 DEF SubmitTransmits, LockTypeOK
  <2>5. TaskTypeOK'
    BY <1>1, <1>11 DEF SubmitTransmits, TaskTypeOK, Sub
  <2> QED BY <2>1, <2>4, <2>5, <2>6 DEF TypeOK
<1>12. CASE SubmitAccepted(s)
  <2> DEFINE v == reply[s][o].view
  <2>1. v \in VenueOrder /\ v.fills \in SUBSET Trades
    BY <1>1 DEF VenueTypeOK, Reply, VenueOrder
  <2>2. v.status \in OrderStatuses \cup {"ABSENT"}
    BY <2>1, VenueStatusLemma DEF Absent
  <2> HIDE DEF v
  <2>3. TryTransition(order[o], v.status) \in OrderRecord
    <3>1. CASE v.status = "ABSENT"
      BY <1>2, <3>1 DEF TryTransition, IsLegalTransition, ORDER_STATE_TRANSITIONS,
         OrderRecord, OrderStatuses, OpenStatuses, TerminalStatuses
    <3> QED BY <1>5, <2>2, <3>1
  <2>4. ApplyFills(TryTransition(order[o], v.status), v.fills) \in OrderRecord
    BY <2>1, <2>3, FillsLemma
  <2>5. order' \in [Orders -> OrderRecord]
    BY <1>1, <1>12, <2>4 DEF SubmitAccepted, EngineTypeOK, v, o
  <2>6. stored' \in [Orders -> SUBSET Trades] /\ booked' \in [Orders -> [Trades -> Nat]]
    BY <1>1, <1>12, <2>1, BookLemma DEF SubmitAccepted, EngineTypeOK, v, o
  <2>7. recon' \in [Orders -> ReconStates]
    BY <1>1, <1>6, <1>12, MarkLemma DEF SubmitAccepted
  <2> QED BY <1>4, <1>6, <1>12, <2>5, <2>6, <2>7 DEF SubmitAccepted
<1>13. CASE SubmitRejected(s) \/ SubmitRefused(s)
  <2>1. order' \in [Orders -> OrderRecord]
    BY <1>1, <1>5, <1>6, <1>13 DEF SubmitRejected, SubmitRefused, EngineTypeOK, o
  <2>2. recon' \in [Orders -> ReconStates]
    BY <1>1, <1>6, <1>13, MarkLemma DEF SubmitRejected, SubmitRefused
  <2> QED BY <1>1, <1>4, <1>6, <1>13, <2>1, <2>2
          DEF SubmitRejected, SubmitRefused, EngineTypeOK
<1>14. CASE SubmitUnknown(s)
  <2>1. recon' \in [Orders -> ReconStates]
    BY <1>1, <1>6, <1>14, MarkLemma DEF SubmitUnknown
  <2> QED BY <1>1, <1>4, <1>6, <1>14, <2>1 DEF SubmitUnknown, EngineTypeOK
<1> QED BY <1>7, <1>8, <1>9, <1>10, <1>11, <1>12, <1>13, <1>14 DEF SubmitStep

LEMMA StreamTypeStep ==
  ASSUME TypeOK, NEW o \in Orders, NEW t \in Trades, StreamFill(o, t)
  PROVE  TypeOK'
<1>1. VenueTypeOK /\ EngineTypeOK /\ LockTypeOK /\ TaskTypeOK
  BY DEF TypeOK
<1>2. ApplyFill(order[o], t) \in OrderRecord
  <2>1. order[o] \in OrderRecord /\ {t} \in SUBSET Trades
    BY <1>1 DEF EngineTypeOK
  <2>2. ApplyFill(order[o], t) = ApplyFills(order[o], {t})
    BY <2>1, FillLemma
  <2> QED BY <2>1, <2>2, FillsLemma
<1>3. stored' \in [Orders -> SUBSET Trades] /\ booked' \in [Orders -> [Trades -> Nat]]
  BY <1>1, BookLemma DEF StreamFill, EngineTypeOK
<1>4. EngineTypeOK'
  BY <1>1, <1>2, <1>3 DEF StreamFill, EngineTypeOK
<1>5. VenueTypeOK' /\ LockTypeOK' /\ TaskTypeOK'
  BY <1>1 DEF StreamFill, venueVars, lockVars, VenueTypeOK, LockTypeOK, TaskTypeOK
<1> QED BY <1>4, <1>5 DEF TypeOK

(* The steps of a cancellation. *)
LEMMA CancelTypeStep ==
  ASSUME TypeOK, NEW c \in Cancellers, CancelStep(c)
  PROVE  TypeOK'
<1>1. /\ VenueTypeOK /\ EngineTypeOK /\ LockTypeOK /\ TaskTypeOK
      /\ c \in Tasks /\ None \notin Orders
  BY ExecutionAssumption DEF TypeOK
<1>2. \A o \in Orders, target \in OrderStatuses :
        TryTransition(order[o], target) \in OrderRecord
  BY <1>1, TransitionLemma DEF EngineTypeOK
<1>3. {"CANCEL_REQUESTED", "CANCELLED"} \subseteq OrderStatuses /\ "UNKNOWN" \in ReconStates
  BY DEF OrderStatuses, OpenStatuses, TerminalStatuses, ReconStates
<1>4. ASSUME NEW o \in Orders, CancelTransmits(c, o) PROVE TypeOK'
  <2>1. VenueTypeOK'
    BY <1>1, <1>4, ConnectionLemma DEF CancelTransmits, VenueTypeOK, Request
  <2>2. EngineTypeOK'
    BY <1>1, <1>2, <1>3, <1>4 DEF CancelTransmits, EngineTypeOK
  <2>3. LockTypeOK'
    BY <1>1, <1>4 DEF CancelTransmits, LockTypeOK
  <2>4. TaskTypeOK'
    BY <1>1, <1>4 DEF CancelTransmits, TaskTypeOK, Can
  <2> QED BY <2>1, <2>2, <2>3, <2>4 DEF TypeOK
<1>5. ASSUME CancelEnds(c),
             order' \in [Orders -> OrderRecord],
             recon' \in [Orders -> ReconStates]
      PROVE  TypeOK'
  <2>1. VenueTypeOK'
    BY <1>1, <1>5, ConnectionLemma DEF CancelEnds, VenueTypeOK
  <2>2. EngineTypeOK'
    BY <1>1, <1>5 DEF CancelEnds, EngineTypeOK
  <2>3. LockTypeOK'
    BY <1>1, <1>5 DEF CancelEnds, LockTypeOK, Released
  <2>4. TaskTypeOK'
    BY <1>1, <1>5 DEF CancelEnds, TaskTypeOK, Can
  <2> QED BY <2>1, <2>2, <2>3, <2>4 DEF TypeOK
<1>6. ASSUME /\ can' \in [Cancellers -> Can]
             /\ \A d \in Cancellers : can'[d].pc # "idle" => can'[d].target \in Orders
             /\ UNCHANGED <<venueVars, dryRun, orderVars, lockVars, sub, pass>>
      PROVE  TypeOK'
  BY <1>1, <1>6
     DEF TypeOK, venueVars, orderVars, lockVars, VenueTypeOK, EngineTypeOK, LockTypeOK,
         TaskTypeOK
<1>7. ASSUME NEW o \in Orders, CancelNow(c, o) PROVE TypeOK'
  BY <1>4, <1>7 DEF CancelNow
<1>8. ASSUME NEW o \in Orders, CancelWaits(c, o) PROVE TypeOK'
  BY <1>1, <1>6, <1>8 DEF CancelWaits, TaskTypeOK, Can
<1>9. CASE CancelResumes(c)
  BY <1>1, <1>4, <1>9 DEF CancelResumes, TaskTypeOK
<1>10. CASE CancelGivesUp(c)
  BY <1>1, <1>6, <1>10 DEF CancelGivesUp, TaskTypeOK, Can
<1>11. CASE CancelAccepted(c)
  <2>1. can[c].target \in Orders
    BY <1>1, <1>11 DEF CancelAccepted, TaskTypeOK
  <2>2. order' \in [Orders -> OrderRecord] /\ recon' \in [Orders -> ReconStates]
    BY <1>1, <1>2, <1>3, <1>11, <2>1 DEF CancelAccepted, EngineTypeOK
  <2> QED BY <1>5, <1>11, <2>2 DEF CancelAccepted
<1>12. CASE CancelRefused(c)
  BY <1>1, <1>5, <1>12 DEF CancelRefused, EngineTypeOK
<1>13. CASE CancelUnknown(c)
  <2>1. recon' \in [Orders -> ReconStates]
    BY <1>1, <1>3, <1>13, MarkLemma DEF CancelUnknown
  <2> QED BY <1>1, <1>5, <1>13, <2>1 DEF CancelUnknown, EngineTypeOK
<1> QED BY <1>7, <1>8, <1>9, <1>10, <1>11, <1>12, <1>13 DEF CancelStep

(* The steps of a reconciliation pass. *)
LEMMA PassTypeStep ==
  ASSUME TypeOK, NEW r \in Reconcilers, PassStep(r) \/ VenueUnreachable(r)
  PROVE  TypeOK'
<1>1. VenueTypeOK /\ EngineTypeOK /\ LockTypeOK /\ TaskTypeOK /\ None \notin Orders
  BY ExecutionAssumption DEF TypeOK
<1>2. pass[r] \in Pass /\ IdlePass \in Pass
  BY <1>1, AbsentLemma DEF TaskTypeOK, Pass, IdlePass, NothingOpen
<1>3. \A o \in Orders : venue[o] \in VenueOrder /\ View(venue[o]) \in VenueOrder
                        /\ pass[r].open[o] \in VenueOrder
  BY <1>1, <1>2, ViewLemma DEF VenueTypeOK, Pass
<1>4. ASSUME NEW p \in Pass, PassTo(r, p),
             p.pc \in {"missing", "asking", "resolving"} => p.cur \in Orders,
             UNCHANGED <<venueVars, sub, can>>, EngineTypeOK', LockTypeOK'
      PROVE  TypeOK'
  <2>1. VenueTypeOK'
    BY <1>1, <1>4 DEF venueVars, VenueTypeOK
  <2>2. TaskTypeOK'
    BY <1>1, <1>4 DEF PassTo, TaskTypeOK
  <2> QED BY <1>4, <2>1, <2>2 DEF TypeOK
<1>5. ASSUME UNCHANGED <<dryRun, orderVars, lockVars>>
      PROVE  EngineTypeOK' /\ LockTypeOK'
  BY <1>1, <1>5 DEF orderVars, lockVars, EngineTypeOK, LockTypeOK
<1>6. ASSUME UNCHANGED <<dryRun, orderVars, accountLock, orderLock>>,
             reconLock' \in Reconcilers \cup {None}
      PROVE  EngineTypeOK' /\ LockTypeOK'
  BY <1>1, <1>6 DEF orderVars, EngineTypeOK, LockTypeOK
<1>7. ASSUME NEW o \in Orders, NEW v \in VenueOrder, Resolve(o, v),
             FlagIfDiverged(o, v) \/ Mark(o, "IN_SYNC"),
             UNCHANGED <<dryRun, reserved, sent, lockVars>>
      PROVE  EngineTypeOK' /\ LockTypeOK'
  <2>1. order' \in [Orders -> OrderRecord]
    BY <1>1, <1>7, ResolutionLemma DEF Resolve, EngineTypeOK
  <2>2. v.fills \in SUBSET Trades
    BY DEF VenueOrder
  <2>3. stored' \in [Orders -> SUBSET Trades] /\ booked' \in [Orders -> [Trades -> Nat]]
    BY <1>1, <1>7, <2>2, BookLemma DEF Resolve, EngineTypeOK
  <2>4. recon' \in [Orders -> ReconStates]
    BY <1>1, <1>7, MarkLemma DEF FlagIfDiverged, EngineTypeOK, ReconStates
  <2> QED BY <1>1, <1>7, <2>1, <2>3, <2>4 DEF EngineTypeOK, LockTypeOK, lockVars
<1>8. CASE PassBegins(r)
  <2> DEFINE p == [IdlePass EXCEPT !.pc = "listing",
                                   !.todo = {o \in reserved : ~IsTerminal(o)}]
  <2>1. p \in Pass /\ p.pc = "listing"
    BY <1>1, <1>2 DEF Pass, EngineTypeOK
  <2>2. EngineTypeOK' /\ LockTypeOK'
    BY <1>6, <1>8 DEF PassBegins
  <2> QED BY <1>4, <1>8, <2>1, <2>2 DEF PassBegins
<1>9. CASE PassLists(r)
  <2> DEFINE open == [o \in Orders |-> IF IsLive(venue[o]) THEN View(venue[o]) ELSE Absent]
             p == [pass[r] EXCEPT !.pc = "orders", !.open = open]
  <2>1. open \in [Orders -> VenueOrder]
    BY <1>3, AbsentLemma
  <2>2. PassTo(r, p) /\ UNCHANGED <<venueVars, dryRun, orderVars, lockVars, sub, can>>
    BY <1>9 DEF PassLists
  <2> HIDE DEF open
  <2>3. p \in Pass /\ p.pc = "orders"
    BY <1>2, <2>1 DEF Pass
  <2> QED BY <1>4, <1>5, <2>2, <2>3
<1>10. ASSUME NEW o \in Orders, AdoptListed(r, o) PROVE TypeOK'
  <2> DEFINE p == [pass[r] EXCEPT !.todo = @ \ {o}]
  <2>1. p \in Pass /\ p.pc = "orders"
    BY <1>2, <1>10 DEF Pass, AdoptListed
  <2>2. EngineTypeOK' /\ LockTypeOK'
    BY <1>3, <1>7, <1>10 DEF AdoptListed
  <2> QED BY <1>4, <1>10, <2>1, <2>2 DEF AdoptListed
<1>11. ASSUME NEW o \in Orders, AskMissing(r, o) PROVE TypeOK'
  <2> DEFINE p == [pass[r] EXCEPT !.pc = "missing", !.cur = o, !.answer = View(venue[o])]
  <2>1. p \in Pass /\ p.cur \in Orders
    BY <1>2, <1>3 DEF Pass
  <2> QED BY <1>4, <1>5, <1>11, <2>1 DEF AskMissing
<1>12. ASSUME NEW pc \in {"orders", "flagged"}, Answered(r, pc),
              pass[r].cur \in Orders,
              UNCHANGED <<venueVars, sub, can>>, EngineTypeOK', LockTypeOK'
       PROVE  TypeOK'
  <2> DEFINE p == [pass[r] EXCEPT !.pc = pc, !.todo = @ \ {pass[r].cur}, !.cur = None,
                                  !.answer = Absent]
  <2>1. p \in Pass /\ p.pc = pc
    BY <1>2, AbsentLemma DEF Pass
  <2> QED BY <1>4, <1>12, <2>1 DEF Answered
<1>13. pass[r].pc \in {"missing", "asking", "resolving"} =>
         pass[r].cur \in Orders /\ pass[r].answer \in VenueOrder
  BY <1>1, <1>2 DEF TaskTypeOK, Pass
<1>14. CASE ApplyMissing(r)
  <2>1. EngineTypeOK' /\ LockTypeOK'
    BY <1>7, <1>13, <1>14 DEF ApplyMissing
  <2> QED BY <1>12, <1>13, <1>14, <2>1 DEF ApplyMissing
<1>15. CASE PassFlagged(r)
  <2> DEFINE p == [IdlePass EXCEPT !.pc = "flagged",
                                   !.todo = {o \in reserved : NeedsReconciliation(o)}]
  <2>1. p \in Pass /\ p.pc = "flagged"
    BY <1>1, <1>2 DEF Pass, EngineTypeOK
  <2> QED BY <1>4, <1>5, <1>15, <2>1 DEF PassFlagged
<1>16. ASSUME NEW o \in Orders, SkipFlagged(r, o) PROVE TypeOK'
  <2> DEFINE p == [pass[r] EXCEPT !.todo = @ \ {o}]
  <2>1. p \in Pass /\ p.pc = "flagged"
    BY <1>2, <1>16 DEF Pass, SkipFlagged
  <2> QED BY <1>4, <1>5, <1>16, <2>1 DEF SkipFlagged
<1>17. ASSUME NEW o \in Orders, AskFlagged(r, o) PROVE TypeOK'
  <2> DEFINE p == [pass[r] EXCEPT !.pc = "asking", !.cur = o]
  <2>1. p \in Pass /\ p.cur \in Orders
    BY <1>2 DEF Pass
  <2> QED BY <1>4, <1>5, <1>17, <2>1 DEF AskFlagged
<1>18. CASE FlaggedAnswered(r)
  <2> DEFINE p == [pass[r] EXCEPT !.pc = "resolving", !.answer = View(venue[pass[r].cur])]
  <2>1. p \in Pass /\ p.cur \in Orders
    BY <1>2, <1>3, <1>13, <1>18 DEF Pass, FlaggedAnswered
  <2> QED BY <1>4, <1>5, <1>18, <2>1 DEF FlaggedAnswered
<1>19. CASE ResolveUnknown(r)
  <2>1. EngineTypeOK' /\ LockTypeOK'
    BY <1>7, <1>13, <1>19 DEF ResolveUnknown
  <2> QED BY <1>12, <1>13, <1>19, <2>1 DEF ResolveUnknown
<1>20. CASE PassEnds(r)
  <2>1. reconLock' \in Reconcilers \cup {None} /\ IdlePass.pc = "idle"
    BY <1>1, <1>20 DEF PassEnds, Released, LockTypeOK, IdlePass
  <2> QED BY <1>2, <1>4, <1>6, <1>20, <2>1 DEF PassEnds
<1>21. CASE VenueUnreachable(r)
  <2>1. IdlePass.pc = "idle"
    BY DEF IdlePass
  <2>2. reconLock' \in Reconcilers \cup {None}
    BY <1>1, <1>21 DEF VenueUnreachable, Released, LockTypeOK
  <2>3. EngineTypeOK' /\ LockTypeOK'
    BY <1>6, <1>21, <2>2 DEF VenueUnreachable
  <2> QED BY <1>2, <1>4, <1>12, <1>13, <1>21, <2>1, <2>3 DEF VenueUnreachable
<1> QED BY <1>8, <1>9, <1>10, <1>11, <1>14, <1>15, <1>16, <1>17, <1>18, <1>19, <1>20, <1>21
        DEF PassStep

LEMMA TypeStep == TypeOK /\ [Next]_vars => TypeOK'
<1> SUFFICES ASSUME TypeOK, [Next]_vars PROVE TypeOK'
  OBVIOUS
<1>1. CASE LockExpires
  BY <1>1 DEF LockExpires, TypeOK, venueVars, orderVars, VenueTypeOK, EngineTypeOK,
              LockTypeOK, TaskTypeOK
<1>2. CASE ExchangeStep
  <2>1. VenueTypeOK'
    BY <1>2, VenueTypeStep DEF ExchangeStep, TypeOK
  <2> QED BY <1>2, <2>1 DEF ExchangeStep, TypeOK, orderVars, lockVars, EngineTypeOK,
                            LockTypeOK, TaskTypeOK
<1>3. CASE UNCHANGED vars
  BY <1>3 DEF vars, TypeOK, venueVars, orderVars, lockVars, VenueTypeOK, EngineTypeOK,
              LockTypeOK, TaskTypeOK
<1> QED BY <1>1, <1>2, <1>3, SubmitTypeStep, StreamTypeStep, CancelTypeStep, PassTypeStep
        DEF Next

(* Every variable keeps its type. *)
THEOREM TypeCorrect == Spec => []TypeOK
BY TypeInit, TypeStep, PTL DEF Spec
==============================================================================
