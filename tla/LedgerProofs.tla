----------------------------- MODULE LedgerProofs -----------------------------
(***************************************************************************)
(* Execution implements TradeLedger: for any sets of orders, trades and    *)
(* tasks, an intent is placed once, a trade booked once, a final status    *)
(* final.  And what it records is the venue's: every answer on its way, in *)
(* a connection or in a pass, lies in the venue's past.                    *)
(***************************************************************************)
EXTENDS ExecutionProofs

(* A step that leaves orders, ledger and position alone is no step of the
   TradeLedger. *)
LEMMA QuietLemma ==
  ASSUME LedgerInv, UNCHANGED <<order, stored, booked, sent>>
  PROVE  AtMostOnceSent' /\ FillsBookedOnce' /\ UNCHANGED Ledger!vars
BY DEF LedgerInv, AtMostOnceSent, FillsBookedOnce, Ledger!vars, IsTerminal

(* One order, known to have been transmitted, takes trades ts and perhaps another
   status: a Settle of the TradeLedger. *)
LEMMA SettleLemma ==
  ASSUME TypeOK, LedgerInv, NEW o \in Orders, NEW new \in OrderRecord,
         NEW ts \in SUBSET Trades,
         order' = [order EXCEPT ![o] = new],
         new.fills = order[o].fills \cup ts,
         IsTerminal(o) => new.status = order[o].status,
         Book(o, ts), sent' = sent, sent[o] # 0
  PROVE  AtMostOnceSent' /\ FillsBookedOnce' /\ Ledger!Next
<1> DEFINE new_ts == ts \ stored[o]
<1>1. /\ order \in [Orders -> OrderRecord] /\ stored \in [Orders -> SUBSET Trades]
      /\ booked \in [Orders -> [Trades -> Nat]] /\ sent \in [Orders -> Nat]
  BY DEF TypeOK, EngineTypeOK
<1>2. /\ \A p \in Orders : stored[p] = order[p].fills
      /\ \A p \in Orders : \A t \in Trades :
           booked[p][t] = (IF t \in stored[p] THEN 1 ELSE 0)
      /\ \A p \in Orders : sent[p] <= 1
  BY DEF LedgerInv, FillsBookedOnce, AtMostOnceSent
<1>3. /\ stored' = [stored EXCEPT ![o] = @ \cup ts]
      /\ booked' = [booked EXCEPT ![o] = [t \in Trades |->
                                IF t \in new_ts THEN @[t] + 1 ELSE @[t]]]
  BY <1>2 DEF Book
<1>4. AtMostOnceSent' /\ sent[o] = 1
  <2>1. sent[o] \in Nat /\ sent[o] <= 1
    BY <1>1, <1>2
  <2> QED BY <1>2, <2>1 DEF AtMostOnceSent
<1>5. FillsBookedOnce'
  <2>1. \A p \in Orders : stored'[p] = order'[p].fills
    BY <1>1, <1>2, <1>3
  <2>2. \A t \in Trades : booked'[o][t] = (IF t \in stored'[o] THEN 1 ELSE 0)
    BY <1>1, <1>2, <1>3
  <2>3. \A p \in Orders \ {o} : booked'[p] = booked[p] /\ stored'[p] = stored[p]
    BY <1>1, <1>3
  <2> QED BY <1>2, <2>1, <2>2, <2>3 DEF FillsBookedOnce
<1>6. /\ new_ts \in SUBSET {t \in Trades : booked[o][t] = 0}
      /\ booked' = [booked EXCEPT ![o] = [t \in Trades |->
                                            IF t \in new_ts THEN 1 ELSE @[t]]]
  <2>1. \A t \in new_ts : t \in Trades /\ booked[o][t] = 0
    BY <1>2
  <2>2. [t \in Trades |-> IF t \in new_ts THEN booked[o][t] + 1 ELSE booked[o][t]]
          = [t \in Trades |-> IF t \in new_ts THEN 1 ELSE booked[o][t]]
    BY <2>1
  <2> QED BY <1>3, <2>1, <2>2
<1> DEFINE final == [p \in Orders |-> IF IsTerminal(p) THEN order[p].status ELSE "OPEN"]
<1>7. \/ final' = final
      \/ final[o] = "OPEN" /\ \E st \in Ledger!FinalStatuses :
                                final' = [final EXCEPT ![o] = st]
  <2>1. \A p \in Orders \ {o} : order'[p] = order[p]
    BY <1>1
  <2>2. order'[o] = new
    BY <1>1
  <2>3. CASE IsTerminal(o) \/ new.status \notin TerminalStatuses
    BY <2>1, <2>2, <2>3 DEF IsTerminal
  <2>4. CASE ~IsTerminal(o) /\ new.status \in TerminalStatuses
    <3>1. \A p \in Orders \ {o} : IsTerminal(p)' = IsTerminal(p)
                                  /\ order'[p].status = order[p].status
      BY <2>1 DEF IsTerminal
    <3>2. IsTerminal(o)' /\ order'[o].status = new.status
      BY <2>2, <2>4 DEF IsTerminal
    <3>3. final' = [final EXCEPT ![o] = new.status] /\ final[o] = "OPEN"
      BY <2>4, <3>1, <3>2
    <3> QED BY <2>4, <3>3 DEF Ledger!FinalStatuses, TerminalStatuses
  <2> QED BY <2>3, <2>4
<1> HIDE DEF new_ts
<1>8. Ledger!Settle(o)
  BY <1>4, <1>6, <1>7 DEF Ledger!Settle
<1> QED BY <1>4, <1>5, <1>8 DEF Ledger!Next

(* A step about a transmitted order o leaves the others untouched. *)
LEMMA UnsentLemma ==
  ASSUME LedgerInv, NEW o \in Orders, sent[o] # 0,
         UNCHANGED <<sent, reserved, venue>>,
         \A p \in Orders \ {o} : order'[p] = order[p] /\ recon'[p] = recon[p],
         \A m \in inbox' \ inbox : m.order = o
  PROVE  UnsentIsUntouched'
BY DEF LedgerInv, UnsentIsUntouched

LEMMA NothingBooked ==
  ASSUME TypeOK, LedgerInv, NEW o \in Orders, UNCHANGED <<stored, booked>>
  PROVE  Book(o, {})
<1>1. stored = [stored EXCEPT ![o] = @ \cup {}]
  BY DEF TypeOK, EngineTypeOK
<1>2. booked[o] = [t \in Trades |-> booked[o][t]]
  BY DEF TypeOK, EngineTypeOK
<1>3. {} \ (stored[o] \cup order[o].fills) = {}
  OBVIOUS
<1>4. booked = [booked EXCEPT ![o] = [t \in Trades |-> IF t \in {} THEN @[t] + 1 ELSE @[t]]]
  BY <1>2 DEF TypeOK, EngineTypeOK
<1> QED BY <1>1, <1>3, <1>4 DEF Book

LEMMA LedgerInit == Init => LedgerInv /\ Ledger!Init
<1> SUFFICES ASSUME Init PROVE LedgerInv /\ Ledger!Init
  OBVIOUS
<1>1. AtMostOnceSent /\ FillsBookedOnce /\ UnsentIsUntouched
  BY DEF Init, VenueInit, NewOrder, AtMostOnceSent, FillsBookedOnce, UnsentIsUntouched
<1>2. WorkIsOnSent
  BY DEF Init, WorkIsOnSent, IdlePass
<1>3. Ledger!Init
  BY DEF Init, Ledger!Init, IsTerminal, NewOrder, TerminalStatuses
<1> QED BY <1>1, <1>2, <1>3 DEF LedgerInv

(* A status that a venue answer carries leads to an order again; the status of
   an order the venue does not have leads nowhere. *)
LEMMA AnswerLemma ==
  ASSUME NEW ord \in OrderRecord, NEW v \in VenueOrder
  PROVE  /\ TryTransition(ord, v.status) \in OrderRecord
         /\ TryTransition(ord, v.status).fills = ord.fills
         /\ ord.status \in TerminalStatuses => TryTransition(ord, v.status) = ord
<1>1. CASE v.status = "ABSENT"
  BY <1>1 DEF TryTransition, IsLegalTransition, ORDER_STATE_TRANSITIONS, OrderRecord,
              OrderStatuses, OpenStatuses, TerminalStatuses
<1>2. CASE v.status # "ABSENT"
  <2>1. v.status \in OrderStatuses
    BY <1>2, VenueStatusLemma DEF Absent
  <2> QED BY <2>1, TransitionLemma
<1> QED BY <1>1, <1>2

LEMMA NewOrderLemma ==
  ASSUME NEW target \in {"SUBMITTED", "CANCELLED"}
  PROVE  /\ TryTransition(NewOrder, target) = [status |-> target, fills |-> {}]
         /\ NewOrder.fills = {} /\ NewOrder.status = "PENDING"
         /\ [NewOrder EXCEPT !.status = target] = [status |-> target, fills |-> {}]
<1>1. NewOrder.fills = {} /\ NewOrder.status = "PENDING"
  BY DEF NewOrder
<1>2. [NewOrder EXCEPT !.status = target] = [status |-> target, fills |-> {}]
  BY DEF NewOrder
<1>3. IsLegalTransition("PENDING", target)
  BY DEF IsLegalTransition, ORDER_STATE_TRANSITIONS
<1> QED BY <1>1, <1>2, <1>3 DEF TryTransition

(* A step that adds no trade to any order keeps the books right. *)
LEMMA SameFills ==
  ASSUME FillsBookedOnce, UNCHANGED <<stored, booked>>,
         \A p \in Orders : order'[p].fills = order[p].fills
  PROVE  FillsBookedOnce'
BY DEF FillsBookedOnce

--------------------------------------------------------------------------------
(* The step of the TradeLedger that a step of the platform is. *)
LEMMA SubmitLedgerStep ==
  ASSUME TypeOK, LedgerInv, NEW s \in Submitters, SubmitStep(s)
  PROVE  LedgerInv' /\ [Ledger!Next]_Ledger!vars
<1> DEFINE o == Intent[s]
<1>1. /\ VenueTypeOK /\ EngineTypeOK /\ TaskTypeOK
      /\ o \in Orders /\ None \notin Orders
  BY ExecutionAssumption DEF TypeOK
<1>2. AtMostOnceSent /\ FillsBookedOnce /\ UnsentIsUntouched /\ WorkIsOnSent
  BY DEF LedgerInv
<1> HIDE DEF o
<1>4. CASE SubmitWaits(s) \/ SubmitGivesUp(s) \/ SubmitDuplicate(s)
  <2>1. UNCHANGED <<venueVars, orderVars, can, pass>>
    BY <1>4 DEF SubmitWaits, SubmitGivesUp, SubmitDuplicate
  <2>2. AtMostOnceSent' /\ FillsBookedOnce' /\ UNCHANGED Ledger!vars
    BY <2>1, QuietLemma DEF orderVars
  <2>3. UnsentIsUntouched'
    BY <1>2, <2>1 DEF UnsentIsUntouched, orderVars, venueVars
  <2>4. WorkIsOnSent'
    BY <1>1, <1>2, <1>4, <2>1
       DEF WorkIsOnSent, orderVars, SubmitWaits, SubmitGivesUp, SubmitDuplicate, TaskTypeOK, Sub
  <2> QED BY <2>2, <2>3, <2>4 DEF LedgerInv
<1>5. o \notin reserved =>
        /\ sent[o] = 0 /\ order[o].fills = {} /\ ~IsTerminal(o)
        /\ \A m \in inbox : m.order # o
  BY <1>1, <1>2 DEF WorkIsOnSent, UnsentIsUntouched, IsTerminal, NewOrder, TerminalStatuses
<1>6. CASE SubmitDryRun(s)
  <2>1. /\ o \notin reserved /\ reserved' = reserved \cup {o}
        /\ order' = [order EXCEPT ![o] = [status |-> "CANCELLED", fills |-> {}]]
        /\ UNCHANGED <<venueVars, recon, stored, booked, sent, can, pass>>
    BY <1>6, NewOrderLemma DEF SubmitDryRun, IsUnused, o
  <2>2. /\ order'[o] = [status |-> "CANCELLED", fills |-> {}]
        /\ \A p \in Orders \ {o} : order'[p] = order[p] /\ (p \in reserved' <=> p \in reserved)
    BY <1>1, <2>1 DEF EngineTypeOK
  <2>3. AtMostOnceSent' /\ FillsBookedOnce'
    <3>1. \A p \in Orders : order'[p].fills = order[p].fills
      <4>1. order'[o].fills = {} /\ order[o].fills = {}
        BY <1>5, <2>1, <2>2
      <4>2. \A p \in Orders \ {o} : order'[p] = order[p]
        BY <2>2
      <4> QED BY <4>1, <4>2
    <3> QED BY <1>2, <2>1, <3>1, SameFills DEF AtMostOnceSent
  <2>4. UnsentIsUntouched'
    <3>1. order'[o] = [NewOrder EXCEPT !.status = "CANCELLED"] /\ o \in reserved'
      BY <2>1, <2>2, NewOrderLemma
    <3> QED BY <1>1, <1>2, <1>5, <2>1, <2>2, <3>1 DEF UnsentIsUntouched, venueVars
  <2>5. WorkIsOnSent'
    BY <1>1, <1>2, <1>6, <2>1 DEF WorkIsOnSent, SubmitDryRun, TaskTypeOK, Sub
  <2>6. /\ \A p \in Orders \ {o} : IsTerminal(p)' = IsTerminal(p)
        /\ IsTerminal(o)' /\ order'[o].status = "CANCELLED"
    BY <2>2 DEF IsTerminal, TerminalStatuses
  <2>7. Ledger!Discard(o)
    <3> DEFINE final == [p \in Orders |-> IF IsTerminal(p) THEN order[p].status ELSE "OPEN"]
    <3>2. \A p \in Orders \ {o} : IsTerminal(p)' = IsTerminal(p)
                                  /\ order'[p].status = order[p].status
      BY <2>2, <2>6
    <3>1. final' = [final EXCEPT ![o] = "CANCELLED"] /\ final[o] = "OPEN"
      BY <1>1, <1>5, <2>1, <2>6, <3>2
    <3> QED BY <1>5, <2>1, <3>1 DEF Ledger!Discard
  <2> QED BY <1>1, <2>3, <2>4, <2>5, <2>7 DEF LedgerInv, Ledger!Next
<1>7. CASE SubmitTransmits(s)
  <2>1. /\ o \notin reserved /\ reserved' = reserved \cup {o}
        /\ order' = [order EXCEPT ![o] = [status |-> "SUBMITTED", fills |-> {}]]
        /\ recon' = [recon EXCEPT ![o] = "UNKNOWN"]
        /\ sent' = [sent EXCEPT ![o] = @ + 1]
        /\ \A m \in inbox' \ inbox : m.order = o
        /\ UNCHANGED <<venue, stored, booked, can, pass>>
    <3>1. TryTransition(NewOrder, "SUBMITTED") = [status |-> "SUBMITTED", fills |-> {}]
      BY NewOrderLemma
    <3>2. inbox' = inbox \cup {[kind |-> "PLACE", order |-> o, from |-> s]}
      BY <1>7 DEF SubmitTransmits, o
    <3>3. \A m \in inbox' \ inbox : m.order = o
      BY <3>2
    <3> QED BY <1>7, <3>1, <3>3 DEF SubmitTransmits, IsUnused, MarkInFlight, Mark, o
  <2>2. /\ order'[o] = [status |-> "SUBMITTED", fills |-> {}] /\ sent'[o] = 1
        /\ sent' = [sent EXCEPT ![o] = 1]
        /\ \A p \in Orders \ {o} :
             /\ order'[p] = order[p] /\ sent'[p] = sent[p] /\ recon'[p] = recon[p]
             /\ (p \in reserved' <=> p \in reserved)
    BY <1>1, <1>5, <2>1 DEF EngineTypeOK
  <2>3. AtMostOnceSent' /\ FillsBookedOnce'
    <3>1. \A p \in Orders : order'[p].fills = order[p].fills
      <4>1. order'[o].fills = {} /\ order[o].fills = {}
        BY <1>5, <2>1, <2>2
      <4>2. \A p \in Orders \ {o} : order'[p] = order[p]
        BY <2>2
      <4> QED BY <4>1, <4>2
    <3>2. \A p \in Orders : sent'[p] <= 1
      BY <1>2, <2>2 DEF AtMostOnceSent
    <3> QED BY <1>2, <2>1, <3>1, <3>2, SameFills DEF AtMostOnceSent
  <2>4. UnsentIsUntouched'
    BY <1>2, <2>1, <2>2 DEF UnsentIsUntouched
  <2>5. \A p \in Orders : sent[p] # 0 \/ p = o <=> sent'[p] # 0
    BY <1>5, <2>1, <2>2
  <2>6. WorkIsOnSent'
    <3>1. \A t \in Submitters : sub'[t].pc = "sent" => sub[t].pc = "sent" \/ t = s
      BY <1>1, <1>7 DEF SubmitTransmits, TaskTypeOK
    <3>2. Intent \in [Submitters -> Orders]
      BY ExecutionAssumption
    <3>3. /\ \A c \in Cancellers : can[c].target \in Orders \cup {None}
          /\ \A r \in Reconcilers : pass[r].todo \cup {pass[r].cur} \subseteq Orders \cup {None}
      BY <1>1 DEF TaskTypeOK, Can, Pass
    <3> QED BY <1>1, <1>2, <2>1, <2>5, <3>1, <3>2, <3>3 DEF WorkIsOnSent, o
  <2>7. \A p \in Orders : /\ IsTerminal(p)' = IsTerminal(p)
                          /\ IsTerminal(p) => order'[p].status = order[p].status
    BY <1>5, <2>1, <2>2 DEF IsTerminal, TerminalStatuses
  <2>8. Ledger!Place(o)
    BY <1>1, <1>5, <2>1, <2>2, <2>7 DEF Ledger!Place
  <2> QED BY <1>1, <2>3, <2>4, <2>6, <2>8 DEF LedgerInv, Ledger!Next
<1>8. ASSUME NEW outcome \in Outcomes, SubmitEnds(s, outcome), sub[s].pc = "sent",
             NEW new \in OrderRecord, NEW ts \in SUBSET Trades, NEW state,
             order' = [order EXCEPT ![o] = new], new.fills = order[o].fills \cup ts,
             IsTerminal(o) => new.status = order[o].status,
             Book(o, ts), Mark(o, state)
      PROVE  LedgerInv' /\ [Ledger!Next]_Ledger!vars
  <2>1. sent[o] # 0 /\ UNCHANGED <<venue, inbox, reserved, sent, can, pass>>
    BY <1>2, <1>8 DEF WorkIsOnSent, SubmitEnds, o
  <2>2. AtMostOnceSent' /\ FillsBookedOnce' /\ Ledger!Next
    BY <1>1, <1>8, <2>1, SettleLemma
  <2>3. \A p \in Orders \ {o} : order'[p] = order[p] /\ recon'[p] = recon[p]
    BY <1>1, <1>8 DEF EngineTypeOK, Mark
  <2>4. UnsentIsUntouched'
    BY <1>1, <2>1, <2>3, UnsentLemma
  <2>5. WorkIsOnSent'
    BY <1>1, <1>2, <1>8, <2>1 DEF WorkIsOnSent, SubmitEnds, TaskTypeOK, Sub
  <2> QED BY <2>2, <2>4, <2>5 DEF LedgerInv
<1>9. order[o] \in OrderRecord /\ {} \in SUBSET Trades
  BY <1>1 DEF EngineTypeOK
<1>10. CASE SubmitAccepted(s)
  <2> DEFINE v == reply[s][o].view
             moved == TryTransition(order[o], v.status)
  <2>1. v \in VenueOrder /\ v.fills \in SUBSET Trades
    BY <1>1, ExecutionAssumption DEF VenueTypeOK, Reply, VenueOrder
  <2>2. moved \in OrderRecord /\ moved.fills = order[o].fills
        /\ (IsTerminal(o) => moved.status = order[o].status)
    BY <1>9, <2>1, AnswerLemma DEF IsTerminal
  <2>3. /\ order' = [order EXCEPT ![o] = ApplyFills(moved, v.fills)]
        /\ Book(o, v.fills) /\ Mark(o, "IN_SYNC") /\ SubmitEnds(s, "ACCEPTED")
        /\ sub[s].pc = "sent"
    BY <1>1, <1>10 DEF SubmitAccepted, EngineTypeOK, o
  <2> HIDE DEF v, moved
  <2>4. /\ ApplyFills(moved, v.fills) \in OrderRecord
        /\ ApplyFills(moved, v.fills).fills = order[o].fills \cup v.fills
        /\ IsTerminal(o) => ApplyFills(moved, v.fills).status = order[o].status
    BY <2>1, <2>2, FillsLemma DEF IsTerminal
  <2> QED BY <1>8, <2>1, <2>3, <2>4 DEF Outcomes
<1>11. ASSUME NEW target \in OrderStatuses, NEW outcome \in Outcomes, NEW state,
              sub[s].pc = "sent", order' = [order EXCEPT ![o] = TryTransition(@, target)],
              Mark(o, state), UNCHANGED <<stored, booked>>, SubmitEnds(s, outcome)
       PROVE  LedgerInv' /\ [Ledger!Next]_Ledger!vars
  <2> DEFINE new == TryTransition(order[o], target)
  <2>1. /\ new \in OrderRecord /\ new.fills = order[o].fills \cup {}
        /\ IsTerminal(o) => new.status = order[o].status
    BY <1>9, TransitionLemma DEF IsTerminal
  <2>2. order' = [order EXCEPT ![o] = new] /\ Book(o, {})
    BY <1>1, <1>11, NothingBooked DEF EngineTypeOK
  <2> HIDE DEF new
  <2> QED BY <1>8, <1>9, <1>11, <2>1, <2>2
<1>12. CASE SubmitRejected(s) \/ SubmitRefused(s)
  BY <1>11, <1>12
     DEF SubmitRejected, SubmitRefused, o, OrderStatuses, TerminalStatuses, Outcomes
<1>13. CASE SubmitUnknown(s)
  <2>1. order' = [order EXCEPT ![o] = order[o]] /\ Book(o, {})
        /\ order[o].fills = order[o].fills \cup {}
    BY <1>1, <1>13, NothingBooked DEF SubmitUnknown, EngineTypeOK
  <2>2. PICK outcome \in Outcomes : SubmitEnds(s, outcome)
    BY <1>13 DEF SubmitUnknown, Outcomes
  <2> QED BY <1>8, <1>9, <1>13, <2>1, <2>2 DEF SubmitUnknown, o
<1> QED BY <1>4, <1>6, <1>7, <1>10, <1>12, <1>13 DEF SubmitStep

LEMMA StreamLedgerStep ==
  ASSUME TypeOK, LedgerInv, NEW o \in Orders, NEW t \in Trades, StreamFill(o, t)
  PROVE  LedgerInv' /\ [Ledger!Next]_Ledger!vars
<1>1. order \in [Orders -> OrderRecord] /\ order[o] \in OrderRecord /\ {t} \in SUBSET Trades
  BY DEF TypeOK, EngineTypeOK
<1>2. UnsentIsUntouched /\ WorkIsOnSent
  BY DEF LedgerInv
<1>3. sent[o] # 0
  <2>1. Absent.fills = {} /\ t \in venue[o].fills
    BY DEF Absent, StreamFill
  <2> QED BY <1>2, <2>1 DEF UnsentIsUntouched
<1> DEFINE new == ApplyFills(order[o], {t})
<1>4. new \in OrderRecord /\ new.fills = order[o].fills \cup {t}
      /\ (IsTerminal(o) => new.status = order[o].status)
  BY <1>1, FillsLemma DEF IsTerminal
<1>5. ApplyFill(order[o], t) = new
  BY <1>1, FillLemma
<1> HIDE DEF new
<1>6. order' = [order EXCEPT ![o] = new] /\ Book(o, {t})
      /\ UNCHANGED <<venueVars, reserved, recon, sent, sub, can, pass>>
  BY <1>1, <1>5 DEF StreamFill
<1>7. AtMostOnceSent' /\ FillsBookedOnce' /\ Ledger!Next
  BY <1>1, <1>3, <1>4, <1>6, SettleLemma
<1>8. UnsentIsUntouched'
  BY <1>1, <1>3, <1>6, UnsentLemma DEF venueVars
<1>9. WorkIsOnSent'
  BY <1>2, <1>6 DEF WorkIsOnSent
<1> QED BY <1>7, <1>8, <1>9 DEF LedgerInv

LEMMA CancelLedgerStep ==
  ASSUME TypeOK, LedgerInv, NEW c \in Cancellers, CancelStep(c)
  PROVE  LedgerInv' /\ [Ledger!Next]_Ledger!vars
<1>1. /\ order \in [Orders -> OrderRecord] /\ recon \in [Orders -> ReconStates]
      /\ can \in [Cancellers -> Can] /\ None \notin Orders
      /\ can[c].pc # "idle" => can[c].target \in Orders
  BY ExecutionAssumption DEF TypeOK, EngineTypeOK, TaskTypeOK
<1>2. UnsentIsUntouched /\ WorkIsOnSent
  BY DEF LedgerInv
<1>3. ASSUME NEW o \in Orders, NEW to \in Can, sent[o] # 0,
             can' = [can EXCEPT ![c] = to], to.target \in {o, None},
             \/ UNCHANGED order
             \/ \E target \in OrderStatuses :
                  order' = [order EXCEPT ![o] = TryTransition(@, target)],
             UNCHANGED recon \/ Mark(o, "UNKNOWN"),
             \A m \in inbox' \ inbox : m.order = o,
             UNCHANGED <<venue, reserved, stored, booked, sent, sub, pass>>
      PROVE  LedgerInv' /\ [Ledger!Next]_Ledger!vars
  <2>1. PICK new \in OrderRecord :
          /\ order' = [order EXCEPT ![o] = new] /\ new.fills = order[o].fills
          /\ IsTerminal(o) => new.status = order[o].status
    <3>1. order[o] \in OrderRecord
      BY <1>1
    <3>2. CASE UNCHANGED order
      <4>1. order' = [order EXCEPT ![o] = order[o]]
        BY <1>1, <3>2
      <4> QED BY <3>1, <4>1
    <3>3. CASE ~UNCHANGED order
      <4>1. PICK target \in OrderStatuses :
              order' = [order EXCEPT ![o] = TryTransition(order[o], target)]
        BY <1>3, <3>3
      <4>2. /\ TryTransition(order[o], target) \in OrderRecord
            /\ TryTransition(order[o], target).fills = order[o].fills
            /\ IsTerminal(o) => TryTransition(order[o], target).status = order[o].status
        BY <3>1, TransitionLemma DEF IsTerminal
      <4> QED BY <4>1, <4>2
    <3> QED BY <3>2, <3>3
  <2>2. Book(o, {}) /\ new.fills = order[o].fills \cup {} /\ {} \in SUBSET Trades
    BY <1>3, <2>1, NothingBooked
  <2>3. AtMostOnceSent' /\ FillsBookedOnce' /\ Ledger!Next
    BY <1>3, <2>1, <2>2, SettleLemma
  <2>4. \A p \in Orders \ {o} : order'[p] = order[p] /\ recon'[p] = recon[p]
    BY <1>1, <1>3, <2>1 DEF Mark
  <2>5. UnsentIsUntouched'
    BY <1>3, <2>4, UnsentLemma
  <2>6. WorkIsOnSent'
    BY <1>1, <1>2, <1>3 DEF WorkIsOnSent
  <2> QED BY <2>3, <2>5, <2>6 DEF LedgerInv
<1>4. [pc |-> "idle", target |-> None] \in Can
      /\ \A o \in Orders, pc \in {"sent", "waiting"} : [pc |-> pc, target |-> o] \in Can
  BY DEF Can
<1>5. {"CANCEL_REQUESTED", "CANCELLED"} \subseteq OrderStatuses
  BY DEF OrderStatuses, OpenStatuses, TerminalStatuses
<1>6. ASSUME NEW o \in Orders, sent[o] # 0, CancelTransmits(c, o)
      PROVE  LedgerInv' /\ [Ledger!Next]_Ledger!vars
  <2> DEFINE to == [pc |-> "sent", target |-> o]
  <2>1. /\ to \in Can /\ to.target = o /\ can' = [can EXCEPT ![c] = to]
        /\ order' = [order EXCEPT ![o] = TryTransition(@, "CANCEL_REQUESTED")]
        /\ UNCHANGED <<venue, reserved, recon, stored, booked, sent, sub, pass>>
    BY <1>4, <1>6 DEF CancelTransmits
  <2>2. \A m \in inbox' \ inbox : m.order = o
    BY <1>6 DEF CancelTransmits
  <2> HIDE DEF to
  <2> QED BY <1>3, <1>5, <1>6, <2>1, <2>2
<1>7. \A o \in Orders : MayCancel(o) => sent[o] # 0
  BY <1>2 DEF MayCancel, UnsentIsUntouched, IsTerminal, TerminalStatuses, NewOrder
<1>8. ASSUME NEW o \in Orders, CancelNow(c, o) \/ CancelWaits(c, o)
      PROVE  LedgerInv' /\ [Ledger!Next]_Ledger!vars
  <2>1. sent[o] # 0
    BY <1>7, <1>8 DEF CancelNow, CancelWaits
  <2>2. CASE CancelNow(c, o)
    BY <1>6, <2>1, <2>2 DEF CancelNow
  <2>3. CASE CancelWaits(c, o)
    <3> DEFINE to == [pc |-> "waiting", target |-> o]
    <3>1. to \in Can /\ to.target = o /\ can' = [can EXCEPT ![c] = to]
          /\ UNCHANGED <<venueVars, orderVars, sub, pass>>
      BY <1>4, <2>3 DEF CancelWaits
    <3> HIDE DEF to
    <3> QED BY <1>3, <2>1, <3>1 DEF orderVars, venueVars
  <2> QED BY <1>8, <2>2, <2>3
<1>9. can[c].pc # "idle" => can[c].target \in Orders /\ sent[can[c].target] # 0
  BY <1>1, <1>2 DEF WorkIsOnSent
<1>10. CASE CancelResumes(c) \/ CancelGivesUp(c)
  BY <1>3, <1>4, <1>6, <1>9, <1>10 DEF CancelResumes, CancelGivesUp, orderVars, venueVars
<1>11. CASE CancelAccepted(c) \/ CancelRefused(c) \/ CancelUnknown(c)
  BY <1>3, <1>4, <1>5, <1>9, <1>11 DEF CancelAccepted, CancelRefused, CancelUnknown, CancelEnds
<1> QED BY <1>8, <1>10, <1>11 DEF CancelStep

LEMMA PassLedgerStep ==
  ASSUME TypeOK, LedgerInv, NEW r \in Reconcilers, PassStep(r) \/ VenueUnreachable(r)
  PROVE  LedgerInv' /\ [Ledger!Next]_Ledger!vars
<1>1. /\ EngineTypeOK /\ TaskTypeOK /\ pass[r] \in Pass /\ None \notin Orders
      /\ \A o \in Orders : pass[r].open[o] \in VenueOrder
      /\ pass[r].answer \in VenueOrder
      /\ pass[r].pc \in {"missing", "asking", "resolving"} => pass[r].cur \in Orders
  BY ExecutionAssumption DEF TypeOK, TaskTypeOK, Pass
<1>2. UnsentIsUntouched /\ WorkIsOnSent
  BY DEF LedgerInv
<1>3. ASSUME NEW p, PassTo(r, p), \A o \in p.todo \cup {p.cur} : o # None => sent[o] # 0,
             UNCHANGED <<reserved, sent, sub, can>>
      PROVE  WorkIsOnSent'
  BY <1>1, <1>2, <1>3 DEF WorkIsOnSent, PassTo, TaskTypeOK
<1>4. \A o \in pass[r].todo \cup {pass[r].cur} : o # None => sent[o] # 0
  BY <1>2 DEF WorkIsOnSent
<1>5. ASSUME WorkIsOnSent', UNCHANGED <<venueVars, orderVars>>
      PROVE  LedgerInv' /\ [Ledger!Next]_Ledger!vars
  <2>1. AtMostOnceSent' /\ FillsBookedOnce' /\ UNCHANGED Ledger!vars
    BY <1>5, QuietLemma DEF orderVars
  <2>2. UnsentIsUntouched'
    BY <1>2, <1>5 DEF UnsentIsUntouched, orderVars, venueVars
  <2> QED BY <1>5, <2>1, <2>2 DEF LedgerInv
<1>6. ASSUME NEW o \in Orders, NEW v \in VenueOrder, sent[o] # 0, Resolve(o, v),
             FlagIfDiverged(o, v) \/ Mark(o, "IN_SYNC"),
             WorkIsOnSent', UNCHANGED <<venueVars, reserved, sent>>
      PROVE  LedgerInv' /\ [Ledger!Next]_Ledger!vars
  <2> DEFINE new == Resolution(o, v)
  <2>1. /\ new \in OrderRecord /\ new.fills = order[o].fills \cup v.fills
        /\ IsTerminal(o) => new.status = order[o].status
    BY <1>1, ResolutionLemma DEF EngineTypeOK
  <2>2. v.fills \in SUBSET Trades /\ order' = [order EXCEPT ![o] = new] /\ Book(o, v.fills)
    BY <1>6 DEF Resolve, VenueOrder
  <2> HIDE DEF new
  <2>3. AtMostOnceSent' /\ FillsBookedOnce' /\ Ledger!Next
    BY <1>6, <2>1, <2>2, SettleLemma
  <2>4. \A q \in Orders \ {o} : order'[q] = order[q] /\ recon'[q] = recon[q]
    BY <1>1, <1>6, <2>2 DEF FlagIfDiverged, Mark, EngineTypeOK
  <2>5. UnsentIsUntouched'
    BY <1>6, <2>4, UnsentLemma DEF venueVars
  <2> QED BY <1>6, <2>3, <2>5 DEF LedgerInv
<1>7. IdlePass.todo = {} /\ IdlePass.cur = None
  BY DEF IdlePass
<1>8. \A o \in reserved : ~IsTerminal(o) \/ NeedsReconciliation(o) => sent[o] # 0
  BY <1>1, <1>2 DEF EngineTypeOK, UnsentIsUntouched, IsTerminal, NeedsReconciliation,
                    TerminalStatuses, NewOrder
<1>9. CASE PassBegins(r)
  <2> DEFINE p == [IdlePass EXCEPT !.pc = "listing",
                                   !.todo = {o \in reserved : ~IsTerminal(o)}]
  <2>1. p.todo = {o \in reserved : ~IsTerminal(o)} /\ p.cur = None
    BY DEF IdlePass
  <2>2. PassTo(r, p) /\ UNCHANGED <<venueVars, orderVars, sub, can>>
    BY <1>9 DEF PassBegins
  <2> HIDE DEF p
  <2> QED BY <1>3, <1>5, <1>8, <2>1, <2>2 DEF orderVars
<1>10. CASE PassFlagged(r)
  <2> DEFINE p == [IdlePass EXCEPT !.pc = "flagged",
                                   !.todo = {o \in reserved : NeedsReconciliation(o)}]
  <2>1. p.todo = {o \in reserved : NeedsReconciliation(o)} /\ p.cur = None
    BY DEF IdlePass
  <2>2. PassTo(r, p) /\ UNCHANGED <<venueVars, orderVars, sub, can>>
    BY <1>10 DEF PassFlagged
  <2> HIDE DEF p
  <2> QED BY <1>3, <1>5, <1>8, <2>1, <2>2 DEF orderVars
<1>11. ASSUME NEW p, PassTo(r, p),
              p.todo \subseteq pass[r].todo, p.cur \in pass[r].todo \cup {pass[r].cur, None},
              UNCHANGED <<reserved, sent, sub, can>>
       PROVE  WorkIsOnSent'
  BY <1>3, <1>4, <1>11
<1>12. CASE PassLists(r) \/ FlaggedAnswered(r) \/ PassEnds(r)
  <2>1. PICK p : /\ PassTo(r, p) /\ p.todo \subseteq pass[r].todo
                 /\ p.cur \in pass[r].todo \cup {pass[r].cur, None}
    <3>1. CASE PassLists(r)
      <4> DEFINE open == [o \in Orders |-> IF IsLive(venue[o]) THEN View(venue[o])
                                                               ELSE Absent]
                 p == [pass[r] EXCEPT !.pc = "orders", !.open = open]
      <4>1. PassTo(r, p)
        BY <3>1 DEF PassLists
      <4> HIDE DEF open
      <4>2. p.todo = pass[r].todo /\ p.cur = pass[r].cur
        BY <1>1 DEF Pass
      <4> QED BY <4>1, <4>2
    <3>2. CASE FlaggedAnswered(r)
      <4> DEFINE p == [pass[r] EXCEPT !.pc = "resolving",
                                      !.answer = View(venue[pass[r].cur])]
      <4>1. PassTo(r, p)
        BY <3>2 DEF FlaggedAnswered
      <4>2. p.todo = pass[r].todo /\ p.cur = pass[r].cur
        BY <1>1 DEF Pass
      <4> QED BY <4>1, <4>2
    <3> QED BY <1>7, <1>12, <3>1, <3>2 DEF PassEnds
  <2>2. UNCHANGED <<venueVars, orderVars, sub, can>>
    BY <1>12 DEF PassLists, FlaggedAnswered, PassEnds
  <2> QED BY <1>5, <1>11, <2>1, <2>2 DEF orderVars
<1>13. ASSUME NEW o \in Orders, AskMissing(r, o) \/ SkipFlagged(r, o) \/ AskFlagged(r, o)
       PROVE  LedgerInv' /\ [Ledger!Next]_Ledger!vars
  <2>1. PICK p : /\ PassTo(r, p) /\ p.todo \subseteq pass[r].todo
                 /\ p.cur \in pass[r].todo \cup {pass[r].cur, None}
    <3>1. CASE AskMissing(r, o)
      <4> DEFINE p == [pass[r] EXCEPT !.pc = "missing", !.cur = o, !.answer = View(venue[o])]
      <4>1. PassTo(r, p) /\ o \in pass[r].todo
        BY <3>1 DEF AskMissing
      <4>2. p.todo = pass[r].todo /\ p.cur = o
        BY <1>1 DEF Pass
      <4> QED BY <4>1, <4>2
    <3>2. CASE SkipFlagged(r, o)
      <4> DEFINE p == [pass[r] EXCEPT !.todo = @ \ {o}]
      <4>1. PassTo(r, p) /\ p.todo \subseteq pass[r].todo /\ p.cur = pass[r].cur
        BY <1>1, <3>2 DEF SkipFlagged, Pass
      <4> QED BY <4>1
    <3>3. CASE AskFlagged(r, o)
      <4> DEFINE p == [pass[r] EXCEPT !.pc = "asking", !.cur = o]
      <4>1. PassTo(r, p) /\ o \in pass[r].todo /\ p.todo = pass[r].todo /\ p.cur = o
        BY <1>1, <3>3 DEF AskFlagged, Pass
      <4> QED BY <4>1
    <3> QED BY <1>13, <3>1, <3>2, <3>3
  <2>2. UNCHANGED <<venueVars, orderVars, sub, can>>
    BY <1>13 DEF AskMissing, SkipFlagged, AskFlagged
  <2> QED BY <1>5, <1>11, <2>1, <2>2 DEF orderVars
<1>14. ASSUME NEW pc, Answered(r, pc), UNCHANGED <<reserved, sent, sub, can>>
       PROVE  WorkIsOnSent'
  <2> DEFINE p == [pass[r] EXCEPT !.pc = pc, !.todo = @ \ {pass[r].cur}, !.cur = None,
                                  !.answer = Absent]
  <2>1. p.todo \subseteq pass[r].todo /\ p.cur = None /\ PassTo(r, p)
    BY <1>1, <1>14 DEF Pass, Answered
  <2> QED BY <1>11, <1>14, <2>1
<1>15. CASE VenueUnreachable(r)
  <2>1. UNCHANGED <<venueVars, orderVars, sub, can>>
    BY <1>15 DEF VenueUnreachable
  <2>2. PassTo(r, IdlePass) \/ \E pc \in {"flagged"} : Answered(r, pc)
    BY <1>15 DEF VenueUnreachable
  <2>3. WorkIsOnSent'
    BY <1>7, <1>11, <1>14, <2>1, <2>2 DEF orderVars
  <2> QED BY <1>5, <2>1, <2>3
<1>16. ASSUME NEW o \in Orders, AdoptListed(r, o)
       PROVE  LedgerInv' /\ [Ledger!Next]_Ledger!vars
  <2>1. sent[o] # 0 /\ pass[r].open[o] \in VenueOrder
    BY <1>1, <1>4, <1>16 DEF AdoptListed
  <2> DEFINE p == [pass[r] EXCEPT !.todo = @ \ {o}]
  <2>2. p.todo \subseteq pass[r].todo /\ p.cur = pass[r].cur /\ PassTo(r, p)
        /\ UNCHANGED <<venueVars, reserved, sent, sub, can>>
    BY <1>1, <1>16 DEF AdoptListed, Pass
  <2>3. WorkIsOnSent'
    BY <1>11, <2>2
  <2> QED BY <1>6, <1>16, <2>1, <2>2, <2>3 DEF AdoptListed
<1>17. CASE ApplyMissing(r) \/ ResolveUnknown(r)
  <2>1. pass[r].cur \in Orders /\ sent[pass[r].cur] # 0
    BY <1>1, <1>4, <1>17 DEF ApplyMissing, ResolveUnknown
  <2>2. UNCHANGED <<venueVars, reserved, sent, sub, can>>
        /\ \E pc \in {"orders", "flagged"} : Answered(r, pc)
    BY <1>17 DEF ApplyMissing, ResolveUnknown
  <2>3. WorkIsOnSent'
    BY <1>14, <2>2
  <2> QED BY <1>1, <1>6, <1>17, <2>1, <2>2, <2>3 DEF ApplyMissing, ResolveUnknown
<1> QED BY <1>9, <1>10, <1>12, <1>13, <1>15, <1>16, <1>17 DEF PassStep

(* What the venue does on its own is no step of the TradeLedger. *)
LEMMA VenueLedgerStep ==
  ASSUME TypeOK, LedgerInv, ExchangeStep
  PROVE  LedgerInv' /\ UNCHANGED Ledger!vars
<1>1. UnsentIsUntouched /\ WorkIsOnSent /\ venue \in [Orders -> VenueOrder]
      /\ inbox \in SUBSET Request
  BY DEF LedgerInv, TypeOK, VenueTypeOK
<1>2. VenueNext /\ UNCHANGED <<dryRun, orderVars, lockVars, sub, can, pass>>
  BY DEF ExchangeStep
<1>3. AtMostOnceSent' /\ FillsBookedOnce' /\ UNCHANGED Ledger!vars
  BY <1>2, QuietLemma DEF orderVars
<1>4. WorkIsOnSent'
  BY <1>1, <1>2 DEF WorkIsOnSent, orderVars
<1>5. inbox' \subseteq inbox
  BY <1>2 DEF VenueNext, VenueAccepts, VenueRejects, VenueCancels, VenueLoses, VenueTrades,
              VenueExpires
<1>6. \A o \in Orders : sent[o] = 0 => venue'[o] = venue[o]
  <2> SUFFICES ASSUME NEW o \in Orders, sent[o] = 0 PROVE venue'[o] = venue[o]
    OBVIOUS
  <2>1. venue[o] = Absent /\ ~IsLive(venue[o]) /\ \A m \in inbox : m.order # o
    <3>1. ~IsLive(Absent)
      BY DEF IsLive, Absent, LiveStatuses
    <3> QED BY <1>1, <3>1 DEF UnsentIsUntouched
  <2>2. ASSUME NEW m \in inbox,
               VenueAccepts(m) \/ VenueRejects(m) \/ VenueCancels(m) \/ VenueLoses(m)
        PROVE  venue'[o] = venue[o]
    BY <1>1, <2>1, <2>2 DEF VenueAccepts, VenueRejects, VenueCancels, VenueLoses
  <2>3. ASSUME NEW p \in Orders, VenueTrades(p) \/ VenueExpires(p)
        PROVE  venue'[o] = venue[o]
    BY <1>1, <2>1, <2>3 DEF VenueTrades, VenueExpires
  <2> QED BY <1>2, <2>2, <2>3 DEF VenueNext
<1>7. UnsentIsUntouched'
  BY <1>1, <1>2, <1>5, <1>6 DEF UnsentIsUntouched, orderVars
<1> QED BY <1>3, <1>4, <1>7 DEF LedgerInv

LEMMA LedgerStep ==
  TypeOK /\ LedgerInv /\ [Next]_vars => LedgerInv' /\ [Ledger!Next]_Ledger!vars
<1> SUFFICES ASSUME TypeOK, LedgerInv, [Next]_vars
             PROVE  LedgerInv' /\ [Ledger!Next]_Ledger!vars
  OBVIOUS
<1>1. CASE LockExpires \/ UNCHANGED vars
  <2>1. UNCHANGED <<venueVars, orderVars, sub, can, pass>>
    BY <1>1 DEF LockExpires, vars
  <2>2. AtMostOnceSent' /\ FillsBookedOnce' /\ UNCHANGED Ledger!vars
    BY <2>1, QuietLemma DEF orderVars
  <2>3. UnsentIsUntouched' /\ WorkIsOnSent'
    BY <2>1 DEF LedgerInv, UnsentIsUntouched, WorkIsOnSent, orderVars, venueVars
  <2> QED BY <2>2, <2>3 DEF LedgerInv
<1> QED BY <1>1, SubmitLedgerStep, StreamLedgerStep, CancelLedgerStep, PassLedgerStep,
           VenueLedgerStep DEF Next

(* "Ambiguity never resubmits": no interleaving of submissions, timeouts, lost
   messages, expired locks and passes transmits an intent twice. *)
THEOREM NeverSentTwice == Spec => []AtMostOnceSent
<1>1. LedgerInv => AtMostOnceSent
  BY DEF LedgerInv
<1> QED BY <1>1, TypeCorrect, LedgerInit, LedgerStep, PTL DEF Spec

(* Whatever reports a trade and however often, it is in the ledger, in the order
   and, once, in the position. *)
THEOREM BookedOnce == Spec => []FillsBookedOnce
<1>1. LedgerInv => FillsBookedOnce
  BY DEF LedgerInv
<1> QED BY <1>1, TypeCorrect, LedgerInit, LedgerStep, PTL DEF Spec

(* The engine and the passes implement the TradeLedger: every step is one
   placement, one settlement, one discarded order, or no step of it. *)
THEOREM ImplementsLedger == Spec => LedgerSpec
BY TypeCorrect, LedgerInit, LedgerStep, PTL DEF Spec, LedgerSpec, Ledger!Spec

--------------------------------------------------------------------------------
(* What the venue said of an order, at some earlier time. *)
Past(v, o) ==
  /\ v.fills \subseteq venue[o].fills
  /\ v.status # "ABSENT" => venue[o].status # "ABSENT"
  /\ v.status \in {"FILLED", "CANCELLED", "EXPIRED"} => venue[o].status = v.status

(* A view or an order that claims to be filled shows every trade. *)
Carries(v) == v.status = "FILLED" => v.fills = Trades

InFlight(o) == \E m \in inbox : m.kind = "PLACE" /\ m.order = o

(* A submitter's messages are placements, a canceller's are not; a placement on
   its way is the only one, and the venue has not seen the order. *)
PlacementsAreFirst ==
  /\ \A m \in inbox : m.kind = "PLACE" <=> m.from \in Submitters
  /\ \A m \in inbox : m.kind = "PLACE" =>
       /\ venue[m.order].status = "ABSENT"
       /\ \A n \in inbox : n.kind = "PLACE" /\ n.order = m.order => n = m

FilledIsAll == \A o \in Orders : venue[o].fills = Trades <=> venue[o].status = "FILLED"

(* What a submission has heard, once it has, nothing in flight can change. *)
RepliesArePast ==
  /\ \A s \in Submitters : \A o \in Orders :
       /\ reply[s][o].kind # "CLOSED" => sent[o] # 0
       /\ reply[s][o].kind = "ACCEPTED" => Past(reply[s][o].view, o) /\ Carries(reply[s][o].view)
       /\ reply[s][o].kind \in {"ACCEPTED", "REJECTED", "REFUSED"} => ~InFlight(o)
       /\ reply[s][o].kind = "REJECTED" => venue[o].status = "ABSENT"
  /\ \A c \in Cancellers : \A o \in Orders :
       reply[c][o].kind = "CANCELLED" => venue[o].status = "CANCELLED"

(* What a pass has read. *)
Read(v, o) == Past(v, o) /\ (ViewCarriesFills => Carries(v))

PassesArePast ==
  \A r \in Reconcilers :
    /\ \A o \in Orders : Read(pass[r].open[o], o)
    /\ pass[r].pc \in {"missing", "resolving"} => Read(pass[r].answer, pass[r].cur)

(* An order says nothing that the venue does not. *)
Fits(o, ord) ==
  /\ ord.fills \subseteq venue[o].fills
  /\ ord.status \in {"FILLED", "EXPIRED"} => venue[o].status = ord.status
  /\ ord.status = "CANCELLED" /\ ~dryRun => venue[o].status = "CANCELLED"
  /\ ord.status = "REJECTED" => venue[o].status = "ABSENT" /\ ~InFlight(o)
  /\ ViewCarriesFills => Carries(ord)

OrdersAreTrue ==
  /\ dryRun => \A o \in Orders : sent[o] = 0
  /\ \A o \in Orders : Fits(o, order[o])

TruthInv ==
  /\ PlacementsAreFirst /\ FilledIsAll /\ RepliesArePast /\ PassesArePast
  /\ OrdersAreTrue /\ InFlightIsMarked

(* What the passes, the connections and the orders do not touch. *)
TruthVars == <<venue, inbox, dryRun, sent>>

LEMMA TruthParts ==
  ASSUME TypeOK, LedgerInv, TruthInv
  PROVE  /\ venue \in [Orders -> VenueOrder] /\ inbox \in SUBSET Request
         /\ reply \in [Tasks -> [Orders -> Reply]]
         /\ order \in [Orders -> OrderRecord] /\ recon \in [Orders -> ReconStates]
         /\ sent \in [Orders -> Nat] /\ pass \in [Reconcilers -> Pass]
         /\ sub \in [Submitters -> Sub] /\ can \in [Cancellers -> Can]
         /\ PlacementsAreFirst /\ FilledIsAll /\ RepliesArePast /\ PassesArePast
         /\ OrdersAreTrue /\ InFlightIsMarked
         /\ UnsentIsUntouched /\ WorkIsOnSent
BY DEF TypeOK, VenueTypeOK, EngineTypeOK, TaskTypeOK, LedgerInv, TruthInv

(* While the venue, the messages and the connections stay, what was said stays. *)
LEMMA NothingHeard ==
  ASSUME TruthInv, UNCHANGED <<TruthVars, reply>>
  PROVE  PlacementsAreFirst' /\ FilledIsAll' /\ RepliesArePast'
BY DEF TruthInv, TruthVars, PlacementsAreFirst, FilledIsAll, RepliesArePast, Past, Carries,
       InFlight

LEMMA HangingUp ==
  ASSUME TypeOK, TruthInv, UNCHANGED TruthVars,
         NEW t \in Tasks, NEW o \in Orders, reply' = CloseConnection(t, o)
  PROVE  PlacementsAreFirst' /\ FilledIsAll' /\ RepliesArePast'
<1>1. reply \in [Tasks -> [Orders -> Reply]] /\ Submitters \subseteq Tasks
      /\ Cancellers \subseteq Tasks
  BY ExecutionAssumption DEF TypeOK, VenueTypeOK
<1>2. PlacementsAreFirst' /\ FilledIsAll'
  BY DEF TruthInv, TruthVars, PlacementsAreFirst, FilledIsAll
<1>3. \A u \in Tasks : \A p \in Orders :
        reply'[u][p] = reply[u][p] \/ reply'[u][p].kind = "CLOSED"
  BY <1>1 DEF CloseConnection, Closed
<1>4. \A v, p : Past(v, p)' = Past(v, p)
  BY DEF TruthVars, Past
<1>5. \A p : InFlight(p)' = InFlight(p)
  BY DEF TruthVars, InFlight
<1>6. RepliesArePast
  BY DEF TruthInv
<1>7. ASSUME NEW s \in Submitters, NEW p \in Orders
      PROVE  /\ reply'[s][p].kind # "CLOSED" => sent'[p] # 0
             /\ reply'[s][p].kind = "ACCEPTED" =>
                  Past(reply[s][p].view, p)' /\ Carries(reply[s][p].view)'
             /\ reply'[s][p].kind \in {"ACCEPTED", "REJECTED", "REFUSED"} => ~InFlight(p)'
             /\ reply'[s][p].kind = "REJECTED" => venue'[p].status = "ABSENT"
  <2>1. CASE reply'[s][p].kind = "CLOSED"
    BY <2>1
  <2>2. CASE reply'[s][p] = reply[s][p]
    BY <1>5, <1>6, <2>2 DEF RepliesArePast, TruthVars, Past, Carries
  <2> QED BY <1>1, <1>3, <2>1, <2>2
<1>8. ASSUME NEW c \in Cancellers, NEW p \in Orders, reply'[c][p].kind = "CANCELLED"
      PROVE  venue'[p].status = "CANCELLED"
  BY <1>1, <1>3, <1>6, <1>8 DEF RepliesArePast, TruthVars
<1> QED BY <1>2, <1>7, <1>8 DEF RepliesArePast

LEMMA NothingRead ==
  ASSUME TruthInv, UNCHANGED <<venue, pass>>
  PROVE  PassesArePast'
BY DEF TruthInv, PassesArePast, Read, Past, Carries

LEMMA OrdersStay ==
  ASSUME TruthInv, UNCHANGED <<TruthVars, order, recon>>
  PROVE  OrdersAreTrue' /\ InFlightIsMarked'
BY DEF TruthInv, OrdersAreTrue, Fits, Carries, InFlight, InFlightIsMarked, TruthVars

(* An order that becomes another which fits the venue too. *)
LEMMA OrderMoves ==
  ASSUME TypeOK, TruthInv, UNCHANGED TruthVars,
         NEW o \in Orders, NEW new \in OrderRecord, Fits(o, new),
         order' = [order EXCEPT ![o] = new],
         \A p \in Orders \ {o} : recon'[p] = recon[p],
         InFlight(o) => recon'[o] = "UNKNOWN" \/ new.status = "FAILED"
  PROVE  OrdersAreTrue' /\ InFlightIsMarked'
<1>1. order \in [Orders -> OrderRecord] /\ inbox \in SUBSET Request
  BY DEF TypeOK, EngineTypeOK, VenueTypeOK
<1>2. order'[o] = new /\ \A p \in Orders \ {o} : order'[p] = order[p]
  BY <1>1
<1>4. OrdersAreTrue'
  <2>1. \A p \in Orders : Fits(p, order'[p])
    BY <1>2 DEF TruthInv, OrdersAreTrue
  <2>2. \A p \in Orders : Fits(p, order[p])'
    BY <2>1 DEF Fits, InFlight, Carries, TruthVars
  <2> QED BY <2>2 DEF TruthInv, OrdersAreTrue, TruthVars
<1>5. ASSUME NEW m \in inbox, m.kind = "PLACE"
      PROVE  recon'[m.order] = "UNKNOWN" \/ order'[m.order].status = "FAILED"
  <2>1. m.order \in Orders
    BY <1>1 DEF Request
  <2>2. CASE m.order = o
    BY <1>2, <1>5, <2>2 DEF InFlight
  <2>3. CASE m.order # o
    BY <1>2, <1>5, <2>1, <2>3 DEF TruthInv, InFlightIsMarked
  <2> QED BY <2>2, <2>3
<1>6. InFlightIsMarked'
  BY <1>5 DEF InFlightIsMarked, TruthVars
<1> QED BY <1>4, <1>6

(* The statuses an order may take on. *)
LEMMA FitsTransition ==
  ASSUME NEW o \in Orders, NEW ord \in OrderRecord, Fits(o, ord),
         NEW target \in OrderStatuses, Fits(o, [ord EXCEPT !.status = target])
  PROVE  Fits(o, TryTransition(ord, target))
BY DEF TryTransition

(* Trades of the venue. *)
LEMMA FitsFills ==
  ASSUME NEW o \in Orders, NEW ord \in OrderRecord, NEW ts \in SUBSET Trades,
         Fits(o, ord), ts \subseteq venue[o].fills, FilledIsAll,
         venue \in [Orders -> VenueOrder]
  PROVE  Fits(o, ApplyFills(ord, ts))
<1>1. /\ ApplyFills(ord, ts).fills = ord.fills \cup ts
      /\ ApplyFills(ord, ts).status \in {ord.status, "FILLED", "PARTIALLY_FILLED"}
      /\ ApplyFills(ord, ts).status = "FILLED" => ord.status = "FILLED" \/ ord.fills \cup ts = Trades
      /\ ord.status \in TerminalStatuses => ApplyFills(ord, ts).status = ord.status
  BY FillsLemma
<1>2. ord.fills \cup ts \subseteq venue[o].fills /\ venue[o].fills \subseteq Trades
  BY DEF Fits, VenueOrder
<1>3. ord.fills \cup ts = Trades => venue[o].status = "FILLED"
  BY <1>2 DEF FilledIsAll
<1>4. ord.fills = Trades => ord.fills \cup ts = Trades
  BY DEF OrderRecord
<1> HIDE DEF FilledIsAll
<1> QED BY <1>1, <1>2, <1>3, <1>4 DEF Fits, Carries, TerminalStatuses

--------------------------------------------------------------------------------
(* A placement goes out: its order is new to the venue and to everybody. *)
LEMMA TransmitTruth ==
  ASSUME TypeOK, LedgerInv, TruthInv, NEW s \in Submitters, SubmitTransmits(s)
  PROVE  TruthInv'
<1> DEFINE o == Intent[s]
           msg == [kind |-> "PLACE", order |-> o, from |-> s]
           new == [status |-> "SUBMITTED", fills |-> {}]
<1>1. o \in Orders /\ s \in Tasks /\ Submitters \subseteq Tasks /\ Cancellers \subseteq Tasks
      /\ Submitters \cap Cancellers = {}
  BY ExecutionAssumption
<1>2. /\ o \notin reserved /\ ~dryRun
      /\ order' = [order EXCEPT ![o] = new]
      /\ recon' = [recon EXCEPT ![o] = "UNKNOWN"]
      /\ sent' = [sent EXCEPT ![o] = @ + 1]
      /\ inbox' = inbox \cup {msg}
      /\ reply' = [reply EXCEPT ![s][o] = Pending]
      /\ UNCHANGED <<venue, dryRun, pass>>
  BY NewOrderLemma DEF SubmitTransmits, IsUnused, MarkInFlight, Mark, OpenConnection
<1> HIDE DEF o
<1>3. /\ venue \in [Orders -> VenueOrder] /\ inbox \in SUBSET Request
      /\ reply \in [Tasks -> [Orders -> Reply]]
      /\ order \in [Orders -> OrderRecord] /\ recon \in [Orders -> ReconStates]
      /\ sent \in [Orders -> Nat]
      /\ PlacementsAreFirst /\ FilledIsAll /\ RepliesArePast /\ PassesArePast
      /\ OrdersAreTrue /\ InFlightIsMarked
      /\ UnsentIsUntouched /\ WorkIsOnSent
  BY TruthParts
<1>4. sent[o] = 0 /\ venue[o] = Absent /\ \A m \in inbox : m.order # o
  BY <1>1, <1>2, <1>3 DEF WorkIsOnSent, UnsentIsUntouched
<1>5. /\ msg.kind = "PLACE" /\ msg.order = o /\ msg.from = s
      /\ venue[o].status = "ABSENT" /\ Pending.kind = "PENDING"
      /\ new.status = "SUBMITTED" /\ new.fills = {}
  BY <1>4 DEF Absent, Pending
<1> HIDE DEF msg, new
<1>6. \A p \in Orders : InFlight(p)' <=> p = o \/ InFlight(p)
  BY <1>1, <1>2, <1>5 DEF InFlight
<1>7. PlacementsAreFirst'
  BY <1>1, <1>2, <1>3, <1>4, <1>5 DEF PlacementsAreFirst
<1>8. FilledIsAll' /\ PassesArePast'
  BY <1>2, <1>3, NothingRead DEF FilledIsAll
<1>9. RepliesArePast'
  <2>1. /\ reply'[s][o].kind = "PENDING" /\ sent'[o] # 0
        /\ \A p \in Orders \ {o} : sent'[p] = sent[p]
        /\ \A u \in Tasks : \A p \in Orders :
             ~(u = s /\ p = o) => reply'[u][p] = reply[u][p]
    BY <1>1, <1>2, <1>3, <1>4, <1>5
  <2>2. ASSUME NEW u \in Submitters, NEW p \in Orders
        PROVE  /\ reply'[u][p].kind # "CLOSED" => sent'[p] # 0
               /\ reply'[u][p].kind = "ACCEPTED" =>
                    Past(reply[u][p].view, p)' /\ Carries(reply[u][p].view)'
               /\ reply'[u][p].kind \in {"ACCEPTED", "REJECTED", "REFUSED"} => ~InFlight(p)'
               /\ reply'[u][p].kind = "REJECTED" => venue'[p].status = "ABSENT"
    <3>1. CASE u = s /\ p = o
      BY <2>1, <3>1
    <3>2. CASE u # s /\ p = o
      BY <1>1, <1>3, <1>4, <2>1, <3>2 DEF RepliesArePast
    <3>3. CASE p # o
      BY <1>1, <1>2, <1>3, <1>6, <2>1, <3>3 DEF RepliesArePast, Past, Carries
    <3> QED BY <3>1, <3>2, <3>3
  <2>3. \A c \in Cancellers : \A p \in Orders :
          reply'[c][p].kind = "CANCELLED" => venue'[p].status = "CANCELLED"
    BY <1>1, <1>2, <1>3, <2>1 DEF RepliesArePast
  <2> QED BY <2>2, <2>3 DEF RepliesArePast
<1>10. OrdersAreTrue'
  <2>1. order'[o] = new /\ \A p \in Orders \ {o} : order'[p] = order[p]
    BY <1>1, <1>2, <1>3
  <2>2. Fits(o, order[o])'
    BY <1>5, <2>1 DEF Fits, Carries
  <2>3. \A p \in Orders \ {o} : Fits(p, order[p])'
    BY <1>2, <1>3, <1>6, <2>1 DEF OrdersAreTrue, Fits, Carries
  <2> QED BY <1>2, <2>2, <2>3 DEF OrdersAreTrue
<1>11. InFlightIsMarked'
  <2>1. recon'[o] = "UNKNOWN"
        /\ \A p \in Orders \ {o} : recon'[p] = recon[p] /\ order'[p] = order[p]
    BY <1>1, <1>2, <1>3
  <2>2. \A m \in inbox : m.order \in Orders \ {o}
    BY <1>3, <1>4 DEF Request
  <2> QED BY <1>2, <1>3, <1>5, <2>1, <2>2 DEF InFlightIsMarked
<1> QED BY <1>7, <1>8, <1>9, <1>10, <1>11 DEF TruthInv

LEMMA SubmitTruth ==
  ASSUME TypeOK, LedgerInv, TruthInv, NEW s \in Submitters, SubmitStep(s)
  PROVE  TruthInv'
<1> DEFINE o == Intent[s]
           v == reply[s][o].view
<1>1. o \in Orders /\ s \in Tasks
  BY ExecutionAssumption
<1>2. /\ venue \in [Orders -> VenueOrder] /\ reply[s][o] \in Reply /\ order[o] \in OrderRecord
      /\ recon \in [Orders -> ReconStates]
      /\ FilledIsAll /\ RepliesArePast /\ Fits(o, order[o])
      /\ UnsentIsUntouched /\ WorkIsOnSent
  BY <1>1, TruthParts DEF OrdersAreTrue
<1> HIDE DEF o
<1>3. CASE SubmitWaits(s) \/ SubmitGivesUp(s) \/ SubmitDuplicate(s)
  <2>1. UNCHANGED <<TruthVars, reply, order, recon, pass>>
    BY <1>3 DEF SubmitWaits, SubmitGivesUp, SubmitDuplicate, TruthVars, venueVars, orderVars
  <2> QED BY <2>1, NothingHeard, NothingRead, OrdersStay DEF TruthInv, TruthVars
<1>4. CASE SubmitDryRun(s)
  <2> DEFINE new == [status |-> "CANCELLED", fills |-> {}]
  <2>1. /\ o \notin reserved /\ dryRun /\ order' = [order EXCEPT ![o] = new]
        /\ UNCHANGED <<TruthVars, reply, recon, pass>>
    BY <1>4, NewOrderLemma DEF SubmitDryRun, IsUnused, TruthVars, venueVars, o
  <2>2. ~InFlight(o)
    BY <1>1, <1>2, <2>1 DEF WorkIsOnSent, UnsentIsUntouched, InFlight
  <2>3. new \in OrderRecord /\ Fits(o, new)
    BY <2>1 DEF OrderRecord, OrderStatuses, TerminalStatuses, Fits, Carries
  <2> HIDE DEF new
  <2>4. OrdersAreTrue' /\ InFlightIsMarked'
    BY <1>1, <2>1, <2>2, <2>3, OrderMoves
  <2> QED BY <2>1, <2>4, NothingHeard, NothingRead DEF TruthInv, TruthVars
<1>5. ASSUME NEW outcome, SubmitEnds(s, outcome), NEW new \in OrderRecord, Fits(o, new),
             order' = [order EXCEPT ![o] = new], NEW state \in ReconStates, Mark(o, state),
             InFlight(o) => state = "UNKNOWN" \/ new.status = "FAILED"
      PROVE  TruthInv'
  <2>1. /\ reply' = CloseConnection(s, o) /\ UNCHANGED <<venue, inbox, dryRun, sent, pass>>
    BY <1>5 DEF SubmitEnds, o
  <2>2. recon'[o] = state /\ \A p \in Orders \ {o} : recon'[p] = recon[p]
    BY <1>1, <1>2, <1>5 DEF Mark
  <2>3. OrdersAreTrue' /\ InFlightIsMarked'
    BY <1>1, <1>5, <2>1, <2>2, OrderMoves DEF TruthVars
  <2>4. PlacementsAreFirst' /\ FilledIsAll' /\ RepliesArePast'
    BY <1>1, <2>1, HangingUp DEF TruthVars
  <2> QED BY <2>1, <2>3, <2>4, NothingRead DEF TruthInv
<1>6. order = [order EXCEPT ![o] = order[o]] /\ {"IN_SYNC", "UNKNOWN"} \subseteq ReconStates
  BY <1>1, TruthParts DEF ReconStates
<1>7. CASE SubmitUnknown(s)
  <2>1. /\ order' = order /\ Mark(o, "UNKNOWN")
        /\ \E outcome \in {"UNKNOWN", "RAISED"} : SubmitEnds(s, outcome)
    BY <1>7 DEF SubmitUnknown, o
  <2> QED BY <1>2, <1>5, <1>6, <2>1
<1>8. CASE SubmitRejected(s) \/ SubmitRefused(s)
  <2>1. PICK target \in {"REJECTED", "FAILED"}, outcome \in Outcomes :
          /\ order' = [order EXCEPT ![o] = TryTransition(order[o], target)]
          /\ Mark(o, "IN_SYNC") /\ SubmitEnds(s, outcome)
          /\ target = "REJECTED" => reply[s][o].kind = "REJECTED"
          /\ reply[s][o].kind \in {"REJECTED", "REFUSED"}
    BY <1>1, <1>8, TruthParts DEF SubmitRejected, SubmitRefused, o, Outcomes
  <2>2. target \in OrderStatuses
    BY DEF OrderStatuses, TerminalStatuses
  <2>3. ~InFlight(o) /\ (target = "REJECTED" => venue[o].status = "ABSENT")
    BY <1>1, <1>2, <2>1 DEF RepliesArePast
  <2>4. Fits(o, [order[o] EXCEPT !.status = target])
    BY <1>2, <2>3 DEF Fits, Carries, OrderRecord
  <2>5. TryTransition(order[o], target) \in OrderRecord /\ Fits(o, TryTransition(order[o], target))
    BY <1>1, <1>2, <2>2, <2>4, FitsTransition, TransitionLemma
  <2> QED BY <1>5, <1>6, <2>1, <2>3, <2>5
<1>9. CASE SubmitAccepted(s)
  <2> DEFINE moved == TryTransition(order[o], v.status)
  <2>1. /\ reply[s][o].kind = "ACCEPTED" /\ SubmitEnds(s, "ACCEPTED") /\ Mark(o, "IN_SYNC")
        /\ order' = [order EXCEPT ![o] = ApplyFills(moved, v.fills)]
    BY <1>1, <1>9, TruthParts DEF SubmitAccepted, o
  <2>2. Past(v, o) /\ Carries(v) /\ ~InFlight(o)
    BY <1>1, <1>2, <2>1 DEF RepliesArePast
  <2>3. v \in VenueOrder /\ v.fills \in SUBSET Trades
    BY <1>2 DEF Reply, VenueOrder
  <2> HIDE DEF v
  <2>4. /\ moved \in OrderRecord /\ moved.fills = order[o].fills
        /\ moved.status \in {order[o].status, v.status}
    <3>1. CASE v = Absent
      BY <1>2, <2>3, <3>1, AnswerLemma DEF TryTransition, Absent, IsLegalTransition,
         ORDER_STATE_TRANSITIONS, OrderRecord, OrderStatuses, OpenStatuses, TerminalStatuses
    <3>2. CASE v # Absent
      BY <1>2, <2>3, <3>2, VenueStatusLemma, TransitionLemma
    <3> QED BY <3>1, <3>2
  <2>5. v.status \in VenueStatuses
    BY <2>3 DEF VenueOrder
  <2> DEFINE new == ApplyFills(moved, v.fills)
  <2>6. new \in OrderRecord
    BY <2>3, <2>4, FillsLemma
  <2>7. Fits(o, new)
    <3>1. /\ new.fills = moved.fills \cup v.fills
          /\ new.status \in {moved.status, "FILLED", "PARTIALLY_FILLED"}
          /\ new.status = "FILLED" => moved.status = "FILLED" \/ moved.fills \cup v.fills = Trades
          /\ moved.status \in TerminalStatuses => new.status = moved.status
      BY <2>3, <2>4, FillsLemma
    <3>2. moved.fills \cup v.fills \subseteq venue[o].fills /\ venue[o].fills \subseteq Trades
      BY <1>1, <1>2, <2>2, <2>4 DEF Past, Fits, VenueOrder
    <3>3. moved.fills \cup v.fills = Trades => venue[o].status = "FILLED"
      BY <1>1, <1>2, <3>2 DEF FilledIsAll
    <3>4. ViewCarriesFills /\ moved.status = "FILLED" => moved.fills \cup v.fills = Trades
      BY <1>2, <2>2, <2>3, <2>4 DEF Fits, Carries, OrderRecord
    <3>5. /\ moved.status \in {"FILLED", "EXPIRED"} => venue[o].status = moved.status
          /\ moved.status = "CANCELLED" /\ ~dryRun => venue[o].status = "CANCELLED"
          /\ moved.status = "REJECTED" => venue[o].status = "ABSENT" /\ ~InFlight(o)
      BY <1>2, <2>2, <2>4, <2>5 DEF Fits, Past, VenueStatuses, LiveStatuses
    <3> HIDE DEF moved, new
    <3> QED BY <3>1, <3>2, <3>3, <3>4, <3>5 DEF Fits, Carries
  <2> HIDE DEF moved
  <2> QED BY <1>5, <1>6, <2>1, <2>2, <2>6, <2>7
<1> QED BY <1>3, <1>4, <1>7, <1>8, <1>9, TransmitTruth DEF SubmitStep

LEMMA StreamTruth ==
  ASSUME TypeOK, LedgerInv, TruthInv, NEW o \in Orders, NEW t \in Trades, StreamFill(o, t)
  PROVE  TruthInv'
<1> DEFINE new == ApplyFills(order[o], {t})
<1>1. /\ venue \in [Orders -> VenueOrder] /\ order[o] \in OrderRecord /\ FilledIsAll
      /\ Fits(o, order[o]) /\ OrdersAreTrue /\ InFlightIsMarked
  BY TruthParts DEF OrdersAreTrue
<1>2. /\ {t} \subseteq venue[o].fills /\ {t} \in SUBSET Trades
      /\ order' = [order EXCEPT ![o] = new]
      /\ UNCHANGED <<TruthVars, reply, recon, pass>>
  BY <1>1, FillLemma, TruthParts DEF StreamFill, TruthVars, venueVars
<1>3. /\ new \in OrderRecord /\ Fits(o, new)
      /\ order[o].status \in TerminalStatuses => new.status = order[o].status
  BY <1>1, <1>2, FitsFills, FillsLemma
<1>4. InFlight(o) => recon'[o] = "UNKNOWN" \/ new.status = "FAILED"
  BY <1>1, <1>2, <1>3 DEF InFlight, InFlightIsMarked, TerminalStatuses
<1> HIDE DEF new
<1>5. OrdersAreTrue' /\ InFlightIsMarked'
  BY <1>2, <1>3, <1>4, OrderMoves
<1> QED BY <1>2, <1>5, NothingHeard, NothingRead DEF TruthInv, TruthVars

(* A request to cancel is heard of by its own task only. *)
LEMMA CancelSent ==
  ASSUME TypeOK, LedgerInv, TruthInv, NEW c \in Cancellers, NEW o \in Orders,
         CancelTransmits(c, o)
  PROVE  TruthInv'
<1> DEFINE new == TryTransition(order[o], "CANCEL_REQUESTED")
           msg == [kind |-> "CANCEL", order |-> o, from |-> c]
<1>1. c \in Tasks /\ Submitters \subseteq Tasks /\ Cancellers \subseteq Tasks
      /\ c \notin Submitters
  BY ExecutionAssumption
<1>2. /\ order' = [order EXCEPT ![o] = new]
      /\ inbox' = inbox \cup {msg}
      /\ reply' = [reply EXCEPT ![c][o] = Pending]
      /\ UNCHANGED <<venue, dryRun, sent, recon, pass>>
  BY TruthParts DEF CancelTransmits, OpenConnection
<1>3. /\ venue \in [Orders -> VenueOrder] /\ inbox \in SUBSET Request
      /\ reply \in [Tasks -> [Orders -> Reply]] /\ order \in [Orders -> OrderRecord]
      /\ PlacementsAreFirst /\ FilledIsAll /\ RepliesArePast /\ PassesArePast
      /\ OrdersAreTrue /\ InFlightIsMarked
  BY TruthParts
<1>4. /\ new.fills = order[o].fills /\ new.status \in {order[o].status, "CANCEL_REQUESTED"}
      /\ order[o].status \in TerminalStatuses => new = order[o]
  BY <1>3, TransitionLemma DEF OrderStatuses, OpenStatuses
<1>5. msg.kind = "CANCEL" /\ msg.order = o /\ msg.from = c /\ Pending.kind = "PENDING"
  BY DEF Pending
<1> HIDE DEF new, msg
<1>6. \A p : InFlight(p)' <=> InFlight(p)
  BY <1>2, <1>5 DEF InFlight
<1>7. PlacementsAreFirst' /\ FilledIsAll' /\ PassesArePast'
  BY <1>1, <1>2, <1>3, <1>5, NothingRead DEF PlacementsAreFirst, FilledIsAll
<1>8. RepliesArePast'
  <2>1. /\ \A u \in Submitters : \A p \in Orders : reply'[u][p] = reply[u][p]
        /\ \A u \in Cancellers : \A p \in Orders :
             reply'[u][p] = reply[u][p] \/ reply'[u][p].kind = "PENDING"
    BY <1>1, <1>2, <1>3, <1>5
  <2> QED BY <1>2, <1>3, <1>6, <2>1 DEF RepliesArePast, Past, Carries
<1>9. order'[o] = new /\ \A p \in Orders \ {o} : order'[p] = order[p]
  BY <1>2, <1>3
<1>10. OrdersAreTrue'
  <2>1. Fits(o, order[o])'
    BY <1>2, <1>3, <1>4, <1>6, <1>9 DEF OrdersAreTrue, Fits, Carries
  <2>2. \A p \in Orders \ {o} : Fits(p, order[p])'
    BY <1>2, <1>3, <1>6, <1>9 DEF OrdersAreTrue, Fits, Carries
  <2> QED BY <1>2, <1>3, <2>1, <2>2 DEF OrdersAreTrue
<1>11. InFlightIsMarked'
  <2>1. \A p \in Orders : order[p].status = "FAILED" => order'[p].status = "FAILED"
    BY <1>4, <1>9 DEF TerminalStatuses
  <2> QED BY <1>2, <1>3, <1>5, <2>1 DEF InFlightIsMarked, Request
<1> QED BY <1>7, <1>8, <1>10, <1>11 DEF TruthInv

LEMMA CancelTruth ==
  ASSUME TypeOK, LedgerInv, TruthInv, NEW c \in Cancellers, CancelStep(c)
  PROVE  TruthInv'
<1> DEFINE o == can[c].target
<1>1. /\ c \in Tasks /\ order \in [Orders -> OrderRecord] /\ recon \in [Orders -> ReconStates]
      /\ can[c].pc # "idle" => o \in Orders
      /\ RepliesArePast /\ OrdersAreTrue /\ InFlightIsMarked
  BY ExecutionAssumption, TruthParts DEF TypeOK, TaskTypeOK
<1>2. CASE CancelResumes(c) \/ \E p \in Orders : CancelNow(c, p)
  BY <1>1, <1>2, CancelSent DEF CancelResumes, CancelNow
<1>3. CASE CancelGivesUp(c) \/ \E p \in Orders : CancelWaits(c, p)
  <2>1. UNCHANGED <<TruthVars, reply, order, recon, pass>>
    BY <1>3 DEF CancelGivesUp, CancelWaits, TruthVars, venueVars, orderVars
  <2> QED BY <2>1, NothingHeard, NothingRead, OrdersStay DEF TruthInv, TruthVars
<1> HIDE DEF o
<1>4. ASSUME o \in Orders, CancelEnds(c), NEW new \in OrderRecord, Fits(o, new),
             order' = [order EXCEPT ![o] = new],
             \A p \in Orders \ {o} : recon'[p] = recon[p],
             recon'[o] \in {recon[o], "UNKNOWN"},
             order[o].status = "FAILED" => new.status = "FAILED"
      PROVE  TruthInv'
  <2>1. /\ reply' = CloseConnection(c, o) /\ UNCHANGED <<venue, inbox, dryRun, sent, pass>>
    BY <1>4 DEF CancelEnds, o
  <2>2. InFlight(o) => recon'[o] = "UNKNOWN" \/ new.status = "FAILED"
    BY <1>1, <1>4 DEF InFlight, InFlightIsMarked
  <2>3. OrdersAreTrue' /\ InFlightIsMarked'
    BY <1>4, <2>1, <2>2, OrderMoves DEF TruthVars
  <2>4. PlacementsAreFirst' /\ FilledIsAll' /\ RepliesArePast'
    BY <1>1, <1>4, <2>1, HangingUp DEF TruthVars
  <2> QED BY <2>1, <2>3, <2>4, NothingRead DEF TruthInv
<1>5. CASE CancelRefused(c) \/ CancelUnknown(c)
  <2>1. o \in Orders /\ CancelEnds(c) /\ order' = order
    BY <1>1, <1>5 DEF CancelRefused, CancelUnknown, o
  <2>2. order' = [order EXCEPT ![o] = order[o]] /\ Fits(o, order[o]) /\ order[o] \in OrderRecord
    BY <1>1, <2>1 DEF OrdersAreTrue
  <2>3. recon' = recon \/ recon' = [recon EXCEPT ![o] = "UNKNOWN"]
    BY <1>5 DEF CancelRefused, CancelUnknown, Mark, o
  <2> QED BY <1>1, <1>4, <2>1, <2>2, <2>3
<1>6. CASE CancelAccepted(c)
  <2> DEFINE new == TryTransition(order[o], "CANCELLED")
  <2>1. /\ o \in Orders /\ CancelEnds(c) /\ recon' = recon
        /\ order' = [order EXCEPT ![o] = new] /\ reply[c][o].kind = "CANCELLED"
    BY <1>1, <1>6 DEF CancelAccepted, o
  <2>2. "CANCELLED" \in OrderStatuses /\ order[o] \in OrderRecord /\ Fits(o, order[o])
        /\ venue[o].status = "CANCELLED"
    BY <1>1, <2>1 DEF OrderStatuses, TerminalStatuses, OrdersAreTrue, RepliesArePast
  <2>3. Fits(o, [order[o] EXCEPT !.status = "CANCELLED"])
    BY <2>2 DEF Fits, Carries, OrderRecord
  <2>4. new \in OrderRecord /\ Fits(o, new) /\ (order[o].status = "FAILED" => new.status = "FAILED")
    BY <2>1, <2>2, <2>3, FitsTransition, TransitionLemma DEF TerminalStatuses
  <2> HIDE DEF new
  <2> QED BY <1>4, <2>1, <2>4
<1> QED BY <1>2, <1>3, <1>5, <1>6 DEF CancelStep

--------------------------------------------------------------------------------
(* What a pass makes of a view of the past fits the venue of the present. *)
LEMMA FitsResolution ==
  ASSUME TypeOK, LedgerInv, TruthInv, NEW o \in Orders, NEW v \in VenueOrder, Read(v, o)
  PROVE  /\ Resolution(o, v) \in OrderRecord /\ Fits(o, Resolution(o, v))
         /\ InFlight(o) => /\ v = Absent
                           /\ order[o].status = "FAILED" \/ recon[o] = "UNKNOWN"
                           /\ Resolution(o, v).status = "FAILED"
<1>1. /\ venue \in [Orders -> VenueOrder] /\ order \in [Orders -> OrderRecord]
      /\ order[o] \in OrderRecord
      /\ FilledIsAll /\ Fits(o, order[o]) /\ InFlightIsMarked /\ PlacementsAreFirst
      /\ "FAILED" \in OrderStatuses
  BY TruthParts DEF OrdersAreTrue, OrderStatuses, TerminalStatuses
<1>2. Resolution(o, v) \in OrderRecord
  BY <1>1, ResolutionLemma
<1>3. CASE v = Absent
  <2>1. Resolution(o, v) = TryTransition(order[o], "FAILED")
    BY <1>3 DEF Resolution
  <2>2. Fits(o, [order[o] EXCEPT !.status = "FAILED"])
    BY <1>1 DEF Fits, Carries, OrderRecord
  <2>3. Fits(o, Resolution(o, v))
    BY <1>1, <2>1, <2>2, FitsTransition
  <2>4. ASSUME InFlight(o) PROVE Resolution(o, v).status = "FAILED"
    <3>1. venue[o].status = "ABSENT"
      BY <1>1, <2>4 DEF InFlight, PlacementsAreFirst
    <3>2. ~dryRun
      BY <2>4, TruthParts DEF OrdersAreTrue, InFlight, UnsentIsUntouched
    <3>3. order[o].status \in OpenStatuses \cup {"FAILED"}
      BY <1>1, <2>4, <3>1, <3>2 DEF Fits, OrderRecord, OrderStatuses, TerminalStatuses
    <3>4. order[o].status = "FAILED" \/ IsLegalTransition(order[o].status, "FAILED")
      BY <3>3 DEF OpenStatuses, IsLegalTransition, ORDER_STATE_TRANSITIONS
    <3> QED BY <1>1, <2>1, <3>4 DEF TryTransition, OrderRecord
  <2> QED BY <1>1, <1>2, <1>3, <2>3, <2>4 DEF InFlight, InFlightIsMarked
<1>4. CASE v # Absent
  <2> DEFINE filled == ApplyFills(order[o], v.fills)
  <2>1. /\ v.status \in OrderStatuses /\ v.status \in VenueStatuses \ {"ABSENT"}
        /\ v.fills \in SUBSET Trades
    BY <1>4, VenueStatusLemma DEF VenueOrder
  <2>2. Past(v, o) /\ (ViewCarriesFills => Carries(v))
    BY DEF Read
  <2>3. filled \in OrderRecord /\ filled.fills = order[o].fills \cup v.fills /\ Fits(o, filled)
    BY <1>1, <2>1, <2>2, FitsFills, FillsLemma DEF Past
  <2>4. Resolution(o, v) = TryTransition(filled, v.status)
    BY <1>4 DEF Resolution, Adopted
  <2> HIDE DEF filled
  <2>5. Fits(o, [filled EXCEPT !.status = v.status])
    <3>1. v.fills = Trades => filled.fills = Trades
      BY <1>1, <2>3 DEF OrderRecord
    <3> QED BY <2>1, <2>2, <2>3, <3>1 DEF Fits, Carries, Past, OrderRecord, VenueStatuses, LiveStatuses
  <2>6. Fits(o, Resolution(o, v))
    BY <2>1, <2>3, <2>4, <2>5, FitsTransition
  <2>7. ~InFlight(o)
    BY <1>1, <2>1, <2>2 DEF InFlight, PlacementsAreFirst, Past
  <2> QED BY <1>2, <2>6, <2>7
<1> QED BY <1>3, <1>4

(* The answer of the venue of the present is one of its past. *)
LEMMA ReadNow ==
  ASSUME TypeOK, LedgerInv, TruthInv, NEW o \in Orders
  PROVE  Read(View(venue[o]), o) /\ Read(Absent, o)
<1>1. venue \in [Orders -> VenueOrder] /\ FilledIsAll
  BY TruthParts
<1>2. ViewCarriesFills => View(venue[o]) = venue[o]
  BY DEF View
<1>3. View(venue[o]).status = venue[o].status /\ View(venue[o]).fills \subseteq venue[o].fills
  BY <1>1, ViewLemma
<1>4. Read(Absent, o)
  BY DEF Read, Past, Carries, Absent
<1>5. venue[o].status = "FILLED" => venue[o].fills = Trades
  BY <1>1 DEF FilledIsAll
<1> QED BY <1>2, <1>3, <1>4, <1>5 DEF Read, Past, Carries

LEMMA PassTruth ==
  ASSUME TypeOK, LedgerInv, TruthInv, NEW r \in Reconcilers, PassStep(r) \/ VenueUnreachable(r)
  PROVE  TruthInv'
<1>1. /\ pass \in [Reconcilers -> Pass] /\ pass[r] \in Pass
      /\ \A o \in Orders : pass[r].open[o] \in VenueOrder /\ Read(pass[r].open[o], o)
      /\ pass[r].answer \in VenueOrder
      /\ pass[r].pc \in {"missing", "asking", "resolving"} => pass[r].cur \in Orders
      /\ pass[r].pc \in {"missing", "resolving"} => Read(pass[r].answer, pass[r].cur)
      /\ PassesArePast /\ InFlightIsMarked
      /\ order \in [Orders -> OrderRecord] /\ recon \in [Orders -> ReconStates]
  BY TruthParts DEF TypeOK, TaskTypeOK, Pass, PassesArePast
<1>2. ASSUME NEW p, PassTo(r, p), UNCHANGED venue,
             \A o \in Orders : Read(p.open[o], o),
             p.pc \in {"missing", "resolving"} => Read(p.answer, p.cur)
      PROVE  PassesArePast'
  <2>1. pass'[r] = p /\ \A q \in Reconcilers \ {r} : pass'[q] = pass[q]
    BY <1>1, <1>2 DEF PassTo
  <2>2. ASSUME NEW q \in Reconcilers
        PROVE  /\ \A o \in Orders : Read(pass'[q].open[o], o)
               /\ pass'[q].pc \in {"missing", "resolving"} => Read(pass'[q].answer, pass'[q].cur)
    BY <1>1, <1>2, <2>1 DEF PassesArePast
  <2> QED BY <1>2, <2>2 DEF PassesArePast, Read, Past, Carries
<1>3. ASSUME PassesArePast', UNCHANGED <<TruthVars, reply, order, recon>>
      PROVE  TruthInv'
  BY <1>3, NothingHeard, OrdersStay DEF TruthInv
<1>4. ASSUME PassesArePast', UNCHANGED <<TruthVars, reply>>,
             NEW o \in Orders, NEW v \in VenueOrder, Read(v, o), Resolve(o, v),
             FlagIfDiverged(o, v) \/ Mark(o, "IN_SYNC")
      PROVE  TruthInv'
  <2> DEFINE new == Resolution(o, v)
  <2>1. new \in OrderRecord /\ Fits(o, new) /\ order' = [order EXCEPT ![o] = new]
    BY <1>4, FitsResolution DEF Resolve
  <2>2. \A p \in Orders \ {o} : recon'[p] = recon[p]
    BY <1>1, <1>4 DEF FlagIfDiverged, Mark
  <2>3. InFlight(o) => new.status = "FAILED"
    BY <1>4, FitsResolution
  <2> HIDE DEF new
  <2>4. OrdersAreTrue' /\ InFlightIsMarked'
    BY <1>4, <2>1, <2>2, <2>3, OrderMoves
  <2> QED BY <1>4, <2>4, NothingHeard DEF TruthInv
<1>5. /\ \A o \in Orders : IdlePass.open[o] = Absent
      /\ IdlePass.pc = "idle"
  BY DEF IdlePass, NothingOpen
<1>6. \A o \in Orders : Read(IdlePass.open[o], o)
  BY <1>5, ReadNow
<1>7. CASE PassBegins(r) \/ PassFlagged(r) \/ PassEnds(r)
  <2>1. UNCHANGED <<TruthVars, reply, order, recon>>
    BY <1>7 DEF PassBegins, PassFlagged, PassEnds, TruthVars, venueVars, orderVars
  <2>2. PICK p : /\ PassTo(r, p) /\ p.open = IdlePass.open
                 /\ p.pc \in {"idle", "listing", "flagged"}
    <3>1. CASE PassBegins(r)
      <4> DEFINE p == [IdlePass EXCEPT !.pc = "listing",
                                       !.todo = {o \in reserved : ~IsTerminal(o)}]
      <4>1. PassTo(r, p)
        BY <3>1 DEF PassBegins
      <4>2. p.open = IdlePass.open /\ p.pc = "listing"
        BY DEF IdlePass
      <4> QED BY <4>1, <4>2
    <3>2. CASE PassFlagged(r)
      <4> DEFINE p == [IdlePass EXCEPT !.pc = "flagged",
                                       !.todo = {o \in reserved : NeedsReconciliation(o)}]
      <4>1. PassTo(r, p)
        BY <3>2 DEF PassFlagged
      <4>2. p.open = IdlePass.open /\ p.pc = "flagged"
        BY DEF IdlePass
      <4> QED BY <4>1, <4>2
    <3>3. CASE PassEnds(r)
      BY <1>5, <3>3 DEF PassEnds
    <3> QED BY <1>7, <3>1, <3>2, <3>3
  <2>3. PassesArePast'
    BY <1>2, <1>6, <2>1, <2>2 DEF TruthVars
  <2> QED BY <1>3, <2>1, <2>3
<1>8. CASE PassLists(r)
  <2> DEFINE open == [o \in Orders |-> IF IsLive(venue[o]) THEN View(venue[o]) ELSE Absent]
             p == [pass[r] EXCEPT !.pc = "orders", !.open = open]
  <2>1. PassTo(r, p) /\ UNCHANGED <<TruthVars, reply, order, recon>>
    BY <1>8 DEF PassLists, TruthVars, venueVars, orderVars
  <2>2. \A o \in Orders : Read(open[o], o)
    BY ReadNow
  <2> HIDE DEF open
  <2>3. p.open = open /\ p.pc = "orders"
    BY <1>1 DEF Pass
  <2>4. PassesArePast'
    BY <1>2, <2>1, <2>2, <2>3 DEF TruthVars
  <2> QED BY <1>3, <2>1, <2>4
<1>9. CASE FlaggedAnswered(r)
  <2> DEFINE p == [pass[r] EXCEPT !.pc = "resolving", !.answer = View(venue[pass[r].cur])]
  <2>1. PassTo(r, p) /\ UNCHANGED <<TruthVars, reply, order, recon>> /\ pass[r].cur \in Orders
    BY <1>1, <1>9 DEF FlaggedAnswered, TruthVars, venueVars, orderVars
  <2>2. p.open = pass[r].open /\ p.cur = pass[r].cur /\ p.answer = View(venue[pass[r].cur])
    BY <1>1 DEF Pass
  <2>3. PassesArePast'
    BY <1>1, <1>2, <2>1, <2>2, ReadNow DEF TruthVars
  <2> QED BY <1>3, <2>1, <2>3
<1>10. ASSUME NEW o \in Orders, AskMissing(r, o) \/ SkipFlagged(r, o) \/ AskFlagged(r, o)
       PROVE  TruthInv'
  <2>1. UNCHANGED <<TruthVars, reply, order, recon>>
    BY <1>10 DEF AskMissing, SkipFlagged, AskFlagged, TruthVars, venueVars, orderVars
  <2>2. PICK p : /\ PassTo(r, p) /\ p.open = pass[r].open
                 /\ p.pc \in {"missing", "resolving"} => Read(p.answer, p.cur)
    <3>1. CASE AskMissing(r, o)
      <4> DEFINE p == [pass[r] EXCEPT !.pc = "missing", !.cur = o, !.answer = View(venue[o])]
      <4>1. PassTo(r, p)
        BY <3>1 DEF AskMissing
      <4>2. p.open = pass[r].open /\ p.cur = o /\ p.answer = View(venue[o])
        BY <1>1 DEF Pass
      <4> QED BY <4>1, <4>2, ReadNow
    <3>2. CASE SkipFlagged(r, o)
      BY <1>1, <3>2 DEF SkipFlagged, Pass
    <3>3. CASE AskFlagged(r, o)
      <4> DEFINE p == [pass[r] EXCEPT !.pc = "asking", !.cur = o]
      <4>1. PassTo(r, p) /\ p.open = pass[r].open /\ p.pc = "asking"
        BY <1>1, <3>3 DEF AskFlagged, Pass
      <4> QED BY <4>1
    <3> QED BY <1>10, <3>1, <3>2, <3>3
  <2>3. PassesArePast'
    BY <1>1, <1>2, <2>1, <2>2 DEF TruthVars
  <2> QED BY <1>3, <2>1, <2>3
<1>11. ASSUME NEW pc \in {"orders", "flagged"}, Answered(r, pc), UNCHANGED venue
       PROVE  PassesArePast'
  <2> DEFINE p == [pass[r] EXCEPT !.pc = pc, !.todo = @ \ {pass[r].cur}, !.cur = None,
                                  !.answer = Absent]
  <2>1. PassTo(r, p) /\ p.open = pass[r].open /\ p.pc = pc
    BY <1>1, <1>11 DEF Answered, Pass
  <2> QED BY <1>1, <1>2, <1>11, <2>1
<1>12. CASE VenueUnreachable(r)
  <2>1. UNCHANGED <<TruthVars, reply, order, recon>>
    BY <1>12 DEF VenueUnreachable, TruthVars, venueVars, orderVars
  <2>2. PassTo(r, IdlePass) \/ Answered(r, "flagged")
    BY <1>12 DEF VenueUnreachable
  <2>3. PassesArePast'
    BY <1>2, <1>5, <1>6, <1>11, <2>1, <2>2 DEF TruthVars
  <2> QED BY <1>3, <2>1, <2>3
<1>13. ASSUME NEW o \in Orders, AdoptListed(r, o)
       PROVE  TruthInv'
  <2> DEFINE p == [pass[r] EXCEPT !.todo = @ \ {o}]
  <2>1. PassTo(r, p) /\ p.open = pass[r].open /\ p.pc = "orders"
        /\ UNCHANGED <<TruthVars, reply>>
    BY <1>1, <1>13 DEF AdoptListed, Pass, TruthVars, venueVars
  <2>2. PassesArePast'
    BY <1>1, <1>2, <2>1 DEF TruthVars
  <2> QED BY <1>1, <1>4, <1>13, <2>1, <2>2 DEF AdoptListed
<1>14. CASE ApplyMissing(r) \/ ResolveUnknown(r)
  <2>1. /\ pass[r].cur \in Orders /\ Read(pass[r].answer, pass[r].cur)
        /\ UNCHANGED <<TruthVars, reply>>
        /\ \E pc \in {"orders", "flagged"} : Answered(r, pc)
    BY <1>1, <1>14 DEF ApplyMissing, ResolveUnknown, TruthVars, venueVars
  <2>2. PassesArePast'
    BY <1>11, <2>1 DEF TruthVars
  <2> QED BY <1>1, <1>4, <1>14, <2>1, <2>2 DEF ApplyMissing, ResolveUnknown
<1> QED BY <1>7, <1>8, <1>9, <1>10, <1>12, <1>13, <1>14 DEF PassStep

--------------------------------------------------------------------------------
(* The venue moves on, and what it said before stays true of it. *)
LEMMA VenueMovesOn ==
  ASSUME VenueTypeOK, PlacementsAreFirst, FilledIsAll, VenueNext
  PROVE  /\ inbox' \subseteq inbox /\ FilledIsAll'
         /\ \A o \in Orders :
              /\ venue[o].fills \subseteq venue'[o].fills
              /\ venue[o].status # "ABSENT" => venue'[o].status # "ABSENT"
              /\ venue[o].status \in {"FILLED", "CANCELLED", "EXPIRED"} => venue'[o] = venue[o]
              /\ venue[o].status = "ABSENT" /\ ~InFlight(o) => venue'[o] = venue[o]
         /\ \A m \in inbox' : m.kind = "PLACE" => venue'[m.order] = venue[m.order]
<1>1. venue \in [Orders -> VenueOrder] /\ inbox \in SUBSET Request /\ Trades # {}
  BY TradesAssumption DEF VenueTypeOK
<1> DEFINE Goal(w) ==
      \A o \in Orders :
        /\ w[o].fills = Trades <=> w[o].status = "FILLED"
        /\ venue[o].fills \subseteq w[o].fills
        /\ venue[o].status # "ABSENT" => w[o].status # "ABSENT"
        /\ venue[o].status \in {"FILLED", "CANCELLED", "EXPIRED"} => w[o] = venue[o]
        /\ venue[o].status = "ABSENT" /\ ~InFlight(o) => w[o] = venue[o]
<1>2. ASSUME NEW o \in Orders, NEW v, venue' = [venue EXCEPT ![o] = v],
             v.fills = Trades <=> v.status = "FILLED",
             venue[o].fills \subseteq v.fills, v.status # "ABSENT",
             venue[o].status \notin {"FILLED", "CANCELLED", "EXPIRED"},
             venue[o].status = "ABSENT" => InFlight(o)
      PROVE  Goal(venue')
  <2>1. venue'[o] = v /\ \A p \in Orders \ {o} : venue'[p] = venue[p]
    BY <1>1, <1>2
  <2> QED BY <1>2, <2>1 DEF FilledIsAll
<1>3. Goal(venue)
  BY DEF FilledIsAll
<1>4. \A o \in Orders : IsLive(venue[o]) =>
        /\ venue[o].status \notin {"ABSENT", "FILLED", "CANCELLED", "EXPIRED"}
        /\ venue[o].fills # Trades
  BY DEF IsLive, LiveStatuses, FilledIsAll
<1>5. \A ts \in SUBSET Trades : /\ StatusOf(ts) \in {"ACKNOWLEDGED", "PARTIALLY_FILLED", "FILLED"}
                                /\ StatusOf(ts) = "FILLED" <=> ts = Trades
  BY <1>1 DEF StatusOf
<1>6. ASSUME NEW m \in inbox, VenueAccepts(m)
      PROVE  /\ inbox' \subseteq inbox /\ Goal(venue')
             /\ \A n \in inbox' : n.kind = "PLACE" => venue'[n.order] = venue[n.order]
  <2>1. /\ m.order \in Orders /\ m.kind = "PLACE" /\ venue[m.order] = Absent
        /\ inbox' = inbox \ {m}
    BY <1>1, <1>6 DEF VenueAccepts, Request
  <2>2. PICK ts \in SUBSET Trades :
          \E st \in {StatusOf(ts)} \cup (IF ts = Trades THEN {} ELSE {"EXPIRED"}) :
            venue' = [venue EXCEPT ![m.order] = [status |-> st, fills |-> ts]]
    BY <1>6 DEF VenueAccepts
  <2>3. PICK st \in {StatusOf(ts)} \cup (IF ts = Trades THEN {} ELSE {"EXPIRED"}) :
          venue' = [venue EXCEPT ![m.order] = [status |-> st, fills |-> ts]]
    BY <2>2
  <2>4. (ts = Trades <=> st = "FILLED") /\ st # "ABSENT"
    BY <1>5, <2>3
  <2>5. venue[m.order].status = "ABSENT" /\ venue[m.order].fills = {} /\ InFlight(m.order)
    BY <2>1 DEF Absent, InFlight
  <2>6. Goal(venue')
    <3> DEFINE v == [status |-> st, fills |-> ts]
    <3>1. v.status = st /\ v.fills = ts /\ venue' = [venue EXCEPT ![m.order] = v]
      BY <2>3
    <3> HIDE DEF v, Goal
    <3> QED BY <1>2, <2>1, <2>4, <2>5, <3>1
  <2>7. ASSUME NEW n \in inbox', n.kind = "PLACE" PROVE venue'[n.order] = venue[n.order]
    <3>1. n \in inbox /\ n # m /\ n.order \in Orders
      BY <1>1, <2>1, <2>7 DEF Request
    <3>2. n.order # m.order
      BY <2>1, <2>7, <3>1 DEF PlacementsAreFirst
    <3> QED BY <1>1, <2>3, <3>1, <3>2
  <2> QED BY <2>1, <2>6, <2>7
<1>7. ASSUME NEW m \in inbox, VenueRejects(m) \/ VenueLoses(m)
      PROVE  inbox' \subseteq inbox /\ venue' = venue
  BY <1>7 DEF VenueRejects, VenueLoses
<1>8. ASSUME NEW o \in Orders, IsLive(venue[o]), NEW v, venue' = [venue EXCEPT ![o] = v],
             v.fills = Trades <=> v.status = "FILLED",
             venue[o].fills \subseteq v.fills, v.status # "ABSENT", inbox' \subseteq inbox
      PROVE  /\ Goal(venue')
             /\ \A n \in inbox' : n.kind = "PLACE" => venue'[n.order] = venue[n.order]
  <2>1. Goal(venue')
    <3> HIDE DEF Goal
    <3> QED BY <1>2, <1>4, <1>8
  <2>2. \A n \in inbox' : n.kind = "PLACE" => n.order \in Orders /\ n.order # o
    BY <1>1, <1>4, <1>8 DEF PlacementsAreFirst, Request
  <2> QED BY <1>1, <1>8, <2>1, <2>2
<1>9. ASSUME NEW m \in inbox, VenueCancels(m), venue' # venue
      PROVE  /\ inbox' \subseteq inbox /\ Goal(venue')
             /\ \A n \in inbox' : n.kind = "PLACE" => venue'[n.order] = venue[n.order]
  <2> DEFINE v == [venue[m.order] EXCEPT !.status = "CANCELLED"]
  <2>1. /\ m.order \in Orders /\ IsLive(venue[m.order]) /\ inbox' \subseteq inbox
        /\ venue' = [venue EXCEPT ![m.order] = v]
    BY <1>1, <1>9 DEF VenueCancels, Request
  <2>2. v.status = "CANCELLED" /\ v.fills = venue[m.order].fills
    BY <1>1, <2>1 DEF VenueOrder
  <2> HIDE DEF v, Goal
  <2> QED BY <1>4, <1>8, <2>1, <2>2
<1>10. ASSUME NEW o \in Orders, VenueTrades(o) \/ VenueExpires(o)
       PROVE  /\ inbox' \subseteq inbox /\ Goal(venue')
              /\ \A n \in inbox' : n.kind = "PLACE" => venue'[n.order] = venue[n.order]
  <2>1. IsLive(venue[o]) /\ inbox' = inbox
    BY <1>10 DEF VenueTrades, VenueExpires
  <2>2. PICK v : /\ venue' = [venue EXCEPT ![o] = v] /\ v.status # "ABSENT"
                 /\ v.fills = Trades <=> v.status = "FILLED"
                 /\ venue[o].fills \subseteq v.fills
    <3>1. CASE VenueTrades(o)
      <4>1. PICK t \in Trades \ venue[o].fills :
              venue' = [venue EXCEPT ![o] = [status |-> StatusOf(venue[o].fills \cup {t}),
                                             fills |-> venue[o].fills \cup {t}]]
        BY <3>1 DEF VenueTrades
      <4>2. venue[o].fills \cup {t} \in SUBSET Trades
        BY <1>1 DEF VenueOrder
      <4> DEFINE ts == venue[o].fills \cup {t}
                 v == [status |-> StatusOf(ts), fills |-> ts]
      <4>3. /\ venue' = [venue EXCEPT ![o] = v] /\ v.status = StatusOf(ts) /\ v.fills = ts
            /\ venue[o].fills \subseteq ts /\ ts \in SUBSET Trades
        BY <4>1, <4>2
      <4> HIDE DEF ts, v
      <4> QED BY <1>5, <4>3
    <3>2. CASE VenueExpires(o)
      <4> DEFINE v == [venue[o] EXCEPT !.status = "EXPIRED"]
      <4>1. venue' = [venue EXCEPT ![o] = v] /\ v.status = "EXPIRED" /\ v.fills = venue[o].fills
        BY <1>1, <3>2 DEF VenueExpires, VenueOrder
      <4> QED BY <1>4, <2>1, <4>1
    <3> QED BY <1>10, <3>1, <3>2
  <2> HIDE DEF Goal
  <2> QED BY <1>8, <2>1, <2>2
<1>11. /\ inbox' \subseteq inbox /\ Goal(venue')
       /\ \A m \in inbox' : m.kind = "PLACE" => venue'[m.order] = venue[m.order]
  <2>1. ASSUME NEW m \in inbox, VenueCancels(m), venue' = venue PROVE inbox' \subseteq inbox
    BY <2>1 DEF VenueCancels
  <2>2. ASSUME venue' = venue, inbox' \subseteq inbox
        PROVE  /\ inbox' \subseteq inbox /\ Goal(venue')
               /\ \A m \in inbox' : m.kind = "PLACE" => venue'[m.order] = venue[m.order]
    BY <1>3, <2>2
  <2> HIDE DEF Goal
  <2> QED BY <1>6, <1>7, <1>9, <1>10, <2>1, <2>2 DEF VenueNext
<1> QED BY <1>11 DEF FilledIsAll

(* A placement that is handled is gone from the inbox, and its answer fits. *)
LEMMA VenueAnswers ==
  ASSUME TypeOK, LedgerInv, TruthInv, VenueNext, UNCHANGED sent
  PROVE  RepliesArePast'
<1>1. /\ venue \in [Orders -> VenueOrder] /\ inbox \in SUBSET Request
      /\ reply \in [Tasks -> [Orders -> Reply]] /\ VenueTypeOK
      /\ PlacementsAreFirst /\ FilledIsAll /\ RepliesArePast
      /\ Submitters \subseteq Tasks /\ Cancellers \subseteq Tasks
      /\ Submitters \cap Cancellers = {}
  BY ExecutionAssumption, TruthParts DEF TypeOK
<1>2. /\ inbox' \subseteq inbox
      /\ \A o \in Orders :
           /\ venue[o].fills \subseteq venue'[o].fills
           /\ venue[o].status # "ABSENT" => venue'[o].status # "ABSENT"
           /\ venue[o].status \in {"FILLED", "CANCELLED", "EXPIRED"} => venue'[o] = venue[o]
           /\ venue[o].status = "ABSENT" /\ ~InFlight(o) => venue'[o] = venue[o]
  BY <1>1, VenueMovesOn
<1>3. \A o \in Orders : InFlight(o)' => InFlight(o)
  BY <1>2 DEF InFlight
<1> DEFINE Fine(u, o, w) ==
      /\ u \in Submitters =>
           /\ w.kind # "CLOSED" => sent[o] # 0
           /\ w.kind = "ACCEPTED" =>
                /\ Carries(w.view) /\ w.view.fills \subseteq venue'[o].fills
                /\ w.view.status # "ABSENT" => venue'[o].status # "ABSENT"
                /\ w.view.status \in {"FILLED", "CANCELLED", "EXPIRED"} =>
                     venue'[o].status = w.view.status
           /\ w.kind \in {"ACCEPTED", "REJECTED", "REFUSED"} => ~InFlight(o)'
           /\ w.kind = "REJECTED" => venue'[o].status = "ABSENT"
      /\ u \in Cancellers /\ w.kind = "CANCELLED" => venue'[o].status = "CANCELLED"
<1>4. ASSUME NEW u \in Tasks, NEW o \in Orders PROVE Fine(u, o, reply[u][o])
  BY <1>1, <1>2, <1>3, <1>4 DEF RepliesArePast, Past
<1>5. ASSUME \A u \in Tasks : \A o \in Orders : Fine(u, o, reply'[u][o])
      PROVE  RepliesArePast'
  BY <1>1, <1>5 DEF RepliesArePast, Past, Carries
<1>6. ASSUME NEW m \in inbox, m.kind \in {"PLACE", "CANCEL"}, NEW kind, NEW view,
             reply' = Answer(m, kind, view),
             reply[m.from][m.order].kind = "PENDING" =>
               Fine(m.from, m.order, [kind |-> kind, view |-> view])
      PROVE  \A u \in Tasks : \A o \in Orders : Fine(u, o, reply'[u][o])
  <2>1. m.from \in Tasks /\ m.order \in Orders
    BY <1>1 DEF Request
  <2>2. \A u \in Tasks : \A o \in Orders :
          \/ reply'[u][o] = reply[u][o]
          \/ /\ u = m.from /\ o = m.order /\ reply[u][o].kind = "PENDING"
             /\ reply'[u][o] = [kind |-> kind, view |-> view]
    BY <1>1, <1>6, <2>1 DEF Answer
  <2> HIDE DEF Fine
  <2> QED BY <1>4, <1>6, <2>2
<1>7. ASSUME NEW m \in inbox, m.kind = "PLACE", inbox' = inbox \ {m}
      PROVE  /\ m.from \in Submitters /\ m.from \notin Cancellers /\ m.order \in Orders
             /\ ~InFlight(m.order)' /\ venue[m.order].status = "ABSENT"
             /\ reply[m.from][m.order].kind = "PENDING" => sent[m.order] # 0
  <2>1. m.from \in Submitters /\ m.order \in Orders /\ venue[m.order].status = "ABSENT"
        /\ m.from \notin Cancellers
    BY <1>1, <1>7 DEF PlacementsAreFirst, Request
  <2>2. ~InFlight(m.order)'
    BY <1>1, <1>7 DEF PlacementsAreFirst, InFlight
  <2>3. reply[m.from][m.order].kind = "PENDING" => sent[m.order] # 0
    BY <1>1, <2>1 DEF RepliesArePast
  <2> QED BY <2>1, <2>2, <2>3
<1>8. ASSUME NEW m \in inbox, VenueAccepts(m) PROVE RepliesArePast'
  <2>1. m.kind = "PLACE" /\ inbox' = inbox \ {m}
    BY <1>8 DEF VenueAccepts
  <2>2. PICK ts \in SUBSET Trades :
          \E st \in {StatusOf(ts)} \cup (IF ts = Trades THEN {} ELSE {"EXPIRED"}) :
            /\ venue' = [venue EXCEPT ![m.order] = [status |-> st, fills |-> ts]]
            /\ reply' = Answer(m, "ACCEPTED", [status |-> st, fills |-> ts])
    BY <1>8 DEF VenueAccepts
  <2>3. PICK st \in {StatusOf(ts)} \cup (IF ts = Trades THEN {} ELSE {"EXPIRED"}) :
          /\ venue' = [venue EXCEPT ![m.order] = [status |-> st, fills |-> ts]]
          /\ reply' = Answer(m, "ACCEPTED", [status |-> st, fills |-> ts])
    BY <2>2
  <2>4. st = "FILLED" => ts = Trades
    BY <2>3, TradesAssumption DEF StatusOf
  <2>5. st # "ABSENT"
    BY <2>3 DEF StatusOf
  <2>6. venue'[m.order] = [status |-> st, fills |-> ts]
    BY <1>1, <1>7, <2>1, <2>3
  <2> DEFINE v == [status |-> st, fills |-> ts]
             w == [kind |-> "ACCEPTED", view |-> v]
  <2>7. v.status = st /\ v.fills = ts /\ venue'[m.order] = v /\ Carries(v)
    BY <2>4, <2>6 DEF Carries
  <2>8. w.kind = "ACCEPTED" /\ w.view = v
    OBVIOUS
  <2> HIDE DEF v, w
  <2>9. reply[m.from][m.order].kind = "PENDING" => Fine(m.from, m.order, w)
    BY <1>7, <2>1, <2>5, <2>7, <2>8
  <2> HIDE DEF Fine
  <2> QED BY <1>5, <1>6, <2>1, <2>3, <2>9 DEF v, w
<1>9. ASSUME NEW m \in inbox, VenueRejects(m) PROVE RepliesArePast'
  <2>1. m.kind = "PLACE" /\ inbox' = inbox \ {m} /\ venue' = venue
    BY <1>9 DEF VenueRejects
  <2>2. PICK k \in {"REJECTED", "REFUSED"} : reply' = Answer(m, k, Absent)
    BY <1>9 DEF VenueRejects
  <2>3. reply[m.from][m.order].kind = "PENDING" =>
          Fine(m.from, m.order, [kind |-> k, view |-> Absent])
    BY <1>7, <2>1
  <2> HIDE DEF Fine
  <2> QED BY <1>5, <1>6, <2>1, <2>2, <2>3
<1>10. ASSUME NEW m \in inbox, VenueCancels(m) PROVE RepliesArePast'
  <2>1. m.kind = "CANCEL" /\ m.from \in Tasks \ Submitters /\ m.order \in Orders
    BY <1>1, <1>10 DEF VenueCancels, PlacementsAreFirst, Request
  <2>2. PICK k \in {"CANCELLED", "GONE", "REFUSED"} :
          /\ reply' = Answer(m, k, Absent)
          /\ k = "CANCELLED" => venue' = [venue EXCEPT ![m.order].status = "CANCELLED"]
    BY <1>10 DEF VenueCancels
  <2>3. k = "CANCELLED" => venue'[m.order].status = "CANCELLED"
    BY <1>1, <2>1, <2>2 DEF VenueOrder
  <2>4. Fine(m.from, m.order, [kind |-> k, view |-> Absent])
    BY <2>1, <2>3
  <2> HIDE DEF Fine
  <2> QED BY <1>5, <1>6, <2>1, <2>2, <2>4
<1>11. ASSUME reply' = reply PROVE RepliesArePast'
  <2> HIDE DEF Fine
  <2> QED BY <1>4, <1>5, <1>11
<1>12. ASSUME NEW m \in inbox, VenueLoses(m) PROVE RepliesArePast'
  BY <1>11, <1>12 DEF VenueLoses
<1>13. ASSUME NEW o \in Orders, VenueTrades(o) \/ VenueExpires(o) PROVE RepliesArePast'
  BY <1>11, <1>13 DEF VenueTrades, VenueExpires
<1> QED BY <1>8, <1>9, <1>10, <1>12, <1>13 DEF VenueNext

LEMMA VenueTruth ==
  ASSUME TypeOK, LedgerInv, TruthInv, ExchangeStep
  PROVE  TruthInv'
<1>1. /\ venue \in [Orders -> VenueOrder] /\ inbox \in SUBSET Request /\ VenueTypeOK
      /\ order \in [Orders -> OrderRecord] /\ pass \in [Reconcilers -> Pass]
      /\ PlacementsAreFirst /\ FilledIsAll /\ PassesArePast
      /\ OrdersAreTrue /\ InFlightIsMarked /\ UnsentIsUntouched
      /\ \A r \in Reconcilers :
           pass[r].pc \in {"missing", "resolving"} => pass[r].cur \in Orders
  BY TruthParts DEF TypeOK, TaskTypeOK
<1>2. VenueNext /\ UNCHANGED <<dryRun, order, recon, sent, pass>>
  BY DEF ExchangeStep, orderVars
<1>3. /\ inbox' \subseteq inbox /\ FilledIsAll'
      /\ \A o \in Orders :
           /\ venue[o].fills \subseteq venue'[o].fills
           /\ venue[o].status # "ABSENT" => venue'[o].status # "ABSENT"
           /\ venue[o].status \in {"FILLED", "CANCELLED", "EXPIRED"} => venue'[o] = venue[o]
           /\ venue[o].status = "ABSENT" /\ ~InFlight(o) => venue'[o] = venue[o]
      /\ \A m \in inbox' : m.kind = "PLACE" => venue'[m.order] = venue[m.order]
  BY <1>1, <1>2, VenueMovesOn
<1>4. RepliesArePast'
  BY <1>2, VenueAnswers
<1>5. PlacementsAreFirst'
  BY <1>1, <1>3 DEF PlacementsAreFirst
<1>6. \A v, o : o \in Orders /\ Read(v, o) => v.fills \subseteq venue'[o].fills
                  /\ (v.status # "ABSENT" => venue'[o].status # "ABSENT")
                  /\ (v.status \in {"FILLED", "CANCELLED", "EXPIRED"} =>
                        venue'[o].status = v.status)
                  /\ (ViewCarriesFills => Carries(v))
  BY <1>3 DEF Read, Past
<1>7. PassesArePast'
  BY <1>1, <1>2, <1>6 DEF PassesArePast, Read, Past, Carries
<1>8. \A o \in Orders : InFlight(o)' => InFlight(o)
  BY <1>3 DEF InFlight
<1>9. OrdersAreTrue'
  <2>1. ASSUME NEW o \in Orders PROVE Fits(o, order[o])'
    BY <1>1, <1>2, <1>3, <1>8 DEF OrdersAreTrue, Fits, Carries
  <2> QED BY <1>1, <1>2, <2>1 DEF OrdersAreTrue
<1>10. InFlightIsMarked'
  BY <1>1, <1>2, <1>3 DEF InFlightIsMarked
<1> QED BY <1>3, <1>4, <1>5, <1>7, <1>9, <1>10 DEF TruthInv

LEMMA TruthInit == Init => TruthInv
<1> SUFFICES ASSUME Init PROVE TruthInv
  OBVIOUS
<1>1. /\ inbox = {} /\ venue = [o \in Orders |-> Absent] /\ order = [o \in Orders |-> NewOrder]
      /\ reply = [t \in Tasks |-> [o \in Orders |-> Closed]]
      /\ sent = [o \in Orders |-> 0]
      /\ pass = [r \in Reconcilers |-> IdlePass]
      /\ Absent.status = "ABSENT" /\ Absent.fills = {} /\ Closed.kind = "CLOSED"
      /\ NewOrder.status = "PENDING" /\ NewOrder.fills = {}
      /\ IdlePass.pc = "idle" /\ \A o \in Orders : IdlePass.open[o] = Absent
  BY DEF Init, VenueInit, Absent, Closed, NewOrder, IdlePass, NothingOpen
<1>2. PlacementsAreFirst /\ FilledIsAll /\ InFlightIsMarked
  BY <1>1, TradesAssumption DEF PlacementsAreFirst, FilledIsAll, InFlightIsMarked
<1>3. RepliesArePast
  BY <1>1, ExecutionAssumption DEF RepliesArePast
<1>4. PassesArePast
  BY <1>1 DEF PassesArePast, Read, Past, Carries
<1>5. OrdersAreTrue
  BY <1>1 DEF OrdersAreTrue, Fits, Carries
<1> QED BY <1>2, <1>3, <1>4, <1>5 DEF TruthInv

LEMMA TruthStep == TypeOK /\ LedgerInv /\ TruthInv /\ [Next]_vars => TruthInv'
<1> SUFFICES ASSUME TypeOK, LedgerInv, TruthInv, [Next]_vars PROVE TruthInv'
  OBVIOUS
<1>1. CASE LockExpires \/ UNCHANGED vars
  <2>1. UNCHANGED <<TruthVars, reply, order, recon, pass>>
    BY <1>1 DEF LockExpires, vars, venueVars, orderVars, TruthVars
  <2> QED BY <2>1, NothingHeard, NothingRead, OrdersStay DEF TruthInv, TruthVars
<1> QED BY <1>1, SubmitTruth, StreamTruth, CancelTruth, PassTruth, VenueTruth DEF Next

(* "Marking precedes acting": no expiry, timeout, cancellation or pass takes the mark
   from an order whose placement can still reach the venue. *)
THEOREM MarkedInFlight == Spec => []InFlightIsMarked
<1>1. TruthInv => InFlightIsMarked
  BY DEF TruthInv
<1> QED BY <1>1, TypeCorrect, LedgerInit, LedgerStep, TruthInit, TruthStep, PTL DEF Spec

(* Answers, the stream and passes report what the venue was, not what it is; a final
   status taken from any of them is the venue's now and for ever. *)
THEOREM FinalIsTrue == Spec => []FinalIsVenueTruth
<1>1. LedgerInv /\ TruthInv /\ TypeOK => FinalIsVenueTruth
  <2> SUFFICES ASSUME LedgerInv, TruthInv, TypeOK, NEW o \in Orders
               PROVE  /\ order[o].status \in {"FILLED", "EXPIRED"} =>
                           venue[o].status = order[o].status
                      /\ order[o].status = "CANCELLED" /\ ~dryRun =>
                           venue[o].status = "CANCELLED"
                      /\ order[o].status = "REJECTED" \/ dryRun => venue[o] = Absent
    BY DEF FinalIsVenueTruth
  <2>1. Fits(o, order[o]) /\ venue[o] \in VenueOrder /\ (dryRun => sent[o] = 0)
    BY TruthParts DEF OrdersAreTrue
  <2>2. dryRun => venue[o] = Absent
    BY <2>1, TruthParts DEF UnsentIsUntouched
  <2>3. venue[o].status = "ABSENT" => venue[o] = Absent
    BY <2>1 DEF VenueOrder, Absent
  <2> QED BY <2>1, <2>2, <2>3 DEF Fits
<1> QED BY <1>1, TypeCorrect, LedgerInit, LedgerStep, TruthInit, TruthStep, PTL DEF Spec

(* An order that claims to be filled has its trades, if order queries return them. *)
THEOREM FilledShowsItsFills ==
  ASSUME ViewCarriesFills PROVE Spec => []FilledHasItsFills
<1>1. TruthInv => FilledHasItsFills
  BY DEF TruthInv, OrdersAreTrue, Fits, Carries, FilledHasItsFills
<1> QED BY <1>1, TypeCorrect, LedgerInit, LedgerStep, TruthInit, TruthStep, PTL DEF Spec
==============================================================================
