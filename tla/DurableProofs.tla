---------------------------- MODULE DurableProofs ----------------------------
(***************************************************************************)
(* Theorems about DurableExecution, for any set of trades and any number   *)
(* of processes: the types, that an intent is transmitted once, that the   *)
(* ledger is ahead of the row and behind the venue, that the row is marked *)
(* while the placement is on its way, and that a final row is the venue's. *)
(***************************************************************************)
EXTENDS DurableExecution, TLAPS

(* The places from which a submission still gets to its transmission. *)
MaySend(rec) ==
  \/ rec.pc \in {"submit", "send"}
  \/ rec.pc \in {"save", "write"} /\ rec.next \in {"submit", "send"}

(* Where an operation goes once it has filled and saved its object. *)
EndsAfterFilling(rec) ==
  rec.pc \in {"ask", "query", "filling"} => rec.next \in {"idle", "clear"}

(* At most one operation may still transmit, and only if none has. *)
SendingInv ==
  /\ ~row.there => sent = 0 /\ \A w \in Tasks : task[w].pc = "idle"
  /\ sent <= 1
  /\ \A w \in Tasks : MaySend(task[w]) => sent = 0
  /\ \A w, x \in Tasks : MaySend(task[w]) /\ MaySend(task[x]) => w = x
  /\ \A w \in Tasks : EndsAfterFilling(task[w])

(* No object counts a trade that the ledger lacks; no answer has one that the venue
   lacks. *)
Sound(rec, recorded, executed) ==
  /\ rec.ord.filled \subseteq recorded /\ rec.ord.fills \subseteq recorded
  /\ rec.todo \subseteq executed

AnswersTrue == \A w \in Tasks : reply[w][Id].view.fills \subseteq venue[Id].fills

LedgerInv ==
  /\ RowBehindLedger
  /\ \A w \in Tasks : Sound(task[w], ledger, venue[Id].fills)
  /\ AnswersTrue

IInv == TypeOK /\ SendingInv /\ LedgerInv

-------------------------------------------------------------------------------
LEMMA AbsentLemma == Absent \in VenueOrder /\ Closed \in Reply /\ Pending \in Reply
BY DEF Absent, VenueOrder, VenueStatuses, Closed, Pending, Reply, ReplyKinds

LEMMA IdleLemma ==
  /\ Idle \in Task /\ Idle.pc = "idle" /\ Idle.next = "idle" /\ ~MaySend(Idle)
  /\ Idle.ord.filled = {} /\ Idle.ord.fills = {} /\ Idle.todo = {}
  /\ NoRow \in Row /\ NoRow.filled = {}
BY AbsentLemma DEF Idle, Task, Places, Object, NewObject, OrderStatuses, OpenStatuses,
                   ReconStates, NoRow, Row, MaySend

(* TryTransition moves the status of an object and nothing else. *)
LEMMA TransitionLemma ==
  ASSUME NEW x \in Object, NEW target \in OrderStatuses
  PROVE  /\ TryTransition(x, target) \in Object
         /\ TryTransition(x, target).fills = x.fills
         /\ TryTransition(x, target).filled = x.filled
BY DEF TryTransition, Object

(* A fill that is applied is listed, and nothing is counted that was neither counted
   nor listed. *)
LEMMA AppliedLemma ==
  ASSUME NEW x \in Object, NEW t \in Trades
  PROVE  /\ Applied(x, t) \in Object
         /\ Applied(x, t).fills \subseteq x.fills \cup {t}
         /\ Applied(x, t).filled \subseteq x.filled \cup x.fills \cup {t}
<1>1. CASE t \in x.fills
  BY <1>1 DEF Applied
<1>2. CASE t \notin x.fills
  <2> DEFINE y == [x EXCEPT !.fills = x.fills \cup {t}]
             z == ApplyFill(x, t)
  <2>1. y \in Object /\ y.fills = x.fills \cup {t}
    BY DEF Object
  <2>2. PICK target \in OrderStatuses : z = TryTransition(y, target)
    BY <1>2 DEF ApplyFill, OrderStatuses, OpenStatuses, TerminalStatuses
  <2>3. z \in Object /\ z.fills = x.fills \cup {t}
    BY <2>1, <2>2, TransitionLemma
  <2>4. Applied(x, t) = [z EXCEPT !.filled = x.fills \cup {t}]
    BY <1>2 DEF Applied
  <2> HIDE DEF z
  <2>5. x.fills \cup {t} \in SUBSET Trades
    BY DEF Object
  <2> QED BY <2>3, <2>4, <2>5 DEF Object
<1> QED BY <1>1, <1>2

(* So does the transition to the status of a venue's view; "absent" is none. *)
LEMMA ReachableLemma ==
  ASSUME NEW x \in Object, NEW v \in VenueOrder
  PROVE  LET y == TryTransition(x, v.status) IN
         y \in Object /\ y.fills = x.fills /\ y.filled = x.filled
<1>1. CASE v.status \in OrderStatuses
  BY <1>1, TransitionLemma
<1>2. CASE v.status \notin OrderStatuses
  <2>1. v.status = "ABSENT"
    BY <1>2 DEF VenueOrder, VenueStatuses, LiveStatuses, OrderStatuses, OpenStatuses,
                TerminalStatuses
  <2>2. ~IsLegalTransition(x.status, "ABSENT")
    BY DEF IsLegalTransition, ORDER_STATE_TRANSITIONS, Object, OrderStatuses,
           OpenStatuses, TerminalStatuses
  <2> QED BY <2>1, <2>2 DEF TryTransition
<1> QED BY <1>1, <1>2

-------------------------------------------------------------------------------
(* What an operation may do, so that everything holds after it: the conditions are
   about its own new record, the row, the ledger and its connection. *)
LEMMA LocalStep ==
  ASSUME IInv, NEW w \in Tasks, NEW rec \in Task, Goes(w, rec),
         row.there, row' \in Row, row'.there, row'.filled \subseteq ledger',
         ledger \subseteq ledger', ledger' \subseteq venue[Id].fills,
         MaySend(rec) => MaySend(task[w]), EndsAfterFilling(rec),
         Sound(rec, ledger', venue[Id].fills),
         inbox' \in SUBSET Request, reply' \in [Tasks -> [Orders -> Reply]],
         AnswersTrue', UNCHANGED <<venue, sent>>
  PROVE  IInv'
<1>1. /\ task \in [Tasks -> Task] /\ task' = [task EXCEPT ![w] = rec]
      /\ venue \in [Orders -> VenueOrder] /\ Id \in Orders /\ venue[Id] \in VenueOrder
  BY OneOrderAssumption DEF IInv, TypeOK, VenueTypeOK, Goes
<1>2. task' \in [Tasks -> Task] /\ task'[w] = rec /\ \A x \in Tasks \ {w} : task'[x] = task[x]
  BY <1>1
<1>3. ledger' \in SUBSET Trades /\ sent' \in Nat
  BY <1>1 DEF IInv, TypeOK, VenueOrder
<1>4. TypeOK'
  BY <1>1, <1>2, <1>3 DEF TypeOK, VenueTypeOK
<1>5. SendingInv'
  BY <1>2 DEF IInv, SendingInv
<1>6. LedgerInv'
  <2>1. \A x \in Tasks : Sound(task'[x], ledger', venue[Id].fills)
    BY <1>2 DEF IInv, LedgerInv, Sound
  <2> QED BY <2>1 DEF LedgerInv, RowBehindLedger
<1> QED BY <1>4, <1>5, <1>6 DEF IInv

-------------------------------------------------------------------------------
(* The venue keeps its types; it never forgets a trade, adds no request, and what it
   answers is what it holds. *)
LEMMA VenueTypeStep ==
  ASSUME VenueTypeOK, VenueNext
  PROVE  VenueTypeOK'
<1> USE AbsentLemma DEF VenueTypeOK
<1>1. ASSUME NEW m \in inbox, NEW kind \in ReplyKinds, NEW view \in VenueOrder
      PROVE  Answer(m, kind, view) \in [Tasks -> [Orders -> Reply]]
  BY DEF Answer, Reply, Request
<1>2. ASSUME NEW ts \in SUBSET Trades
      PROVE  /\ StatusOf(ts) \in VenueStatuses \ {"ABSENT"}
             /\ [status |-> StatusOf(ts), fills |-> ts] \in VenueOrder
             /\ [status |-> "EXPIRED", fills |-> ts] \in VenueOrder
  BY DEF StatusOf, VenueOrder, VenueStatuses, LiveStatuses
<1>3. ASSUME NEW o \in Orders, NEW st \in {"CANCELLED", "EXPIRED"}
      PROVE  [venue EXCEPT ![o].status = st] \in [Orders -> VenueOrder]
  BY DEF VenueOrder, VenueStatuses
<1>4. ASSUME NEW m \in inbox, VenueAccepts(m) PROVE VenueTypeOK'
  <2>1. PICK ts \in SUBSET Trades : \E st \in {StatusOf(ts), "EXPIRED"} :
          /\ venue' = [venue EXCEPT ![m.order] = [status |-> st, fills |-> ts]]
          /\ reply' = Answer(m, "ACCEPTED", [status |-> st, fills |-> ts])
    BY <1>4 DEF VenueAccepts
  <2>2. PICK st \in {StatusOf(ts), "EXPIRED"} :
          /\ venue' = [venue EXCEPT ![m.order] = [status |-> st, fills |-> ts]]
          /\ reply' = Answer(m, "ACCEPTED", [status |-> st, fills |-> ts])
    BY <2>1
  <2>3. [status |-> st, fills |-> ts] \in VenueOrder
    BY <1>2
  <2>4. inbox' \in SUBSET Request /\ m.order \in Orders
    BY <1>4 DEF VenueAccepts, Request
  <2> QED BY <1>1, <2>2, <2>3, <2>4 DEF ReplyKinds
<1>5. ASSUME NEW m \in inbox, VenueRejects(m) PROVE VenueTypeOK'
  BY <1>1, <1>5 DEF VenueRejects, ReplyKinds
<1>6. ASSUME NEW m \in inbox, VenueCancels(m) PROVE VenueTypeOK'
  <2>1. m.order \in Orders
    BY DEF Request
  <2>2. venue' \in [Orders -> VenueOrder]
    BY <1>3, <1>6, <2>1 DEF VenueCancels
  <2>3. \A kind \in {"CANCELLED", "GONE", "REFUSED"} :
          Answer(m, kind, Absent) \in [Tasks -> [Orders -> Reply]]
    BY <1>1 DEF ReplyKinds
  <2>4. reply' \in [Tasks -> [Orders -> Reply]] /\ inbox' \in SUBSET Request
    BY <1>6, <2>3 DEF VenueCancels
  <2> QED BY <2>2, <2>4
<1>7. ASSUME NEW m \in inbox, VenueLoses(m) PROVE VenueTypeOK'
  BY <1>7 DEF VenueLoses
<1>8. ASSUME NEW o \in Orders, VenueTrades(o) PROVE VenueTypeOK'
  <2>1. PICK t \in Trades :
          venue' = [venue EXCEPT ![o] = [status |-> StatusOf(venue[o].fills \cup {t}),
                                         fills |-> venue[o].fills \cup {t}]]
    BY <1>8 DEF VenueTrades
  <2>2. venue[o].fills \cup {t} \in SUBSET Trades
    BY DEF VenueOrder
  <2> QED BY <1>2, <1>8, <2>1, <2>2 DEF VenueTrades
<1>9. ASSUME NEW o \in Orders, VenueExpires(o) PROVE VenueTypeOK'
  BY <1>3, <1>9 DEF VenueExpires
<1> QED BY <1>4, <1>5, <1>6, <1>7, <1>8, <1>9 DEF VenueNext

LEMMA VenueGrows ==
  ASSUME VenueTypeOK, VenueNext, AnswersTrue
  PROVE  /\ inbox' \subseteq inbox
         /\ venue[Id].fills \subseteq venue'[Id].fills
         /\ AnswersTrue'
<1>1. /\ Id \in Orders /\ venue \in [Orders -> VenueOrder]
      /\ reply \in [Tasks -> [Orders -> Reply]] /\ inbox \subseteq Request
      /\ Absent.fills = {}
  BY OneOrderAssumption DEF VenueTypeOK, Absent
<1>2. ASSUME NEW m \in inbox, NEW kind, NEW view, view.fills \subseteq venue'[Id].fills,
             venue[Id].fills \subseteq venue'[Id].fills, reply' = Answer(m, kind, view)
      PROVE  AnswersTrue'
  <2>1. m.from \in Tasks /\ m.order = Id
    BY <1>1, OneOrderAssumption DEF Request
  <2>2. \A w \in Tasks : \/ reply'[w][Id].view = reply[w][Id].view
                          \/ reply'[w][Id].view = view
    BY <1>1, <1>2, <2>1 DEF Answer
  <2> QED BY <1>2, <2>2 DEF AnswersTrue
<1>3. ASSUME NEW m \in inbox, VenueAccepts(m) PROVE venue[Id].fills \subseteq venue'[Id].fills /\ AnswersTrue'
  <2>1. PICK v : venue' = [venue EXCEPT ![m.order] = v] /\ reply' = Answer(m, "ACCEPTED", v)
    BY <1>3 DEF VenueAccepts
  <2>2. m.order = Id /\ venue'[Id] = v /\ venue[Id].fills = {}
    BY <1>1, <1>3, <2>1, OneOrderAssumption DEF VenueAccepts, Request
  <2> QED BY <1>2, <2>1, <2>2
<1>4. ASSUME NEW m \in inbox, VenueRejects(m) PROVE venue' = venue /\ AnswersTrue'
  BY <1>1, <1>2, <1>4 DEF VenueRejects
<1>5. ASSUME NEW m \in inbox, VenueCancels(m) PROVE venue[Id].fills \subseteq venue'[Id].fills /\ AnswersTrue'
  <2>1. m.order \in Orders
    BY <1>1 DEF Request
  <2>2. venue'[Id].fills = venue[Id].fills
    BY <1>1, <1>5, <2>1 DEF VenueCancels, VenueOrder
  <2>3. PICK kind : reply' = Answer(m, kind, Absent)
    BY <1>5 DEF VenueCancels
  <2> QED BY <1>1, <1>2, <2>2, <2>3
<1>6. ASSUME NEW o \in Orders, VenueTrades(o) PROVE venue[Id].fills \subseteq venue'[Id].fills
  BY <1>1, <1>6, OneOrderAssumption DEF VenueTrades
<1>7. ASSUME NEW o \in Orders, VenueExpires(o) PROVE venue'[Id].fills = venue[Id].fills
  BY <1>1, <1>7, OneOrderAssumption DEF VenueExpires, VenueOrder
<1>8. inbox' \subseteq inbox
  BY DEF VenueNext, VenueAccepts, VenueRejects, VenueCancels, VenueLoses, VenueTrades,
         VenueExpires
<1>9. ASSUME UNCHANGED reply, venue[Id].fills \subseteq venue'[Id].fills PROVE AnswersTrue'
  BY <1>9 DEF AnswersTrue
<1> QED
  BY <1>3, <1>4, <1>5, <1>6, <1>7, <1>8, <1>9
     DEF VenueNext, VenueLoses, VenueTrades, VenueExpires

LEMMA VenueStep ==
  ASSUME IInv, VenueNext, UNCHANGED <<row, ledger, sent, task>>
  PROVE  IInv'
<1>1. VenueTypeOK /\ AnswersTrue
  BY DEF IInv, TypeOK, LedgerInv
<1>2. VenueTypeOK' /\ inbox' \subseteq inbox /\ AnswersTrue'
      /\ venue[Id].fills \subseteq venue'[Id].fills
  BY <1>1, VenueTypeStep, VenueGrows
<1>3. TypeOK'
  BY <1>2 DEF IInv, TypeOK
<1>4. SendingInv'
  BY DEF IInv, SendingInv
<1>5. LedgerInv'
  BY <1>2 DEF IInv, LedgerInv, RowBehindLedger, Sound
<1> QED BY <1>3, <1>4, <1>5 DEF IInv

-------------------------------------------------------------------------------
(* What is known of an operation before each of its steps. *)
LEMMA Known ==
  ASSUME IInv, NEW w \in Tasks
  PROVE  /\ task[w] \in Task /\ task[w].ord \in Object /\ row \in Row
         /\ Id \in Orders /\ venue[Id] \in VenueOrder /\ ledger \in SUBSET Trades
         /\ reply[w][Id] \in Reply /\ reply[w][Id].view \in VenueOrder
         /\ reply[w][Id].view.fills \subseteq venue[Id].fills
         /\ Sound(task[w], ledger, venue[Id].fills) /\ EndsAfterFilling(task[w])
         /\ row.filled \subseteq ledger /\ ledger \subseteq venue[Id].fills
         /\ task[w].pc # "idle" => row.there
<1>1. Id \in Orders
  BY OneOrderAssumption
<1>2. task[w] \in Task /\ row \in Row /\ ledger \in SUBSET Trades
      /\ venue[Id] \in VenueOrder /\ reply[w][Id] \in Reply
  BY <1>1 DEF IInv, TypeOK, VenueTypeOK
<1>3. task[w].ord \in Object /\ reply[w][Id].view \in VenueOrder
  BY <1>2 DEF Task, Reply
<1> QED BY <1>1, <1>2, <1>3 DEF IInv, SendingInv, LedgerInv, RowBehindLedger, AnswersTrue

(* Hanging up, and leaving the connection alone. *)
LEMMA LineLemma ==
  ASSUME IInv, NEW w \in Tasks, HangsUp(w) \/ UNCHANGED venueVars
  PROVE  /\ venue' = venue /\ inbox' \in SUBSET Request
         /\ reply' \in [Tasks -> [Orders -> Reply]] /\ AnswersTrue'
<1>1. inbox \in SUBSET Request /\ reply \in [Tasks -> [Orders -> Reply]] /\ AnswersTrue
      /\ Id \in Orders
  BY OneOrderAssumption DEF IInv, TypeOK, VenueTypeOK, LedgerInv
<1>2. CASE HangsUp(w)
  BY <1>1, <1>2, AbsentLemma DEF HangsUp, AnswersTrue, Closed, Absent
<1>3. CASE UNCHANGED venueVars
  BY <1>1, <1>3 DEF venueVars, AnswersTrue
<1> QED BY <1>2, <1>3

(* A step that leaves ledger and venue alone. *)
LEMMA QuietStep ==
  ASSUME IInv, NEW w \in Tasks, NEW rec \in Task, Goes(w, rec),
         HangsUp(w) \/ UNCHANGED venueVars, UNCHANGED <<ledger, sent>>,
         row.there, row' \in Row, row'.there, row'.filled \subseteq ledger,
         MaySend(rec) => MaySend(task[w]), EndsAfterFilling(rec),
         Sound(rec, ledger, venue[Id].fills)
  PROVE  IInv'
BY LineLemma, LocalStep, Known

(* Marking the row. *)
LEMMA MarkLemma ==
  ASSUME row \in Row, row.there, NEW mark \in ReconStates
  PROVE  /\ [row EXCEPT !.mark = mark] \in Row
         /\ [row EXCEPT !.mark = mark].there
         /\ [row EXCEPT !.mark = mark].filled = row.filled
BY DEF Row

LEMMA SavingLemma ==
  ASSUME NEW rec \in Task, NEW x \in Object,
         NEW next \in {"idle", "submit", "send", "clear", "cancel"}
  PROVE  LET new == Saving([rec EXCEPT !.ord = x], next) IN
         /\ new \in Task /\ new.pc = "save" /\ new.next = next /\ new.ord = x
         /\ new.todo = rec.todo /\ EndsAfterFilling(new)
         /\ MaySend(new) <=> next \in {"submit", "send"}
BY DEF Saving, Task, Places, EndsAfterFilling, MaySend

LEMMA PlaceLemma ==
  ASSUME NEW rec \in Task, NEW place \in Places
  PROVE  LET new == [rec EXCEPT !.pc = place] IN
         /\ new \in Task /\ new.pc = place /\ new.next = rec.next /\ new.ord = rec.ord
         /\ new.todo = rec.todo
BY DEF Task

-------------------------------------------------------------------------------
LEMMA StorePreserves ==
  ASSUME IInv, NEW w \in Tasks, StoreStep(w)
  PROVE  IInv'
<1> DEFINE t == task[w]
<1>1. /\ t \in Task /\ t.ord \in Object /\ row \in Row /\ EndsAfterFilling(t)
      /\ Sound(t, ledger, venue[Id].fills) /\ row.filled \subseteq ledger
      /\ ledger \subseteq venue[Id].fills
      /\ t.pc # "idle" => row.there
  BY Known
<1>2. CASE ReadsMark(w)
  <2> DEFINE rec == [t EXCEPT !.pc = "write", !.mark = row.mark]
  <2>1. row.mark \in ReconStates
    BY <1>1 DEF Row
  <2>2. rec \in Task /\ rec.pc = "write" /\ rec.next = t.next /\ rec.ord = t.ord
        /\ rec.todo = t.todo
    BY <1>1, <2>1 DEF Task, Places
  <2>3. /\ Goes(w, rec) /\ UNCHANGED <<venueVars, row, ledger, sent>>
        /\ t.pc \in {"save", "filling"}
    BY <1>2 DEF ReadsMark
  <2> HIDE DEF rec
  <2>4. MaySend(rec) => MaySend(t)
    BY <1>1, <2>2, <2>3 DEF MaySend, EndsAfterFilling
  <2>5. EndsAfterFilling(rec) /\ Sound(rec, ledger, venue[Id].fills)
    BY <1>1, <2>2 DEF EndsAfterFilling, Sound
  <2> HIDE DEF t
  <2> QED BY <1>1, <2>2, <2>3, <2>4, <2>5, QuietStep DEF t
<1>3. CASE Writes(w)
  <2> DEFINE rec == IF t.next = "idle" THEN Idle ELSE [t EXCEPT !.pc = t.next]
             new == [there |-> TRUE, status |-> t.ord.status, filled |-> t.ord.filled,
                     mark |-> t.mark]
  <2>1. new \in Row /\ new.there /\ new.filled \subseteq ledger
    BY <1>1 DEF Row, Task, Object, Sound
  <2>2. /\ Goes(w, rec) /\ row' = new /\ UNCHANGED <<venueVars, ledger, sent>>
        /\ t.pc = "write"
    BY <1>3 DEF Writes
  <2> HIDE DEF new
  <2>3. rec \in Task /\ (MaySend(rec) => MaySend(t)) /\ EndsAfterFilling(rec)
        /\ Sound(rec, ledger, venue[Id].fills)
    <3>1. CASE t.next = "idle"
      BY <3>1, IdleLemma DEF EndsAfterFilling, Sound
    <3>2. CASE t.next # "idle"
      <4>1. t.next \in {"submit", "send", "clear", "cancel"} /\ t.next \in Places
        BY <1>1, <3>2 DEF Task, Places
      <4>2. rec \in Task /\ rec.pc = t.next /\ rec.ord = t.ord /\ rec.todo = t.todo
        BY <1>1, <3>2, <4>1, PlaceLemma
      <4> HIDE DEF rec
      <4> QED BY <1>1, <2>2, <4>1, <4>2 DEF MaySend, EndsAfterFilling, Sound
    <3> QED BY <3>1, <3>2
  <2> HIDE DEF rec
  <2> QED BY <1>1, <2>1, <2>2, <2>3, QuietStep
<1>4. CASE RecordsFill(w)
  <2>1. PICK f \in t.todo : /\ ledger' = ledger \cup {f}
                            /\ Goes(w, [t EXCEPT !.ord = Applied(@, f), !.todo = @ \ {f}])
    BY <1>4 DEF RecordsFill
  <2> DEFINE rec == [t EXCEPT !.ord = Applied(t.ord, f), !.todo = t.todo \ {f}]
  <2>2. t.todo \in SUBSET Trades /\ f \in Trades /\ f \in venue[Id].fills
    BY <1>1 DEF Task, Sound
  <2>3. /\ Applied(t.ord, f) \in Object
        /\ Applied(t.ord, f).fills \subseteq t.ord.fills \cup {f}
        /\ Applied(t.ord, f).filled \subseteq t.ord.filled \cup t.ord.fills \cup {f}
    BY <1>1, <2>2, AppliedLemma
  <2>4. /\ rec \in Task /\ rec.pc = t.pc /\ rec.next = t.next
        /\ rec.ord = Applied(t.ord, f) /\ rec.todo = t.todo \ {f}
    BY <1>1, <2>2, <2>3 DEF Task
  <2>5. Goes(w, rec)
    BY <2>1
  <2> HIDE DEF rec
  <2>6. (MaySend(rec) => MaySend(t)) /\ EndsAfterFilling(rec)
    BY <1>1, <2>4 DEF MaySend, EndsAfterFilling
  <2>7. Sound(rec, ledger', venue[Id].fills)
    BY <1>1, <2>1, <2>3, <2>4 DEF Sound
  <2>8. UNCHANGED <<venueVars, row, sent>> /\ t.pc = "filling"
    BY <1>4 DEF RecordsFill
  <2>9. /\ venue' = venue /\ inbox' \in SUBSET Request
        /\ reply' \in [Tasks -> [Orders -> Reply]] /\ AnswersTrue'
    BY <2>8, LineLemma
  <2>10. ledger \subseteq ledger' /\ ledger' \subseteq venue[Id].fills
         /\ row'.filled \subseteq ledger' /\ row' \in Row /\ row'.there /\ row.there
    BY <1>1, <2>1, <2>2, <2>8
  <2> QED BY <2>4, <2>5, <2>6, <2>7, <2>8, <2>9, <2>10, LocalStep
<1> QED BY <1>2, <1>3, <1>4 DEF StoreStep

-------------------------------------------------------------------------------
(* A reservation: nothing has been sent and nobody else is at work, for there was no
   row. *)
LEMMA ReservePreserves ==
  ASSUME IInv, NEW w \in Tasks, Reserves(w)
  PROVE  IInv'
<1> DEFINE rec == Saving([Idle EXCEPT !.op = "submit"], "submit")
           new == [NoRow EXCEPT !.there = TRUE, !.mark = "UNKNOWN"]
<1>1. rec \in Task /\ rec.pc = "save" /\ rec.ord.filled = {} /\ rec.ord.fills = {}
      /\ rec.todo = {}
  BY IdleLemma DEF Saving, Task, Places
<1>2. new \in Row /\ new.there /\ new.filled = {}
  BY DEF NoRow, Row, OrderStatuses, OpenStatuses, ReconStates
<1>3. row' = new /\ Goes(w, rec) /\ UNCHANGED <<venueVars, ledger, sent>> /\ ~row.there
  BY DEF Reserves
<1> HIDE DEF rec, new
<1>4. task \in [Tasks -> Task] /\ task' = [task EXCEPT ![w] = rec]
  BY <1>3 DEF IInv, TypeOK, Goes
<1>5. task' \in [Tasks -> Task] /\ task'[w] = rec /\ \A x \in Tasks \ {w} : task'[x] = task[x]
  BY <1>1, <1>4
<1>6. sent = 0 /\ \A x \in Tasks : task[x].pc = "idle"
  BY <1>3 DEF IInv, SendingInv
<1>7. TypeOK'
  BY <1>2, <1>3, <1>5 DEF IInv, TypeOK, VenueTypeOK, venueVars
<1>8. SendingInv'
  <2>1. \A x \in Tasks \ {w} : ~MaySend(task'[x]) /\ EndsAfterFilling(task'[x])
    BY <1>5, <1>6 DEF MaySend, EndsAfterFilling
  <2>2. EndsAfterFilling(task'[w]) /\ sent' = 0 /\ row'.there
    BY <1>1, <1>2, <1>3, <1>5, <1>6 DEF EndsAfterFilling
  <2> QED BY <2>1, <2>2 DEF SendingInv
<1>9. LedgerInv'
  <2>1. \A x \in Tasks : Sound(task'[x], ledger, venue[Id].fills)
    BY <1>1, <1>5 DEF IInv, LedgerInv, Sound
  <2>2. RowBehindLedger'
    BY <1>2, <1>3 DEF IInv, LedgerInv, RowBehindLedger, venueVars
  <2> QED BY <1>3, <2>1, <2>2 DEF IInv, LedgerInv, AnswersTrue, venueVars
<1> QED BY <1>7, <1>8, <1>9 DEF IInv

(* The transmission: by the one operation that may, and before any. *)
LEMMA TransmitPreserves ==
  ASSUME IInv, NEW w \in Tasks, Transmits(w)
  PROVE  IInv'
<1> DEFINE rec == [task[w] EXCEPT !.pc = "sent"]
           new == [row EXCEPT !.mark = "UNKNOWN"]
           m   == [kind |-> "PLACE", order |-> Id, from |-> w]
<1>1. task[w] \in Task /\ row \in Row /\ row.there /\ row.filled \subseteq ledger
      /\ Sound(task[w], ledger, venue[Id].fills) /\ Id \in Orders
  BY Known DEF Transmits
<1>2. new \in Row /\ new.there /\ new.filled = row.filled
  BY <1>1, MarkLemma DEF ReconStates
<1>3. rec \in Task /\ rec.pc = "sent" /\ rec.ord = task[w].ord /\ rec.todo = task[w].todo
  BY <1>1, PlaceLemma DEF Places
<1>4. row' = new /\ Goes(w, rec) /\ sent' = sent + 1 /\ UNCHANGED <<venue, ledger>>
      /\ inbox' = inbox \cup {m} /\ reply' = [reply EXCEPT ![w][Id] = Pending]
      /\ task[w].pc = "send"
  BY DEF Transmits
<1> HIDE DEF rec, new
<1>5. m \in Request
  BY <1>1 DEF Request
<1>6. task \in [Tasks -> Task] /\ task' = [task EXCEPT ![w] = rec]
  BY <1>4 DEF IInv, TypeOK, Goes
<1>7. task' \in [Tasks -> Task] /\ task'[w] = rec /\ \A x \in Tasks \ {w} : task'[x] = task[x]
  BY <1>3, <1>6
<1>8. MaySend(task[w]) /\ sent = 0
  BY <1>4 DEF IInv, SendingInv, MaySend
<1>9. VenueTypeOK' /\ AnswersTrue'
  <2>1. reply \in [Tasks -> [Orders -> Reply]] /\ Pending \in Reply /\ Pending.view.fills = {}
    BY AbsentLemma DEF IInv, TypeOK, VenueTypeOK, Pending, Absent
  <2>2. reply' \in [Tasks -> [Orders -> Reply]] /\ AnswersTrue'
    BY <1>1, <1>4, <2>1 DEF IInv, LedgerInv, AnswersTrue
  <2> QED BY <1>4, <1>5, <2>2 DEF IInv, TypeOK, VenueTypeOK
<1>10. TypeOK'
  BY <1>2, <1>4, <1>7, <1>8, <1>9 DEF IInv, TypeOK
<1>11. SendingInv'
  <2>1. \A x \in Tasks \ {w} : ~MaySend(task'[x])
    BY <1>7, <1>8 DEF IInv, SendingInv
  <2>2. ~MaySend(task'[w]) /\ EndsAfterFilling(task'[w])
    BY <1>3, <1>7 DEF MaySend, EndsAfterFilling
  <2>3. sent' = 1 /\ row'.there /\ \A x \in Tasks : ~MaySend(task'[x])
    BY <1>2, <1>4, <1>8, <2>1, <2>2
  <2>4. \A x \in Tasks : EndsAfterFilling(task'[x])
    BY <1>7, <2>2 DEF IInv, SendingInv
  <2> QED BY <2>3, <2>4 DEF SendingInv
<1>12. LedgerInv'
  <2>1. \A x \in Tasks : Sound(task'[x], ledger, venue[Id].fills)
    BY <1>1, <1>3, <1>7 DEF IInv, LedgerInv, Sound
  <2>2. RowBehindLedger'
    BY <1>2, <1>4 DEF IInv, LedgerInv, RowBehindLedger
  <2> QED BY <1>4, <1>9, <2>1, <2>2 DEF LedgerInv
<1> QED BY <1>10, <1>11, <1>12 DEF IInv

-------------------------------------------------------------------------------
MarksAtMost == row' = row \/ \E mark \in ReconStates : row' = [row EXCEPT !.mark = mark]

(* The steps that only end an operation, or take its object to save_order. *)
LEMMA MarkedRow ==
  ASSUME row \in Row, row.there, MarksAtMost
  PROVE  row' \in Row /\ row'.there /\ row'.filled = row.filled
<1>1. CASE row' = row
  BY <1>1
<1>2. ASSUME NEW mark \in ReconStates, row' = [row EXCEPT !.mark = mark]
      PROVE  row' \in Row /\ row'.there /\ row'.filled = row.filled
  BY <1>2, MarkLemma
<1> QED BY <1>1, <1>2 DEF MarksAtMost

LEMMA EndsPreserve ==
  ASSUME IInv, NEW w \in Tasks, task[w].pc # "idle", Goes(w, Idle), MarksAtMost,
         HangsUp(w) \/ UNCHANGED venueVars, UNCHANGED <<ledger, sent>>
  PROVE  IInv'
<1>1. row \in Row /\ row.there /\ row.filled \subseteq ledger
  BY Known
<1>2. row' \in Row /\ row'.there /\ row'.filled = row.filled
  BY <1>1, MarkedRow
<1>3. Sound(Idle, ledger, venue[Id].fills) /\ EndsAfterFilling(Idle)
  BY IdleLemma DEF Sound, EndsAfterFilling
<1> QED BY <1>1, <1>2, <1>3, IdleLemma, QuietStep

LEMMA SavesPreserve ==
  ASSUME IInv, NEW w \in Tasks, task[w].pc # "idle", MarksAtMost,
         NEW x \in Object, x.fills \subseteq ledger, x.filled \subseteq ledger,
         NEW next \in {"idle", "submit", "send", "clear", "cancel"},
         next \in {"submit", "send"} => MaySend(task[w]),
         Goes(w, Saving([task[w] EXCEPT !.ord = x], next)),
         HangsUp(w) \/ UNCHANGED venueVars, UNCHANGED <<ledger, sent>>
  PROVE  IInv'
<1> DEFINE rec == Saving([task[w] EXCEPT !.ord = x], next)
<1>1. /\ row \in Row /\ row.there /\ row.filled \subseteq ledger /\ task[w] \in Task
      /\ Sound(task[w], ledger, venue[Id].fills)
  BY Known
<1>2. row' \in Row /\ row'.there /\ row'.filled = row.filled
  BY <1>1, MarkedRow
<1>3. /\ rec \in Task /\ rec.ord = x /\ rec.todo = task[w].todo /\ EndsAfterFilling(rec)
      /\ MaySend(rec) <=> next \in {"submit", "send"}
  BY <1>1, SavingLemma
<1> HIDE DEF rec
<1>4. Sound(rec, ledger, venue[Id].fills)
  BY <1>1, <1>3 DEF Sound
<1>5. Goes(w, rec)
  BY DEF rec
<1> QED BY <1>1, <1>2, <1>3, <1>4, <1>5, QuietStep

(* The object of an operation after a transition. *)
LEMMA Transitioned ==
  ASSUME IInv, NEW w \in Tasks, NEW target \in OrderStatuses
  PROVE  LET x == TryTransition(task[w].ord, target) IN
         x \in Object /\ x.fills \subseteq ledger /\ x.filled \subseteq ledger
BY Known, TransitionLemma DEF Sound

LEMMA SubmitPreserves ==
  ASSUME IInv, NEW w \in Tasks, SubmitStep(w)
  PROVE  IInv'
<1> DEFINE t == task[w]
<1>1. CASE Reserves(w)
  BY <1>1, ReservePreserves
<1>2. CASE Transmits(w)
  BY <1>2, TransmitPreserves
<1>3. CASE Submitted(w)
  <2>1. "SUBMITTED" \in OrderStatuses
    BY DEF OrderStatuses, OpenStatuses
  <2> DEFINE x == TryTransition(t.ord, "SUBMITTED")
  <2>2. x \in Object /\ x.fills \subseteq ledger /\ x.filled \subseteq ledger
    BY <2>1, Transitioned
  <2>3. Goes(w, Saving([t EXCEPT !.ord = x], "send")) /\ t.pc = "submit"
        /\ UNCHANGED <<venueVars, row, ledger, sent>>
    BY <1>3 DEF Submitted
  <2> HIDE DEF x
  <2> QED BY <2>2, <2>3, SavesPreserve DEF MarksAtMost, MaySend
<1>4. CASE Accepted(w)
  <2> DEFINE v   == reply[w][Id].view
             x   == TryTransition(t.ord, v.status)
             rec == [t EXCEPT !.pc = "filling", !.next = "clear", !.todo = v.fills, !.ord = x]
  <2>1. /\ t \in Task /\ t.ord \in Object /\ v \in VenueOrder /\ row \in Row
        /\ v.fills \subseteq venue[Id].fills /\ row.filled \subseteq ledger
        /\ Sound(t, ledger, venue[Id].fills)
        /\ t.pc # "idle" => row.there
    BY Known
  <2>2. Goes(w, rec) /\ t.pc = "sent" /\ HangsUp(w) /\ UNCHANGED <<row, ledger, sent>>
    BY <1>4 DEF Accepted, Hears
  <2>3. x \in Object /\ x.fills = t.ord.fills /\ x.filled = t.ord.filled
    BY <2>1, ReachableLemma
  <2>4. v.fills \in SUBSET Trades
    BY <2>1 DEF VenueOrder
  <2> HIDE DEF x, v
  <2>5. rec \in Task /\ rec.pc = "filling" /\ rec.next = "clear" /\ rec.ord = x
        /\ rec.todo = v.fills
    BY <2>1, <2>3, <2>4 DEF Task, Places
  <2> HIDE DEF rec
  <2>6. ~MaySend(rec) /\ EndsAfterFilling(rec) /\ Sound(rec, ledger, venue[Id].fills)
    BY <2>1, <2>3, <2>5 DEF MaySend, EndsAfterFilling, Sound, v
  <2> QED BY <2>1, <2>2, <2>5, <2>6, QuietStep
<1>5. CASE NotPlaced(w)
  <2> DEFINE target == IF reply[w][Id].kind = "REJECTED" THEN "REJECTED" ELSE "FAILED"
             x == TryTransition(t.ord, target)
  <2>1. target \in OrderStatuses
    BY DEF OrderStatuses, TerminalStatuses
  <2>2. x \in Object /\ x.fills \subseteq ledger /\ x.filled \subseteq ledger
    BY <2>1, Transitioned
  <2>3. Goes(w, Saving([t EXCEPT !.ord = x], "clear")) /\ t.pc = "sent"
        /\ HangsUp(w) /\ UNCHANGED <<row, ledger, sent>>
    BY <1>5 DEF NotPlaced, Hears
  <2> HIDE DEF x
  <2> QED BY <2>2, <2>3, SavesPreserve DEF MarksAtMost
<1>6. CASE FateUnknown(w)
  <2>1. t \in Task /\ t.ord \in Object /\ t.ord.fills \subseteq ledger /\ t.ord.filled \subseteq ledger
    BY Known DEF Sound
  <2>2. t = [t EXCEPT !.ord = t.ord]
    BY <2>1 DEF Task
  <2>3. Goes(w, Saving([t EXCEPT !.ord = t.ord], "idle")) /\ t.pc = "sent"
        /\ HangsUp(w) /\ UNCHANGED <<ledger, sent>> /\ MarksAtMost
    BY <1>6, <2>2 DEF FateUnknown, MarksAtMost, ReconStates
  <2> QED BY <2>1, <2>3, SavesPreserve
<1>7. CASE Clears(w)
  BY <1>7, EndsPreserve DEF Clears, MarksAtMost, ReconStates
<1> QED BY <1>1, <1>2, <1>3, <1>4, <1>5, <1>6, <1>7 DEF SubmitStep

(* The record with which an operation begins: the object of the row. *)
LEMMA Begins ==
  ASSUME IInv, NEW w \in Tasks, NEW place \in {"check", "ask"}, NEW op \in {"cancel", "pass"},
         row.there, UNCHANGED <<venueVars, row, ledger, sent>>,
         Goes(w, [Idle EXCEPT !.pc = place, !.op = op, !.ord = Loaded])
  PROVE  IInv'
<1> DEFINE rec == [Idle EXCEPT !.pc = place, !.op = op, !.ord = Loaded]
<1>1. row \in Row /\ row.filled \subseteq ledger /\ ledger \in SUBSET Trades
  BY Known
<1>2. Loaded \in Object /\ Loaded.fills = ledger /\ Loaded.filled = row.filled
  BY <1>1 DEF Loaded, Object, Row
<1>3. rec \in Task /\ rec.pc = place /\ rec.next = "idle" /\ rec.ord = Loaded /\ rec.todo = {}
  BY <1>2, IdleLemma DEF Task, Places
<1> HIDE DEF rec
<1>4. ~MaySend(rec) /\ EndsAfterFilling(rec) /\ Sound(rec, ledger, venue[Id].fills)
  BY <1>1, <1>2, <1>3 DEF MaySend, EndsAfterFilling, Sound
<1>5. Goes(w, rec)
  BY DEF rec
<1> QED BY <1>1, <1>3, <1>4, <1>5, QuietStep

(* The steps that only go to another place. *)
LEMMA MovesOn ==
  ASSUME IInv, NEW w \in Tasks, task[w].pc # "idle", UNCHANGED <<row, ledger, sent>>,
         NEW place \in {"query", "cancel"},
         place = "query" => task[w].pc = "ask",
         Goes(w, [task[w] EXCEPT !.pc = place]), HangsUp(w) \/ UNCHANGED venueVars
  PROVE  IInv'
<1> DEFINE rec == [task[w] EXCEPT !.pc = place]
<1>1. /\ task[w] \in Task /\ row \in Row /\ row.there /\ row.filled \subseteq ledger
      /\ Sound(task[w], ledger, venue[Id].fills) /\ EndsAfterFilling(task[w])
  BY Known
<1>2. /\ rec \in Task /\ rec.pc = place /\ rec.next = task[w].next
      /\ rec.ord = task[w].ord /\ rec.todo = task[w].todo
  <2>1. place \in Places
    BY DEF Places
  <2> QED BY <1>1, <2>1, PlaceLemma
<1> HIDE DEF rec
<1>3. ~MaySend(rec) /\ EndsAfterFilling(rec) /\ Sound(rec, ledger, venue[Id].fills)
  BY <1>1, <1>2 DEF MaySend, EndsAfterFilling, Sound
<1>4. Goes(w, rec)
  BY DEF rec
<1> QED BY <1>1, <1>2, <1>3, <1>4, QuietStep

LEMMA CancelPreserves ==
  ASSUME IInv, NEW w \in Tasks, CancelStep(w)
  PROVE  IInv'
<1> DEFINE t == task[w]
<1>1. CASE CancelLoads(w)
  BY <1>1, Begins DEF CancelLoads
<1>2. CASE CancelChecks(w)
  <2> DEFINE x == TryTransition(t.ord, "CANCEL_REQUESTED")
  <2>1. "CANCEL_REQUESTED" \in OrderStatuses
    BY DEF OrderStatuses, OpenStatuses
  <2>2. x \in Object /\ x.fills \subseteq ledger /\ x.filled \subseteq ledger
    BY <2>1, Transitioned
  <2>3. /\ t.pc = "check" /\ UNCHANGED <<venueVars, row, ledger, sent>>
        /\ \/ Goes(w, Idle)
           \/ Goes(w, Saving([t EXCEPT !.ord = x], "cancel"))
           \/ Goes(w, [t EXCEPT !.pc = "cancel"])
    BY <1>2 DEF CancelChecks
  <2> HIDE DEF x
  <2>4. CASE Goes(w, Idle)
    BY <2>3, <2>4, EndsPreserve DEF MarksAtMost
  <2>5. CASE Goes(w, Saving([t EXCEPT !.ord = x], "cancel"))
    BY <2>2, <2>3, <2>5, SavesPreserve DEF MarksAtMost
  <2>6. CASE Goes(w, [t EXCEPT !.pc = "cancel"])
    BY <2>3, <2>6, MovesOn
  <2> QED BY <2>3, <2>4, <2>5, <2>6
<1>3. CASE CancelTransmits(w)
  <2> DEFINE rec == [t EXCEPT !.pc = "cancelling"]
             m   == [kind |-> "CANCEL", order |-> Id, from |-> w]
  <2>1. /\ t \in Task /\ row \in Row /\ row.filled \subseteq ledger /\ Id \in Orders
        /\ ledger \subseteq venue[Id].fills
        /\ Sound(t, ledger, venue[Id].fills)
        /\ t.pc # "idle" => row.there
    BY Known
  <2>2. /\ rec \in Task /\ rec.pc = "cancelling" /\ rec.ord = t.ord /\ rec.todo = t.todo
    BY <2>1, PlaceLemma DEF Places
  <2>3. /\ t.pc = "cancel" /\ Goes(w, rec) /\ UNCHANGED <<venue, row, ledger, sent>>
        /\ inbox' = inbox \cup {m} /\ reply' = [reply EXCEPT ![w][Id] = Pending]
    BY <1>3 DEF CancelTransmits
  <2> HIDE DEF rec, m
  <2>4. /\ ~MaySend(rec) /\ EndsAfterFilling(rec) /\ Sound(rec, ledger', venue[Id].fills)
        /\ row' \in Row /\ row'.there /\ row'.filled \subseteq ledger' /\ row.there
        /\ ledger \subseteq ledger' /\ ledger' \subseteq venue[Id].fills
    <3>1. ~MaySend(rec) /\ EndsAfterFilling(rec)
      BY <2>2 DEF MaySend, EndsAfterFilling
    <3>2. Sound(rec, ledger', venue[Id].fills)
      BY <2>1, <2>2, <2>3 DEF Sound
    <3>3. ledger' = ledger /\ row' = row /\ row.there
      BY <2>1, <2>3
    <3> QED BY <2>1, <3>1, <3>2, <3>3
  <2>5. reply \in [Tasks -> [Orders -> Reply]] /\ Pending \in Reply /\ Pending.view.fills = {}
        /\ inbox \in SUBSET Request /\ AnswersTrue
    BY AbsentLemma DEF IInv, TypeOK, VenueTypeOK, LedgerInv, Pending, Absent
  <2>6. reply' \in [Tasks -> [Orders -> Reply]] /\ AnswersTrue'
    BY <2>1, <2>3, <2>5 DEF AnswersTrue
  <2>7. inbox' \in SUBSET Request
    BY <2>1, <2>3, <2>5 DEF Request, m
  <2> QED BY <2>2, <2>3, <2>4, <2>6, <2>7, LocalStep
<1>4. CASE Cancelled(w)
  <2> DEFINE x == TryTransition(t.ord, "CANCELLED")
  <2>1. "CANCELLED" \in OrderStatuses
    BY DEF OrderStatuses, TerminalStatuses
  <2>2. x \in Object /\ x.fills \subseteq ledger /\ x.filled \subseteq ledger
    BY <2>1, Transitioned
  <2>3. Goes(w, Saving([t EXCEPT !.ord = x], "idle")) /\ t.pc = "cancelling"
        /\ HangsUp(w) /\ UNCHANGED <<row, ledger, sent>>
    BY <1>4 DEF Cancelled, Hears
  <2> HIDE DEF x
  <2> QED BY <2>2, <2>3, SavesPreserve DEF MarksAtMost
<1>5. CASE NotCancelled(w)
  BY <1>5, EndsPreserve DEF NotCancelled, Hears, MarksAtMost
<1>6. CASE CancelUnknown(w)
  BY <1>6, EndsPreserve DEF CancelUnknown, MarksAtMost, ReconStates
<1> QED BY <1>1, <1>2, <1>3, <1>4, <1>5, <1>6 DEF CancelStep

(* A pass that takes a view of the venue's. *)
LEMMA AdoptingPreserves ==
  ASSUME IInv, NEW w \in Tasks, task[w].pc \in {"ask", "query"},
         Goes(w, Adopting(task[w], venue[Id])), UNCHANGED <<venueVars, row, ledger, sent>>
  PROVE  IInv'
<1> DEFINE t   == task[w]
           v   == venue[Id]
           rec == [t EXCEPT !.pc = "filling", !.view = v, !.todo = v.fills]
<1>1. /\ t \in Task /\ v \in VenueOrder /\ row \in Row /\ row.there
      /\ row.filled \subseteq ledger /\ Sound(t, ledger, v.fills) /\ EndsAfterFilling(t)
  BY Known
<1>2. v.fills \in SUBSET Trades
  BY <1>1 DEF VenueOrder
<1>3. Goes(w, rec)
  BY DEF Adopting
<1> HIDE DEF v
<1>4. /\ rec \in Task /\ rec.pc = "filling" /\ rec.next = t.next /\ rec.ord = t.ord
      /\ rec.todo = v.fills
  BY <1>1, <1>2 DEF Task, Places
<1> HIDE DEF rec
<1>5. ~MaySend(rec) /\ EndsAfterFilling(rec) /\ Sound(rec, ledger, venue[Id].fills)
  BY <1>1, <1>4 DEF MaySend, EndsAfterFilling, Sound, v
<1> QED BY <1>1, <1>3, <1>4, <1>5, QuietStep

LEMMA PassPreserves ==
  ASSUME IInv, NEW w \in Tasks, PassStep(w)
  PROVE  IInv'
<1> DEFINE t == task[w]
<1>1. CASE PassLists(w)
  BY <1>1, Begins DEF PassLists
<1>2. CASE PassAsks(w)
  <2>1. /\ t.pc = "ask" /\ UNCHANGED <<venueVars, row, ledger, sent>>
        /\ Goes(w, Adopting(t, venue[Id])) \/ Goes(w, [t EXCEPT !.pc = "query"])
    BY <1>2 DEF PassAsks
  <2>2. CASE Goes(w, Adopting(t, venue[Id]))
    BY <2>1, <2>2, AdoptingPreserves
  <2>3. CASE Goes(w, [t EXCEPT !.pc = "query"])
    BY <2>1, <2>3, MovesOn
  <2> QED BY <2>1, <2>2, <2>3
<1>3. CASE PassQueries(w)
  <2> DEFINE x == TryTransition(t.ord, "FAILED")
  <2>1. "FAILED" \in OrderStatuses
    BY DEF OrderStatuses, TerminalStatuses
  <2>2. x \in Object /\ x.fills \subseteq ledger /\ x.filled \subseteq ledger
    BY <2>1, Transitioned
  <2>3. /\ t.pc = "query" /\ UNCHANGED <<venueVars, row, ledger, sent>>
        /\ \/ Goes(w, Saving([t EXCEPT !.ord = x], "idle"))
           \/ Goes(w, Adopting(t, venue[Id]))
    BY <1>3 DEF PassQueries
  <2> HIDE DEF x
  <2>4. CASE Goes(w, Saving([t EXCEPT !.ord = x], "idle"))
    BY <2>2, <2>3, <2>4, SavesPreserve DEF MarksAtMost
  <2>5. CASE Goes(w, Adopting(t, venue[Id]))
    BY <2>3, <2>5, AdoptingPreserves
  <2> QED BY <2>3, <2>4, <2>5
<1>4. CASE Adopts(w)
  <2> DEFINE x == TryTransition(t.ord, t.view.status)
  <2>1. t \in Task /\ t.ord \in Object /\ t.view \in VenueOrder
        /\ t.ord.fills \subseteq ledger /\ t.ord.filled \subseteq ledger
    BY Known DEF Task, Sound
  <2>2. x \in Object /\ x.fills \subseteq ledger /\ x.filled \subseteq ledger
    BY <2>1, ReachableLemma
  <2>3. /\ Goes(w, Saving([t EXCEPT !.ord = x], "idle")) /\ t.pc = "filling"
        /\ UNCHANGED <<venueVars, ledger, sent>> /\ MarksAtMost
    BY <1>4 DEF Adopts, MarksAtMost, ReconStates
  <2> HIDE DEF x
  <2> QED BY <2>2, <2>3, SavesPreserve
<1> QED BY <1>1, <1>2, <1>3, <1>4 DEF PassStep

-------------------------------------------------------------------------------
LEMMA Initially == Init => IInv
<1> SUFFICES ASSUME Init PROVE IInv
  OBVIOUS
<1>1. TypeOK
  BY AbsentLemma, IdleLemma DEF Init, VenueInit, TypeOK, VenueTypeOK
<1>2. SendingInv
  BY IdleLemma DEF Init, SendingInv, NoRow, EndsAfterFilling
<1>3. LedgerInv
  <2>1. Id \in Orders
    BY OneOrderAssumption
  <2>2. AnswersTrue
    BY <2>1 DEF Init, VenueInit, AnswersTrue, Closed, Absent
  <2>3. RowBehindLedger /\ \A w \in Tasks : Sound(task[w], ledger, venue[Id].fills)
    BY IdleLemma DEF Init, RowBehindLedger, Sound
  <2> QED BY <2>2, <2>3 DEF LedgerInv
<1> QED BY <1>1, <1>2, <1>3 DEF IInv

LEMMA Preserved == IInv /\ [Next]_vars => IInv'
<1> SUFFICES ASSUME IInv, [Next]_vars PROVE IInv'
  OBVIOUS
<1>1. CASE VenueNext /\ UNCHANGED <<row, ledger, sent, task>>
  BY <1>1, VenueStep
<1>2. ASSUME NEW w \in Tasks, Crashes(w) PROVE IInv'
  BY <1>2, EndsPreserve DEF Crashes, MarksAtMost
<1>3. CASE UNCHANGED vars
  BY <1>3 DEF vars, venueVars, IInv, TypeOK, VenueTypeOK, SendingInv, LedgerInv,
              RowBehindLedger, AnswersTrue
<1> QED
  BY <1>1, <1>2, <1>3, StorePreserves, SubmitPreserves, CancelPreserves, PassPreserves
     DEF Next

(* The rows, the ledger and the operations keep their types, and nothing is on its way
   before the row of the order is there (reserve_client_order_id precedes all). *)
THEOREM DurableTyped == Spec => []TypeOK
<1>1. IInv => TypeOK
  BY DEF IInv
<1> QED BY <1>1, Initially, Preserved, PTL DEF Spec

(* However many processes submit the intent, and wherever they die, it is transmitted
   at most once. *)
THEOREM SentOnce == Spec => []AtMostOnceSent
<1>1. IInv => AtMostOnceSent
  BY DEF IInv, SendingInv, AtMostOnceSent
<1> QED BY <1>1, Initially, Preserved, PTL DEF Spec

(* record_fill goes before save_order everywhere, so that the row counts no trade that
   the ledger lacks, nor the ledger one that the venue lacks. *)
THEOREM LedgerFirst == Spec => []RowBehindLedger
<1>1. IInv => RowBehindLedger
  BY DEF IInv, LedgerInv
<1> QED BY <1>1, Initially, Preserved, PTL DEF Spec

-------------------------------------------------------------------------------
InFlight == \E m \in inbox : m.kind = "PLACE"

(* The places from which an operation gets to clear the mark. *)
MayClear(rec) ==
  \/ rec.pc = "clear"
  \/ rec.pc \in {"filling", "save", "write"} /\ rec.next = "clear"

(* The placement is the only one, and the operation that made it is the one that
   hears of it: no older request of its process is on its way. *)
MessagesInv ==
  /\ InFlight => sent # 0
  /\ \A m, n \in inbox : m.kind = "PLACE" /\ n.kind = "PLACE" => m = n
  /\ \A w \in Tasks : MaySend(task[w]) \/ task[w].pc = "sent" =>
       \A m \in inbox : m.from = w => m.kind = "PLACE"
  /\ \A w \in Tasks : task[w].pc = "sent" \/ MayClear(task[w]) => sent # 0
  /\ \A w \in Tasks :
       task[w].pc = "sent" /\ reply[w][Id].kind \in {"ACCEPTED", "REJECTED", "REFUSED"} =>
         ~InFlight

(* The fate of the order is open: it may still be sent, or the venue may still get it. *)
Undecided == InFlight \/ \E w \in Tasks : MaySend(task[w])

(* Until then nobody has read a row without a mark, nor may clear it. *)
MarksInv ==
  Undecided =>
    /\ row.mark # "IN_SYNC"
    /\ \A w \in Tasks : /\ task[w].pc = "write" => task[w].mark # "IN_SYNC"
                        /\ ~MayClear(task[w])

(* A final status is the venue's. *)
Holds(st) == st \in {"FILLED", "CANCELLED", "EXPIRED"} => venue[Id].status = st

(* The row, every object, every view and every answer is true of the venue. *)
StatusInv ==
  /\ venue[Id].fills = Trades <=> venue[Id].status = "FILLED"
  /\ Holds(row.status)
  /\ \A w \in Tasks :
       /\ Holds(task[w].ord.status) /\ Holds(task[w].view.status)
       /\ reply[w][Id].kind = "ACCEPTED" => Holds(reply[w][Id].view.status)
       /\ reply[w][Id].kind = "CANCELLED" => venue[Id].status = "CANCELLED"

(* A pass clears no mark. *)
PassesGoBack == \A w \in Tasks : task[w].pc \in {"ask", "query"} => task[w].next = "idle"

TruthInv == MessagesInv /\ MarksInv /\ StatusInv /\ PassesGoBack

-------------------------------------------------------------------------------
(* An operation that neither sends nor hears of a placement. *)
LEMMA LocalTruth ==
  ASSUME IInv, TruthInv, NEW w \in Tasks, NEW rec \in Task, Goes(w, rec),
         HangsUp(w) \/ UNCHANGED venueVars, UNCHANGED sent,
         Holds(row'.status), Holds(rec.ord.status), Holds(rec.view.status),
         MaySend(rec) => MaySend(task[w]), rec.pc # "sent",
         MayClear(rec) => sent # 0 /\ ~InFlight,
         Undecided => row'.mark # "IN_SYNC",
         Undecided /\ rec.pc = "write" => rec.mark # "IN_SYNC",
         rec.pc \in {"ask", "query"} => rec.next = "idle"
  PROVE  TruthInv'
<1>1. /\ task \in [Tasks -> Task] /\ reply \in [Tasks -> [Orders -> Reply]] /\ Id \in Orders
      /\ SendingInv
  BY OneOrderAssumption DEF IInv, TypeOK, VenueTypeOK
<1>2. task'[w] = rec /\ \A x \in Tasks \ {w} : task'[x] = task[x]
  BY <1>1 DEF Goes
<1>3. /\ venue' = venue /\ inbox' = inbox
      /\ \A x \in Tasks : \/ reply'[x][Id] = reply[x][Id]
                          \/ x = w /\ reply'[x][Id].kind = "CLOSED"
  BY <1>1 DEF HangsUp, venueVars, Closed
<1>4. InFlight' = InFlight /\ \A st : Holds(st)' = Holds(st)
  BY <1>3 DEF InFlight, Holds
<1>5. Undecided' => Undecided
  BY <1>2, <1>4 DEF Undecided
<1>6. MessagesInv'
  <2>1. \A x \in Tasks : MaySend(task'[x]) \/ task'[x].pc = "sent" =>
                           MaySend(task[x]) \/ task[x].pc = "sent"
    BY <1>2
  <2>2. \A x \in Tasks : task'[x].pc = "sent" \/ MayClear(task'[x]) => sent # 0
    BY <1>2 DEF TruthInv, MessagesInv
  <2>3. \A x \in Tasks :
          task'[x].pc = "sent" /\ reply'[x][Id].kind \in {"ACCEPTED", "REJECTED", "REFUSED"} =>
            ~InFlight
    BY <1>2, <1>3 DEF TruthInv, MessagesInv
  <2> QED BY <1>3, <1>4, <2>1, <2>2, <2>3 DEF TruthInv, MessagesInv
<1>7. MarksInv'
  <2>1. SUFFICES ASSUME Undecided
                 PROVE  /\ row'.mark # "IN_SYNC"
                        /\ \A x \in Tasks : /\ task'[x].pc = "write" => task'[x].mark # "IN_SYNC"
                                            /\ ~MayClear(task'[x])
    BY <1>5 DEF MarksInv
  <2>2. ~MayClear(rec)
    BY <1>1, <2>1 DEF Undecided, SendingInv
  <2> QED BY <1>2, <2>1, <2>2 DEF TruthInv, MarksInv
<1>8. StatusInv'
  <2>1. \A x \in Tasks : Holds(task'[x].ord.status) /\ Holds(task'[x].view.status)
    BY <1>2 DEF TruthInv, StatusInv
  <2>2. \A x \in Tasks :
          /\ reply'[x][Id].kind = "ACCEPTED" => Holds(reply'[x][Id].view.status)
          /\ reply'[x][Id].kind = "CANCELLED" => venue[Id].status = "CANCELLED"
    BY <1>3 DEF TruthInv, StatusInv
  <2>3. venue[Id].fills = Trades <=> venue[Id].status = "FILLED"
    BY DEF TruthInv, StatusInv
  <2> QED BY <1>3, <1>4, <2>1, <2>2, <2>3 DEF StatusInv, Holds
<1>9. PassesGoBack'
  BY <1>2 DEF TruthInv, PassesGoBack
<1> QED BY <1>6, <1>7, <1>8, <1>9 DEF TruthInv

LEMMA TruthParts ==
  ASSUME IInv, TruthInv, NEW w \in Tasks
  PROVE  /\ MessagesInv /\ MarksInv /\ StatusInv /\ PassesGoBack /\ SendingInv
         /\ Holds(row.status) /\ Holds(task[w].ord.status) /\ Holds(task[w].view.status)
BY DEF IInv, TruthInv, StatusInv

LEMMA NothingHolds ==
  /\ Holds("ABSENT") /\ Idle.pc = "idle" /\ Idle.next = "idle" /\ ~MayClear(Idle)
  /\ Holds(Idle.ord.status) /\ Holds(Idle.view.status) /\ Idle.view = Absent
  /\ Holds(NoRow.status)
BY DEF Holds, Idle, NewObject, Absent, NoRow, MayClear

(* An operation ends, and marks the row at most as a row is marked that is not cleared. *)
LEMMA EndsTruth ==
  ASSUME IInv, TruthInv, NEW w \in Tasks, Goes(w, Idle), UNCHANGED sent,
         HangsUp(w) \/ UNCHANGED venueVars,
         row'.status = row.status, Undecided => row'.mark # "IN_SYNC"
  PROVE  TruthInv'
<1>1. Holds(row'.status)
  BY TruthParts
<1> QED BY <1>1, IdleLemma, NothingHolds, LocalTruth

(* An object is on its way to the row. *)
LEMMA SavesTruth ==
  ASSUME IInv, TruthInv, NEW w \in Tasks, UNCHANGED sent,
         HangsUp(w) \/ UNCHANGED venueVars,
         NEW x \in Object, Holds(x.status),
         NEW next \in {"idle", "submit", "send", "clear", "cancel"},
         next \in {"submit", "send"} => MaySend(task[w]),
         next = "clear" => sent # 0 /\ ~InFlight,
         Goes(w, Saving([task[w] EXCEPT !.ord = x], next)),
         row'.status = row.status, Undecided => row'.mark # "IN_SYNC"
  PROVE  TruthInv'
<1> DEFINE rec == Saving([task[w] EXCEPT !.ord = x], next)
<1>1. task[w] \in Task
  BY Known
<1>2. /\ rec \in Task /\ rec.ord = x /\ rec.pc = "save" /\ rec.next = next
      /\ MaySend(rec) <=> next \in {"submit", "send"}
  BY <1>1, SavingLemma
<1>3. rec.view = task[w].view
  BY <1>1 DEF Saving, Task
<1> HIDE DEF rec
<1>4. Goes(w, rec)
  BY DEF rec
<1>5. Holds(row'.status) /\ Holds(rec.view.status)
  BY <1>3, TruthParts
<1>6. MayClear(rec) => sent # 0 /\ ~InFlight
  BY <1>2 DEF MayClear
<1> QED BY <1>2, <1>4, <1>5, <1>6, LocalTruth

LEMMA RowMarked ==
  ASSUME row \in Row, NEW mark \in ReconStates
  PROVE  [row EXCEPT !.mark = mark].status = row.status /\ [row EXCEPT !.mark = mark].mark = mark
BY DEF Row

(* A status that is reached is the old one or the one aimed at. *)
LEMMA TransitionHolds ==
  ASSUME NEW x \in Object, NEW target, Holds(x.status), Holds(target)
  PROVE  Holds(TryTransition(x, target).status)
<1>1. CASE IsLegalTransition(x.status, target)
  BY <1>1 DEF TryTransition, Object
<1>2. CASE ~IsLegalTransition(x.status, target)
  BY <1>2 DEF TryTransition
<1> QED BY <1>1, <1>2

(* A trade of the venue that is applied fills the order only if the venue's is. *)
LEMMA AppliedHolds ==
  ASSUME NEW x \in Object, NEW t \in Trades, Holds(x.status),
         x.fills \cup {t} \subseteq venue[Id].fills, venue[Id] \in VenueOrder,
         venue[Id].fills = Trades <=> venue[Id].status = "FILLED"
  PROVE  Holds(Applied(x, t).status)
<1>1. CASE t \in x.fills
  BY <1>1 DEF Applied
<1>2. CASE t \notin x.fills
  <2> DEFINE all == x.fills \cup {t}
             y == [x EXCEPT !.fills = all]
             target == IF all = Trades THEN "FILLED" ELSE "PARTIALLY_FILLED"
  <2>1. y \in Object /\ y.status = x.status
    BY DEF Object
  <2>2. Holds(target)
    BY DEF Holds, VenueOrder
  <2>3. ApplyFill(x, t) = TryTransition(y, target)
    BY <1>2 DEF ApplyFill
  <2>4. target \in OrderStatuses
    BY DEF OrderStatuses, OpenStatuses, TerminalStatuses
  <2> HIDE DEF y, target, all
  <2>5. ApplyFill(x, t) \in Object /\ Holds(ApplyFill(x, t).status)
    BY <2>1, <2>2, <2>3, <2>4, TransitionHolds, TransitionLemma
  <2>6. Applied(x, t).status = ApplyFill(x, t).status
    BY <1>2, <2>5 DEF Applied, Object
  <2> QED BY <2>5, <2>6
<1> QED BY <1>1, <1>2

-------------------------------------------------------------------------------
LEMMA StoreTruth ==
  ASSUME IInv, TruthInv, NEW w \in Tasks, StoreStep(w)
  PROVE  TruthInv'
<1> DEFINE t == task[w]
<1>1. /\ t \in Task /\ t.ord \in Object /\ row \in Row /\ venue[Id] \in VenueOrder
      /\ Sound(t, ledger, venue[Id].fills) /\ ledger \subseteq venue[Id].fills
      /\ MessagesInv /\ MarksInv /\ StatusInv /\ PassesGoBack /\ SendingInv
      /\ Holds(row.status) /\ Holds(t.ord.status) /\ Holds(t.view.status)
      /\ EndsAfterFilling(t)
  BY Known, TruthParts
<1>2. CASE ReadsMark(w)
  <2> DEFINE rec == [t EXCEPT !.pc = "write", !.mark = row.mark]
  <2>1. /\ rec \in Task /\ rec.pc = "write" /\ rec.next = t.next /\ rec.ord = t.ord
        /\ rec.view = t.view /\ rec.mark = row.mark
    BY <1>1 DEF Task, Places, Row
  <2>2. /\ Goes(w, rec) /\ t.pc \in {"save", "filling"}
        /\ UNCHANGED <<venueVars, row, ledger, sent>>
    BY <1>2 DEF ReadsMark
  <2> HIDE DEF rec
  <2>3. MaySend(rec) => MaySend(t)
    BY <1>1, <2>1, <2>2 DEF MaySend, EndsAfterFilling
  <2>4. MayClear(rec) => MayClear(t)
    BY <2>1, <2>2 DEF MayClear
  <2>5. MayClear(t) => sent # 0 /\ ~InFlight
    BY <1>1 DEF MessagesInv, MarksInv, Undecided
  <2>6. Undecided => row.mark # "IN_SYNC"
    BY <1>1 DEF MarksInv
  <2> QED BY <1>1, <2>1, <2>2, <2>3, <2>4, <2>5, <2>6, LocalTruth
<1>3. CASE Writes(w)
  <2> DEFINE rec == IF t.next = "idle" THEN Idle ELSE [t EXCEPT !.pc = t.next]
             new == [there |-> TRUE, status |-> t.ord.status, filled |-> t.ord.filled,
                     mark |-> t.mark]
  <2>1. /\ row' = new /\ Goes(w, rec) /\ t.pc = "write" /\ UNCHANGED <<venueVars, ledger, sent>>
    BY <1>3 DEF Writes
  <2>2. /\ rec \in Task
        /\ rec = Idle \/ /\ rec.pc = t.next /\ rec.ord = t.ord /\ rec.view = t.view
                         /\ rec.next = t.next /\ t.next # "idle"
    <3>1. t.next \in {"idle", "submit", "send", "clear", "cancel"}
      BY <1>1 DEF Task
    <3>2. [t EXCEPT !.pc = t.next] \in Task
      BY <1>1, <3>1 DEF Task, Places
    <3> QED BY <1>1, <3>2, IdleLemma DEF Task
  <2>3. new.status = t.ord.status /\ new.mark = t.mark
    OBVIOUS
  <2> HIDE DEF rec, new
  <2>4. t.next \in {"idle", "submit", "send", "clear", "cancel"}
    BY <1>1 DEF Task
  <2>5. rec.pc \in {"idle", "submit", "send", "clear", "cancel"}
        /\ Holds(rec.ord.status) /\ Holds(rec.view.status)
    BY <1>1, <2>2, <2>4, NothingHolds
  <2>6. MaySend(rec) => MaySend(t)
    BY <2>1, <2>2, <2>5, IdleLemma DEF MaySend
  <2>7. MayClear(rec) => MayClear(t)
    BY <2>1, <2>2, <2>5, NothingHolds DEF MayClear
  <2>8. MayClear(t) => sent # 0 /\ ~InFlight
    BY <1>1 DEF MessagesInv, MarksInv, Undecided
  <2>9. Undecided => row'.mark # "IN_SYNC"
    BY <1>1, <2>1, <2>3 DEF MarksInv
  <2> QED BY <1>1, <2>1, <2>2, <2>3, <2>5, <2>6, <2>7, <2>8, <2>9, LocalTruth
<1>4. CASE RecordsFill(w)
  <2>1. PICK f \in t.todo :
          Goes(w, [t EXCEPT !.ord = Applied(@, f), !.todo = t.todo \ {f}])
    BY <1>4 DEF RecordsFill
  <2> DEFINE x   == Applied(t.ord, f)
             rec == [t EXCEPT !.ord = x, !.todo = t.todo \ {f}]
  <2>2. f \in Trades /\ f \in venue[Id].fills
    BY <1>1 DEF Sound, VenueOrder
  <2>3. x \in Object /\ Holds(x.status)
    <3>1. t.ord.fills \cup {f} \subseteq venue[Id].fills
      BY <1>1, <2>2 DEF Sound
    <3> QED BY <1>1, <2>2, <3>1, AppliedLemma, AppliedHolds DEF StatusInv
  <2>4. /\ Goes(w, rec) /\ t.pc = "filling" /\ UNCHANGED <<venueVars, row, sent>>
    BY <1>1, <1>4, <2>1 DEF RecordsFill, Task
  <2> HIDE DEF x
  <2>5. /\ rec \in Task /\ rec.pc = "filling" /\ rec.next = t.next /\ rec.ord = x
        /\ rec.view = t.view
    BY <1>1, <2>3, <2>4 DEF Task
  <2> HIDE DEF rec
  <2>6. ~MaySend(rec) /\ (MayClear(rec) => MayClear(t))
    BY <2>4, <2>5 DEF MaySend, MayClear
  <2>7. MayClear(t) => sent # 0 /\ ~InFlight
    BY <1>1 DEF MessagesInv, MarksInv, Undecided
  <2>8. Undecided => row.mark # "IN_SYNC"
    BY <1>1 DEF MarksInv
  <2> QED BY <1>1, <2>3, <2>4, <2>5, <2>6, <2>7, <2>8, LocalTruth
<1> QED BY <1>2, <1>3, <1>4 DEF StoreStep

-------------------------------------------------------------------------------
(* The row is made, with its mark; nothing is on its way, and nobody else at work. *)
LEMMA ReservesTruth ==
  ASSUME IInv, TruthInv, NEW w \in Tasks, Reserves(w)
  PROVE  TruthInv'
<1> DEFINE rec == Saving([Idle EXCEPT !.op = "submit"], "submit")
           new == [NoRow EXCEPT !.there = TRUE, !.mark = "UNKNOWN"]
<1>1. /\ rec.pc = "save" /\ rec.next = "submit" /\ Holds(rec.ord.status)
      /\ Holds(rec.view.status)
  BY DEF Saving, Idle, NewObject, Absent, Holds
<1>2. new.status = "PENDING" /\ new.mark = "UNKNOWN"
  BY DEF NoRow
<1>3. /\ row' = new /\ Goes(w, rec) /\ UNCHANGED <<venue, inbox, reply, sent>>
      /\ ~row.there
  BY DEF Reserves, venueVars
<1> HIDE DEF rec, new
<1>4. task'[w] = rec /\ \A x \in Tasks \ {w} : task'[x] = task[x]
  BY <1>3 DEF IInv, TypeOK, Goes
<1>5. inbox = {} /\ \A x \in Tasks : task[x].pc = "idle"
  BY <1>3 DEF IInv, TypeOK, SendingInv
<1>6. \A x \in Tasks : task'[x].pc \in {"idle", "save"} /\ ~MayClear(task'[x])
  BY <1>1, <1>4, <1>5 DEF MayClear
<1>7. ~InFlight' /\ \A st : Holds(st)' = Holds(st)
  BY <1>3, <1>5 DEF InFlight, Holds
<1>8. MessagesInv'
  BY <1>3, <1>5, <1>6, <1>7 DEF MessagesInv
<1>9. MarksInv'
  BY <1>2, <1>3, <1>6 DEF MarksInv
<1>10. StatusInv'
  <2>1. \A x \in Tasks : Holds(task'[x].ord.status) /\ Holds(task'[x].view.status)
    BY <1>1, <1>4 DEF TruthInv, StatusInv
  <2>2. Holds(row'.status)
    BY <1>2, <1>3 DEF Holds
  <2> QED BY <1>3, <1>7, <2>1, <2>2 DEF TruthInv, StatusInv, Holds
<1>11. PassesGoBack'
  BY <1>6 DEF PassesGoBack
<1> QED BY <1>8, <1>9, <1>10, <1>11 DEF TruthInv

(* The placement goes out, the only one, and the row is marked with it. *)
LEMMA TransmitTruth ==
  ASSUME IInv, TruthInv, NEW w \in Tasks, Transmits(w)
  PROVE  TruthInv'
<1> DEFINE rec == [task[w] EXCEPT !.pc = "sent"]
           new == [row EXCEPT !.mark = "UNKNOWN"]
           p   == [kind |-> "PLACE", order |-> Id, from |-> w]
<1>1. /\ task[w] \in Task /\ row \in Row /\ Id \in Orders /\ SendingInv
      /\ MessagesInv /\ MarksInv /\ StatusInv /\ PassesGoBack
      /\ reply \in [Tasks -> [Orders -> Reply]] /\ task \in [Tasks -> Task]
      /\ sent \in Nat
  BY Known, TruthParts DEF IInv, TypeOK, VenueTypeOK
<1>2. new.status = row.status /\ new.mark = "UNKNOWN"
  BY <1>1, RowMarked DEF ReconStates
<1>3. rec.pc = "sent" /\ rec.ord = task[w].ord /\ rec.view = task[w].view
  BY <1>1 DEF Task
<1>4. /\ row' = new /\ Goes(w, rec) /\ sent' = sent + 1 /\ venue' = venue
      /\ inbox' = inbox \cup {p} /\ reply' = [reply EXCEPT ![w][Id] = Pending]
      /\ task[w].pc = "send"
  BY DEF Transmits
<1>5. p.kind = "PLACE" /\ p.from = w
  OBVIOUS
<1> HIDE DEF rec, new, p
<1>6. task'[w] = rec /\ \A x \in Tasks \ {w} : task'[x] = task[x]
  BY <1>1, <1>4 DEF Goes
<1>7. MaySend(task[w]) /\ sent = 0
  BY <1>1, <1>4 DEF SendingInv, MaySend
<1>8. \A x \in Tasks \ {w} : /\ ~MaySend(task[x]) /\ task[x].pc # "sent"
                             /\ ~MayClear(task[x])
  BY <1>1, <1>7 DEF SendingInv, MessagesInv
<1>9. ~MaySend(rec) /\ ~MayClear(rec)
  BY <1>3 DEF MaySend, MayClear
<1>10. ~InFlight /\ Undecided
  BY <1>1, <1>7 DEF MessagesInv, Undecided
<1>11. /\ reply'[w][Id].kind = "PENDING"
       /\ \A x \in Tasks \ {w} : reply'[x] = reply[x]
  BY <1>1, <1>4 DEF Pending
<1>12. MessagesInv'
  <2>1. InFlight' => sent' # 0
    BY <1>1, <1>4
  <2>2. \A m, n \in inbox' : m.kind = "PLACE" /\ n.kind = "PLACE" => m = n
    BY <1>4, <1>10 DEF InFlight
  <2>3. \A x \in Tasks : MaySend(task'[x]) \/ task'[x].pc = "sent" =>
          \A m \in inbox' : m.from = x => m.kind = "PLACE"
    BY <1>1, <1>4, <1>5, <1>6, <1>7, <1>8 DEF MessagesInv
  <2>4. \A x \in Tasks : task'[x].pc = "sent" \/ MayClear(task'[x]) => sent' # 0
    BY <1>1, <1>4
  <2>5. \A x \in Tasks :
          task'[x].pc = "sent" /\ reply'[x][Id].kind \in {"ACCEPTED", "REJECTED", "REFUSED"} =>
            ~InFlight'
    BY <1>6, <1>8, <1>11
  <2> QED BY <2>1, <2>2, <2>3, <2>4, <2>5 DEF MessagesInv
<1>13. MarksInv'
  <2>1. \A x \in Tasks : ~MayClear(task'[x])
    BY <1>6, <1>8, <1>9
  <2>2. \A x \in Tasks : task'[x].pc = "write" => task'[x].mark # "IN_SYNC"
    BY <1>1, <1>3, <1>6, <1>10 DEF MarksInv
  <2> QED BY <1>2, <1>4, <2>1, <2>2 DEF MarksInv
<1>14. StatusInv'
  <2>1. \A x \in Tasks : Holds(task'[x].ord.status) /\ Holds(task'[x].view.status)
    BY <1>1, <1>3, <1>6 DEF StatusInv
  <2>2. Holds(row'.status)
    BY <1>1, <1>2, <1>4 DEF StatusInv
  <2>3. \A x \in Tasks :
          /\ reply'[x][Id].kind = "ACCEPTED" => Holds(reply'[x][Id].view.status)
          /\ reply'[x][Id].kind = "CANCELLED" => venue[Id].status = "CANCELLED"
    BY <1>1, <1>11 DEF StatusInv
  <2> QED BY <1>1, <1>4, <2>1, <2>2, <2>3 DEF StatusInv, Holds
<1>15. PassesGoBack'
  BY <1>1, <1>3, <1>6 DEF PassesGoBack
<1> QED BY <1>12, <1>13, <1>14, <1>15 DEF TruthInv

-------------------------------------------------------------------------------
LEMMA SubmitTruth ==
  ASSUME IInv, TruthInv, NEW w \in Tasks, SubmitStep(w)
  PROVE  TruthInv'
<1> DEFINE t == task[w]
<1>1. /\ t \in Task /\ t.ord \in Object /\ row \in Row
      /\ reply[w][Id].view \in VenueOrder
      /\ MessagesInv /\ MarksInv /\ StatusInv
      /\ Holds(row.status) /\ Holds(t.ord.status) /\ Holds(t.view.status)
  BY Known, TruthParts
<1>2. Undecided => row.mark # "IN_SYNC"
  BY <1>1 DEF MarksInv
<1>3. CASE Reserves(w)
  BY <1>3, ReservesTruth
<1>4. CASE Transmits(w)
  BY <1>4, TransmitTruth
<1>5. CASE Submitted(w)
  <2> DEFINE x == TryTransition(t.ord, "SUBMITTED")
  <2>1. Holds("SUBMITTED") /\ "SUBMITTED" \in OrderStatuses
    BY DEF Holds, OrderStatuses, OpenStatuses
  <2>2. x \in Object /\ Holds(x.status)
    BY <1>1, <2>1, TransitionLemma, TransitionHolds
  <2>3. Goes(w, Saving([t EXCEPT !.ord = x], "send")) /\ t.pc = "submit"
        /\ UNCHANGED <<venueVars, row, ledger, sent>>
    BY <1>5 DEF Submitted
  <2> HIDE DEF x
  <2>4. MaySend(t)
    BY <2>3 DEF MaySend
  <2> QED BY <1>2, <2>2, <2>3, <2>4, SavesTruth
<1>6. CASE Accepted(w)
  <2> DEFINE v   == reply[w][Id].view
             x   == TryTransition(t.ord, v.status)
             rec == [t EXCEPT !.pc = "filling", !.next = "clear", !.todo = v.fills, !.ord = x]
  <2>1. /\ Goes(w, rec) /\ t.pc = "sent" /\ HangsUp(w) /\ UNCHANGED <<row, ledger, sent>>
        /\ reply[w][Id].kind = "ACCEPTED"
    BY <1>6 DEF Accepted, Hears
  <2>2. Holds(v.status)
    BY <1>1, <2>1 DEF StatusInv
  <2>3. x \in Object /\ Holds(x.status)
    BY <1>1, <2>2, ReachableLemma, TransitionHolds
  <2>4. v.fills \in SUBSET Trades
    BY <1>1 DEF VenueOrder
  <2>5. sent # 0 /\ ~InFlight
    BY <1>1, <2>1 DEF MessagesInv
  <2> HIDE DEF x, v
  <2>6. /\ rec \in Task /\ rec.pc = "filling" /\ rec.ord = x /\ rec.view = t.view
    BY <1>1, <2>3, <2>4 DEF Task, Places
  <2> HIDE DEF rec
  <2>7. ~MaySend(rec)
    BY <2>6 DEF MaySend
  <2> QED BY <1>1, <1>2, <2>1, <2>3, <2>5, <2>6, <2>7, LocalTruth
<1>7. CASE NotPlaced(w)
  <2> DEFINE target == IF reply[w][Id].kind = "REJECTED" THEN "REJECTED" ELSE "FAILED"
             x == TryTransition(t.ord, target)
  <2>1. Holds(target) /\ target \in OrderStatuses
    BY DEF Holds, OrderStatuses, TerminalStatuses
  <2> HIDE DEF target
  <2>2. x \in Object /\ Holds(x.status)
    BY <1>1, <2>1, TransitionLemma, TransitionHolds
  <2>3. /\ Goes(w, Saving([t EXCEPT !.ord = x], "clear")) /\ t.pc = "sent"
        /\ HangsUp(w) /\ UNCHANGED <<row, ledger, sent>>
        /\ reply[w][Id].kind \in {"REJECTED", "REFUSED"}
    BY <1>7 DEF NotPlaced, Hears, target
  <2>4. sent # 0 /\ ~InFlight
    BY <1>1, <2>3 DEF MessagesInv
  <2> HIDE DEF x
  <2> QED BY <1>2, <2>2, <2>3, <2>4, SavesTruth
<1>8. CASE FateUnknown(w)
  <2>1. t = [t EXCEPT !.ord = t.ord]
    BY <1>1 DEF Task
  <2>2. Goes(w, Saving([t EXCEPT !.ord = t.ord], "idle")) /\ HangsUp(w)
        /\ UNCHANGED <<ledger, sent>> /\ row' = [row EXCEPT !.mark = "UNKNOWN"]
    BY <1>8, <2>1 DEF FateUnknown
  <2>3. row'.status = row.status /\ row'.mark # "IN_SYNC"
    BY <1>1, <2>2, RowMarked DEF ReconStates
  <2> QED BY <1>1, <2>2, <2>3, SavesTruth
<1>9. CASE Clears(w)
  <2>1. t.pc = "clear" /\ Goes(w, Idle) /\ UNCHANGED <<venueVars, ledger, sent>>
        /\ row' = [row EXCEPT !.mark = "IN_SYNC"]
    BY <1>9 DEF Clears
  <2>2. ~Undecided
    BY <1>1, <2>1 DEF MarksInv, MayClear
  <2>3. row'.status = row.status
    BY <1>1, <2>1, RowMarked DEF ReconStates
  <2> QED BY <2>1, <2>2, <2>3, EndsTruth
<1> QED BY <1>3, <1>4, <1>5, <1>6, <1>7, <1>8, <1>9 DEF SubmitStep

-------------------------------------------------------------------------------
(* The request of a cancel comes from an operation that places nothing. *)
LEMMA CancelSent ==
  ASSUME IInv, TruthInv, NEW w \in Tasks, CancelTransmits(w)
  PROVE  TruthInv'
<1> DEFINE rec == [task[w] EXCEPT !.pc = "cancelling"]
           c   == [kind |-> "CANCEL", order |-> Id, from |-> w]
<1>1. /\ task[w] \in Task /\ Id \in Orders /\ task \in [Tasks -> Task]
      /\ MessagesInv /\ MarksInv /\ StatusInv /\ PassesGoBack
      /\ reply \in [Tasks -> [Orders -> Reply]]
  BY Known, TruthParts DEF IInv, TypeOK, VenueTypeOK
<1>2. rec.pc = "cancelling" /\ rec.ord = task[w].ord /\ rec.view = task[w].view
  BY <1>1 DEF Task
<1>3. /\ Goes(w, rec) /\ UNCHANGED <<venue, row, ledger, sent>>
      /\ inbox' = inbox \cup {c} /\ reply' = [reply EXCEPT ![w][Id] = Pending]
  BY DEF CancelTransmits
<1>4. c.kind = "CANCEL" /\ c.from = w
  OBVIOUS
<1> HIDE DEF rec, c
<1>5. task'[w] = rec /\ \A x \in Tasks \ {w} : task'[x] = task[x]
  BY <1>1, <1>3 DEF Goes
<1>6. ~MaySend(rec) /\ ~MayClear(rec)
  BY <1>2 DEF MaySend, MayClear
<1>7. InFlight' <=> InFlight
  BY <1>3, <1>4 DEF InFlight
<1>8. /\ reply'[w][Id].kind = "PENDING"
      /\ \A x \in Tasks \ {w} : reply'[x] = reply[x]
  BY <1>1, <1>3 DEF Pending
<1>9. MessagesInv'
  <2>1. \A x \in Tasks : MaySend(task'[x]) \/ task'[x].pc = "sent" =>
          /\ x # w
          /\ MaySend(task[x]) \/ task[x].pc = "sent"
    BY <1>2, <1>5, <1>6
  <2>2. \A x \in Tasks : MaySend(task'[x]) \/ task'[x].pc = "sent" =>
          \A m \in inbox' : m.from = x => m.kind = "PLACE"
    BY <1>1, <1>3, <1>4, <2>1 DEF MessagesInv
  <2>3. \A m, n \in inbox' : m.kind = "PLACE" /\ n.kind = "PLACE" => m = n
    BY <1>1, <1>3, <1>4 DEF MessagesInv
  <2>4. \A x \in Tasks : task'[x].pc = "sent" \/ MayClear(task'[x]) => sent # 0
    BY <1>1, <1>2, <1>5, <1>6 DEF MessagesInv
  <2>5. \A x \in Tasks :
          task'[x].pc = "sent" /\ reply'[x][Id].kind \in {"ACCEPTED", "REJECTED", "REFUSED"} =>
            ~InFlight
    BY <1>1, <1>5, <1>8 DEF MessagesInv
  <2> QED BY <1>1, <1>3, <1>7, <2>2, <2>3, <2>4, <2>5 DEF MessagesInv
<1>10. Undecided' => Undecided
  BY <1>5, <1>6, <1>7 DEF Undecided
<1>11. MarksInv'
  <2>1. Undecided => \A x \in Tasks : ~MayClear(task'[x])
    BY <1>1, <1>5, <1>6 DEF MarksInv
  <2>2. Undecided => \A x \in Tasks : task'[x].pc = "write" => task'[x].mark # "IN_SYNC"
    BY <1>1, <1>2, <1>5 DEF MarksInv
  <2> QED BY <1>1, <1>3, <1>10, <2>1, <2>2 DEF MarksInv
<1>12. StatusInv'
  <2>1. \A x \in Tasks : Holds(task'[x].ord.status) /\ Holds(task'[x].view.status)
    BY <1>1, <1>2, <1>5 DEF StatusInv
  <2>2. \A x \in Tasks :
          /\ reply'[x][Id].kind = "ACCEPTED" => Holds(reply'[x][Id].view.status)
          /\ reply'[x][Id].kind = "CANCELLED" => venue[Id].status = "CANCELLED"
    BY <1>1, <1>8 DEF StatusInv
  <2> QED BY <1>1, <1>3, <2>1, <2>2 DEF StatusInv, Holds
<1>13. PassesGoBack'
  BY <1>1, <1>2, <1>5 DEF PassesGoBack
<1> QED BY <1>9, <1>11, <1>12, <1>13 DEF TruthInv

(* An operation begins with the object of the row. *)
LEMMA BeginsTruth ==
  ASSUME IInv, TruthInv, NEW w \in Tasks, NEW place \in {"check", "ask"},
         NEW op \in {"cancel", "pass"}, UNCHANGED <<venueVars, row, ledger, sent>>,
         Goes(w, [Idle EXCEPT !.pc = place, !.op = op, !.ord = Loaded])
  PROVE  TruthInv'
<1> DEFINE rec == [Idle EXCEPT !.pc = place, !.op = op, !.ord = Loaded]
<1>1. row \in Row /\ ledger \in SUBSET Trades /\ Holds(row.status) /\ MarksInv
  BY Known, TruthParts
<1>2. Loaded \in Object /\ Loaded.status = row.status
  BY <1>1, Known DEF Loaded, Object, Row
<1>3. rec \in Task /\ rec.pc = place /\ rec.next = "idle" /\ rec.ord = Loaded
      /\ rec.view = Idle.view
  BY <1>2, IdleLemma DEF Task, Places
<1> HIDE DEF rec
<1>4. ~MaySend(rec) /\ ~MayClear(rec) /\ Holds(rec.ord.status) /\ Holds(rec.view.status)
  BY <1>1, <1>2, <1>3, NothingHolds DEF MaySend, MayClear
<1>5. Goes(w, rec)
  BY DEF rec
<1>6. Undecided => row.mark # "IN_SYNC"
  BY <1>1 DEF MarksInv
<1> QED BY <1>1, <1>3, <1>4, <1>5, <1>6, LocalTruth

(* The steps that only go to another place. *)
LEMMA MovesTruth ==
  ASSUME IInv, TruthInv, NEW w \in Tasks, UNCHANGED <<venueVars, row, ledger, sent>>,
         NEW place \in {"query", "cancel"}, place = "query" => task[w].pc = "ask",
         Goes(w, [task[w] EXCEPT !.pc = place])
  PROVE  TruthInv'
<1> DEFINE rec == [task[w] EXCEPT !.pc = place]
<1>1. /\ task[w] \in Task /\ Holds(row.status) /\ Holds(task[w].ord.status)
      /\ Holds(task[w].view.status) /\ MarksInv /\ PassesGoBack
  BY Known, TruthParts
<1>2. /\ rec \in Task /\ rec.pc = place /\ rec.next = task[w].next
      /\ rec.ord = task[w].ord /\ rec.view = task[w].view
  BY <1>1 DEF Task, Places
<1> HIDE DEF rec
<1>3. ~MaySend(rec) /\ ~MayClear(rec)
  BY <1>2 DEF MaySend, MayClear
<1>4. rec.pc \in {"ask", "query"} => rec.next = "idle"
  BY <1>1, <1>2 DEF PassesGoBack
<1>5. Goes(w, rec)
  BY DEF rec
<1>6. Undecided => row.mark # "IN_SYNC"
  BY <1>1 DEF MarksInv
<1> QED BY <1>1, <1>2, <1>3, <1>4, <1>5, <1>6, LocalTruth

LEMMA CancelTruth ==
  ASSUME IInv, TruthInv, NEW w \in Tasks, CancelStep(w)
  PROVE  TruthInv'
<1> DEFINE t == task[w]
<1>1. /\ t.ord \in Object /\ row \in Row /\ Holds(t.ord.status) /\ StatusInv
      /\ Undecided => row.mark # "IN_SYNC"
  BY Known, TruthParts DEF MarksInv
<1>2. CASE CancelLoads(w)
  BY <1>2, BeginsTruth DEF CancelLoads
<1>3. CASE CancelChecks(w)
  <2> DEFINE x == TryTransition(t.ord, "CANCEL_REQUESTED")
  <2>1. "CANCEL_REQUESTED" \in OrderStatuses /\ Holds("CANCEL_REQUESTED")
    BY DEF OrderStatuses, OpenStatuses, Holds
  <2>2. x \in Object /\ Holds(x.status)
    BY <1>1, <2>1, TransitionLemma, TransitionHolds
  <2>3. /\ UNCHANGED <<venueVars, row, ledger, sent>>
        /\ \/ Goes(w, Idle)
           \/ Goes(w, Saving([t EXCEPT !.ord = x], "cancel"))
           \/ Goes(w, [t EXCEPT !.pc = "cancel"])
    BY <1>3 DEF CancelChecks
  <2> HIDE DEF x
  <2>4. CASE Goes(w, Idle)
    BY <1>1, <2>3, <2>4, EndsTruth
  <2>5. CASE Goes(w, Saving([t EXCEPT !.ord = x], "cancel"))
    BY <1>1, <2>2, <2>3, <2>5, SavesTruth
  <2>6. CASE Goes(w, [t EXCEPT !.pc = "cancel"])
    BY <2>3, <2>6, MovesTruth
  <2> QED BY <2>3, <2>4, <2>5, <2>6
<1>4. CASE CancelTransmits(w)
  BY <1>4, CancelSent
<1>5. CASE Cancelled(w)
  <2> DEFINE x == TryTransition(t.ord, "CANCELLED")
  <2>1. /\ Goes(w, Saving([t EXCEPT !.ord = x], "idle"))
        /\ HangsUp(w) /\ UNCHANGED <<row, ledger, sent>>
        /\ reply[w][Id].kind = "CANCELLED"
    BY <1>5 DEF Cancelled, Hears
  <2>2. "CANCELLED" \in OrderStatuses /\ Holds("CANCELLED")
    BY <1>1, <2>1 DEF OrderStatuses, TerminalStatuses, Holds, StatusInv
  <2>3. x \in Object /\ Holds(x.status)
    BY <1>1, <2>2, TransitionLemma, TransitionHolds
  <2> HIDE DEF x
  <2> QED BY <1>1, <2>1, <2>3, SavesTruth
<1>6. CASE NotCancelled(w)
  BY <1>1, <1>6, EndsTruth DEF NotCancelled
<1>7. CASE CancelUnknown(w)
  <2>1. row' = [row EXCEPT !.mark = "UNKNOWN"] /\ Goes(w, Idle) /\ HangsUp(w)
        /\ UNCHANGED <<ledger, sent>>
    BY <1>7 DEF CancelUnknown
  <2>2. row'.status = row.status /\ row'.mark # "IN_SYNC"
    BY <1>1, <2>1, RowMarked DEF ReconStates
  <2> QED BY <2>1, <2>2, EndsTruth
<1> QED BY <1>2, <1>3, <1>4, <1>5, <1>6, <1>7 DEF CancelStep

-------------------------------------------------------------------------------
(* A pass takes a view, which is the venue's own at that moment. *)
LEMMA AdoptingTruth ==
  ASSUME IInv, TruthInv, NEW w \in Tasks, task[w].pc \in {"ask", "query"},
         Goes(w, Adopting(task[w], venue[Id])), UNCHANGED <<venueVars, row, ledger, sent>>
  PROVE  TruthInv'
<1> DEFINE t   == task[w]
           v   == venue[Id]
           rec == [t EXCEPT !.pc = "filling", !.view = v, !.todo = v.fills]
<1>1. /\ t \in Task /\ v \in VenueOrder /\ MarksInv /\ PassesGoBack
      /\ Holds(row.status) /\ Holds(t.ord.status)
  BY Known, TruthParts
<1>2. v.fills \in SUBSET Trades /\ Holds(v.status)
  BY <1>1 DEF VenueOrder, Holds
<1>3. Goes(w, rec)
  BY DEF Adopting
<1> HIDE DEF v
<1>4. /\ rec \in Task /\ rec.pc = "filling" /\ rec.next = t.next /\ rec.ord = t.ord
      /\ rec.view = v
  BY <1>1, <1>2 DEF Task, Places
<1> HIDE DEF rec
<1>5. t.next = "idle"
  BY <1>1 DEF PassesGoBack
<1>6. ~MaySend(rec) /\ ~MayClear(rec)
  BY <1>4, <1>5 DEF MaySend, MayClear
<1>7. Undecided => row.mark # "IN_SYNC"
  BY <1>1 DEF MarksInv
<1> QED BY <1>1, <1>2, <1>3, <1>4, <1>6, <1>7, LocalTruth

LEMMA PassTruth ==
  ASSUME IInv, TruthInv, NEW w \in Tasks, PassStep(w)
  PROVE  TruthInv'
<1> DEFINE t == task[w]
<1>1. /\ t \in Task /\ t.ord \in Object /\ row \in Row /\ Holds(t.ord.status)
      /\ Holds(t.view.status)
      /\ Undecided => row.mark # "IN_SYNC"
  BY Known, TruthParts DEF MarksInv
<1>2. CASE PassLists(w)
  BY <1>2, BeginsTruth DEF PassLists
<1>3. CASE PassAsks(w)
  <2>1. /\ t.pc = "ask" /\ UNCHANGED <<venueVars, row, ledger, sent>>
        /\ Goes(w, Adopting(t, venue[Id])) \/ Goes(w, [t EXCEPT !.pc = "query"])
    BY <1>3 DEF PassAsks
  <2>2. CASE Goes(w, Adopting(t, venue[Id]))
    BY <2>1, <2>2, AdoptingTruth
  <2>3. CASE Goes(w, [t EXCEPT !.pc = "query"])
    BY <2>1, <2>3, MovesTruth
  <2> QED BY <2>1, <2>2, <2>3
<1>4. CASE PassQueries(w)
  <2> DEFINE x == TryTransition(t.ord, "FAILED")
  <2>1. "FAILED" \in OrderStatuses /\ Holds("FAILED")
    BY DEF OrderStatuses, TerminalStatuses, Holds
  <2>2. x \in Object /\ Holds(x.status)
    BY <1>1, <2>1, TransitionLemma, TransitionHolds
  <2>3. /\ t.pc = "query" /\ UNCHANGED <<venueVars, row, ledger, sent>>
        /\ \/ Goes(w, Saving([t EXCEPT !.ord = x], "idle"))
           \/ Goes(w, Adopting(t, venue[Id]))
    BY <1>4 DEF PassQueries
  <2> HIDE DEF x
  <2>4. CASE Goes(w, Saving([t EXCEPT !.ord = x], "idle"))
    BY <1>1, <2>2, <2>3, <2>4, SavesTruth
  <2>5. CASE Goes(w, Adopting(t, venue[Id]))
    BY <2>3, <2>5, AdoptingTruth
  <2> QED BY <2>3, <2>4, <2>5
<1>5. CASE Adopts(w)
  <2> DEFINE x == TryTransition(t.ord, t.view.status)
  <2>1. t.view \in VenueOrder
    BY <1>1 DEF Task
  <2>2. x \in Object /\ Holds(x.status)
    BY <1>1, <2>1, ReachableLemma, TransitionHolds
  <2>3. /\ Goes(w, Saving([t EXCEPT !.ord = x], "idle"))
        /\ UNCHANGED <<venueVars, ledger, sent>>
        /\ row' = row \/ row' = [row EXCEPT !.mark = "DIVERGED"]
    BY <1>5 DEF Adopts
  <2>4. row'.status = row.status /\ (Undecided => row'.mark # "IN_SYNC")
    BY <1>1, <2>3, RowMarked DEF ReconStates
  <2> HIDE DEF x
  <2> QED BY <2>2, <2>3, <2>4, SavesTruth
<1> QED BY <1>2, <1>3, <1>4, <1>5 DEF PassStep

-------------------------------------------------------------------------------
(* A final status stays at the venue, and only a placement on its way, the only one,
   makes the order of the venue from nothing. *)
LEMMA VenueMoves ==
  ASSUME VenueTypeOK, VenueNext, venue[Id].fills = Trades <=> venue[Id].status = "FILLED"
  PROVE  /\ inbox' \subseteq inbox
         /\ venue'[Id].fills = Trades <=> venue'[Id].status = "FILLED"
         /\ venue[Id].status \in {"FILLED", "CANCELLED", "EXPIRED"} => venue'[Id] = venue[Id]
<1>1. /\ venue \in [Orders -> VenueOrder] /\ Id \in Orders /\ Trades # {}
      /\ \A o \in Orders : o = Id
      /\ \A m \in inbox : m.order = Id
  BY TradesAssumption, OneOrderAssumption DEF VenueTypeOK, Request
<1>2. inbox' \subseteq inbox
  BY DEF VenueNext, VenueAccepts, VenueRejects, VenueCancels, VenueLoses, VenueTrades,
         VenueExpires
<1>3. \A ts \in SUBSET Trades : /\ StatusOf(ts) \in {"ACKNOWLEDGED", "PARTIALLY_FILLED", "FILLED"}
                                /\ StatusOf(ts) = "FILLED" <=> ts = Trades
  BY <1>1 DEF StatusOf
<1>4. IsLive(venue[Id]) => /\ venue[Id].status \notin {"FILLED", "CANCELLED", "EXPIRED"}
                           /\ venue[Id].fills # Trades
  BY DEF IsLive, LiveStatuses
<1> DEFINE Goal == /\ venue'[Id].fills = Trades <=> venue'[Id].status = "FILLED"
                   /\ venue[Id].status \in {"FILLED", "CANCELLED", "EXPIRED"} =>
                        venue'[Id] = venue[Id]
<1>5. ASSUME NEW m \in inbox, VenueAccepts(m) PROVE Goal
  <2>1. venue[Id] = Absent
    BY <1>1, <1>5 DEF VenueAccepts
  <2>2. PICK ts \in SUBSET Trades :
          \E st \in {StatusOf(ts)} \cup (IF ts = Trades THEN {} ELSE {"EXPIRED"}) :
            venue' = [venue EXCEPT ![m.order] = [status |-> st, fills |-> ts]]
    BY <1>5 DEF VenueAccepts
  <2>3. PICK st \in {StatusOf(ts)} \cup (IF ts = Trades THEN {} ELSE {"EXPIRED"}) :
          venue' = [venue EXCEPT ![m.order] = [status |-> st, fills |-> ts]]
    BY <2>2
  <2>4. ts = Trades <=> st = "FILLED"
    BY <1>3, <2>3
  <2>5. venue'[Id].status = st /\ venue'[Id].fills = ts
    BY <1>1, <2>3
  <2> QED BY <2>1, <2>4, <2>5 DEF Absent
<1>6. ASSUME NEW m \in inbox, VenueCancels(m) PROVE Goal
  <2>1. CASE venue' = venue
    BY <2>1
  <2>2. CASE /\ IsLive(venue[Id])
             /\ venue' = [venue EXCEPT ![Id].status = "CANCELLED"]
    <3>1. venue'[Id].status = "CANCELLED" /\ venue'[Id].fills = venue[Id].fills
      BY <1>1, <2>2 DEF VenueOrder
    <3> QED BY <1>4, <2>2, <3>1
  <2> QED BY <1>1, <1>6, <2>1, <2>2 DEF VenueCancels
<1>7. ASSUME VenueTrades(Id) PROVE Goal
  <2>1. PICK t \in Trades \ venue[Id].fills :
          venue' = [venue EXCEPT ![Id] = [status |-> StatusOf(venue[Id].fills \cup {t}),
                                          fills |-> venue[Id].fills \cup {t}]]
    BY <1>7 DEF VenueTrades
  <2>2. IsLive(venue[Id]) /\ venue[Id].fills \cup {t} \in SUBSET Trades
    BY <1>1, <1>7 DEF VenueTrades, VenueOrder
  <2>3. /\ venue'[Id].status = StatusOf(venue[Id].fills \cup {t})
        /\ venue'[Id].fills = venue[Id].fills \cup {t}
    BY <1>1, <2>1
  <2> QED BY <1>3, <1>4, <2>2, <2>3
<1>8. ASSUME VenueExpires(Id) PROVE Goal
  <2>1. IsLive(venue[Id]) /\ venue'[Id].status = "EXPIRED" /\ venue'[Id].fills = venue[Id].fills
    BY <1>1, <1>8 DEF VenueExpires, VenueOrder
  <2> QED BY <1>4, <2>1
<1>9. ASSUME NEW m \in inbox, VenueRejects(m) \/ VenueLoses(m) PROVE Goal
  BY <1>9 DEF VenueRejects, VenueLoses
<1>10. Goal
  <2> HIDE DEF Goal
  <2> QED BY <1>1, <1>5, <1>6, <1>7, <1>8, <1>9 DEF VenueNext
<1> QED BY <1>2, <1>10

(* The same of the status after the step. *)
WillHold(st) == st \in {"FILLED", "CANCELLED", "EXPIRED"} => venue'[Id].status = st

(* What the venue answers is true of it, and the answer to a placement comes when the
   placement has arrived. *)
LEMMA VenueReplies ==
  ASSUME IInv, TruthInv, VenueNext, UNCHANGED <<row, ledger, sent, task>>,
         NEW w \in Tasks
  PROVE  /\ reply'[w][Id].kind = "ACCEPTED" => WillHold(reply'[w][Id].view.status)
         /\ reply'[w][Id].kind = "CANCELLED" => venue'[Id].status = "CANCELLED"
         /\ task[w].pc = "sent" /\ reply'[w][Id].kind \in {"ACCEPTED", "REJECTED", "REFUSED"} =>
              ~InFlight'
<1>1. /\ VenueTypeOK /\ Id \in Orders /\ MessagesInv /\ StatusInv
      /\ venue \in [Orders -> VenueOrder] /\ reply \in [Tasks -> [Orders -> Reply]]
      /\ \A m \in inbox : /\ m.order = Id /\ m.from \in Tasks
  BY TruthParts, OneOrderAssumption DEF IInv, TypeOK, VenueTypeOK, Request
<1>2. /\ inbox' \subseteq inbox
      /\ venue[Id].status \in {"FILLED", "CANCELLED", "EXPIRED"} => venue'[Id] = venue[Id]
  BY <1>1, VenueMoves DEF StatusInv
<1>3. InFlight' => InFlight
  BY <1>2 DEF InFlight
<1> DEFINE Fine(a) ==
      /\ a.kind = "ACCEPTED" => WillHold(a.view.status)
      /\ a.kind = "CANCELLED" => venue'[Id].status = "CANCELLED"
      /\ task[w].pc = "sent" /\ a.kind \in {"ACCEPTED", "REJECTED", "REFUSED"} => ~InFlight'
<1>4. Fine(reply[w][Id])
  BY <1>1, <1>2, <1>3 DEF StatusInv, MessagesInv, Holds, WillHold
<1>5. ASSUME NEW m \in inbox, NEW kind, NEW view, reply' = Answer(m, kind, view),
             m.from = w => Fine([kind |-> kind, view |-> view])
      PROVE  Fine(reply'[w][Id])
  <2>1. \/ reply'[w][Id] = reply[w][Id]
        \/ m.from = w /\ reply'[w][Id] = [kind |-> kind, view |-> view]
    BY <1>1, <1>5 DEF Answer
  <2> HIDE DEF Fine
  <2> QED BY <1>4, <1>5, <2>1
<1>6. ASSUME NEW m \in inbox, inbox' = inbox \ {m}, m.from = w, task[w].pc = "sent"
      PROVE  ~InFlight'
  BY <1>1, <1>6 DEF MessagesInv, InFlight
<1>7. ASSUME NEW m \in inbox, VenueAccepts(m) PROVE Fine(reply'[w][Id])
  <2>1. PICK v : /\ venue' = [venue EXCEPT ![m.order] = v]
                 /\ reply' = Answer(m, "ACCEPTED", v)
    BY <1>7 DEF VenueAccepts
  <2>2. venue'[Id] = v /\ inbox' = inbox \ {m}
    BY <1>1, <1>7, <2>1 DEF VenueAccepts
  <2>3. WillHold(v.status)
    BY <2>2 DEF WillHold
  <2>4. m.from = w => Fine([kind |-> "ACCEPTED", view |-> v])
    BY <1>6, <2>2, <2>3
  <2> HIDE DEF Fine
  <2> QED BY <1>5, <2>1, <2>4
<1>8. ASSUME NEW m \in inbox, VenueRejects(m) PROVE Fine(reply'[w][Id])
  <2>1. PICK k \in {"REJECTED", "REFUSED"} : reply' = Answer(m, k, Absent)
    BY <1>8 DEF VenueRejects
  <2>2. inbox' = inbox \ {m}
    BY <1>8 DEF VenueRejects
  <2>3. m.from = w => Fine([kind |-> k, view |-> Absent])
    BY <1>6, <2>2
  <2> HIDE DEF Fine
  <2> QED BY <1>5, <2>1, <2>3
<1>9. ASSUME NEW m \in inbox, VenueCancels(m) PROVE Fine(reply'[w][Id])
  <2>1. PICK k \in {"CANCELLED", "GONE", "REFUSED"} :
          /\ reply' = Answer(m, k, Absent)
          /\ k = "CANCELLED" => venue' = [venue EXCEPT ![m.order].status = "CANCELLED"]
    BY <1>9 DEF VenueCancels
  <2>2. k = "CANCELLED" => venue'[Id].status = "CANCELLED"
    BY <1>1, <2>1 DEF VenueOrder
  <2>3. inbox' = inbox \ {m}
    BY <1>9 DEF VenueCancels
  <2>4. m.from = w => Fine([kind |-> k, view |-> Absent])
    BY <1>6, <2>2, <2>3
  <2> HIDE DEF Fine
  <2> QED BY <1>5, <2>1, <2>4
<1>10. ASSUME reply' = reply PROVE Fine(reply'[w][Id])
  <2> HIDE DEF Fine
  <2> QED BY <1>4, <1>10
<1>11. Fine(reply'[w][Id])
  <2>1. \/ \E m \in inbox : VenueAccepts(m) \/ VenueRejects(m) \/ VenueCancels(m)
        \/ reply' = reply
    BY DEF VenueNext, VenueLoses, VenueTrades, VenueExpires
  <2> HIDE DEF Fine
  <2> QED BY <1>7, <1>8, <1>9, <1>10, <2>1
<1> QED BY <1>11

LEMMA VenueTruth ==
  ASSUME IInv, TruthInv, VenueNext, UNCHANGED <<row, ledger, sent, task>>
  PROVE  TruthInv'
<1>1. VenueTypeOK /\ MessagesInv /\ MarksInv /\ StatusInv /\ PassesGoBack
  BY DEF IInv, TypeOK, TruthInv
<1>2. /\ inbox' \subseteq inbox
      /\ venue'[Id].fills = Trades <=> venue'[Id].status = "FILLED"
      /\ venue[Id].status \in {"FILLED", "CANCELLED", "EXPIRED"} => venue'[Id] = venue[Id]
  BY <1>1, VenueMoves DEF StatusInv
<1>3. InFlight' => InFlight
  BY <1>2 DEF InFlight
<1>4. MessagesInv'
  <2>1. \A w \in Tasks :
          task[w].pc = "sent" /\ reply'[w][Id].kind \in {"ACCEPTED", "REJECTED", "REFUSED"} =>
            ~InFlight'
    BY VenueReplies
  <2> QED BY <1>1, <1>2, <1>3, <2>1 DEF MessagesInv
<1>5. MarksInv'
  BY <1>1, <1>3 DEF MarksInv, Undecided
<1>6. StatusInv'
  <2>1. \A st : Holds(st) => WillHold(st)
    BY <1>2 DEF Holds, WillHold
  <2>2. \A w \in Tasks : /\ reply'[w][Id].kind = "ACCEPTED" => WillHold(reply'[w][Id].view.status)
                         /\ reply'[w][Id].kind = "CANCELLED" => venue'[Id].status = "CANCELLED"
    BY VenueReplies
  <2>3. WillHold(row.status)
        /\ \A w \in Tasks : WillHold(task[w].ord.status) /\ WillHold(task[w].view.status)
    BY <1>1, <2>1 DEF StatusInv
  <2> QED BY <1>2, <2>2, <2>3 DEF StatusInv, Holds, WillHold
<1>7. PassesGoBack'
  BY <1>1 DEF PassesGoBack
<1> QED BY <1>4, <1>5, <1>6, <1>7 DEF TruthInv

-------------------------------------------------------------------------------
LEMMA TruthInit == Init => TruthInv
<1> SUFFICES ASSUME Init PROVE TruthInv
  OBVIOUS
<1>1. /\ venue[Id] = Absent /\ inbox = {} /\ row = NoRow
      /\ \A w \in Tasks : task[w] = Idle /\ reply[w][Id] = Closed
  BY OneOrderAssumption DEF Init, VenueInit
<1>2. \A w \in Tasks : /\ ~MaySend(task[w]) /\ ~MayClear(task[w])
                       /\ task[w].pc = "idle"
  BY <1>1, IdleLemma, NothingHolds
<1>3. ~InFlight /\ ~Undecided
  BY <1>1, <1>2 DEF InFlight, Undecided
<1>4. MessagesInv /\ MarksInv /\ PassesGoBack
  BY <1>1, <1>2, <1>3 DEF MessagesInv, MarksInv, PassesGoBack
<1>5. StatusInv
  BY <1>1, TradesAssumption, NothingHolds DEF StatusInv, Closed, Absent
<1> QED BY <1>4, <1>5 DEF TruthInv

LEMMA TruthStep == IInv /\ TruthInv /\ [Next]_vars => TruthInv'
<1> SUFFICES ASSUME IInv, TruthInv, [Next]_vars PROVE TruthInv'
  OBVIOUS
<1>1. CASE VenueNext /\ UNCHANGED <<row, ledger, sent, task>>
  BY <1>1, VenueTruth
<1>2. ASSUME NEW w \in Tasks, Crashes(w) PROVE TruthInv'
  <2>1. Undecided => row.mark # "IN_SYNC"
    BY TruthParts, <1>2 DEF MarksInv
  <2> QED BY <1>2, <2>1, EndsTruth DEF Crashes
<1>3. CASE UNCHANGED vars
  BY <1>3 DEF vars, venueVars, TruthInv, MessagesInv, MarksInv, StatusInv, PassesGoBack,
              Undecided, InFlight, Holds
<1> QED BY <1>1, <1>2, <1>3, StoreTruth, SubmitTruth, CancelTruth, PassTruth DEF Next

(* While the placement is on its way the row carries a mark: no process clears it or
   writes the row with an older one before the venue has answered, wherever the
   submitting process dies. *)
THEOREM MarkedOnItsWay == Spec => []InFlightIsMarked
<1>1. IInv /\ TruthInv => InFlightIsMarked
  BY DEF IInv, TypeOK, TruthInv, MarksInv, Undecided, InFlight, InFlightIsMarked
<1> QED BY <1>1, Initially, Preserved, TruthInit, TruthStep, PTL DEF Spec

(* A row that says filled, cancelled or expired says what the venue says, although every
   process writes the row from an object that it read or made up earlier. *)
THEOREM FinalRowIsTrue == Spec => []FinalIsVenueTruth
<1>1. TruthInv => FinalIsVenueTruth
  BY DEF TruthInv, StatusInv, Holds, FinalIsVenueTruth
<1> QED BY <1>1, Initially, Preserved, TruthInit, TruthStep, PTL DEF Spec

===============================================================================
