------------------------------ MODULE RiskProofs ------------------------------
(* Theorems about RiskReservations, for any submissions, any of them local, any
   buckets, ceilings and limits. *)
EXTENDS RiskReservations, FiniteSetTheorems, TLAPS

(* A submission that has not reached a script has nothing from it. *)
Fresh ==
  \A o \in Orders :
    /\ sub[o].pc = "new" => ~sub[o].inSecond /\ ~sub[o].inMinute
    /\ sub[o].pc \in {"new", "counted"} => ~sub[o].hold

SubRecord == [pc : Steps, hold : BOOLEAN, inSecond : BOOLEAN, inMinute : BOOLEAN]
USE DEF SubRecord

RateInv == TypeOK /\ Fresh /\ WithinRate

LedgersTyped ==
  /\ ledger \in [held : [Buckets -> Nat], orders : Nat]
  /\ budget \in [held : [Buckets -> Nat], orders : Nat, mortal : BOOLEAN]

(* What a submission may hand back it holds. *)
TicketsHeld ==
  \A o \in Orders : sub[o].pc \in {"reserved", "releasing"} => sub[o].hold

HoldInv == CountsWhatIsHeld /\ WithinCeiling /\ TicketsHeld

--------------------------------------------------------------------------------
(* Counting: one submission enters or leaves a set of them. *)
LEMMA CountStep ==
  ASSUME NEW S \in SUBSET Orders, NEW T \in SUBSET Orders, NEW o \in Orders,
         S \ {o} = T \ {o}
  PROVE  /\ Cardinality(S) \in Nat /\ Cardinality(T) \in Nat
         /\ (o \in S <=> o \in T) => Cardinality(T) = Cardinality(S)
         /\ o \notin S /\ o \in T => Cardinality(T) = Cardinality(S) + 1
         /\ o \in S /\ o \notin T => Cardinality(T) = Cardinality(S) - 1
<1>1. IsFiniteSet(S) /\ IsFiniteSet(T)
  BY RiskAssumption, FS_Subset
<1>2. Cardinality(S) \in Nat /\ Cardinality(T) \in Nat
  BY <1>1, FS_CardinalityType
<1>3. (o \in S <=> o \in T) => S = T
  OBVIOUS
<1>4. ASSUME o \notin S, o \in T
      PROVE  Cardinality(T) = Cardinality(S) + 1
  <2>1. T = S \cup {o}
    BY <1>4
  <2>2. QED
    BY <2>1, <1>1, <1>4, FS_AddElement
<1>5. ASSUME o \in S, o \notin T
      PROVE  Cardinality(T) = Cardinality(S) - 1
  <2>1. S = T \cup {o}
    BY <1>5
  <2>2. Cardinality(S) = Cardinality(T) + 1
    BY <2>1, <1>1, <1>5, FS_AddElement
  <2>3. QED
    BY <2>2, <1>2
<1>6. QED
  BY <1>2, <1>3, <1>4, <1>5

LEMMA CountSubset ==
  ASSUME NEW S \in SUBSET Orders, NEW T \in SUBSET S
  PROVE  /\ Cardinality(S) \in Nat /\ Cardinality(T) \in Nat
         /\ Cardinality(T) <= Cardinality(S)
<1>1. IsFiniteSet(S)
  BY RiskAssumption, FS_Subset
<1>2. QED
  BY <1>1, FS_Subset, FS_CardinalityType

--------------------------------------------------------------------------------
(* A step of a submission writes the record of that one only. *)
LEMMA Written ==
  ASSUME TypeOK, NEW o \in Orders, NEW r, Become(o, r)
  PROVE  sub'[o] = r /\ \A p \in Orders \ {o} : sub'[p] = sub[p]
BY DEF TypeOK, Become

InSecond == {o \in Orders : sub[o].inSecond}
InMinute == {o \in Orders : sub[o].inMinute}

(* A step that leaves the windows and the slots of its submission alone *)
LEMMA SlotsKept ==
  ASSUME RateInv, NEW o \in Orders, NEW r, Become(o, r), UNCHANGED window,
         r \in SubRecord,
         r.inSecond = sub[o].inSecond, r.inMinute = sub[o].inMinute,
         r.pc = "new" => ~r.inSecond /\ ~r.inMinute,
         r.pc \in {"new", "counted"} => ~r.hold,
         LedgersTyped'
  PROVE  RateInv'
<1>1. sub'[o] = r /\ \A p \in Orders \ {o} : sub'[p] = sub[p]
  BY Written DEF RateInv
<1>2. TypeOK'
  <2>1. sub' \in [Orders -> SubRecord]
    BY DEF RateInv, TypeOK, Become
  <2>2. QED
    BY <2>1 DEF RateInv, TypeOK, LedgersTyped
<1>3. Fresh'
  BY <1>1 DEF RateInv, Fresh
<1>4. InSecond' = InSecond /\ InMinute' = InMinute
  BY <1>1 DEF InSecond, InMinute
<1>5. WithinRate'
  BY <1>4 DEF RateInv, WithinRate, InSecond, InMinute
<1>6. QED
  BY <1>2, <1>3, <1>5 DEF RateInv

(* RATE_COUNTER_SCRIPT grants *)
LEMMA SlotsTaken ==
  ASSUME RateInv, NEW o \in Orders, NEW pc \in {"counted", "done"},
         sub[o].pc = "new", TakesSlots(o, pc)
  PROVE  RateInv'
<1> DEFINE r == [Goes(o, pc) EXCEPT !.inSecond = TRUE, !.inMinute = TRUE]
<1>1. sub[o] \in SubRecord
  BY DEF RateInv, TypeOK
<1>2. /\ r \in SubRecord
      /\ r.pc = pc /\ r.inSecond /\ r.inMinute /\ r.hold = sub[o].hold
  BY <1>1 DEF Goes, Steps
<1>3. Become(o, r)
  BY DEF TakesSlots
<1> HIDE DEF r
<1>4. sub'[o] = r /\ \A p \in Orders \ {o} : sub'[p] = sub[p]
  BY <1>3, Written DEF RateInv
<1>5. ~sub[o].inSecond /\ ~sub[o].inMinute /\ ~sub[o].hold
  BY DEF RateInv, Fresh
<1>6. /\ window \in [second : Nat, minute : Nat, at : 0 .. MinuteLength - 1]
      /\ window' = [window EXCEPT !.second = @ + 1, !.minute = @ + 1]
      /\ window.second + 1 <= MaxSecond /\ window.minute + 1 <= MaxMinute
      /\ ledger' = ledger /\ budget' = budget
  BY DEF RateInv, TypeOK, TakesSlots, Consumed, WindowsHaveRoom
<1>7. /\ window'.second = window.second + 1
      /\ window'.minute = window.minute + 1
      /\ window' \in [second : Nat, minute : Nat, at : 0 .. MinuteLength - 1]
  <2>1. /\ window.second \in Nat /\ window.minute \in Nat
        /\ window.at \in 0 .. MinuteLength - 1
    BY <1>6
  <2>2. window' = [second |-> window.second + 1, minute |-> window.minute + 1,
                   at |-> window.at]
    BY <1>6
  <2>3. window.second + 1 \in Nat /\ window.minute + 1 \in Nat
    BY <2>1
  <2>4. QED
    BY <2>1, <2>2, <2>3
<1>8. TypeOK'
  <2>1. sub' \in [Orders -> SubRecord]
    BY <1>2, <1>3 DEF RateInv, TypeOK, Become
  <2>2. QED
    BY <2>1, <1>6, <1>7 DEF RateInv, TypeOK
<1>9. Fresh'
  BY <1>2, <1>4, <1>5 DEF RateInv, Fresh
<1>10. Cardinality(InSecond') = Cardinality(InSecond) + 1
  <2>1. InSecond' \ {o} = InSecond \ {o} /\ o \notin InSecond /\ o \in InSecond'
    BY <1>2, <1>4, <1>5 DEF InSecond
  <2>2. InSecond \in SUBSET Orders /\ InSecond' \in SUBSET Orders
    BY DEF InSecond
  <2>3. QED
    BY <2>1, <2>2, CountStep
<1>11. Cardinality(InMinute') = Cardinality(InMinute) + 1
  <2>1. InMinute' \ {o} = InMinute \ {o} /\ o \notin InMinute /\ o \in InMinute'
    BY <1>2, <1>4, <1>5 DEF InMinute
  <2>2. InMinute \in SUBSET Orders /\ InMinute' \in SUBSET Orders
    BY DEF InMinute
  <2>3. QED
    BY <2>1, <2>2, CountStep
<1>12. WithinRate'
  BY <1>6, <1>7, <1>10, <1>11 DEF RateInv, WithinRate, InSecond, InMinute
<1>13. QED
  BY <1>8, <1>9, <1>12 DEF RateInv

(* RATE_ROLLBACK_SCRIPT *)
LEMMA SlotsGivenBack ==
  ASSUME RateInv, NEW o \in Orders, RateRolledBack(o)
  PROVE  RateInv'
<1> DEFINE r == [Goes(o, "done") EXCEPT !.inSecond = FALSE, !.inMinute = FALSE]
<1>1. sub[o] \in SubRecord
  BY DEF RateInv, TypeOK
<1>2. /\ r \in SubRecord
      /\ r.pc = "done" /\ ~r.inSecond /\ ~r.inMinute /\ r.hold = sub[o].hold
  BY <1>1 DEF Goes, Steps
<1>3. Become(o, r) /\ ledger' = ledger /\ budget' = budget
  BY DEF RateRolledBack
<1> HIDE DEF r
<1>4. sub'[o] = r /\ \A p \in Orders \ {o} : sub'[p] = sub[p]
  BY <1>3, Written DEF RateInv
<1>5. /\ window \in [second : Nat, minute : Nat, at : 0 .. MinuteLength - 1]
      /\ window' = [window EXCEPT !.second = IF sub[o].inSecond THEN @ - 1 ELSE @,
                                  !.minute = IF sub[o].inMinute THEN @ - 1 ELSE @]
      /\ window.second = Cardinality(InSecond) /\ window.minute = Cardinality(InMinute)
      /\ window.second <= MaxSecond /\ window.minute <= MaxMinute
  BY DEF RateInv, TypeOK, RateRolledBack, SlotsReturned, WithinRate, InSecond, InMinute
<1>6. /\ window'.second = IF sub[o].inSecond THEN window.second - 1 ELSE window.second
      /\ window'.minute = IF sub[o].inMinute THEN window.minute - 1 ELSE window.minute
      /\ window' = [second |-> window'.second, minute |-> window'.minute,
                    at |-> window.at]
      /\ window.at \in 0 .. MinuteLength - 1
  BY <1>5
<1>7. Cardinality(InSecond') = window'.second /\ window'.second \in Nat
  <2>1. InSecond' \ {o} = InSecond \ {o} /\ o \notin InSecond'
        /\ (o \in InSecond <=> sub[o].inSecond)
    BY <1>2, <1>4 DEF InSecond
  <2>2. InSecond \in SUBSET Orders /\ InSecond' \in SUBSET Orders
    BY DEF InSecond
  <2>3. /\ Cardinality(InSecond') \in Nat
        /\ Cardinality(InSecond') = IF sub[o].inSecond THEN Cardinality(InSecond) - 1
                                                       ELSE Cardinality(InSecond)
    BY <2>1, <2>2, CountStep
  <2>4. QED
    BY <2>3, <1>5, <1>6
<1>8. Cardinality(InMinute') = window'.minute /\ window'.minute \in Nat
  <2>1. InMinute' \ {o} = InMinute \ {o} /\ o \notin InMinute'
        /\ (o \in InMinute <=> sub[o].inMinute)
    BY <1>2, <1>4 DEF InMinute
  <2>2. InMinute \in SUBSET Orders /\ InMinute' \in SUBSET Orders
    BY DEF InMinute
  <2>3. /\ Cardinality(InMinute') \in Nat
        /\ Cardinality(InMinute') = IF sub[o].inMinute THEN Cardinality(InMinute) - 1
                                                       ELSE Cardinality(InMinute)
    BY <2>1, <2>2, CountStep
  <2>4. QED
    BY <2>3, <1>5, <1>6
<1>9. TypeOK'
  <2>1. sub' \in [Orders -> SubRecord]
    BY <1>2, <1>3 DEF RateInv, TypeOK, Become
  <2>2. window' \in [second : Nat, minute : Nat, at : 0 .. MinuteLength - 1]
    BY <1>6, <1>7, <1>8
  <2>3. QED
    BY <2>1, <2>2, <1>3 DEF RateInv, TypeOK
<1>10. Fresh'
  BY <1>2, <1>4 DEF RateInv, Fresh
<1>11. window'.second <= MaxSecond /\ window'.minute <= MaxMinute
  BY <1>5, <1>6, <1>7, <1>8, RiskAssumption
<1>12. WithinRate'
  BY <1>7, <1>8, <1>11 DEF WithinRate, InSecond, InMinute
<1>13. QED
  BY <1>9, <1>10, <1>12 DEF RateInv

(* The windows of the second, and perhaps of the minute, are over. *)
LEMMA SlotsLapse ==
  ASSUME RateInv, TimePasses
  PROVE  RateInv'
<1>1. /\ sub \in [Orders -> SubRecord]
      /\ window \in [second : Nat, minute : Nat, at : 0 .. MinuteLength - 1]
      /\ LedgersTyped
  BY DEF RateInv, TypeOK, LedgersTyped
<1>2. ASSUME NEW o \in Orders
      PROVE  /\ sub'[o] \in SubRecord
             /\ sub'[o].pc = sub[o].pc /\ sub'[o].hold = sub[o].hold
             /\ ~sub'[o].inSecond
             /\ sub'[o].inMinute = (sub[o].inMinute /\ ~MinuteEnds)
  <2>1. (sub[o].inMinute /\ ~MinuteEnds) \in BOOLEAN
    OBVIOUS
  <2>2. sub'[o] = [sub[o] EXCEPT !.inSecond = FALSE, !.inMinute = @ /\ ~MinuteEnds]
    BY DEF TimePasses
  <2>3. sub[o] \in SubRecord
    BY <1>1
  <2>4. sub'[o] = [pc |-> sub[o].pc, hold |-> sub[o].hold,
                   inSecond |-> FALSE, inMinute |-> (sub[o].inMinute /\ ~MinuteEnds)]
    BY <2>2, <2>3
  <2>5. sub[o].pc \in Steps /\ sub[o].hold \in BOOLEAN
    BY <2>3
  <2>6. QED
    BY <2>1, <2>4, <2>5
<1>3. sub' \in [Orders -> SubRecord]
  <2>1. sub' = [o \in Orders |-> sub'[o]]
    BY DEF TimePasses
  <2>2. QED
    BY <2>1, <1>2
<1>4. /\ window'.second = 0
      /\ window'.minute = IF MinuteEnds THEN 0 ELSE window.minute
      /\ window' \in [second : Nat, minute : Nat, at : 0 .. MinuteLength - 1]
  <2>1. window.minute \in Nat /\ window.at \in 0 .. MinuteLength - 1
    BY <1>1
  <2>2. (IF MinuteEnds THEN 0 ELSE window.at + 1) \in 0 .. MinuteLength - 1
    BY <2>1, RiskAssumption DEF MinuteEnds
  <2>3. QED
    BY <2>1, <2>2 DEF TimePasses
<1>5. LedgersTyped'
  BY <1>1 DEF TimePasses, LedgersTyped
<1>6. TypeOK'
  BY <1>3, <1>4, <1>5 DEF TypeOK, LedgersTyped
<1>7. Fresh'
  BY <1>2 DEF RateInv, Fresh
<1>8. Cardinality(InSecond') = 0
  <2>1. InSecond' = {}
    BY <1>2 DEF InSecond
  <2>2. QED
    BY <2>1, FS_EmptySet
<1>9. Cardinality(InMinute') = window'.minute
  <2>1. CASE MinuteEnds
    <3>1. InMinute' = {}
      BY <1>2, <2>1 DEF InMinute
    <3>2. QED
      BY <3>1, <2>1, <1>4, FS_EmptySet
  <2>2. CASE ~MinuteEnds
    <3>1. InMinute' = InMinute
      BY <1>2, <2>2 DEF InMinute
    <3>2. QED
      BY <3>1, <2>2, <1>4 DEF RateInv, WithinRate, InMinute
  <2>3. QED
    BY <2>1, <2>2
<1>10. window'.second <= MaxSecond /\ window'.minute <= MaxMinute
  BY <1>4, RiskAssumption DEF RateInv, WithinRate
<1>11. WithinRate'
  BY <1>4, <1>8, <1>9, <1>10 DEF WithinRate, InSecond, InMinute
<1>12. QED
  BY <1>6, <1>7, <1>11 DEF RateInv

--------------------------------------------------------------------------------
(* The ledgers *)
LEMMA LedgersChange ==
  ASSUME TypeOK, NEW o \in Orders
  PROVE  /\ LocallyAcquired(o) \in [held : [Buckets -> Nat], orders : Nat]
         /\ LocallyReturned(o) \in [held : [Buckets -> Nat], orders : Nat]
         /\ ScriptAcquired(o) \in [held : [Buckets -> Nat], orders : Nat, mortal : BOOLEAN]
         /\ ScriptReturned(o) \in [held : [Buckets -> Nat], orders : Nat, mortal : BOOLEAN]
         /\ LocallyAcquired(o).held = Added(ledger.held, o)
         /\ LocallyAcquired(o).orders = ledger.orders + 1
         /\ LocallyReturned(o).held = TakenOff(ledger.held, o)
         /\ LocallyReturned(o).orders = LessOne(ledger.orders)
         /\ ScriptAcquired(o).held = Added(budget.held, o)
         /\ ScriptReturned(o).held = TakenOff(budget.held, o)
<1>1. /\ ledger.held \in [Buckets -> Nat] /\ ledger.orders \in Nat
      /\ budget \in [held : [Buckets -> Nat], orders : Nat, mortal : BOOLEAN]
      /\ budget.held \in [Buckets -> Nat] /\ budget.orders \in Nat
      /\ budget.mortal \in BOOLEAN
  BY DEF TypeOK
<1>2. \A held \in [Buckets -> Nat] : /\ Added(held, o) \in [Buckets -> Nat]
                                    /\ TakenOff(held, o) \in [Buckets -> Nat]
  BY DEF Added, TakenOff, LessOne
<1>3. \A n \in Nat : LessOne(n) \in Nat
  BY DEF LessOne
<1>4. OpenAdd(o) \in Nat
  BY RiskAssumption DEF OpenAdd
<1>5. /\ LocallyAcquired(o) \in [held : [Buckets -> Nat], orders : Nat]
      /\ LocallyReturned(o) \in [held : [Buckets -> Nat], orders : Nat]
      /\ LocallyAcquired(o).held = Added(ledger.held, o)
      /\ LocallyAcquired(o).orders = ledger.orders + 1
      /\ LocallyReturned(o).held = TakenOff(ledger.held, o)
      /\ LocallyReturned(o).orders = LessOne(ledger.orders)
  BY <1>1, <1>2, <1>3 DEF LocallyAcquired, LocallyReturned
<1>6. /\ ScriptAcquired(o) \in [held : [Buckets -> Nat], orders : Nat, mortal : BOOLEAN]
      /\ ScriptAcquired(o).held = Added(budget.held, o)
  <2>1. /\ (budget.mortal \/ ~ScriptBreaks(o)) \in BOOLEAN
        /\ (IF CountsOpen(o) THEN budget.orders + OpenAdd(o) ELSE budget.orders) \in Nat
    BY <1>1, <1>4
  <2>2. Added(budget.held, o) \in [Buckets -> Nat]
    BY <1>1, <1>2
  <2>3. QED
    BY <2>1, <2>2 DEF ScriptAcquired
<1>7. /\ ScriptReturned(o) \in [held : [Buckets -> Nat], orders : Nat, mortal : BOOLEAN]
      /\ ScriptReturned(o).held = TakenOff(budget.held, o)
  <2> DEFINE still == budget.mortal /\ (\/ TakenOff(budget.held, o) # Nothing
                                        \/ LessOne(budget.orders) # 0)
  <2>1. ScriptReturned(o) = [held |-> TakenOff(budget.held, o),
                             orders |-> LessOne(budget.orders), mortal |-> still]
    BY DEF ScriptReturned
  <2>2. /\ TakenOff(budget.held, o) \in [Buckets -> Nat] /\ LessOne(budget.orders) \in Nat
        /\ still \in BOOLEAN
    BY <1>1, <1>2, <1>3
  <2> HIDE DEF still
  <2>3. QED
    BY <2>1, <2>2
<1>8. QED
  BY <1>5, <1>6, <1>7

(* The end of a process leaves the windows as they are. *)
LEMMA SlotsOfTheDead ==
  ASSUME RateInv, ProcessRestarts
  PROVE  RateInv'
<1>1. /\ sub \in [Orders -> SubRecord]
      /\ window' = window /\ budget' = budget /\ ledger' = NoTickets
  BY DEF RateInv, TypeOK, ProcessRestarts
<1>2. ASSUME NEW o \in Orders
      PROVE  /\ sub'[o] \in SubRecord
             /\ sub'[o].inSecond = sub[o].inSecond /\ sub'[o].inMinute = sub[o].inMinute
             /\ sub'[o].pc \in {sub[o].pc, "done"}
             /\ sub'[o].hold => sub[o].hold /\ sub'[o].pc = sub[o].pc
  <2>1. sub[o] \in SubRecord
    BY <1>1
  <2>2. CASE o \in Local
    <3> DEFINE pc == IF sub[o].pc = "new" THEN sub[o].pc ELSE "done"
    <3>1. sub'[o] = [sub[o] EXCEPT !.pc = pc, !.hold = FALSE]
      BY <2>2 DEF ProcessRestarts
    <3>2. pc \in Steps /\ pc \in {sub[o].pc, "done"}
      BY <2>1 DEF Steps
    <3> HIDE DEF pc
    <3>3. QED
      BY <2>1, <3>1, <3>2
  <2>3. CASE o \notin Local
    BY <2>1, <2>3 DEF ProcessRestarts
  <2>4. QED
    BY <2>2, <2>3
<1>3. sub' \in [Orders -> SubRecord]
  <2>1. sub' = [o \in Orders |-> sub'[o]]
    BY DEF ProcessRestarts
  <2>2. QED
    BY <1>2, <2>1
<1>4. NoTickets \in [held : [Buckets -> Nat], orders : Nat]
  BY DEF NoTickets, Nothing
<1>5. TypeOK'
  BY <1>1, <1>3, <1>4 DEF RateInv, TypeOK
<1>6. Fresh'
  BY <1>2 DEF RateInv, Fresh
<1>7. InSecond' = InSecond /\ InMinute' = InMinute
  BY <1>2 DEF InSecond, InMinute
<1>8. WithinRate'
  BY <1>1, <1>7 DEF RateInv, WithinRate, InSecond, InMinute
<1>9. QED
  BY <1>5, <1>6, <1>8 DEF RateInv

(* A gate that is granted, and a submission that hands back *)
LEMMA ReservesTyped ==
  ASSUME TypeOK, NEW o \in Orders, NEW pc, Reserves(o, pc) \/ HandsBack(o, pc)
  PROVE  LedgersTyped'
<1>1. /\ ledger' \in {ledger, LocallyAcquired(o), LocallyReturned(o)}
      /\ budget' \in {budget, ScriptAcquired(o), ScriptReturned(o)}
  BY DEF Reserves, HandsBack
<1>2. QED
  BY <1>1, LedgersChange DEF TypeOK, LedgersTyped

LEMMA RateInvStep ==
  ASSUME RateInv, [Next]_vars
  PROVE  RateInv'
<1> USE DEF Steps
<1>1. CASE UNCHANGED vars
  BY <1>1 DEF vars, RateInv, TypeOK, Fresh, WithinRate
<1>2. CASE TimePasses
  BY <1>2, SlotsLapse
<1>3. CASE HashExpires
  <2>1. NoHolds \in [held : [Buckets -> Nat], orders : Nat, mortal : BOOLEAN]
    BY DEF NoHolds, Nothing
  <2>2. QED
    BY <1>3, <2>1 DEF HashExpires, RateInv, TypeOK, Fresh, WithinRate
<1>4. CASE ProcessRestarts
  BY <1>4, SlotsOfTheDead
<1>5. ASSUME NEW o \in Orders,
             RateGranted(o) \/ RateRefused(o) \/ GateStep(o) \/ SlotStep(o) \/ Another(o)
      PROVE  RateInv'
  <2>1. sub[o] \in SubRecord /\ LedgersTyped
    BY DEF RateInv, TypeOK, LedgersTyped
  <2>2. ASSUME NEW pc \in {"done", "undoing", "releasing"}, Become(o, Goes(o, pc)),
               UNCHANGED <<ledger, budget, window>>
        PROVE  RateInv'
    <3>1. /\ Goes(o, pc) \in SubRecord
          /\ Goes(o, pc).pc = pc /\ Goes(o, pc).inSecond = sub[o].inSecond
          /\ Goes(o, pc).inMinute = sub[o].inMinute
      BY <2>1 DEF Goes
    <3>2. LedgersTyped'
      BY <2>1, <2>2 DEF LedgersTyped
    <3>3. QED
      BY <2>2, <3>1, <3>2, SlotsKept
  <2>3. ASSUME NEW pc \in {"reserved", "undoing"}, Reserves(o, pc)
        PROVE  RateInv'
    <3> DEFINE r == [Goes(o, pc) EXCEPT !.hold = TRUE]
    <3>1. /\ r \in SubRecord
          /\ r.pc = pc /\ r.inSecond = sub[o].inSecond /\ r.inMinute = sub[o].inMinute
      BY <2>1 DEF Goes
    <3>2. Become(o, r) /\ UNCHANGED window
      BY <2>3 DEF Reserves
    <3>3. LedgersTyped'
      BY <2>3, ReservesTyped DEF RateInv
    <3> HIDE DEF r
    <3>4. QED
      BY <3>1, <3>2, <3>3, SlotsKept
  <2>4. ASSUME NEW pc \in {"done", "undoing"}, HandsBack(o, pc)
        PROVE  RateInv'
    <3> DEFINE r == [Goes(o, pc) EXCEPT !.hold = FALSE]
    <3>1. /\ r \in SubRecord
          /\ r.pc = pc /\ r.inSecond = sub[o].inSecond /\ r.inMinute = sub[o].inMinute
      BY <2>1 DEF Goes
    <3>2. Become(o, r) /\ UNCHANGED window
      BY <2>4 DEF HandsBack
    <3>3. LedgersTyped'
      BY <2>4, ReservesTyped DEF RateInv
    <3> HIDE DEF r
    <3>4. QED
      BY <3>1, <3>2, <3>3, SlotsKept
  <2>5. CASE RateGranted(o)
    BY <2>5, SlotsTaken DEF RateGranted
  <2>6. CASE RateRefused(o)
    BY <2>6, <2>2, SlotsTaken DEF RateRefused
  <2>7. CASE GateStep(o)
    BY <2>7, <2>2, <2>3 DEF GateStep, ReservationGranted, ReservationDenied, ReservationFails
  <2>8. CASE SlotStep(o)
    BY <2>8, <2>2, <2>4, SlotsGivenBack
    DEF SlotStep, OrderMayExist, OrderDoesNotExist, Released, ReleaseFails, Abandoned
  <2>9. CASE Another(o)
    <3>1. /\ NewOrder \in SubRecord /\ ~NewOrder.hold
          /\ NewOrder.inSecond = FALSE /\ NewOrder.inMinute = FALSE
      BY DEF NewOrder
    <3>2. /\ Become(o, NewOrder) /\ UNCHANGED <<ledger, budget, window>>
          /\ sub[o].inSecond = FALSE /\ sub[o].inMinute = FALSE
      BY <2>9, <2>1 DEF Another
    <3>3. LedgersTyped'
      BY <2>1, <3>2 DEF LedgersTyped
    <3>4. QED
      BY <3>1, <3>2, <3>3, SlotsKept
  <2>10. QED
    BY <1>5, <2>5, <2>6, <2>7, <2>8, <2>9
<1>6. QED
  BY <1>1, <1>2, <1>3, <1>4, <1>5 DEF Next

LEMMA RateInvInit == Init => RateInv
<1> SUFFICES ASSUME Init PROVE RateInv
  OBVIOUS
<1>1. /\ ledger = NoTickets /\ budget = NoHolds
      /\ window = [second |-> 0, minute |-> 0, at |-> 0]
      /\ sub = [o \in Orders |-> NewOrder]
  BY DEF Init
<1>2. /\ NoTickets \in [held : [Buckets -> Nat], orders : Nat]
      /\ NoHolds \in [held : [Buckets -> Nat], orders : Nat, mortal : BOOLEAN]
  BY DEF NoTickets, NoHolds, Nothing
<1>3. NewOrder \in SubRecord
  BY DEF NewOrder, Steps
<1>4. window \in [second : Nat, minute : Nat, at : 0 .. MinuteLength - 1]
  BY <1>1, RiskAssumption
<1>5. TypeOK
  BY <1>1, <1>2, <1>3, <1>4 DEF TypeOK
<1>6. Fresh
  BY <1>1 DEF Fresh, NewOrder
<1>7. InSecond = {} /\ InMinute = {}
  BY <1>1 DEF InSecond, InMinute, NewOrder
<1>8. WithinRate
  <2>1. window.second = 0 /\ window.minute = 0
    BY <1>1
  <2>2. Cardinality(InSecond) = 0 /\ Cardinality(InMinute) = 0
    BY <1>7, FS_EmptySet
  <2>3. 0 <= MaxSecond /\ 0 <= MaxMinute
    BY RiskAssumption
  <2>4. QED
    BY <2>1, <2>2, <2>3 DEF WithinRate, InSecond, InMinute
<1>9. QED
  BY <1>5, <1>6, <1>8 DEF RateInv

LEMMA RateInvHolds == Spec => []RateInv
BY RateInvInit, RateInvStep, PTL DEF Spec

(* Both ledgers, the counters and the submissions keep their types: no release and no
   rollback brings an amount or a counter below zero, whatever has expired since
   (ledger.py, rate_limits.py). *)
THEOREM RiskTyped == Spec => []TypeOK
<1>1. RateInv => TypeOK
  BY DEF RateInv
<1>2. QED
  BY <1>1, RateInvHolds, PTL

(* The rate windows of an account hold for all engines together (RATE_COUNTER_SCRIPT
   and RATE_ROLLBACK_SCRIPT). *)
THEOREM RatesHold == Spec => []WithinRate
<1>1. RateInv => WithinRate
  BY DEF RateInv
<1>2. QED
  BY <1>1, RateInvHolds, PTL

--------------------------------------------------------------------------------
(* Who holds what *)

Users(b) == {o \in Orders : b \in Uses[o]}

(* The sets the ledgers are compared with are cut out of the holders by sets that do
   not change. *)
LEMMA HoldersCut ==
  ASSUME NEW b \in Buckets
  PROVE  /\ HoldersOf(b) \cap Local = Holders \cap (Users(b) \cap Local)
         /\ HoldersOf(b) \ Local = Holders \cap (Users(b) \ Local)
         /\ HoldersOf(b)' \cap Local = Holders' \cap (Users(b) \cap Local)
         /\ HoldersOf(b)' \ Local = Holders' \cap (Users(b) \ Local)
BY DEF HoldersOf, Holders, Users

(* One submission begins or ceases to hold. *)
LEMMA HoldersCount ==
  ASSUME TypeOK, NEW o \in Orders, NEW r, Become(o, r), NEW X \in SUBSET Orders
  PROVE  /\ Cardinality(Holders \cap X) \in Nat
         /\ Cardinality(Holders' \cap X) \in Nat
         /\ o \notin X \/ (r.hold <=> sub[o].hold) =>
              Cardinality(Holders' \cap X) = Cardinality(Holders \cap X)
         /\ o \in X /\ ~sub[o].hold /\ r.hold =>
              Cardinality(Holders' \cap X) = Cardinality(Holders \cap X) + 1
         /\ o \in X /\ sub[o].hold /\ ~r.hold =>
              Cardinality(Holders' \cap X) = Cardinality(Holders \cap X) - 1
<1>1. sub'[o] = r /\ \A p \in Orders \ {o} : sub'[p] = sub[p]
  BY Written
<1>2. /\ Holders \cap X \in SUBSET Orders /\ Holders' \cap X \in SUBSET Orders
      /\ (Holders \cap X) \ {o} = (Holders' \cap X) \ {o}
      /\ o \in Holders \cap X <=> o \in X /\ sub[o].hold
      /\ o \in Holders' \cap X <=> o \in X /\ r.hold
  BY <1>1 DEF Holders
<1>3. QED
  BY <1>2, CountStep

(* What is held is counted, in terms of the sets that do not change *)
Counted ==
  /\ ledger.orders = Cardinality(Holders \cap Local)
  /\ \A b \in Buckets :
       /\ ledger.held[b] = Cardinality(Holders \cap (Users(b) \cap Local))
       /\ budget.held[b] <= Cardinality(Holders \cap (Users(b) \ Local))
       /\ ledger.held[b] <= Ceiling[b]
  /\ OpenCeiling # 0 => ledger.orders <= OpenCeiling

LEMMA CountedIsEnough == Counted /\ TicketsHeld <=> HoldInv
BY HoldersCut DEF Counted, HoldInv, CountsWhatIsHeld, WithinCeiling

LEMMA CountedIsEnoughNext == (Counted /\ TicketsHeld)' <=> HoldInv'
BY HoldersCut DEF Counted, HoldInv, CountsWhatIsHeld, WithinCeiling

LEMMA Cuts ==
  /\ Local \in SUBSET Orders
  /\ \A b \in Buckets : /\ Users(b) \cap Local \in SUBSET Orders
                        /\ Users(b) \ Local \in SUBSET Orders
BY RiskAssumption DEF Users

(* A step that changes neither a ledger nor who holds *)
LEMMA HoldsKept ==
  ASSUME TypeOK, HoldInv, NEW o \in Orders, NEW r, Become(o, r),
         UNCHANGED <<ledger, budget>>, r.hold = sub[o].hold,
         r.pc \in {"reserved", "releasing"} => r.hold
  PROVE  HoldInv'
<1>1. sub'[o] = r /\ \A p \in Orders \ {o} : sub'[p] = sub[p]
  BY Written
<1>2. Holders' = Holders
  BY <1>1 DEF Holders
<1>3. Counted /\ TicketsHeld
  BY CountedIsEnough
<1>4. Counted'
  BY <1>2, <1>3 DEF Counted, Users
<1>5. TicketsHeld'
  BY <1>1, <1>3 DEF TicketsHeld
<1>6. QED
  BY <1>4, <1>5, CountedIsEnoughNext

(* A reservation is granted. *)
LEMMA HoldTaken ==
  ASSUME TypeOK, Fresh, HoldInv, NEW o \in Orders, NEW pc, Reserves(o, pc)
  PROVE  HoldInv'
<1> DEFINE r == [Goes(o, pc) EXCEPT !.hold = TRUE]
<1>1. r.hold
  BY DEF Goes, TypeOK
<1>2. Become(o, r) /\ sub[o].pc = "counted"
  BY DEF Reserves
<1> HIDE DEF r
<1>3. sub'[o] = r /\ \A p \in Orders \ {o} : sub'[p] = sub[p]
  BY <1>2, Written
<1>4. ~sub[o].hold
  BY <1>2 DEF Fresh
<1>5. Counted /\ TicketsHeld
  BY CountedIsEnough
<1>6. TicketsHeld'
  BY <1>1, <1>3, <1>5 DEF TicketsHeld
<1>7. /\ ledger.held \in [Buckets -> Nat] /\ ledger.orders \in Nat
      /\ budget.held \in [Buckets -> Nat]
  BY DEF TypeOK
<1>8. CASE o \in Local
  <2>1. /\ ledger' = LocallyAcquired(o) /\ budget' = budget /\ LocalRoom(o)
    BY <1>8 DEF Reserves
  <2>2. ledger'.held = Added(ledger.held, o) /\ ledger'.orders = ledger.orders + 1
    BY <2>1, LedgersChange
  <2>3. /\ ledger'.orders = Cardinality(Holders' \cap Local)
        /\ OpenCeiling # 0 => ledger'.orders <= OpenCeiling
    BY <1>1, <1>2, <1>4, <1>5, <1>8, <2>1, <2>2, HoldersCount, Cuts DEF Counted, LocalRoom
  <2>4. ASSUME NEW b \in Buckets
        PROVE  /\ ledger'.held[b] = Cardinality(Holders' \cap (Users(b) \cap Local))
               /\ budget'.held[b] <= Cardinality(Holders' \cap (Users(b) \ Local))
               /\ ledger'.held[b] <= Ceiling[b]
    <3>1. budget'.held[b] <= Cardinality(Holders' \cap (Users(b) \ Local))
      <4>1. o \notin Users(b) \ Local
        BY <1>8
      <4>2. Cardinality(Holders' \cap (Users(b) \ Local)) =
             Cardinality(Holders \cap (Users(b) \ Local))
        BY <1>2, <4>1, HoldersCount, Cuts
      <4>3. QED
        BY <1>5, <2>1, <4>2 DEF Counted
    <3>2. CASE b \in Uses[o]
      <4>1. o \in Users(b) \cap Local
        BY <1>8, <3>2 DEF Users
      <4>2. Cardinality(Holders' \cap (Users(b) \cap Local)) =
             Cardinality(Holders \cap (Users(b) \cap Local)) + 1
        BY <1>1, <1>2, <1>4, <4>1, HoldersCount, Cuts
      <4>3. ledger'.held[b] = ledger.held[b] + 1
        BY <2>2, <3>2 DEF Added
      <4>4. ledger.held[b] + 1 <= Ceiling[b]
        BY <2>1, <3>2 DEF LocalRoom, Fits
      <4>5. QED
        BY <1>5, <3>1, <4>2, <4>3, <4>4 DEF Counted
    <3>3. CASE b \notin Uses[o]
      <4>1. o \notin Users(b) \cap Local
        BY <3>3 DEF Users
      <4>2. Cardinality(Holders' \cap (Users(b) \cap Local)) =
             Cardinality(Holders \cap (Users(b) \cap Local))
        BY <1>2, <4>1, HoldersCount, Cuts
      <4>3. ledger'.held[b] = ledger.held[b]
        BY <2>2, <3>3 DEF Added
      <4>4. QED
        BY <1>5, <3>1, <4>2, <4>3 DEF Counted
    <3>4. QED
      BY <3>2, <3>3
  <2>5. Counted'
    BY <2>3, <2>4 DEF Counted, Users
  <2>6. QED
    BY <1>6, <2>5, CountedIsEnoughNext
<1>9. CASE o \notin Local
  <2>1. budget' = ScriptAcquired(o) /\ ledger' = ledger
    BY <1>9 DEF Reserves
  <2>2. budget'.held = Added(budget.held, o)
    BY <2>1, LedgersChange
  <2>3. /\ ledger'.orders = Cardinality(Holders' \cap Local)
        /\ OpenCeiling # 0 => ledger'.orders <= OpenCeiling
    BY <1>2, <1>5, <1>9, <2>1, HoldersCount, Cuts DEF Counted
  <2>4. ASSUME NEW b \in Buckets
        PROVE  /\ ledger'.held[b] = Cardinality(Holders' \cap (Users(b) \cap Local))
               /\ budget'.held[b] <= Cardinality(Holders' \cap (Users(b) \ Local))
               /\ ledger'.held[b] <= Ceiling[b]
    <3>1. /\ ledger'.held[b] = Cardinality(Holders' \cap (Users(b) \cap Local))
          /\ ledger'.held[b] <= Ceiling[b]
      <4>1. o \notin Users(b) \cap Local
        BY <1>9
      <4>2. Cardinality(Holders' \cap (Users(b) \cap Local)) =
             Cardinality(Holders \cap (Users(b) \cap Local))
        BY <1>2, <4>1, HoldersCount, Cuts
      <4>3. QED
        BY <1>5, <2>1, <4>2 DEF Counted
    <3>2. CASE b \in Uses[o]
      <4>1. o \in Users(b) \ Local
        BY <1>9, <3>2 DEF Users
      <4>2. /\ Cardinality(Holders' \cap (Users(b) \ Local)) =
             Cardinality(Holders \cap (Users(b) \ Local)) + 1
            /\ Cardinality(Holders \cap (Users(b) \ Local)) \in Nat
        BY <1>1, <1>2, <1>4, <4>1, HoldersCount, Cuts
      <4>3. budget'.held[b] = budget.held[b] + 1 /\ budget.held[b] \in Nat
        BY <1>7, <2>2, <3>2 DEF Added
      <4>4. budget.held[b] <= Cardinality(Holders \cap (Users(b) \ Local))
        BY <1>5 DEF Counted
      <4>5. QED
        BY <3>1, <4>2, <4>3, <4>4
    <3>3. CASE b \notin Uses[o]
      <4>1. o \notin Users(b) \ Local
        BY <3>3 DEF Users
      <4>2. Cardinality(Holders' \cap (Users(b) \ Local)) =
             Cardinality(Holders \cap (Users(b) \ Local))
        BY <1>2, <4>1, HoldersCount, Cuts
      <4>3. budget'.held[b] = budget.held[b]
        BY <2>2, <3>3 DEF Added
      <4>4. QED
        BY <1>5, <3>1, <4>2, <4>3 DEF Counted
    <3>4. QED
      BY <3>2, <3>3
  <2>5. Counted'
    BY <2>3, <2>4 DEF Counted, Users
  <2>6. QED
    BY <1>6, <2>5, CountedIsEnoughNext
<1>10. QED
  BY <1>8, <1>9

(* A reservation is handed back: by who holds it. *)
LEMMA HoldReturned ==
  ASSUME TypeOK, HoldInv, NEW o \in Orders, NEW pc \in {"undoing", "done"},
         HandsBack(o, pc)
  PROVE  HoldInv'
<1> DEFINE r == [Goes(o, pc) EXCEPT !.hold = FALSE]
<1>1. r.pc = pc /\ ~r.hold
  BY DEF Goes, TypeOK
<1>2. Become(o, r) /\ sub[o].pc = "releasing"
  BY DEF HandsBack
<1> HIDE DEF r
<1>3. sub'[o] = r /\ \A p \in Orders \ {o} : sub'[p] = sub[p]
  BY <1>2, Written
<1>4. Counted /\ TicketsHeld
  BY CountedIsEnough
<1>5. sub[o].hold
  BY <1>2, <1>4 DEF TicketsHeld
<1>6. TicketsHeld'
  BY <1>1, <1>3, <1>4 DEF TicketsHeld
<1>7. /\ ledger.held \in [Buckets -> Nat] /\ ledger.orders \in Nat
      /\ budget.held \in [Buckets -> Nat]
  BY DEF TypeOK
<1>8. CASE o \in Local
  <2>1. ledger' = LocallyReturned(o) /\ budget' = budget
    BY <1>8 DEF HandsBack
  <2>2. ledger'.held = TakenOff(ledger.held, o) /\ ledger'.orders = LessOne(ledger.orders)
    BY <2>1, LedgersChange
  <2>3. /\ ledger'.orders = Cardinality(Holders' \cap Local)
        /\ OpenCeiling # 0 => ledger'.orders <= OpenCeiling
    <3>1. /\ Cardinality(Holders' \cap Local) = Cardinality(Holders \cap Local) - 1
          /\ Cardinality(Holders' \cap Local) \in Nat
      BY <1>1, <1>2, <1>5, <1>8, HoldersCount, Cuts
    <3>2. /\ ledger.orders = Cardinality(Holders \cap Local)
          /\ OpenCeiling # 0 => ledger.orders <= OpenCeiling
      BY <1>4 DEF Counted
    <3>3. ledger'.orders = ledger.orders - 1
      BY <1>7, <2>2, <3>1, <3>2 DEF LessOne
    <3>4. QED
      BY <1>7, <3>1, <3>2, <3>3, RiskAssumption
  <2>4. ASSUME NEW b \in Buckets
        PROVE  /\ ledger'.held[b] = Cardinality(Holders' \cap (Users(b) \cap Local))
               /\ budget'.held[b] <= Cardinality(Holders' \cap (Users(b) \ Local))
               /\ ledger'.held[b] <= Ceiling[b]
    <3>1. budget'.held[b] <= Cardinality(Holders' \cap (Users(b) \ Local))
      <4>1. o \notin Users(b) \ Local
        BY <1>8
      <4>2. Cardinality(Holders' \cap (Users(b) \ Local)) =
             Cardinality(Holders \cap (Users(b) \ Local))
        BY <1>2, <4>1, HoldersCount, Cuts
      <4>3. QED
        BY <1>4, <2>1, <4>2 DEF Counted
    <3>2. ledger.held[b] = Cardinality(Holders \cap (Users(b) \cap Local))
          /\ ledger.held[b] <= Ceiling[b] /\ ledger.held[b] \in Nat
      BY <1>4, <1>7 DEF Counted
    <3>3. CASE b \in Uses[o]
      <4>1. o \in Users(b) \cap Local
        BY <1>8, <3>3 DEF Users
      <4>2. /\ Cardinality(Holders' \cap (Users(b) \cap Local)) =
                Cardinality(Holders \cap (Users(b) \cap Local)) - 1
            /\ Cardinality(Holders' \cap (Users(b) \cap Local)) \in Nat
        BY <1>1, <1>2, <1>5, <4>1, HoldersCount, Cuts
      <4>3. ledger'.held[b] = ledger.held[b] - 1
        BY <2>2, <3>2, <3>3, <4>2 DEF TakenOff, LessOne
      <4>4. QED
        BY <3>1, <3>2, <4>2, <4>3, RiskAssumption
    <3>4. CASE b \notin Uses[o]
      <4>1. o \notin Users(b) \cap Local
        BY <3>4 DEF Users
      <4>2. Cardinality(Holders' \cap (Users(b) \cap Local)) =
             Cardinality(Holders \cap (Users(b) \cap Local))
        BY <1>2, <4>1, HoldersCount, Cuts
      <4>3. ledger'.held[b] = ledger.held[b]
        BY <2>2, <3>4 DEF TakenOff
      <4>4. QED
        BY <3>1, <3>2, <4>2, <4>3
    <3>5. QED
      BY <3>3, <3>4
  <2>5. Counted'
    BY <2>3, <2>4 DEF Counted, Users
  <2>6. QED
    BY <1>6, <2>5, CountedIsEnoughNext
<1>9. CASE o \notin Local
  <2>1. budget' = ScriptReturned(o) /\ ledger' = ledger
    BY <1>9 DEF HandsBack
  <2>2. budget'.held = TakenOff(budget.held, o)
    BY <2>1, LedgersChange
  <2>3. /\ ledger'.orders = Cardinality(Holders' \cap Local)
        /\ OpenCeiling # 0 => ledger'.orders <= OpenCeiling
    BY <1>2, <1>4, <1>9, <2>1, HoldersCount, Cuts DEF Counted
  <2>4. ASSUME NEW b \in Buckets
        PROVE  /\ ledger'.held[b] = Cardinality(Holders' \cap (Users(b) \cap Local))
               /\ budget'.held[b] <= Cardinality(Holders' \cap (Users(b) \ Local))
               /\ ledger'.held[b] <= Ceiling[b]
    <3>1. /\ ledger'.held[b] = Cardinality(Holders' \cap (Users(b) \cap Local))
          /\ ledger'.held[b] <= Ceiling[b]
      <4>1. o \notin Users(b) \cap Local
        BY <1>9
      <4>2. Cardinality(Holders' \cap (Users(b) \cap Local)) =
             Cardinality(Holders \cap (Users(b) \cap Local))
        BY <1>2, <4>1, HoldersCount, Cuts
      <4>3. QED
        BY <1>4, <2>1, <4>2 DEF Counted
    <3>2. budget.held[b] <= Cardinality(Holders \cap (Users(b) \ Local))
          /\ budget.held[b] \in Nat
      BY <1>4, <1>7 DEF Counted
    <3>3. CASE b \in Uses[o]
      <4>1. o \in Users(b) \ Local
        BY <1>9, <3>3 DEF Users
      <4>2. /\ Cardinality(Holders' \cap (Users(b) \ Local)) =
                Cardinality(Holders \cap (Users(b) \ Local)) - 1
            /\ Cardinality(Holders' \cap (Users(b) \ Local)) \in Nat
            /\ Cardinality(Holders \cap (Users(b) \ Local)) \in Nat
        BY <1>1, <1>2, <1>5, <4>1, HoldersCount, Cuts
      <4>3. budget'.held[b] = IF budget.held[b] > 0 THEN budget.held[b] - 1 ELSE 0
        BY <1>7, <2>2, <3>3 DEF TakenOff, LessOne
      <4>4. QED
        BY <3>1, <3>2, <4>2, <4>3
    <3>4. CASE b \notin Uses[o]
      <4>1. o \notin Users(b) \ Local
        BY <3>4 DEF Users
      <4>2. Cardinality(Holders' \cap (Users(b) \ Local)) =
             Cardinality(Holders \cap (Users(b) \ Local))
        BY <1>2, <4>1, HoldersCount, Cuts
      <4>3. budget'.held[b] = budget.held[b]
        BY <2>2, <3>4 DEF TakenOff
      <4>4. QED
        BY <3>1, <3>2, <4>2, <4>3
    <3>5. QED
      BY <3>3, <3>4
  <2>5. Counted'
    BY <2>3, <2>4 DEF Counted, Users
  <2>6. QED
    BY <1>6, <2>5, CountedIsEnoughNext
<1>10. QED
  BY <1>8, <1>9

(* The hash expires: it never counts too much. *)
LEMMA HashGone ==
  ASSUME TypeOK, HoldInv, HashExpires
  PROVE  HoldInv'
<1>1. budget' = NoHolds /\ ledger' = ledger /\ sub' = sub
  BY DEF HashExpires
<1>2. Counted /\ TicketsHeld
  BY CountedIsEnough
<1>3. Holders' = Holders
  BY <1>1 DEF Holders
<1>4. \A b \in Buckets : budget'.held[b] <= Cardinality(Holders \cap (Users(b) \ Local))
  <2> SUFFICES ASSUME NEW b \in Buckets
               PROVE  budget'.held[b] <= Cardinality(Holders \cap (Users(b) \ Local))
    OBVIOUS
  <2>1. Holders \cap (Users(b) \ Local) \in SUBSET Orders
    BY DEF Holders
  <2>2. Cardinality(Holders \cap (Users(b) \ Local)) \in Nat
    BY <2>1, CountSubset
  <2>3. budget'.held[b] = 0
    BY <1>1 DEF NoHolds, Nothing
  <2>4. QED
    BY <2>2, <2>3
<1>5. Counted'
  BY <1>1, <1>2, <1>3, <1>4 DEF Counted, Users
<1>6. TicketsHeld'
  BY <1>1, <1>2 DEF TicketsHeld
<1>7. QED
  BY <1>5, <1>6, CountedIsEnoughNext

(* A process ends: its ledger and those who held of it go together. *)
LEMMA TicketsGone ==
  ASSUME TypeOK, HoldInv, ProcessRestarts
  PROVE  HoldInv'
<1>1. ledger' = NoTickets /\ budget' = budget
  BY DEF ProcessRestarts
<1>2. Counted /\ TicketsHeld
  BY CountedIsEnough
<1>3. \A o \in Orders : IF o \in Local THEN ~sub'[o].hold /\ sub'[o].pc \in {"new", "done"}
                                       ELSE sub'[o] = sub[o]
  BY DEF TypeOK, ProcessRestarts
<1>4. TicketsHeld'
  BY <1>2, <1>3 DEF TicketsHeld
<1>5. Holders' \cap Local = {}
  BY <1>3 DEF Holders
<1>6. \A b \in Buckets : /\ Holders' \cap (Users(b) \cap Local) = {}
                        /\ Holders' \cap (Users(b) \ Local) = Holders \cap (Users(b) \ Local)
  BY <1>3 DEF Holders
<1>7. Cardinality({}) = 0
  BY FS_EmptySet
<1>8. ledger'.orders = 0 /\ \A b \in Buckets : ledger'.held[b] = 0
  BY <1>1 DEF NoTickets, Nothing
<1>9. /\ ledger'.orders = Cardinality(Holders' \cap Local)
      /\ OpenCeiling # 0 => ledger'.orders <= OpenCeiling
  <2>1. Cardinality(Holders' \cap Local) = 0
    BY <1>5, <1>7
  <2>2. OpenCeiling \in Nat
    BY RiskAssumption
  <2>3. QED
    BY <1>8, <2>1, <2>2
<1>10. ASSUME NEW b \in Buckets
       PROVE  /\ ledger'.held[b] = Cardinality(Holders' \cap (Users(b) \cap Local))
              /\ budget'.held[b] <= Cardinality(Holders' \cap (Users(b) \ Local))
              /\ ledger'.held[b] <= Ceiling[b]
  <2>1. Cardinality(Holders' \cap (Users(b) \cap Local)) = 0
    BY <1>6, <1>7
  <2>2. budget.held[b] <= Cardinality(Holders \cap (Users(b) \ Local))
    BY <1>2 DEF Counted
  <2>3. Cardinality(Holders' \cap (Users(b) \ Local)) =
         Cardinality(Holders \cap (Users(b) \ Local))
    BY <1>6
  <2>4. Ceiling[b] \in Nat
    BY RiskAssumption
  <2>5. QED
    BY <1>1, <1>8, <2>1, <2>2, <2>3, <2>4
<1>11. Counted'
  BY <1>9, <1>10 DEF Counted, Users
<1>12. QED
  BY <1>4, <1>11, CountedIsEnoughNext

LEMMA HoldInvStep ==
  ASSUME TypeOK, Fresh, HoldInv, [Next]_vars
  PROVE  HoldInv'
<1>1. CASE UNCHANGED vars
  BY <1>1 DEF vars, HoldInv, CountsWhatIsHeld, WithinCeiling, TicketsHeld, Holders, HoldersOf
<1>2. CASE TimePasses
  <2>1. \A o \in Orders : sub'[o].pc = sub[o].pc /\ sub'[o].hold = sub[o].hold
    BY <1>2 DEF TypeOK, TimePasses
  <2>2. Holders' = Holders /\ ledger' = ledger /\ budget' = budget
    BY <1>2, <2>1 DEF Holders, TimePasses
  <2>3. Counted /\ TicketsHeld
    BY CountedIsEnough
  <2>4. Counted' /\ TicketsHeld'
    BY <2>1, <2>2, <2>3 DEF Counted, TicketsHeld, Users
  <2>5. QED
    BY <2>4, CountedIsEnoughNext
<1>3. CASE HashExpires
  BY <1>3, HashGone
<1>4. CASE ProcessRestarts
  BY <1>4, TicketsGone
<1>5. ASSUME NEW o \in Orders,
             RateGranted(o) \/ RateRefused(o) \/ GateStep(o) \/ SlotStep(o) \/ Another(o)
      PROVE  HoldInv'
  <2>1. sub[o] \in SubRecord
    BY DEF TypeOK
  <2>2. ASSUME NEW pc \in {"done", "undoing", "releasing"}, Become(o, Goes(o, pc)),
               UNCHANGED <<ledger, budget, window>>, pc = "releasing" => sub[o].pc = "reserved"
        PROVE  HoldInv'
    <3>1. Goes(o, pc).pc = pc /\ Goes(o, pc).hold = sub[o].hold
      BY <2>1 DEF Goes
    <3>2. pc = "releasing" => sub[o].hold
      BY <2>2 DEF HoldInv, TicketsHeld
    <3>3. QED
      BY <2>2, <3>1, <3>2, HoldsKept
  <2>3. ASSUME NEW pc \in {"counted", "done"}, TakesSlots(o, pc)
        PROVE  HoldInv'
    <3> DEFINE r == [Goes(o, pc) EXCEPT !.inSecond = TRUE, !.inMinute = TRUE]
    <3>1. r.pc = pc /\ r.hold = sub[o].hold
      BY <2>1 DEF Goes
    <3>2. Become(o, r) /\ UNCHANGED <<ledger, budget>>
      BY <2>3 DEF TakesSlots
    <3> HIDE DEF r
    <3>3. QED
      BY <3>1, <3>2, HoldsKept
  <2>4. CASE RateGranted(o)
    BY <2>3, <2>4 DEF RateGranted
  <2>5. CASE RateRefused(o)
    BY <2>2, <2>3, <2>5 DEF RateRefused
  <2>6. CASE GateStep(o)
    BY <2>2, <2>6, HoldTaken
    DEF GateStep, ReservationGranted, ReservationDenied, ReservationFails
  <2>7. CASE RateRolledBack(o)
    <3> DEFINE r == [Goes(o, "done") EXCEPT !.inSecond = FALSE, !.inMinute = FALSE]
    <3>1. r.pc = "done" /\ r.hold = sub[o].hold
      BY <2>1 DEF Goes
    <3>2. Become(o, r) /\ UNCHANGED <<ledger, budget>>
      BY <2>7 DEF RateRolledBack
    <3> HIDE DEF r
    <3>3. QED
      BY <3>1, <3>2, HoldsKept
  <2>8. CASE SlotStep(o)
    BY <2>2, <2>7, <2>8, HoldReturned
    DEF SlotStep, OrderMayExist, OrderDoesNotExist, Released, ReleaseFails, Abandoned
  <2>9. CASE Another(o)
    <3>1. NewOrder.pc = "new" /\ NewOrder.hold = FALSE
      BY DEF NewOrder
    <3>2. Become(o, NewOrder) /\ UNCHANGED <<ledger, budget>> /\ sub[o].hold = FALSE
      BY <2>1, <2>9 DEF Another
    <3>3. QED
      BY <3>1, <3>2, HoldsKept
  <2>10. QED
    BY <1>5, <2>4, <2>5, <2>6, <2>8, <2>9
<1>6. QED
  BY <1>1, <1>2, <1>3, <1>4, <1>5 DEF Next

LEMMA HoldInvInit == Init => HoldInv
<1> SUFFICES ASSUME Init PROVE HoldInv
  OBVIOUS
<1>1. /\ ledger.orders = 0 /\ \A b \in Buckets : ledger.held[b] = 0 /\ budget.held[b] = 0
      /\ \A o \in Orders : ~sub[o].hold /\ sub[o].pc = "new"
  BY DEF Init, NoTickets, NoHolds, Nothing, NewOrder
<1>2. Holders = {} /\ Cardinality({}) = 0
  BY <1>1, FS_EmptySet DEF Holders
<1>3. \A b \in Buckets : HoldersOf(b) = {}
  BY <1>2 DEF HoldersOf
<1>4. CountsWhatIsHeld
  <2>1. Cardinality(Holders \cap Local) = 0
    BY <1>2
  <2>2. \A b \in Buckets : /\ Cardinality(HoldersOf(b) \cap Local) = 0
                          /\ Cardinality(HoldersOf(b) \ Local) = 0
    BY <1>2, <1>3
  <2>3. QED
    BY <1>1, <2>1, <2>2 DEF CountsWhatIsHeld
<1>5. WithinCeiling
  <2>1. Cardinality(Holders \cap Local) = 0
    BY <1>2
  <2>2. \A b \in Buckets : Cardinality(HoldersOf(b) \cap Local) = 0
    BY <1>2, <1>3
  <2>3. OpenCeiling \in Nat /\ \A b \in Buckets : Ceiling[b] \in Nat
    BY RiskAssumption
  <2>4. QED
    BY <2>1, <2>2, <2>3 DEF WithinCeiling
<1>6. QED
  BY <1>1, <1>4, <1>5 DEF HoldInv, TicketsHeld

LEMMA HoldInvHolds == Spec => []HoldInv
<1>1. RateInv /\ HoldInv /\ [Next]_vars => HoldInv'
  BY HoldInvStep DEF RateInv
<1>2. QED
  BY <1>1, HoldInvInit, RateInvHolds, PTL DEF Spec

(* The local ledger counts exactly what its submissions hold, the hash of Redis never
   more than is held (ledger.py), whichever submissions fail, end halfway or are
   repeated, and whenever the hash expires. *)
THEOREM HoldsAreCounted == Spec => []CountsWhatIsHeld
<1>1. HoldInv => CountsWhatIsHeld
  BY DEF HoldInv
<1>2. QED
  BY <1>1, HoldInvHolds, PTL

(* The submissions of a process with the local ledger stay within every ceiling,
   that of the open orders included (LocalReservationLedger). *)
THEOREM CeilingsHold == Spec => []WithinCeiling
<1>1. HoldInv => WithinCeiling
  BY DEF HoldInv
<1>2. QED
  BY <1>1, HoldInvHolds, PTL
================================================================================
