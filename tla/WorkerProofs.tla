------------------------------ MODULE WorkerProofs ------------------------------
(***************************************************************************)
(* Theorems about WorkerCoordination, for any number of workers and        *)
(* partitions, any scores and configurations, and any durations.           *)
(***************************************************************************)
EXTENDS WorkerCoordination, WellFoundedInduction, FiniteSetTheorems, TLAPS

(* The partitions still to be claimed, or released, have a first. *)
LEMMA FirstIsOneOfThem ==
  ASSUME NEW ps \in SUBSET Nat, ps # {}
  PROVE  First(ps) \in ps
<1> DEFINE less == OpToRel(<, Nat)
<1>1. IsWellFoundedOn(less, Nat)
  BY NatLessThanWellFounded DEF OpToRel
<1>2. \A m, n \in Nat : m < n => <<m, n>> \in less
  BY DEF OpToRel
<1> HIDE DEF less
<1>3. PICK p \in ps : \A q \in ps : ~(<<q, p>> \in less)
  BY <1>1, WFMin
<1>4. ASSUME NEW q \in ps PROVE p <= q
  <2>1. p \in Nat /\ q \in Nat
    OBVIOUS
  <2>2. ~(q < p)
    BY <1>2, <1>3, <2>1
  <2> QED BY <2>1, <2>2
<1> QED BY <1>4 DEF First

--------------------------------------------------------------------------------
(* What TypeOK says of one worker. *)
WellFormed(s) ==
  /\ s \in Worker
  /\ s.pc = "renewing" => s.todo # {}
  /\ s.pc \in {"idle", "pinging"} => s.got = {}

(* A step of one worker leaves the types alone if its new state is well formed. *)
LEMMA BecomesWellFormed ==
  ASSUME TypeOK, NEW w \in Workers, NEW s, WellFormed(s), Become(w, s),
         lease' \in [Partitions -> Lease], fleet' \in SUBSET Workers
  PROVE  TypeOK'
<1>1. wkr' = [wkr EXCEPT ![w] = s] /\ wkr \in [Workers -> Worker]
  BY DEF Become, TypeOK
<1>2. wkr' \in [Workers -> Worker]
  BY <1>1 DEF WellFormed
<1>3. \A v \in Workers : wkr'[v] = IF v = w THEN s ELSE wkr[v]
  BY <1>1
<1> QED BY <1>2, <1>3 DEF TypeOK, WellFormed

LEMMA GrantIsTyped ==
  ASSUME lease \in [Partitions -> Lease], NEW w \in Workers, NEW p, Grant(w, p)
  PROVE  lease' \in [Partitions -> Lease]
<1>1. [owner |-> w, left |-> LeaseTTL] \in Lease
  BY WorkerAssumption DEF Lease
<1> QED BY <1>1 DEF Grant

LEMMA FreeIsTyped == Free \in Lease
BY WorkerAssumption DEF Free, Lease

(* Time, and the death of a worker, in the state of a worker. *)
LEMMA AgedIsWellFormed ==
  ASSUME NEW s, WellFormed(s), s.pc \in TickPcs => s.took < Slow
  PROVE  WellFormed(Aged(s))
<1> DEFINE age == IF s.age > StaleAfter THEN s.age ELSE s.age + 1
           took == IF s.pc \in TickPcs THEN s.took + 1 ELSE s.took
<1>1. age \in 0 .. StaleAfter + 1 /\ took \in 0 .. Slow
  BY WorkerAssumption DEF WellFormed, Worker
<1>2. Aged(s) = [s EXCEPT !.age = age, !.took = took]
  BY DEF Aged, WellFormed, Worker
<1> HIDE DEF age, took
<1> QED BY <1>1, <1>2 DEF WellFormed, Worker

LEMMA FreshIsWellFormed == WellFormed(Started) /\ WellFormed(Down)
<1>1. StaleAfter + 1 \in 0 .. StaleAfter + 1 /\ 0 \in 0 .. Slow
  BY WorkerAssumption
<1>2. Started \in Worker /\ Started.pc = "idle" /\ Started.got = {}
  BY <1>1 DEF Started, Worker
<1>3. Down \in Worker /\ Down.pc = "down"
  BY <1>2 DEF Down, Worker
<1> QED BY <1>2, <1>3 DEF WellFormed

LEMMA WantedIsTyped ==
  ASSUME NEW w, NEW members
  PROVE  Wanted(w, members) \in SUBSET Partitions
BY DEF Wanted

LEMMA ShortenedIsTyped ==
  ASSUME NEW l \in Lease
  PROVE  Shortened(l) \in Lease
<1>1. CASE l.left <= 1
  BY <1>1, FreeIsTyped DEF Shortened
<1>2. CASE ~(l.left <= 1)
  <2>1. /\ l \in [owner : Workers \cup {None}, left : 0 .. LeaseTTL]
        /\ l.left \in 0 .. LeaseTTL /\ l.owner \in Workers \cup {None}
        /\ l.owner = None <=> l.left = 0
    BY DEF Lease
  <2>2. l.left - 1 \in 0 .. LeaseTTL /\ l.left - 1 # 0 /\ l.owner # None
    BY <1>2, <2>1, WorkerAssumption
  <2>3. Shortened(l) = [owner |-> l.owner, left |-> l.left - 1]
    BY <1>2, <2>1 DEF Shortened
  <2> QED BY <2>1, <2>2, <2>3 DEF Lease
<1> QED BY <1>1, <1>2

(* A claim answered, won or not, in the state of a worker. *)
LEMMA ClaimedIsWellFormed ==
  ASSUME TypeOK, NEW w \in Workers, NEW won \in BOOLEAN, wkr[w].todo # {}
  PROVE  /\ First(wkr[w].todo) \in Partitions
         /\ WellFormed(Claimed(w, won))
         /\ Claimed(w, won) =
              [wkr[w] EXCEPT !.pc = "claiming",
                 !.todo = wkr[w].todo \ {First(wkr[w].todo)},
                 !.got = IF won THEN wkr[w].got \cup {First(wkr[w].todo)}
                                ELSE wkr[w].got]
<1> DEFINE p == First(wkr[w].todo)
           got == IF won THEN wkr[w].got \cup {p} ELSE wkr[w].got
<1>1. wkr[w] \in Worker
  BY DEF TypeOK
<1>2. wkr[w].todo \in SUBSET Partitions /\ wkr[w].got \in SUBSET Partitions
  BY <1>1 DEF Worker
<1>3. p \in Partitions
  BY <1>2, FirstIsOneOfThem, WorkerAssumption
<1>4. Claimed(w, won) =
        [wkr[w] EXCEPT !.pc = "claiming", !.todo = wkr[w].todo \ {p}, !.got = got]
  BY <1>1 DEF Claimed, Worker
<1>5. got \in SUBSET Partitions /\ wkr[w].todo \ {p} \in SUBSET Partitions
  BY <1>2, <1>3
<1> HIDE DEF got
<1>6. WellFormed(Claimed(w, won))
  BY <1>1, <1>4, <1>5 DEF WellFormed, Worker, TickPcs
<1> QED BY <1>3, <1>4, <1>6 DEF got

LEMMA ClaimingIsWellFormed ==
  ASSUME TypeOK, NEW w \in Workers, NEW members, NEW known \in SUBSET Workers
  PROVE  /\ WellFormed(Claiming(w, members))
         /\ WellFormed([Claiming(w, members) EXCEPT !.known = known])
<1>1. wkr[w] \in Worker /\ Wanted(w, members) \in SUBSET Partitions
  BY WantedIsTyped DEF TypeOK
<1> QED BY <1>1 DEF Claiming, WellFormed, Worker, TickPcs

(* The ends of a tick and of a worker, in the state of a worker. *)
LEMMA EndsAreWellFormed ==
  ASSUME NEW s, WellFormed(s)
  PROVE  /\ WellFormed([s EXCEPT !.pc = "idle", !.held = s.got, !.got = {},
                                 !.age = 0, !.took = 0])
         /\ WellFormed([s EXCEPT !.stopping = TRUE])
         /\ WellFormed([s EXCEPT !.pc = "releasing", !.todo = s.held])
<1>1. 0 \in 0 .. StaleAfter + 1 /\ 0 \in 0 .. Slow
  BY WorkerAssumption
<1>2. s \in Worker /\ s.got \in SUBSET Partitions /\ s.held \in SUBSET Partitions
  BY DEF WellFormed, Worker
<1>3. [s EXCEPT !.pc = "idle", !.held = s.got, !.got = {},
                !.age = 0, !.took = 0] \in Worker
  BY <1>1, <1>2 DEF Worker
<1>4. [s EXCEPT !.stopping = TRUE] \in Worker
  BY <1>2 DEF Worker
<1>5. [s EXCEPT !.pc = "releasing", !.todo = s.held] \in Worker
  BY <1>2 DEF Worker
<1>6. /\ [s EXCEPT !.stopping = TRUE].pc = s.pc
      /\ [s EXCEPT !.stopping = TRUE].todo = s.todo
      /\ [s EXCEPT !.stopping = TRUE].got = s.got
  BY <1>2 DEF Worker
<1>7. /\ [s EXCEPT !.pc = "idle", !.held = s.got, !.got = {},
                   !.age = 0, !.took = 0].pc = "idle"
      /\ [s EXCEPT !.pc = "idle", !.held = s.got, !.got = {},
                   !.age = 0, !.took = 0].got = {}
      /\ [s EXCEPT !.pc = "releasing", !.todo = s.held].pc = "releasing"
  BY <1>2 DEF Worker
<1> QED BY <1>3, <1>4, <1>5, <1>6, <1>7 DEF WellFormed

(* A step of WorkerCoordination keeps its types. *)
LEMMA TypeStep == TypeOK /\ [Next]_vars => TypeOK'
<1> SUFFICES ASSUME TypeOK, [Next]_vars PROVE TypeOK'
  OBVIOUS
<1>1. /\ lease \in [Partitions -> Lease] /\ fleet \in SUBSET Workers
      /\ wkr \in [Workers -> Worker]
      /\ \A w \in Workers : WellFormed(wkr[w])
  BY DEF TypeOK, WellFormed
<1>2. ASSUME NEW w \in Workers, WorkerStep(w) PROVE TypeOK'
  <2>1. CASE Start(w)
    BY <1>1, <2>1, FreshIsWellFormed, BecomesWellFormed DEF Start
  <2>2. CASE TickBegins(w)
    <3>1. WellFormed(Claiming(w, ConfigMembers[w]))
      BY ClaimingIsWellFormed
    <3>2. wkr[w] \in Worker /\ wkr[w].got = {}
      BY <1>1, <2>2 DEF TickBegins, WellFormed
    <3>3. WellFormed([wkr[w] EXCEPT !.pc = "pinging"])
      BY <3>2 DEF WellFormed, Worker, TickPcs
    <3> QED BY <1>1, <2>2, <3>1, <3>3, BecomesWellFormed DEF TickBegins
  <2>3. CASE PingAnswered(w)
    <3>1. fleet' \in SUBSET Workers
      BY <1>1, <2>3 DEF PingAnswered
    <3>2. WellFormed([Claiming(w, fleet') EXCEPT !.known = fleet'])
      BY <3>1, ClaimingIsWellFormed
    <3> QED BY <1>1, <2>3, <3>1, <3>2, BecomesWellFormed DEF PingAnswered
  <2>4. CASE PingFails(w)
    <3>1. fleet' \in SUBSET Workers
      BY <1>1, <2>4 DEF PingFails
    <3>2. WellFormed(Claiming(w, Fallback(w)))
      BY ClaimingIsWellFormed
    <3> QED BY <1>1, <2>4, <3>1, <3>2, BecomesWellFormed DEF PingFails
  <2>5. CASE SetAnswered(w)
    <3>1. WellFormed([wkr[w] EXCEPT !.pc = "renewing"])
      BY <1>1, <2>5 DEF SetAnswered, WellFormed, Worker, TickPcs
    <3>2. WellFormed(Claimed(w, TRUE))
      BY <2>5, ClaimedIsWellFormed DEF SetAnswered
    <3> QED BY <1>1, <2>5, <3>1, <3>2, GrantIsTyped, BecomesWellFormed DEF SetAnswered
  <2>6. CASE RenewAnswered(w)
    <3>1. wkr[w].todo # {}
      BY <2>6 DEF RenewAnswered, TypeOK
    <3>2. WellFormed(Claimed(w, TRUE)) /\ WellFormed(Claimed(w, FALSE))
      BY <3>1, ClaimedIsWellFormed
    <3> QED BY <1>1, <2>6, <3>2, GrantIsTyped, BecomesWellFormed DEF RenewAnswered
  <2>7. CASE ClaimFails(w)
    <3>1. WellFormed(Claimed(w, FALSE))
      BY <2>7, ClaimedIsWellFormed DEF ClaimFails
    <3>2. lease' \in [Partitions -> Lease]
      BY <1>1, <2>7, GrantIsTyped DEF ClaimFails
    <3> QED BY <1>1, <2>7, <3>1, <3>2, BecomesWellFormed DEF ClaimFails
  <2>8. CASE TickEnds(w)
    <3>1. WellFormed([wkr[w] EXCEPT !.pc = "idle", !.held = wkr[w].got, !.got = {},
                                    !.age = 0, !.took = 0])
      BY <1>1, EndsAreWellFormed
    <3> QED BY <1>1, <2>8, <3>1, BecomesWellFormed DEF TickEnds
  <2>9. CASE Stop(w)
    <3>1. WellFormed([wkr[w] EXCEPT !.stopping = TRUE])
      BY <1>1, EndsAreWellFormed
    <3> QED BY <1>1, <2>9, <3>1, BecomesWellFormed DEF Stop
  <2>10. CASE Resign(w)
    <3>1. WellFormed([wkr[w] EXCEPT !.pc = "releasing", !.todo = wkr[w].held])
      BY <1>1, EndsAreWellFormed
    <3> QED BY <1>1, <2>10, <3>1, BecomesWellFormed DEF Resign
  <2>11. CASE Release(w)
    <3> DEFINE rest == wkr[w].todo \ {First(wkr[w].todo)}
    <3>1. [wkr[w] EXCEPT !.todo = @ \ {First(wkr[w].todo)}] =
            [wkr[w] EXCEPT !.todo = rest]
      OBVIOUS
    <3>2. rest \in SUBSET Partitions
      BY <1>1 DEF Worker
    <3> HIDE DEF rest
    <3>3. WellFormed([wkr[w] EXCEPT !.todo = rest])
      BY <1>1, <2>11, <3>2 DEF Release, WellFormed, Worker
    <3>4. lease' \in [Partitions -> Lease]
      BY <1>1, <2>11, FreeIsTyped DEF Release, Delete
    <3> QED BY <1>1, <2>11, <3>1, <3>3, <3>4, BecomesWellFormed DEF Release
  <2>12. CASE Exit(w) \/ Crash(w)
    BY <1>1, <2>12, FreshIsWellFormed, BecomesWellFormed DEF Exit, Crash
  <2> QED BY <1>2, <2>1, <2>2, <2>3, <2>4, <2>5, <2>6, <2>7, <2>8, <2>9, <2>10,
             <2>11, <2>12 DEF WorkerStep, TickStep
<1>3. ASSUME NEW w \in Workers, HeartbeatExpires(w) PROVE TypeOK'
  BY <1>1, <1>3 DEF HeartbeatExpires, TypeOK
<1>4. CASE TimePasses
  <2>1. lease' \in [Partitions -> Lease]
    BY <1>1, <1>4, ShortenedIsTyped DEF TimePasses
  <2>2. \A w \in Workers : wkr'[w] = IF Up(w) THEN Aged(wkr[w]) ELSE wkr[w]
    BY <1>4 DEF TimePasses
  <2>3. \A w \in Workers : WellFormed(wkr'[w])
    BY <1>1, <1>4, <2>2, AgedIsWellFormed DEF TimePasses
  <2>4. wkr' \in [Workers -> Worker]
    BY <1>4, <2>2, <2>3 DEF TimePasses, WellFormed
  <2> QED BY <1>1, <1>4, <2>1, <2>3, <2>4 DEF TimePasses, TypeOK, WellFormed
<1>5. CASE UNCHANGED vars
  BY <1>5 DEF vars, TypeOK
<1> QED BY <1>2, <1>3, <1>4, <1>5 DEF Next

(* TypeOK: whatever fails, restarts or comes late, a claim has an owner exactly as
   long as it has time left, and what a worker has in hand are partitions. *)
THEOREM WorkersTypeCorrect == Spec => []TypeOK
<1>1. Init => TypeOK
  BY FreshIsWellFormed, FreeIsTyped DEF Init, TypeOK, WellFormed
<1> QED BY <1>1, TypeStep, PTL DEF Spec

--------------------------------------------------------------------------------
(* What ClaimsOutlastVerdicts says of one worker, of its state and the claims. *)
Backed(w, s, l) ==
  /\ s.pc \in TickPcs =>
       \A p \in s.got : l[p].owner = w /\ l[p].left + s.took >= LeaseTTL
  /\ s.pc # "down" /\ s.age <= StaleAfter =>
       \A p \in s.held \ GivenBack(s) :
         l[p].owner = w /\ l[p].left + s.age + Slow >= LeaseTTL

LEMMA BackedWorkers ==
  ClaimsOutlastVerdicts <=> \A w \in Workers : Backed(w, wkr[w], lease)
BY DEF ClaimsOutlastVerdicts, Backed, Up

LEMMA BackedWorkersNext ==
  ClaimsOutlastVerdicts' <=> \A w \in Workers : Backed(w, wkr'[w], lease')
BY DEF ClaimsOutlastVerdicts, Backed, Up

(* The step leaves a worker its claims, for at least as long. *)
Kept(w) ==
  \A p \in Partitions :
    lease[p].owner = w => lease'[p].owner = w /\ lease'[p].left >= lease[p].left

LEMMA BackedIsKept ==
  ASSUME TypeOK, lease' \in [Partitions -> Lease], NEW w \in Workers,
         NEW s \in Worker, Backed(w, s, lease), Kept(w)
  PROVE  Backed(w, s, lease')
<1>1. s.got \in SUBSET Partitions /\ s.held \in SUBSET Partitions
      /\ s.age \in Nat /\ s.took \in Nat
  BY WorkerAssumption DEF Worker
<1>2. \A p \in Partitions : lease[p].left \in Nat /\ lease'[p].left \in Nat
  BY WorkerAssumption DEF TypeOK, Lease
<1>3. ASSUME s.pc \in TickPcs, NEW p \in s.got
      PROVE  lease'[p].owner = w /\ lease'[p].left + s.took >= LeaseTTL
  <2>1. p \in Partitions /\ lease[p].owner = w /\ lease[p].left + s.took >= LeaseTTL
    BY <1>1, <1>3 DEF Backed
  <2> QED BY <1>1, <1>2, <2>1, WorkerAssumption DEF Kept
<1>4. ASSUME s.pc # "down", s.age <= StaleAfter, NEW p \in s.held \ GivenBack(s)
      PROVE  lease'[p].owner = w /\ lease'[p].left + s.age + Slow >= LeaseTTL
  <2>1. /\ p \in Partitions /\ lease[p].owner = w
        /\ lease[p].left + s.age + Slow >= LeaseTTL
    BY <1>1, <1>4 DEF Backed
  <2> QED BY <1>1, <1>2, <2>1, WorkerAssumption DEF Kept
<1> QED BY <1>3, <1>4 DEF Backed

(* A step of one worker that takes nobody else's claim. *)
LEMMA WorkerMoves ==
  ASSUME TypeOK, TypeOK', ClaimsOutlastVerdicts, NEW w \in Workers, NEW s,
         Become(w, s), Backed(w, s, lease'), \A v \in Workers \ {w} : Kept(v)
  PROVE  ClaimsOutlastVerdicts'
<1> SUFFICES ASSUME NEW v \in Workers PROVE Backed(v, wkr'[v], lease')
  BY BackedWorkersNext
<1>1. wkr'[v] = IF v = w THEN s ELSE wkr[v]
  BY DEF Become, TypeOK
<1>2. CASE v # w
  <2>1. wkr[v] \in Worker /\ Backed(v, wkr[v], lease) /\ Kept(v)
    BY <1>2, BackedWorkers DEF TypeOK
  <2> QED BY <1>1, <1>2, <2>1, BackedIsKept DEF TypeOK
<1> QED BY <1>1, <1>2

LEMMA GrantKeeps ==
  ASSUME TypeOK, NEW w \in Workers, NEW p \in Partitions, Grant(w, p),
         lease[p] = Free \/ lease[p].owner = w, NEW v \in Workers
  PROVE  /\ Kept(v)
         /\ lease'[p] = [owner |-> w, left |-> LeaseTTL]
<1>1. \A q \in Partitions : lease'[q] = IF q = p THEN [owner |-> w, left |-> LeaseTTL]
                                                 ELSE lease[q]
  BY DEF Grant, TypeOK
<1>2. \A q \in Partitions : lease[q].left \in 0 .. LeaseTTL
  BY DEF TypeOK, Lease
<1>3. lease[p].owner \in {w, None} /\ v # None
  BY WorkerAssumption DEF Free
<1> QED BY <1>1, <1>2, <1>3, WorkerAssumption DEF Kept

LEMMA NothingTaken ==
  ASSUME TypeOK, UNCHANGED lease, NEW v \in Workers
  PROVE  Kept(v)
<1>1. \A q \in Partitions : lease[q].left \in 0 .. LeaseTTL
  BY DEF TypeOK, Lease
<1> QED BY <1>1, WorkerAssumption DEF Kept

(* A claim won, or not, leaves the worker what it has won so far. *)
LEMMA ClaimedIsBacked ==
  ASSUME TypeOK, lease' \in [Partitions -> Lease], NEW w \in Workers,
         wkr[w].pc \in {"claiming", "renewing"}, wkr[w].todo # {},
         Backed(w, wkr[w], lease), Kept(w), NEW won \in BOOLEAN,
         won => lease'[First(wkr[w].todo)] = [owner |-> w, left |-> LeaseTTL]
  PROVE  Backed(w, Claimed(w, won), lease')
<1> DEFINE p == First(wkr[w].todo)
           got == IF won THEN wkr[w].got \cup {p} ELSE wkr[w].got
           s == Claimed(w, won)
<1>1. wkr[w] \in Worker
  BY DEF TypeOK
<1>2. s = [wkr[w] EXCEPT !.pc = "claiming", !.todo = wkr[w].todo \ {p}, !.got = got]
  BY ClaimedIsWellFormed
<1> HIDE DEF s
<1>3. /\ s.pc = "claiming" /\ s.got = got /\ s.held = wkr[w].held
      /\ s.age = wkr[w].age /\ s.took = wkr[w].took
  BY <1>1, <1>2 DEF Worker
<1>4. Backed(w, wkr[w], lease')
  BY <1>1, BackedIsKept
<1>5. wkr[w].took \in Nat
  BY <1>1, WorkerAssumption DEF Worker
<1>6. ASSUME NEW q \in got
      PROVE  lease'[q].owner = w /\ lease'[q].left + wkr[w].took >= LeaseTTL
  <2>1. CASE q \in wkr[w].got
    BY <1>4, <2>1 DEF Backed, TickPcs
  <2>2. CASE q \notin wkr[w].got
    <3>1. won /\ q = p
      BY <2>2
    <3>2. lease'[q].owner = w /\ lease'[q].left = LeaseTTL
      BY <3>1
    <3> QED BY <1>5, <3>2, WorkerAssumption
  <2> QED BY <2>1, <2>2
<1>7. \A q \in s.held : wkr[w].age <= StaleAfter =>
        lease'[q].owner = w /\ lease'[q].left + wkr[w].age + Slow >= LeaseTTL
  BY <1>3, <1>4 DEF Backed, GivenBack
<1> HIDE DEF got
<1>8. Backed(w, s, lease')
  BY <1>3, <1>6, <1>7 DEF Backed
<1> QED BY <1>8 DEF s

(* The fleet believed in, the wanted partitions and what is to be done play no part
   in what backs a verdict. *)
LEMMA ClaimingIsBacked ==
  ASSUME TypeOK, NEW w \in Workers, NEW members, NEW l,
         wkr[w].pc \in {"idle", "pinging"}, Backed(w, wkr[w], l)
  PROVE  Backed(w, Claiming(w, members), l)
<1> DEFINE s == Claiming(w, members)
<1>1. wkr[w] \in Worker
  BY DEF TypeOK
<1>2. /\ s.held = wkr[w].held /\ s.age = wkr[w].age /\ s.took = wkr[w].took
      /\ s.got = {}
  BY <1>1 DEF Claiming, Worker
<1> HIDE DEF s
<1>3. Backed(w, s, l)
  BY <1>2 DEF Backed, GivenBack
<1> QED BY <1>3 DEF s

LEMMA KnowingIsBacked ==
  ASSUME TypeOK, NEW w \in Workers, NEW members, NEW known, NEW l,
         Backed(w, Claiming(w, members), l)
  PROVE  Backed(w, [Claiming(w, members) EXCEPT !.known = known], l)
<1> DEFINE s == Claiming(w, members)
           t == [s EXCEPT !.known = known]
<1>1. wkr[w] \in Worker
  BY DEF TypeOK
<1>2. /\ t.pc = s.pc /\ t.got = s.got /\ t.held = s.held
      /\ t.age = s.age /\ t.took = s.took /\ t.todo = s.todo
  BY <1>1 DEF Claiming, Worker
<1> HIDE DEF s, t
<1>3. Backed(w, s, l)
  BY DEF s
<1>4. Backed(w, t, l)
  BY <1>2, <1>3 DEF Backed, GivenBack
<1> QED BY <1>4 DEF t, s

LEMMA FreshIsBacked ==
  ASSUME NEW w, NEW l
  PROVE  Backed(w, Started, l) /\ Backed(w, Down, l)
BY DEF Backed, Started, Down, TickPcs

(* Time shortens every claim by a unit, and makes a verdict, and the tick in flight,
   older by one: this is where the claims have to last long enough. *)
LEMMA TimeBacks ==
  ASSUME LeaseTTL > Slow + StaleAfter, TypeOK, TimePasses,
         NEW w \in Workers, Up(w), Backed(w, wkr[w], lease)
  PROVE  Backed(w, Aged(wkr[w]), lease')
<1> DEFINE s == wkr[w]
           t == Aged(wkr[w])
           age == IF s.age > StaleAfter THEN s.age ELSE s.age + 1
           took == IF s.pc \in TickPcs THEN s.took + 1 ELSE s.took
<1>1. s \in Worker
  BY DEF TypeOK
<1>2. t = [s EXCEPT !.age = age, !.took = took]
  BY <1>1 DEF Aged, Worker
<1>3. /\ s.age \in Nat /\ s.took \in Nat /\ (s.pc \in TickPcs => s.took < Slow)
      /\ s.got \in SUBSET Partitions /\ s.held \in SUBSET Partitions
  BY <1>1, WorkerAssumption DEF Worker, TimePasses
<1> HIDE DEF s, t, age, took
<1>4. /\ t.pc = s.pc /\ t.got = s.got /\ t.held = s.held
      /\ t.age = age /\ t.took = took /\ t.todo = s.todo
  BY <1>1, <1>2 DEF Worker
<1>5. ASSUME NEW p \in Partitions, lease[p].left > 1
      PROVE  lease'[p].owner = lease[p].owner /\ lease'[p].left = lease[p].left - 1
  <2>1. lease'[p] = Shortened(lease[p]) /\ lease[p] \in Lease
    BY DEF TimePasses, TypeOK
  <2>2. /\ lease[p] \in [owner : Workers \cup {None}, left : 0 .. LeaseTTL]
        /\ ~(lease[p].left <= 1)
    BY <1>5, <2>1, WorkerAssumption DEF Lease
  <2> QED BY <2>1, <2>2 DEF Shortened
<1>6. ASSUME NEW p \in Partitions PROVE lease[p].left \in Nat
  <2>1. lease[p] \in [owner : Workers \cup {None}, left : 0 .. LeaseTTL]
    BY DEF TypeOK, Lease
  <2> QED BY <2>1, WorkerAssumption
<1>7. ASSUME t.pc \in TickPcs, NEW p \in t.got
      PROVE  lease'[p].owner = w /\ lease'[p].left + t.took >= LeaseTTL
  <2>1. /\ p \in Partitions /\ s.took < Slow /\ took = s.took + 1
        /\ lease[p].owner = w /\ lease[p].left + s.took >= LeaseTTL
    BY <1>3, <1>4, <1>7 DEF Backed, s, took
  <2>2. lease[p].left > 1
    BY <1>3, <1>6, <2>1, WorkerAssumption
  <2> QED BY <1>3, <1>4, <1>5, <1>6, <2>1, <2>2, WorkerAssumption
<1>8. ASSUME t.pc # "down", t.age <= StaleAfter, NEW p \in t.held \ GivenBack(t)
      PROVE  lease'[p].owner = w /\ lease'[p].left + t.age + Slow >= LeaseTTL
  <2>1. age = s.age + 1 /\ s.age + 1 <= StaleAfter
    BY <1>3, <1>4, <1>8, WorkerAssumption DEF age
  <2>2. /\ p \in Partitions /\ lease[p].owner = w
        /\ lease[p].left + s.age + Slow >= LeaseTTL
    BY <1>3, <1>4, <1>8, <2>1, WorkerAssumption DEF Backed, GivenBack, s
  <2>3. lease[p].left > 1
    BY <1>3, <1>6, <2>1, <2>2, WorkerAssumption
  <2> QED BY <1>3, <1>4, <1>5, <1>6, <2>1, <2>2, <2>3, WorkerAssumption
<1>9. Backed(w, t, lease')
  BY <1>7, <1>8 DEF Backed
<1> QED BY <1>9 DEF t

LEMMA BackedStep ==
  ASSUME LeaseTTL > Slow + StaleAfter, TypeOK, ClaimsOutlastVerdicts, [Next]_vars
  PROVE  ClaimsOutlastVerdicts'
<1>1. TypeOK' /\ lease' \in [Partitions -> Lease]
  BY TypeStep DEF TypeOK
<1>2. \A w \in Workers : wkr[w] \in Worker /\ Backed(w, wkr[w], lease)
  BY BackedWorkers DEF TypeOK
<1>3. ASSUME NEW w \in Workers, WorkerStep(w) PROVE ClaimsOutlastVerdicts'
  <2> DEFINE p == First(wkr[w].todo)
  <2>1. ASSUME UNCHANGED lease, NEW s, Become(w, s), Backed(w, s, lease)
        PROVE  ClaimsOutlastVerdicts'
    <3>1. Backed(w, s, lease')
      BY <2>1
    <3>2. \A v \in Workers \ {w} : Kept(v)
      BY <2>1, NothingTaken
    <3> QED BY <1>1, <2>1, <3>1, <3>2, WorkerMoves
  <2>2. ASSUME wkr[w].pc \in {"claiming", "renewing"}, wkr[w].todo # {}, Grant(w, p),
               lease[p] = Free \/ lease[p].owner = w,
               NEW won \in BOOLEAN, Become(w, Claimed(w, won))
        PROVE  ClaimsOutlastVerdicts'
    <3> HIDE DEF p
    <3>1. p \in Partitions
      BY <2>2, ClaimedIsWellFormed DEF p
    <3>2. \A v \in Workers : Kept(v)
      BY <2>2, <3>1, GrantKeeps
    <3>3. lease'[p] = [owner |-> w, left |-> LeaseTTL]
      BY <2>2, <3>1, GrantKeeps
    <3>4. Backed(w, Claimed(w, won), lease')
      BY <1>1, <1>2, <2>2, <3>2, <3>3, ClaimedIsBacked DEF p
    <3> QED BY <1>1, <2>2, <3>2, <3>4, WorkerMoves
  <2>3. ASSUME wkr[w].pc \in {"claiming", "renewing"}, wkr[w].todo # {},
               UNCHANGED lease, Become(w, Claimed(w, FALSE))
        PROVE  ClaimsOutlastVerdicts'
    <3>1. Kept(w)
      BY <2>3, NothingTaken
    <3>2. Backed(w, Claimed(w, FALSE), lease')
      BY <1>1, <1>2, <2>3, <3>1, ClaimedIsBacked
    <3> QED BY <2>1, <2>3, <3>2
  <2>4. CASE Start(w)
    BY <2>1, <2>4, FreshIsBacked DEF Start
  <2>5. CASE TickBegins(w)
    <3>1. Backed(w, Claiming(w, ConfigMembers[w]), lease)
      <4>1. wkr[w].pc \in {"idle", "pinging"} /\ Backed(w, wkr[w], lease)
        BY <1>2, <2>5 DEF TickBegins
      <4> DEFINE members == ConfigMembers[w]
      <4> HIDE DEF members
      <4>2. Backed(w, Claiming(w, members), lease)
        BY <4>1, ClaimingIsBacked
      <4> QED BY <4>2 DEF members
    <3>2. Backed(w, [wkr[w] EXCEPT !.pc = "pinging"], lease)
      <4> DEFINE s == [wkr[w] EXCEPT !.pc = "pinging"]
      <4>1. /\ s.pc = "pinging" /\ s.got = wkr[w].got /\ s.held = wkr[w].held
            /\ s.age = wkr[w].age /\ s.took = wkr[w].took
        BY <1>2 DEF Worker
      <4>2. wkr[w].pc = "idle" /\ wkr[w].got = {}
        BY <2>5 DEF TickBegins, TypeOK
      <4> HIDE DEF s
      <4>3. Backed(w, s, lease)
        BY <1>2, <4>1, <4>2 DEF Backed, GivenBack
      <4> QED BY <4>3 DEF s
    <3> QED BY <2>1, <2>5, <3>1, <3>2 DEF TickBegins
  <2>6. CASE PingAnswered(w)
    <3>1. Backed(w, [Claiming(w, fleet') EXCEPT !.known = fleet'], lease)
      <4>1. wkr[w].pc \in {"idle", "pinging"} /\ Backed(w, wkr[w], lease)
        BY <1>2, <2>6 DEF PingAnswered
      <4> DEFINE members == fleet'
      <4> HIDE DEF members
      <4>2. Backed(w, Claiming(w, members), lease)
        BY <4>1, ClaimingIsBacked
      <4>3. Backed(w, [Claiming(w, members) EXCEPT !.known = members], lease)
        BY <4>2, KnowingIsBacked
      <4> QED BY <4>3 DEF members
    <3> QED BY <2>1, <2>6, <3>1 DEF PingAnswered
  <2>7. CASE PingFails(w)
    <3>1. Backed(w, Claiming(w, Fallback(w)), lease)
      <4>1. wkr[w].pc \in {"idle", "pinging"} /\ Backed(w, wkr[w], lease)
        BY <1>2, <2>7 DEF PingFails
      <4> DEFINE members == Fallback(w)
      <4> HIDE DEF members
      <4>2. Backed(w, Claiming(w, members), lease)
        BY <4>1, ClaimingIsBacked
      <4> QED BY <4>2 DEF members
    <3> QED BY <2>1, <2>7, <3>1 DEF PingFails
  <2>8. CASE SetAnswered(w)
    <3>1. CASE lease[p] = Free
      BY <2>2, <2>8, <3>1 DEF SetAnswered
    <3>2. CASE lease[p] # Free
      <4> DEFINE s == [wkr[w] EXCEPT !.pc = "renewing"]
      <4>1. /\ s.pc = "renewing" /\ s.got = wkr[w].got /\ s.held = wkr[w].held
            /\ s.age = wkr[w].age /\ s.took = wkr[w].took
        BY <1>2 DEF Worker
      <4>2. wkr[w].pc = "claiming" /\ UNCHANGED lease /\ Become(w, s)
        BY <2>8, <3>2 DEF SetAnswered
      <4> HIDE DEF s
      <4>3. Backed(w, s, lease)
        BY <1>2, <4>1, <4>2 DEF Backed, GivenBack, TickPcs
      <4> QED BY <2>1, <4>2, <4>3
    <3> QED BY <3>1, <3>2
  <2>9. CASE RenewAnswered(w)
    <3>1. wkr[w].pc = "renewing" /\ wkr[w].todo # {}
      BY <2>9 DEF RenewAnswered, TypeOK
    <3>2. CASE lease[p].owner = w
      BY <2>2, <2>9, <3>1, <3>2 DEF RenewAnswered
    <3>3. CASE lease[p].owner # w
      BY <2>3, <2>9, <3>1, <3>3 DEF RenewAnswered
    <3> QED BY <3>2, <3>3
  <2>10. CASE ClaimFails(w)
    BY <2>2, <2>3, <2>10 DEF ClaimFails
  <2>11. CASE TickEnds(w)
    <3> DEFINE s == [wkr[w] EXCEPT !.pc = "idle", !.held = wkr[w].got, !.got = {},
                                   !.age = 0, !.took = 0]
    <3>1. s.pc = "idle" /\ s.held = wkr[w].got /\ s.age = 0
      BY <1>2 DEF Worker
    <3>2. wkr[w].pc = "claiming" /\ UNCHANGED lease /\ Become(w, s)
      BY <2>11 DEF TickEnds
    <3> HIDE DEF s
    <3>3. ASSUME NEW q \in wkr[w].got
          PROVE  lease[q].owner = w /\ lease[q].left + 0 + Slow >= LeaseTTL
      <4>1. lease[q].owner = w /\ lease[q].left + wkr[w].took >= LeaseTTL
        BY <1>2, <3>2, <3>3 DEF Backed, TickPcs
      <4>2. q \in Partitions /\ wkr[w].took \in 0 .. Slow
        BY <1>2, <3>3 DEF Worker
      <4>3. lease[q].left \in 0 .. LeaseTTL
        BY <4>2 DEF TypeOK, Lease
      <4> QED BY <4>1, <4>2, <4>3, WorkerAssumption
    <3>4. Backed(w, s, lease)
      BY <3>1, <3>3 DEF Backed, TickPcs
    <3> QED BY <2>1, <3>2, <3>4
  <2>12. CASE Stop(w)
    <3> DEFINE s == [wkr[w] EXCEPT !.stopping = TRUE]
    <3>1. /\ s.pc = wkr[w].pc /\ s.got = wkr[w].got /\ s.held = wkr[w].held
          /\ s.age = wkr[w].age /\ s.took = wkr[w].took /\ s.todo = wkr[w].todo
      BY <1>2 DEF Worker
    <3>2. UNCHANGED lease /\ Become(w, s)
      BY <2>12 DEF Stop
    <3> HIDE DEF s
    <3>3. Backed(w, s, lease)
      BY <1>2, <3>1 DEF Backed, GivenBack
    <3> QED BY <2>1, <3>2, <3>3
  <2>13. CASE Resign(w)
    <3> DEFINE s == [wkr[w] EXCEPT !.pc = "releasing", !.todo = wkr[w].held]
    <3>1. s.pc = "releasing" /\ s.held = wkr[w].held /\ s.age = wkr[w].age
      BY <1>2 DEF Worker
    <3>2. wkr[w].pc = "idle" /\ UNCHANGED lease /\ Become(w, s)
      BY <2>13 DEF Resign
    <3> HIDE DEF s
    <3>3. Backed(w, s, lease)
      BY <1>2, <3>1, <3>2 DEF Backed, GivenBack, TickPcs
    <3> QED BY <2>1, <3>2, <3>3
  <2>14. CASE Release(w)
    <3> DEFINE rest == wkr[w].todo \ {p}
               s == [wkr[w] EXCEPT !.todo = rest]
    <3>1. /\ s.pc = "releasing" /\ s.held = wkr[w].held /\ s.age = wkr[w].age
          /\ s.todo = rest /\ wkr[w].pc = "releasing"
      BY <1>2, <2>14 DEF Worker, Release
    <3>2. Become(w, s)
      BY <2>14 DEF Release
    <3>3. UNCHANGED lease \/ (lease[p].owner = w /\ Delete(p))
      BY <2>14 DEF Release
    <3> HIDE DEF p, s
    <3>4. Backed(w, s, lease')
      <4>1. ASSUME NEW q \in s.held \ GivenBack(s), s.age <= StaleAfter
            PROVE  lease'[q].owner = w /\ lease'[q].left + s.age + Slow >= LeaseTTL
        <5>1. q # p /\ q \in wkr[w].held \ GivenBack(wkr[w])
          BY <3>1, <4>1 DEF GivenBack
        <5>2. q \in Partitions
          BY <1>2, <5>1 DEF Worker
        <5>3. lease'[q] = lease[q]
          BY <3>3, <5>1, <5>2 DEF Delete, TypeOK
        <5>4. lease[q].owner = w /\ lease[q].left + wkr[w].age + Slow >= LeaseTTL
          BY <1>2, <3>1, <4>1, <5>1 DEF Backed
        <5> QED BY <3>1, <5>3, <5>4
      <4> QED BY <3>1, <4>1 DEF Backed, TickPcs
    <3>5. ASSUME NEW v \in Workers \ {w} PROVE Kept(v)
      <4>1. CASE UNCHANGED lease
        BY <4>1, NothingTaken
      <4>2. CASE lease[p].owner = w /\ Delete(p)
        <5>1. \A q \in Partitions : q # p => lease'[q] = lease[q]
          BY <4>2 DEF Delete, TypeOK
        <5>2. \A q \in Partitions : lease[q].left \in 0 .. LeaseTTL
          BY DEF TypeOK, Lease
        <5>3. ASSUME NEW q \in Partitions, lease[q].owner = v
              PROVE  lease'[q].owner = v /\ lease'[q].left >= lease[q].left
          <6>1. q # p
            BY <3>5, <4>2, <5>3
          <6>2. lease'[q] = lease[q] /\ lease[q].left \in 0 .. LeaseTTL
            BY <5>1, <5>2, <6>1
          <6> QED BY <5>3, <6>2, WorkerAssumption
        <5> QED BY <5>3 DEF Kept
      <4> QED BY <3>3, <4>1, <4>2
    <3> QED BY <1>1, <3>2, <3>4, <3>5, WorkerMoves
  <2>15. CASE Exit(w) \/ Crash(w)
    BY <2>1, <2>15, FreshIsBacked DEF Exit, Crash
  <2> QED BY <1>3, <2>4, <2>5, <2>6, <2>7, <2>8, <2>9, <2>10, <2>11, <2>12, <2>13,
             <2>14, <2>15 DEF WorkerStep, TickStep
<1>4. ASSUME NEW w \in Workers, HeartbeatExpires(w) PROVE ClaimsOutlastVerdicts'
  BY <1>4 DEF HeartbeatExpires, ClaimsOutlastVerdicts, Up
<1>5. CASE TimePasses
  <2> SUFFICES ASSUME NEW w \in Workers PROVE Backed(w, wkr'[w], lease')
    BY BackedWorkersNext
  <2>1. wkr'[w] = IF Up(w) THEN Aged(wkr[w]) ELSE wkr[w]
    BY <1>5 DEF TimePasses
  <2>2. CASE Up(w)
    BY <1>2, <1>5, <2>1, <2>2, TimeBacks
  <2>3. CASE ~Up(w)
    BY <2>1, <2>3 DEF Up, Backed, TickPcs
  <2> QED BY <2>2, <2>3
<1>6. CASE UNCHANGED vars
  BY <1>6 DEF vars, ClaimsOutlastVerdicts, Up
<1> QED BY <1>3, <1>4, <1>5, <1>6 DEF Next

(* A claim outlasts the verdict it backs, and so a worker that takes a partition for
   its own (holds) has the claim in Redis: whatever the workers believe of the
   fleet, whichever commands fail and with or without effect, whoever crashes or
   restarts, provided that a claim lasts longer than the slowest tick and the time
   for which a verdict is trusted together. *)
THEOREM ClaimsOutlast ==
  ASSUME LeaseTTL > Slow + StaleAfter
  PROVE  Spec => []ClaimsOutlastVerdicts
<1>1. Init => ClaimsOutlastVerdicts
  <2> SUFFICES ASSUME Init PROVE \A w \in Workers : Backed(w, wkr[w], lease)
    BY BackedWorkers
  <2> QED BY FreshIsBacked DEF Init
<1>2. TypeOK /\ ClaimsOutlastVerdicts /\ [Next]_vars => ClaimsOutlastVerdicts'
  BY BackedStep
<1> QED BY <1>1, <1>2, WorkersTypeCorrect, PTL DEF Spec

THEOREM VerdictsAreTrue ==
  ASSUME LeaseTTL > Slow + StaleAfter
  PROVE  Spec => []HoldsItsClaims
<1>1. ClaimsOutlastVerdicts => HoldsItsClaims
  BY DEF ClaimsOutlastVerdicts, HoldsItsClaims, Holds
<1> QED BY <1>1, ClaimsOutlast, PTL

--------------------------------------------------------------------------------
(* The verdict of a worker on one partition, as a matter of its own state. *)
Trusts(s, p) ==
  s.pc # "down" /\ p \in s.held /\ s.age <= StaleAfter /\ p \notin GivenBack(s)

LEMMA HoldersAreTrusting ==
  /\ Holders = [p \in Partitions |-> {w \in Workers : Trusts(wkr[w], p)}]
  /\ Holders' = [p \in Partitions |-> {w \in Workers : Trusts(wkr'[w], p)}]
BY DEF Holders, Holds, Up, Trusts, GivenBack

(* Time makes verdicts stale and gives none. *)
LEMMA TimeEndsTrust ==
  ASSUME NEW s \in Worker, NEW p, Trusts(Aged(s), p)
  PROVE  Trusts(s, p)
<1> DEFINE age == IF s.age > StaleAfter THEN s.age ELSE s.age + 1
           took == IF s.pc \in TickPcs THEN s.took + 1 ELSE s.took
           t == [s EXCEPT !.age = age, !.took = took]
<1>1. Aged(s) = t
  BY DEF Aged, Worker
<1>2. s.age \in Nat
  BY WorkerAssumption DEF Worker
<1>3. t.age <= StaleAfter => s.age <= StaleAfter
  BY <1>2, WorkerAssumption DEF Worker
<1>4. t.pc = s.pc /\ t.held = s.held /\ t.todo = s.todo
  BY DEF Worker
<1> HIDE DEF t
<1> QED BY <1>1, <1>3, <1>4 DEF Trusts, GivenBack

(* A step of the workers is a step of owners: since a verdict has its claim behind
   it, there is one at most, and the one worker that moves gives no verdict on what
   another has. *)
LEMMA HoldersStep ==
  ASSUME TypeOK, HoldsItsClaims, HoldsItsClaims', [Next]_vars
  PROVE  Owning!Next
<1>1. /\ \A p \in Partitions : Holders[p] = {w \in Workers : Trusts(wkr[w], p)}
      /\ \A p \in Partitions : Holders'[p] = {w \in Workers : Trusts(wkr'[w], p)}
      /\ Holders' \in [Partitions -> SUBSET Workers]
  BY HoldersAreTrusting
<1>2. \A p \in Partitions : \A v, w \in Workers :
        Trusts(wkr[v], p) /\ Trusts(wkr[w], p) => v = w
  BY DEF HoldsItsClaims, Holds, Up, Trusts
<1>3. \A p \in Partitions : \A v, w \in Workers :
        Trusts(wkr'[v], p) /\ Trusts(wkr'[w], p) => v = w
  BY DEF HoldsItsClaims, Holds, Up, Trusts, GivenBack
<1>4. ASSUME wkr' = wkr PROVE Owning!Next
  BY <1>1, <1>4 DEF Owning!Next, Owning!Lapse
<1>5. ASSUME NEW w \in Workers, NEW s, Become(w, s) PROVE Owning!Next
  <2>1. \A v \in Workers \ {w} : wkr'[v] = wkr[v]
    BY <1>5 DEF Become, TypeOK
  <2>2. ASSUME NEW p \in Partitions
        PROVE  \/ Holders'[p] = Holders[p]
               \/ Holders[p] = {} /\ Holders'[p] = {w}
               \/ Holders[p] = {w} /\ Holders'[p] = {}
    <3>1. \A v \in Workers \ {w} : v \in Holders'[p] <=> v \in Holders[p]
      BY <1>1, <2>1
    <3>2. /\ \A v \in Workers : w \in Holders[p] /\ v \in Holders[p] => v = w
          /\ \A v \in Workers : w \in Holders'[p] /\ v \in Holders'[p] => v = w
          /\ Holders[p] \subseteq Workers /\ Holders'[p] \subseteq Workers
      BY <1>1, <1>2, <1>3
    <3> QED BY <3>1, <3>2
  <2> QED BY <1>1, <2>2 DEF Owning!Next, Owning!Review
<1>6. ASSUME NEW w \in Workers, WorkerStep(w) PROVE Owning!Next
  BY <1>5, <1>6 DEF WorkerStep, TickStep, Start, Stop, Crash, TickBegins, PingAnswered,
     PingFails, SetAnswered, RenewAnswered, ClaimFails, TickEnds, Resign, Release, Exit
<1>7. ASSUME TimePasses PROVE Owning!Next
  <2>1. ASSUME NEW p \in Partitions, NEW w \in Workers, Trusts(wkr'[w], p)
        PROVE  Trusts(wkr[w], p)
    <3>1. wkr[w] \in Worker /\ wkr'[w] = IF Up(w) THEN Aged(wkr[w]) ELSE wkr[w]
      BY <1>7 DEF TypeOK, TimePasses
    <3> QED BY <2>1, <3>1, TimeEndsTrust
  <2>2. ASSUME NEW p \in Partitions PROVE Holders'[p] \in {Holders[p], {}}
    <3>1. Holders'[p] \subseteq Holders[p]
      BY <1>1, <2>1
    <3>2. \A v, w \in Holders[p] : v = w
      BY <1>1, <1>2
    <3> QED BY <3>1, <3>2
  <2> QED BY <1>1, <2>2 DEF Owning!Next, Owning!Lapse
<1>8. ASSUME NEW w \in Workers, HeartbeatExpires(w) PROVE Owning!Next
  BY <1>4, <1>8 DEF HeartbeatExpires
<1> QED BY <1>4, <1>6, <1>7, <1>8 DEF Next, vars

(* The workers implement Ownership: a partition comes to a worker, by its verdict,
   only while it is nobody's, and one worker at a time reviews what it has. *)
THEOREM WorkersImplementOwnership ==
  ASSUME LeaseTTL > Slow + StaleAfter
  PROVE  Spec => PartitionsAreOwned
<1>1. Init => Owning!Init
  <2> SUFFICES ASSUME Init PROVE Holders = [p \in Partitions |-> {}]
    BY DEF Owning!Init
  <2>1. \A w \in Workers : \A p \in Partitions : ~Trusts(wkr[w], p)
    BY DEF Init, Trusts, Down, Started
  <2> QED BY <2>1, HoldersAreTrusting
<1>2. TypeOK /\ HoldsItsClaims /\ HoldsItsClaims' /\ [Next]_vars => [Owning!Next]_Holders
  BY HoldersStep
<1> QED BY <1>1, <1>2, WorkersTypeCorrect, VerdictsAreTrue, PTL
        DEF Spec, PartitionsAreOwned, Owning!Spec

--------------------------------------------------------------------------------
(* The best of a fleet for a partition: none of it scores more. *)
Best(members, p, w) == w \in members /\ \A v \in members : Score[p][v] <= Score[p][w]

LEMMA ScoresAreNatural ==
  \A p \in Partitions : \A w \in Workers : Score[p][w] \in Nat
BY WorkerAssumption

(* A fleet has a best: of its members the one that the fewest surpass is surpassed by
   none, since the one that surpasses it would be surpassed by fewer. *)
LEMMA FleetHasABest ==
  ASSUME NEW members \in SUBSET Workers, IsFiniteSet(members), members # {},
         NEW p \in Partitions
  PROVE  \E w \in members : Best(members, p, w)
<1> DEFINE above(w) == {v \in members : Score[p][v] > Score[p][w]}
           counts == {Cardinality(above(w)) : w \in members}
           less == OpToRel(<, Nat)
<1>1. \A w \in members : /\ IsFiniteSet(above(w)) /\ Cardinality(above(w)) \in Nat
  BY FS_Subset, FS_CardinalityType
<1>2. IsWellFoundedOn(less, Nat)
  BY NatLessThanWellFounded DEF OpToRel
<1>3. \A m, n \in Nat : m < n => <<m, n>> \in less
  BY DEF OpToRel
<1> HIDE DEF less
<1>4. counts \in SUBSET Nat /\ counts # {}
  BY <1>1
<1>5. PICK n \in counts : \A m \in counts : ~(<<m, n>> \in less)
  BY <1>2, <1>4, WFMin
<1>6. PICK w \in members : n = Cardinality(above(w))
  BY <1>5
<1>7. ASSUME NEW v \in above(w) PROVE FALSE
  <2>1. v \in members /\ Score[p][v] > Score[p][w]
    BY <1>7
  <2>2. above(v) \subseteq above(w)
    BY <2>1, ScoresAreNatural
  <2>3. v \notin above(v)
    BY <2>1, ScoresAreNatural
  <2>4. above(v) # above(w)
    BY <1>7, <2>3
  <2>5. Cardinality(above(v)) <= Cardinality(above(w))
        /\ Cardinality(above(v)) # Cardinality(above(w))
    BY <1>1, <1>6, <2>2, <2>4, FS_Subset
  <2>6. Cardinality(above(v)) \in Nat /\ n \in Nat /\ Cardinality(above(v)) < n
    BY <1>1, <1>6, <2>1, <2>5
  <2>7. Cardinality(above(v)) \in counts
    BY <2>1
  <2> QED BY <1>3, <1>5, <2>6, <2>7
<1>8. Best(members, p, w)
  BY <1>6, <1>7, ScoresAreNatural DEF Best
<1> QED BY <1>8

(* Scores do not tie (the member's name decides), and so the best is the owner. *)
LEMMA BestIsOwner ==
  ASSUME NEW members \in SUBSET Workers, NEW p \in Partitions, NEW w, Best(members, p, w)
  PROVE  PartitionOwner(members, p) = w
<1>1. \A v : Best(members, p, v) => v = w
  <2> SUFFICES ASSUME NEW v, Best(members, p, v) PROVE v = w
    OBVIOUS
  <2>1. v \in Workers /\ w \in Workers
    BY DEF Best
  <2>2. Score[p][v] = Score[p][w]
    BY <2>1, ScoresAreNatural DEF Best
  <2> QED BY <2>1, <2>2, WorkerAssumption
<1>2. PartitionOwner(members, p) = CHOOSE v \in members : Best(members, p, v)
  BY DEF PartitionOwner, Best
<1>3. w \in members
  BY DEF Best
<1> QED BY <1>1, <1>2, <1>3

LEMMA OwnerIsBest ==
  ASSUME NEW members \in SUBSET Workers, IsFiniteSet(members), members # {},
         NEW p \in Partitions
  PROVE  Best(members, p, PartitionOwner(members, p))
BY FleetHasABest, BestIsOwner

(* "Every partition appears exactly once" (assignment, partitions.ts): workers that
   agree on the fleet want all partitions between them and none of them twice. *)
THEOREM EveryPartitionOnce ==
  ASSUME NEW members \in SUBSET Workers, IsFiniteSet(members), members # {}
  PROVE  /\ UNION {Wanted(w, members) : w \in members} = Partitions
         /\ \A v, w \in members : v # w => Wanted(v, members) \cap Wanted(w, members) = {}
<1>1. \A p \in Partitions : PartitionOwner(members, p) \in members
  BY OwnerIsBest DEF Best
<1>2. \A p \in Partitions : p \in Wanted(PartitionOwner(members, p), members)
  BY DEF Wanted
<1>3. \A w : Wanted(w, members) \subseteq Partitions
  BY DEF Wanted
<1>4. UNION {Wanted(w, members) : w \in members} = Partitions
  BY <1>1, <1>2, <1>3
<1>5. ASSUME NEW v \in members, NEW w \in members, v # w
      PROVE  Wanted(v, members) \cap Wanted(w, members) = {}
  BY <1>5 DEF Wanted
<1> QED BY <1>4, <1>5

(* "Adding or removing one worker moves exactly the partitions that worker won or lost"
   (PART11): who joins takes some partitions from the others and gives nobody any, so
   that the others want nothing new; who leaves hands on its own and nothing else. *)
THEOREM OnlyItsOwnMove ==
  ASSUME NEW members \in SUBSET Workers, IsFiniteSet(members), members # {},
         NEW w \in Workers \ members, NEW v \in members
  PROVE  Wanted(v, members \cup {w}) = Wanted(v, members) \ Wanted(w, members \cup {w})
<1> DEFINE more == members \cup {w}
<1>1. more \in SUBSET Workers /\ IsFiniteSet(more) /\ more # {}
  BY FS_AddElement
<1>2. ASSUME NEW p \in Partitions
      PROVE  \/ PartitionOwner(more, p) = w
             \/ PartitionOwner(more, p) = PartitionOwner(members, p)
  <2>1. Best(more, p, PartitionOwner(more, p))
    BY <1>1, OwnerIsBest
  <2>2. ASSUME PartitionOwner(more, p) # w
        PROVE  Best(members, p, PartitionOwner(more, p))
    BY <2>1, <2>2 DEF Best
  <2> QED BY <2>2, BestIsOwner
<1>3. ASSUME NEW p \in Partitions
      PROVE  p \in Wanted(v, more) <=> p \in Wanted(v, members) /\ p \notin Wanted(w, more)
  BY <1>1, <1>2 DEF Wanted
<1>4. Wanted(v, more) \subseteq Partitions /\ Wanted(v, members) \subseteq Partitions
  BY DEF Wanted
<1> QED BY <1>3, <1>4
================================================================================
