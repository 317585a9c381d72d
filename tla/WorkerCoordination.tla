-------------------------- MODULE WorkerCoordination --------------------------
(***************************************************************************)
(* The trading workers of apps/api and the Redis keys by which they share  *)
(* the partitions: WorkerCoordinationService (apps/api/src/modules/worker) *)
(* over PartitionClaims and MembershipRegistry                             *)
(* (apps/api/src/infrastructure/coordination).                             *)
(*                                                                         *)
(* Time passes in units of which a claim lasts LeaseTTL and a snapshot is  *)
(* trusted StaleAfter.  A tick takes at most Slow units, which may be as   *)
(* long as one likes: nothing in the code bounds it.  The answer to one    *)
(* Redis command and the sending of the next are one instant, so an action *)
(* is a command carried out, or failing with or without effect.            *)
(***************************************************************************)
EXTENDS Naturals

CONSTANTS
  Workers,        \* worker ids; a restarted worker keeps its id
  Partitions,     \* the numbers of the partitions
  Score,          \* Score[p][w], the rendezvous score, a tie broken by name
  Mode,           \* WORKER_MEMBERSHIP_MODE
  ConfigMembers,  \* WORKER_MEMBERSHIP as each worker reads it
  LeaseTTL,       \* WORKER_PARTITION_LEASE_TTL_MS
  StaleAfter,     \* 2 * WORKER_PARTITION_RETRY_MS
  Slow,
  None

ASSUME WorkerAssumption ==
  /\ Partitions \subseteq Nat
  /\ Score \in [Partitions -> [Workers -> Nat]]
  /\ \A p \in Partitions : \A v, w \in Workers : Score[p][v] = Score[p][w] => v = w
  /\ Mode \in {"config", "registry"}
  /\ ConfigMembers \in [Workers -> SUBSET Workers]
  /\ LeaseTTL \in Nat \ {0} /\ StaleAfter \in Nat /\ Slow \in Nat
  /\ None \notin Workers

VARIABLES
  lease,  \* the claim key of each partition: whose it is and for how long
  fleet,  \* the members whose heartbeat in the registry has not expired
  wkr     \* the worker processes

vars == <<lease, fleet, wkr>>

TickPcs == {"pinging", "claiming", "renewing"}

Worker ==
  [pc    : {"down", "idle", "releasing"} \cup TickPcs,
   known : SUBSET Workers,      \* lastKnownMembers, {} for null
   todo  : SUBSET Partitions,   \* partitions still to claim, or to release
   got   : SUBSET Partitions,   \* claimed in this tick
   held  : SUBSET Partitions,
   age   : 0 .. StaleAfter + 1, \* since lastReconcileAtMs
   took  : 0 .. Slow,           \* since the tick began
   stopping : BOOLEAN]

Free == [owner |-> None, left |-> 0]
Lease == {l \in [owner : Workers \cup {None}, left : 0 .. LeaseTTL] :
            l.owner = None <=> l.left = 0}

Started == [pc |-> "idle", known |-> {}, todo |-> {}, got |-> {}, held |-> {},
            age |-> StaleAfter + 1, took |-> 0, stopping |-> FALSE]
Down == [Started EXCEPT !.pc = "down"]

TypeOK ==
  /\ lease \in [Partitions -> Lease]
  /\ fleet \in SUBSET Workers
  /\ wkr \in [Workers -> Worker]
  /\ \A w \in Workers :
       /\ wkr[w].pc = "renewing" => wkr[w].todo # {}
       /\ wkr[w].pc \in {"idle", "pinging"} => wkr[w].got = {}

Init ==
  /\ lease = [p \in Partitions |-> Free]
  /\ fleet = {}
  /\ wkr = [w \in Workers |-> Down]

Up(w) == wkr[w].pc # "down"

(* partitionOwner *)
PartitionOwner(members, p) ==
  CHOOSE w \in members : \A v \in members : Score[p][v] <= Score[p][w]

Wanted(w, members) ==
  {p \in Partitions : members # {} /\ PartitionOwner(members, p) = w}

(* The partitions are claimed and released in ascending order. *)
First(ps) == CHOOSE p \in ps : \A q \in ps : p <= q

Grant(w, p) == lease' = [lease EXCEPT ![p] = [owner |-> w, left |-> LeaseTTL]]

(* A mistake to be caught: the expiry outlives the claim. *)
DeleteOwner(p) == lease' = [lease EXCEPT ![p].owner = None]

Delete(p) == lease' = [lease EXCEPT ![p] = Free]

Become(w, state) == wkr' = [wkr EXCEPT ![w] = state]
--------------------------------------------------------------------------------
(* The constructor starts the timer and a first tick. *)
Start(w) ==
  /\ ~Up(w)
  /\ Become(w, Started)
  /\ UNCHANGED <<lease, fleet>>

Claiming(w, members) ==
  [wkr[w] EXCEPT !.pc = "claiming", !.todo = Wanted(w, members), !.got = {}]

(* tick: the timer fires while no tick is in flight. *)
TickBegins(w) ==
  /\ wkr[w].pc = "idle" /\ ~wkr[w].stopping
  /\ Become(w, IF Mode = "registry" THEN [wkr[w] EXCEPT !.pc = "pinging"]
                                    ELSE Claiming(w, ConfigMembers[w]))
  /\ UNCHANGED <<lease, fleet>>

(* resolveMembership *)
PingAnswered(w) ==
  /\ wkr[w].pc = "pinging"
  /\ fleet' = fleet \cup {w}
  /\ Become(w, [Claiming(w, fleet') EXCEPT !.known = fleet'])
  /\ UNCHANGED lease

(* What is believed of the fleet without an answer. *)
Fallback(w) ==
  IF Mode = "registry" /\ wkr[w].known # {} THEN wkr[w].known ELSE ConfigMembers[w]

PingFails(w) ==
  /\ wkr[w].pc = "pinging"
  /\ fleet' \in {fleet, fleet \cup {w}}
  /\ Become(w, Claiming(w, Fallback(w)))
  /\ UNCHANGED lease

Claimed(w, won) ==
  LET p == First(wkr[w].todo) IN
  [wkr[w] EXCEPT !.pc = "claiming", !.todo = @ \ {p},
                 !.got = IF won THEN @ \cup {p} ELSE @]

(* claim: SET NX, then the renewal of a key that is there. *)
SetAnswered(w) ==
  LET p == First(wkr[w].todo) IN
  /\ wkr[w].pc = "claiming" /\ wkr[w].todo # {}
  /\ IF lease[p] = Free
       THEN Grant(w, p) /\ Become(w, Claimed(w, TRUE))
       ELSE UNCHANGED lease /\ Become(w, [wkr[w] EXCEPT !.pc = "renewing"])
  /\ UNCHANGED fleet

(* A mistake to be caught: whoever has the key, it is renewed. *)
RenewWithoutCompare(w) ==
  LET p == First(wkr[w].todo) IN
  /\ wkr[w].pc = "renewing"
  /\ Grant(w, p) /\ Become(w, Claimed(w, TRUE))
  /\ UNCHANGED fleet

RenewAnswered(w) ==
  LET p == First(wkr[w].todo) IN
  /\ wkr[w].pc = "renewing"
  /\ IF lease[p].owner = w
       THEN Grant(w, p) /\ Become(w, Claimed(w, TRUE))
       ELSE UNCHANGED lease /\ Become(w, Claimed(w, FALSE))
  /\ UNCHANGED fleet

(* "Transport truth is a miss", whether or not the command was carried out. *)
ClaimFails(w) ==
  LET p == First(wkr[w].todo) IN
  /\ wkr[w].pc \in {"claiming", "renewing"} /\ wkr[w].todo # {}
  /\ \/ UNCHANGED lease
     \/ lease[p] = Free /\ wkr[w].pc = "claiming" /\ Grant(w, p)
     \/ lease[p].owner = w /\ wkr[w].pc = "renewing" /\ Grant(w, p)
  /\ Become(w, Claimed(w, FALSE))
  /\ UNCHANGED fleet

(* A mistake to be caught: a miss leaves the partition held. *)
TickEndsAdding(w) ==
  /\ wkr[w].pc = "claiming" /\ wkr[w].todo = {}
  /\ Become(w, [wkr[w] EXCEPT !.pc = "idle", !.held = @ \cup wkr[w].got, !.got = {},
                              !.age = 0, !.took = 0])
  /\ UNCHANGED <<lease, fleet>>

(* reconcile writes its verdict and dates it. *)
TickEnds(w) ==
  /\ wkr[w].pc = "claiming" /\ wkr[w].todo = {}
  /\ Become(w, [wkr[w] EXCEPT !.pc = "idle", !.held = wkr[w].got, !.got = {},
                              !.age = 0, !.took = 0])
  /\ UNCHANGED <<lease, fleet>>
--------------------------------------------------------------------------------
(* onModuleDestroy.  The tick in flight is awaited, then the registry is left. *)
Stop(w) ==
  /\ Up(w) /\ ~wkr[w].stopping
  /\ Become(w, [wkr[w] EXCEPT !.stopping = TRUE])
  /\ UNCHANGED <<lease, fleet>>

Resign(w) ==
  /\ wkr[w].pc = "idle" /\ wkr[w].stopping
  /\ fleet' \in {fleet, fleet \ {w}}
  /\ Become(w, [wkr[w] EXCEPT !.pc = "releasing", !.todo = wkr[w].held])
  /\ UNCHANGED lease

(* A mistake to be caught: the key is deleted, whoever has it. *)
ReleaseWithoutCompare(w) ==
  LET p == First(wkr[w].todo) IN
  /\ wkr[w].pc = "releasing" /\ wkr[w].todo # {}
  /\ Delete(p)
  /\ Become(w, [wkr[w] EXCEPT !.todo = @ \ {p}])
  /\ UNCHANGED fleet

(* release compares before it deletes, and may fail. *)
Release(w) ==
  LET p == First(wkr[w].todo) IN
  /\ wkr[w].pc = "releasing" /\ wkr[w].todo # {}
  /\ UNCHANGED lease \/ (lease[p].owner = w /\ Delete(p))
  /\ Become(w, [wkr[w] EXCEPT !.todo = @ \ {p}])
  /\ UNCHANGED fleet

Exit(w) ==
  /\ wkr[w].pc = "releasing" /\ wkr[w].todo = {}
  /\ Become(w, Down)
  /\ UNCHANGED <<lease, fleet>>

(* A crash, or the end of the shutdown budget. *)
Crash(w) ==
  /\ Up(w)
  /\ Become(w, Down)
  /\ UNCHANGED <<lease, fleet>>

(* A mistake to be caught: whoever has been a member is listed for good. *)
HeartbeatStays(w) ==
  /\ w \in fleet
  /\ UNCHANGED <<lease, fleet, wkr>>

(* The heartbeat of a worker is not renewed in time. *)
HeartbeatExpires(w) ==
  /\ w \in fleet
  /\ fleet' = fleet \ {w}
  /\ UNCHANGED <<lease, wkr>>

Aged(s) ==
  [s EXCEPT !.age = IF @ > StaleAfter THEN @ ELSE @ + 1,
            !.took = IF s.pc \in TickPcs THEN @ + 1 ELSE @]

Shortened(l) == IF l.left <= 1 THEN Free ELSE [l EXCEPT !.left = @ - 1]

TimePasses ==
  /\ \A w \in Workers : wkr[w].pc \in TickPcs => wkr[w].took < Slow
  /\ lease' = [p \in Partitions |-> Shortened(lease[p])]
  /\ wkr' = [w \in Workers |-> IF Up(w) THEN Aged(wkr[w]) ELSE wkr[w]]
  /\ UNCHANGED fleet

TickStep(w) ==
  \/ TickBegins(w) \/ PingAnswered(w) \/ PingFails(w)
  \/ SetAnswered(w) \/ RenewAnswered(w) \/ ClaimFails(w) \/ TickEnds(w)

WorkerStep(w) ==
  \/ Start(w) \/ Stop(w) \/ Crash(w)
  \/ TickStep(w)
  \/ Resign(w) \/ Release(w) \/ Exit(w)

Next ==
  \/ \E w \in Workers : WorkerStep(w) \/ HeartbeatExpires(w)
  \/ TimePasses

Spec == Init /\ [][Next]_vars

(* The claim of First is won. *)
Win(w) ==
  \/ SetAnswered(w) /\ lease[First(wkr[w].todo)] = Free
  \/ RenewAnswered(w) /\ lease[First(wkr[w].todo)].owner = w

(* Time passes, a dead worker's heartbeat expires, a timer that is due fires, and
   a command sent again and again, or a claim that could be won again and again,
   does not fail every time. *)
Fairness(w) ==
  /\ WF_vars(TimePasses)
  /\ \A v \in Workers \ {w} : WF_vars(~Up(v) /\ HeartbeatExpires(v))
  /\ WF_vars(TickStep(w))
  /\ SF_vars(PingAnswered(w)) /\ SF_vars(SetAnswered(w)) /\ SF_vars(Win(w))
--------------------------------------------------------------------------------
(* holds, the verdict on which a job is admitted *)
Holds(w, p) == Up(w) /\ p \in wkr[w].held /\ wkr[w].age <= StaleAfter

(* The partitions whose claims a worker that stops has released so far. *)
GivenBack(s) == IF s.pc = "releasing" THEN s.held \ s.todo ELSE {}

(* "A worker may act on partition p only while its own claim exists and is held by
   it" (docs/PART11_WORKER_SCALING.md): the verdict, which asks nobody, agrees with
   Redis, whatever the workers believe of the fleet, whatever is lost and whoever
   restarts.  Only what a worker has given back at its shutdown is left out: its
   verdict goes on naming it until the worker is gone. *)
HoldsItsClaims ==
  \A w \in Workers : \A p \in Partitions \ GivenBack(wkr[w]) :
    Holds(w, p) => lease[p].owner = w

(* What HoldsItsClaims rests on: how long the claims behind a verdict and behind
   the tick in flight will last. *)
ClaimsOutlastVerdicts ==
  \A w \in Workers :
    /\ wkr[w].pc \in TickPcs =>
         \A p \in wkr[w].got :
           lease[p].owner = w /\ lease[p].left + wkr[w].took >= LeaseTTL
    /\ Up(w) /\ wkr[w].age <= StaleAfter =>
         \A p \in wkr[w].held \ GivenBack(wkr[w]) :
           lease[p].owner = w /\ lease[p].left + wkr[w].age + Slow >= LeaseTTL

(* The partitions have owners as Ownership has it: nobody begins to act on one while
   another does, and those of a worker that goes pass on by way of nobody. *)
Holders ==
  [p \in Partitions |-> {w \in Workers : Holds(w, p) /\ p \notin GivenBack(wkr[w])}]

Owning == INSTANCE Ownership WITH
            Things <- Partitions, Owners <- Workers, owners <- Holders

PartitionsAreOwned == Owning!Spec

(* "The TTL is the release" (onModuleDestroy): when the others are gone, however
   they went, the one worker that is left comes to hold every partition, again and
   again. *)
Alone(w) ==
  /\ Up(w) /\ ~wkr[w].stopping
  /\ \A v \in Workers \ {w} : ~Up(v)

TakesOver(w) ==
  \A p \in Partitions : <>[]Alone(w) => []<>(p \in wkr[w].held)
================================================================================
