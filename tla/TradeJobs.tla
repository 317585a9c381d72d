------------------------------- MODULE TradeJobs -------------------------------
(***************************************************************************)
(* The TRADE_EXECUTION queue and its consumers                             *)
(* (apps/api/src/modules/worker/trade-execution.processor.ts) over the     *)
(* partition claims of WorkerCoordination.  The queue (BullMQ) hands a job *)
(* to any consumer, whoever holds the job's partition, and hands it out    *)
(* again when its consumer died.                                           *)
(***************************************************************************)
EXTENDS WorkerCoordination

CONSTANTS
  Jobs,
  Account,     \* the account of each job
  Partition,   \* partitionForAccount, of the jobs
  MaxDefers,   \* WORKER_MAX_DEFERS
  Attempts,    \* the producer's attempts
  MaxStalled   \* how often the queue hands out a job of a dead consumer

ASSUME JobAssumption ==
  /\ Partition \in [Jobs -> Partitions]
  /\ \A i, j \in Jobs : Account[i] = Account[j] => Partition[i] = Partition[j]
  /\ MaxDefers \in Nat \ {0} /\ Attempts \in Nat \ {0} /\ MaxStalled \in Nat

VARIABLE job

jobVars == <<vars, job>>

Job ==
  [state   : {"waiting", "active", "delayed", "stalled", "completed", "failed"},
   at      : Workers \cup {None},   \* the consumer of an active job
   defers  : 0 .. MaxDefers,        \* the job's progress
   tries   : 0 .. Attempts,         \* attemptsMade
   stalled : 0 .. MaxStalled]

JobTypeOK ==
  /\ TypeOK
  /\ job \in [Jobs -> Job]
  /\ \A j \in Jobs : job[j].state # "failed" => job[j].tries < Attempts

JobInit ==
  /\ Init
  /\ job = [j \in Jobs |-> [state |-> "waiting", at |-> None, defers |-> 0,
                            tries |-> 0, stalled |-> 0]]

Put(j, state) == job' = [job EXCEPT ![j] = state]

InFlight(w, account) ==
  \E j \in Jobs : job[j].state = "active" /\ job[j].at = w /\ Account[j] = account

Admissible(w, j) == Holds(w, Partition[j]) /\ ~InFlight(w, Account[j])

(* handle: the job is forwarded to the engine. *)
Admit(w, j) ==
  /\ job[j].state = "waiting" /\ Up(w) /\ Admissible(w, j)
  /\ Put(j, [job[j] EXCEPT !.state = "active", !.at = w])
  /\ UNCHANGED vars

(* A mistake to be caught: the deferral is not written to the job. *)
DeferUncounted(w, j) ==
  /\ job[j].state = "waiting" /\ Up(w) /\ ~Admissible(w, j)
  /\ Put(j, [job[j] EXCEPT !.state = "delayed"])
  /\ UNCHANGED vars

Defer(w, j) ==
  /\ job[j].state = "waiting" /\ Up(w) /\ ~Admissible(w, j)
  /\ Put(j, IF job[j].defers = MaxDefers
              THEN [job[j] EXCEPT !.state = "failed"]
              ELSE [job[j] EXCEPT !.state = "delayed", !.defers = @ + 1])
  /\ UNCHANGED vars

(* The connection to Redis is lost, or the process ends, before or after the
   progress is written: the job is left behind. *)
DeferFails(w, j) ==
  /\ job[j].state = "waiting" /\ Up(w) /\ ~Admissible(w, j)
  /\ job[j].defers < MaxDefers
  /\ \E n \in {0, 1} :
       Put(j, [job[j] EXCEPT !.state = "stalled", !.defers = @ + n])
  /\ UNCHANGED vars

(* The engine's durable answer completes the job, its terminal refusal fails it,
   anything else uses up an attempt. *)
EngineAnswers(j) ==
  /\ job[j].state = "active"
  /\ \/ \E state \in {"completed", "failed"} :
          Put(j, [job[j] EXCEPT !.state = state, !.at = None])
     \/ LET state == IF job[j].tries + 1 < Attempts THEN "delayed" ELSE "failed" IN
        Put(j, [job[j] EXCEPT !.state = state, !.at = None, !.tries = @ + 1])
  /\ UNCHANGED vars

(* The queue: a delay ends, a job of a dead consumer is handed out again. *)
Due(j) ==
  /\ job[j].state = "delayed"
  /\ Put(j, [job[j] EXCEPT !.state = "waiting"])
  /\ UNCHANGED vars

(* A mistake to be caught: a job may stall for ever. *)
RecoveredAlways(j) ==
  /\ job[j].state = "stalled"
  /\ Put(j, [job[j] EXCEPT !.state = "waiting", !.stalled = @ + 1])
  /\ UNCHANGED vars

Recovered(j) ==
  /\ job[j].state = "stalled"
  /\ Put(j, IF job[j].stalled = MaxStalled
              THEN [job[j] EXCEPT !.state = "failed"]
              ELSE [job[j] EXCEPT !.state = "waiting", !.stalled = @ + 1])
  /\ UNCHANGED vars

(* A step of the workers: the jobs of a process that ends are left behind. *)
CoordinationStep ==
  /\ Next
  /\ job' = [j \in Jobs |->
               IF job[j].state = "active" /\ wkr'[job[j].at].pc = "down"
                 THEN [job[j] EXCEPT !.state = "stalled", !.at = None]
                 ELSE job[j]]

JobStep(j) ==
  \/ \E w \in Workers : Admit(w, j) \/ Defer(w, j) \/ DeferFails(w, j)
  \/ EngineAnswers(j) \/ Due(j) \/ Recovered(j)

JobNext == (\E j \in Jobs : JobStep(j)) \/ CoordinationStep

JobSpec == JobInit /\ [][JobNext]_jobVars

(* The queue hands out what it has, and a call of the engine ends (after 30 s at
   the latest, engine-internal.client.ts). *)
FairJobSpec == JobSpec /\ \A j \in Jobs : WF_jobVars(JobStep(j))
--------------------------------------------------------------------------------
Settled(j) == job[j].state \in {"completed", "failed"}

(* "Failing visibly instead of letting it orbit forever" (defer): while some worker
   runs, every job is completed or failed in the end, whatever becomes of the
   claims. *)
JobsSettle == \A j \in Jobs : <>[](\E w \in Workers : Up(w)) => <>Settled(j)

(* How far a job is from its end: what is left of its deferrals, attempts and second
   chances, each worth more than the states it can send the job back by. *)
Standing(s) ==
  CASE s.state = "delayed" -> 4
    [] s.state = "waiting" -> 3
    [] s.state = "active"  -> 2
    [] s.state = "stalled" -> 1
    [] OTHER               -> 0

Distance(s) ==
  3 * ((MaxDefers - s.defers) + (Attempts - s.tries) + (MaxStalled - s.stalled))
  + Standing(s)

(* The ceiling behind it: whatever happens to a job (a deferral whose count is lost
   with its worker, a retry, a dead consumer) brings it nearer to its end, which it
   can only do so often, and what has ended is never taken up again. *)
JobsWearOut ==
  [][\A j \in Jobs : job'[j] # job[j] =>
       /\ ~Settled(j)
       /\ 0 <= Distance(job'[j]) /\ Distance(job'[j]) < Distance(job[j])]_jobVars

(* "An execution job may only be processed while this process verifiably holds the
   claim" (worker-coordination.service.ts), when it is admitted and unless the
   worker has given the claim back at its shutdown. *)
AdmittedByTheOwner ==
  [][\A j \in Jobs : job[j].state = "waiting" /\ job'[j].state = "active" =>
       LET w == job'[j].at IN
       Partition[j] \in GivenBack(wkr[w]) \/ lease[Partition[j]].owner = w]_jobVars
--------------------------------------------------------------------------------
(* "Cross-process serialisation for the same account is structural: one owner per
   partition" (trade-execution.processor.ts). *)
OneConsumerPerAccount ==
  \A i, j \in Jobs :
    job[i].state = "active" /\ job[j].state = "active" /\ Account[i] = Account[j]
      => job[i].at = job[j].at
================================================================================
