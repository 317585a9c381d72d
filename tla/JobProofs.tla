------------------------------- MODULE JobProofs -------------------------------
(***************************************************************************)
(* Theorems about TradeJobs, for any jobs, accounts, workers and limits.   *)
(***************************************************************************)
EXTENDS TradeJobs, WorkerProofs

(* What a step does to the workers and their claims is a step of theirs. *)
LEMMA JobStepsAreWorkerSteps == [JobNext]_jobVars => [Next]_vars
BY DEF JobNext, JobStep, Admit, Defer, DeferFails, EngineAnswers, Due, Recovered,
       CoordinationStep, jobVars

(* Whatever the queue, the consumers and the engine do, the workers do what they do
   without jobs: what is proved of the workers holds under the jobs too. *)
THEOREM JobsRunOnWorkers == JobSpec => Spec
BY JobStepsAreWorkerSteps, PTL DEF JobSpec, JobInit, Spec

(* What JobTypeOK says of one job. *)
WellFormedJob(s) ==
  /\ s \in Job
  /\ s.state # "failed" => s.tries < Attempts

WellFormedJobs == job \in [Jobs -> Job] /\ \A j \in Jobs : WellFormedJob(job[j])

LEMMA PutIsWellFormed ==
  ASSUME WellFormedJobs, NEW j \in Jobs, NEW s, WellFormedJob(s), Put(j, s)
  PROVE  WellFormedJobs'
<1>1. job' = [job EXCEPT ![j] = s] /\ s \in Job
  BY DEF Put, WellFormedJob
<1>2. job' \in [Jobs -> Job] /\ \A i \in Jobs : job'[i] = IF i = j THEN s ELSE job[i]
  BY <1>1 DEF WellFormedJobs
<1> QED BY <1>2 DEF WellFormedJobs, WellFormedJob

(* A step keeps the types of the jobs. *)
LEMMA JobTypeStep ==
  ASSUME WellFormedJobs, [JobNext]_jobVars
  PROVE  WellFormedJobs'
<1>1. ASSUME NEW j \in Jobs, JobStep(j) PROVE WellFormedJobs'
  <2> DEFINE s == job[j]
  <2>1. s \in Job /\ WellFormedJob(s)
    BY DEF WellFormedJobs
  <2>2. /\ s.defers \in Nat /\ s.defers <= MaxDefers
        /\ s.tries \in Nat /\ s.tries <= Attempts
        /\ s.stalled \in Nat /\ s.stalled <= MaxStalled
    BY <2>1, JobAssumption DEF Job, WellFormedJob
  <2>3. ASSUME NEW w \in Workers, Admit(w, j) PROVE WellFormedJobs'
    <3> DEFINE t == [s EXCEPT !.state = "active", !.at = w]
    <3>1. 0 \in 0 .. MaxDefers /\ s.state = "waiting"
      BY <2>3, JobAssumption DEF Admit
    <3>2. t \in Job /\ t.defers = s.defers /\ t.tries = s.tries
      BY <2>1, <3>1 DEF Job
    <3>3. Put(j, t)
      BY <2>3 DEF Admit
    <3> HIDE DEF t
    <3>4. WellFormedJob(t)
      BY <2>1, <2>2, <3>1, <3>2 DEF WellFormedJob
    <3> QED BY <3>3, <3>4, PutIsWellFormed
  <2>4. ASSUME NEW w \in Workers, Defer(w, j) PROVE WellFormedJobs'
    <3>1. s.state = "waiting"
      BY <2>4 DEF Defer
    <3>2. CASE s.defers = MaxDefers
      <4> DEFINE t == [s EXCEPT !.state = "failed"]
      <4>1. Put(j, t)
        BY <2>4, <3>2 DEF Defer
      <4>2. /\ t \in Job /\ t.defers = s.defers
            /\ t.state = "failed"
        BY <2>1 DEF Job
      <4> HIDE DEF t
      <4>3. WellFormedJob(t)
        BY <2>1, <4>2 DEF WellFormedJob
      <4> QED BY <4>1, <4>3, PutIsWellFormed
    <3>3. CASE s.defers # MaxDefers
      <4> DEFINE d == s.defers + 1
                   t == [s EXCEPT !.state = "delayed", !.defers = d]
      <4>1. Put(j, t)
        BY <2>1, <2>4, <3>3 DEF Defer, Job
      <4>2. d \in 0 .. MaxDefers
        BY <2>2, <3>3, JobAssumption
      <4> HIDE DEF d
      <4>3. t \in Job /\ t.defers = d /\ t.tries = s.tries
        BY <2>1, <4>2 DEF Job
      <4> HIDE DEF t
      <4>4. WellFormedJob(t)
        BY <2>1, <3>1, <4>2, <4>3 DEF WellFormedJob
      <4> QED BY <4>1, <4>4, PutIsWellFormed
    <3> QED BY <3>2, <3>3
  <2>5. ASSUME NEW w \in Workers, DeferFails(w, j) PROVE WellFormedJobs'
    <3>1. PICK n \in {0, 1} :
            Put(j, [s EXCEPT !.state = "stalled", !.defers = @ + n])
      BY <2>5 DEF DeferFails
    <3> DEFINE d == s.defers + n
               t == [s EXCEPT !.state = "stalled", !.defers = d]
    <3>2. Put(j, t)
      BY <2>1, <3>1 DEF Job
    <3>3. d \in 0 .. MaxDefers /\ s.state = "waiting"
      BY <2>2, <2>5, JobAssumption DEF DeferFails
    <3> HIDE DEF d
    <3>4. t \in Job /\ t.defers = d /\ t.tries = s.tries
      BY <2>1, <3>3 DEF Job
    <3> HIDE DEF t
    <3>5. WellFormedJob(t)
      BY <2>1, <3>3, <3>4 DEF WellFormedJob
    <3> QED BY <3>2, <3>5, PutIsWellFormed
  <2>6. CASE EngineAnswers(j)
    <3>1. s.state = "active" /\ s.tries < Attempts
      BY <2>1, <2>6 DEF EngineAnswers, WellFormedJob
    <3>2. ASSUME NEW state \in {"completed", "failed"},
                 Put(j, [s EXCEPT !.state = state, !.at = None])
          PROVE  WellFormedJobs'
      <4> DEFINE t == [s EXCEPT !.state = state, !.at = None]
      <4>1. /\ t \in Job /\ t.defers = s.defers
            /\ t.tries = s.tries
        BY <2>1 DEF Job
      <4> HIDE DEF t
      <4>2. WellFormedJob(t)
        BY <2>1, <3>1, <4>1 DEF WellFormedJob
      <4>3. Put(j, t)
        BY <3>2 DEF t
      <4> QED BY <4>2, <4>3, PutIsWellFormed
    <3> DEFINE state == IF s.tries + 1 < Attempts THEN "delayed" ELSE "failed"
               m == s.tries + 1
               t == [s EXCEPT !.state = state, !.at = None, !.tries = m]
    <3>3. ASSUME Put(j, t) PROVE WellFormedJobs'
      <4>1. /\ m \in 0 .. Attempts /\ state \in {"delayed", "failed"}
            /\ state # "failed" => m < Attempts
        BY <2>2, <3>1, JobAssumption
      <4> HIDE DEF m, state
      <4>2. /\ t \in Job /\ t.defers = s.defers
            /\ t.tries = m /\ t.state = state
        BY <2>1, <4>1 DEF Job
      <4> HIDE DEF t
      <4>3. WellFormedJob(t)
        BY <2>1, <4>1, <4>2 DEF WellFormedJob
      <4> QED BY <3>3, <4>3, PutIsWellFormed
    <3>4. \/ \E st \in {"completed", "failed"} :
               Put(j, [s EXCEPT !.state = st, !.at = None])
          \/ Put(j, t)
      BY <2>1, <2>6 DEF EngineAnswers, Job
    <3> HIDE DEF t
    <3> QED BY <3>2, <3>3, <3>4
  <2>7. CASE Due(j)
    <3> DEFINE t == [s EXCEPT !.state = "waiting"]
    <3>1. s.state = "delayed" /\ Put(j, t)
      BY <2>7 DEF Due
    <3>2. /\ t \in Job /\ t.defers = s.defers
          /\ t.tries = s.tries
      BY <2>1 DEF Job
    <3> HIDE DEF t
    <3>3. WellFormedJob(t)
      BY <2>1, <3>1, <3>2 DEF WellFormedJob
    <3> QED BY <3>1, <3>3, PutIsWellFormed
  <2>8. CASE Recovered(j)
    <3>1. s.state = "stalled" /\ s.tries < Attempts
      BY <2>1, <2>8 DEF Recovered, WellFormedJob
    <3>2. CASE s.stalled = MaxStalled
      <4> DEFINE t == [s EXCEPT !.state = "failed"]
      <4>1. Put(j, t)
        BY <2>8, <3>2 DEF Recovered
      <4>2. /\ t \in Job /\ t.defers = s.defers
            /\ t.tries = s.tries
        BY <2>1 DEF Job
      <4> HIDE DEF t
      <4>3. WellFormedJob(t)
        BY <2>1, <3>1, <4>2 DEF WellFormedJob
      <4> QED BY <4>1, <4>3, PutIsWellFormed
    <3>3. CASE s.stalled # MaxStalled
      <4> DEFINE k == s.stalled + 1
                 t == [s EXCEPT !.state = "waiting", !.stalled = k]
      <4>1. Put(j, t)
        BY <2>1, <2>8, <3>3 DEF Recovered, Job
      <4>2. k \in 0 .. MaxStalled
        BY <2>2, <3>3, JobAssumption
      <4> HIDE DEF k
      <4>3. /\ t \in Job /\ t.defers = s.defers
            /\ t.tries = s.tries
        BY <2>1, <4>2 DEF Job
      <4> HIDE DEF t
      <4>4. WellFormedJob(t)
        BY <2>1, <3>1, <4>3 DEF WellFormedJob
      <4> QED BY <4>1, <4>4, PutIsWellFormed
    <3> QED BY <3>2, <3>3
  <2> HIDE DEF s
  <2> QED BY <1>1, <2>3, <2>4, <2>5, <2>6, <2>7, <2>8 DEF JobStep
<1>2. CASE CoordinationStep
  <2>1. ASSUME NEW j \in Jobs
        PROVE  /\ job[j] \in Job /\ WellFormedJob(job[j])
               /\ [job[j] EXCEPT !.state = "stalled", !.at = None] \in Job
               /\ WellFormedJob([job[j] EXCEPT !.state = "stalled", !.at = None])
                    \/ job[j].state # "active"
    <3> DEFINE t == [job[j] EXCEPT !.state = "stalled", !.at = None]
    <3>1. job[j] \in Job /\ WellFormedJob(job[j])
      BY DEF WellFormedJobs
    <3>2. /\ t \in Job /\ t.defers = job[j].defers
          /\ t.tries = job[j].tries
      BY <3>1 DEF Job
    <3> HIDE DEF t
    <3>3. WellFormedJob(t) \/ job[j].state # "active"
      BY <3>1, <3>2 DEF WellFormedJob
    <3> QED BY <3>1, <3>2, <3>3 DEF t
  <2>2. \A j \in Jobs :
          job'[j] = IF job[j].state = "active" /\ wkr'[job[j].at].pc = "down"
                      THEN [job[j] EXCEPT !.state = "stalled", !.at = None]
                      ELSE job[j]
    BY <1>2 DEF CoordinationStep
  <2>3. \A j \in Jobs : WellFormedJob(job'[j]) /\ job'[j] \in Job
    BY <2>1, <2>2
  <2>4. job' \in [Jobs -> Job]
    BY <1>2, <2>2, <2>3 DEF CoordinationStep
  <2> QED BY <2>3, <2>4 DEF WellFormedJobs
<1>3. CASE UNCHANGED jobVars
  BY <1>3 DEF jobVars, WellFormedJobs
<1> QED BY <1>1, <1>2, <1>3 DEF JobNext

(* JobTypeOK: no job is deferred, tried or handed out again more often than its
   limits allow, whatever becomes of its consumers. *)
THEOREM JobsTypeCorrect == JobSpec => []JobTypeOK
<1>1. JobInit => TypeOK
  BY FreshIsWellFormed, FreeIsTyped DEF JobInit, Init, TypeOK, WellFormed
<1>2. JobInit => WellFormedJobs
  <2> DEFINE s == [state |-> "waiting", at |-> None, defers |-> 0,
                   tries |-> 0, stalled |-> 0]
  <2>1. s \in Job /\ s.tries < Attempts
    BY JobAssumption DEF Job
  <2> HIDE DEF s
  <2>2. WellFormedJob(s)
    BY <2>1 DEF WellFormedJob
  <2>3. JobInit => job = [j \in Jobs |-> s]
    BY DEF JobInit, s
  <2> QED BY <2>1, <2>2, <2>3 DEF WellFormedJobs
<1>3. TypeOK /\ WellFormedJobs /\ [JobNext]_jobVars => (TypeOK /\ WellFormedJobs)'
  BY TypeStep, JobStepsAreWorkerSteps, JobTypeStep
<1>4. TypeOK /\ WellFormedJobs => JobTypeOK
  BY DEF WellFormedJobs, WellFormedJob, JobTypeOK
<1> QED BY <1>1, <1>2, <1>3, <1>4, PTL DEF JobSpec

(* A job is admitted by the owner of its partition, provided that a claim lasts
   longer than the slowest tick and the time for which a verdict is trusted. *)
THEOREM JobsAreAdmittedByTheOwner ==
  ASSUME LeaseTTL > Slow + StaleAfter
  PROVE  JobSpec => AdmittedByTheOwner
<1>1. JobInit => TypeOK /\ ClaimsOutlastVerdicts
  BY FreshIsWellFormed, FreeIsTyped, FreshIsBacked, BackedWorkers
     DEF JobInit, Init, TypeOK, WellFormed
<1>2. /\ TypeOK /\ ClaimsOutlastVerdicts /\ [JobNext]_jobVars
      => (TypeOK /\ ClaimsOutlastVerdicts)'
  BY TypeStep, BackedStep, JobStepsAreWorkerSteps
<1>3. ASSUME TypeOK, ClaimsOutlastVerdicts, JobTypeOK, JobNext, NEW j \in Jobs,
             job[j].state = "waiting", job'[j].state = "active",
             Partition[j] \notin GivenBack(wkr[job'[j].at])
      PROVE  lease[Partition[j]].owner = job'[j].at
  <2>1. \A i \in Jobs : job[i] \in Job
    BY <1>3 DEF JobTypeOK
  <2>2. ~CoordinationStep
    BY <1>3, <2>1 DEF CoordinationStep
  <2>3. PICK i \in Jobs : JobStep(i)
    BY <1>3, <2>2 DEF JobNext
  <2>4. ASSUME NEW w \in Workers, Admit(w, i)
        PROVE  lease[Partition[j]].owner = job'[j].at
    <3> DEFINE s == [job[i] EXCEPT !.state = "active", !.at = w]
    <3>1. Put(i, s) /\ UNCHANGED vars /\ Holds(w, Partition[i])
      BY <2>4 DEF Admit, Admissible
    <3>2. job' = [job EXCEPT ![i] = s] /\ s.at = w
      BY <2>1, <3>1 DEF Put, Job
    <3> HIDE DEF s
    <3>3. i = j /\ job'[j].at = w
      BY <1>3, <3>2 DEF JobTypeOK
    <3>4. Partition[j] \in Partitions /\ Partition[j] \notin GivenBack(wkr[w])
      BY <1>3, <3>3, JobAssumption
    <3> QED BY <1>3, <3>1, <3>3, <3>4 DEF ClaimsOutlastVerdicts, Holds
  <2>5. ASSUME NEW s, Put(i, s), s.state # "active" PROVE FALSE
    BY <1>3, <2>5 DEF Put, JobTypeOK
  <2>6. ASSUME NEW w \in Workers, Defer(w, i) PROVE FALSE
    BY <2>1, <2>5, <2>6 DEF Defer, Job
  <2>7. ASSUME NEW w \in Workers, DeferFails(w, i) PROVE FALSE
    BY <2>1, <2>5, <2>7 DEF DeferFails, Job
  <2>8. CASE EngineAnswers(i)
    BY <2>1, <2>5, <2>8 DEF EngineAnswers, Job
  <2>9. CASE Due(i)
    BY <2>1, <2>5, <2>9 DEF Due, Job
  <2>10. CASE Recovered(i)
    BY <2>1, <2>5, <2>10 DEF Recovered, Job
  <2> QED BY <2>3, <2>4, <2>6, <2>7, <2>8, <2>9, <2>10 DEF JobStep
<1>4. TypeOK /\ ClaimsOutlastVerdicts /\ JobTypeOK /\ [JobNext]_jobVars
        => [\A j \in Jobs : job[j].state = "waiting" /\ job'[j].state = "active" =>
              LET w == job'[j].at IN
              Partition[j] \in GivenBack(wkr[w]) \/ lease[Partition[j]].owner = w]_jobVars
  BY <1>3
<1> QED BY <1>1, <1>2, <1>4, JobsTypeCorrect, PTL DEF JobSpec, AdmittedByTheOwner

--------------------------------------------------------------------------------
(* A job that was put nearer to its end, and no other. *)
LEMMA PutWearsOut ==
  ASSUME WellFormedJobs, NEW j \in Jobs, NEW s, Put(j, s),
         ~Settled(j), Distance(s) < Distance(job[j])
  PROVE  \A i \in Jobs : job'[i] # job[i] =>
           ~Settled(i) /\ Distance(job'[i]) < Distance(job[i])
<1>1. \A i \in Jobs : job'[i] = IF i = j THEN s ELSE job[i]
  BY DEF Put, WellFormedJobs
<1> QED BY <1>1

(* A step that spends something may send the job back by less than it is worth. *)
LEMMA SpendingIsNearer ==
  ASSUME NEW s \in Job, NEW t \in Job,
         t.defers >= s.defers, t.tries >= s.tries, t.stalled >= s.stalled,
         \/ Standing(t) < Standing(s)
         \/ /\ t.defers > s.defers \/ t.tries > s.tries \/ t.stalled > s.stalled
            /\ Standing(t) < Standing(s) + 3
  PROVE  Distance(t) < Distance(s)
<1> DEFINE left(r) == (MaxDefers - r.defers) + (Attempts - r.tries)
                        + (MaxStalled - r.stalled)
<1>1. \A r \in {s, t} : /\ r.defers \in Nat /\ r.tries \in Nat /\ r.stalled \in Nat
                        /\ left(r) \in Int /\ Standing(r) \in 0 .. 4
  BY JobAssumption DEF Job, Standing
<1>2. Distance(s) = 3 * left(s) + Standing(s) /\ Distance(t) = 3 * left(t) + Standing(t)
  BY DEF Distance
<1>3. left(t) <= left(s)
  BY <1>1, JobAssumption
<1>4. (t.defers > s.defers \/ t.tries > s.tries \/ t.stalled > s.stalled)
        => left(t) < left(s)
  BY <1>1, JobAssumption
<1> HIDE DEF left
<1> QED BY <1>1, <1>2, <1>3, <1>4

LEMMA WearStep ==
  ASSUME WellFormedJobs, [JobNext]_jobVars
  PROVE  \A i \in Jobs : job'[i] # job[i] =>
           ~Settled(i) /\ Distance(job'[i]) < Distance(job[i])
<1> DEFINE Worn == \A i \in Jobs : job'[i] # job[i] =>
                     ~Settled(i) /\ Distance(job'[i]) < Distance(job[i])
<1>1. ASSUME NEW j \in Jobs, JobStep(j) PROVE Worn
  <2> DEFINE s == job[j]
  <2>1. s \in Job /\ (s.state # "failed" => s.tries < Attempts)
    BY DEF WellFormedJobs, WellFormedJob
  <2>2. /\ s.defers \in 0 .. MaxDefers /\ s.tries \in 0 .. Attempts
        /\ s.stalled \in 0 .. MaxStalled
    BY <2>1 DEF Job
  <2>3. ASSUME NEW t, Put(j, t), s.state \notin {"completed", "failed"},
               t \in Job, t.defers >= s.defers, t.tries >= s.tries, t.stalled >= s.stalled,
               \/ Standing(t) < Standing(s)
               \/ /\ t.defers > s.defers \/ t.tries > s.tries \/ t.stalled > s.stalled
                  /\ Standing(t) < Standing(s) + 3
        PROVE  Worn
    <3>1. ~Settled(j) /\ Distance(t) < Distance(s)
      BY <2>1, <2>3, SpendingIsNearer DEF Settled
    <3> QED BY <2>3, <3>1, PutWearsOut
  <2> HIDE DEF Worn
  <2>4. ASSUME NEW w \in Workers, Admit(w, j) PROVE Worn
    <3> DEFINE t == [s EXCEPT !.state = "active", !.at = w]
    <3>1. /\ t \in Job /\ t.defers = s.defers /\ t.tries = s.tries
          /\ t.stalled = s.stalled /\ t.state = "active"
      BY <2>1 DEF Job
    <3>2. Put(j, t) /\ s.state = "waiting"
      BY <2>4 DEF Admit
    <3> HIDE DEF t, s
    <3>3. Standing(t) < Standing(s)
      BY <3>1, <3>2 DEF Standing
    <3> QED BY <2>2, <2>3, <3>1, <3>2, <3>3, JobAssumption
  <2>5. ASSUME NEW w \in Workers, Defer(w, j) PROVE Worn
    <3>1. s.state = "waiting"
      BY <2>5 DEF Defer
    <3>2. CASE s.defers = MaxDefers
      <4> DEFINE t == [s EXCEPT !.state = "failed"]
      <4>1. /\ t \in Job /\ t.defers = s.defers /\ t.tries = s.tries
            /\ t.stalled = s.stalled /\ t.state = "failed"
        BY <2>1 DEF Job
      <4>2. Put(j, t)
        BY <2>5, <3>2 DEF Defer
      <4> HIDE DEF t, s
      <4>3. Standing(t) < Standing(s)
        BY <3>1, <4>1 DEF Standing
      <4> QED BY <2>2, <2>3, <3>1, <4>1, <4>2, <4>3, JobAssumption
    <3>3. CASE s.defers # MaxDefers
      <4> DEFINE d == s.defers + 1
                 t == [s EXCEPT !.state = "delayed", !.defers = d]
      <4>1. Put(j, t)
        BY <2>1, <2>5, <3>3 DEF Defer, Job
      <4>2. d \in 0 .. MaxDefers /\ d > s.defers
        BY <2>2, <3>3, JobAssumption
      <4> HIDE DEF d
      <4>3. /\ t \in Job /\ t.defers = d /\ t.tries = s.tries
            /\ t.stalled = s.stalled /\ t.state = "delayed"
        BY <2>1, <4>2 DEF Job
      <4> HIDE DEF t, s
      <4>4. Standing(t) < Standing(s) + 3
        BY <3>1, <4>3 DEF Standing
      <4> QED BY <2>2, <2>3, <3>1, <4>1, <4>2, <4>3, <4>4, JobAssumption
    <3> QED BY <3>2, <3>3
  <2>6. ASSUME NEW w \in Workers, DeferFails(w, j) PROVE Worn
    <3>1. PICK n \in {0, 1} :
            Put(j, [s EXCEPT !.state = "stalled", !.defers = @ + n])
      BY <2>6 DEF DeferFails
    <3> DEFINE d == s.defers + n
               t == [s EXCEPT !.state = "stalled", !.defers = d]
    <3>2. Put(j, t)
      BY <2>1, <3>1 DEF Job
    <3>3. d \in 0 .. MaxDefers /\ d >= s.defers /\ s.state = "waiting"
      BY <2>2, <2>6, JobAssumption DEF DeferFails
    <3> HIDE DEF d
    <3>4. /\ t \in Job /\ t.defers = d /\ t.tries = s.tries
          /\ t.stalled = s.stalled /\ t.state = "stalled"
      BY <2>1, <3>3 DEF Job
    <3> HIDE DEF t, s
    <3>5. Standing(t) < Standing(s)
      BY <3>3, <3>4 DEF Standing
    <3> QED BY <2>2, <2>3, <3>2, <3>3, <3>4, <3>5, JobAssumption
  <2>7. CASE EngineAnswers(j)
    <3>1. s.state = "active" /\ s.tries < Attempts
      BY <2>1, <2>7 DEF EngineAnswers
    <3>2. ASSUME NEW state \in {"completed", "failed"},
                 Put(j, [s EXCEPT !.state = state, !.at = None])
          PROVE  Worn
      <4> DEFINE t == [s EXCEPT !.state = state, !.at = None]
      <4>1. /\ t \in Job /\ t.defers = s.defers /\ t.tries = s.tries
            /\ t.stalled = s.stalled /\ t.state = state
        BY <2>1 DEF Job
      <4>2. Put(j, t)
        BY <3>2
      <4> HIDE DEF t, s
      <4>3. Standing(t) < Standing(s)
        BY <3>1, <4>1 DEF Standing
      <4> QED BY <2>2, <2>3, <3>1, <4>1, <4>2, <4>3, JobAssumption
    <3> DEFINE state == IF s.tries + 1 < Attempts THEN "delayed" ELSE "failed"
               m == s.tries + 1
               t == [s EXCEPT !.state = state, !.at = None, !.tries = m]
    <3>3. ASSUME Put(j, t) PROVE Worn
      <4>1. m \in 0 .. Attempts /\ m > s.tries /\ state \in {"delayed", "failed"}
        BY <2>2, <3>1, JobAssumption
      <4> HIDE DEF m, state
      <4>2. /\ t \in Job /\ t.defers = s.defers /\ t.tries = m
            /\ t.stalled = s.stalled /\ t.state = state
        BY <2>1, <4>1 DEF Job
      <4> HIDE DEF t, s
      <4>3. Standing(t) < Standing(s) + 3
        BY <3>1, <4>1, <4>2 DEF Standing
      <4> QED BY <2>2, <2>3, <3>1, <3>3, <4>1, <4>2, <4>3, JobAssumption
    <3>4. \/ \E st \in {"completed", "failed"} :
               Put(j, [s EXCEPT !.state = st, !.at = None])
          \/ Put(j, t)
      BY <2>1, <2>7 DEF EngineAnswers, Job
    <3> HIDE DEF t
    <3> QED BY <3>2, <3>3, <3>4
  <2>8. CASE Due(j)
    <3> DEFINE t == [s EXCEPT !.state = "waiting"]
    <3>1. s.state = "delayed" /\ Put(j, t)
      BY <2>8 DEF Due
    <3>2. /\ t \in Job /\ t.defers = s.defers /\ t.tries = s.tries
          /\ t.stalled = s.stalled /\ t.state = "waiting"
      BY <2>1 DEF Job
    <3> HIDE DEF t, s
    <3>3. Standing(t) < Standing(s)
      BY <3>1, <3>2 DEF Standing
    <3> QED BY <2>2, <2>3, <3>1, <3>2, <3>3, JobAssumption
  <2>9. CASE Recovered(j)
    <3>1. s.state = "stalled"
      BY <2>9 DEF Recovered
    <3>2. CASE s.stalled = MaxStalled
      <4> DEFINE t == [s EXCEPT !.state = "failed"]
      <4>1. /\ t \in Job /\ t.defers = s.defers /\ t.tries = s.tries
            /\ t.stalled = s.stalled /\ t.state = "failed"
        BY <2>1 DEF Job
      <4>2. Put(j, t)
        BY <2>9, <3>2 DEF Recovered
      <4> HIDE DEF t, s
      <4>3. Standing(t) < Standing(s)
        BY <3>1, <4>1 DEF Standing
      <4> QED BY <2>2, <2>3, <3>1, <4>1, <4>2, <4>3, JobAssumption
    <3>3. CASE s.stalled # MaxStalled
      <4> DEFINE k == s.stalled + 1
                 t == [s EXCEPT !.state = "waiting", !.stalled = k]
      <4>1. Put(j, t)
        BY <2>1, <2>9, <3>3 DEF Recovered, Job
      <4>2. k \in 0 .. MaxStalled /\ k > s.stalled
        BY <2>2, <3>3, JobAssumption
      <4> HIDE DEF k
      <4>3. /\ t \in Job /\ t.defers = s.defers /\ t.tries = s.tries
            /\ t.stalled = k /\ t.state = "waiting"
        BY <2>1, <4>2 DEF Job
      <4> HIDE DEF t, s
      <4>4. Standing(t) < Standing(s) + 3
        BY <3>1, <4>3 DEF Standing
      <4> QED BY <2>2, <2>3, <3>1, <4>1, <4>2, <4>3, <4>4, JobAssumption
    <3> QED BY <3>2, <3>3
  <2> HIDE DEF s
  <2> QED BY <1>1, <2>4, <2>5, <2>6, <2>7, <2>8, <2>9 DEF JobStep
<1>2. CASE CoordinationStep
  <2>1. ASSUME NEW i \in Jobs, job'[i] # job[i]
        PROVE  ~Settled(i) /\ Distance(job'[i]) < Distance(job[i])
    <3> DEFINE s == job[i]
               t == [s EXCEPT !.state = "stalled", !.at = None]
    <3>1. s.state = "active" /\ job'[i] = t
      BY <1>2, <2>1 DEF CoordinationStep
    <3>2. s \in Job
      BY DEF WellFormedJobs
    <3>3. /\ t \in Job /\ t.defers = s.defers /\ t.tries = s.tries
          /\ t.stalled = s.stalled /\ t.state = "stalled"
      BY <3>2 DEF Job
    <3>4. s.defers \in Nat /\ s.tries \in Nat /\ s.stalled \in Nat
      BY <3>2, JobAssumption DEF Job
    <3> HIDE DEF t, s
    <3>5. Standing(t) < Standing(s)
      BY <3>1, <3>3 DEF Standing
    <3>6. Distance(t) < Distance(s)
      BY <3>2, <3>3, <3>4, <3>5, SpendingIsNearer
    <3> QED BY <3>1, <3>6 DEF Settled, s
  <2> QED BY <2>1
<1>3. CASE UNCHANGED jobVars
  BY <1>3 DEF jobVars
<1> QED BY <1>1, <1>2, <1>3 DEF JobNext

LEMMA DistanceIsNatural == \A s \in Job : Distance(s) \in Nat
<1> SUFFICES ASSUME NEW s \in Job PROVE Distance(s) \in Nat
  OBVIOUS
<1>1. /\ s.defers \in 0 .. MaxDefers /\ s.tries \in 0 .. Attempts
      /\ s.stalled \in 0 .. MaxStalled /\ Standing(s) \in Nat
  BY DEF Job, Standing
<1> QED BY <1>1, JobAssumption DEF Distance

(* Whatever happens to a job brings it nearer to its end, for any number of jobs,
   workers and consumers and any limits: with JobTypeOK, no job changes for ever. *)
THEOREM JobsOnlyWearOut == JobSpec => JobsWearOut
<1>1. ASSUME JobTypeOK, JobTypeOK', [JobNext]_jobVars,
             NEW j \in Jobs, job'[j] # job[j]
      PROVE  /\ ~Settled(j)
             /\ 0 <= Distance(job'[j]) /\ Distance(job'[j]) < Distance(job[j])
  <2>1. ~Settled(j) /\ Distance(job'[j]) < Distance(job[j])
    BY <1>1, WearStep DEF JobTypeOK, WellFormedJobs, WellFormedJob
  <2>2. Distance(job'[j]) \in Nat
    BY <1>1, DistanceIsNatural DEF JobTypeOK
  <2> QED BY <2>1, <2>2
<1>2. JobTypeOK /\ JobTypeOK' /\ [JobNext]_jobVars
        => [\A j \in Jobs : job'[j] # job[j] =>
              /\ ~Settled(j)
              /\ 0 <= Distance(job'[j]) /\ Distance(job'[j]) < Distance(job[j])]_jobVars
  BY <1>1
<1> QED BY <1>2, JobsTypeCorrect, PTL DEF JobSpec, JobsWearOut
================================================================================
