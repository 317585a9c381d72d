---------------------------- MODULE LeaseProofs ----------------------------
(***************************************************************************)
(* Theorems about LeaderLease, for any electors and durations.  The        *)
(* inductive invariant says of each elector what its place in run() and    *)
(* its dates tell of the lease; a step of one elector disturbs no other    *)
(* because it changes the lease only when the other does not own it.       *)
(***************************************************************************)
EXTENDS LeaderLease, TLAPS

LeaseTyped(l) ==
    /\ l \in [owner: Electors \cup {Nobody, Orphan}, left: 0 .. TTL]
    /\ (l.owner = Nobody) <=> (l.left = 0)

Holding == {"promote", "lead", "extend", "extended", "lapsed", "release", "released"}

Sound(l, r, e) ==
    /\ r.handle <=> r.at \in Holding
    /\ r.at \in {"promote", "lead", "extend", "lapsed", "release"} =>
           l.owner = e /\ l.left + Slow + r.age >= TTL
    /\ r.at \in {"won", "extended"} => l.owner = e /\ l.left + r.clk >= TTL
    /\ r.handle => r.age <= Busy + (IF r.at \in InCall THEN r.clk ELSE 0)
                                 + (IF r.leaving THEN Slow ELSE 0)
    /\ r.leaving => r.at \in {"release", "released"}

Inv == TypeOK /\ \A e \in Electors : Sound(lease, el[e], e)

(***************************************************************************)
(* Type correctness.                                                       *)
(***************************************************************************)
LEMMA FreeTyped == LeaseTyped(Free)
BY ElectionAssumption DEF LeaseTyped, Free

LEMMA FreshTyped == Fresh \in Elector
BY ElectionAssumption DEF Fresh, Elector, Places

\* An elector as a record of its fields.
LEMMA Fields ==
    ASSUME NEW r \in Elector
    PROVE  /\ r = [at |-> r.at, handle |-> r.handle, age |-> r.age, clk |-> r.clk,
                   leaving |-> r.leaving]
           /\ r.at \in Places /\ r.handle \in BOOLEAN /\ r.age \in 0 .. Busy + 2 * Slow
           /\ r.clk \in 0 .. Slow /\ r.leaving \in BOOLEAN
           /\ 0 \in 0 .. Slow /\ 0 \in 0 .. Busy + 2 * Slow /\ Busy \in Nat /\ Slow \in Nat
BY ElectionAssumption DEF Elector

LEMMA FreshSound == \A l, e : Sound(l, Fresh, e)
BY DEF Sound, Fresh, Holding

LEMMA LeftIsNat == ASSUME LeaseTyped(lease) PROVE lease.left \in Nat /\ TTL \in Nat
BY ElectionAssumption DEF LeaseTyped

LEMMA ForgetTyped ==
    ASSUME LeaseTyped(lease), NEW e \in Electors, Forget(e)
    PROVE  LeaseTyped(lease')
BY ElectionAssumption DEF LeaseTyped, Forget

\* What a step of one elector has to show.
LEMMA OwnStep ==
    ASSUME Inv, NEW e \in Electors, NEW rec \in Elector, Become(e, rec),
           LeaseTyped(lease'), Sound(lease', rec, e),
           \A f \in Electors \ {e} : lease.owner = f => lease' = lease
    PROVE  Inv'
<1>1. /\ el'[e] = rec
      /\ \A f \in Electors \ {e} : el'[f] = el[f]
      /\ el' \in [Electors -> Elector]
  BY DEF Inv, TypeOK, Become
<1>2. TypeOK'
  BY <1>1 DEF LeaseTyped, TypeOK
<1>3. ASSUME NEW f \in Electors PROVE Sound(lease', el'[f], f)
  <2>1. CASE f = e
    BY <2>1, <1>1
  <2>2. CASE f # e
    <3>1. el'[f] = el[f] /\ Sound(lease, el[f], f)
      BY <2>2, <1>1 DEF Inv
    <3>2. lease.owner = f => lease' = lease
      BY <2>2
    <3> QED BY <3>1, <3>2 DEF Sound
  <2> QED BY <2>1, <2>2
<1> QED BY <1>2, <1>3 DEF Inv

(***************************************************************************)
(* Steps that leave the lease alone, and those that do not.                *)
(***************************************************************************)
LEMMA Quiet ==
    ASSUME Inv, NEW e \in Electors,
           \/ Start(e) \/ Campaign(e) \/ Won(e) \/ Retry(e) \/ DutyStarts(e)
           \/ DutyFails(e) \/ RenewIfDue(e) \/ Renewed(e) \/ Demoted(e) \/ Stop(e)
    PROVE  Inv'
<1> DEFINE r == el[e]
<1>0. r \in Elector /\ Sound(lease, r, e) /\ LeaseTyped(lease) /\ Fresh \in Elector
  BY FreshTyped DEF Inv, TypeOK, LeaseTyped
<1>1. SUFFICES ASSUME NEW rec \in Elector, Become(e, rec), lease' = lease,
                      Sound(lease, rec, e)
               PROVE  Inv'
  <2> USE <1>0, Fields DEF Sound, Holding, Goto, Call, InCall
  <2>1. CASE Start(e)
    <3> DEFINE rec == [Fresh EXCEPT !.at = "top"]
    <3>1. rec \in Elector /\ Sound(lease, rec, e)
      <4>1. rec \in Elector
        BY Fields DEF Elector, Places, InCall
      <4>2. Sound(lease, rec, e)
        BY DEF Fresh
      <4> QED BY <4>1, <4>2
    <3> QED BY <3>1, <2>1, <1>1 DEF Start
  <2>2. CASE Campaign(e)
    <3> DEFINE rec == [r EXCEPT !.at = "set", !.clk = 0]
    <3>1. rec \in Elector /\ Sound(lease, rec, e)
      <4>1. rec \in Elector
        BY Fields DEF Elector, Places, InCall
      <4>2. Sound(lease, rec, e)
        BY <2>2 DEF Campaign
      <4> QED BY <4>1, <4>2
    <3> QED BY <3>1, <2>2, <1>1 DEF Campaign
  <2>3. CASE Won(e)
    <3> DEFINE rec == [r EXCEPT !.at = "promote", !.handle = TRUE, !.age = 0]
    <3>1. rec \in Elector /\ Sound(lease, rec, e)
      <4>1. rec \in Elector
        BY Fields DEF Elector, Places, InCall
      <4>2. /\ rec.at = "promote" /\ rec.age = 0 /\ rec.handle /\ ~rec.leaving
            /\ lease.owner = e /\ lease.left + r.clk >= TTL
        BY <2>3 DEF Won
      <4>3. lease.left + Slow + rec.age >= TTL
        BY <4>2, LeftIsNat
      <4>4. Sound(lease, rec, e)
        BY <4>2, <4>3
      <4> QED BY <4>1, <4>4
    <3> QED BY <3>1, <2>3, <1>1 DEF Won
  <2>4. CASE Retry(e)
    <3> DEFINE rec == [r EXCEPT !.at = "top"]
    <3>1. rec \in Elector /\ Sound(lease, rec, e)
      <4>1. rec \in Elector
        BY Fields DEF Elector, Places, InCall
      <4>2. Sound(lease, rec, e)
        BY <2>4 DEF Retry
      <4> QED BY <4>1, <4>2
    <3> QED BY <3>1, <2>4, <1>1 DEF Retry
  <2>5. CASE DutyStarts(e)
    <3> DEFINE rec == [r EXCEPT !.at = "lead"]
    <3>1. rec \in Elector /\ Sound(lease, rec, e)
      <4>1. rec \in Elector
        BY Fields DEF Elector, Places, InCall
      <4>2. Sound(lease, rec, e)
        BY <2>5 DEF DutyStarts
      <4> QED BY <4>1, <4>2
    <3> QED BY <3>1, <2>5, <1>1 DEF DutyStarts
  <2>6. CASE DutyFails(e)
    <3> DEFINE rec == [r EXCEPT !.at = "release", !.clk = 0]
    <3>1. rec \in Elector /\ Sound(lease, rec, e)
      <4>1. rec \in Elector
        BY Fields DEF Elector, Places, InCall
      <4>2. Sound(lease, rec, e)
        BY <2>6 DEF DutyFails
      <4> QED BY <4>1, <4>2
    <3> QED BY <3>1, <2>6, <1>1 DEF DutyFails
  <2>7. CASE RenewIfDue(e)
    <3> DEFINE rec == [r EXCEPT !.at = "extend", !.clk = 0]
    <3>1. rec \in Elector /\ Sound(lease, rec, e)
      <4>1. rec \in Elector
        BY Fields DEF Elector, Places, InCall
      <4>2. Sound(lease, rec, e)
        BY <2>7 DEF RenewIfDue
      <4> QED BY <4>1, <4>2
    <3> QED BY <3>1, <2>7, <1>1 DEF RenewIfDue
  <2>8. CASE Renewed(e)
    <3> DEFINE rec == [r EXCEPT !.at = "lead", !.age = 0]
    <3>1. rec \in Elector /\ Sound(lease, rec, e)
      <4>1. rec \in Elector
        BY Fields DEF Elector, Places, InCall
      <4>2. /\ rec.at = "lead" /\ rec.age = 0 /\ rec.handle /\ ~rec.leaving
            /\ lease.owner = e /\ lease.left + r.clk >= TTL
        BY <2>8 DEF Renewed
      <4>3. lease.left + Slow + rec.age >= TTL
        BY <4>2, LeftIsNat
      <4>4. Sound(lease, rec, e)
        BY <4>2, <4>3
      <4> QED BY <4>1, <4>4
    <3> QED BY <3>1, <2>8, <1>1 DEF Renewed
  <2>9. CASE Demoted(e)
    <3> DEFINE rec == [r EXCEPT !.at = "top"]
    <3>1. rec \in Elector /\ Sound(lease, rec, e)
      <4>1. rec \in Elector
        BY Fields DEF Elector, Places, InCall
      <4>2. Sound(lease, rec, e)
        BY <2>9 DEF Demoted
      <4> QED BY <4>1, <4>2
    <3> QED BY <3>1, <2>9, <1>1 DEF Demoted
  <2>10. CASE Stop(e)
    <3> DEFINE rec == [r EXCEPT !.at = "release", !.clk = 0, !.leaving = TRUE]
    <3>1. CASE r.handle
      <4>1. rec \in Elector /\ Sound(lease, rec, e)
        <5>1. rec \in Elector
          BY Fields DEF Elector, Places, InCall
        <5>2. Sound(lease, rec, e)
          BY <2>10, <3>1 DEF Stop
        <5> QED BY <5>1, <5>2
      <4> QED BY <4>1, <3>1, <2>10, <1>1 DEF Stop
    <3>2. CASE ~r.handle
      <4>1. Sound(lease, Fresh, e)
        BY FreshSound
      <4> QED BY <4>1, <3>2, <2>10, <1>1 DEF Stop
    <3> QED BY <3>1, <3>2
  <2> QED BY <2>1, <2>2, <2>3, <2>4, <2>5, <2>6, <2>7, <2>8, <2>9, <2>10
<1> QED BY <1>0, <1>1, OwnStep

\* A cancelled task with a handle resigns: its belief lasts one more call.
LEMMA CancelledResigns ==
    ASSUME Inv, NEW e \in Electors, Cancelled(e), el[e].handle
    PROVE  Inv'
<1> DEFINE r == el[e]
<1>1. r \in Elector /\ Sound(lease, r, e) /\ LeaseTyped(lease)
  BY DEF Inv, TypeOK, LeaseTyped
<1>2. /\ r.at \in {"promote", "extend", "extended", "lapsed", "release", "released"}
      /\ ~r.leaving /\ lease' = lease
  BY <1>1 DEF Cancelled, Sound, Holding
<1>3. r.age <= Busy + Slow
  BY <1>1, <1>2, Fields DEF Sound
<1> DEFINE place == IF r.at = "released" THEN "released" ELSE "release"
           rec == [r EXCEPT !.at = place, !.clk = 0, !.leaving = TRUE]
<1>4. Become(e, rec)
  <2>1. CASE r.at \in {"promote", "extend", "extended", "lapsed"}
    BY <2>1, <1>2 DEF Cancelled
  <2>2. CASE r.at \in {"release", "released"}
    <3>1. place = r.at
      BY <2>2
    <3>2. [r EXCEPT !.at = place, !.clk = 0, !.leaving = TRUE] =
              [r EXCEPT !.clk = 0, !.leaving = TRUE]
      BY <3>1, <1>1 DEF Elector
    <3> QED BY <3>2, <2>2, <1>2 DEF Cancelled
  <2> QED BY <2>1, <2>2, <1>2
<1>5. /\ rec \in Elector
      /\ rec.at = place /\ rec.clk = 0 /\ rec.leaving /\ rec.handle /\ rec.age = r.age
  BY <1>1, Fields DEF Elector, Places, InCall
<1>6. r.at # "released" => lease.owner = e /\ lease.left + Slow + r.age >= TTL
  <2>1. CASE r.at = "extended"
    <3>1. lease.owner = e /\ lease.left + r.clk >= TTL /\ r.clk <= Slow
      BY <2>1, <1>1, Fields DEF Sound
    <3> QED BY <3>1, <1>1, Fields, LeftIsNat
  <2>2. CASE r.at \in {"promote", "extend", "lapsed", "release"}
    BY <2>2, <1>1 DEF Sound
  <2> QED BY <2>1, <2>2, <1>2
<1> HIDE DEF rec
<1>7. Sound(lease', rec, e)
  <2>1. /\ place \in {"release", "released"} /\ place \in InCall /\ place \in Holding
        /\ place = "release" => r.at # "released"
    BY DEF InCall, Holding
  <2> HIDE DEF place
  <2>2. r.age <= Busy + (IF rec.at \in InCall THEN rec.clk ELSE 0)
                      + (IF rec.leaving THEN Slow ELSE 0)
    BY <2>1, <1>1, <1>3, <1>5, Fields
  <2> QED BY <2>1, <2>2, <1>2, <1>5, <1>6 DEF Sound
<1>8. LeaseTyped(lease')
  BY <1>1, <1>2
<1> QED BY <1>2, <1>4, <1>5, <1>7, <1>8, OwnStep

LEMMA Runs ==
    ASSUME Inv, NEW e \in Electors, SetRuns(e) \/ ExtendRuns(e) \/ ReleaseRuns(e)
    PROVE  Inv'
<1> DEFINE r == el[e]
<1>0. r \in Elector /\ Sound(lease, r, e) /\ LeaseTyped(lease)
  BY DEF Inv, TypeOK, LeaseTyped
<1> USE <1>0, ElectionAssumption DEF Elector, Places, InCall, Sound, Holding, Goto
<1>1. CASE SetRuns(e)
  <2>1. CASE lease.owner = Nobody
    <3> DEFINE rec == [r EXCEPT !.at = "won"]
    <3>1. rec \in Elector /\ Become(e, rec) /\ lease' = [owner |-> e, left |-> TTL]
      BY <1>1, <2>1 DEF SetRuns
    <3>2. LeaseTyped(lease') /\ Sound(lease', rec, e)
      BY <3>1, <1>1 DEF LeaseTyped, SetRuns
    <3> QED BY <3>1, <3>2, <2>1, OwnStep
  <2>2. CASE lease.owner # Nobody
    <3> DEFINE rec == [r EXCEPT !.at = "refused"]
    <3>1. rec \in Elector /\ Become(e, rec) /\ lease' = lease /\ Sound(lease, rec, e)
      BY <1>1, <2>2 DEF SetRuns
    <3> QED BY <3>1, OwnStep
  <2> QED BY <2>1, <2>2
<1>2. CASE ExtendRuns(e)
  <2>1. lease.owner = e
    BY <1>2 DEF ExtendRuns
  <2> DEFINE rec == [r EXCEPT !.at = "extended"]
  <2>2. rec \in Elector /\ Become(e, rec) /\ lease' = [lease EXCEPT !.left = TTL]
    BY <1>2, <2>1 DEF ExtendRuns
  <2>3. LeaseTyped(lease') /\ Sound(lease', rec, e)
    BY <2>1, <2>2, <1>2 DEF LeaseTyped, ExtendRuns
  <2> QED BY <2>1, <2>2, <2>3, OwnStep
<1>3. CASE ReleaseRuns(e)
  <2> DEFINE rec == [r EXCEPT !.at = "released"]
  <2>1. rec \in Elector /\ Become(e, rec)
    BY <1>3 DEF ReleaseRuns
  <2>2. LeaseTyped(lease') /\ (lease' = lease \/ lease.owner = e)
    BY <1>3, FreeTyped DEF ReleaseRuns
  <2>3. Sound(lease', rec, e)
    BY <1>3 DEF ReleaseRuns
  <2> QED BY <2>1, <2>2, <2>3, OwnStep
<1> QED BY <1>1, <1>2, <1>3

LEMMA Forgets ==
    ASSUME Inv, NEW e \in Electors,
           \/ NotGained(e) \/ StepDown(e) \/ Resigned(e) \/ Crash(e)
           \/ Cancelled(e) /\ ~el[e].handle
    PROVE  Inv'
<1> DEFINE r == el[e]
<1>0. r \in Elector /\ Sound(lease, r, e) /\ LeaseTyped(lease)
  BY DEF Inv, TypeOK, LeaseTyped
<1>1. LeaseTyped(lease') /\ (lease' = lease \/ lease.owner = e)
  BY <1>0, ForgetTyped
  DEF NotGained, StepDown, Resigned, Crash, Cancelled, Forget, Sound, Holding
<1>2. SUFFICES ASSUME NEW rec \in Elector, Become(e, rec), Sound(lease', rec, e)
               PROVE  Inv'
  <2> USE <1>0, Fields DEF Sound, Holding, Goto, InCall
  <2>0. Fresh \in Elector /\ Sound(lease', Fresh, e)
    BY FreshTyped, FreshSound
  <2>1. CASE NotGained(e)
    <3> DEFINE rec == [r EXCEPT !.at = "retry"]
    <3>1. rec \in Elector /\ Sound(lease', rec, e)
      <4>1. rec \in Elector
        BY Fields DEF Elector, Places, InCall
      <4>2. Sound(lease', rec, e)
        BY <2>1 DEF NotGained
      <4> QED BY <4>1, <4>2
    <3> QED BY <3>1, <2>1, <1>2 DEF NotGained
  <2>2. CASE StepDown(e)
    <3> DEFINE rec == [r EXCEPT !.at = "demote", !.handle = FALSE, !.age = 0]
    <3>1. rec \in Elector /\ Sound(lease', rec, e)
      <4>1. rec \in Elector
        BY Fields DEF Elector, Places, InCall
      <4>2. Sound(lease', rec, e)
        BY <2>2 DEF StepDown
      <4> QED BY <4>1, <4>2
    <3> QED BY <3>1, <2>2, <1>2 DEF StepDown
  <2>3. CASE Resigned(e)
    <3>1. CASE ~r.leaving
      <4> DEFINE rec == [r EXCEPT !.at = "top", !.handle = FALSE, !.age = 0]
      <4>1. rec \in Elector
        BY Fields DEF Elector, Places, InCall
      <4>2. Sound(lease', rec, e)
        BY <2>3, <3>1 DEF Resigned
      <4> QED BY <4>1, <4>2, <3>1, <2>3, <1>2 DEF Resigned
    <3>2. CASE r.leaving
      BY <2>0, <2>3, <3>2, <1>2 DEF Resigned
    <3> QED BY <3>1, <3>2
  <2>4. CASE Crash(e)
    BY <2>0, <2>4, <1>2 DEF Crash
  <2>5. CASE Cancelled(e) /\ ~el[e].handle
    BY <2>0, <2>5, <1>2 DEF Cancelled
  <2> QED BY <2>1, <2>2, <2>3, <2>4, <2>5
<1> QED BY <1>1, <1>2, OwnStep

(***************************************************************************)
(* Time.  A lease that backs a belief does not expire while the belief may *)
(* last; this is where the relation of the durations is needed.            *)
(***************************************************************************)
Durations == TTL > Busy + Slow + Slow + Slow

LEMMA Older ==
    ASSUME Inv, ClocksAdvance
    PROVE  /\ el' \in [Electors -> Elector]
           /\ \A e \in Electors :
                 /\ el'[e].at = el[e].at /\ el'[e].handle = el[e].handle
                 /\ el'[e].leaving = el[e].leaving
                 /\ el'[e].clk = IF el[e].at \in InCall THEN el[e].clk + 1 ELSE el[e].clk
                 /\ el'[e].age = IF el[e].handle /\ el[e].age < Busy + 2 * Slow
                                 THEN el[e].age + 1 ELSE el[e].age
<1>1. ASSUME NEW e \in Electors
      PROVE  LET r == el[e]
                 q == [r EXCEPT !.clk = IF r.at \in InCall THEN @ + 1 ELSE @,
                                !.age = IF r.handle /\ @ < Busy + 2 * Slow
                                        THEN @ + 1 ELSE @]
             IN  /\ q \in Elector
                 /\ q.at = r.at /\ q.handle = r.handle /\ q.leaving = r.leaving
                 /\ q.clk = IF r.at \in InCall THEN r.clk + 1 ELSE r.clk
                 /\ q.age = IF r.handle /\ r.age < Busy + 2 * Slow THEN r.age + 1 ELSE r.age
  <2> DEFINE r == el[e]
  <2>1. r \in Elector /\ (r.at \in InCall => r.clk < Slow)
    BY DEF Inv, TypeOK, ClocksAdvance
  <2> DEFINE c == IF r.at \in InCall THEN r.clk + 1 ELSE r.clk
             a == IF r.handle /\ r.age < Busy + 2 * Slow THEN r.age + 1 ELSE r.age
  <2>2. c \in 0 .. Slow /\ a \in 0 .. Busy + 2 * Slow
    BY <2>1, Fields
  <2>3. [r EXCEPT !.clk = c, !.age = a] \in Elector
    BY <2>1, <2>2 DEF Elector
  <2>4. /\ [r EXCEPT !.clk = c, !.age = a].clk = c /\ [r EXCEPT !.clk = c, !.age = a].age = a
        /\ [r EXCEPT !.clk = c, !.age = a].at = r.at
        /\ [r EXCEPT !.clk = c, !.age = a].handle = r.handle
        /\ [r EXCEPT !.clk = c, !.age = a].leaving = r.leaving
    BY <2>1, Fields DEF Elector
  <2> QED BY <2>3, <2>4
<1> QED BY <1>1 DEF ClocksAdvance

LEMMA TimeStep ==
    ASSUME Inv, Durations, TimePasses
    PROVE  Inv'
<1>1. ClocksAdvance /\ LeaseTyped(lease)
  BY DEF TimePasses, Inv, TypeOK, LeaseTyped
<1>2. LeaseTyped(lease')
  BY <1>1, FreeTyped, ElectionAssumption DEF TimePasses, LeaseTyped
<1>3. ASSUME NEW e \in Electors PROVE Sound(lease', el'[e], e)
  <2> DEFINE r == el[e]
             q == el'[e]
  <2>1. r \in Elector /\ q \in Elector /\ Sound(lease, r, e)
    BY <1>1, Older DEF Inv, TypeOK
  <2>2. /\ q.at = r.at /\ q.handle = r.handle /\ q.leaving = r.leaving
        /\ q.clk = IF r.at \in InCall THEN r.clk + 1 ELSE r.clk
        /\ q.age = IF r.handle /\ r.age < Busy + 2 * Slow THEN r.age + 1 ELSE r.age
    BY <1>1, Older
  <2>3. /\ r.at \in InCall => r.clk < Slow
        /\ r.at \in {"promote", "lead"} => r.age < Busy
    BY <1>1 DEF ClocksAdvance
  <2>4. lease' = IF lease.left > 1 THEN [lease EXCEPT !.left = @ - 1] ELSE Free
    BY DEF TimePasses
  <2> HIDE DEF r, q
  <2>5. /\ r.clk \in 0 .. Slow /\ r.age \in 0 .. Busy + 2 * Slow
        /\ q.clk \in 0 .. Slow /\ q.age \in 0 .. Busy + 2 * Slow
        /\ lease.left \in 0 .. TTL /\ TTL \in Nat /\ Busy \in Nat /\ Slow \in Nat
    BY <2>1, <1>1, ElectionAssumption DEF Elector, LeaseTyped
  <2>6. CASE r.at \in {"promote", "lead", "extend", "lapsed", "release"}
    <3>1. /\ r.handle /\ lease.owner = e /\ lease.left + Slow + r.age >= TTL
          /\ r.age <= Busy + (IF r.at \in InCall THEN r.clk ELSE 0)
                           + (IF r.leaving THEN Slow ELSE 0)
          /\ r.leaving => r.at = "release"
      BY <2>1, <2>6 DEF Sound, Holding
    <3>2. r.age < Busy + 2 * Slow /\ r.at \notin {"won", "extended"}
      BY <2>3, <2>5, <2>6, <3>1 DEF InCall
    <3>3. q.age = r.age + 1 /\ lease.left > 1
      BY <2>2, <2>5, <3>1, <3>2 DEF Durations
    <3>4. lease'.owner = e /\ lease'.left = lease.left - 1
      BY <2>4, <3>1, <3>3, <1>1 DEF LeaseTyped
    <3>5. lease'.left + Slow + q.age >= TTL
      BY <2>5, <3>1, <3>3, <3>4
    <3>6. q.age <= Busy + (IF r.at \in InCall THEN q.clk ELSE 0)
                        + (IF r.leaving THEN Slow ELSE 0)
      BY <2>2, <2>3, <2>5, <2>6, <3>1, <3>3 DEF InCall
    <3>7. /\ q.handle <=> q.at \in Holding
          /\ q.leaving => q.at \in {"release", "released"}
      BY <2>1, <2>2 DEF Sound
    <3>8. q.at \notin {"won", "extended"}
      BY <2>2, <3>2
    <3>9. q.age <= Busy + (IF q.at \in InCall THEN q.clk ELSE 0)
                        + (IF q.leaving THEN Slow ELSE 0)
      BY <2>2, <3>6
    <3> QED BY <3>4, <3>5, <3>7, <3>8, <3>9 DEF Sound, q
  <2>7. CASE r.at \in {"won", "extended"}
    <3>1. lease.owner = e /\ lease.left + r.clk >= TTL /\ r.clk < Slow /\ q.clk = r.clk + 1
      BY <2>1, <2>2, <2>3, <2>7 DEF Sound, InCall
    <3>2. lease.left > 1
      BY <2>5, <3>1 DEF Durations
    <3>3. lease'.owner = e /\ lease'.left = lease.left - 1
      BY <2>4, <3>1, <3>2, <1>1 DEF LeaseTyped
    <3>4. lease'.left + q.clk >= TTL
      BY <2>5, <3>1, <3>3
    <3>5. q.handle => q.age <= Busy + q.clk + (IF q.leaving THEN Slow ELSE 0)
      BY <2>1, <2>2, <2>5, <2>7, <3>1 DEF Sound, InCall
    <3>6. /\ q.handle <=> q.at \in Holding
          /\ q.leaving => q.at \in {"release", "released"}
      BY <2>1, <2>2 DEF Sound
    <3>7. q.at \in {"won", "extended"} /\ q.at \in InCall
      BY <2>2, <2>7 DEF InCall
    <3>8. q.at \notin {"promote", "lead", "extend", "lapsed", "release"}
      BY <3>7
    <3> QED BY <3>3, <3>4, <3>5, <3>6, <3>7, <3>8 DEF Sound, q
  <2>8. CASE r.at \notin {"promote", "lead", "extend", "lapsed", "release", "won", "extended"}
    <3>1. q.handle => q.age <= Busy + (IF r.at \in InCall THEN q.clk ELSE 0)
                                    + (IF r.leaving THEN Slow ELSE 0)
      BY <2>1, <2>2, <2>5, <2>8 DEF Sound, Holding, InCall
    <3>2. /\ q.handle <=> q.at \in Holding
          /\ q.leaving => q.at \in {"release", "released"}
      BY <2>1, <2>2 DEF Sound
    <3>3. /\ q.at \notin {"promote", "lead", "extend", "lapsed", "release"}
          /\ q.at \notin {"won", "extended"}
      BY <2>2, <2>8
    <3>4. \/ q.age <= Busy + (IF q.at \in InCall THEN q.clk ELSE 0)
                           + (IF q.leaving THEN Slow ELSE 0)
          \/ ~q.handle
      BY <2>2, <3>1
    <3> QED BY <3>2, <3>3, <3>4 DEF Sound, q
  <2> QED BY <2>6, <2>7, <2>8
<1>4. TypeOK'
  BY <1>1, <1>2, Older DEF TypeOK, LeaseTyped
<1> QED BY <1>3, <1>4 DEF Inv

(***************************************************************************)
(* The theorems.                                                           *)
(***************************************************************************)
LEMMA Inductive == ASSUME Durations PROVE Spec => []Inv
<1>1. Init => Inv
  <2> SUFFICES ASSUME Init PROVE Inv
    OBVIOUS
  <2>1. TypeOK
    BY FreeTyped, FreshTyped DEF Init, TypeOK, LeaseTyped
  <2>2. ASSUME NEW e \in Electors PROVE Sound(lease, el[e], e)
    BY DEF Init, Fresh, Sound, Holding
  <2> QED BY <2>1, <2>2 DEF Inv
<1>2. Inv /\ [Next]_vars => Inv'
  <2> SUFFICES ASSUME Inv, [Next]_vars PROVE Inv'
    OBVIOUS
  <2>1. CASE UNCHANGED vars
    BY <2>1 DEF vars, Inv, TypeOK
  <2>2. CASE TimePasses
    BY <2>2, TimeStep
  <2>3. ASSUME NEW e \in Electors, Works(e) \/ Start(e) \/ Stop(e) \/ Cancelled(e) \/ Crash(e)
        PROVE  Inv'
    BY <2>3, Quiet, Runs, Forgets, CancelledResigns DEF Works
  <2> QED BY <2>1, <2>2, <2>3 DEF Next
<1> QED BY <1>1, <1>2, PTL DEF Spec

\* The lease and the electors keep their types, commands on their way and clocks
\* included.
THEOREM LeadersTyped == ASSUME Durations PROVE Spec => []TypeOK
<1>1. Inv => TypeOK
  BY DEF Inv
<1> QED BY <1>1, Inductive, PTL

\* Who leads has the lease for as long as it may go on believing, for any number
\* of electors and any durations with TTL > Busy + 3 * Slow.
THEOREM LeaseBacksBelief == ASSUME Durations PROVE Spec => []LeaseOutlastsBelief
<1>1. Inv => LeaseOutlastsBelief
  BY DEF Inv, TypeOK, Sound, LeaseOutlastsBelief, Leads, Holding, InCall, Elector, Places
<1> QED BY <1>1, Inductive, PTL

\* No two processes lead at once, under the same relation of the durations.
THEOREM OneLeaderAtATime == ASSUME Durations PROVE Spec => []OneLeader
<1>1. Inv => OneLeader
  BY DEF Inv, TypeOK, Sound, OneLeader, Leads, Holding
<1> QED BY <1>1, Inductive, PTL

(***************************************************************************)
(* The role of the leader has an owner, as Ownership says.                 *)
(***************************************************************************)
LEMMA LeadersStep ==
    ASSUME Inv, Inv', [Next]_vars
    PROVE  Owning!Next
<1> DEFINE now == {e \in Electors : Leads(e)}
           then == {e \in Electors : Leads(e)'}
<1>1. /\ Leaders["leader"] = now /\ Leaders'["leader"] = then
      /\ Leaders' \in [{"leader"} -> SUBSET Electors]
  BY DEF Leaders
<1>2. /\ \A e, f \in now : e = f
      /\ \A e, f \in then : e = f
  BY DEF Inv, TypeOK, Sound, Leads, Holding
<1>3. ASSUME \A e \in Electors : el'[e].at = el[e].at /\ el'[e].handle = el[e].handle
      PROVE  Owning!Next
  <2>1. then = now
    BY <1>3 DEF Leads
  <2> QED BY <1>1, <2>1 DEF Owning!Next, Owning!Lapse
<1>4. ASSUME NEW e \in Electors, NEW rec, Become(e, rec)
      PROVE  Owning!Next
  <2>1. \A f \in Electors \ {e} : el'[f] = el[f]
    BY <1>4 DEF Become, Inv, TypeOK
  <2>2. \A f \in Electors \ {e} : f \in then <=> f \in now
    BY <2>1 DEF Leads
  <2> HIDE DEF now, then
  <2>3. \/ then = now \/ (now = {} /\ then = {e}) \/ (now = {e} /\ then = {})
    <3>1. now \subseteq Electors /\ then \subseteq Electors
      BY DEF now, then
    <3> QED BY <1>2, <2>2, <3>1
  <2> QED BY <1>1, <2>3 DEF Owning!Next, Owning!Review
<1>5. ASSUME NEW e \in Electors, Works(e) \/ Start(e) \/ Stop(e) \/ Cancelled(e) \/ Crash(e)
      PROVE  Owning!Next
  BY <1>4, <1>5
  DEF Works, Start, Stop, Cancelled, Crash, Campaign, SetRuns, Won, NotGained, Retry,
     DutyStarts, DutyFails, RenewIfDue, ExtendRuns, Renewed, StepDown, Demoted,
     ReleaseRuns, Resigned, Goto, Call
<1>6. ASSUME TimePasses PROVE Owning!Next
  BY <1>3, <1>6, Older DEF TimePasses
<1>7. ASSUME UNCHANGED vars PROVE Owning!Next
  BY <1>3, <1>7 DEF vars
<1> QED BY <1>5, <1>6, <1>7 DEF Next

\* The electors implement Ownership: an elector comes to lead only while nobody
\* leads, whatever is lost, whoever dies and whoever is still resigning.
THEOREM ElectorsImplementOwnership == ASSUME Durations PROVE Spec => RoleIsOwned
<1>1. Init => Owning!Init
  <2> SUFFICES ASSUME Init PROVE Leaders = [role \in {"leader"} |-> {}]
    BY DEF Owning!Init
  <2>1. \A e \in Electors : ~Leads(e)
    BY DEF Init, Fresh, Leads
  <2> QED BY <2>1 DEF Leaders
<1>2. Inv /\ Inv' /\ [Next]_vars => [Owning!Next]_Leaders
  BY LeadersStep
<1> QED BY <1>1, <1>2, Inductive, PTL DEF Spec, RoleIsOwned, Owning!Spec
=============================================================================
