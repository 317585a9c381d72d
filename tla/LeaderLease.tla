---------------------------- MODULE LeaderLease ----------------------------
(***************************************************************************)
(* The election of a leader for one role: LeaderElector over the Redis     *)
(* lock.  The store executes a command between its request and its answer, *)
(* either of which may be lost; the lease runs from the execution, the     *)
(* elector's own dates from the answer.  A call that failed or was         *)
(* cancelled has been carried out by then or never is.                     *)
(***************************************************************************)
EXTENDS Naturals

CONSTANTS
    Electors,   \* the processes that campaign for the role
    Flaky,      \* those whose on_promote may raise
    TTL,        \* ttl_millis of the lease
    Renew,      \* renew_millis
    Busy,       \* the longest a leader goes without sending a renewal: the
                \* sleep, its overshoot, and on_promote before the first one
    Slow,       \* the longest a call to the store takes
    Nobody,     \* the key does not exist
    Orphan      \* the key holds a token that no process remembers

ASSUME ElectionAssumption ==
    /\ Flaky \subseteq Electors
    /\ TTL \in Nat \ {0} /\ Renew \in Nat /\ Busy \in Nat /\ Slow \in Nat
    /\ Nobody \notin Electors /\ Orphan \notin Electors /\ Nobody # Orphan

VARIABLES
    lease,      \* the Redis key: whose token it holds, and its time to live
    el          \* the electors: where run() is, and what it remembers

vars == <<lease, el>>

InCall == {"set", "won", "refused", "extend", "extended", "lapsed",
           "release", "released"}
Places == InCall \cup {"off", "top", "retry", "promote", "lead", "demote"}

(***************************************************************************)
(* handle: the elector's is_leader.  age: since _last_action.  clk: since  *)
(* the call under way began.  leaving: run() is in its finally.  Left out: *)
(* that an exception of on_promote is raised again at its end, and that a  *)
(* run() cancelled a second time, in its finally, keeps its handle.        *)
(***************************************************************************)
Elector == [at: Places, handle: BOOLEAN, age: 0 .. Busy + 2 * Slow, clk: 0 .. Slow,
            leaving: BOOLEAN]

Fresh == [at |-> "off", handle |-> FALSE, age |-> 0, clk |-> 0,
          leaving |-> FALSE]

Free == [owner |-> Nobody, left |-> 0]

\* A key exists exactly while it has time to live, and the dates of run() stay
\* within the bounds that the clock's guards give them.
TypeOK ==
    /\ lease \in [owner: Electors \cup {Nobody, Orphan}, left: 0 .. TTL]
    /\ (lease.owner = Nobody) <=> (lease.left = 0)
    /\ el \in [Electors -> Elector]

Init == lease = Free /\ el = [e \in Electors |-> Fresh]

(***************************************************************************)
(* Steps of one elector.                                                   *)
(***************************************************************************)
Become(e, rec) == el' = [el EXCEPT ![e] = rec]

Goto(e, place) == Become(e, [el[e] EXCEPT !.at = place])

\* Sends a command of the lock manager.
Call(e, place) == Become(e, [el[e] EXCEPT !.at = place, !.clk = 0])

\* The elector forgets its token: should the key still hold it, nobody can
\* extend or delete it any more.
Forget(e) == lease' = IF lease.owner = e THEN [lease EXCEPT !.owner = Orphan]
                      ELSE lease

Start(e) == /\ el[e].at = "off"
            /\ Become(e, [Fresh EXCEPT !.at = "top"])
            /\ UNCHANGED lease

Campaign(e) == el[e].at = "top" /\ Call(e, "set") /\ UNCHANGED lease

\* Mutant: SET without NX.
SetWithoutNX(e) ==
    /\ el[e].at = "set"
    /\ lease' = [owner |-> e, left |-> TTL]
    /\ Goto(e, "won")

\* SET key token NX PX ttl.
SetRuns(e) ==
    /\ el[e].at = "set"
    /\ IF lease.owner = Nobody
       THEN lease' = [owner |-> e, left |-> TTL] /\ Goto(e, "won")
       ELSE UNCHANGED lease /\ Goto(e, "refused")

\* try_campaign dates the lease from the answer; on_promote starts.
Won(e) ==
    /\ el[e].at = "won"
    /\ Become(e, [el[e] EXCEPT !.at = "promote", !.handle = TRUE, !.age = 0])
    /\ UNCHANGED lease

\* Contention (LockNotAcquired), or a call without an answer (LockError).
NotGained(e) ==
    /\ el[e].at \in {"set", "won", "refused"}
    /\ Goto(e, "retry")
    /\ Forget(e)

Retry(e) == el[e].at = "retry" /\ Goto(e, "top") /\ UNCHANGED lease

DutyStarts(e) == el[e].at = "promote" /\ Goto(e, "lead") /\ UNCHANGED lease

\* The duty cannot start: resign, and on with the loop.
DutyFails(e) ==
    /\ el[e].at = "promote"
    /\ e \in Flaky
    /\ Become(e, [el[e] EXCEPT !.at = "release", !.clk = 0])
    /\ UNCHANGED lease

\* renew_if_due after the sleep.
RenewIfDue(e) ==
    /\ el[e].at = "lead"
    /\ el[e].age >= Renew
    /\ Call(e, "extend")
    /\ UNCHANGED lease

\* Mutant: the script compares the token but prolongs nothing.
ExtendWithoutExpiry(e) ==
    /\ el[e].at = "extend"
    /\ Goto(e, IF lease.owner = e THEN "extended" ELSE "lapsed")
    /\ UNCHANGED lease

ExtendRuns(e) ==
    /\ el[e].at = "extend"
    /\ IF lease.owner = e
       THEN lease' = [lease EXCEPT !.left = TTL] /\ Goto(e, "extended")
       ELSE UNCHANGED lease /\ Goto(e, "lapsed")

Renewed(e) ==
    /\ el[e].at = "extended"
    /\ Become(e, [el[e] EXCEPT !.at = "lead", !.age = 0])
    /\ UNCHANGED lease

\* Mutant: a renewal without an answer leaves the leader in place.
StepDownIfRefused(e) ==
    \/ /\ el[e].at \in {"extend", "extended"}
       /\ Goto(e, "lead")
       /\ UNCHANGED lease
    \/ /\ el[e].at = "lapsed"
       /\ Become(e, [el[e] EXCEPT !.at = "demote", !.handle = FALSE, !.age = 0])
       /\ UNCHANGED lease

\* _step_down: refused, or no answer.  on_demote runs.
StepDown(e) ==
    /\ el[e].at \in {"extend", "extended", "lapsed"}
    /\ Become(e, [el[e] EXCEPT !.at = "demote", !.handle = FALSE, !.age = 0])
    /\ Forget(e)

Demoted(e) == el[e].at = "demote" /\ Goto(e, "top") /\ UNCHANGED lease

\* should_stop, or the task is cancelled in a sleep.  Without a handle the
\* resign in the finally does nothing.
Stop(e) ==
    /\ el[e].at \in {"top", "retry", "lead"}
    /\ Become(e, IF el[e].handle
                 THEN [el[e] EXCEPT !.at = "release", !.clk = 0, !.leaving = TRUE]
                 ELSE Fresh)
    /\ UNCHANGED lease

\* The task is cancelled inside a call or a callback.  CancelledError is no LockError
\* and no Exception: only the finally sees it.  An elector without a handle is done
\* there, one with a handle resigns, again if a resignation was under way.
Cancelled(e) ==
    \/ /\ el[e].at \in {"set", "won", "refused", "demote"}
       /\ Become(e, Fresh)
       /\ Forget(e)
    \/ /\ el[e].at \in {"promote", "extend", "extended", "lapsed"}
       /\ Become(e, [el[e] EXCEPT !.at = "release", !.clk = 0, !.leaving = TRUE])
       /\ UNCHANGED lease
    \/ /\ el[e].at \in {"release", "released"} /\ ~el[e].leaving
       /\ Become(e, [el[e] EXCEPT !.clk = 0, !.leaving = TRUE])
       /\ UNCHANGED lease

ReleaseRuns(e) ==
    /\ el[e].at = "release"
    /\ Goto(e, "released")
    /\ lease' = IF lease.owner = e THEN Free ELSE lease

\* resign steps down whether or not the release was answered.
Resigned(e) ==
    /\ el[e].at \in {"release", "released"}
    /\ Become(e, IF el[e].leaving THEN Fresh
                 ELSE [el[e] EXCEPT !.at = "top", !.handle = FALSE, !.age = 0])
    /\ Forget(e)

\* A crash skips the finally.
Crash(e) == el[e].at # "off" /\ Become(e, Fresh) /\ Forget(e)

(***************************************************************************)
(* Time.  Redis deletes the key when its time to live is over.             *)
(***************************************************************************)
ClocksAdvance ==
    /\ \A e \in Electors : /\ el[e].at \in InCall => el[e].clk < Slow
                           /\ el[e].at \in {"promote", "lead"} => el[e].age < Busy
    /\ el' = [e \in Electors |->
                 [el[e] EXCEPT !.clk = IF el[e].at \in InCall THEN @ + 1 ELSE @,
                               !.age = IF el[e].handle /\ @ < Busy + 2 * Slow
                                       THEN @ + 1 ELSE @]]

\* Mutant: the key is set without PX.
TimePassesNoExpiry == ClocksAdvance /\ UNCHANGED lease

\* Mutant: a key whose time is over is still read as held.
TimePassesStaleKey ==
    /\ ClocksAdvance
    /\ lease' = IF lease.left > 0 THEN [lease EXCEPT !.left = @ - 1] ELSE lease

TimePasses ==
    /\ ClocksAdvance
    /\ lease' = IF lease.left > 1 THEN [lease EXCEPT !.left = @ - 1] ELSE Free

Works(e) == \/ Campaign(e) \/ SetRuns(e) \/ Won(e) \/ NotGained(e) \/ Retry(e)
            \/ DutyStarts(e) \/ DutyFails(e)
            \/ RenewIfDue(e) \/ ExtendRuns(e) \/ Renewed(e) \/ StepDown(e)
            \/ Demoted(e) \/ ReleaseRuns(e) \/ Resigned(e)

Next == \/ TimePasses
        \/ \E e \in Electors : Works(e) \/ Start(e) \/ Stop(e) \/ Cancelled(e) \/ Crash(e)

Spec == Init /\ [][Next]_vars

(***************************************************************************)
(* The clock runs, a process goes on, and a store that is asked again and  *)
(* again executes and answers in the end.                                  *)
(***************************************************************************)
FairSpec ==
    /\ Spec
    /\ WF_vars(TimePasses)
    /\ \A e \in Electors : /\ WF_vars(Works(e))
                           /\ SF_vars(SetRuns(e)) /\ SF_vars(Won(e))
                           /\ SF_vars(DutyStarts(e))

(***************************************************************************)
(* Properties.                                                             *)
(***************************************************************************)
\* An elector that takes itself for the leader and has not given the role back
\* (resign forgets the handle only when the release, executed or not, is over).
Leads(e) == el[e].handle /\ el[e].at # "released"

\* No two processes lead at once, whatever is lost, whoever dies: the "at most
\* one valid lease holder" of lease.py, extended to what the holders believe,
\* which takes TTL > Busy + 3 * Slow: a renewal cancelled at its end is followed by a
\* release, with the handle still set.
OneLeader == \A e, f \in Electors : Leads(e) /\ Leads(f) => e = f

\* The role has its leader as Ownership has it: nobody comes to lead while another
\* does, with its lease lost, its answers late or its resignation on the way.
Leaders == [role \in {"leader"} |-> {e \in Electors : Leads(e)}]

Owning == INSTANCE Ownership WITH
              Things <- {"leader"}, Owners <- Electors, owners <- Leaders

RoleIsOwned == Owning!Spec

\* Who leads has the lease, and has it for as long as it may go on believing:
\* left for TTL less the call that won it less what has passed since.
LeaseOutlastsBelief ==
    \A e \in Electors :
        /\ Leads(e) /\ el[e].at # "extended" =>
               lease.owner = e /\ lease.left + Slow + el[e].age >= TTL
        /\ el[e].at \in {"won", "extended"} =>
               lease.owner = e /\ lease.left + el[e].clk >= TTL
        /\ el[e].handle =>
               el[e].age <= Busy + (IF el[e].at \in InCall THEN el[e].clk ELSE 0)
                                 + (IF el[e].leaving THEN Slow ELSE 0)

\* A process left alone with the role, its rivals dead or stopped at any point
\* and their tokens still in Redis, leads again and again.
SurvivorLeads ==
    \A e \in Electors \ Flaky :
        <>[](el[e].at # "off" /\ \A f \in Electors \ {e} : el[f].at = "off")
            => []<>(Leads(e) /\ el[e].at = "lead")
=============================================================================
