----------------------------- MODULE JobRunner ------------------------------
(***************************************************************************)
(* One periodic job on every replica of the API, and the lock in Redis     *)
(* that should keep it to one of them at a time (jobs.Runner).             *)
(*                                                                         *)
(* Time is counted in ticks.  A run is cut off by its context after        *)
(* Timeout ticks; the key lives Margin ticks longer than that.  A replica  *)
(* whose clock the machine has stopped (a pause of the VM, a statement     *)
(* Postgres does not give up) goes on past its timeout: it is "stalled".   *)
(***************************************************************************)
EXTENDS Naturals, FiniteSets

CONSTANTS
    Replicas,
    Timeout,         \* Job.Timeout
    Margin,          \* the 30 seconds that acquire adds to it
    MaxBatches,      \* maxBatches
    MayFail,         \* whether statements fail of themselves
    None

VARIABLES
    job,             \* what the goroutine of the job does
    cancelled,       \* replicas whose runner context is done
    age,             \* ticks since the run began, up to Timeout
    batches,         \* the batches it has done
    holds,           \* runs that have a token
    key,             \* jobs:lock:<name>: the owner and its remaining ticks
    orphan,          \* nobody will release the key: its owner died, ...
    stalled

runnerVars == <<job, cancelled, age, batches, holds, key, orphan, stalled>>

Ttl == Timeout + Margin
Working == {r \in Replicas : job[r] \in {"between", "batch"}}

Keys == [owner : Replicas, left : 1..Ttl]

ASSUME RunnerAssumption ==
    /\ None \notin Replicas \cup Keys
    /\ Timeout \in Nat \ {0} /\ Margin \in Nat \ {0} /\ MaxBatches \in Nat \ {0}
    /\ MayFail \in BOOLEAN

RunnerInit ==
    /\ job = [r \in Replicas |-> "waiting"]
    /\ cancelled = {}
    /\ age = [r \in Replicas |-> 0]
    /\ batches = [r \in Replicas |-> 0]
    /\ holds = {} /\ stalled = {}
    /\ key = None /\ orphan = FALSE

(* runCtx is done: the runner was stopped or the timeout has passed.       *)
Done(r) == r \in cancelled \/ (age[r] = Timeout /\ r \notin stalled)

Goto(r, step) == job' = [job EXCEPT ![r] = step]

BeginRun(r) ==
    /\ Goto(r, "between")
    /\ UNCHANGED <<cancelled, age, batches, stalled>>

(* The run returns and the deferred release is next.                       *)
EndRun(r) ==
    /\ Goto(r, "release")
    /\ stalled' = stalled \ {r}
    /\ age' = [age EXCEPT ![r] = 0]
    /\ UNCHANGED <<cancelled, holds, key, orphan>>

-----------------------------------------------------------------------------
(* acquire: SETNX sets the key.  A key that is there sends the loop back   *)
(* to its timer.                                                           *)
Acquire(r) ==
    /\ job[r] = "waiting" /\ r \notin cancelled
    /\ key = None
    /\ key' = [owner |-> r, left |-> Ttl]
    /\ orphan' = FALSE
    /\ holds' = holds \cup {r}
    /\ BeginRun(r)

(* There is no Redis, or SETNX fails, as it does with a context that is    *)
(* done, and may have set the key all the same: the job runs without a     *)
(* token.  select may prefer the timer to ctx.Done.                        *)
RunAnyway(r) ==
    /\ job[r] = "waiting"
    /\ \/ UNCHANGED <<key, orphan>>
       \/ key = None /\ key' = [owner |-> r, left |-> Ttl] /\ orphan' = TRUE
    /\ UNCHANGED holds
    /\ BeginRun(r)

StopLoop(r) ==
    /\ job[r] = "waiting" /\ r \in cancelled
    /\ Goto(r, "stopped")
    /\ UNCHANGED <<cancelled, age, batches, holds, key, orphan, stalled>>

(* batched: between two batches the context and the limit are looked at.   *)
NextBatch(r) ==
    /\ job[r] = "between"
    /\ ~Done(r) /\ batches[r] < MaxBatches
    /\ Goto(r, "batch")
    /\ UNCHANGED <<cancelled, age, batches, holds, key, orphan, stalled>>

NoMoreBatches(r) ==
    /\ job[r] = "between"
    /\ Done(r) \/ batches[r] = MaxBatches
    /\ EndRun(r)
    /\ UNCHANGED batches

(* The batch commits; one that is not full is the last.                    *)
FinishBatch(r) ==
    /\ job[r] = "batch"
    /\ batches' = [batches EXCEPT ![r] = @ + 1]
    /\ \/ Goto(r, "between") /\ UNCHANGED <<cancelled, age, holds, key, orphan, stalled>>
       \/ EndRun(r)

(* The statement fails, of itself or because its context is done.          *)
FailBatch(r) ==
    /\ job[r] = "batch"
    /\ MayFail \/ Done(r)
    /\ EndRun(r)
    /\ UNCHANGED batches

EndRelease(r) ==
    /\ Goto(r, "waiting")
    /\ holds' = holds \ {r}
    /\ batches' = [batches EXCEPT ![r] = 0]
    /\ UNCHANGED <<cancelled, age, stalled>>

(* Mutant: DEL, whoever the key belongs to.                                *)
ReleaseAnyKey(r) ==
    /\ job[r] = "release"
    /\ IF r \in holds THEN key' = None /\ orphan' = FALSE ELSE UNCHANGED <<key, orphan>>
    /\ EndRelease(r)

(* Mutant: the release uses the context of the runner.                     *)
ReleaseWithParent(r) ==
    /\ job[r] = "release"
    /\ IF r \in holds \ cancelled /\ key # None /\ key.owner = r
       THEN key' = None /\ orphan' = FALSE
       ELSE UNCHANGED <<key, orphan>>
    /\ EndRelease(r)

Owns(r) == r \in holds /\ key # None /\ key.owner = r /\ ~orphan

(* release: the script deletes the key if it holds the token of this run;  *)
(* the call may fail.                                                      *)
Release(r) ==
    /\ job[r] = "release"
    /\ \/ Owns(r) /\ key' = None /\ UNCHANGED orphan
       \/ Owns(r) /\ orphan' = TRUE /\ UNCHANGED key
       \/ ~Owns(r) /\ UNCHANGED <<key, orphan>>
    /\ EndRelease(r)

-----------------------------------------------------------------------------
(* A run that is at its timeout and not stalled ends before time goes on.  *)
Tick ==
    /\ \A r \in Working : age[r] < Timeout \/ r \in stalled
    /\ key # None \/ Working # {}
    /\ age' = [r \in Replicas |->
                  IF r \in Working /\ age[r] < Timeout THEN age[r] + 1 ELSE age[r]]
    /\ \/ /\ key # None /\ key.left > 1
          /\ key' = [key EXCEPT !.left = @ - 1] /\ UNCHANGED orphan
       \/ /\ key # None /\ key.left = 1
          /\ key' = None /\ orphan' = FALSE
       \/ key = None /\ UNCHANGED <<key, orphan>>
    /\ UNCHANGED <<job, cancelled, batches, holds, stalled>>

Stall(r) ==
    /\ r \in Working \ stalled
    /\ age[r] = Timeout
    /\ stalled' = stalled \cup {r}
    /\ UNCHANGED <<job, cancelled, age, batches, holds, key, orphan>>

(* A process begins, after a shutdown or a crash.                          *)
Reboot(r) ==
    /\ Goto(r, "waiting")
    /\ cancelled' = cancelled \ {r}
    /\ age' = [age EXCEPT ![r] = 0]
    /\ batches' = [batches EXCEPT ![r] = 0]
    /\ holds' = holds \ {r}
    /\ stalled' = stalled \ {r}
    /\ orphan' = (orphan \/ Owns(r))
    /\ UNCHANGED key

(* The context of the runner is done.                                      *)
Cancel(r) ==
    /\ cancelled' = cancelled \cup {r}
    /\ UNCHANGED <<job, age, batches, holds, key, orphan, stalled>>

RunStep(r) ==
    \/ NextBatch(r) \/ NoMoreBatches(r) \/ FinishBatch(r) \/ FailBatch(r)
    \/ Release(r) \/ StopLoop(r)

JobStep(r) == RunStep(r) \/ Acquire(r) \/ RunAnyway(r) \/ Stall(r)

-----------------------------------------------------------------------------
(* Types; only a run has a token, and only a run can be stalled.           *)
RunnerTypeOK ==
    /\ job \in [Replicas -> {"waiting", "between", "batch", "release", "stopped"}]
    /\ cancelled \subseteq Replicas
    /\ age \in [Replicas -> 0..Timeout]
    /\ batches \in [Replicas -> 0..MaxBatches]
    /\ holds \subseteq {r \in Replicas : job[r] \in {"between", "batch", "release"}}
    /\ key \in Keys \cup {None}
    /\ orphan \in BOOLEAN /\ (key = None => ~orphan)
    /\ stalled \subseteq Working

(* Two runs that both took the lock overlap only when one of them has      *)
(* stalled past its timeout (runner.go:140-152), not because a slow run    *)
(* has released the lock of the next one (runner.go:37-42).                *)
OneRunAtATime ==
    \A r, s \in (Working \cap holds) \ stalled : r = s

(* Redis holds no key of a run that has ended, unless the call that        *)
(* releases it failed, its process died or the answer of SETNX was lost: a *)
(* shutdown leaves none behind to delay the next instance                  *)
(* (runner.go:173-176).                                                    *)
LockHasRun == key # None /\ ~orphan => Owns(key.owner)

(* "A job that has been running for a while stops at a batch boundary ..., *)
(* rather than being killed mid-statement" (cleanup.go:200-202): the batch *)
(* that a shutdown finds under way is done before its run ends.            *)
BatchesFinish ==
    [][\A r \in cancelled :
          job[r] = "batch" /\ age[r] < Timeout /\ job'[r] = "release" =>
             batches'[r] = batches[r] + 1]_runnerVars

-----------------------------------------------------------------------------
(* The lock.  Its key and the run that set it age together, and a run that *)
(* is not stalled ends before time passes its timeout: the margin is what  *)
(* is left of the key when the run is cut off (runner.go:140-152).         *)
HoldsKey(r) == key # None /\ key.owner = r /\ key.left = Ttl - age[r]

RunnerInv ==
    /\ RunnerTypeOK
    /\ LockHasRun
    /\ \A r \in Replicas :
          /\ r \notin Working => age[r] = 0
          /\ job[r] = "batch" => batches[r] < MaxBatches
    /\ \A r \in (Working \cap holds) \ stalled : HoldsKey(r)
=============================================================================
