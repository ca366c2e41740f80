----------------------------- MODULE RuntimeProofs --------------------------
(***************************************************************************)
(* Theorems about the periodic jobs and the life of the API processes, for *)
(* any number of replicas, any timeout and margin, and any queue.          *)
(***************************************************************************)
EXTENDS Runtime, TLAPS

-----------------------------------------------------------------------------
LEMMA TtlFacts ==
    /\ Timeout \in Nat \ {0} /\ MaxBatches \in Nat \ {0}
    /\ Ttl \in Nat /\ Timeout < Ttl /\ Ttl \in 1..Ttl
BY RunnerAssumption DEF Ttl

LEMMA RunnerStarts == RunnerInit => RunnerInv
<1> SUFFICES ASSUME RunnerInit PROVE RunnerInv
    OBVIOUS
<1>1. Working = {}
    BY DEF RunnerInit, Working
<1>2. RunnerTypeOK
    <2>1. age \in [Replicas -> 0..Timeout] /\ batches \in [Replicas -> 0..MaxBatches]
        BY TtlFacts DEF RunnerInit
    <2>2. holds = {} /\ stalled = {} /\ cancelled = {} /\ key = None /\ orphan = FALSE
        BY DEF RunnerInit
    <2> QED BY <1>1, <2>1, <2>2 DEF RunnerInit, RunnerTypeOK
<1> QED BY <1>1, <1>2 DEF RunnerInit, RunnerInv, LockHasRun

(* The other replicas' runs are as they were.                              *)
OthersRun(r) ==
    \A q \in Replicas \ {r} :
        /\ job'[q] = job[q] /\ age'[q] = age[q] /\ batches'[q] = batches[q]
        /\ q \in holds' <=> q \in holds
        /\ q \in stalled' <=> q \in stalled

(* A step of one run keeps the invariant if it leaves the key to the runs  *)
(* of others.                                                              *)
LEMMA OneRunMoves ==
    ASSUME RunnerInv, NEW r \in Replicas, OthersRun(r), RunnerTypeOK', LockHasRun',
           r \notin Working' => age'[r] = 0,
           job'[r] = "batch" => batches'[r] < MaxBatches,
           r \in (Working' \cap holds') \ stalled' => HoldsKey(r)',
           key' = key \/ key = None \/ key.owner = r
    PROVE  RunnerInv'
<1>1. ASSUME NEW q \in Replicas \ {r}
      PROVE  /\ q \in Working' <=> q \in Working
             /\ age'[q] = age[q]
             /\ HoldsKey(q) => HoldsKey(q)'
    BY DEF OthersRun, Working, HoldsKey, Ttl
<1>2. \A q \in Replicas : /\ q \notin Working' => age'[q] = 0
                          /\ job'[q] = "batch" => batches'[q] < MaxBatches
    BY <1>1 DEF RunnerInv, OthersRun
<1>3. \A q \in (Working' \cap holds') \ stalled' : HoldsKey(q)'
    <2> SUFFICES ASSUME NEW q \in (Working' \cap holds') \ stalled' PROVE HoldsKey(q)'
        OBVIOUS
    <2>1. q \in Replicas
        BY DEF Working
    <2>2. CASE q = r
        BY <2>2
    <2>3. CASE q # r
        BY <1>1, <2>1, <2>3 DEF RunnerInv, OthersRun
    <2> QED BY <2>2, <2>3
<1> QED BY <1>2, <1>3 DEF RunnerInv

LEMMA AcquireStep ==
    ASSUME RunnerInv, NEW r \in Replicas, Acquire(r)
    PROVE  RunnerInv'
<1>1. /\ job[r] = "waiting" /\ job' = [job EXCEPT ![r] = "between"]
      /\ key = None /\ key' = [owner |-> r, left |-> Ttl] /\ orphan' = FALSE
      /\ holds' = holds \cup {r}
      /\ UNCHANGED <<cancelled, age, batches, stalled>>
    BY DEF Acquire, BeginRun, Goto
<1>2. RunnerTypeOK /\ age[r] = 0
    BY <1>1 DEF RunnerInv, RunnerTypeOK, Working
<1>3. OthersRun(r) /\ job'[r] = "between"
    BY <1>1, <1>2 DEF RunnerTypeOK, OthersRun
<1>4. Working' = Working \cup {r} /\ r \notin Working
    BY <1>1, <1>2 DEF RunnerTypeOK, Working
<1>5. RunnerTypeOK'
    <2>1. key' \in Keys
        BY <1>1, TtlFacts DEF Keys
    <2> QED BY <1>1, <1>2, <1>3, <1>4, <2>1 DEF RunnerTypeOK
<1>6. key' # None
    BY <1>1, TtlFacts, RunnerAssumption DEF Keys
<1>7. HoldsKey(r)' /\ LockHasRun'
    BY <1>1, <1>2, <1>6, TtlFacts DEF LockHasRun, Owns, HoldsKey, Ttl
<1> QED BY <1>1, <1>2, <1>3, <1>4, <1>5, <1>7, OneRunMoves

LEMMA RunAnywayStep ==
    ASSUME RunnerInv, NEW r \in Replicas, RunAnyway(r)
    PROVE  RunnerInv'
<1>1. /\ job[r] = "waiting" /\ job' = [job EXCEPT ![r] = "between"]
      /\ \/ UNCHANGED <<key, orphan>>
         \/ key = None /\ key' = [owner |-> r, left |-> Ttl] /\ orphan' = TRUE
      /\ UNCHANGED <<cancelled, age, batches, holds, stalled>>
    BY DEF RunAnyway, BeginRun, Goto
<1>2. RunnerTypeOK /\ r \notin holds
    BY <1>1 DEF RunnerInv, RunnerTypeOK
<1>3. OthersRun(r) /\ job'[r] = "between"
    BY <1>1, <1>2 DEF RunnerTypeOK, OthersRun
<1>4. Working' = Working \cup {r}
    BY <1>1, <1>2 DEF RunnerTypeOK, Working
<1>5. RunnerTypeOK'
    <2>1. \/ UNCHANGED <<key, orphan>>
          \/ key' \in Keys /\ key' # None /\ orphan' = TRUE
        BY <1>1, TtlFacts, RunnerAssumption DEF Keys
    <2>2. key' \in Keys \cup {None} /\ orphan' \in BOOLEAN /\ (key' = None => ~orphan')
        <3>1. CASE UNCHANGED <<key, orphan>>
            BY <1>2, <3>1 DEF RunnerTypeOK
        <3>2. CASE key' \in Keys /\ key' # None /\ orphan' = TRUE
            BY <3>2
        <3> QED BY <2>1, <3>1, <3>2
    <2> QED BY <1>1, <1>2, <1>3, <1>4, <2>2 DEF RunnerTypeOK
<1>6. LockHasRun'
    BY <1>1 DEF RunnerInv, LockHasRun, Owns
<1> QED BY <1>1, <1>2, <1>3, <1>4, <1>5, <1>6, OneRunMoves

LEMMA BatchStep ==
    ASSUME RunnerInv, NEW r \in Replicas,
           NextBatch(r) \/ NoMoreBatches(r) \/ FinishBatch(r) \/ FailBatch(r)
    PROVE  RunnerInv'
<1>1. /\ r \in Working /\ UNCHANGED <<cancelled, holds, key, orphan>>
      /\ \/ /\ job' = [job EXCEPT ![r] = "batch"] /\ batches[r] < MaxBatches
            /\ UNCHANGED <<age, batches, stalled>>
         \/ /\ job' = [job EXCEPT ![r] = "between"]
            /\ UNCHANGED <<age, stalled>>
         \/ /\ job' = [job EXCEPT ![r] = "release"]
            /\ age' = [age EXCEPT ![r] = 0] /\ stalled' = stalled \ {r}
    BY DEF NextBatch, NoMoreBatches, FinishBatch, FailBatch, EndRun, Goto, Working
<1>2. RunnerTypeOK /\ Working \subseteq Replicas
    BY DEF RunnerInv, Working
<1>3. /\ batches' \in [Replicas -> 0..MaxBatches]
      /\ \A q \in Replicas \ {r} : batches'[q] = batches[q]
    <2>1. CASE FinishBatch(r)
        <3>1. batches[r] < MaxBatches /\ batches' = [batches EXCEPT ![r] = @ + 1]
            BY <2>1 DEF FinishBatch, RunnerInv
        <3> QED BY <1>2, <3>1, TtlFacts DEF RunnerTypeOK
    <2>2. CASE UNCHANGED batches
        BY <1>2, <2>2 DEF RunnerTypeOK
    <2> QED BY <2>1, <2>2 DEF NextBatch, NoMoreBatches, FailBatch
<1>4. OthersRun(r)
    BY <1>1, <1>2, <1>3 DEF RunnerTypeOK, OthersRun
<1>5. CASE job' \in {[job EXCEPT ![r] = "batch"], [job EXCEPT ![r] = "between"]}
    <2>1. /\ job' \in [Replicas -> {"waiting", "between", "batch", "release", "stopped"}]
          /\ job'[r] \in {"batch", "between"} /\ Working' = Working
        BY <1>1, <1>2, <1>5 DEF RunnerTypeOK, Working
    <2>2. UNCHANGED <<age, stalled>> /\ (job'[r] = "batch" => batches'[r] < MaxBatches)
        BY <1>1, <1>2, <1>5, <2>1 DEF RunnerTypeOK
    <2>3. RunnerTypeOK'
        BY <1>1, <1>2, <1>3, <1>4, <2>1, <2>2 DEF RunnerTypeOK, OthersRun
    <2>4. LockHasRun' /\ (HoldsKey(r) => HoldsKey(r)')
        BY <1>1, <2>2 DEF RunnerInv, LockHasRun, Owns, HoldsKey
    <2> QED BY <1>1, <1>4, <2>1, <2>2, <2>3, <2>4, OneRunMoves DEF RunnerInv
<1>6. CASE /\ job' = [job EXCEPT ![r] = "release"]
           /\ age' = [age EXCEPT ![r] = 0] /\ stalled' = stalled \ {r}
    <2>1. /\ job' \in [Replicas -> {"waiting", "between", "batch", "release", "stopped"}]
          /\ job'[r] = "release" /\ Working' = Working \ {r}
          /\ age' \in [Replicas -> 0..Timeout] /\ age'[r] = 0
        BY <1>2, <1>6, TtlFacts DEF RunnerTypeOK, Working
    <2>2. RunnerTypeOK'
        BY <1>1, <1>2, <1>3, <1>4, <1>6, <2>1 DEF RunnerTypeOK, OthersRun
    <2>3. LockHasRun'
        BY <1>1 DEF RunnerInv, LockHasRun, Owns
    <2> QED BY <1>1, <1>4, <2>1, <2>2, <2>3, OneRunMoves
<1> QED BY <1>1, <1>5, <1>6

LEMMA ReleaseStep ==
    ASSUME RunnerInv, NEW r \in Replicas, Release(r)
    PROVE  RunnerInv'
<1>1. /\ job[r] = "release" /\ job' = [job EXCEPT ![r] = "waiting"]
      /\ \/ Owns(r) /\ key' = None /\ UNCHANGED orphan
         \/ Owns(r) /\ orphan' = TRUE /\ UNCHANGED key
         \/ ~Owns(r) /\ UNCHANGED <<key, orphan>>
      /\ holds' = holds \ {r} /\ batches' = [batches EXCEPT ![r] = 0]
      /\ UNCHANGED <<cancelled, age, stalled>>
    BY DEF Release, EndRelease, Goto
<1>2. RunnerTypeOK /\ r \notin Working /\ age[r] = 0
    BY <1>1 DEF RunnerInv, Working
<1>3. OthersRun(r) /\ job'[r] = "waiting" /\ Working' = Working
    BY <1>1, <1>2 DEF RunnerTypeOK, OthersRun, Working
<1>4. RunnerTypeOK'
    <2>1. key' \in Keys \cup {None} /\ orphan' \in BOOLEAN /\ (key' = None => ~orphan')
        <3>1. CASE Owns(r) /\ key' = None /\ UNCHANGED orphan
            BY <1>2, <3>1 DEF RunnerTypeOK, Owns
        <3>2. CASE Owns(r) /\ orphan' = TRUE /\ UNCHANGED key
            BY <1>2, <3>2 DEF RunnerTypeOK, Owns
        <3>3. CASE UNCHANGED <<key, orphan>>
            BY <1>2, <3>3 DEF RunnerTypeOK
        <3> QED BY <1>1, <3>1, <3>2, <3>3
    <2>2. batches' \in [Replicas -> 0..MaxBatches]
        BY <1>1, <1>2, TtlFacts DEF RunnerTypeOK
    <2> QED BY <1>1, <1>2, <1>3, <2>1, <2>2 DEF RunnerTypeOK
<1>5. LockHasRun' /\ (key' = key \/ key.owner = r)
    BY <1>1 DEF RunnerInv, LockHasRun, Owns
<1> QED BY <1>1, <1>2, <1>3, <1>4, <1>5, OneRunMoves

LEMMA StopStep ==
    ASSUME RunnerInv, NEW r \in Replicas, StopLoop(r) \/ Stall(r) \/ Cancel(r)
    PROVE  RunnerInv'
<1>1. /\ UNCHANGED <<age, batches, holds, key, orphan>>
      /\ \/ /\ job[r] = "waiting" /\ job' = [job EXCEPT ![r] = "stopped"]
            /\ UNCHANGED <<cancelled, stalled>>
         \/ /\ r \in Working /\ stalled' = stalled \cup {r} /\ UNCHANGED <<job, cancelled>>
         \/ cancelled' = cancelled \cup {r} /\ UNCHANGED <<job, stalled>>
    BY DEF StopLoop, Stall, Cancel, Goto
<1>2. RunnerTypeOK
    BY DEF RunnerInv
<1>3. OthersRun(r) /\ Working' = Working
    BY <1>1, <1>2 DEF RunnerTypeOK, OthersRun, Working
<1>4. RunnerTypeOK'
    BY <1>1, <1>2, <1>3 DEF RunnerTypeOK
<1>5. LockHasRun' /\ (HoldsKey(r) => HoldsKey(r)')
    BY <1>1 DEF RunnerInv, LockHasRun, Owns, HoldsKey
<1>6. job'[r] = "batch" => job[r] = "batch"
    BY <1>1, <1>2 DEF RunnerTypeOK
<1> QED BY <1>1, <1>3, <1>4, <1>5, <1>6, OneRunMoves DEF RunnerInv

LEMMA RebootStep ==
    ASSUME RunnerInv, NEW r \in Replicas, Reboot(r)
    PROVE  RunnerInv'
<1>1. /\ job' = [job EXCEPT ![r] = "waiting"] /\ cancelled' = cancelled \ {r}
      /\ age' = [age EXCEPT ![r] = 0] /\ batches' = [batches EXCEPT ![r] = 0]
      /\ holds' = holds \ {r} /\ stalled' = stalled \ {r}
      /\ orphan' = (orphan \/ Owns(r)) /\ UNCHANGED key
    BY DEF Reboot, Goto
<1>2. RunnerTypeOK
    BY DEF RunnerInv
<1>3. /\ OthersRun(r) /\ job'[r] = "waiting" /\ Working' = Working \ {r}
      /\ age'[r] = 0 /\ age' \in [Replicas -> 0..Timeout]
      /\ batches' \in [Replicas -> 0..MaxBatches]
    BY <1>1, <1>2, TtlFacts DEF RunnerTypeOK, OthersRun, Working
<1>4. orphan' \in BOOLEAN /\ (key' = None => ~orphan')
    BY <1>1, <1>2 DEF RunnerTypeOK, Owns
<1>5. RunnerTypeOK'
    BY <1>1, <1>2, <1>3, <1>4 DEF RunnerTypeOK
<1>6. LockHasRun'
    BY <1>1 DEF RunnerInv, LockHasRun, Owns
<1> QED BY <1>1, <1>3, <1>5, <1>6, OneRunMoves

(* Time passes for the key and for every run alike.                        *)
LEMMA TickStep ==
    ASSUME RunnerInv, Tick
    PROVE  RunnerInv'
<1>1. /\ \A r \in Working : age[r] < Timeout \/ r \in stalled
      /\ age' = [r \in Replicas |->
                    IF r \in Working /\ age[r] < Timeout THEN age[r] + 1 ELSE age[r]]
      /\ UNCHANGED <<job, cancelled, batches, holds, stalled>>
    BY DEF Tick
<1>2. RunnerTypeOK /\ Working' = Working /\ Working \subseteq Replicas
    BY <1>1 DEF RunnerInv, Working
<1>3. age' \in [Replicas -> 0..Timeout]
    BY <1>1, <1>2, TtlFacts DEF RunnerTypeOK
<1>4. /\ key' \in Keys \cup {None} /\ orphan' \in BOOLEAN /\ (key' = None => ~orphan')
      /\ key # None /\ key.left > 1 =>
            /\ key' # None /\ key'.owner = key.owner /\ key'.left = key.left - 1
            /\ orphan' = orphan
    <2>1. key # None => key \in Keys /\ key.left \in 1..Ttl /\ key.owner \in Replicas
        BY <1>2 DEF RunnerTypeOK, Keys
    <2>2. CASE /\ key # None /\ key.left > 1
               /\ key' = [key EXCEPT !.left = @ - 1] /\ UNCHANGED orphan
        <3>1. key'.owner = key.owner /\ key'.left = key.left - 1
            BY <2>1, <2>2 DEF Keys
        <3>2. key' \in Keys
            BY <2>1, <2>2, TtlFacts DEF Keys
        <3> QED BY <1>2, <2>2, <3>1, <3>2, RunnerAssumption DEF RunnerTypeOK
    <2>3. CASE key # None /\ key.left = 1 /\ key' = None /\ orphan' = FALSE
        <3>1. ~(key.left > 1)
            BY <2>3
        <3> QED BY <2>3, <3>1
    <2>4. CASE key = None /\ UNCHANGED <<key, orphan>>
        BY <1>2, <2>4 DEF RunnerTypeOK
    <2> QED BY <2>2, <2>3, <2>4 DEF Tick
<1>5. RunnerTypeOK'
    BY <1>1, <1>2, <1>3, <1>4 DEF RunnerTypeOK
<1>6. LockHasRun'
    <2>1. CASE key # None /\ key.left > 1
        BY <1>1, <1>4, <2>1 DEF RunnerInv, LockHasRun, Owns
    <2>2. CASE ~(key # None /\ key.left > 1)
        BY <2>2 DEF Tick, LockHasRun
    <2> QED BY <2>1, <2>2
<1>7. ASSUME NEW r \in (Working \cap holds) \ stalled PROVE HoldsKey(r)'
    <2>1. /\ HoldsKey(r) /\ age[r] < Timeout /\ age[r] \in 0..Timeout
          /\ age'[r] = age[r] + 1
        BY <1>1, <1>2 DEF RunnerInv, RunnerTypeOK
    <2>2. key.left > 1
        BY <2>1, RunnerAssumption DEF HoldsKey, Ttl
    <2> QED BY <1>4, <2>1, <2>2, TtlFacts DEF HoldsKey, Ttl
<1>8. \A r \in Replicas \ Working : age'[r] = 0
    BY <1>1, <1>2 DEF RunnerInv
<1> QED BY <1>1, <1>2, <1>5, <1>6, <1>7, <1>8 DEF RunnerInv

LEMMA RunnerStep ==
    ASSUME RunnerInv, NEW r \in Replicas, JobStep(r) \/ Reboot(r) \/ Cancel(r)
    PROVE  RunnerInv'
BY AcquireStep, RunAnywayStep, BatchStep, ReleaseStep, StopStep, RebootStep
   DEF JobStep, RunStep

-----------------------------------------------------------------------------
(* The processes.                                                          *)

LEMMA RuntimeStarts == RuntimeInit => RuntimeInv
<1> SUFFICES ASSUME RuntimeInit PROVE RuntimeInv
    OBVIOUS
<1>1. RunnerInv
    BY RunnerStarts DEF RuntimeInit
<1>2. RuntimeTypeOK
    BY <1>1, RuntimeAssumption DEF RuntimeInit, RuntimeTypeOK, RunnerInv
<1>3. \A r \in Replicas : ReplicaInv(r)
    BY DEF RuntimeInit, ReplicaInv
<1> QED BY <1>1, <1>2, <1>3 DEF RuntimeInit, RuntimeInv

LEMMA RunnerRests ==
    ASSUME RunnerInv, UNCHANGED runnerVars
    PROVE  RunnerInv'
BY DEF RunnerInv, RunnerTypeOK, LockHasRun, Owns, HoldsKey, Working, runnerVars

(* The variables of the other replicas' processes are as they were.        *)
OthersServe(r) ==
    /\ \A q \in Replicas \ {r} :
          /\ phase'[q] = phase[q] /\ requests'[q] = requests[q] /\ job'[q] = job[q]
          /\ queue'[q] = queue[q] /\ writing'[q] = writing[q]
    /\ \A q \in Replicas \ {r} :
          /\ q \in drainCut' <=> q \in drainCut
          /\ q \in flushCut' <=> q \in flushCut

LEMMA OneReplicaMoves ==
    ASSUME RuntimeInv, NEW r \in Replicas, OthersServe(r),
           RunnerInv', RuntimeTypeOK', ReplicaInv(r)', panicked' \subseteq drainCut'
    PROVE  RuntimeInv'
<1>1. ASSUME NEW q \in Replicas PROVE ReplicaInv(q)'
    <2>1. CASE q = r
        BY <2>1
    <2>2. CASE q # r
        BY <2>2 DEF RuntimeInv, OthersServe, ReplicaInv
    <2> QED BY <2>1, <2>2
<1> QED BY <1>1 DEF RuntimeInv

(* No step of the job leads out of a loop that has stopped.                *)
LEMMA StoppedStays ==
    ASSUME RuntimeInv, NEW r \in Replicas, JobStep(r) \/ Tick \/ Cancel(r)
    PROVE  \A q \in Replicas : job[q] = "stopped" => job'[q] = "stopped"
BY DEF RuntimeInv, RuntimeTypeOK, RunnerTypeOK, JobStep, RunStep, Acquire, RunAnyway, BeginRun,
       NextBatch, NoMoreBatches, FinishBatch, FailBatch, EndRun, Release, EndRelease,
       StopLoop, Stall, Tick, Cancel, Goto, Working

LEMMA JobRuntimeStep ==
    ASSUME RuntimeInv, UNCHANGED processVars,
           (\E r \in Replicas : JobStep(r)) \/ Tick
    PROVE  RuntimeInv'
<1>1. RunnerInv'
    BY RunnerStep, TickStep DEF RuntimeInv
<1>2. \A q \in Replicas : job[q] = "stopped" => job'[q] = "stopped"
    <2>1. CASE \E r \in Replicas : JobStep(r)
        BY <2>1, StoppedStays
    <2>2. CASE Tick
        BY <2>2 DEF Tick
    <2> QED BY <2>1, <2>2
<1>3. RuntimeTypeOK'
    BY <1>1 DEF RuntimeInv, RuntimeTypeOK, RunnerInv, processVars
<1> QED BY <1>1, <1>2, <1>3 DEF RuntimeInv, ReplicaInv, processVars

LEMMA RequestStep ==
    ASSUME RuntimeInv, NEW r \in Replicas, Arrive(r) \/ AnswerNotFound(r) \/ Record(r)
    PROVE  RuntimeInv'
<1>1. UNCHANGED <<runnerVars, phase, open, writing, drainCut, flushCut>>
    BY DEF Arrive, AnswerNotFound, Record, EndRequest
<1>2. RunnerInv' /\ RuntimeTypeOK /\ ReplicaInv(r)
    BY <1>1, RunnerRests DEF RuntimeInv
<1>3. /\ requests' \in [Replicas -> 0..MaxRequests]
      /\ \A q \in Replicas \ {r} : requests'[q] = requests[q]
      /\ \/ requests'[r] = requests[r] + 1 /\ r \in Serving /\ phase[r] = "serving"
            /\ UNCHANGED <<queue, panicked>>
         \/ requests[r] > 0 /\ requests'[r] = requests[r] - 1
    BY <1>2, RuntimeAssumption DEF RuntimeTypeOK, Arrive, AnswerNotFound, Record, EndRequest
<1>4. /\ queue' \in [Replicas -> 0..QueueSize]
      /\ \A q \in Replicas \ {r} : queue'[q] = queue[q]
      /\ r \notin open => queue'[r] = queue[r]
      /\ \/ panicked' = panicked
         \/ panicked' = panicked \cup {r} /\ r \notin open /\ requests[r] > 0
    BY <1>2, RuntimeAssumption DEF RuntimeTypeOK, Arrive, AnswerNotFound, Record, EndRequest
<1>5. RuntimeTypeOK' /\ panicked' \subseteq drainCut'
    <2>1. panicked' \subseteq Serving \ open /\ panicked' \subseteq drainCut
        BY <1>2, <1>4 DEF RuntimeInv, RuntimeTypeOK, ReplicaInv
    <2> QED BY <1>1, <1>2, <1>3, <1>4, <2>1 DEF RuntimeTypeOK, RunnerInv
<1>6. OthersServe(r)
    BY <1>1, <1>3, <1>4 DEF OthersServe, runnerVars
<1>7. phase[r] = "closed" => r \notin open
    BY <1>2 DEF RuntimeTypeOK
<1>8. ReplicaInv(r)'
    BY <1>1, <1>2, <1>3, <1>4, <1>7 DEF ReplicaInv, RuntimeTypeOK, runnerVars
<1> QED BY <1>2, <1>5, <1>6, <1>8, OneReplicaMoves

LEMMA WriterStep ==
    ASSUME RuntimeInv, NEW r \in Replicas, TakeEvent(r) \/ UpsertVisitor(r) \/ InsertEvent(r)
    PROVE  RuntimeInv'
<1>1. UNCHANGED <<runnerVars, phase, requests, open, panicked, drainCut, flushCut>>
    BY DEF TakeEvent, UpsertVisitor, InsertEvent, WorkerStep
<1>2. RunnerInv' /\ RuntimeTypeOK /\ ReplicaInv(r)
    BY <1>1, RunnerRests DEF RuntimeInv
<1>3. /\ queue' \in [Replicas -> 0..QueueSize]
      /\ writing' \in [Replicas -> {"nothing", "visitor", "event"}]
      /\ \A q \in Replicas \ {r} : queue'[q] = queue[q] /\ writing'[q] = writing[q]
      /\ queue[r] > 0 \/ writing[r] # "nothing"
    BY <1>2, RuntimeAssumption
       DEF RuntimeTypeOK, TakeEvent, UpsertVisitor, InsertEvent, WorkerStep
<1>4. RuntimeTypeOK'
    BY <1>1, <1>2, <1>3 DEF RuntimeTypeOK, RunnerInv
<1>5. OthersServe(r) /\ panicked' \subseteq drainCut'
    BY <1>1, <1>3 DEF OthersServe, runnerVars, RuntimeInv
<1>6. phase[r] # "closed" \/ r \in flushCut
    BY <1>2, <1>3 DEF ReplicaInv, RuntimeTypeOK
<1>7. ReplicaInv(r)'
    BY <1>1, <1>2, <1>6 DEF ReplicaInv, runnerVars
<1> QED BY <1>2, <1>4, <1>5, <1>7, OneReplicaMoves

LEMMA ShutdownStep ==
    ASSUME RuntimeInv, NEW r \in Replicas, Signal(r) \/ Drain(r) \/ StopJobs(r) \/ Flush(r)
    PROVE  RuntimeInv'
<1>1. RunnerInv' /\ RuntimeTypeOK /\ ReplicaInv(r)
    BY RunnerStep, RunnerRests DEF RuntimeInv, Signal, Drain, StopJobs, Flush
<1>2. UNCHANGED <<job, requests, queue, writing, panicked>>
    BY DEF Signal, Drain, StopJobs, Flush, Cancel, runnerVars
<1>3. \/ /\ phase[r] = "serving" /\ phase' = [phase EXCEPT ![r] = "draining"]
         /\ UNCHANGED <<open, drainCut, flushCut>>
      \/ /\ phase[r] \in {"serving", "draining"} /\ phase' = [phase EXCEPT ![r] = "stopping"]
         /\ drainCut' = IF requests[r] = 0 THEN drainCut ELSE drainCut \cup {r}
         /\ UNCHANGED <<open, flushCut>>
      \/ /\ phase[r] = "stopping" /\ phase' = [phase EXCEPT ![r] = "flushing"]
         /\ job[r] = "stopped" /\ open' = open \ {r} /\ UNCHANGED <<drainCut, flushCut>>
      \/ /\ phase[r] = "flushing" /\ phase' = [phase EXCEPT ![r] = "closed"]
         /\ IF queue[r] = 0 /\ writing[r] = "nothing"
            THEN UNCHANGED flushCut
            ELSE flushCut' = flushCut \cup {r}
         /\ UNCHANGED <<open, drainCut>>
    BY DEF Signal, Drain, StopJobs, Flush, Enter
<1>4. /\ phase' \in [Replicas -> {"serving", "draining", "stopping", "flushing", "closed"}]
      /\ open' = {q \in Replicas : phase'[q] \in {"serving", "draining", "stopping"}}
      /\ \A q \in Replicas \ {r} : phase'[q] = phase[q]
    BY <1>1, <1>3 DEF RuntimeTypeOK
<1>5. /\ open' \subseteq open /\ drainCut \subseteq drainCut'
      /\ drainCut' \subseteq drainCut \cup {r} /\ flushCut' \subseteq flushCut \cup {r}
      /\ flushCut \subseteq flushCut'
    BY <1>3
<1>6. RuntimeTypeOK'
    BY <1>1, <1>2, <1>4, <1>5 DEF RuntimeTypeOK, RunnerInv
<1>7. OthersServe(r) /\ panicked' \subseteq drainCut'
    BY <1>2, <1>4, <1>5 DEF OthersServe, RuntimeInv
<1>8. ReplicaInv(r)'
    BY <1>1, <1>2, <1>3 DEF ReplicaInv, RuntimeTypeOK
<1> QED BY <1>1, <1>6, <1>7, <1>8, OneReplicaMoves

LEMMA RestartStep ==
    ASSUME RuntimeInv, NEW r \in Replicas, Restart(r)
    PROVE  RuntimeInv'
<1>1. RunnerInv' /\ RuntimeTypeOK
    BY RunnerStep DEF RuntimeInv, Restart
<1>2. /\ job' = [job EXCEPT ![r] = "waiting"] /\ phase' = [phase EXCEPT ![r] = "serving"]
      /\ requests' = [requests EXCEPT ![r] = 0] /\ queue' = [queue EXCEPT ![r] = 0]
      /\ open' = open \cup {r} /\ writing' = [writing EXCEPT ![r] = "nothing"]
      /\ panicked' = panicked \ {r}
      /\ drainCut' = drainCut \ {r} /\ flushCut' = flushCut \ {r}
    BY DEF Restart, Reboot, Goto, Enter
<1>3. RuntimeTypeOK'
    BY <1>1, <1>2, RuntimeAssumption DEF RuntimeTypeOK, RunnerInv
<1>4. OthersServe(r) /\ panicked' \subseteq drainCut'
    BY <1>1, <1>2 DEF OthersServe, RuntimeInv, RuntimeTypeOK, RunnerTypeOK
<1>5. ReplicaInv(r)'
    BY <1>1, <1>2 DEF ReplicaInv, RuntimeTypeOK
<1> QED BY <1>1, <1>3, <1>4, <1>5, OneReplicaMoves

LEMMA RuntimeStep ==
    ASSUME RuntimeInv, [RuntimeNext]_runtimeVars
    PROVE  RuntimeInv'
<1>1. CASE UNCHANGED runtimeVars
    <2>1. RunnerInv' /\ UNCHANGED processVars /\ UNCHANGED job
        BY <1>1, RunnerRests DEF RuntimeInv, runtimeVars, runnerVars
    <2> QED BY <2>1 DEF RuntimeInv, RuntimeTypeOK, RunnerInv, ReplicaInv, processVars
<1>2. CASE RuntimeNext
    BY <1>2, JobRuntimeStep, RequestStep, WriterStep, ShutdownStep, RestartStep
       DEF RuntimeNext, ProcessStep
<1> QED BY <1>1, <1>2

(* The invariant of the processes and of the lock, in every state of every *)
(* number of replicas that are signalled, killed and started again.        *)
THEOREM RuntimeInvariance == RuntimeSpec => []RuntimeInv
BY RuntimeStarts, RuntimeStep, PTL DEF RuntimeSpec

(* Two runs that took the lock never overlap unless one of them stalled:   *)
(* each that has not still owns the key, which names one owner             *)
(* (runner.go:140-152).                                                    *)
THEOREM LockExcludes == RuntimeSpec => []OneRunAtATime
<1>1. RuntimeInv => OneRunAtATime
    BY DEF RuntimeInv, RunnerInv, HoldsKey, OneRunAtATime
<1> QED BY <1>1, RuntimeInvariance, PTL

(* No key outlives its run, but for a failed call or a process that died   *)
(* (runner.go:160-187).                                                    *)
THEOREM KeysAreReleased == RuntimeSpec => []LockHasRun
<1>1. RuntimeInv => LockHasRun
    BY DEF RuntimeInv, RunnerInv
<1> QED BY <1>1, RuntimeInvariance, PTL

(* Record meets a closed channel only in a shutdown that gave up on a      *)
(* request (analytics/service.go:136-145).                                 *)
THEOREM ChannelClosesLast == RuntimeSpec => []NothingArrivesLate
<1>1. RuntimeInv => NothingArrivesLate
    BY DEF RuntimeInv, NothingArrivesLate
<1> QED BY <1>1, RuntimeInvariance, PTL

(* When the pool is closed no job uses it, and no event that was accepted, *)
(* except one that the flush gave up on (main.go:64-83).                   *)
THEOREM NobodyIsLeftBehind == RuntimeSpec => []ClosedMeansIdle
<1>1. RuntimeInv => ClosedMeansIdle
    BY DEF RuntimeInv, ReplicaInv, ClosedMeansIdle
<1> QED BY <1>1, RuntimeInvariance, PTL
=============================================================================
