------------------------------- MODULE Runtime ------------------------------
(***************************************************************************)
(* The life of the API processes: what run() starts, and the order in      *)
(* which its deferred calls take it down again (cmd/api/main.go).          *)
(*                                                                         *)
(* A signal cancels the context of the jobs and stops the listener; the    *)
(* requests get twenty seconds; then Runner.Stop waits for the jobs,       *)
(* analytics Close for the writer of the events, and Redis and the pool    *)
(* are closed.  The storefront queues an event per page view for one       *)
(* worker of the process, on a bounded channel.                            *)
(***************************************************************************)
EXTENDS JobRunner

CONSTANTS
    Serving,         \* replicas that requests reach
    QueueSize,       \* queueSize
    MaxRequests      \* requests at a time, on each replica

VARIABLES
    phase,           \* how far run() is
    requests,        \* handlers that have yet to call Record
    queue,           \* events in the channel
    open,            \* replicas whose channel is open
    writing,         \* what the worker does with the event it has taken
    panicked,        \* replicas where Record met a closed channel
    drainCut,        \* shutdowns that did not wait for every request
    flushCut         \* shutdowns that did not wait for every event

processVars == <<phase, requests, queue, open, writing, panicked, drainCut, flushCut>>
runtimeVars == <<runnerVars, processVars>>

ASSUME RuntimeAssumption ==
    /\ Serving \subseteq Replicas
    /\ QueueSize \in Nat \ {0} /\ MaxRequests \in Nat

RuntimeInit ==
    /\ RunnerInit
    /\ phase = [r \in Replicas |-> "serving"]
    /\ requests = [r \in Replicas |-> 0]
    /\ queue = [r \in Replicas |-> 0]
    /\ open = Replicas
    /\ writing = [r \in Replicas |-> "nothing"]
    /\ panicked = {} /\ drainCut = {} /\ flushCut = {}

Enter(r, next) == phase' = [phase EXCEPT ![r] = next]

-----------------------------------------------------------------------------
(* A visitor asks for a page.                                              *)
Arrive(r) ==
    /\ r \in Serving /\ phase[r] = "serving"
    /\ requests[r] < MaxRequests
    /\ requests' = [requests EXCEPT ![r] = @ + 1]
    /\ UNCHANGED <<runnerVars, phase, queue, open, writing, panicked, drainCut, flushCut>>

EndRequest(r) ==
    /\ requests[r] > 0
    /\ requests' = [requests EXCEPT ![r] = @ - 1]
    /\ UNCHANGED <<runnerVars, phase, open, writing, drainCut, flushCut>>

(* There is no such page: nothing is recorded.                             *)
AnswerNotFound(r) == EndRequest(r) /\ UNCHANGED <<queue, panicked>>

(* Record: a full channel drops the event, a closed one panics.            *)
Record(r) ==
    /\ EndRequest(r)
    /\ \/ /\ r \in open /\ queue[r] < QueueSize
          /\ queue' = [queue EXCEPT ![r] = @ + 1]
          /\ UNCHANGED panicked
       \/ /\ r \in open /\ queue[r] = QueueSize
          /\ UNCHANGED <<queue, panicked>>
       \/ /\ r \notin open
          /\ panicked' = panicked \cup {r}
          /\ UNCHANGED queue

WorkerStep(r, next) ==
    /\ writing' = [writing EXCEPT ![r] = next]
    /\ UNCHANGED <<runnerVars, phase, requests, open, panicked, drainCut, flushCut>>

(* run: the worker takes the next event, from a closed channel too.        *)
TakeEvent(r) ==
    /\ writing[r] = "nothing" /\ queue[r] > 0
    /\ queue' = [queue EXCEPT ![r] = @ - 1]
    /\ WorkerStep(r, "visitor")

(* write: UpsertVisitor, whose failure drops the event, ...                *)
UpsertVisitor(r) ==
    /\ writing[r] = "visitor"
    /\ \/ phase[r] # "closed" /\ WorkerStep(r, "event")
       \/ WorkerStep(r, "nothing")
    /\ UNCHANGED queue

(* ... then InsertEvent; the worker goes on whatever it answers.           *)
InsertEvent(r) ==
    /\ writing[r] = "event"
    /\ WorkerStep(r, "nothing")
    /\ UNCHANGED queue

-----------------------------------------------------------------------------
(* SIGTERM: the context that the jobs were started with is done at once.   *)
Signal(r) ==
    /\ phase[r] = "serving"
    /\ Enter(r, "draining")
    /\ Cancel(r)
    /\ UNCHANGED <<requests, queue, open, writing, panicked, drainCut, flushCut>>

(* Mutant: the listener is closed and nobody waits for the requests.       *)
DrainNothing(r) ==
    /\ phase[r] = "draining"
    /\ drainCut' = drainCut
    /\ Enter(r, "stopping")
    /\ Cancel(r)
    /\ UNCHANGED <<requests, queue, open, writing, panicked, flushCut>>

(* ShutdownWithContext has waited for the requests, or for twenty seconds; *)
(* or Listen has failed while others are still served.  Then Stop begins.  *)
Drain(r) ==
    /\ phase[r] \in {"serving", "draining"}
    /\ drainCut' = IF requests[r] = 0 THEN drainCut ELSE drainCut \cup {r}
    /\ Enter(r, "stopping")
    /\ Cancel(r)
    /\ UNCHANGED <<requests, queue, open, writing, panicked, flushCut>>

(* Mutant: Stop cancels and does not wait.                                 *)
StopNoWait(r) ==
    /\ phase[r] = "stopping"
    /\ Enter(r, "flushing")
    /\ open' = open \ {r}
    /\ UNCHANGED <<runnerVars, requests, queue, writing, panicked, drainCut, flushCut>>

(* Runner.Stop returns, and Close closes the channel.                      *)
StopJobs(r) ==
    /\ phase[r] = "stopping"
    /\ job[r] = "stopped"
    /\ Enter(r, "flushing")
    /\ open' = open \ {r}
    /\ UNCHANGED <<runnerVars, requests, queue, writing, panicked, drainCut, flushCut>>

(* The worker has returned, or shutdownTimeout has passed; Redis and the   *)
(* pool are closed.                                                        *)
Flush(r) ==
    /\ phase[r] = "flushing"
    /\ IF queue[r] = 0 /\ writing[r] = "nothing"
       THEN UNCHANGED flushCut
       ELSE flushCut' = flushCut \cup {r}
    /\ Enter(r, "closed")
    /\ UNCHANGED <<runnerVars, requests, queue, open, writing, panicked, drainCut>>

(* The process exits, or is killed at any moment, and another one starts.  *)
Restart(r) ==
    /\ Reboot(r)
    /\ Enter(r, "serving")
    /\ requests' = [requests EXCEPT ![r] = 0]
    /\ queue' = [queue EXCEPT ![r] = 0]
    /\ open' = open \cup {r}
    /\ writing' = [writing EXCEPT ![r] = "nothing"]
    /\ panicked' = panicked \ {r}
    /\ drainCut' = drainCut \ {r} /\ flushCut' = flushCut \ {r}

ProcessStep(r) ==
    \/ Arrive(r) \/ AnswerNotFound(r) \/ Record(r)
    \/ TakeEvent(r) \/ UpsertVisitor(r) \/ InsertEvent(r)
    \/ Signal(r) \/ Drain(r) \/ StopJobs(r) \/ Flush(r) \/ Restart(r)

RuntimeNext ==
    \/ \E r \in Replicas : (JobStep(r) /\ UNCHANGED processVars) \/ ProcessStep(r)
    \/ Tick /\ UNCHANGED processVars

RuntimeSpec == RuntimeInit /\ [][RuntimeNext]_runtimeVars

-----------------------------------------------------------------------------
(* Types; a replica that takes no requests has no events.                  *)
RuntimeTypeOK ==
    /\ RunnerTypeOK
    /\ phase \in [Replicas -> {"serving", "draining", "stopping", "flushing", "closed"}]
    /\ requests \in [Replicas -> 0..MaxRequests]
    /\ queue \in [Replicas -> 0..QueueSize]
    /\ writing \in [Replicas -> {"nothing", "visitor", "event"}]
    /\ open = {r \in Replicas : phase[r] \in {"serving", "draining", "stopping"}}
    /\ panicked \subseteq Serving \ open
    /\ drainCut \cup flushCut \subseteq Replicas

(* "After the HTTP server has stopped accepting requests, so nothing new   *)
(* arrives while it drains" (analytics/service.go:136-138): Record never   *)
(* meets the closed channel, unless the shutdown gave up on a request; and *)
(* the channel is closed before anyone waits for the queue to drain.       *)
NothingArrivesLate ==
    /\ RuntimeTypeOK
    /\ panicked \subseteq drainCut

(* When the pool and Redis are closed, nobody is left who would use them,  *)
(* neither a job nor an event that was accepted (main.go:64-83): each was  *)
(* waited for, except an event that shutdownTimeout was too short for.     *)
ClosedMeansIdle ==
    \A r \in Replicas : phase[r] = "closed" =>
        /\ job[r] = "stopped"
        /\ r \notin flushCut => queue[r] = 0 /\ writing[r] = "nothing"

-----------------------------------------------------------------------------
(* What each phase of a shutdown waited for has ended and does not begin   *)
(* again.                                                                  *)
ReplicaInv(r) ==
    /\ requests[r] > 0 => r \in Serving
    /\ requests[r] > 0 /\ phase[r] \notin {"serving", "draining"} => r \in drainCut
    /\ phase[r] \in {"flushing", "closed"} => job[r] = "stopped"
    /\ phase[r] = "closed" /\ r \notin flushCut => queue[r] = 0 /\ writing[r] = "nothing"

(* The states that a process goes through while it serves, is shut down    *)
(* step by step (main.go:64-133), killed and started again.        *)
RuntimeInv ==
    /\ RunnerInv
    /\ RuntimeTypeOK
    /\ \A r \in Replicas : ReplicaInv(r)
    /\ panicked \subseteq drainCut
=============================================================================
