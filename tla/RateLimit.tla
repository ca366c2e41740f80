----------------------------- MODULE RateLimit ------------------------------
(***************************************************************************)
(* One bucket of middleware.RateLimiter: the counter in Redis under one    *)
(* key, the requests that are charged to it, and the calls to Redis that   *)
(* fail, come late or are made twice.  No step touches two keys, so one is *)
(* enough.  A request without an identity, or a limiter without a client,  *)
(* goes straight through and has no step here.                             *)
(*                                                                         *)
(* Time is counted in ticks: Window is the life of a counter, Second what  *)
(* Retry-After is rounded to, Patience how long a call may go on.  That is *)
(* not the 500 milliseconds of its context, which the client does not apply *)
(* to a read in progress, but its read timeout of two seconds and the time *)
(* to get a connection; what is assumed is only that Window is longer.     *)
(* Redis keeps a key for the whole of its last tick, when PTTL answers 0.  *)
(***************************************************************************)
EXTENDS Integers, FiniteSets, Functions

CONSTANTS
    Requests,        \* how many can be under way at once
    Limit, Window,   \* RateLimitConfig
    Second,
    Patience,        \* opts.ReadTimeout, and what comes before the read
    MaxStrays,       \* bound: scripts that outlive the call that sent them
    MaxRestarts,     \* bound: of Redis, which is run without persistence
    None

VARIABLES
    counter,         \* ratelimit:<name>:<identity>: its hits and its PTTL
    call,            \* each request, and what Redis answered it
    strays,          \* scripts sent by calls that timed out
    restarts,
    charged,         \* history: how many requests were charged, by age
    admitted,        \* history: how many their charge let through, by age
    doubled,         \* history: this counter has charged a request twice
    told             \* history: the shortest wait told for this counter

rateVars == <<counter, call, strays, restarts, charged, admitted, doubled, told>>

ASSUME RateLimitAssumption ==
    /\ IsFiniteSet(Requests)
    /\ Limit \in Nat \ {0} /\ Second \in Nat \ {0}
    /\ Window \in Nat \ {0} /\ Patience \in 1..(Window - 1)
    /\ MaxStrays \in Nat /\ MaxRestarts \in Nat
    /\ None \notin [hits : Nat, left : Nat]

Lesser(m, n) == IF m < n THEN m ELSE n

(* Hits above the limit are all alike to the code; so are, to the          *)
(* properties, admissions from twice the limit on.                         *)
ManyHits == Limit + 1
ManyAdmitted == 2 * Limit

(* The interval the histories of admissions look back over.                *)
Span == Window - Patience

Young(age) == [a \in 0..age |-> 0]
Older(ages) == [a \in DOMAIN ages |-> IF a = 0 THEN 0 ELSE ages[a - 1]]
OneMore(ages, many) == [ages EXCEPT ![0] = Lesser(@ + 1, many)]

Idle == [step |-> "idle", hits |-> 0, left |-> 0, of |-> "none", wait |-> 0]

RateInit ==
    /\ counter = None
    /\ call = [q \in Requests |-> Idle]
    /\ strays = 0 /\ restarts = 0
    /\ charged = Young(Window) /\ admitted = Young(Span)
    /\ doubled = FALSE /\ told = None

-----------------------------------------------------------------------------
(* Mutant: PEXPIRE for every hit that is let through.                      *)
ScriptRefreshing ==
    IF counter = None
    THEN [hits |-> 1, left |-> Window]
    ELSE IF counter.hits < Limit
    THEN [hits |-> counter.hits + 1, left |-> Window]
    ELSE [counter EXCEPT !.hits = Lesser(@ + 1, ManyHits)]

(* incrementAndExpire: INCR, and PEXPIRE for the first hit.                *)
Script ==
    IF counter = None
    THEN [hits |-> 1, left |-> Window]
    ELSE [counter EXCEPT !.hits = Lesser(@ + 1, ManyHits)]

(* The script runs and its PTTL and count are on their way back.           *)
Answer(q) ==
    /\ counter' = Script
    /\ call' = [call EXCEPT ![q] =
                  [@ EXCEPT !.step = "answered", !.of = "window",
                            !.hits = Script.hits, !.left = Script.left]]

Arrive(q) ==
    /\ call[q].step = "idle"
    /\ call' = [call EXCEPT ![q].step = "sent"]
    /\ UNCHANGED <<counter, strays, restarts, charged, admitted, doubled, told>>

(* Mutant: INCR and PEXPIRE are two commands, and the process may die      *)
(* between them.                                                           *)
ExecuteInTwo(q) ==
    /\ call[q].step = "sent"
    /\ \/ Answer(q)
       \/ /\ counter = None
          /\ counter' = [hits |-> 1, left |-> None]
          /\ call' = [call EXCEPT ![q] = Idle]
    /\ charged' = OneMore(charged, ManyHits)
    /\ UNCHANGED <<strays, restarts, admitted, doubled, told>>

Execute(q) ==
    /\ call[q].step = "sent"
    /\ Answer(q)
    /\ charged' = OneMore(charged, ManyHits)
    /\ UNCHANGED <<strays, restarts, admitted, doubled, told>>

(* The connection breaks before the answer is read: the client library     *)
(* sends the command again, and Redis counts the request again.            *)
Resend(q) ==
    /\ call[q].step = "answered"
    /\ Answer(q)
    /\ doubled' = TRUE
    /\ UNCHANGED <<strays, restarts, charged, admitted, told>>

(* An error, or no answer before the client gives up: the request is let   *)
(* through.  A script that was sent may still be on its way.               *)
FailOpen(q) ==
    /\ call[q].step # "idle"
    /\ call' = [call EXCEPT ![q] = Idle]
    /\ \/ UNCHANGED strays
       \/ /\ call[q].step = "sent" /\ strays < MaxStrays
          /\ strays' = strays + 1
    /\ UNCHANGED <<counter, restarts, charged, admitted, doubled, told>>

RunStray ==
    /\ strays > 0
    /\ strays' = strays - 1
    /\ counter' = Script
    /\ charged' = OneMore(charged, ManyHits)
    /\ UNCHANGED <<call, restarts, admitted, doubled, told>>

-----------------------------------------------------------------------------
(* Mutant: off by one.                                                     *)
OverLimitByOne(hits) == hits > Limit + 1

OverLimit(hits) == hits > Limit

(* Mutant: whole seconds only.                                             *)
RetryAfterRoundedDown(left) == left \div Second

(* Retry-After, in seconds: rounded up.                                    *)
RetryAfter(left) == (left + Second - 1) \div Second

Admit(q) ==
    /\ call[q].step = "answered" /\ ~OverLimit(call[q].hits)
    /\ call' = [call EXCEPT ![q] = Idle]
    /\ admitted' = IF call[q].of = "lost" THEN admitted
                   ELSE OneMore(admitted, ManyAdmitted)
    /\ UNCHANGED <<counter, strays, restarts, charged, doubled, told>>

(* 429.  The wait is told for the counter that the request was charged to. *)
Refuse(q) ==
    /\ call[q].step = "answered" /\ OverLimit(call[q].hits)
    /\ call' = [call EXCEPT ![q] = Idle]
    /\ told' = LET wait == Second * RetryAfter(call[q].left)
               IN  IF call[q].of # "window" THEN told
                   ELSE IF told = None THEN wait ELSE Lesser(told, wait)
    /\ UNCHANGED <<counter, strays, restarts, charged, admitted, doubled>>

-----------------------------------------------------------------------------
(* The counter is no more; answers that it gave may still be on their way. *)
EndCounter(how, calls) ==
    /\ counter' = None
    /\ call' = [q \in Requests |->
                  IF calls[q].of = "none" THEN calls[q] ELSE [calls[q] EXCEPT !.of = how]]
    /\ doubled' = FALSE /\ told' = None

(* No call goes on for longer than Patience.                               *)
Tick ==
    /\ \A q \in Requests : call[q].wait < Patience
    /\ LET waited == [q \in Requests |->
                        IF call[q].step = "idle" THEN Idle
                        ELSE [call[q] EXCEPT !.wait = @ + 1]]
       IN  IF counter # None /\ counter.left = 0
           THEN EndCounter("gone", waited)
           ELSE /\ call' = waited
                /\ counter' = IF counter = None THEN None
                              ELSE [counter EXCEPT !.left = @ - 1]
                /\ told' = IF told \in {None, 0} THEN told ELSE told - 1
                /\ UNCHANGED doubled
    /\ charged' = Older(charged) /\ admitted' = Older(admitted)
    /\ UNCHANGED <<strays, restarts>>

(* Redis comes back empty; the histories begin again with it.              *)
Restart ==
    /\ restarts < MaxRestarts
    /\ restarts' = restarts + 1
    /\ EndCounter("lost", call)
    /\ strays' = 0
    /\ charged' = Young(Window) /\ admitted' = Young(Span)

RateNext ==
    \/ \E q \in Requests :
          \/ Arrive(q) \/ Execute(q) \/ Resend(q) \/ FailOpen(q)
          \/ Admit(q) \/ Refuse(q)
    \/ RunStray \/ Tick \/ Restart

RateSpec == RateInit /\ [][RateNext]_rateVars

-----------------------------------------------------------------------------
(* Types.  Among them the claim of ratelimit.go:19-22: a counter leaves    *)
(* every step with an expiry attached, no longer than the window, so that  *)
(* none can lock its caller out for good.                                  *)
RateLimitTypeOK ==
    /\ counter \in [hits : 1..ManyHits, left : 0..Window] \cup {None}
    /\ call \in [Requests -> [step : {"idle", "sent", "answered"},
                              hits : 0..ManyHits, left : 0..Window,
                              of : {"none", "window", "gone", "lost"},
                              wait : 0..Patience]]
    /\ strays \in 0..MaxStrays /\ restarts \in 0..MaxRestarts
    /\ charged \in [0..Window -> 0..ManyHits] /\ admitted \in [0..Span -> 0..ManyAdmitted]
    /\ doubled \in BOOLEAN
    /\ told \in Nat \cup {None}

(* "The true worst case is twice the limit" (ratelimit.go:48-50) at a      *)
(* boundary of windows.  A window begins with a hit of its own, so it is   *)
(* one less than that, over any interval as long as the window less the    *)
(* patience of a call, however late answers come and whatever is sent      *)
(* again; not counting requests let through because Redis did not answer.  *)
AdmissionIsBounded == SumFunction(admitted) < 2 * Limit

(* A caller is refused for its own requests of the last window only: the   *)
(* counter never holds more than Redis was sent in that time, also when    *)
(* scripts arrive after their request has gone.  The exception is a        *)
(* command that the client library sent twice.                             *)
RefusalIsEarned ==
    counter # None /\ ~doubled => counter.hits <= SumFunction(charged)

(* Whoever waits as Retry-After says, and a moment longer, is not charged  *)
(* to the counter that refused it, however long the answer was on its way  *)
(* (ratelimit.go:116).                                                     *)
WaitIsEnough == told # None => counter # None /\ told >= counter.left

(* An answer that is still on its way is older than the counter that gave  *)
(* it, so its PTTL says too much and never too little.                     *)
AnswersSayEnough ==
    \A q \in Requests :
        call[q].of = "window" => counter # None /\ call[q].left >= counter.left

(* A counter never outlives its window, whoever charges it and whoever     *)
(* dies in between, and neither an answer nor a refusal ever names less    *)
(* time than it has left (ratelimit.go:23-29, 103-117).                    *)
CounterInv == RateLimitTypeOK /\ WaitIsEnough /\ AnswersSayEnough

-----------------------------------------------------------------------------
(* Why admissions are bounded and refusals earned.                         *)

(* How long ago the counter began, and what it has let through.            *)
Age == Window - counter.left
Allowed == IF counter = None THEN 0 ELSE Lesser(counter.hits, Limit)

(* Answers on their way that will let their request through.               *)
Coming(of, hits) == {q \in Requests : call[q].of \in of /\ call[q].hits \in hits..Limit}

(* A call is at least as old as the counter whose first hit it got, and    *)
(* than any counter that began after its own ended.                        *)
AnswersAreTimed ==
    \A q \in Requests :
        /\ call[q].step = "answered" <=> call[q].of # "none"
        /\ call[q].of # "none" => call[q].hits >= 1
        /\ call[q].of = "gone" => call[q].wait >= 1
        /\ counter # None =>
              /\ call[q].of = "gone" => call[q].wait > Age
              /\ call[q].of = "lost" => call[q].wait >= Age
              /\ call[q].of = "window" /\ call[q].hits = 1 => call[q].wait >= Age

(* What was admitted and what is still coming: at most what one window let *)
(* through after its first hit and, while there is a counter, what that    *)
(* one has let through.  Once the calls older than the counter's second    *)
(* hit are over, admissions are of its own second hit and later ones.      *)
AdmissionsAddUp ==
    /\ SumFunction(admitted) + Cardinality(Coming({"gone", "window"}, 1)) < Limit + Allowed
    /\ counter # None =>
          SumFunctionOnSet(admitted, 0..(Age - Patience - 1)) + Cardinality(Coming({"window"}, 2))
             < Allowed

(* The hits of a counter were charged since it began.                      *)
ChargesAddUp ==
    counter # None /\ ~doubled => counter.hits <= SumFunctionOnSet(charged, 0..Age)

(* The limiter's counts, with what makes them inductive.                   *)
RateInv == CounterInv /\ AnswersAreTimed /\ AdmissionsAddUp /\ ChargesAddUp
=============================================================================
