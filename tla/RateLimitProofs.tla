--------------------------- MODULE RateLimitProofs --------------------------
(***************************************************************************)
(* Theorems about one bucket of the rate limiter: whatever the limit, the  *)
(* window and the patience, and however many requests are under way.       *)
(***************************************************************************)
EXTENDS RateLimit, SumLemmas

-----------------------------------------------------------------------------
(* Retry-After is rounded up.                                              *)
LEMMA RoundedUp ==
    ASSUME NEW left \in Nat
    PROVE  RetryAfter(left) \in Nat /\ Second * RetryAfter(left) >= left
<1>1. PICK q \in Nat : q = (left + Second - 1) \div Second
    BY RateLimitAssumption
<1>2. Second * q + ((left + Second - 1) % Second) = left + Second - 1
    BY <1>1, RateLimitAssumption
<1>3. (left + Second - 1) % Second \in 0..(Second - 1)
    BY RateLimitAssumption
<1> QED BY <1>1, <1>2, <1>3, RateLimitAssumption DEF RetryAfter

(* What Redis keeps after the script, and answers.                         *)
LEMMA ScriptTypes ==
    ASSUME RateLimitTypeOK
    PROVE  /\ Script \in [hits : 1..ManyHits, left : 0..Window] /\ Script # None
           /\ counter # None => Script.left = counter.left
<1>1. Limit \in Nat \ {0} /\ Window \in Nat \ {0} /\ ManyHits = Limit + 1
    BY RateLimitAssumption DEF ManyHits
<1>2. Script \in [hits : 1..ManyHits, left : 0..Window] /\ (counter # None => Script.left = counter.left)
    <2>1. CASE counter = None
        BY <1>1, <2>1 DEF Script
    <2>2. CASE counter # None
        <3>1. counter \in [hits : 1..ManyHits, left : 0..Window]
            BY <2>2 DEF RateLimitTypeOK
        <3>2. Lesser(counter.hits + 1, ManyHits) \in 1..ManyHits
            BY <1>1, <3>1 DEF Lesser
        <3> QED BY <2>2, <3>1, <3>2 DEF Script
    <2> QED BY <2>1, <2>2
<1>3. Script \in [hits : Nat, left : Nat]
    BY <1>1, <1>2
<1> QED BY <1>2, <1>3, RateLimitAssumption

(* The histories of charges and admissions.                                *)
LEMMA AgesAreTyped ==
    ASSUME NEW age \in Nat, NEW many \in Nat, NEW ages \in [0..age -> 0..many]
    PROVE  /\ Young(age) \in [0..age -> 0..many] /\ Older(ages) \in [0..age -> 0..many]
           /\ OneMore(ages, many) \in [0..age -> 0..many]
<1>1. Older(ages) \in [0..age -> 0..many]
    <2>1. \A a \in 0..age : (IF a = 0 THEN 0 ELSE ages[a - 1]) \in 0..many
        <3> TAKE a \in 0..age
        <3>1. CASE a = 0
            BY <3>1
        <3>2. CASE a # 0
            <4>1. a - 1 \in 0..age
                BY <3>2
            <4> QED BY <3>2, <4>1
        <3> QED BY <3>1, <3>2
    <2> QED BY <2>1 DEF Older
<1>2. OneMore(ages, many) \in [0..age -> 0..many]
    <2>1. ages[0] \in 0..many
        OBVIOUS
    <2>2. Lesser(ages[0] + 1, many) \in 0..many
        BY <2>1 DEF Lesser
    <2> QED BY <2>2 DEF OneMore
<1> QED BY <1>1, <1>2 DEF Young

LEMMA Bounds ==
    /\ Limit \in Nat \ {0} /\ Window \in Nat \ {0} /\ Patience \in Nat \ {0}
    /\ ManyHits \in Nat \ {0} /\ ManyAdmitted \in Nat /\ Span \in Nat
BY RateLimitAssumption DEF ManyHits, ManyAdmitted, Span

(* The two histories that the module keeps.                                *)
LEMMA HistoriesAreTyped ==
    ASSUME RateLimitTypeOK
    PROVE  /\ charged \in [0..Window -> 0..ManyHits] /\ admitted \in [0..Span -> 0..ManyAdmitted]
           /\ OneMore(charged, ManyHits) \in [0..Window -> 0..ManyHits]
           /\ OneMore(admitted, ManyAdmitted) \in [0..Span -> 0..ManyAdmitted]
           /\ Older(charged) \in [0..Window -> 0..ManyHits]
           /\ Older(admitted) \in [0..Span -> 0..ManyAdmitted]
           /\ Young(Window) \in [0..Window -> 0..ManyHits]
           /\ Young(Span) \in [0..Span -> 0..ManyAdmitted]
<1>1. charged \in [0..Window -> 0..ManyHits] /\ admitted \in [0..Span -> 0..ManyAdmitted]
    BY DEF RateLimitTypeOK
<1>2. Window \in Nat /\ Span \in Nat /\ ManyHits \in Nat /\ ManyAdmitted \in Nat
    BY Bounds
<1>3. /\ OneMore(charged, ManyHits) \in [0..Window -> 0..ManyHits]
      /\ Older(charged) \in [0..Window -> 0..ManyHits]
      /\ Young(Window) \in [0..Window -> 0..ManyHits]
    BY <1>1, <1>2, AgesAreTyped
<1>4. /\ OneMore(admitted, ManyAdmitted) \in [0..Span -> 0..ManyAdmitted]
      /\ Older(admitted) \in [0..Span -> 0..ManyAdmitted]
      /\ Young(Span) \in [0..Span -> 0..ManyAdmitted]
    BY <1>1, <1>2, AgesAreTyped
<1> QED BY <1>1, <1>3, <1>4

Calls == [step : {"idle", "sent", "answered"}, hits : 0..ManyHits, left : 0..Window,
          of : {"none", "window", "gone", "lost"}, wait : 0..Patience]

LEMMA CounterStarts == RateInit => CounterInv
<1> SUFFICES ASSUME RateInit PROVE CounterInv
    OBVIOUS
<1>1. Idle \in Calls /\ Idle.of = "none"
    BY Bounds DEF Idle, Calls
<1>2. charged \in [0..Window -> 0..ManyHits] /\ admitted \in [0..Span -> 0..ManyAdmitted]
    BY Bounds DEF RateInit, Young
<1>3. call \in [Requests -> Calls] /\ \A q \in Requests : call[q].of = "none"
    BY <1>1 DEF RateInit
<1>4. strays \in 0..MaxStrays /\ restarts \in 0..MaxRestarts
    BY RateLimitAssumption DEF RateInit
<1>5. RateLimitTypeOK
    BY <1>2, <1>3, <1>4 DEF RateInit, RateLimitTypeOK, Calls
<1>6. WaitIsEnough /\ AnswersSayEnough
    BY <1>3 DEF RateInit, WaitIsEnough, AnswersSayEnough
<1> QED BY <1>5, <1>6 DEF CounterInv

(* The call of one request moves on; what is asked of it is that it still  *)
(* says enough.                                                            *)
LEMMA CallStep ==
    ASSUME CounterInv, NEW q \in Requests, NEW record \in Calls,
           call' = [call EXCEPT ![q] = record],
           counter' = counter \/ counter' = Script,
           record.of = "window" => counter' # None /\ record.left >= counter'.left,
           strays' \in 0..MaxStrays, restarts' = restarts, doubled' \in BOOLEAN,
           charged' \in {charged, OneMore(charged, ManyHits)},
           admitted' \in {admitted, OneMore(admitted, ManyAdmitted)},
           told' = told
    PROVE  CounterInv'
<1>1. RateLimitTypeOK /\ WaitIsEnough /\ AnswersSayEnough
    BY DEF CounterInv
<1>2. /\ counter' \in [hits : 1..ManyHits, left : 0..Window] \cup {None}
      /\ counter # None => counter' # None /\ counter'.left = counter.left
    BY <1>1, ScriptTypes DEF RateLimitTypeOK
<1>3. call' \in [Requests -> Calls] /\ call'[q] = record /\ \A p \in Requests \ {q} : call'[p] = call[p]
    BY <1>1 DEF RateLimitTypeOK, Calls
<1>4. charged' \in [0..Window -> 0..ManyHits] /\ admitted' \in [0..Span -> 0..ManyAdmitted]
    BY <1>1, HistoriesAreTyped
<1>5. RateLimitTypeOK'
    BY <1>1, <1>2, <1>3, <1>4 DEF RateLimitTypeOK, Calls
<1>6. WaitIsEnough'
    BY <1>1, <1>2 DEF WaitIsEnough
<1>7. AnswersSayEnough'
    BY <1>1, <1>2, <1>3 DEF AnswersSayEnough
<1> QED BY <1>5, <1>6, <1>7 DEF CounterInv

(* Every step of a request keeps the types and the announced waits.        *)
LEMMA RequestSteps ==
    ASSUME CounterInv, NEW q \in Requests,
           Arrive(q) \/ Execute(q) \/ Resend(q) \/ FailOpen(q) \/ Admit(q)
    PROVE  CounterInv'
<1>1. /\ RateLimitTypeOK /\ call \in [Requests -> Calls] /\ call[q] \in Calls
      /\ AnswersSayEnough
    BY DEF CounterInv, RateLimitTypeOK, Calls
<1>2. Idle \in Calls /\ Idle.of = "none"
    BY Bounds DEF Idle, Calls
<1>3. CASE Arrive(q)
    <2> DEFINE record == [call[q] EXCEPT !.step = "sent"]
    <2>1. record \in Calls /\ record.of = call[q].of /\ record.left = call[q].left
        BY <1>1 DEF Calls
    <2>2. call' = [call EXCEPT ![q] = record]
        BY <1>3 DEF Arrive
    <2>3. UNCHANGED <<counter, strays, restarts, charged, admitted, doubled, told>>
        BY <1>3 DEF Arrive
    <2> HIDE DEF record
    <2> QED BY <1>1, <2>1, <2>2, <2>3, CallStep DEF RateLimitTypeOK, AnswersSayEnough
<1>4. CASE Execute(q) \/ Resend(q)
    <2> DEFINE record == [call[q] EXCEPT !.step = "answered", !.of = "window",
                                         !.hits = Script.hits, !.left = Script.left]
    <2>1. record \in Calls /\ record.left = Script.left
        <3>1. Script.hits \in 0..ManyHits /\ Script.left \in 0..Window
            BY <1>1, ScriptTypes, Bounds
        <3> QED BY <1>1, <3>1 DEF Calls
    <2>2. call' = [call EXCEPT ![q] = record] /\ counter' = Script
        BY <1>4 DEF Execute, Resend, Answer
    <2>3. /\ UNCHANGED <<strays, restarts, admitted, told>>
          /\ doubled' \in BOOLEAN /\ charged' \in {charged, OneMore(charged, ManyHits)}
        BY <1>1, <1>4 DEF Execute, Resend, RateLimitTypeOK
    <2>4. Script # None /\ Script.left >= Script.left
        BY <1>1, ScriptTypes
    <2> HIDE DEF record
    <2> QED BY <1>1, <2>1, <2>2, <2>3, <2>4, CallStep DEF RateLimitTypeOK
<1>5. CASE FailOpen(q)
    <2>1. strays' \in 0..MaxStrays
        BY <1>1, <1>5, RateLimitAssumption DEF FailOpen, RateLimitTypeOK
    <2> QED BY <1>1, <1>2, <1>5, <2>1, CallStep DEF FailOpen, RateLimitTypeOK
<1>6. CASE Admit(q)
    BY <1>1, <1>2, <1>6, CallStep DEF Admit, RateLimitTypeOK
<1> QED BY <1>3, <1>4, <1>5, <1>6

LEMMA RefuseStep ==
    ASSUME CounterInv, NEW q \in Requests, Refuse(q)
    PROVE  CounterInv'
<1>1. RateLimitTypeOK /\ WaitIsEnough /\ AnswersSayEnough /\ call[q] \in Calls
    BY DEF CounterInv, RateLimitTypeOK, Calls
<1>2. PICK wait \in Nat : wait = Second * RetryAfter(call[q].left) /\ wait >= call[q].left
    BY <1>1, Bounds, RoundedUp, RateLimitAssumption DEF Calls
<1>3. /\ call' = [call EXCEPT ![q] = Idle]
      /\ UNCHANGED <<counter, strays, restarts, charged, admitted, doubled>>
      /\ told' = IF call[q].of # "window" THEN told
                 ELSE IF told = None THEN wait ELSE Lesser(told, wait)
    BY <1>2 DEF Refuse
<1>4. Idle \in Calls /\ Idle.of = "none"
    BY Bounds DEF Idle, Calls
<1>5. call' \in [Requests -> Calls] /\ call'[q] = Idle /\ \A p \in Requests \ {q} : call'[p] = call[p]
    BY <1>1, <1>3, <1>4 DEF RateLimitTypeOK, Calls
<1>6. told' \in Nat \cup {None} /\ WaitIsEnough'
    <2>1. counter # None => counter.left \in Nat
        BY <1>1, Bounds DEF RateLimitTypeOK
    <2>2. call[q].of = "window" => counter # None /\ call[q].left >= counter.left
        BY <1>1 DEF AnswersSayEnough
    <2>3. call[q].left \in Nat
        BY <1>1, Bounds DEF Calls
    <2> QED BY <1>1, <1>2, <1>3, <2>1, <2>2, <2>3 DEF WaitIsEnough, RateLimitTypeOK, Lesser
<1>7. RateLimitTypeOK'
    BY <1>1, <1>3, <1>5, <1>6 DEF RateLimitTypeOK, Calls
<1>8. AnswersSayEnough'
    BY <1>1, <1>3, <1>4, <1>5 DEF AnswersSayEnough
<1> QED BY <1>6, <1>7, <1>8 DEF CounterInv

LEMMA StrayStep ==
    ASSUME CounterInv, RunStray
    PROVE  CounterInv'
<1>1. RateLimitTypeOK /\ WaitIsEnough /\ AnswersSayEnough
    BY DEF CounterInv
<1>2. /\ counter' \in [hits : 1..ManyHits, left : 0..Window] \cup {None}
      /\ counter # None => counter' # None /\ counter'.left = counter.left
    BY <1>1, ScriptTypes DEF RunStray
<1>3. charged' \in [0..Window -> 0..ManyHits] /\ strays' \in 0..MaxStrays
    BY <1>1, HistoriesAreTyped, RateLimitAssumption DEF RunStray, RateLimitTypeOK
<1> QED BY <1>1, <1>2, <1>3 DEF RunStray, CounterInv, RateLimitTypeOK, WaitIsEnough, AnswersSayEnough

(* The end of the counter ends every claim about it.                       *)
LEMMA CounterEnds ==
    ASSUME CounterInv, NEW how \in {"gone", "lost"}, NEW calls \in [Requests -> Calls],
           EndCounter(how, calls),
           strays' \in 0..MaxStrays, restarts' \in 0..MaxRestarts,
           charged' \in [0..Window -> 0..ManyHits], admitted' \in [0..Span -> 0..ManyAdmitted]
    PROVE  CounterInv'
<1>1. /\ counter' = None /\ doubled' = FALSE /\ told' = None
      /\ call' = [q \in Requests |->
                    IF calls[q].of = "none" THEN calls[q] ELSE [calls[q] EXCEPT !.of = how]]
    BY DEF EndCounter
<1>2. ASSUME NEW q \in Requests
      PROVE  call'[q] \in Calls /\ call'[q].of # "window"
    <2>1. CASE calls[q].of = "none"
        BY <1>1, <2>1
    <2>2. CASE calls[q].of # "none"
        BY <1>1, <2>2 DEF Calls
    <2> QED BY <2>1, <2>2
<1>3. call' \in [Requests -> Calls]
    BY <1>1, <1>2
<1> QED BY <1>1, <1>2, <1>3
        DEF CounterInv, RateLimitTypeOK, WaitIsEnough, AnswersSayEnough, Calls

LEMMA TickStep ==
    ASSUME CounterInv, Tick
    PROVE  CounterInv'
<1>1. RateLimitTypeOK /\ WaitIsEnough /\ AnswersSayEnough
    BY DEF CounterInv
<1>2. PICK waited : waited = [q \in Requests |-> IF call[q].step = "idle" THEN Idle
                                                 ELSE [call[q] EXCEPT !.wait = @ + 1]]
    OBVIOUS
<1>3. ASSUME NEW q \in Requests
      PROVE  /\ waited[q] \in Calls
             /\ waited[q].of = "window" =>
                   call[q].of = "window" /\ waited[q].left = call[q].left
    <2>1. call[q] \in Calls /\ call[q].wait < Patience
        BY <1>1 DEF Tick, RateLimitTypeOK, Calls
    <2>2. CASE call[q].step = "idle"
        <3>1. Idle \in Calls /\ Idle.of = "none"
            BY Bounds DEF Idle, Calls
        <3> QED BY <1>2, <2>2, <3>1
    <2>3. CASE call[q].step # "idle"
        <3>1. call[q].wait + 1 \in 0..Patience
            BY <2>1, Bounds DEF Calls
        <3>2. waited[q] = [call[q] EXCEPT !.wait = @ + 1]
            BY <1>2, <2>3
        <3> QED BY <2>1, <3>1, <3>2 DEF Calls
    <2> QED BY <2>2, <2>3
<1>4. waited \in [Requests -> Calls]
    BY <1>2, <1>3
<1>5. /\ charged' \in [0..Window -> 0..ManyHits] /\ admitted' \in [0..Span -> 0..ManyAdmitted]
      /\ UNCHANGED <<strays, restarts>>
      /\ strays \in 0..MaxStrays /\ restarts \in 0..MaxRestarts
    BY <1>1, HistoriesAreTyped DEF Tick, RateLimitTypeOK
<1>6. CASE counter # None /\ counter.left = 0
    <2>1. EndCounter("gone", waited)
        BY <1>2, <1>6 DEF Tick
    <2> QED BY <1>4, <1>5, <2>1, CounterEnds
<1>7. CASE ~(counter # None /\ counter.left = 0)
    <2>1. /\ call' = waited /\ UNCHANGED doubled
          /\ counter' = IF counter = None THEN None ELSE [counter EXCEPT !.left = @ - 1]
          /\ told' = IF told \in {None, 0} THEN told ELSE told - 1
        BY <1>2, <1>7 DEF Tick
    <2>2. /\ counter' \in [hits : 1..ManyHits, left : 0..Window] \cup {None}
          /\ counter # None => /\ counter' # None /\ counter.left \in Nat
                               /\ counter'.left = counter.left - 1
        <3>1. CASE counter = None
            BY <2>1, <3>1
        <3>2. CASE counter # None
            <4>1. counter \in [hits : 1..ManyHits, left : 0..Window] /\ counter.left # 0
                BY <1>1, <1>7, <3>2 DEF RateLimitTypeOK
            <4>2. counter' \in [hits : 1..ManyHits, left : 0..Window]
                BY <2>1, <3>2, <4>1, Bounds
            <4>3. counter' # None
                <5>1. counter' \in [hits : Nat, left : Nat]
                    BY <4>2, Bounds
                <5> QED BY <5>1, RateLimitAssumption
            <4> QED BY <2>1, <3>2, <4>1, <4>2, <4>3, Bounds
        <3> QED BY <3>1, <3>2
    <2>3. told' \in Nat \cup {None} /\ WaitIsEnough'
        BY <1>1, <1>7, <2>1, <2>2 DEF RateLimitTypeOK, WaitIsEnough
    <2>4. RateLimitTypeOK'
        BY <1>1, <1>4, <1>5, <2>1, <2>2, <2>3 DEF RateLimitTypeOK, Calls
    <2>5. AnswersSayEnough'
        <3> SUFFICES ASSUME NEW q \in Requests, waited[q].of = "window"
                     PROVE  counter' # None /\ waited[q].left >= counter'.left
            BY <2>1 DEF AnswersSayEnough
        <3>1. /\ call[q].of = "window" /\ waited[q].left = call[q].left
              /\ counter # None /\ call[q].left >= counter.left /\ call[q].left \in Nat
            BY <1>1, <1>3, Bounds DEF AnswersSayEnough, RateLimitTypeOK
        <3> QED BY <2>2, <3>1
    <2> QED BY <2>3, <2>4, <2>5 DEF CounterInv
<1> QED BY <1>6, <1>7

LEMMA CounterStep ==
    ASSUME CounterInv, [RateNext]_rateVars
    PROVE  CounterInv'
<1>1. CASE UNCHANGED rateVars
    BY <1>1 DEF rateVars, CounterInv, RateLimitTypeOK, WaitIsEnough, AnswersSayEnough
<1>2. CASE Restart
    <2>1. RateLimitTypeOK /\ call \in [Requests -> Calls]
        BY DEF CounterInv, RateLimitTypeOK, Calls
    <2>2. /\ EndCounter("lost", call) /\ strays' \in 0..MaxStrays /\ restarts' \in 0..MaxRestarts
          /\ charged' = Young(Window) /\ admitted' = Young(Span)
        BY <1>2, <2>1, RateLimitAssumption DEF Restart, RateLimitTypeOK
    <2> QED BY <2>1, <2>2, HistoriesAreTyped, CounterEnds
<1> QED BY <1>1, <1>2, RequestSteps, RefuseStep, StrayStep, TickStep DEF RateNext

-----------------------------------------------------------------------------
(* Counting over the histories.                                            *)

(* A tick moves a count by one age, and the sum up to it with it.          *)
LEMMA AgeingMovesOn ==
    ASSUME NEW n \in Nat, NEW ages \in [0..n -> Nat], NEW k \in Int, k >= -1, k + 1 <= n
    PROVE  SumFunctionOnSet(Older(ages), 0..(k + 1)) = SumFunctionOnSet(ages, 0..k)
<1> DEFINE Later == {a + 1 : a \in 0..k}
           old == Older(ages)
<1>1. IsFiniteSet(0..k) /\ IsFiniteSet(0..(k + 1)) /\ 0..k \in SUBSET Int
    <2>1. k + 1 \in Int
        OBVIOUS
    <2> QED BY <2>1, AgesAreFinite
<1>2. 0..(k + 1) = Later \cup {0} /\ 0 \notin Later
    <2>1. \A a \in 0..(k + 1) : a # 0 => a - 1 \in 0..k /\ a = (a - 1) + 1
        OBVIOUS
    <2> QED BY <2>1
<1>3. old[0] = 0 /\ \A a \in 0..k : ages[a] \in Nat /\ old[a + 1] = ages[a]
    BY DEF Older
<1> HIDE DEF old
<1>4. SumFunctionOnSet(old, Later) = SumFunctionOnSet(ages, 0..k)
    BY <1>1, <1>3, SumMovedOn
<1>5. IsFiniteSet(Later)
    <2>1. Later \in SUBSET (0..(k + 1))
        BY <1>2
    <2> QED BY <1>1, <2>1, FS_Subset
<1>6. \A b \in Later : old[b] \in Nat
    BY <1>3
<1> HIDE DEF Later
<1>7. SumFunctionOnSet(old, Later \cup {0}) = old[0] + SumFunctionOnSet(old, Later)
    BY <1>2, <1>3, <1>5, <1>6, SumWithOneMore
<1>8. SumFunctionOnSet(ages, 0..k) \in Nat
    BY <1>1, <1>3, SumTakenApart
<1>9. SumFunctionOnSet(old, 0..(k + 1)) = SumFunctionOnSet(ages, 0..k)
    <2>1. SumFunctionOnSet(old, 0..(k + 1)) = SumFunctionOnSet(old, Later \cup {0})
        BY ONLY <1>2
    <2>2. old[0] = 0
        BY <1>3
    <2> QED BY <1>4, <1>7, <1>8, <2>1, <2>2
<1> QED BY <1>9 DEF old

(* A tick drops the oldest age from the sum and no other.                  *)
LEMMA AgeingForgets ==
    ASSUME NEW n \in Nat, NEW ages \in [0..n -> Nat]
    PROVE  /\ SumFunction(ages) = SumFunctionOnSet(ages, 0..n) /\ SumFunction(ages) \in Nat
           /\ SumFunction(Older(ages)) = SumFunctionOnSet(ages, 0..(n - 1))
           /\ SumFunction(Older(ages)) <= SumFunction(ages)
           /\ SumFunctionOnSet(ages, 0..(n - 1)) \in Nat
<1>1. IsFiniteSet(0..n) /\ IsFiniteSet(0..(n - 1)) /\ 0..(n - 1) \in SUBSET (0..n)
    <2>1. n \in Int /\ n - 1 \in Int
        OBVIOUS
    <2> QED BY <2>1, AgesAreFinite
<1>2. SumFunction(ages) = SumFunctionOnSet(ages, 0..n)
    BY DEF SumFunction
<1>3. SumFunction(Older(ages)) = SumFunctionOnSet(Older(ages), 0..n)
    BY DEF SumFunction, Older
<1>4. SumFunctionOnSet(Older(ages), 0..n) = SumFunctionOnSet(ages, 0..(n - 1))
    <2>1. PICK k \in Int : k = n - 1
        OBVIOUS
    <2>2. k >= -1 /\ k + 1 <= n /\ k + 1 = n
        BY <2>1
    <2>3. SumFunctionOnSet(Older(ages), 0..(k + 1)) = SumFunctionOnSet(ages, 0..k)
        BY <2>2, AgeingMovesOn
    <2> QED BY <2>1, <2>2, <2>3
<1>5. SumFunctionOnSet(ages, 0..(n - 1)) <= SumFunctionOnSet(ages, 0..n)
    BY <1>1, SumOfPart
<1>6. /\ SumFunctionOnSet(ages, 0..n) \in Nat
      /\ SumFunctionOnSet(ages, 0..(n - 1)) \in Nat
    BY <1>1, SumTakenApart
<1> QED BY <1>2, <1>3, <1>4, <1>5, <1>6

(* One more today, as far as the history tells.                            *)
LEMMA OneMoreCounts ==
    ASSUME NEW n \in Nat, NEW many \in Nat, NEW ages, ages \in [0..n -> 0..many],
           NEW S, S \in SUBSET (0..n)
    PROVE  /\ SumFunctionOnSet(ages, S) \in Nat /\ SumFunctionOnSet(OneMore(ages, many), S) \in Nat
           /\ SumFunctionOnSet(OneMore(ages, many), S) <= SumFunctionOnSet(ages, S) + 1
           /\ 0 \in S => \/ SumFunctionOnSet(OneMore(ages, many), S) = SumFunctionOnSet(ages, S) + 1
                         \/ SumFunctionOnSet(OneMore(ages, many), S) >= many
<1> DEFINE more == OneMore(ages, many)
<1>1. IsFiniteSet(S)
    <2>1. n \in Int
        OBVIOUS
    <2>2. IsFiniteSet(0..n)
        BY <2>1, AgesAreFinite
    <2> QED BY <2>2, FS_Subset
<1>2. /\ ages[0] \in 0..many /\ more[0] = Lesser(ages[0] + 1, many)
      /\ \A a \in S \ {0} : ages[a] \in Nat /\ more[a] = ages[a]
    BY DEF OneMore
<1>3. more[0] \in Nat /\ (more[0] = ages[0] + 1 \/ (more[0] = many /\ more[0] <= ages[0] + 1))
    BY <1>2 DEF Lesser
<1>4. \A a \in S : ages[a] \in Nat /\ more[a] \in Nat
    BY <1>2, <1>3
<1> HIDE DEF more
<1>5. SumFunctionOnSet(ages, S) \in Nat /\ SumFunctionOnSet(more, S) \in Nat
    BY <1>1, <1>4, SumTakenApart
<1>6. CASE 0 \in S
    <2>1. PICK z \in S : z = 0
        BY <1>6
    <2>2. \A a \in S : a # z => more[a] = ages[a]
        BY <1>2, <2>1
    <2> PICK rest \in Nat : /\ SumFunctionOnSet(ages, S) = ages[z] + rest
                            /\ SumFunctionOnSet(more, S) = more[z] + rest
        BY ONLY <1>1, <1>4, <2>2, SumWithChange
    <2>3. ages[0] \in Nat /\ many \in Nat
        BY <1>2
    <2>4. /\ SumFunctionOnSet(more, S) <= SumFunctionOnSet(ages, S) + 1
          /\ \/ SumFunctionOnSet(more, S) = SumFunctionOnSet(ages, S) + 1
             \/ SumFunctionOnSet(more, S) >= many
        BY <1>3, <2>1, <2>3
    <2> QED BY <1>5, <2>4 DEF more
<1>7. CASE 0 \notin S
    <2>1. SumFunctionOnSet(ages, S) = SumFunctionOnSet(more, S)
        <3>1. \A a \in S : ages[a] \in Nat /\ ages[a] = more[a]
            BY <1>2, <1>7
        <3> QED BY <1>1, <3>1, SumOfEquals
    <2> QED BY <1>5, <1>7, <2>1 DEF more
<1> QED BY <1>6, <1>7

-----------------------------------------------------------------------------
(* How old a call is.                                                      *)

(* The age of a counter, and what the next script makes of it.             *)
LEMMA AgeOfCounter ==
    ASSUME CounterInv
    PROVE  /\ call \in [Requests -> Calls]
           /\ counter # None => Age \in 0..Window /\ counter.hits \in 1..ManyHits
           /\ counter = None => \A q \in Requests : call[q].of # "window"
           /\ Script.hits \in 1..ManyHits /\ (counter = None => Script.hits = 1 /\ Script.left = Window)
           /\ counter # None => /\ Script.left = counter.left
                                /\ Script.hits = Lesser(counter.hits + 1, ManyHits) /\ Script.hits >= 2
<1>1. RateLimitTypeOK /\ AnswersSayEnough
    BY DEF CounterInv
<1>2. Limit \in Nat \ {0} /\ Window \in Nat \ {0} /\ ManyHits = Limit + 1
    BY Bounds DEF ManyHits
<1>3. CASE counter = None
    BY <1>1, <1>2, <1>3 DEF RateLimitTypeOK, AnswersSayEnough, Calls, Script
<1>4. CASE counter # None
    <2>1. counter \in [hits : 1..ManyHits, left : 0..Window]
        BY <1>1, <1>4 DEF RateLimitTypeOK
    <2>2. Age \in 0..Window
        BY <1>2, <2>1 DEF Age
    <2>3. /\ Script.left = counter.left /\ Script.hits = Lesser(counter.hits + 1, ManyHits)
          /\ Script.hits >= 2 /\ Script.hits \in 1..ManyHits
        BY <1>2, <1>4, <2>1 DEF Script, Lesser
    <2> QED BY <1>1, <1>4, <2>1, <2>2, <2>3 DEF RateLimitTypeOK, Calls
<1> QED BY <1>3, <1>4

(* The script leaves the age of the counter, or begins one.                *)
LEMMA AgeAfterScript ==
    ASSUME CounterInv, counter' = Script
    PROVE  /\ counter' # None
           /\ Age' = IF counter = None THEN 0 ELSE Age
           /\ Allowed' = Lesser(Script.hits, Limit)
<1>1. RateLimitTypeOK /\ Window \in Nat
    BY Bounds DEF CounterInv
<1>2. counter' # None
    BY <1>1, ScriptTypes
<1>3. Age' = IF counter = None THEN 0 ELSE Age
    BY <1>1, AgeOfCounter DEF Age
<1> QED BY <1>2, <1>3 DEF Allowed

(* A request without an answer is of no counter.                           *)
LEMMA WithoutAnswer ==
    ASSUME CounterInv, AnswersAreTimed, NEW q \in Requests, NEW record \in Calls,
           record.step # "answered", record.of = "none",
           call' = [call EXCEPT ![q] = record], counter' = counter
    PROVE  AnswersAreTimed' /\ UNCHANGED <<Age, Allowed>>
<1>1. call \in [Requests -> Calls]
    BY AgeOfCounter
<1>2. call'[q] = record /\ \A p \in Requests \ {q} : call'[p] = call[p]
    BY <1>1
<1>3. UNCHANGED <<Age, Allowed>>
    BY DEF Age, Allowed
<1> QED BY <1>2, <1>3 DEF AnswersAreTimed

(* A script answers nobody, or a call that begins with it.                 *)
LEMMA ScriptIsTimed ==
    ASSUME CounterInv, AnswersAreTimed, counter' = Script,
           call' = call \/ \E q \in Requests : Answer(q)
    PROVE  AnswersAreTimed'
<1>1. call \in [Requests -> Calls]
    BY AgeOfCounter
<1>2. Age' = IF counter = None THEN 0 ELSE Age
    BY AgeAfterScript
<1>3. ASSUME NEW p \in Requests, call'[p] = call[p]
      PROVE  /\ call'[p].step = "answered" <=> call'[p].of # "none"
             /\ call'[p].of # "none" => call'[p].hits >= 1
             /\ call'[p].of = "gone" => call'[p].wait >= 1 /\ call'[p].wait > Age'
             /\ call'[p].of = "lost" => call'[p].wait >= Age'
             /\ call'[p].of = "window" /\ call'[p].hits = 1 => call'[p].wait >= Age'
    <2>1. call[p] \in Calls /\ call[p].wait >= 0
        BY <1>1 DEF Calls
    <2>2. CASE counter = None
        <3>1. Age' = 0 /\ call[p].of # "window"
            BY <1>2, <2>2, AgeOfCounter
        <3> QED BY <1>3, <2>1, <3>1 DEF AnswersAreTimed, Calls
    <2>3. CASE counter # None
        BY <1>2, <1>3, <2>3 DEF AnswersAreTimed
    <2> QED BY <2>2, <2>3
<1>4. ASSUME NEW q \in Requests, Answer(q)
      PROVE  /\ \A p \in Requests \ {q} : call'[p] = call[p]
             /\ call'[q].step = "answered" /\ call'[q].of = "window" /\ call'[q].hits >= 1
             /\ call'[q].hits = 1 => call'[q].wait >= Age'
    <2>1. call'[q] = [call[q] EXCEPT !.step = "answered", !.of = "window",
                                     !.hits = Script.hits, !.left = Script.left]
          /\ \A p \in Requests \ {q} : call'[p] = call[p]
        BY <1>1, <1>4 DEF Answer
    <2>2. call[q] \in Calls /\ call[q].wait \in Nat
        BY <1>1, Bounds DEF Calls
    <2>3. /\ call'[q].step = "answered" /\ call'[q].of = "window"
          /\ call'[q].hits = Script.hits /\ call'[q].wait = call[q].wait
        BY <2>1, <2>2 DEF Calls
    <2>4. Script.hits >= 1 /\ (Script.hits = 1 => Age' = 0)
        BY <1>2, AgeOfCounter
    <2> QED BY <2>1, <2>2, <2>3, <2>4
<1>5. CASE call' = call
    BY <1>3, <1>5 DEF AnswersAreTimed
<1>6. CASE \E q \in Requests : Answer(q)
    <2>1. PICK q \in Requests : Answer(q)
        BY <1>6
    <2>2. \A p \in Requests : call'[p] = call[p] \/ p = q
        BY <2>1, <1>4
    <2> QED BY <1>3, <1>4, <2>1, <2>2 DEF AnswersAreTimed
<1> QED BY <1>5, <1>6

(* What a tick does to a call.                                             *)
Waited == [q \in Requests |-> IF call[q].step = "idle" THEN Idle
                              ELSE [call[q] EXCEPT !.wait = @ + 1]]

LEMMA CallsWait ==
    ASSUME CounterInv, AnswersAreTimed, Tick, NEW q \in Requests
    PROVE  /\ Waited[q] \in Calls /\ Waited[q].of = call[q].of
           /\ call[q].of # "none" => /\ Waited[q].hits = call[q].hits
                                     /\ Waited[q].wait = call[q].wait + 1
                                     /\ call[q].wait \in Nat /\ call[q].wait < Patience
           /\ Waited[q].step = "answered" <=> call[q].step = "answered"
<1>1. call[q] \in Calls /\ call[q].wait < Patience /\ Patience \in Nat
    BY AgeOfCounter, Bounds DEF Tick
<1>2. CASE call[q].step = "idle"
    <2>1. call[q].of = "none"
        BY <1>2 DEF AnswersAreTimed
    <2>2. Idle \in Calls /\ Idle.of = "none" /\ Idle.step = "idle"
        BY Bounds DEF Idle, Calls
    <2>3. Waited[q] = Idle
        BY <1>2 DEF Waited
    <2> QED BY <1>2, <2>1, <2>2, <2>3
<1>3. CASE call[q].step # "idle"
    <2>1. call[q].wait \in Nat /\ call[q].wait + 1 \in 0..Patience
        BY <1>1 DEF Calls
    <2>2. Waited[q] = [call[q] EXCEPT !.wait = call[q].wait + 1]
        BY <1>3 DEF Waited
    <2> QED BY <1>1, <2>1, <2>2 DEF Calls
<1> QED BY <1>2, <1>3

(* The two ways that a tick goes.                                          *)
LEMMA TickEndsCounter ==
    ASSUME CounterInv, Tick, counter # None, counter.left = 0
    PROVE  EndCounter("gone", Waited) /\ Age = Window
BY Bounds DEF Tick, Waited, Age

(* A tick that does not end the counter.                                   *)
LEMMA TickOnly ==
    ASSUME CounterInv, Tick, ~(counter # None /\ counter.left = 0)
    PROVE  /\ call' = Waited /\ UNCHANGED <<doubled, Allowed>>
           /\ counter = None <=> counter' = None
           /\ counter # None => Age' = Age + 1 /\ Age < Window /\ counter'.hits = counter.hits
<1>1. /\ call' = Waited /\ UNCHANGED doubled
      /\ counter' = IF counter = None THEN None ELSE [counter EXCEPT !.left = @ - 1]
    BY DEF Tick, Waited
<1>2. CASE counter = None
    BY <1>1, <1>2 DEF Allowed
<1>3. CASE counter # None
    <2>1. counter \in [hits : 1..ManyHits, left : 0..Window] /\ counter.left # 0 /\ Window \in Nat
        BY <1>3, Bounds DEF CounterInv, RateLimitTypeOK
    <2>2. counter' = [counter EXCEPT !.left = counter.left - 1]
        BY <1>1, <1>3
    <2>3. counter'.hits = counter.hits /\ counter'.left = counter.left - 1
        BY <2>1, <2>2
    <2>4. counter' # None
        <3>1. counter' \in [hits : Nat, left : Nat]
            BY <2>1, <2>2, Bounds
        <3> QED BY <3>1, RateLimitAssumption
    <2>5. Age' = Age + 1 /\ Age < Window
        BY <2>1, <2>3 DEF Age
    <2> QED BY <1>1, <1>3, <2>3, <2>4, <2>5 DEF Allowed
<1> QED BY <1>2, <1>3

(* A tick makes the counter and every call under way older alike.          *)
LEMMA TickIsTimed ==
    ASSUME CounterInv, AnswersAreTimed, Tick
    PROVE  AnswersAreTimed'
<1>1. CASE counter # None /\ counter.left = 0
    <2>1. /\ counter' = None
          /\ call' = [q \in Requests |-> IF Waited[q].of = "none" THEN Waited[q]
                                         ELSE [Waited[q] EXCEPT !.of = "gone"]]
        BY <1>1, TickEndsCounter DEF EndCounter
    <2>2. ASSUME NEW q \in Requests
          PROVE  /\ call'[q].step = "answered" <=> call'[q].of # "none"
                 /\ call'[q].of # "none" => call'[q].hits >= 1
                 /\ call'[q].of = "gone" => call'[q].wait >= 1
        <3>1. CASE Waited[q].of = "none"
            BY <2>1, <3>1, CallsWait DEF AnswersAreTimed
        <3>2. CASE Waited[q].of # "none"
            <4>1. call'[q] = [Waited[q] EXCEPT !.of = "gone"] /\ Waited[q] \in Calls
                BY <2>1, <3>2, CallsWait
            <4>2. /\ call'[q].of = "gone" /\ call'[q].hits = Waited[q].hits
                  /\ call'[q].wait = Waited[q].wait /\ call'[q].step = Waited[q].step
                BY <4>1 DEF Calls
            <4> QED BY <3>2, <4>2, CallsWait DEF AnswersAreTimed
        <3> QED BY <3>1, <3>2
    <2> QED BY <2>1, <2>2 DEF AnswersAreTimed
<1>2. CASE ~(counter # None /\ counter.left = 0)
    <2>1. ASSUME NEW q \in Requests
          PROVE  /\ Waited[q].step = "answered" <=> Waited[q].of # "none"
                 /\ Waited[q].of # "none" => Waited[q].hits >= 1
                 /\ Waited[q].of = "gone" => Waited[q].wait >= 1
                 /\ counter # None =>
                       /\ Waited[q].of = "gone" => Waited[q].wait > Age + 1
                       /\ Waited[q].of = "lost" => Waited[q].wait >= Age + 1
                       /\ Waited[q].of = "window" /\ Waited[q].hits = 1 => Waited[q].wait >= Age + 1
        <3>1. counter # None => Age \in Int
            BY AgeOfCounter
        <3> QED BY <3>1, CallsWait DEF AnswersAreTimed
    <2> QED BY <1>2, <2>1, TickOnly DEF AnswersAreTimed
<1> QED BY <1>1, <1>2

(* Redis restarts: every answer on its way is of a lost counter.           *)
LEMMA RestartIsTimed ==
    ASSUME CounterInv, AnswersAreTimed, Restart
    PROVE  AnswersAreTimed' /\ \A q \in Requests : call'[q].of \in {"none", "lost"}
<1>1. /\ counter' = None /\ call \in [Requests -> Calls]
      /\ call' = [q \in Requests |-> IF call[q].of = "none" THEN call[q]
                                     ELSE [call[q] EXCEPT !.of = "lost"]]
    BY AgeOfCounter DEF Restart, EndCounter
<1>2. ASSUME NEW q \in Requests
      PROVE  /\ call'[q].step = "answered" <=> call'[q].of # "none"
             /\ call'[q].of # "none" => call'[q].hits >= 1
             /\ call'[q].of \in {"none", "lost"}
    <2>1. CASE call[q].of = "none"
        BY <1>1, <2>1 DEF AnswersAreTimed
    <2>2. CASE call[q].of # "none"
        <3>1. call[q] \in Calls /\ call'[q] = [call[q] EXCEPT !.of = "lost"]
            BY <1>1, <2>2
        <3>2. /\ call'[q].of = "lost" /\ call'[q].hits = call[q].hits
              /\ call'[q].step = call[q].step
            BY <3>1 DEF Calls
        <3> QED BY <2>2, <3>2 DEF AnswersAreTimed
    <2> QED BY <2>1, <2>2
<1> QED BY <1>1, <1>2 DEF AnswersAreTimed

-----------------------------------------------------------------------------
(* A refusal is earned.                                                    *)

(* Charges up to an age are some of all the charges.                       *)
LEMMA ChargesOfAges ==
    ASSUME CounterInv, NEW k \in Int, k <= Window
    PROVE  /\ IsFiniteSet(0..k) /\ 0..k \in SUBSET (0..Window)
           /\ SumFunctionOnSet(charged, 0..k) \in Nat
           /\ SumFunctionOnSet(charged, 0..k) <= SumFunction(charged)
<1>1. charged \in [0..Window -> 0..ManyHits] /\ Window \in Nat /\ ManyHits \in Nat
    BY HistoriesAreTyped, Bounds DEF CounterInv
<1>2. IsFiniteSet(0..k) /\ IsFiniteSet(0..Window) /\ 0..k \in SUBSET (0..Window)
    BY <1>1, AgesAreFinite
<1>3. \A a \in 0..Window : charged[a] \in Nat
    BY <1>1
<1>4. SumFunctionOnSet(charged, 0..k) \in Nat
    BY <1>2, <1>3, SumTakenApart
<1>5. SumFunctionOnSet(charged, 0..k) <= SumFunctionOnSet(charged, 0..Window)
    BY <1>2, <1>3, SumOfPart
<1>6. SumFunction(charged) = SumFunctionOnSet(charged, 0..Window)
    BY <1>1 DEF SumFunction
<1> QED BY <1>2, <1>4, <1>5, <1>6

(* A script that is charged counts no more hits than charges.              *)
LEMMA ScriptIsCharged ==
    ASSUME CounterInv, ChargesAddUp, counter' = Script, UNCHANGED doubled,
           charged' = OneMore(charged, ManyHits)
    PROVE  ChargesAddUp'
<1> SUFFICES ASSUME ~doubled PROVE counter'.hits <= SumFunctionOnSet(charged', 0..(Age'))
    BY DEF ChargesAddUp
<1>1. Age' \in 0..Window /\ Age' = IF counter = None THEN 0 ELSE Age
    BY AgeOfCounter, AgeAfterScript, Bounds
<1>2. PICK k \in Int : k = Age' /\ 0 <= k /\ k <= Window
    BY <1>1, Bounds
<1>3. charged \in [0..Window -> 0..ManyHits] /\ ManyHits \in Nat /\ Window \in Nat
    BY HistoriesAreTyped, Bounds DEF CounterInv
<1>4. 0 \in 0..k /\ 0..k \in SUBSET (0..Window) /\ SumFunctionOnSet(charged, 0..k) \in Nat
    BY <1>2, ChargesOfAges
<1>5. \/ SumFunctionOnSet(charged', 0..k) = SumFunctionOnSet(charged, 0..k) + 1
      \/ SumFunctionOnSet(charged', 0..k) >= ManyHits
    BY <1>3, <1>4, OneMoreCounts
<1>6. SumFunctionOnSet(charged', 0..k) \in Nat
    BY <1>3, <1>4, OneMoreCounts
<1>7. counter'.hits = Script.hits /\ Script.hits \in 1..ManyHits
    BY AgeOfCounter
<1>8. Script.hits <= SumFunctionOnSet(charged, 0..k) + 1
    <2>1. CASE counter = None
        BY <1>4, <2>1, AgeOfCounter
    <2>2. CASE counter # None
        <3>1. counter.hits <= SumFunctionOnSet(charged, 0..k)
            BY <1>1, <1>2, <2>2 DEF ChargesAddUp
        <3>2. Script.hits <= counter.hits + 1 /\ counter.hits \in Nat
            BY <1>3, <2>2, AgeOfCounter DEF Lesser
        <3> QED BY <1>4, <1>7, <3>1, <3>2
    <2> QED BY <2>1, <2>2
<1> QED BY <1>2, <1>3, <1>4, <1>5, <1>6, <1>7, <1>8

(* A tick moves the charges and the counter's beginning on together.       *)
LEMMA TickIsCharged ==
    ASSUME CounterInv, ChargesAddUp, Tick
    PROVE  ChargesAddUp'
<1>1. CASE counter # None /\ counter.left = 0
    BY <1>1, TickEndsCounter DEF EndCounter, ChargesAddUp
<1>2. CASE ~(counter # None /\ counter.left = 0)
    <2> SUFFICES ASSUME counter # None, ~doubled
                 PROVE  counter.hits <= SumFunctionOnSet(Older(charged), 0..(Age + 1))
        BY <1>2, TickOnly DEF ChargesAddUp, Tick
    <2>1. Window \in Nat /\ charged \in [0..Window -> 0..ManyHits] /\ ManyHits \in Nat
        BY HistoriesAreTyped, Bounds DEF CounterInv
    <2>2. charged \in [0..Window -> Nat]
        BY <2>1
    <2>3. Age \in Int /\ Age >= -1 /\ Age + 1 <= Window
        BY <1>2, <2>1, TickOnly, AgeOfCounter
    <2>4. SumFunctionOnSet(Older(charged), 0..(Age + 1)) = SumFunctionOnSet(charged, 0..Age)
        BY <2>1, <2>2, <2>3, AgeingMovesOn
    <2> QED BY <2>4 DEF ChargesAddUp
<1> QED BY <1>1, <1>2

(* Every step keeps the hits of a counter charged.                         *)
LEMMA ChargesStep ==
    ASSUME CounterInv, ChargesAddUp, [RateNext]_rateVars
    PROVE  ChargesAddUp'
<1>1. CASE UNCHANGED <<counter, doubled, charged>>
    BY <1>1 DEF ChargesAddUp, Age
<1>2. ASSUME NEW q \in Requests, Resend(q) PROVE ChargesAddUp'
    BY <1>2 DEF Resend, ChargesAddUp
<1>3. ASSUME NEW q \in Requests, Execute(q) PROVE ChargesAddUp'
    BY <1>3, ScriptIsCharged DEF Execute, Answer
<1>4. CASE RunStray
    BY <1>4, ScriptIsCharged DEF RunStray
<1>5. CASE Restart
    BY <1>5 DEF Restart, EndCounter, ChargesAddUp
<1>6. ASSUME NEW q \in Requests, Arrive(q) \/ FailOpen(q) \/ Admit(q) \/ Refuse(q)
      PROVE  UNCHANGED <<counter, doubled, charged>>
    BY <1>6 DEF Arrive, FailOpen, Admit, Refuse
<1>7. CASE UNCHANGED rateVars
    BY <1>1, <1>7 DEF rateVars
<1> QED BY <1>1, <1>2, <1>3, <1>4, <1>5, <1>6, <1>7, TickIsCharged DEF RateNext

-----------------------------------------------------------------------------
(* Admissions are bounded.                                                 *)

(* Answers that will let a request through, and those of them that are of  *)
(* the present counter and not its first hit.                              *)
AnyComing == Coming({"gone", "window"}, 1)
OwnComing == Coming({"window"}, 2)

(* Admissions of the last k + 1 ticks.                                     *)
Lately(k) == SumFunctionOnSet(admitted, 0..k)

(* The invariant of admissions in the names above.                         *)
LEMMA AdmissionsCounted ==
    /\ AdmissionsAddUp <=>
          /\ SumFunction(admitted) + Cardinality(AnyComing) < Limit + Allowed
          /\ counter # None => Lately(Age - Patience - 1) + Cardinality(OwnComing) < Allowed
    /\ AdmissionsAddUp' <=>
          /\ SumFunction(admitted') + Cardinality(AnyComing') < Limit + Allowed'
          /\ counter' # None =>
                SumFunctionOnSet(admitted', 0..(Age' - Patience - 1)) + Cardinality(OwnComing') < Allowed'
BY DEF AdmissionsAddUp, AnyComing, OwnComing, Lately

(* Answers on their way are no more than there are requests.               *)
LEMMA ComingIsFinite ==
    /\ AnyComing \in SUBSET Requests /\ AnyComing' \in SUBSET Requests
    /\ OwnComing \in SUBSET Requests /\ OwnComing' \in SUBSET Requests
    /\ \A C \in SUBSET Requests : IsFiniteSet(C) /\ Cardinality(C) \in Nat
<1>1. \A C \in SUBSET Requests : IsFiniteSet(C) /\ Cardinality(C) \in Nat
    <2> TAKE C \in SUBSET Requests
    <2>1. IsFiniteSet(C)
        BY RateLimitAssumption, FS_Subset
    <2> QED BY <2>1, FS_CardinalityType
<1> QED BY <1>1 DEF AnyComing, OwnComing, Coming

(* Fewer requests, one more at most, one less at least.                    *)
LEMMA FewerRequests ==
    ASSUME NEW C \in SUBSET Requests, NEW D \in SUBSET Requests, NEW q
    PROVE  /\ C \subseteq D => Cardinality(C) <= Cardinality(D)
           /\ C \subseteq D \cup {q} => Cardinality(C) <= Cardinality(D) + 1
           /\ C \subseteq D \ {q} /\ q \in D => Cardinality(C) + 1 <= Cardinality(D)
<1>1. /\ IsFiniteSet(C) /\ IsFiniteSet(D)
      /\ Cardinality(C) \in Nat /\ Cardinality(D) \in Nat
    BY ComingIsFinite
<1>2. /\ IsFiniteSet(D \cup {q}) /\ Cardinality(D \cup {q}) \in Nat
      /\ Cardinality(D \cup {q}) <= Cardinality(D) + 1
    <2>1. /\ IsFiniteSet(D \cup {q})
          /\ Cardinality(D \cup {q}) = IF q \in D THEN Cardinality(D) ELSE Cardinality(D) + 1
        BY <1>1, FS_AddElement
    <2> QED BY <1>1, <2>1
<1>3. q \in D => /\ IsFiniteSet(D \ {q}) /\ Cardinality(D \ {q}) \in Nat
                 /\ Cardinality(D \ {q}) + 1 = Cardinality(D)
    <2>1. /\ IsFiniteSet(D \ {q})
          /\ Cardinality(D \ {q}) = IF q \in D THEN Cardinality(D) - 1 ELSE Cardinality(D)
        BY <1>1, FS_RemoveElement
    <2>2. Cardinality(D \ {q}) \in Nat
        BY <2>1, FS_CardinalityType
    <2> QED BY <1>1, <2>1, <2>2
<1>4. C \subseteq D => Cardinality(C) <= Cardinality(D)
    BY <1>1, FS_Subset
<1>5. C \subseteq D \cup {q} => Cardinality(C) <= Cardinality(D) + 1
    <2>1. C \subseteq D \cup {q} => Cardinality(C) <= Cardinality(D \cup {q})
        BY <1>2, FS_Subset
    <2> QED BY <1>1, <1>2, <2>1
<1>6. C \subseteq D \ {q} /\ q \in D => Cardinality(C) + 1 <= Cardinality(D)
    <2>1. C \subseteq D \ {q} /\ q \in D => Cardinality(C) <= Cardinality(D \ {q})
        BY <1>3, FS_Subset
    <2> QED BY <1>1, <1>3, <2>1
<1> QED BY <1>4, <1>5, <1>6

(* Admissions are natural numbers, of any span of ages.                    *)
LEMMA AdmittedCounts ==
    ASSUME CounterInv
    PROVE  /\ admitted \in [0..Span -> 0..ManyAdmitted] /\ admitted \in [0..Span -> Nat]
           /\ SumFunction(admitted) \in Nat
           /\ \A k \in Int : k <= Span => 0..k \in SUBSET (0..Span) /\ Lately(k) \in Nat
           /\ \A k \in Int : k < 0 => Lately(k) = 0
<1>1. admitted \in [0..Span -> 0..ManyAdmitted] /\ Span \in Nat /\ ManyAdmitted \in Nat
    BY HistoriesAreTyped, Bounds DEF CounterInv
<1>2. \A a \in 0..Span : admitted[a] \in Nat
    BY <1>1
<1>3. admitted \in [0..Span -> Nat]
    BY <1>1
<1>4. SumFunction(admitted) \in Nat
    BY <1>1, <1>3, AgeingForgets
<1>5. ASSUME NEW k \in Int, k <= Span
      PROVE  0..k \in SUBSET (0..Span) /\ Lately(k) \in Nat
    <2>1. IsFiniteSet(0..k) /\ 0..k \in SUBSET (0..Span)
        BY <1>1, <1>5, AgesAreFinite
    <2>2. \A a \in 0..k : admitted[a] \in Nat
        BY <1>2, <2>1
    <2>3. SumFunctionOnSet(admitted, 0..k) \in Nat
        BY <2>1, <2>2, SumTakenApart
    <2> QED BY <2>1, <2>3 DEF Lately
<1>6. ASSUME NEW k \in Int, k < 0
      PROVE  Lately(k) = 0
    <2>1. 0..k = {}
        BY <1>6
    <2> QED BY <2>1, SumOfNothing DEF Lately
<1> QED BY <1>1, <1>3, <1>4, <1>5, <1>6

(* An answer is read, lost, or has not come: nothing new is coming.        *)
LEMMA ForgottenAddsUp ==
    ASSUME CounterInv, AdmissionsAddUp, NEW q \in Requests, NEW record \in Calls,
           record.of = "none", call' = [call EXCEPT ![q] = record],
           counter' = counter, admitted' = admitted
    PROVE  AdmissionsAddUp'
<1>1. call'[q].of = "none" /\ \A p \in Requests \ {q} : call'[p] = call[p]
    BY AgeOfCounter
<1>2. AnyComing' \subseteq AnyComing /\ OwnComing' \subseteq OwnComing
    BY <1>1 DEF AnyComing, OwnComing, Coming
<1>3. /\ Cardinality(AnyComing') <= Cardinality(AnyComing)
      /\ Cardinality(OwnComing') <= Cardinality(OwnComing)
      /\ Cardinality(AnyComing') \in Nat /\ Cardinality(AnyComing) \in Nat
      /\ Cardinality(OwnComing') \in Nat /\ Cardinality(OwnComing) \in Nat
    BY <1>2, ComingIsFinite, FewerRequests
<1>4. UNCHANGED <<Age, Allowed>>
    BY DEF Age, Allowed
<1>5. Limit \in Nat /\ Allowed \in Nat /\ SumFunction(admitted) \in Nat
    BY Bounds, AgeOfCounter, AdmittedCounts DEF Allowed, Lesser
<1>6. counter # None => Lately(Age - Patience - 1) \in Nat
    BY Bounds, AgeOfCounter, AdmittedCounts DEF Span
<1>7. counter # None =>
        SumFunctionOnSet(admitted', 0..(Age' - Patience - 1)) = Lately(Age - Patience - 1)
    BY <1>4 DEF Lately
<1> QED BY <1>3, <1>4, <1>5, <1>6, <1>7, AdmissionsCounted

(* A request is let through: it was coming, and now it is admitted.        *)
LEMMA AdmissionAddsUp ==
    ASSUME CounterInv, AnswersAreTimed, AdmissionsAddUp, NEW q \in Requests, Admit(q)
    PROVE  AdmissionsAddUp'
<1>1. /\ call' = [call EXCEPT ![q] = Idle] /\ counter' = counter
      /\ admitted' = IF call[q].of = "lost" THEN admitted ELSE OneMore(admitted, ManyAdmitted)
      /\ call[q].step = "answered" /\ call[q].hits <= Limit
    <2>1. call[q].hits \in Nat /\ Limit \in Nat
        BY AgeOfCounter, Bounds DEF Calls
    <2>2. ~(call[q].hits > Limit)
        BY DEF Admit, OverLimit
    <2>3. call[q].hits <= Limit
        BY <2>1, <2>2
    <2> QED BY <2>3 DEF Admit
<1>2. Idle \in Calls /\ Idle.of = "none"
    BY Bounds DEF Idle, Calls
<1>3. CASE call[q].of = "lost"
    BY <1>1, <1>2, <1>3, ForgottenAddsUp
<1>4. CASE call[q].of # "lost"
    <2>1. call[q] \in Calls /\ call[q].of \in {"gone", "window"} /\ call[q].hits \in 1..Limit
        BY <1>1, <1>4, AgeOfCounter, Bounds DEF AnswersAreTimed, Calls
    <2>2. q \in AnyComing /\ AnyComing' \subseteq AnyComing \ {q} /\ OwnComing' \subseteq OwnComing \ {q}
        <3>1. call'[q].of = "none" /\ \A p \in Requests \ {q} : call'[p] = call[p]
            BY <1>1, <1>2, AgeOfCounter
        <3> QED BY <2>1, <3>1 DEF AnyComing, OwnComing, Coming
    <2>3. /\ Cardinality(AnyComing') + 1 <= Cardinality(AnyComing)
          /\ Cardinality(AnyComing') \in Nat /\ Cardinality(AnyComing) \in Nat
          /\ Cardinality(OwnComing') \in Nat /\ Cardinality(OwnComing) \in Nat
        BY <2>2, ComingIsFinite, FewerRequests
    <2>4. admitted' = OneMore(admitted, ManyAdmitted)
        BY <1>1, <1>4
    <2>5. Span \in Nat /\ ManyAdmitted \in Nat /\ Limit \in Nat /\ Patience \in Nat
        BY Bounds
    <2>6. SumFunction(admitted') <= SumFunction(admitted) + 1 /\ SumFunction(admitted') \in Nat
        <3>1. /\ SumFunctionOnSet(admitted', 0..Span) <= SumFunctionOnSet(admitted, 0..Span) + 1
              /\ SumFunctionOnSet(admitted', 0..Span) \in Nat
            BY <2>4, <2>5, AdmittedCounts, OneMoreCounts
        <3>2. /\ SumFunction(admitted) = SumFunctionOnSet(admitted, 0..Span)
              /\ SumFunction(admitted') = SumFunctionOnSet(admitted', 0..Span)
            BY <2>4, AdmittedCounts DEF SumFunction, OneMore
        <3> QED BY <3>1, <3>2
    <2>7. UNCHANGED <<Age, Allowed>> /\ Allowed \in Nat /\ SumFunction(admitted) \in Nat
        BY <1>1, <2>5, AgeOfCounter, AdmittedCounts DEF Age, Allowed, Lesser
    <2>8. SumFunction(admitted') + Cardinality(AnyComing') < Limit + Allowed'
        BY <2>3, <2>5, <2>6, <2>7, AdmissionsCounted
    <2>9. ASSUME counter # None
          PROVE  SumFunctionOnSet(admitted', 0..(Age' - Patience - 1)) + Cardinality(OwnComing') < Allowed'
        <3>1. Age \in 0..Window /\ Patience \in Nat /\ Window \in Nat
            BY <2>9, AgeOfCounter, Bounds
        <3>2. PICK k \in Int : k = Age - Patience - 1 /\ k <= Span
            BY <3>1 DEF Span
        <3>3. Lately(k) + Cardinality(OwnComing) < Allowed /\ Lately(k) \in Nat
            BY <2>9, <3>2, AdmissionsCounted, AdmittedCounts
        <3>4. CASE k < 0
            <4>1. 0..k = {}
                BY <3>4
            <4>2. SumFunctionOnSet(admitted', 0..k) = 0 /\ Lately(k) = 0
                BY <4>1, SumOfNothing DEF Lately
            <4>3. Cardinality(OwnComing') <= Cardinality(OwnComing)
                BY <2>2, ComingIsFinite, FewerRequests
            <4> QED BY <2>3, <2>7, <3>2, <3>3, <4>2, <4>3
        <3>5. CASE k >= 0
            <4>1. call[q].wait <= Patience /\ call[q].wait \in Nat /\ Age > Patience
                BY <2>1, <3>1, <3>2, <3>5 DEF Calls
            <4>2. call[q].of = "window" /\ call[q].hits # 1
                BY <2>1, <2>9, <3>1, <4>1 DEF AnswersAreTimed
            <4>3. q \in OwnComing
                BY <2>1, <4>2 DEF OwnComing, Coming
            <4>4. Cardinality(OwnComing') + 1 <= Cardinality(OwnComing)
                BY <2>2, <4>3, ComingIsFinite, FewerRequests
            <4>5. /\ SumFunctionOnSet(admitted', 0..k) <= SumFunctionOnSet(admitted, 0..k) + 1
                  /\ SumFunctionOnSet(admitted', 0..k) \in Nat
                <5>1. 0..k \in SUBSET (0..Span)
                    BY <3>2, AdmittedCounts
                <5> QED BY <2>4, <2>5, <5>1, AdmittedCounts, OneMoreCounts
            <4> QED BY <2>3, <2>7, <3>2, <3>3, <4>4, <4>5 DEF Lately
        <3> QED BY <3>4, <3>5
    <2> QED BY <1>1, <2>8, <2>9, AdmissionsCounted
<1> QED BY <1>3, <1>4

(* The script runs, for a request that is waiting or for none.             *)
LEMMA ScriptAddsUp ==
    ASSUME CounterInv, AdmissionsAddUp, counter' = Script, admitted' = admitted,
           call' = call \/ \E q \in Requests : Answer(q)
    PROVE  AdmissionsAddUp'
<1>1. /\ counter' # None /\ Age' = IF counter = None THEN 0 ELSE Age
      /\ Allowed' = Lesser(Script.hits, Limit)
    BY AgeAfterScript
<1>2. Limit \in Nat \ {0} /\ ManyHits = Limit + 1 /\ Script.hits \in 1..ManyHits /\ Patience \in Nat \ {0}
    BY Bounds, AgeOfCounter DEF ManyHits
<1>3. /\ Allowed \in Nat /\ Allowed' \in Nat /\ Allowed <= Allowed'
      /\ Script.hits <= Limit => Allowed' = Allowed + 1
    <2>1. CASE counter = None
        BY <1>1, <1>2, <2>1, AgeOfCounter DEF Allowed, Lesser
    <2>2. CASE counter # None
        <3>1. Script.hits = Lesser(counter.hits + 1, ManyHits) /\ counter.hits \in 1..ManyHits
            BY <2>2, AgeOfCounter
        <3> QED BY <1>1, <1>2, <2>2, <3>1 DEF Allowed, Lesser
    <2> QED BY <2>1, <2>2
<1>4. /\ SumFunction(admitted) \in Nat
      /\ counter # None => Lately(Age - Patience - 1) \in Nat
    BY Bounds, AgeOfCounter, AdmittedCounts DEF Span
<1>5. /\ Cardinality(AnyComing') \in Nat /\ Cardinality(AnyComing) \in Nat
      /\ Cardinality(OwnComing') \in Nat /\ Cardinality(OwnComing) \in Nat
    BY ComingIsFinite
<1>6. /\ Cardinality(AnyComing') + Allowed <= Cardinality(AnyComing) + Allowed'
      /\ counter # None => Cardinality(OwnComing') + Allowed <= Cardinality(OwnComing) + Allowed'
      /\ counter = None => OwnComing' = {}
    <2>1. counter = None => OwnComing = {}
        BY AgeOfCounter DEF OwnComing, Coming
    <2>2. CASE call' = call
        <3>1. AnyComing' = AnyComing /\ OwnComing' = OwnComing
            BY <2>2 DEF AnyComing, OwnComing, Coming
        <3> QED BY <1>3, <1>5, <2>1, <3>1
    <2>3. CASE \E q \in Requests : Answer(q)
        <3>1. PICK q \in Requests : Answer(q)
            BY <2>3
        <3>2. call'[q].hits = Script.hits /\ \A p \in Requests \ {q} : call'[p] = call[p]
            <4>1. call \in [Requests -> Calls] /\ call[q] \in Calls
                BY AgeOfCounter
            <4>2. call' = [call EXCEPT ![q] =
                             [call[q] EXCEPT !.step = "answered", !.of = "window",
                                             !.hits = Script.hits, !.left = Script.left]]
                BY <3>1 DEF Answer
            <4>3. call'[q] = [call[q] EXCEPT !.step = "answered", !.of = "window",
                                             !.hits = Script.hits, !.left = Script.left]
                BY <4>1, <4>2
            <4>4. call'[q].hits = Script.hits
                BY <4>1, <4>3 DEF Calls
            <4> QED BY <4>1, <4>2, <4>4
        <3>3. AnyComing' \subseteq AnyComing \cup {q} /\ OwnComing' \subseteq OwnComing \cup {q}
            BY <3>2 DEF AnyComing, OwnComing, Coming
        <3>4. CASE Script.hits <= Limit
            <4>1. /\ Cardinality(AnyComing') <= Cardinality(AnyComing) + 1
                  /\ Cardinality(OwnComing') <= Cardinality(OwnComing) + 1
                BY <3>3, ComingIsFinite, FewerRequests
            <4>2. counter = None => OwnComing' = {}
                BY <2>1, <3>2, AgeOfCounter DEF OwnComing, Coming
            <4> QED BY <1>3, <1>5, <3>4, <4>1, <4>2
        <3>5. CASE Script.hits > Limit
            <4>1. AnyComing' \subseteq AnyComing /\ OwnComing' \subseteq OwnComing
                BY <1>2, <3>2, <3>5 DEF AnyComing, OwnComing, Coming
            <4>2. /\ Cardinality(AnyComing') <= Cardinality(AnyComing)
                  /\ Cardinality(OwnComing') <= Cardinality(OwnComing)
                BY <4>1, ComingIsFinite, FewerRequests
            <4> QED BY <1>3, <1>5, <2>1, <4>1, <4>2
        <3> QED BY <1>2, <3>4, <3>5
    <2> QED BY <2>2, <2>3
<1>7. SumFunction(admitted') + Cardinality(AnyComing') < Limit + Allowed'
    BY <1>2, <1>3, <1>4, <1>5, <1>6, AdmissionsCounted
<1>8. SumFunctionOnSet(admitted', 0..(Age' - Patience - 1)) + Cardinality(OwnComing') < Allowed'
    <2>1. CASE counter = None
        <3>1. 0..(Age' - Patience - 1) = {} /\ Cardinality(OwnComing') = 0
            <4>1. Age' = 0 /\ OwnComing' = {}
                BY <1>1, <1>6, <2>1
            <4>2. 0..(Age' - Patience - 1) = {}
                BY <1>2, <4>1
            <4> QED BY <4>1, <4>2, FS_EmptySet
        <3>2. SumFunctionOnSet(admitted', 0..(Age' - Patience - 1)) = 0
            BY <3>1, SumOfNothing
        <3>3. Allowed' >= 1
            BY <1>1, <1>2 DEF Lesser
        <3> QED BY <1>3, <3>1, <3>2, <3>3
    <2>2. CASE counter # None
        <3>1. SumFunctionOnSet(admitted', 0..(Age' - Patience - 1)) = Lately(Age - Patience - 1)
            BY <1>1, <2>2 DEF Lately
        <3> QED BY <1>3, <1>4, <1>5, <1>6, <2>2, <3>1, AdmissionsCounted
    <2> QED BY <2>1, <2>2
<1> QED BY <1>7, <1>8, AdmissionsCounted

(* Time passes; a counter that ends leaves what it let through after its   *)
(* first hit, and no older call is left.                                   *)
LEMMA TickAddsUp ==
    ASSUME CounterInv, AnswersAreTimed, AdmissionsAddUp, Tick
    PROVE  AdmissionsAddUp'
<1>1. admitted' = Older(admitted)
    BY DEF Tick
<1>2. /\ SumFunction(admitted) \in Nat /\ Span \in Nat /\ Limit \in Nat \ {0} /\ Patience \in Nat
      /\ Window \in Nat /\ Span = Window - Patience /\ Allowed \in Nat /\ Allowed <= Limit
    BY Bounds, AgeOfCounter, AdmittedCounts DEF Span, Allowed, Lesser
<1>3. /\ SumFunction(admitted') = Lately(Span - 1) /\ SumFunction(admitted') \in Nat
      /\ SumFunction(admitted') <= SumFunction(admitted)
    <2>1. Span - 1 \in Int /\ Span - 1 <= Span
        BY <1>2
    <2>2. Lately(Span - 1) \in Nat
        BY <2>1, AdmittedCounts
    <2> QED BY <1>1, <1>2, <2>2, AdmittedCounts, AgeingForgets DEF Lately
<1>4. /\ Cardinality(AnyComing') \in Nat /\ Cardinality(AnyComing) \in Nat
      /\ Cardinality(OwnComing') \in Nat /\ Cardinality(OwnComing) \in Nat
    BY ComingIsFinite
<1>5. CASE counter # None /\ counter.left = 0
    <2>1. /\ counter' = None /\ Age = Window
          /\ call' = [q \in Requests |-> IF Waited[q].of = "none" THEN Waited[q]
                                         ELSE [Waited[q] EXCEPT !.of = "gone"]]
        BY <1>5, TickEndsCounter DEF EndCounter
    <2>2. AnyComing' \subseteq OwnComing
        <3> SUFFICES ASSUME NEW q \in Requests, q \in AnyComing'
                     PROVE  q \in OwnComing
            BY ComingIsFinite
        <3>1. call'[q].of # "none" /\ call'[q].hits \in 1..Limit
            BY DEF AnyComing, Coming
        <3>2. Waited[q].of # "none" /\ Waited[q] \in Calls
            BY <2>1, <3>1, CallsWait
        <3>3. call'[q].hits = Waited[q].hits
            BY <2>1, <3>2 DEF Calls
        <3>4. /\ call[q].of # "none" /\ call[q].hits \in 1..Limit /\ call[q] \in Calls
              /\ call[q].wait \in Nat /\ call[q].wait < Patience
            BY <3>1, <3>2, <3>3, CallsWait, AgeOfCounter
        <3>5. call[q].wait < Age
            BY <1>2, <2>1, <3>4, RateLimitAssumption
        <3>6. call[q].of = "window" /\ call[q].hits # 1
            BY <1>2, <1>5, <2>1, <3>4, <3>5 DEF AnswersAreTimed, Calls
        <3> QED BY <3>4, <3>6 DEF OwnComing, Coming
    <2>3. Cardinality(AnyComing') <= Cardinality(OwnComing)
        BY <2>2, ComingIsFinite, FewerRequests
    <2>4. Lately(Span - 1) + Cardinality(OwnComing) < Allowed
        <3>1. Age - Patience - 1 = Span - 1
            BY <1>2, <2>1
        <3> QED BY <1>5, <3>1, AdmissionsCounted
    <2>5. Allowed' = 0
        BY <2>1 DEF Allowed
    <2>6. SumFunction(admitted') + Cardinality(AnyComing') < Limit + Allowed'
        BY <1>2, <1>3, <1>4, <2>3, <2>4, <2>5
    <2> QED BY <2>1, <2>6, AdmissionsCounted
<1>6. CASE ~(counter # None /\ counter.left = 0)
    <2>1. AnyComing' = AnyComing /\ OwnComing' = OwnComing
        <3>1. call' = Waited
            BY <1>6, TickOnly
        <3>2. ASSUME NEW q \in Requests
              PROVE  /\ call'[q].of = call[q].of
                     /\ call[q].of # "none" => call'[q].hits = call[q].hits
            BY <3>1, CallsWait
        <3> QED BY <3>2 DEF AnyComing, OwnComing, Coming
    <2>2. Allowed' = Allowed /\ (counter = None <=> counter' = None)
        BY <1>6, TickOnly
    <2>3. SumFunction(admitted') + Cardinality(AnyComing') < Limit + Allowed'
        BY <1>2, <1>3, <1>4, <2>1, <2>2, AdmissionsCounted
    <2>4. ASSUME counter # None
          PROVE  SumFunctionOnSet(admitted', 0..(Age' - Patience - 1)) + Cardinality(OwnComing') < Allowed'
        <3>1. Age \in Nat /\ Age < Window /\ Age' = Age + 1
            BY <1>2, <1>6, <2>4, TickOnly, AgeOfCounter
        <3>2. PICK k \in Int : k = Age - Patience - 1 /\ k + 1 <= Span /\ k <= Span /\ Age' - Patience - 1 = k + 1
            BY <1>2, <3>1
        <3>3. Lately(k) + Cardinality(OwnComing) < Allowed /\ Lately(k) \in Nat
            BY <2>4, <3>2, AdmissionsCounted, AdmittedCounts
        <3>4. CASE k >= -1
            <4>1. SumFunctionOnSet(Older(admitted), 0..(k + 1)) = SumFunctionOnSet(admitted, 0..k)
                BY <1>2, <3>2, <3>4, AdmittedCounts, AgeingMovesOn
            <4> QED BY <1>1, <2>1, <2>2, <3>2, <3>3, <4>1 DEF Lately
        <3>5. CASE k < -1
            <4>1. 0..(Age' - Patience - 1) = {}
                BY <3>2, <3>5
            <4>2. SumFunctionOnSet(admitted', 0..(Age' - Patience - 1)) = 0
                BY <4>1, SumOfNothing
            <4> QED BY <1>2, <1>4, <2>1, <2>2, <3>3, <4>2
        <3> QED BY <3>2, <3>4, <3>5
    <2> QED BY <2>2, <2>3, <2>4, AdmissionsCounted
<1> QED BY <1>5, <1>6

(* The histories begin again.                                              *)
LEMMA NothingAdmitted == SumFunction(Young(Span)) = 0
<1>1. IsFiniteSet(0..Span) /\ \A a \in 0..Span : Young(Span)[a] = 0
    BY Bounds, AgesAreFinite DEF Young
<1>2. SumFunction(Young(Span)) = SumFunctionOnSet(Young(Span), 0..Span)
    BY DEF SumFunction, Young
<1> QED BY <1>1, <1>2, SumOfZeros

(* A history begun again, with no counter and nothing coming.              *)
LEMMA NothingAddsUp ==
    ASSUME CounterInv', counter' = None, admitted' = Young(Span),
           \A q \in Requests : call'[q].of \in {"none", "lost"}
    PROVE  AdmissionsAddUp'
<1>1. AnyComing' = {}
    BY DEF AnyComing, Coming
<1>2. Allowed' = 0 /\ SumFunction(admitted') = 0 /\ Cardinality(AnyComing') = 0
    BY <1>1, NothingAdmitted, FS_EmptySet DEF Allowed
<1> QED BY <1>2, AdmissionsCounted, Bounds

-----------------------------------------------------------------------------

LEMMA RateStarts == RateInit => RateInv
<1> SUFFICES ASSUME RateInit PROVE RateInv
    OBVIOUS
<1>1. CounterInv
    BY CounterStarts
<1>2. counter = None /\ admitted = Young(Span) /\ \A q \in Requests : call[q] = Idle
    BY DEF RateInit
<1>3. AnswersAreTimed
    BY <1>2 DEF AnswersAreTimed, Idle
<1>4. AdmissionsAddUp
    <2>1. AnyComing = {}
        BY <1>2 DEF AnyComing, Coming, Idle
    <2>2. Allowed = 0 /\ SumFunction(admitted) = 0 /\ Cardinality(AnyComing) = 0
        BY <1>2, <2>1, NothingAdmitted, FS_EmptySet DEF Allowed
    <2> QED BY <1>2, <2>2, AdmissionsCounted, Bounds
<1> QED BY <1>1, <1>2, <1>3, <1>4 DEF RateInv, ChargesAddUp

(* Every step keeps the counts.                                            *)
LEMMA RateStep ==
    ASSUME RateInv, [RateNext]_rateVars
    PROVE  RateInv'
<1>1. CounterInv /\ AnswersAreTimed /\ AdmissionsAddUp /\ ChargesAddUp
    BY DEF RateInv
<1>2. CounterInv' /\ ChargesAddUp'
    BY <1>1, CounterStep, ChargesStep
<1>3. ASSUME NEW q \in Requests, Arrive(q) \/ FailOpen(q) \/ Refuse(q)
      PROVE  AnswersAreTimed' /\ AdmissionsAddUp'
    <2>1. counter' = counter /\ admitted' = admitted
        BY <1>3 DEF Arrive, FailOpen, Refuse
    <2>2. PICK record \in Calls : /\ record.step # "answered" /\ record.of = "none"
                                  /\ call' = [call EXCEPT ![q] = record]
        <3>1. Idle \in Calls /\ Idle.step = "idle" /\ Idle.of = "none"
            BY Bounds DEF Idle, Calls
        <3>2. CASE FailOpen(q) \/ Refuse(q)
            BY <3>1, <3>2 DEF FailOpen, Refuse
        <3>3. CASE Arrive(q)
            <4> DEFINE record == [call[q] EXCEPT !.step = "sent"]
            <4>1. call[q] \in Calls /\ call[q].step = "idle" /\ call[q].of = "none"
                BY <1>1, <3>3, AgeOfCounter DEF Arrive, AnswersAreTimed
            <4>2. record \in Calls /\ record.step = "sent" /\ record.of = "none"
                BY <4>1 DEF Calls
            <4>3. call' = [call EXCEPT ![q] = record]
                BY <3>3 DEF Arrive
            <4> QED BY <4>2, <4>3
        <3> QED BY <1>3, <3>2, <3>3
    <2> QED BY <1>1, <2>1, <2>2, WithoutAnswer, ForgottenAddsUp
<1>4. ASSUME NEW q \in Requests, Execute(q) \/ Resend(q)
      PROVE  AnswersAreTimed' /\ AdmissionsAddUp'
    <2>1. Answer(q) /\ counter' = Script /\ admitted' = admitted
        BY <1>4 DEF Execute, Resend, Answer
    <2> QED BY <1>1, <2>1, ScriptIsTimed, ScriptAddsUp
<1>5. ASSUME NEW q \in Requests, Admit(q)
      PROVE  AnswersAreTimed' /\ AdmissionsAddUp'
    <2>1. Idle \in Calls /\ Idle.step = "idle" /\ Idle.of = "none"
        BY Bounds DEF Idle, Calls
    <2>2. call' = [call EXCEPT ![q] = Idle] /\ counter' = counter
        BY <1>5 DEF Admit
    <2> QED BY <1>1, <1>5, <2>1, <2>2, WithoutAnswer, AdmissionAddsUp
<1>6. CASE RunStray
    <2>1. counter' = Script /\ call' = call /\ admitted' = admitted
        BY <1>6 DEF RunStray
    <2> QED BY <1>1, <1>2, <2>1, ScriptIsTimed, ScriptAddsUp DEF RateInv
<1>7. CASE Tick
    BY <1>1, <1>2, <1>7, TickIsTimed, TickAddsUp DEF RateInv
<1>8. CASE Restart
    <2>1. AnswersAreTimed' /\ \A q \in Requests : call'[q].of \in {"none", "lost"}
        BY <1>1, <1>8, RestartIsTimed
    <2>2. counter' = None /\ admitted' = Young(Span)
        BY <1>8 DEF Restart, EndCounter
    <2> QED BY <1>2, <2>1, <2>2, NothingAddsUp DEF RateInv
<1>9. CASE UNCHANGED rateVars
    BY <1>1, <1>2, <1>9
       DEF rateVars, RateInv, AnswersAreTimed, AdmissionsAddUp, Age, Allowed, Coming
<1>10. AnswersAreTimed' /\ AdmissionsAddUp' => RateInv'
    BY <1>2 DEF RateInv
<1> QED BY <1>3, <1>4, <1>5, <1>6, <1>7, <1>8, <1>9, <1>10 DEF RateNext

(* The invariant of a bucket: its counter always carries an expiry of at   *)
(* most a window, what an answer or a refusal says of the time left is at  *)
(* least what is left, and hits and admissions add up, however late an     *)
(* answer comes and whatever is sent again.                                *)
THEOREM RateInvariance == RateSpec => []RateInv
BY RateStarts, RateStep, PTL DEF RateSpec

(* A counter leaves every step with an expiry attached, no longer than the *)
(* window: also when scripts outlive their call or are sent twice.         *)
THEOREM CountersExpire == RateSpec => []RateLimitTypeOK
<1>1. RateInv => RateLimitTypeOK
    BY DEF RateInv, CounterInv
<1> QED BY <1>1, RateInvariance, PTL

(* Whoever waits as Retry-After says is not charged to the counter that    *)
(* refused it.                                                             *)
THEOREM WaitsAreEnough == RateSpec => []WaitIsEnough
<1>1. RateInv => WaitIsEnough
    BY DEF RateInv, CounterInv
<1> QED BY <1>1, RateInvariance, PTL

(* Over any interval as long as the window less the patience of a call,    *)
(* Redis lets through at most one request less than twice the limit: at    *)
(* the boundary of two windows, with answers that come late, scripts that  *)
(* outlive their call and commands that are sent again (ratelimit.go:48).  *)
THEOREM AdmissionsAreBounded == RateSpec => []AdmissionIsBounded
<1>1. RateInv => AdmissionIsBounded
    <2> SUFFICES ASSUME RateInv PROVE SumFunction(admitted) < 2 * Limit
        BY DEF AdmissionIsBounded
    <2>1. CounterInv /\ AdmissionsAddUp
        BY DEF RateInv
    <2>2. /\ Limit \in Nat /\ Allowed \in Nat /\ Allowed <= Limit
          /\ SumFunction(admitted) \in Nat /\ Cardinality(AnyComing) \in Nat
        BY <2>1, Bounds, AgeOfCounter, AdmittedCounts, ComingIsFinite DEF Allowed, Lesser
    <2>3. SumFunction(admitted) + Cardinality(AnyComing) < Limit + Allowed
        BY <2>1, AdmissionsCounted
    <2> QED BY <2>2, <2>3
<1> QED BY <1>1, RateInvariance, PTL

(* A counter that no command was sent twice to holds no more hits than     *)
(* requests were charged in the last window, so a refusal is always for    *)
(* requests of the caller's own.                                           *)
THEOREM RefusalsAreEarned == RateSpec => []RefusalIsEarned
<1>1. RateInv => RefusalIsEarned
    <2> SUFFICES ASSUME RateInv, counter # None, ~doubled
                 PROVE  counter.hits <= SumFunction(charged)
        BY DEF RefusalIsEarned
    <2>1. CounterInv /\ counter.hits <= SumFunctionOnSet(charged, 0..Age)
        BY DEF RateInv, ChargesAddUp
    <2>2. Age \in Int /\ Age <= Window /\ counter.hits \in Nat
        BY <2>1, AgeOfCounter, Bounds
    <2>3. /\ SumFunctionOnSet(charged, 0..Age) \in Nat
          /\ SumFunctionOnSet(charged, 0..Age) <= SumFunction(charged)
        BY <2>1, <2>2, ChargesOfAges
    <2>4. SumFunction(charged) \in Nat
        <3>1. charged \in [0..Window -> 0..ManyHits] /\ Window \in Nat /\ ManyHits \in Nat
            BY <2>1, HistoriesAreTyped, Bounds DEF CounterInv
        <3>2. charged \in [0..Window -> Nat]
            BY <3>1
        <3> QED BY <3>1, <3>2, AgeingForgets
    <2> QED BY <2>1, <2>2, <2>3, <2>4
<1> QED BY <1>1, RateInvariance, PTL
=============================================================================
