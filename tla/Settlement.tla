------------------------------ MODULE Settlement ----------------------------
(***************************************************************************)
(* How money becomes access: the payments package (POST /webhooks/razorpay *)
(* and the one transaction it runs for each delivery) against the job that *)
(* expires pending orders.                                                 *)
(*                                                                         *)
(* A worker is a request goroutine of any API replica.  Its transaction    *)
(* runs statement by statement; what it has written and not committed is   *)
(* named in wrote[w] and becomes visible to others in Commit.  A second    *)
(* transaction that needs the same unique key or the same order row waits. *)
(***************************************************************************)
EXTENDS OrderTable

CONSTANTS
    Workers,         \* webhook requests in progress at once
    Sweepers,        \* replicas running ExpirePendingOrders at once
    InitialOrders,   \* the contents the orders table may start with
    InitialEvents,   \* the events Razorpay has to deliver from the start
    MaxFailures      \* statements that fail, crashes and lost answers

VARIABLES
    webhooks,        \* payment_webhooks: [Events -> "absent" or the outcome]
    payments,        \* payments, keyed by provider_payment_id
    entitlements,    \* entitlements: <<order, product>> pairs
    purchases,       \* times the purchase events of an order were written
    pc,              \* the next statement of each worker
    handling,        \* the event a worker handles
    target,          \* the order it found for it
    seen,            \* that order's status, as FOR UPDATE returned it
    wrote,           \* its uncommitted writes
    verdict,         \* what apply decided
    batch,           \* rows a sweeper's subselect found, not yet visited
    emitted,         \* events Razorpay has to deliver
    answered,        \* events it got an answer for and will not send again
    failures         \* failures so far

tables   == <<webhooks, payments, entitlements, purchases>>
session  == <<handling, target, seen, wrote, verdict>>
provider == <<emitted, answered>>
settlementVars ==
    <<orders, rowLock, tables, pc, session, batch, provider, failures>>

Statements ==
    {"claim", "apply", "payment", "paid", "grant", "count", "doomed", "close"}
Tables == {"webhook", "payment", "paid", "entitlements", "purchases"}
Verdicts == {"none", "applied", "refused"}

ASSUME SettlementAssumption ==
    /\ Sessions = Workers \cup Sweepers
    /\ Workers \cap Sweepers = {}
    /\ None \notin Sessions
    /\ MaxFailures \in Nat
    /\ InitialEvents \subseteq Events
    /\ InitialOrders \subseteq
          {f \in [Orders -> OrderRow] :
             /\ \A o \in Orders :
                   \/ f[o] = NoOrder
                   \/ f[o].status = "pending" /\ f[o].items # NoOrder.items
             /\ \A o, q \in Orders :
                   f[o].porder = f[q].porder /\ f[o].porder # None => o = q}

SettlementInit ==
    /\ orders \in InitialOrders
    /\ rowLock = [o \in Orders |-> None]
    /\ webhooks = [e \in Events |-> "absent"]
    /\ payments = [p \in Payments |-> None]
    /\ entitlements = {}
    /\ purchases = [o \in Orders |-> 0]
    /\ pc = [w \in Workers |-> "idle"]
    /\ handling = [w \in Workers |-> None]
    /\ target = [w \in Workers |-> None]
    /\ seen = [w \in Workers |-> "absent"]
    /\ wrote = [w \in Workers |-> {}]
    /\ verdict = [w \in Workers |-> "none"]
    /\ batch = [s \in Sweepers |-> {}]
    /\ emitted = InitialEvents
    /\ answered = {}
    /\ failures = 0

-----------------------------------------------------------------------------
(* Razorpay.  It sends an event until it is answered; two copies of one    *)
(* event may be in progress at once, and an answer may get lost.           *)

(* 401 for a bad signature, 400 for a body that does not parse: the        *)
(* delivery is over and no table has been touched.                         *)
Reject(e) ==
    /\ e \in emitted \ answered
    /\ ~Acceptable(e)
    /\ answered' = answered \cup {e}
    /\ UNCHANGED <<orders, rowLock, tables, pc, session, batch, emitted, failures>>

-----------------------------------------------------------------------------
(* One delivery: Handle, up to BEGIN.                                      *)
Deliver(w, e) ==
    /\ pc[w] = "idle"
    /\ e \in emitted \ answered
    /\ Acceptable(e)
    /\ pc' = [pc EXCEPT ![w] = "claim"]
    /\ handling' = [handling EXCEPT ![w] = e]
    /\ UNCHANGED <<orders, rowLock, tables, target, seen, wrote, verdict,
                   batch, provider, failures>>

Goto(w, s) == pc' = [pc EXCEPT ![w] = s]
Write(w, t) == wrote' = [wrote EXCEPT ![w] = @ \cup {t}]
Decide(w, v) == verdict' = [verdict EXCEPT ![w] = v]

(* An insert waits while another open transaction has inserted the key.    *)
ClaimedByOther(w) ==
    \E v \in Workers \ {w} : "webhook" \in wrote[v] /\ handling[v] = handling[w]

RecordedByOther(w) ==
    \E v \in Workers \ {w} :
        "payment" \in wrote[v] /\ handling[v].payment = handling[w].payment

(* Mutant: the claim on the event id is committed in a transaction of its  *)
(* own, before the work.                                                   *)
RecordWebhookSeparately(w) ==
    LET e == handling[w] IN
    /\ pc[w] = "claim"
    /\ IF webhooks[e] = "absent"
       THEN /\ webhooks' = [webhooks EXCEPT ![e] = "refused"]
            /\ Goto(w, "apply")
       ELSE /\ Goto(w, "reply")
            /\ UNCHANGED webhooks
    /\ UNCHANGED <<orders, rowLock, payments, entitlements, purchases, handling,
                   target, seen, wrote, verdict, batch, provider, failures>>

(* RecordWebhook: the unique index on the event id decides who goes on.    *)
RecordWebhook(w) ==
    LET e == handling[w] IN
    /\ pc[w] = "claim"
    /\ ~ClaimedByOther(w)
    /\ IF webhooks[e] = "absent"
       THEN Write(w, "webhook") /\ Goto(w, "apply")
       ELSE Goto(w, "reply") /\ UNCHANGED wrote
    /\ UNCHANGED <<orders, rowLock, tables, handling, target, seen, verdict,
                   batch, provider, failures>>

(* apply refuses, without reading an order, an event that settles nothing. *)
RefuseUnread(w) ==
    /\ pc[w] = "apply"
    /\ ~Actionable(handling[w])
    /\ Decide(w, "refused")
    /\ Goto(w, "close")
    /\ UNCHANGED <<orders, rowLock, tables, handling, target, seen, wrote,
                   batch, provider, failures>>

RefuseUnknownOrder(w) ==
    /\ pc[w] = "apply"
    /\ Actionable(handling[w])
    /\ OrdersFor(handling[w].porder) = {}
    /\ Decide(w, "refused")
    /\ Goto(w, "close")
    /\ UNCHANGED <<orders, rowLock, tables, handling, target, seen, wrote,
                   batch, provider, failures>>

(* Mutant: the sum is not compared with the order's total.                 *)
FindOrderForAnySum(w) ==
    LET e == handling[w] IN
    /\ pc[w] = "apply"
    /\ Actionable(e)
    /\ \E o \in OrdersFor(e.porder) :
          /\ CanLock(o, w)
          /\ LockRow(o, w)
          /\ target' = [target EXCEPT ![w] = o]
          /\ seen' = [seen EXCEPT ![w] = orders[o].status]
          /\ Goto(w, "payment")
    /\ UNCHANGED <<orders, tables, handling, wrote, verdict, batch, provider, failures>>

(* Mutant: the order is read without FOR UPDATE.                           *)
FindOrderUnlocked(w) ==
    LET e == handling[w] IN
    /\ pc[w] = "apply"
    /\ Actionable(e)
    /\ \E o \in OrdersFor(e.porder) :
          /\ target' = [target EXCEPT ![w] = o]
          /\ seen' = [seen EXCEPT ![w] = orders[o].status]
          /\ IF IsCapture(e) /\ ~PaysFor(e, orders[o])
             THEN Decide(w, "refused") /\ Goto(w, "close")
             ELSE Goto(w, "payment") /\ UNCHANGED verdict
    /\ UNCHANGED <<orders, rowLock, tables, handling, wrote, batch, provider, failures>>

(* FindOrderByProviderOrderID ... FOR UPDATE, then the check of the sum.   *)
FindOrder(w) ==
    LET e == handling[w] IN
    /\ pc[w] = "apply"
    /\ Actionable(e)
    /\ \E o \in OrdersFor(e.porder) :
          /\ CanLock(o, w)
          /\ LockRow(o, w)
          /\ target' = [target EXCEPT ![w] = o]
          /\ seen' = [seen EXCEPT ![w] = orders[o].status]
          /\ IF IsCapture(e) /\ ~PaysFor(e, orders[o])
             THEN Decide(w, "refused") /\ Goto(w, "close")
             ELSE Goto(w, "payment") /\ UNCHANGED verdict
    /\ UNCHANGED <<orders, tables, handling, wrote, batch, provider, failures>>

(* RecordPayment, ON CONFLICT (provider_payment_id) DO NOTHING.  A failed  *)
(* attempt ends there; a capture goes on to the order.                     *)
RecordPayment(w) ==
    LET e == handling[w] IN
    /\ pc[w] = "payment"
    /\ Storable(e)
    /\ ~RecordedByOther(w)
    /\ IF payments[e.payment] = None
       THEN Write(w, "payment")
       ELSE UNCHANGED wrote
    /\ IF IsCapture(e)
       THEN Goto(w, "paid") /\ UNCHANGED verdict
       ELSE Goto(w, "close") /\ Decide(w, "applied")
    /\ UNCHANGED <<orders, rowLock, tables, handling, target, seen,
                   batch, provider, failures>>

(* Mutant: the row count of the UPDATE is ignored.                         *)
MarkOrderPaidUnchecked(w) ==
    LET o == target[w] IN
    /\ pc[w] = "paid"
    /\ CanLock(o, w)
    /\ LockRow(o, w)
    /\ IF orders[o].status = "pending" THEN Write(w, "paid") ELSE UNCHANGED wrote
    /\ Goto(w, "grant")
    /\ UNCHANGED <<orders, tables, handling, target, seen, verdict, batch,
                   provider, failures>>

(* MarkOrderPaid, UPDATE ... WHERE status = 'pending', and what apply      *)
(* makes of its row count.                                                 *)
MarkOrderPaid(w) ==
    LET o == target[w]
        moved == orders[o].status = "pending" IN
    /\ pc[w] = "paid"
    /\ CanLock(o, w)
    /\ LockRow(o, w)
    /\ IF moved THEN Write(w, "paid") ELSE UNCHANGED wrote
    /\ IF ~moved /\ seen[w] # "paid"
       THEN Decide(w, "refused") /\ Goto(w, "close")
       ELSE Goto(w, "grant") /\ UNCHANGED verdict
    /\ UNCHANGED <<orders, tables, handling, target, seen, batch, provider, failures>>

GrantEntitlements(w) ==
    /\ pc[w] = "grant"
    /\ Write(w, "entitlements")
    /\ Goto(w, "count")
    /\ UNCHANGED <<orders, rowLock, tables, handling, target, seen, verdict,
                   batch, provider, failures>>

(* Mutant: the events go through a connection outside the transaction.     *)
RecordPurchaseEventsOutside(w) ==
    /\ pc[w] = "count"
    /\ purchases' = [purchases EXCEPT ![target[w]] = @ + 1]
    /\ Decide(w, "applied")
    /\ Goto(w, "close")
    /\ UNCHANGED <<orders, rowLock, webhooks, payments, entitlements, handling,
                   target, seen, wrote, batch, provider, failures>>

(* RecordPurchaseEvents; apply is done after it.                           *)
RecordPurchaseEvents(w) ==
    /\ pc[w] = "count"
    /\ Write(w, "purchases")
    /\ Decide(w, "applied")
    /\ Goto(w, "close")
    /\ UNCHANGED <<orders, rowLock, tables, handling, target, seen,
                   batch, provider, failures>>

(* apply logs an error of RecordPurchaseEvents and goes on, but Postgres   *)
(* has put the transaction in the failed state: no later statement of it   *)
(* can succeed.                                                            *)
PurchaseEventsFail(w) ==
    /\ pc[w] = "count"
    /\ failures < MaxFailures
    /\ failures' = failures + 1
    /\ Decide(w, "applied")
    /\ Goto(w, "doomed")
    /\ UNCHANGED <<orders, rowLock, tables, handling, target, seen, wrote,
                   batch, provider>>

-----------------------------------------------------------------------------
EndSession(w, next) ==
    /\ Goto(w, next)
    /\ target' = [target EXCEPT ![w] = None]
    /\ seen' = [seen EXCEPT ![w] = "absent"]
    /\ wrote' = [wrote EXCEPT ![w] = {}]
    /\ Decide(w, "none")
    /\ Unlock(w)

(* MarkWebhookProcessed and COMMIT: everything in wrote[w] at once.        *)
Commit(w) ==
    LET e == handling[w]
        o == target[w] IN
    /\ pc[w] = "close"
    /\ webhooks' = [webhooks EXCEPT ![e] = verdict[w]]
    /\ payments' =
          IF "payment" \in wrote[w]
          THEN [payments EXCEPT ![e.payment] =
                  [order  |-> o,
                   status |-> IF IsCapture(e) THEN "captured" ELSE "failed",
                   amount |-> e.amount]]
          ELSE payments
    /\ orders' = IF "paid" \in wrote[w]
                 THEN [orders EXCEPT ![o].status = "paid"]
                 ELSE orders
    /\ entitlements' = IF "entitlements" \in wrote[w]
                       THEN entitlements \cup ({o} \X DOMAIN orders[o].items)
                       ELSE entitlements
    /\ purchases' = IF "purchases" \in wrote[w]
                    THEN [purchases EXCEPT ![o] = @ + 1]
                    ELSE purchases
    /\ EndSession(w, "reply")
    /\ UNCHANGED <<handling, batch, provider, failures>>

(* Mutant: RunInTx returns the error without rolling back, and the         *)
(* connection keeps its locks and its claim.                               *)
RollbackForgotten(w) ==
    /\ Goto(w, "idle")
    /\ handling' = [handling EXCEPT ![w] = None]
    /\ UNCHANGED <<orders, rowLock, tables, target, seen, wrote, verdict, batch,
                   provider>>

(* ROLLBACK and a 500: nothing of the delivery remains, its claim on the   *)
(* event id included.                                                      *)
Rollback(w) ==
    /\ EndSession(w, "idle")
    /\ handling' = [handling EXCEPT ![w] = None]
    /\ UNCHANGED <<orders, tables, batch, provider>>

(* Mutant: every error is acknowledged with a 200.                         *)
AbortAcknowledged(w) ==
    /\ pc[w] \in Statements \ {"doomed"}
    /\ failures < MaxFailures
    /\ failures' = failures + 1
    /\ EndSession(w, "idle")
    /\ handling' = [handling EXCEPT ![w] = None]
    /\ answered' = answered \cup {handling[w]}
    /\ UNCHANGED <<orders, tables, batch, emitted>>

(* A statement fails (retry(err)), the commit fails, or the process dies.  *)
Abort(w) ==
    /\ pc[w] \in Statements \ {"doomed"}
    /\ failures < MaxFailures
    /\ failures' = failures + 1
    /\ Rollback(w)

(* The attempt violates a CHECK of the payments table.  apply treats this  *)
(* as transient, and every redelivery meets it again.                      *)
RejectPayment(w) ==
    /\ pc[w] = "payment"
    /\ ~Storable(handling[w])
    /\ Rollback(w)
    /\ UNCHANGED failures

(* MarkWebhookProcessed fails in a transaction that has already failed.    *)
CloseDoomed(w) ==
    /\ pc[w] = "doomed"
    /\ Rollback(w)
    /\ UNCHANGED failures

(* The 200, received by Razorpay or lost on the way (or the process died   *)
(* between COMMIT and the answer).                                         *)
Reply(w) ==
    /\ pc[w] = "reply"
    /\ Goto(w, "idle")
    /\ answered' = answered \cup {handling[w]}
    /\ handling' = [handling EXCEPT ![w] = None]
    /\ UNCHANGED <<orders, rowLock, tables, target, seen, wrote, verdict,
                   batch, emitted, failures>>

LoseReply(w) ==
    /\ pc[w] = "reply"
    /\ failures < MaxFailures
    /\ failures' = failures + 1
    /\ Goto(w, "idle")
    /\ handling' = [handling EXCEPT ![w] = None]
    /\ UNCHANGED <<orders, rowLock, tables, target, seen, wrote, verdict,
                   batch, provider>>

-----------------------------------------------------------------------------
(* jobs.ExpirePendingOrders: one UPDATE whose subselect fixes the rows it  *)
(* will visit; it locks them one by one, and looks at the status again     *)
(* once it has the lock.  Aged holds the rows that can be past             *)
(* PendingOrderTTL; which of them are, and how many fit in the LIMIT, is   *)
(* left open.                                                              *)

SelectExpired(s, Aged) ==
    /\ batch[s] = {} /\ LockedBy(s) = {}
    /\ \E B \in SUBSET {o \in Aged : orders[o].status = "pending"} :
          /\ B # {}
          /\ batch' = [batch EXCEPT ![s] = B]
    /\ UNCHANGED <<orders, rowLock, tables, pc, session, provider, failures>>

(* Mutant: the outer WHERE does not look at the status again.              *)
VisitExpiredUnchecked(s) ==
    /\ \E o \in batch[s] :
          /\ CanLock(o, s)
          /\ batch' = [batch EXCEPT ![s] = @ \ {o}]
          /\ LockRow(o, s)
    /\ UNCHANGED <<orders, tables, pc, session, provider, failures>>

VisitExpired(s) ==
    /\ \E o \in batch[s] :
          /\ CanLock(o, s)
          /\ batch' = [batch EXCEPT ![s] = @ \ {o}]
          /\ IF orders[o].status = "pending"
             THEN LockRow(o, s)
             ELSE UNCHANGED rowLock
    /\ UNCHANGED <<orders, tables, pc, session, provider, failures>>

CancelOrders(S) ==
    orders' = [o \in Orders |-> IF o \in S
                                THEN [orders[o] EXCEPT !.status = "cancelled"]
                                ELSE orders[o]]

CommitExpired(s) ==
    /\ batch[s] = {} /\ LockedBy(s) # {}
    /\ CancelOrders(LockedBy(s))
    /\ Unlock(s)
    /\ UNCHANGED <<tables, pc, session, batch, provider, failures>>

(* The job's timeout, a shutdown, or a crash.                              *)
AbortExpired(s) ==
    /\ batch[s] # {} \/ LockedBy(s) # {}
    /\ failures < MaxFailures
    /\ failures' = failures + 1
    /\ batch' = [batch EXCEPT ![s] = {}]
    /\ Unlock(s)
    /\ UNCHANGED <<orders, tables, pc, session, provider>>

-----------------------------------------------------------------------------
WorkerStep(w) ==
    \/ RecordWebhook(w) \/ RefuseUnread(w) \/ RefuseUnknownOrder(w)
    \/ FindOrder(w) \/ RecordPayment(w) \/ RejectPayment(w) \/ MarkOrderPaid(w)
    \/ GrantEntitlements(w) \/ RecordPurchaseEvents(w)
    \/ CloseDoomed(w) \/ Commit(w) \/ Reply(w)

WorkerFailure(w) == PurchaseEventsFail(w) \/ Abort(w) \/ LoseReply(w)

SweeperStep(s) == VisitExpired(s) \/ CommitExpired(s)

SettlementStep(Aged) ==
    \/ \E e \in Events : Reject(e)
    \/ \E w \in Workers, e \in Events : Deliver(w, e)
    \/ \E w \in Workers : WorkerStep(w) \/ WorkerFailure(w)
    \/ \E s \in Sweepers : SelectExpired(s, Aged) \/ SweeperStep(s) \/ AbortExpired(s)

(* Everything has been sent, answered and expired.                         *)
Quiescent ==
    /\ answered = Events
    /\ \A w \in Workers : pc[w] = "idle"
    /\ \A o \in Orders : orders[o].status # "pending"
    /\ UNCHANGED settlementVars

SettlementNext == SettlementStep(Orders) \/ Quiescent

SettlementSpec == SettlementInit /\ [][SettlementNext]_settlementVars

(* A goroutine, once it has a request, runs until it has answered, and a   *)
(* job until its statement ends; strong fairness, because Postgres grants  *)
(* a row lock in the order it was asked for, so a transaction that waits   *)
(* gets it although others come and go.  Razorpay keeps sending what it    *)
(* has had no answer for.  Nothing makes a job start, a statement fail or  *)
(* a process die.                                                          *)
SettlementFairness ==
    /\ \A w \in Workers : SF_settlementVars(WorkerStep(w))
    /\ \A s \in Sweepers : SF_settlementVars(SweeperStep(s))
    /\ \A e \in Events :
          /\ SF_settlementVars(\E w \in Workers : Deliver(w, e))
          /\ WF_settlementVars(Reject(e))

SettlementFairSpec == SettlementSpec /\ SettlementFairness

-----------------------------------------------------------------------------
(* Types, and the range each value is in.                                  *)
SettlementTypeOK ==
    /\ OrdersTypeOK
    /\ webhooks \in [Events -> {"absent", "applied", "refused"}]
    /\ payments \in [Payments -> PaymentRow \cup {None}]
    /\ entitlements \subseteq Orders \X Products
    /\ purchases \in [Orders -> Nat]
    /\ pc \in [Workers -> Statements \cup {"idle", "reply"}]
    /\ handling \in [Workers -> Events \cup {None}]
    /\ target \in [Workers -> Orders \cup {None}]
    /\ seen \in [Workers -> Statuses]
    /\ wrote \in [Workers -> SUBSET Tables]
    /\ verdict \in [Workers -> Verdicts]
    /\ batch \in [Sweepers -> SUBSET Orders]
    /\ emitted \subseteq Events
    /\ answered \subseteq Events
    /\ failures \in 0..MaxFailures

(* "Paid" and "may download" are one fact (service.go:156-158): in every   *)
(* committed state an order is paid exactly when each product it lists has *)
(* its entitlement, and no other order has any.                            *)
PaidMeansEntitled ==
    \A o \in Orders, p \in Products :
        <<o, p>> \in entitlements
            <=> orders[o].status = "paid" /\ p \in DOMAIN orders[o].items

(* Nothing is paid without money: a paid order has a payment row for its   *)
(* exact total.  The row says "failed" only when Razorpay had reported     *)
(* that same payment as failed before it was captured, because             *)
(* RecordPayment keeps the first account it gets.                          *)
PaidMeansCharged ==
    \A o \in Orders : orders[o].status = "paid" =>
        \E d \in Events :
            /\ IsCapture(d) /\ webhooks[d] = "applied"
            /\ d.porder = orders[o].porder /\ PaysFor(d, orders[o])
            /\ payments[d.payment] # None /\ payments[d.payment].order = o
            /\ \/ payments[d.payment].status = "captured"
               \/ \E f \in Events : /\ f.type = FailureEvent
                                    /\ f.payment = d.payment
                                    /\ webhooks[f] = "applied"

(* What the row of a finished delivery says is true of the order, for      *)
(* ever: "applied" to a capture only if the order is paid, "refused" to a  *)
(* capture of the sum owed only if the order is cancelled and the money is *)
(* on record as a payment.  A delivery that lost a race and reported it,   *)
(* or claimed its event id and did not do its work, would break this.      *)
VerdictsAreTrue ==
    \A e \in Events : \A o \in OrdersFor(e.porder) :
        IsCapture(e) =>
            /\ webhooks[e] = "applied" =>
                  orders[o].status = "paid" /\ PaysFor(e, orders[o])
            /\ webhooks[e] = "refused" /\ PaysFor(e, orders[o]) =>
                  orders[o].status = "cancelled" /\ payments[e.payment] # None

CapturesApplied(o) ==
    {e \in Events : /\ IsCapture(e) /\ e.porder = orders[o].porder
                    /\ webhooks[e] = "applied"}

(* The dashboards' revenue rows: an order's purchase events are written    *)
(* once for each capture applied to it, neither lost nor kept by a         *)
(* delivery that rolled back (repository.go:162-165).                      *)
CountsMatchCaptures ==
    \A o \in Orders : purchases[o] = Cardinality(CapturesApplied(o))

(* An answered event has been dealt with: a 200 is never sent for a        *)
(* delivery whose transaction did not commit.                              *)
AnsweredMeansRecorded ==
    \A e \in answered : Acceptable(e) => webhooks[e] # "absent"

(* Only a pending order changes status (repository.go:122-128, cleanup.go: *)
(* 65-67), and no table loses what it recorded.                            *)
StatusIsFinal ==
    [][/\ \A o \in Orders :
             orders[o].status \in {"paid", "cancelled"} => orders'[o] = orders[o]
       /\ entitlements \subseteq entitlements'
       /\ \A p \in Payments : payments[p] # None => payments'[p] = payments[p]
       /\ \A e \in Events : webhooks[e] # "absent" => webhooks'[e] = webhooks[e]
      ]_settlementVars

(* "Failing to count a sale must never undo a payment"                     *)
(* (repository.go:169-171): a settlement whose purchase events could not   *)
(* be written ends with its order paid.                                    *)
CountingNeverUndoesPayment ==
    [][\A w \in Workers :
          pc[w] = "doomed" /\ pc'[w] # "doomed" => orders'[target[w]].status = "paid"
      ]_settlementVars

Granted ==
    {o \in Orders : orders[o].items # NoOrder.items /\
        \A p \in DOMAIN orders[o].items : <<o, p>> \in entitlements}
Handled == {e \in Events : webhooks[e] # "absent"}

Ledger == INSTANCE OrderLedger WITH granted <- Granted, handled <- Handled

(* Settlement implements the ledger: every commit is one step of it and    *)
(* every other step changes nothing a reader of the tables can see.        *)
ImplementsLedger == Ledger!LedgerSpec

(* Every event that can be stored is, in the end, recorded and answered,   *)
(* whatever failed on the way: failures are finitely many, and Razorpay    *)
(* redelivers what was answered with a 500.                                *)
EveryEventIsHandled ==
    \A e \in Events :
        (e \in emitted /\ (Actionable(e) => Storable(e))) ~> (e \in answered)
=============================================================================
