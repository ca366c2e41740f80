---------------------------- MODULE CommerceProofs --------------------------
(***************************************************************************)
(* Theorems about Settlement and about Commerce, which runs Settlement's   *)
(* actions beside the checkout's: for any number of requests, keys,        *)
(* products, workers, sweepers, orders, events and failures.  The first    *)
(* part is about Settlement, and the second about what Commerce adds.      *)
(***************************************************************************)
EXTENDS CommerceInvariant, FiniteSetTheorems, TLAPS

-----------------------------------------------------------------------------
(* Rows and events.                                                        *)

(* Changing the status of a row changes nothing else of it.                *)
LEMMA RowWithStatus ==
    ASSUME NEW row \in OrderRow, NEW s \in Statuses
    PROVE  LET r == [row EXCEPT !.status = s] IN
           /\ r \in OrderRow
           /\ r.status = s
           /\ r.porder = row.porder /\ r.key = row.key
           /\ r.total = row.total /\ r.items = row.items
BY DEF OrderRow

LEMMA EventFields ==
    ASSUME NEW e \in Events
    PROVE  /\ e # None
           /\ e.payment \in Payments \cup {None}
           /\ e.porder \in ProviderOrders \cup {None}
           /\ e.amount \in Nat
           /\ Actionable(e) => e.payment \in Payments
BY NoneIsFresh, EventsAssumption DEF EventBody, Actionable

LEMMA SamePaymentSameOrder ==
    ASSUME NEW d \in Events, NEW e \in Events, Acceptable(d), Acceptable(e),
           d.payment = e.payment, d.payment # None
    PROVE  d.porder = e.porder
BY EventsAssumption DEF Acceptable

-----------------------------------------------------------------------------
(* Frames: what a step leaves true by leaving things alone.                *)

(* The steps of w do not touch what the other workers hold.                *)
OthersKeep(w) ==
    \A v \in Workers \ {w} :
        /\ pc'[v] = pc[v] /\ handling'[v] = handling[v]
        /\ target'[v] = target[v] /\ seen'[v] = seen[v]
        /\ wrote'[v] = wrote[v] /\ verdict'[v] = verdict[v]
        /\ \A o \in Orders : rowLock[o] = v => rowLock'[o] = v

LEMMA OrdersForKept ==
    ASSUME \A o \in Orders : orders'[o].porder = orders[o].porder, NEW x
    PROVE  OrdersFor(x)' = OrdersFor(x)
BY DEF OrdersFor

(* A worker's knowledge survives the steps of others.                      *)
LEMMA KnowledgeSurvives ==
    ASSUME SettlementTypeOK, NEW v \in Workers, KnowsAt(v),
           pc'[v] = pc[v], handling'[v] = handling[v], target'[v] = target[v],
           seen'[v] = seen[v], wrote'[v] = wrote[v], verdict'[v] = verdict[v],
           \A o \in Orders : rowLock[o] = v => rowLock'[o] = v /\ orders'[o] = orders[o],
           handling[v] # None /\ Actionable(handling[v]) =>
              OrdersFor(handling[v].porder)' = OrdersFor(handling[v].porder),
           \A p \in Payments : payments[p] # None => payments'[p] # None,
           handling[v] # None =>
              \/ webhooks'[handling[v]] = webhooks[handling[v]]
              \/ "webhook" \notin wrote[v] /\ webhooks'[handling[v]] # "absent"
    PROVE  KnowsAt(v)'
<1> DEFINE e == handling[v]
<1>0. handling[v] \in Events \cup {None} /\ wrote[v] \in SUBSET Tables
    BY DEF SettlementTypeOK
<1>1. HasOrder(v) => HasOrder(v)' /\ orders'[target[v]] = orders[target[v]]
    BY DEF HasOrder
<1>2. e # None /\ Actionable(e) /\ Accounted(v) => Accounted(v)'
    BY <1>0, EventFields DEF Accounted
<1>3. HasOrder(v) /\ e # None /\ Accounted(v) => Accounted(v)'
    BY <1>2 DEF HasOrder
<1>4. e # None /\ Settling(v) => Settling(v)'
    BY <1>1, <1>3 DEF Settling
<1>5. e # None /\ AppliedRightly(v) => AppliedRightly(v)'
    BY <1>1, <1>3, <1>4 DEF AppliedRightly
<1>6. e # None /\ RefusedRightly(v) => RefusedRightly(v)'
    BY <1>1, <1>3 DEF RefusedRightly
<1>7. AtRest(v) => AtRest(v)'
    BY DEF AtRest
<1>8. pc[v] \in Locking => HasOrder(v)
    BY DEF KnowsAt
<1>9. pc[v] = "paid" => Accounted(v)' 
    BY <1>3, <1>8 DEF KnowsAt, Locking
<1>10. pc[v] \in Locking => orders'[target[v]] = orders[target[v]]
    BY <1>1, <1>8
<1> QED BY <1>1, <1>4, <1>5, <1>6, <1>7, <1>8, <1>9, <1>10 DEF KnowsAt, Locking

LEMMA KnowledgeKept ==
    ASSUME SettlementTypeOK, NEW v \in Workers, KnowsAt(v),
           pc'[v] = pc[v], handling'[v] = handling[v], target'[v] = target[v],
           seen'[v] = seen[v], wrote'[v] = wrote[v], verdict'[v] = verdict[v],
           \A o \in Orders : rowLock[o] = v => rowLock'[o] = v /\ orders'[o] = orders[o],
           \A o \in Orders : orders'[o].porder = orders[o].porder,
           \A p \in Payments : payments[p] # None => payments'[p] # None,
           handling[v] # None =>
              \/ webhooks'[handling[v]] = webhooks[handling[v]]
              \/ "webhook" \notin wrote[v] /\ webhooks'[handling[v]] # "absent"
    PROVE  KnowsAt(v)'
BY KnowledgeSurvives, OrdersForKept

(* The committed tables, and so what is true of them, are as they were.    *)
LEMMA TablesKept ==
    ASSUME SettlementInv,
           UNCHANGED <<orders, webhooks, payments, entitlements>>
    PROVE  /\ OrdersAreSound' /\ PaymentsAreExplained' /\ PaidByCapture'
           /\ CapturesAreAccounted' /\ RecordsAreAuthentic'
           /\ PaidMeansEntitled' /\ VerdictsAreTrue'
<1>1. \A x : OrdersFor(x)' = OrdersFor(x)
    BY OrdersForKept
<1>2. OrdersAreSound'
    BY DEF SettlementInv, OrdersAreSound
<1>3. PaymentsAreExplained' /\ PaidByCapture' /\ RecordsAreAuthentic'
    BY DEF SettlementInv, PaymentsAreExplained, PaidByCapture, RecordsAreAuthentic
<1>4. CapturesAreAccounted' /\ VerdictsAreTrue'
    BY <1>1 DEF SettlementInv, CapturesAreAccounted, VerdictsAreTrue
<1>5. PaidMeansEntitled'
    BY DEF SettlementInv, PaidMeansEntitled
<1> QED BY <1>2, <1>3, <1>4, <1>5

(* A step inside the transaction of w preserves the invariant if it leaves *)
(* w knowing what it should, and its writes and locks in order.            *)
LEMMA LocalStep ==
    ASSUME SettlementInv, NEW w \in Workers, OthersKeep(w),
           UNCHANGED <<orders, webhooks, payments, entitlements, answered>>,
           SettlementTypeOK', KnowsAt(w)', WritesAreExclusive', LocksAreHeld'
    PROVE  SettlementInv'
<1>1. ASSUME NEW v \in Workers PROVE KnowsAt(v)'
    <2>1. CASE v = w
        BY <2>1
    <2>2. CASE v # w
        BY <2>2, KnowledgeKept DEF SettlementInv, WorkersKnow, OthersKeep
    <2> QED BY <2>1, <2>2
<1>2. AnsweredMeansRecorded'
    BY DEF SettlementInv, AnsweredMeansRecorded
<1> QED BY <1>1, <1>2, TablesKept DEF SettlementInv, WorkersKnow

-----------------------------------------------------------------------------
(* The steps of one delivery.                                              *)

LEMMA DeliverStep ==
    ASSUME SettlementInv, NEW w \in Workers, NEW e \in Events, Deliver(w, e)
    PROVE  SettlementInv'
<1> USE DEF Deliver, tables, provider
<1>1. SettlementTypeOK'
    BY DEF SettlementInv, SettlementTypeOK, OrdersTypeOK, Statements
<1>2. pc'[w] = "claim" /\ handling'[w] = e
    BY DEF SettlementInv, SettlementTypeOK
<1>3. OthersKeep(w)
    BY DEF OthersKeep, SettlementInv, SettlementTypeOK
<1>4. AtRest(w) /\ wrote[w] = {}
    BY DEF SettlementInv, WorkersKnow, KnowsAt, AtRest
<1>5. KnowsAt(w)'
    BY <1>2, <1>4, EventFields DEF KnowsAt, AtRest, Locking
<1>6. WritesAreExclusive'
    BY <1>4, <1>3 DEF SettlementInv, WritesAreExclusive, OthersKeep
<1>7. LocksAreHeld'
    BY DEF SettlementInv, LocksAreHeld
<1> QED BY <1>1, <1>3, <1>5, <1>6, <1>7, LocalStep

LEMMA RecordWebhookStep ==
    ASSUME SettlementInv, NEW w \in Workers, RecordWebhook(w)
    PROVE  SettlementInv'
<1> USE DEF RecordWebhook, tables, provider, Goto, Write
<1>1. SettlementTypeOK'
    BY DEF SettlementInv, SettlementTypeOK, OrdersTypeOK, Statements, Tables
<1>2. OthersKeep(w)
    BY DEF OthersKeep, SettlementInv, SettlementTypeOK
<1>3. AtRest(w) /\ handling[w] # None /\ Acceptable(handling[w])
    BY DEF SettlementInv, WorkersKnow, KnowsAt
<1>4. \/ pc'[w] = "apply" /\ wrote'[w] = {"webhook"} /\ webhooks[handling[w]] = "absent"
      \/ pc'[w] = "reply" /\ wrote' = wrote /\ webhooks[handling[w]] # "absent"
    BY <1>3 DEF SettlementInv, SettlementTypeOK, AtRest
<1>5. KnowsAt(w)'
    BY <1>3, <1>4 DEF KnowsAt, AtRest, Locking
<1>6. WritesAreExclusive'
    BY <1>2, <1>3, <1>4 DEF SettlementInv, WritesAreExclusive, OthersKeep, ClaimedByOther, AtRest
<1>7. LocksAreHeld'
    BY DEF SettlementInv, LocksAreHeld
<1> QED BY <1>1, <1>2, <1>5, <1>6, <1>7, LocalStep

LEMMA RefuseStep ==
    ASSUME SettlementInv, NEW w \in Workers, RefuseUnread(w) \/ RefuseUnknownOrder(w)
    PROVE  SettlementInv'
<1> USE DEF RefuseUnread, RefuseUnknownOrder, tables, provider, Goto, Decide
<1>1. SettlementTypeOK'
    BY DEF SettlementInv, SettlementTypeOK, OrdersTypeOK, Statements, Verdicts
<1>2. OthersKeep(w)
    BY DEF OthersKeep, SettlementInv, SettlementTypeOK
<1>3. /\ pc[w] = "apply" /\ pc'[w] = "close" /\ verdict'[w] = "refused"
      /\ handling[w] # None /\ Acceptable(handling[w])
      /\ wrote[w] = {"webhook"} /\ webhooks[handling[w]] = "absent"
    BY DEF SettlementInv, SettlementTypeOK, WorkersKnow, KnowsAt
<1>4. RefusedRightly(w)'
    BY <1>3 DEF RefusedRightly, OrdersFor
<1>5. KnowsAt(w)'
    BY <1>3, <1>4 DEF KnowsAt, Locking
<1>6. WritesAreExclusive'
    BY DEF SettlementInv, WritesAreExclusive
<1>7. LocksAreHeld'
    BY DEF SettlementInv, LocksAreHeld
<1> QED BY <1>1, <1>2, <1>5, <1>6, <1>7, LocalStep

LEMMA FindOrderStep ==
    ASSUME SettlementInv, NEW w \in Workers, FindOrder(w)
    PROVE  SettlementInv'
<1> DEFINE e == handling[w]
<1>1. PICK o \in OrdersFor(e.porder) :
          /\ CanLock(o, w)
          /\ LockRow(o, w)
          /\ target' = [target EXCEPT ![w] = o]
          /\ seen' = [seen EXCEPT ![w] = orders[o].status]
          /\ \/ /\ IsCapture(e) /\ ~PaysFor(e, orders[o])
                /\ Decide(w, "refused") /\ Goto(w, "close")
             \/ /\ IsCapture(e) => PaysFor(e, orders[o])
                /\ Goto(w, "payment") /\ UNCHANGED verdict
    BY DEF FindOrder
<1>2. /\ pc[w] = "apply" /\ Actionable(e)
      /\ UNCHANGED <<orders, webhooks, payments, entitlements, purchases, handling, wrote,
                     batch, emitted, answered, failures>>
    BY DEF FindOrder, tables, provider
<1>3. /\ o \in Orders /\ orders[o].porder = e.porder /\ orders[o].status \in Statuses
      /\ rowLock[o] \in {None, w}
    BY <1>1 DEF OrdersFor, OrderRow, CanLock, SettlementInv, SettlementTypeOK, OrdersTypeOK
<1>4. /\ e # None /\ Acceptable(e) /\ wrote[w] = {"webhook"} /\ target[w] = None
      /\ verdict[w] = "none" /\ webhooks[e] = "absent"
    BY <1>2 DEF SettlementInv, WorkersKnow, KnowsAt
<1>5. w \in Sessions /\ w # None
    BY SettlementAssumption
<1>6. SettlementTypeOK'
    BY <1>1, <1>2, <1>3, <1>5
       DEF SettlementInv, SettlementTypeOK, OrdersTypeOK, Statements, Verdicts, LockRow, Goto, Decide
<1>7. OthersKeep(w)
    BY <1>1, <1>2, <1>3, SettlementAssumption
       DEF OthersKeep, SettlementInv, SettlementTypeOK, OrdersTypeOK, LockRow, Goto, Decide
<1>8. /\ rowLock'[o] = w /\ target'[w] = o /\ seen'[w] = orders[o].status
      /\ \A q \in Orders \ {o} : rowLock'[q] = rowLock[q]
    BY <1>1, <1>3 DEF LockRow, SettlementInv, SettlementTypeOK, OrdersTypeOK
<1>9. HasOrder(w)'
    BY <1>2, <1>3, <1>8 DEF HasOrder
<1>10. KnowsAt(w)'
    <2>1. CASE IsCapture(e) /\ ~PaysFor(e, orders[o]) /\ Decide(w, "refused") /\ Goto(w, "close")
        <3>1. pc'[w] = "close" /\ verdict'[w] = "refused"
            BY <2>1 DEF Goto, Decide, SettlementInv, SettlementTypeOK
        <3>2. RefusedRightly(w)'
            BY <1>2, <1>4, <1>8, <1>9, <2>1 DEF RefusedRightly
        <3> QED BY <1>2, <1>4, <3>1, <3>2 DEF KnowsAt, Locking
    <2>2. CASE /\ IsCapture(e) => PaysFor(e, orders[o])
               /\ Goto(w, "payment") /\ UNCHANGED verdict
        <3>1. pc'[w] = "payment"
            BY <2>2 DEF Goto, SettlementInv, SettlementTypeOK
        <3> QED BY <1>2, <1>4, <1>8, <1>9, <2>2, <3>1 DEF KnowsAt, Locking
    <2> QED BY <1>1, <2>1, <2>2
<1>11. WritesAreExclusive'
    BY <1>2 DEF SettlementInv, WritesAreExclusive
<1>12. LocksAreHeld'
    <2> SUFFICES ASSUME NEW q \in Orders
                 PROVE  /\ rowLock'[q] \in Workers => target'[rowLock'[q]] = q
                        /\ rowLock'[q] \in Sweepers => orders'[q].status = "pending"
        BY DEF LocksAreHeld
    <2>1. CASE q = o
        BY <1>8, <2>1, SettlementAssumption
    <2>2. CASE q # o
        BY <1>1, <1>2, <1>4, <1>8, <2>2, NoneIsFresh
           DEF SettlementInv, LocksAreHeld, SettlementTypeOK
    <2> QED BY <2>1, <2>2
<1> QED BY <1>2, <1>6, <1>7, <1>10, <1>11, <1>12, LocalStep

LEMMA RecordPaymentStep ==
    ASSUME SettlementInv, NEW w \in Workers, RecordPayment(w)
    PROVE  SettlementInv'
<1> DEFINE e == handling[w]
<1>1. /\ pc[w] = "payment"
      /\ ~RecordedByOther(w)
      /\ \/ payments[e.payment] = None /\ Write(w, "payment")
         \/ payments[e.payment] # None /\ UNCHANGED wrote
      /\ \/ IsCapture(e) /\ Goto(w, "paid") /\ UNCHANGED verdict
         \/ ~IsCapture(e) /\ Goto(w, "close") /\ Decide(w, "applied")
      /\ UNCHANGED <<orders, rowLock, webhooks, payments, entitlements, purchases,
                     handling, target, seen, batch, emitted, answered, failures>>
    BY DEF RecordPayment, tables, provider
<1>2. /\ e # None /\ Acceptable(e) /\ wrote[w] = {"webhook"} /\ HasOrder(w)
      /\ verdict[w] = "none" /\ webhooks[e] = "absent"
      /\ IsCapture(e) => PaysFor(e, orders[target[w]])
    BY <1>1 DEF SettlementInv, WorkersKnow, KnowsAt, Locking
<1>3. SettlementTypeOK'
    BY <1>1 DEF SettlementInv, SettlementTypeOK, OrdersTypeOK, Statements, Verdicts, Tables,
                Goto, Decide, Write
<1>4. OthersKeep(w)
    BY <1>1 DEF OthersKeep, SettlementInv, SettlementTypeOK, Goto, Decide, Write
<1>5. /\ wrote'[w] \in {{"webhook"}, {"webhook", "payment"}}
      /\ "payment" \in wrote'[w] => payments[e.payment] = None
    BY <1>1, <1>2 DEF Write, SettlementInv, SettlementTypeOK
<1>6. HasOrder(w)' /\ Accounted(w)'
    BY <1>1, <1>2 DEF HasOrder, Accounted, Write, SettlementInv, SettlementTypeOK
<1>7. KnowsAt(w)'
    <2>1. CASE IsCapture(e) /\ Goto(w, "paid") /\ UNCHANGED verdict
        <3>1. pc'[w] = "paid"
            BY <2>1 DEF Goto, SettlementInv, SettlementTypeOK
        <3> QED BY <1>1, <1>2, <1>5, <1>6, <2>1, <3>1 DEF KnowsAt, Locking
    <2>2. CASE ~IsCapture(e) /\ Goto(w, "close") /\ Decide(w, "applied")
        <3>1. pc'[w] = "close" /\ verdict'[w] = "applied"
            BY <2>2 DEF Goto, Decide, SettlementInv, SettlementTypeOK
        <3>2. e.type = FailureEvent
            BY <1>2, <2>2 DEF HasOrder, Actionable, IsCapture
        <3>3. AppliedRightly(w)'
            BY <1>1, <1>5, <1>6, <2>2, <3>2 DEF AppliedRightly
        <3> QED BY <1>1, <1>2, <1>5, <3>1, <3>3 DEF KnowsAt, Locking
    <2> QED BY <1>1, <2>1, <2>2
<1>8. WritesAreExclusive'
    <2>1. ASSUME NEW v \in Workers \ {w}
          PROVE  wrote'[v] = wrote[v] /\ handling'[v] = handling[v]
        BY <1>4 DEF OthersKeep
    <2>2. ASSUME NEW v \in Workers \ {w}, "payment" \in wrote[v]
          PROVE  handling[v].payment # e.payment
        BY <1>1, <2>2 DEF RecordedByOther
    <2> QED BY <1>1, <1>2, <1>5, <2>1, <2>2 DEF SettlementInv, WritesAreExclusive
<1>9. LocksAreHeld'
    BY <1>1 DEF SettlementInv, LocksAreHeld
<1> QED BY <1>1, <1>3, <1>4, <1>7, <1>8, <1>9, LocalStep

LEMMA MarkOrderPaidStep ==
    ASSUME SettlementInv, NEW w \in Workers, MarkOrderPaid(w)
    PROVE  SettlementInv'
<1> DEFINE e == handling[w]
<1> DEFINE o == target[w]
<1>1. /\ pc[w] = "paid"
      /\ LockRow(o, w)
      /\ \/ orders[o].status = "pending" /\ Write(w, "paid")
         \/ orders[o].status # "pending" /\ UNCHANGED wrote
      /\ \/ /\ orders[o].status # "pending" /\ seen[w] # "paid"
            /\ Decide(w, "refused") /\ Goto(w, "close")
         \/ /\ orders[o].status = "pending" \/ seen[w] = "paid"
            /\ Goto(w, "grant") /\ UNCHANGED verdict
      /\ UNCHANGED <<orders, webhooks, payments, entitlements, purchases,
                     handling, target, seen, batch, emitted, answered, failures>>
    BY DEF MarkOrderPaid, tables, provider
<1>2. /\ e # None /\ Acceptable(e) /\ HasOrder(w) /\ Accounted(w)
      /\ wrote[w] \subseteq {"webhook", "payment"} /\ "webhook" \in wrote[w]
      /\ verdict[w] = "none" /\ webhooks[e] = "absent"
      /\ IsCapture(e) /\ PaysFor(e, orders[target[w]])
    BY <1>1 DEF SettlementInv, WorkersKnow, KnowsAt, Locking
<1>3. rowLock' = rowLock
    BY <1>1, <1>2 DEF HasOrder, LockRow, SettlementInv, SettlementTypeOK, OrdersTypeOK
<1>4. SettlementTypeOK'
    BY <1>1, <1>3 DEF SettlementInv, SettlementTypeOK, OrdersTypeOK, Statements, Verdicts, Tables,
                Goto, Decide, Write
<1>5. OthersKeep(w)
    BY <1>1, <1>3 DEF OthersKeep, SettlementInv, SettlementTypeOK, Goto, Decide, Write
<1>6. wrote'[w] = IF orders[o].status = "pending" THEN wrote[w] \cup {"paid"} ELSE wrote[w]
    BY <1>1 DEF Write, SettlementInv, SettlementTypeOK
<1>7. HasOrder(w)' /\ Accounted(w)'
    BY <1>1, <1>2, <1>3, <1>6 DEF HasOrder, Accounted
<1>8. KnowsAt(w)'
    <2>1. CASE /\ orders[o].status # "pending" /\ seen[w] # "paid"
               /\ Decide(w, "refused") /\ Goto(w, "close")
        <3>1. pc'[w] = "close" /\ verdict'[w] = "refused"
            BY <2>1 DEF Goto, Decide, SettlementInv, SettlementTypeOK
        <3>2. seen[w] = "cancelled"
            BY <1>2, <2>1, EventFields, NoneIsFresh
               DEF HasOrder, SettlementInv, OrdersAreSound, NoOrder, Actionable, SettlementTypeOK,
                   Statuses
        <3>3. RefusedRightly(w)'
            BY <1>1, <1>2, <1>6, <1>7, <2>1, <3>2 DEF RefusedRightly
        <3> QED BY <1>1, <1>2, <1>6, <3>1, <3>3 DEF KnowsAt, Locking
    <2>2. CASE /\ orders[o].status = "pending" \/ seen[w] = "paid"
               /\ Goto(w, "grant") /\ UNCHANGED verdict
        <3>1. pc'[w] = "grant"
            BY <2>2 DEF Goto, SettlementInv, SettlementTypeOK
        <3>2. Settling(w)'
            BY <1>1, <1>2, <1>6, <1>7, <2>2 DEF Settling, HasOrder
        <3> QED BY <1>1, <1>2, <1>6, <2>2, <3>1, <3>2 DEF KnowsAt, Locking, Settling
    <2> QED BY <1>1, <2>1, <2>2
<1>9. WritesAreExclusive'
    <2>1. \A v \in Workers : /\ handling'[v] = handling[v]
                             /\ "webhook" \in wrote'[v] <=> "webhook" \in wrote[v]
                             /\ "payment" \in wrote'[v] <=> "payment" \in wrote[v]
        BY <1>1, <1>5, <1>6 DEF OthersKeep
    <2> QED BY <1>1, <2>1 DEF SettlementInv, WritesAreExclusive
<1>10. LocksAreHeld'
    BY <1>1, <1>3 DEF SettlementInv, LocksAreHeld
<1> QED BY <1>1, <1>4, <1>5, <1>8, <1>9, <1>10, LocalStep

LEMMA GrantEntitlementsStep ==
    ASSUME SettlementInv, NEW w \in Workers, GrantEntitlements(w)
    PROVE  SettlementInv'
<1> USE DEF GrantEntitlements, tables, provider, Goto, Write
<1>1. SettlementTypeOK'
    BY DEF SettlementInv, SettlementTypeOK, OrdersTypeOK, Statements, Tables
<1>2. OthersKeep(w)
    BY DEF OthersKeep, SettlementInv, SettlementTypeOK
<1>3. /\ pc[w] = "grant" /\ pc'[w] = "count" /\ wrote'[w] = wrote[w] \cup {"entitlements"}
      /\ UNCHANGED <<orders, rowLock, handling, target, seen, verdict, payments, webhooks>>
    BY DEF SettlementInv, SettlementTypeOK
<1>4. /\ handling[w] # None /\ Acceptable(handling[w]) /\ Settling(w)
      /\ wrote[w] \subseteq {"webhook", "payment", "paid"} /\ "webhook" \in wrote[w]
      /\ verdict[w] = "none" /\ webhooks[handling[w]] = "absent"
    BY <1>3 DEF SettlementInv, WorkersKnow, KnowsAt
<1>5. Settling(w)' /\ HasOrder(w)'
    BY <1>3, <1>4 DEF Settling, HasOrder, Accounted
<1>6. KnowsAt(w)'
    BY <1>3, <1>4, <1>5 DEF KnowsAt, Locking
<1>7. WritesAreExclusive'
    <2>1. \A v \in Workers : /\ handling'[v] = handling[v]
                             /\ "webhook" \in wrote'[v] <=> "webhook" \in wrote[v]
                             /\ "payment" \in wrote'[v] <=> "payment" \in wrote[v]
        BY <1>2, <1>3 DEF OthersKeep
    <2> QED BY <2>1 DEF SettlementInv, WritesAreExclusive
<1>8. LocksAreHeld'
    BY DEF SettlementInv, LocksAreHeld
<1> QED BY <1>1, <1>2, <1>6, <1>7, <1>8, LocalStep

LEMMA RecordPurchaseEventsStep ==
    ASSUME SettlementInv, NEW w \in Workers, RecordPurchaseEvents(w) \/ PurchaseEventsFail(w)
    PROVE  SettlementInv'
<1> USE DEF RecordPurchaseEvents, PurchaseEventsFail, tables, provider, Goto, Write, Decide
<1>1. SettlementTypeOK'
    BY SettlementAssumption
       DEF SettlementInv, SettlementTypeOK, OrdersTypeOK, Statements, Tables, Verdicts
<1>2. OthersKeep(w)
    BY DEF OthersKeep, SettlementInv, SettlementTypeOK
<1>3. /\ pc[w] = "count" /\ verdict'[w] = "applied"
      /\ \/ pc'[w] = "close" /\ wrote'[w] = wrote[w] \cup {"purchases"}
         \/ pc'[w] = "doomed" /\ wrote'[w] = wrote[w]
      /\ UNCHANGED <<orders, rowLock, handling, target, seen, payments, webhooks>>
    BY DEF SettlementInv, SettlementTypeOK
<1>4. /\ handling[w] # None /\ Acceptable(handling[w]) /\ Settling(w)
      /\ {"webhook", "entitlements"} \subseteq wrote[w]
      /\ webhooks[handling[w]] = "absent"
    BY <1>3 DEF SettlementInv, WorkersKnow, KnowsAt
<1>5. Settling(w)' /\ HasOrder(w)'
    BY <1>3, <1>4 DEF Settling, HasOrder, Accounted
<1>6. KnowsAt(w)'
    BY <1>3, <1>4, <1>5 DEF KnowsAt, Locking, AppliedRightly, Settling
<1>7. WritesAreExclusive'
    <2>1. \A v \in Workers : /\ handling'[v] = handling[v]
                             /\ "webhook" \in wrote'[v] <=> "webhook" \in wrote[v]
                             /\ "payment" \in wrote'[v] <=> "payment" \in wrote[v]
        BY <1>2, <1>3 DEF OthersKeep
    <2> QED BY <2>1 DEF SettlementInv, WritesAreExclusive
<1>8. LocksAreHeld'
    BY DEF SettlementInv, LocksAreHeld
<1> QED BY <1>1, <1>2, <1>6, <1>7, <1>8, LocalStep

-----------------------------------------------------------------------------
(* The end of a transaction.                                               *)

LEMMA SessionEnds ==
    ASSUME SettlementTypeOK, NEW w \in Workers, NEW next \in {"idle", "reply"},
           EndSession(w, next)
    PROVE  /\ pc' \in [Workers -> Statements \cup {"idle", "reply"}]
           /\ target' \in [Workers -> Orders \cup {None}]
           /\ seen' \in [Workers -> Statuses]
           /\ wrote' \in [Workers -> SUBSET Tables]
           /\ verdict' \in [Workers -> Verdicts]
           /\ rowLock' \in [Orders -> Sessions \cup {None}]
           /\ pc'[w] = next /\ AtRest(w)'
           /\ \A o \in Orders :
                 rowLock'[o] = IF rowLock[o] = w THEN None ELSE rowLock[o]
           /\ \A v \in Workers \ {w} :
                 /\ pc'[v] = pc[v] /\ target'[v] = target[v] /\ seen'[v] = seen[v]
                 /\ wrote'[v] = wrote[v] /\ verdict'[v] = verdict[v]
                 /\ \A o \in Orders : rowLock[o] = v => rowLock'[o] = v
BY DEF EndSession, Goto, Decide, Unlock, SettlementTypeOK, OrdersTypeOK, Statements,
       Statuses, Verdicts, Tables, AtRest

LEMMA RollbackStep ==
    ASSUME SettlementInv, NEW w \in Workers, Rollback(w), failures' \in 0..MaxFailures
    PROVE  SettlementInv'
<1>1. /\ EndSession(w, "idle")
      /\ handling' = [handling EXCEPT ![w] = None]
      /\ UNCHANGED <<orders, webhooks, payments, entitlements, purchases, batch, emitted,
                     answered>>
    BY DEF Rollback, tables, provider
<1>2. SettlementTypeOK
    BY DEF SettlementInv
<1>3. SettlementTypeOK'
    BY <1>1, <1>2, SessionEnds DEF SettlementTypeOK, OrdersTypeOK
<1>4. handling'[w] = None /\ \A v \in Workers \ {w} : handling'[v] = handling[v]
    BY <1>1, <1>2 DEF SettlementTypeOK
<1>5. OthersKeep(w)
    BY <1>1, <1>2, <1>4, SessionEnds DEF OthersKeep
<1>6. KnowsAt(w)'
    BY <1>1, <1>2, <1>4, SessionEnds DEF KnowsAt, Locking
<1>7. WritesAreExclusive'
    <2>1. wrote'[w] = {}
        BY <1>1, <1>2, SessionEnds DEF AtRest
    <2> QED BY <1>1, <1>5, <2>1 DEF SettlementInv, WritesAreExclusive, OthersKeep
<1>8. LocksAreHeld'
    <2> SUFFICES ASSUME NEW o \in Orders
                 PROVE  /\ rowLock'[o] \in Workers => target'[rowLock'[o]] = o
                        /\ rowLock'[o] \in Sweepers => orders'[o].status = "pending"
        BY DEF LocksAreHeld
    <2>1. rowLock'[o] = IF rowLock[o] = w THEN None ELSE rowLock[o]
        BY <1>1, <1>2, SessionEnds
    <2> QED BY <1>1, <1>5, <2>1, SettlementAssumption
            DEF SettlementInv, LocksAreHeld, OthersKeep
<1> QED BY <1>1, <1>3, <1>5, <1>6, <1>7, <1>8, LocalStep

LEMMA ReplyStep ==
    ASSUME SettlementInv, NEW w \in Workers, Reply(w) \/ LoseReply(w)
    PROVE  SettlementInv'
<1>1. /\ pc[w] = "reply" /\ pc' = [pc EXCEPT ![w] = "idle"]
      /\ handling' = [handling EXCEPT ![w] = None]
      /\ answered' \in {answered, answered \cup {handling[w]}}
      /\ failures' \in 0..MaxFailures
      /\ UNCHANGED <<orders, rowLock, webhooks, payments, entitlements, purchases, target,
                     seen, wrote, verdict, batch, emitted>>
    <2>1. CASE Reply(w)
        BY <2>1 DEF Reply, Goto, tables, SettlementInv, SettlementTypeOK
    <2>2. CASE LoseReply(w)
        BY <2>2, SettlementAssumption
           DEF LoseReply, Goto, tables, provider, SettlementInv, SettlementTypeOK
    <2> QED BY <2>1, <2>2
<1>2. SettlementTypeOK /\ SettlementTypeOK'
    BY <1>1, SettlementAssumption DEF SettlementInv, SettlementTypeOK, OrdersTypeOK, Statements,
             WorkersKnow, KnowsAt
<1>3. AtRest(w) /\ handling[w] # None /\ webhooks[handling[w]] # "absent"
    BY <1>1 DEF SettlementInv, WorkersKnow, KnowsAt
<1>4. /\ pc'[w] = "idle" /\ handling'[w] = None
      /\ \A v \in Workers \ {w} : pc'[v] = pc[v] /\ handling'[v] = handling[v]
    BY <1>1, <1>2 DEF SettlementTypeOK
<1>5. ASSUME NEW v \in Workers PROVE KnowsAt(v)'
    <2>1. CASE v = w
        BY <1>1, <1>3, <1>4, <2>1 DEF KnowsAt, AtRest, Locking
    <2>2. CASE v # w
        BY <1>1, <1>2, <1>4, <2>2, KnowledgeKept DEF SettlementInv, WorkersKnow
    <2> QED BY <2>1, <2>2
<1>6. WritesAreExclusive' /\ LocksAreHeld'
    BY <1>1, <1>3, <1>4 DEF SettlementInv, WritesAreExclusive, LocksAreHeld, AtRest
<1>7. AnsweredMeansRecorded'
    BY <1>1, <1>3 DEF SettlementInv, AnsweredMeansRecorded
<1> QED BY <1>1, <1>2, <1>5, <1>6, <1>7, TablesKept DEF SettlementInv, WorkersKnow

LEMMA RejectStep ==
    ASSUME SettlementInv, NEW e \in Events, Reject(e)
    PROVE  SettlementInv'
<1>1. /\ ~Acceptable(e) /\ answered' = answered \cup {e}
      /\ UNCHANGED <<orders, rowLock, webhooks, payments, entitlements, purchases, pc, handling,
                     target, seen, wrote, verdict, batch, emitted, failures>>
    BY DEF Reject, tables, session
<1>2. SettlementTypeOK /\ SettlementTypeOK'
    BY <1>1 DEF SettlementInv, SettlementTypeOK, OrdersTypeOK
<1>3. WorkersKnow'
    BY <1>1, <1>2, KnowledgeKept DEF SettlementInv, WorkersKnow
<1>4. WritesAreExclusive' /\ LocksAreHeld'
    BY <1>1 DEF SettlementInv, WritesAreExclusive, LocksAreHeld
<1>5. AnsweredMeansRecorded'
    BY <1>1 DEF SettlementInv, AnsweredMeansRecorded
<1> QED BY <1>1, <1>2, <1>3, <1>4, <1>5, TablesKept DEF SettlementInv

(* What Commit makes of the tables, row by row.                            *)
LEMMA CommitEffect ==
    ASSUME SettlementInv, NEW w \in Workers, Commit(w)
    PROVE  LET e == handling[w]
               o == target[w] IN
           /\ e \in Events /\ Acceptable(e) /\ webhooks[e] = "absent"
           /\ "webhook" \in wrote[w]
           /\ \/ verdict[w] = "refused" /\ RefusedRightly(w)
              \/ verdict[w] = "applied" /\ AppliedRightly(w)
           /\ webhooks'[e] = verdict[w]
           /\ \A d \in Events \ {e} : webhooks'[d] = webhooks[d]
           /\ wrote[w] # {"webhook"} => HasOrder(w) /\ e.payment \in Payments
           /\ "payment" \in wrote[w] =>
                 /\ payments[e.payment] = None
                 /\ payments'[e.payment] \in PaymentRow
                 /\ payments'[e.payment].order = o
                 /\ payments'[e.payment].status =
                       IF IsCapture(e) THEN "captured" ELSE "failed"
           /\ \A p \in Payments :
                 "payment" \notin wrote[w] \/ p # e.payment => payments'[p] = payments[p]
           /\ "paid" \in wrote[w] =>
                 /\ verdict[w] = "applied" /\ Settling(w) /\ orders[o].status = "pending"
                 /\ orders'[o].status = "paid"
           /\ \A q \in Orders :
                 /\ orders'[q] \in OrderRow
                 /\ orders'[q].porder = orders[q].porder /\ orders'[q].key = orders[q].key
                 /\ orders'[q].total = orders[q].total /\ orders'[q].items = orders[q].items
                 /\ "paid" \notin wrote[w] \/ q # o => orders'[q] = orders[q]
           /\ entitlements' = IF "entitlements" \in wrote[w]
                              THEN entitlements \cup ({o} \X DOMAIN orders[o].items)
                              ELSE entitlements
           /\ orders' \in [Orders -> OrderRow]
           /\ webhooks' \in [Events -> {"absent", "applied", "refused"}]
           /\ payments' \in [Payments -> PaymentRow \cup {None}]
           /\ purchases' \in [Orders -> Nat]
<1> DEFINE e == handling[w]
<1> DEFINE o == target[w]
<1>1. pc[w] = "close" /\ webhooks' = [webhooks EXCEPT ![e] = verdict[w]]
    BY DEF Commit
<1>2. /\ e \in Events /\ Acceptable(e) /\ webhooks[e] = "absent" /\ "webhook" \in wrote[w]
      /\ \/ verdict[w] = "refused" /\ RefusedRightly(w)
         \/ verdict[w] = "applied" /\ AppliedRightly(w)
    BY <1>1 DEF SettlementInv, SettlementTypeOK, WorkersKnow, KnowsAt
<1>3. /\ webhooks'[e] = verdict[w]
      /\ \A d \in Events \ {e} : webhooks'[d] = webhooks[d]
    BY <1>1, <1>2 DEF SettlementInv, SettlementTypeOK
<1>4. wrote[w] # {"webhook"} => HasOrder(w) /\ e.payment \in Payments
    <2>1. wrote[w] # {"webhook"} => HasOrder(w)
        BY <1>2 DEF RefusedRightly, AppliedRightly, Settling
    <2> QED BY <1>2, <2>1, EventFields DEF HasOrder
<1>5. "payment" \in wrote[w] =>
         /\ payments[e.payment] = None
         /\ payments'[e.payment] = [order  |-> o,
                                    status |-> IF IsCapture(e) THEN "captured" ELSE "failed",
                                    amount |-> e.amount]
         /\ payments'[e.payment] \in PaymentRow
    BY <1>2, <1>4, EventFields
       DEF Commit, HasOrder, PaymentRow, SettlementInv, SettlementTypeOK, WritesAreExclusive
<1>6. \A p \in Payments :
          "payment" \notin wrote[w] \/ p # e.payment => payments'[p] = payments[p]
    BY <1>4 DEF Commit, SettlementInv, SettlementTypeOK
<1>7. "paid" \in wrote[w] =>
         verdict[w] = "applied" /\ Settling(w) /\ orders[o].status = "pending"
    BY <1>2 DEF RefusedRightly, AppliedRightly, Settling, HasOrder
<1>8. /\ orders' \in [Orders -> OrderRow]
      /\ "paid" \in wrote[w] => orders'[o].status = "paid"
      /\ \A q \in Orders :
            /\ orders'[q] \in OrderRow
            /\ orders'[q].porder = orders[q].porder /\ orders'[q].key = orders[q].key
            /\ orders'[q].total = orders[q].total /\ orders'[q].items = orders[q].items
            /\ "paid" \notin wrote[w] \/ q # o => orders'[q] = orders[q]
    <2>1. orders \in [Orders -> OrderRow]
        BY DEF SettlementInv, SettlementTypeOK, OrdersTypeOK
    <2>2. CASE "paid" \in wrote[w]
        <3> DEFINE row == [orders[o] EXCEPT !.status = "paid"]
        <3>1. o \in Orders
            BY <1>4, <2>2 DEF HasOrder
        <3>2. orders' = [orders EXCEPT ![o] = row]
            BY <2>2 DEF Commit
        <3>3. /\ row \in OrderRow /\ row.status = "paid"
              /\ row.porder = orders[o].porder /\ row.key = orders[o].key
              /\ row.total = orders[o].total /\ row.items = orders[o].items
            BY <2>1, <3>1, RowWithStatus DEF Statuses
        <3> HIDE DEF row
        <3>4. orders'[o] = row /\ \A q \in Orders \ {o} : orders'[q] = orders[q]
            BY <2>1, <3>1, <3>2
        <3>5. orders' \in [Orders -> OrderRow]
            BY <2>1, <3>1, <3>2, <3>3
        <3> QED BY <2>1, <2>2, <3>1, <3>3, <3>4, <3>5
    <2>3. CASE "paid" \notin wrote[w]
        BY <2>1, <2>3 DEF Commit
    <2> QED BY <2>2, <2>3
<1>9. entitlements' = IF "entitlements" \in wrote[w]
                      THEN entitlements \cup ({o} \X DOMAIN orders[o].items)
                      ELSE entitlements
    BY DEF Commit
<1> HIDE DEF e, o
<1>10. "payment" \in wrote[w] =>
         /\ payments[e.payment] = None
         /\ payments'[e.payment] \in PaymentRow
         /\ payments'[e.payment].order = o
         /\ payments'[e.payment].status = IF IsCapture(e) THEN "captured" ELSE "failed"
    BY <1>5
<1>11. webhooks' \in [Events -> {"absent", "applied", "refused"}]
    BY <1>1, <1>2 DEF SettlementInv, SettlementTypeOK
<1>12. payments' \in [Payments -> PaymentRow \cup {None}]
    <2>1. CASE "payment" \in wrote[w]
        <3> DEFINE row == [order  |-> o,
                           status |-> IF IsCapture(e) THEN "captured" ELSE "failed",
                           amount |-> e.amount]
        <3>1. payments' = [payments EXCEPT ![e.payment] = row]
            BY <2>1 DEF Commit, e, o
        <3>2. row \in PaymentRow
            BY <1>2, <1>4, <2>1, EventFields DEF HasOrder, PaymentRow, e, o
        <3> QED BY <3>1, <3>2 DEF SettlementInv, SettlementTypeOK
    <2>2. CASE "payment" \notin wrote[w]
        BY <2>2 DEF Commit, SettlementInv, SettlementTypeOK
    <2> QED BY <2>1, <2>2
<1>13. purchases' \in [Orders -> Nat]
    <2>1. CASE "purchases" \in wrote[w]
        <3>1. o \in Orders
            BY <1>4, <2>1 DEF HasOrder, o
        <3> QED BY <2>1, <3>1 DEF Commit, o, SettlementInv, SettlementTypeOK
    <2>2. CASE "purchases" \notin wrote[w]
        BY <2>2 DEF Commit, SettlementInv, SettlementTypeOK
    <2> QED BY <2>1, <2>2
<1> USE DEF e, o
<1> QED BY <1>2, <1>3, <1>4, <1>6, <1>7, <1>8, <1>9, <1>10, <1>11, <1>12, <1>13

LEMMA PaymentWriters ==
    ASSUME SettlementInv, NEW v \in Workers, "payment" \in wrote[v]
    PROVE  /\ handling[v] \in Events /\ HasOrder(v)
           /\ handling[v].payment \in Payments
<1>1. KnowsAt(v) /\ SettlementTypeOK
    BY DEF SettlementInv, WorkersKnow
<1>2. pc[v] \notin {"idle", "claim", "reply", "apply"}
    BY <1>1 DEF KnowsAt, AtRest
<1>3. HasOrder(v) /\ handling[v] # None
    BY <1>1, <1>2 DEF KnowsAt, Locking, RefusedRightly, AppliedRightly, Settling,
                      SettlementTypeOK, Statements
<1>4. handling[v] \in Events
    BY <1>1, <1>3 DEF SettlementTypeOK
<1> QED BY <1>3, <1>4, EventFields DEF HasOrder

LEMMA CommitStep ==
    ASSUME SettlementInv, NEW w \in Workers, Commit(w)
    PROVE  SettlementInv'
<1> DEFINE e == handling[w]
<1> DEFINE o == target[w]
<1>1. SettlementTypeOK
    BY DEF SettlementInv
<1>2. /\ e \in Events /\ Acceptable(e) /\ webhooks[e] = "absent" /\ "webhook" \in wrote[w]
      /\ \/ verdict[w] = "refused" /\ RefusedRightly(w)
         \/ verdict[w] = "applied" /\ AppliedRightly(w)
    BY CommitEffect
<1>3. /\ webhooks'[e] = verdict[w]
      /\ \A d \in Events \ {e} : webhooks'[d] = webhooks[d]
    BY CommitEffect
<1>4. wrote[w] # {"webhook"} => HasOrder(w) /\ e.payment \in Payments
    BY CommitEffect
<1>5. "payment" \in wrote[w] =>
         /\ payments[e.payment] = None
         /\ payments'[e.payment] \in PaymentRow
         /\ payments'[e.payment].order = o
         /\ payments'[e.payment].status = IF IsCapture(e) THEN "captured" ELSE "failed"
    BY CommitEffect
<1>6. \A p \in Payments :
          "payment" \notin wrote[w] \/ p # e.payment => payments'[p] = payments[p]
    BY CommitEffect
<1>7. "paid" \in wrote[w] =>
         /\ verdict[w] = "applied" /\ Settling(w) /\ orders[o].status = "pending"
         /\ orders'[o].status = "paid"
    BY CommitEffect
<1>8. \A q \in Orders :
         /\ orders'[q] \in OrderRow
         /\ orders'[q].porder = orders[q].porder /\ orders'[q].key = orders[q].key
         /\ orders'[q].total = orders[q].total /\ orders'[q].items = orders[q].items
         /\ "paid" \notin wrote[w] \/ q # o => orders'[q] = orders[q]
    BY CommitEffect
<1>9. entitlements' = IF "entitlements" \in wrote[w]
                      THEN entitlements \cup ({o} \X DOMAIN orders[o].items)
                      ELSE entitlements
    BY CommitEffect
<1>10. /\ EndSession(w, "reply")
       /\ UNCHANGED <<handling, batch, emitted, answered, failures>>
    BY DEF Commit, provider
<1>11. \A x : OrdersFor(x)' = OrdersFor(x)
    BY <1>8, OrdersForKept
<1>12. None \notin PaymentRow
    BY NoneIsFresh
<1>13. \A p \in Payments : payments[p] # None => payments'[p] = payments[p]
    BY <1>5, <1>6
<1>14. \A d \in Events : webhooks[d] # "absent" => webhooks'[d] = webhooks[d]
    BY <1>2, <1>3
<1>15. \A q \in Orders : orders[q].status # "pending" => orders'[q] = orders[q]
    BY <1>7, <1>8
<1>16. e.payment \in Payments /\ Accounted(w) => payments'[e.payment] # None
    BY <1>5, <1>12, <1>13 DEF Accounted
<1>17. SettlementTypeOK'
    <2>1. /\ orders' \in [Orders -> OrderRow]
          /\ webhooks' \in [Events -> {"absent", "applied", "refused"}]
          /\ payments' \in [Payments -> PaymentRow \cup {None}]
          /\ purchases' \in [Orders -> Nat]
        BY CommitEffect
    <2>2. entitlements' \subseteq Orders \X Products
        <3>1. "entitlements" \in wrote[w] =>
                 o \in Orders /\ DOMAIN orders[o].items \subseteq Products
            BY <1>1, <1>4 DEF HasOrder, OrderRow, SettlementTypeOK, OrdersTypeOK
        <3> QED BY <1>1, <1>9, <3>1 DEF SettlementTypeOK
    <2> QED BY <1>1, <1>10, <2>1, <2>2, SessionEnds DEF SettlementTypeOK, OrdersTypeOK
<1>18. OthersKeep(w)
    BY <1>1, <1>10, SessionEnds DEF OthersKeep
<1>19. KnowsAt(w)'
    <2>1. pc'[w] = "reply" /\ AtRest(w)' /\ handling'[w] = e
        BY <1>1, <1>10, SessionEnds
    <2>2. e # None /\ webhooks'[e] # "absent"
        BY <1>2, <1>3, EventFields
    <2> QED BY <1>2, <2>1, <2>2 DEF KnowsAt, Locking
<1>20. ASSUME NEW v \in Workers \ {w} PROVE KnowsAt(v)'
    <2>1. KnowsAt(v)
        BY DEF SettlementInv, WorkersKnow
    <2>2. \A q \in Orders : rowLock[q] = v => rowLock'[q] = v /\ orders'[q] = orders[q]
        <3>1. "paid" \in wrote[w] => rowLock[o] = w
            BY <1>7 DEF Settling, HasOrder
        <3> QED BY <1>8, <1>18, <3>1 DEF OthersKeep
    <2>3. handling[v] # None =>
             \/ webhooks'[handling[v]] = webhooks[handling[v]]
             \/ "webhook" \notin wrote[v] /\ webhooks'[handling[v]] # "absent"
        <3>1. handling[v] = e /\ "webhook" \in wrote[v] => FALSE
            BY <1>2 DEF SettlementInv, WritesAreExclusive
        <3> QED BY <1>1, <1>2, <1>3, <3>1 DEF SettlementTypeOK
    <2> QED BY <1>1, <1>8, <1>10, <1>12, <1>13, <1>18, <2>1, <2>2, <2>3, KnowledgeKept
            DEF OthersKeep
<1>21. WritesAreExclusive'
    <2>1. wrote'[w] = {} /\ \A v \in Workers \ {w} : wrote'[v] = wrote[v]
        BY <1>1, <1>10, <1>18, SessionEnds DEF AtRest, OthersKeep
    <2>2. ASSUME NEW v \in Workers \ {w}, "payment" \in wrote[v]
          PROVE  handling[v] # None /\ payments'[handling[v].payment] = None
        <3>1. handling[v].payment \in Payments /\ handling[v] \in Events
            BY <2>2, PaymentWriters
        <3>2. payments[handling[v].payment] = None /\ handling[v] # None
            BY <2>2 DEF SettlementInv, WritesAreExclusive
        <3>3. "payment" \in wrote[w] => handling[v].payment # e.payment
            BY <2>2 DEF SettlementInv, WritesAreExclusive
        <3> QED BY <1>6, <3>1, <3>2, <3>3
    <2> QED BY <1>10, <2>1, <2>2 DEF SettlementInv, WritesAreExclusive
<1>22. LocksAreHeld'
    <2> SUFFICES ASSUME NEW q \in Orders
                 PROVE  /\ rowLock'[q] \in Workers => target'[rowLock'[q]] = q
                        /\ rowLock'[q] \in Sweepers => orders'[q].status = "pending"
        BY DEF LocksAreHeld
    <2>1. rowLock'[q] = IF rowLock[q] = w THEN None ELSE rowLock[q]
        BY <1>1, <1>10, SessionEnds
    <2>2. "paid" \in wrote[w] => rowLock[o] = w
        BY <1>7 DEF Settling, HasOrder
    <2> QED BY <1>8, <1>18, <2>1, <2>2, SettlementAssumption
            DEF SettlementInv, LocksAreHeld, OthersKeep
<1>23. OrdersAreSound'
    <2>1. \A q \in Orders : orders'[q].status = orders[q].status \/ orders'[q].status = "paid"
        BY <1>7, <1>8
    <2>2. \A q \in Orders : orders[q] = NoOrder => orders'[q] = NoOrder
        BY <1>15 DEF NoOrder
    <2> QED BY <1>8, <2>1, <2>2 DEF SettlementInv, OrdersAreSound
<1>24. PaymentsAreExplained'
    <2> SUFFICES ASSUME NEW p \in Payments, payments'[p] # None
                 PROVE  \E d \in Events :
                           /\ Acceptable(d) /\ Actionable(d) /\ d.payment = p
                           /\ webhooks'[d] # "absent"
                           /\ orders'[payments'[p].order].porder = d.porder
                           /\ payments'[p].status =
                                 IF IsCapture(d) THEN "captured" ELSE "failed"
                           /\ ~IsCapture(d) => webhooks'[d] = "applied"
        BY DEF PaymentsAreExplained
    <2>1. CASE "payment" \in wrote[w] /\ p = e.payment
        <3>1. HasOrder(w)
            BY <1>4, <2>1
        <3>2. verdict[w] # "absent" /\ (~IsCapture(e) => verdict[w] = "applied")
            BY <1>2, <2>1 DEF RefusedRightly
        <3> QED BY <1>2, <1>3, <1>5, <1>8, <2>1, <3>1, <3>2 DEF HasOrder
    <2>2. CASE ~("payment" \in wrote[w] /\ p = e.payment)
        <3>1. payments'[p] = payments[p] /\ payments[p] # None
            BY <1>6, <2>2
        <3>2. payments[p].order \in Orders
            BY <1>1, <3>1 DEF SettlementTypeOK, PaymentRow
        <3> QED BY <1>8, <1>14, <3>1, <3>2 DEF SettlementInv, PaymentsAreExplained
    <2> QED BY <2>1, <2>2
<1>25. PaidByCapture'
    <2> SUFFICES ASSUME NEW q \in Orders, orders'[q].status = "paid"
                 PROVE  \E d \in Events : /\ IsCapture(d) /\ webhooks'[d] = "applied"
                                          /\ d.porder = orders'[q].porder
        BY DEF PaidByCapture
    <2>1. CASE orders[q].status = "paid"
        BY <1>8, <1>14, <2>1 DEF SettlementInv, PaidByCapture
    <2>2. CASE orders[q].status # "paid"
        <3>1. "paid" \in wrote[w] /\ q = o
            BY <1>8, <2>2
        <3> QED BY <1>2, <1>3, <1>7, <1>8, <3>1 DEF Settling, HasOrder
    <2> QED BY <2>1, <2>2
<1>26. \A q \in OrdersFor(e.porder) :
          /\ IsCapture(e) => HasOrder(w) /\ q = o
          /\ IsCapture(e) /\ verdict[w] = "refused" /\ PaysFor(e, orders[q]) =>
                seen[w] = "cancelled" /\ Accounted(w)
          /\ IsCapture(e) /\ verdict[w] = "applied" => Settling(w)
    <2>1. IsCapture(e) /\ OrdersFor(e.porder) # {} => HasOrder(w)
        BY <1>2 DEF RefusedRightly, AppliedRightly, Settling, IsCapture
    <2>2. \A q \in OrdersFor(e.porder) : HasOrder(w) => q = o
        BY DEF HasOrder, OrdersFor, SettlementInv, OrdersAreSound
    <2> QED BY <1>2, <2>1, <2>2 DEF RefusedRightly, AppliedRightly, IsCapture
<1>27. RecordsAreAuthentic' /\ AnsweredMeansRecorded'
    BY <1>2, <1>3, <1>10, <1>14
       DEF SettlementInv, RecordsAreAuthentic, AnsweredMeansRecorded, SettlementTypeOK
<1>28. PaidMeansEntitled'
    <2>1. CASE "entitlements" \in wrote[w]
        <3>1. Settling(w)
            BY <1>2, <2>1 DEF RefusedRightly, AppliedRightly
        <3>2. o \in Orders /\ orders'[o].status = "paid"
            BY <1>7, <1>15, <3>1 DEF Settling, HasOrder
        <3> QED BY <1>8, <1>9, <2>1, <3>2 DEF SettlementInv, PaidMeansEntitled
    <2>2. CASE "entitlements" \notin wrote[w]
        <3>1. "paid" \notin wrote[w]
            BY <1>2, <2>2 DEF RefusedRightly, AppliedRightly
        <3> QED BY <1>8, <1>9, <2>2, <3>1 DEF SettlementInv, PaidMeansEntitled
    <2> QED BY <2>1, <2>2
<1>29. \A d \in Events, q \in Orders : PaysFor(d, orders'[q]) <=> PaysFor(d, orders[q])
    BY <1>8 DEF PaysFor
<1>30. CapturesAreAccounted'
    <2> SUFFICES ASSUME NEW d \in Events, NEW q \in OrdersFor(d.porder),
                        IsCapture(d), webhooks'[d] # "absent", PaysFor(d, orders'[q])
                 PROVE  payments'[d.payment] # None
        BY <1>11 DEF CapturesAreAccounted
    <2>1. q \in Orders /\ PaysFor(d, orders[q]) /\ d.payment \in Payments
        BY <1>29, EventFields DEF OrdersFor, IsCapture
    <2>2. CASE d = e
        <3>1. Accounted(w)
            BY <1>2, <1>26, <2>1, <2>2 DEF Settling
        <3> QED BY <1>16, <2>1, <2>2, <3>1
    <2>3. CASE d # e
        <3>1. payments[d.payment] # None
            BY <1>3, <2>1, <2>3 DEF SettlementInv, CapturesAreAccounted
        <3> QED BY <1>13, <2>1, <3>1
    <2> QED BY <2>2, <2>3
<1>31. VerdictsAreTrue'
    <2> SUFFICES ASSUME NEW d \in Events, NEW q \in OrdersFor(d.porder), IsCapture(d)
                 PROVE  /\ webhooks'[d] = "applied" =>
                              orders'[q].status = "paid" /\ PaysFor(d, orders'[q])
                        /\ webhooks'[d] = "refused" /\ PaysFor(d, orders'[q]) =>
                              orders'[q].status = "cancelled" /\ payments'[d.payment] # None
        BY <1>11 DEF VerdictsAreTrue
    <2>1. q \in Orders /\ d.payment \in Payments
        BY EventFields DEF OrdersFor, IsCapture
    <2>2. CASE d = e
        <3>1. HasOrder(w) /\ q = o
            BY <1>26, <2>2
        <3>2. verdict[w] = "applied" => orders'[q].status = "paid" /\ PaysFor(d, orders[q])
            BY <1>7, <1>15, <1>26, <2>2, <3>1 DEF Settling, HasOrder
        <3>3. verdict[w] = "refused" /\ PaysFor(d, orders[q]) =>
                 orders'[q].status = "cancelled" /\ payments'[d.payment] # None
            BY <1>15, <1>16, <1>26, <2>1, <2>2, <3>1 DEF HasOrder
        <3> QED BY <1>3, <1>29, <2>1, <2>2, <3>2, <3>3
    <2>3. CASE d # e
        BY <1>3, <1>13, <1>15, <1>29, <2>1, <2>3 DEF SettlementInv, VerdictsAreTrue
    <2> QED BY <2>2, <2>3
<1> QED BY <1>17, <1>19, <1>20, <1>21, <1>22, <1>23, <1>24, <1>25, <1>27, <1>28, <1>30, <1>31
        DEF SettlementInv, WorkersKnow

-----------------------------------------------------------------------------
(* The job that expires orders.                                            *)

LEMMA SweeperKeepsWorkers ==
    ASSUME SettlementInv, SettlementTypeOK', LocksAreHeld',
           UNCHANGED <<orders, webhooks, payments, entitlements, pc, session, provider>>,
           \A o \in Orders : rowLock[o] \in Workers => rowLock'[o] = rowLock[o]
    PROVE  SettlementInv'
<1>1. WorkersKnow'
    BY KnowledgeKept DEF SettlementInv, WorkersKnow, session
<1>2. WritesAreExclusive' /\ AnsweredMeansRecorded'
    BY DEF SettlementInv, WritesAreExclusive, AnsweredMeansRecorded, session, provider
<1> QED BY <1>1, <1>2, TablesKept DEF SettlementInv

LEMMA SelectExpiredStep ==
    ASSUME SettlementInv, NEW s \in Sweepers, NEW Aged \in SUBSET Orders,
           SelectExpired(s, Aged)
    PROVE  SettlementInv'
<1> USE DEF SelectExpired, tables
<1>1. SettlementTypeOK'
    BY DEF SettlementInv, SettlementTypeOK, OrdersTypeOK, session, provider
<1>2. LocksAreHeld'
    BY DEF SettlementInv, LocksAreHeld, session
<1> QED BY <1>1, <1>2, SweeperKeepsWorkers

LEMMA VisitExpiredStep ==
    ASSUME SettlementInv, NEW s \in Sweepers, VisitExpired(s)
    PROVE  SettlementInv'
<1>1. PICK o \in batch[s] :
          /\ CanLock(o, s)
          /\ batch' = [batch EXCEPT ![s] = @ \ {o}]
          /\ \/ orders[o].status = "pending" /\ LockRow(o, s)
             \/ UNCHANGED rowLock
    BY DEF VisitExpired
<1>2. UNCHANGED <<orders, tables, pc, session, provider, failures>>
    BY DEF VisitExpired
<1>3. o \in Orders /\ s \in Sessions /\ s \notin Workers /\ s # None
    BY SettlementAssumption DEF SettlementInv, SettlementTypeOK
<1>4. rowLock' \in [Orders -> Sessions \cup {None}]
    BY <1>1, <1>3 DEF LockRow, SettlementInv, SettlementTypeOK, OrdersTypeOK
<1>5. SettlementTypeOK'
    BY <1>1, <1>2, <1>4 DEF SettlementInv, SettlementTypeOK, OrdersTypeOK, tables, session, provider
<1>6. \A q \in Orders :
          \/ rowLock'[q] = rowLock[q]
          \/ /\ q = o /\ rowLock[q] \in {None, s} /\ rowLock'[q] = s
             /\ orders[q].status = "pending"
    BY <1>1, <1>3 DEF LockRow, CanLock, SettlementInv, SettlementTypeOK, OrdersTypeOK
<1>7. LocksAreHeld'
    BY <1>2, <1>3, <1>6 DEF SettlementInv, LocksAreHeld, session
<1> QED BY <1>2, <1>3, <1>5, <1>6, <1>7, SettlementAssumption, SweeperKeepsWorkers DEF tables

LEMMA UnlockEffect ==
    ASSUME SettlementTypeOK, NEW s \in Sessions, Unlock(s)
    PROVE  /\ rowLock' \in [Orders -> Sessions \cup {None}]
           /\ \A o \in Orders : rowLock'[o] = IF rowLock[o] = s THEN None ELSE rowLock[o]
BY DEF Unlock, SettlementTypeOK, OrdersTypeOK

LEMMA AbortExpiredStep ==
    ASSUME SettlementInv, NEW s \in Sweepers, AbortExpired(s)
    PROVE  SettlementInv'
<1>1. s \in Sessions /\ s \notin Workers /\ None \notin Workers \cup Sweepers
    BY SettlementAssumption
<1>2. SettlementTypeOK
    BY DEF SettlementInv
<1>3. Unlock(s) /\ UNCHANGED <<orders, tables, pc, session, provider>>
    BY DEF AbortExpired
<1>4. SettlementTypeOK'
    BY <1>1, <1>2, <1>3, UnlockEffect, SettlementAssumption
       DEF AbortExpired, SettlementTypeOK, OrdersTypeOK, tables, session, provider
<1>5. LocksAreHeld'
    BY <1>1, <1>2, <1>3, UnlockEffect DEF SettlementInv, LocksAreHeld, session
<1> QED BY <1>1, <1>2, <1>3, <1>4, <1>5, UnlockEffect, SweeperKeepsWorkers DEF tables

LEMMA CommitExpiredEffect ==
    ASSUME SettlementInv, NEW s \in Sweepers, CommitExpired(s)
    PROVE  /\ orders' \in [Orders -> OrderRow]
           /\ \A o \in Orders :
                 /\ rowLock[o] # s => orders'[o] = orders[o]
                 /\ rowLock[o] = s =>
                       orders[o].status = "pending" /\ orders'[o].status = "cancelled"
                 /\ orders'[o].porder = orders[o].porder /\ orders'[o].key = orders[o].key
                 /\ orders'[o].total = orders[o].total /\ orders'[o].items = orders[o].items
<1> DEFINE row(o) == [orders[o] EXCEPT !.status = "cancelled"]
<1>1. orders \in [Orders -> OrderRow]
    BY DEF SettlementInv, SettlementTypeOK, OrdersTypeOK
<1>2. ASSUME NEW o \in Orders
      PROVE  /\ row(o) \in OrderRow /\ row(o).status = "cancelled"
             /\ row(o).porder = orders[o].porder /\ row(o).key = orders[o].key
             /\ row(o).total = orders[o].total /\ row(o).items = orders[o].items
    BY <1>1, RowWithStatus DEF Statuses
<1>3. orders' = [o \in Orders |-> IF rowLock[o] = s THEN row(o) ELSE orders[o]]
    BY DEF CommitExpired, CancelOrders, LockedBy
<1>4. \A o \in Orders : rowLock[o] = s => orders[o].status = "pending"
    BY DEF SettlementInv, LocksAreHeld
<1> HIDE DEF row
<1> QED BY <1>1, <1>2, <1>3, <1>4

LEMMA CommitExpiredStep ==
    ASSUME SettlementInv, NEW s \in Sweepers, CommitExpired(s)
    PROVE  SettlementInv'
<1>1. /\ s \in Sessions /\ s \notin Workers /\ s # None
      /\ None \notin Workers \cup Sweepers
    BY SettlementAssumption
<1>2. SettlementTypeOK
    BY DEF SettlementInv
<1>3. UNCHANGED <<tables, pc, session, batch, provider, failures>>
    BY DEF CommitExpired
<1>4. \A o \in Orders : rowLock'[o] = IF rowLock[o] = s THEN None ELSE rowLock[o]
    BY <1>1, <1>2, UnlockEffect DEF CommitExpired
<1>5. \A o \in Orders :
         /\ rowLock[o] # s => orders'[o] = orders[o]
         /\ rowLock[o] = s =>
               orders[o].status = "pending" /\ orders'[o].status = "cancelled"
         /\ orders'[o].porder = orders[o].porder
         /\ orders'[o].total = orders[o].total /\ orders'[o].items = orders[o].items
    BY CommitExpiredEffect
<1>6. SettlementTypeOK'
    BY <1>1, <1>2, <1>3, CommitExpiredEffect, UnlockEffect
       DEF CommitExpired, SettlementTypeOK, OrdersTypeOK, tables, session, provider
<1>7. WorkersKnow'
    BY <1>1, <1>2, <1>3, <1>4, <1>5, KnowledgeKept
       DEF SettlementInv, WorkersKnow, session, tables
<1>8. LocksAreHeld'
    BY <1>1, <1>3, <1>4, <1>5, SettlementAssumption DEF SettlementInv, LocksAreHeld, session
<1>9. \A x : OrdersFor(x)' = OrdersFor(x)
    BY <1>5, OrdersForKept
<1>10. OrdersAreSound'
    <2>1. \A o \in Orders : orders[o] = NoOrder => orders'[o] = NoOrder
        BY <1>5 DEF NoOrder
    <2> QED BY <1>5, <2>1 DEF SettlementInv, OrdersAreSound
<1>11. PaymentsAreExplained'
    <2>1. \A p \in Payments : payments[p] # None => payments[p].order \in Orders
        BY <1>2 DEF SettlementTypeOK, PaymentRow
    <2> QED BY <1>3, <1>5, <2>1 DEF SettlementInv, PaymentsAreExplained, tables
<1>12. PaidByCapture' /\ PaidMeansEntitled'
    BY <1>3, <1>5 DEF SettlementInv, PaidByCapture, PaidMeansEntitled, tables
<1>13. \A e \in Events, o \in Orders : PaysFor(e, orders'[o]) <=> PaysFor(e, orders[o])
    BY <1>5 DEF PaysFor
<1>14. CapturesAreAccounted' /\ VerdictsAreTrue'
    <2>1. \A o \in Orders :
              orders[o].status \in {"paid", "cancelled"} => orders'[o].status = orders[o].status
        BY <1>5
    <2>2. \A e \in Events : OrdersFor(e.porder) \subseteq Orders
        BY DEF OrdersFor
    <2> QED BY <1>3, <1>9, <1>13, <2>1, <2>2
            DEF SettlementInv, CapturesAreAccounted, VerdictsAreTrue, tables
<1>15. WritesAreExclusive' /\ RecordsAreAuthentic' /\ AnsweredMeansRecorded'
    BY <1>3 DEF SettlementInv, WritesAreExclusive, RecordsAreAuthentic, AnsweredMeansRecorded,
                tables, session, provider
<1> QED BY <1>6, <1>7, <1>8, <1>10, <1>11, <1>12, <1>14, <1>15 DEF SettlementInv

-----------------------------------------------------------------------------
(* The invariant.                                                          *)

LEMMA InvInit == SettlementInit => SettlementInv
<1> SUFFICES ASSUME SettlementInit PROVE SettlementInv
    OBVIOUS
<1>1. /\ orders \in [Orders -> OrderRow]
      /\ \A o \in Orders :
            \/ orders[o] = NoOrder
            \/ orders[o].status = "pending" /\ orders[o].items # NoOrder.items
      /\ \A o, q \in Orders :
            orders[o].porder = orders[q].porder /\ orders[o].porder # None => o = q
      /\ MaxFailures \in Nat /\ InitialEvents \subseteq Events
    BY SettlementAssumption DEF SettlementInit
<1>2. SettlementTypeOK
    BY <1>1 DEF SettlementInit, SettlementTypeOK, OrdersTypeOK, Statements, Tables, Verdicts,
                Statuses
<1>3. WorkersKnow
    BY DEF SettlementInit, WorkersKnow, KnowsAt, AtRest, Locking
<1>4. WritesAreExclusive /\ LocksAreHeld
    BY SettlementAssumption DEF SettlementInit, WritesAreExclusive, LocksAreHeld
<1>5. OrdersAreSound
    BY <1>1 DEF OrdersAreSound
<1>6. \A o \in Orders : orders[o].status # "paid"
    BY <1>1 DEF NoOrder
<1>7. PaymentsAreExplained /\ PaidByCapture /\ CapturesAreAccounted /\ RecordsAreAuthentic
    BY <1>6 DEF SettlementInit, PaymentsAreExplained, PaidByCapture, CapturesAreAccounted,
                RecordsAreAuthentic
<1>8. PaidMeansEntitled /\ VerdictsAreTrue /\ AnsweredMeansRecorded
    BY <1>6 DEF SettlementInit, PaidMeansEntitled, VerdictsAreTrue, AnsweredMeansRecorded
<1> QED BY <1>2, <1>3, <1>4, <1>5, <1>7, <1>8 DEF SettlementInv

LEMMA InvStep == SettlementInv /\ [SettlementNext]_settlementVars => SettlementInv'
<1> SUFFICES ASSUME SettlementInv, [SettlementNext]_settlementVars PROVE SettlementInv'
    OBVIOUS
<1>1. CASE UNCHANGED settlementVars
    <2>1. SettlementTypeOK' /\ LocksAreHeld'
        BY <1>1 DEF settlementVars, tables, session, provider, SettlementInv, SettlementTypeOK,
                    OrdersTypeOK, LocksAreHeld
    <2> QED BY <1>1, <2>1, SweeperKeepsWorkers DEF settlementVars, tables
<1>2. ASSUME NEW e \in Events, Reject(e) PROVE SettlementInv'
    BY <1>2, RejectStep
<1>3. ASSUME NEW w \in Workers, NEW e \in Events, Deliver(w, e) PROVE SettlementInv'
    BY <1>3, DeliverStep
<1>4. failures \in 0..MaxFailures /\ MaxFailures \in Nat
    BY SettlementAssumption DEF SettlementInv, SettlementTypeOK
<1>5. ASSUME NEW w \in Workers, Abort(w) \/ RejectPayment(w) \/ CloseDoomed(w)
      PROVE  SettlementInv'
    BY <1>4, <1>5, RollbackStep DEF Abort, RejectPayment, CloseDoomed
<1>6. ASSUME NEW w \in Workers, WorkerStep(w) PROVE SettlementInv'
    BY <1>5, <1>6, RecordWebhookStep, RefuseStep, FindOrderStep, RecordPaymentStep,
       MarkOrderPaidStep, GrantEntitlementsStep, RecordPurchaseEventsStep, CommitStep, ReplyStep
       DEF WorkerStep
<1>7. ASSUME NEW w \in Workers, WorkerFailure(w) PROVE SettlementInv'
    BY <1>5, <1>7, RecordPurchaseEventsStep, ReplyStep DEF WorkerFailure
<1>8. ASSUME NEW s \in Sweepers, SelectExpired(s, Orders) \/ SweeperStep(s) \/ AbortExpired(s)
      PROVE  SettlementInv'
    BY <1>8, SelectExpiredStep, VisitExpiredStep, CommitExpiredStep, AbortExpiredStep
       DEF SweeperStep
<1> QED BY <1>1, <1>2, <1>3, <1>6, <1>7, <1>8 DEF SettlementNext, SettlementStep, Quiescent

(* Every reachable state satisfies the whole invariant.                    *)
THEOREM Invariance == SettlementSpec => []SettlementInv
BY InvInit, InvStep, PTL DEF SettlementSpec

-----------------------------------------------------------------------------
(* What the invariant gives.                                               *)

(* Every variable keeps its type.                                          *)
THEOREM TypeCorrectness == SettlementSpec => []SettlementTypeOK
BY Invariance, PTL DEF SettlementInv

(* "Paid" and "may download" are one fact, whatever interleaves or fails.  *)
THEOREM PaidIsEntitled == SettlementSpec => []PaidMeansEntitled
BY Invariance, PTL DEF SettlementInv

(* What a finished delivery says of its order stays true.                  *)
THEOREM VerdictsHold == SettlementSpec => []VerdictsAreTrue
BY Invariance, PTL DEF SettlementInv

(* Nothing is answered with a 200 and not recorded.                        *)
THEOREM AnswersAreBacked == SettlementSpec => []AnsweredMeansRecorded
BY Invariance, PTL DEF SettlementInv

LEMMA InvGivesCharged == SettlementInv => PaidMeansCharged
<1> SUFFICES ASSUME SettlementInv, NEW o \in Orders, orders[o].status = "paid"
             PROVE  \E d \in Events :
                       /\ IsCapture(d) /\ webhooks[d] = "applied"
                       /\ d.porder = orders[o].porder /\ PaysFor(d, orders[o])
                       /\ payments[d.payment] # None /\ payments[d.payment].order = o
                       /\ \/ payments[d.payment].status = "captured"
                          \/ \E f \in Events : /\ f.type = FailureEvent
                                               /\ f.payment = d.payment
                                               /\ webhooks[f] = "applied"
    BY DEF PaidMeansCharged
<1>1. PICK d \in Events : /\ IsCapture(d) /\ webhooks[d] = "applied"
                          /\ d.porder = orders[o].porder
    BY DEF SettlementInv, PaidByCapture
<1>2. d.payment \in Payments /\ d.porder # None /\ d.payment # None
    BY <1>1, EventFields DEF IsCapture, Actionable
<1>3. o \in OrdersFor(d.porder)
    BY <1>1, <1>2 DEF OrdersFor
<1>4. PaysFor(d, orders[o])
    BY <1>1, <1>3 DEF SettlementInv, VerdictsAreTrue
<1>5. payments[d.payment] # None
    BY <1>1, <1>3, <1>4 DEF SettlementInv, CapturesAreAccounted
<1>6. PICK c \in Events :
          /\ Acceptable(c) /\ Actionable(c) /\ c.payment = d.payment
          /\ orders[payments[d.payment].order].porder = c.porder
          /\ payments[d.payment].status = IF IsCapture(c) THEN "captured" ELSE "failed"
          /\ ~IsCapture(c) => webhooks[c] = "applied"
    BY <1>2, <1>5 DEF SettlementInv, PaymentsAreExplained
<1>7. c.porder = d.porder
    <2>1. Acceptable(d)
        BY <1>1 DEF SettlementInv, RecordsAreAuthentic
    <2> QED BY <1>2, <1>6, <2>1, SamePaymentSameOrder
<1>8. payments[d.payment].order = o
    <2>1. payments[d.payment].order \in Orders
        BY <1>2, <1>5 DEF SettlementInv, SettlementTypeOK, PaymentRow
    <2> QED BY <1>1, <1>2, <1>6, <1>7, <2>1 DEF SettlementInv, OrdersAreSound
<1>9. ~IsCapture(c) => c.type = FailureEvent
    BY <1>6 DEF IsCapture, Actionable
<1> QED BY <1>1, <1>4, <1>5, <1>6, <1>8, <1>9

(* Nothing is paid without a recorded payment of its exact total.          *)
THEOREM PaidIsCharged == SettlementSpec => []PaidMeansCharged
BY Invariance, InvGivesCharged, PTL

-----------------------------------------------------------------------------
(* Only two steps change a table.                                          *)

LEMMA StepKinds ==
    ASSUME SettlementInv, [SettlementNext]_settlementVars
    PROVE  \/ UNCHANGED <<orders, webhooks, payments, entitlements, purchases>>
           \/ \E w \in Workers : Commit(w)
           \/ \E s \in Sweepers : CommitExpired(s)
<1>1. CASE UNCHANGED settlementVars
    BY <1>1 DEF settlementVars, tables
<1>2. ASSUME NEW e \in Events, Reject(e) \/ \E w \in Workers : Deliver(w, e)
      PROVE  UNCHANGED <<orders, webhooks, payments, entitlements, purchases>>
    BY <1>2 DEF Reject, Deliver, tables
<1>3. ASSUME NEW w \in Workers, WorkerStep(w), ~Commit(w)
      PROVE  UNCHANGED <<orders, webhooks, payments, entitlements, purchases>>
    BY <1>3 DEF WorkerStep, RecordWebhook, RefuseUnread, RefuseUnknownOrder, FindOrder,
                RecordPayment, RejectPayment, MarkOrderPaid, GrantEntitlements,
                RecordPurchaseEvents, CloseDoomed, Reply, Rollback, tables
<1>4. ASSUME NEW w \in Workers, WorkerFailure(w)
      PROVE  UNCHANGED <<orders, webhooks, payments, entitlements, purchases>>
    BY <1>4 DEF WorkerFailure, PurchaseEventsFail, Abort, LoseReply, Rollback, tables
<1>5. ASSUME NEW s \in Sweepers, ~CommitExpired(s),
             SelectExpired(s, Orders) \/ SweeperStep(s) \/ AbortExpired(s)
      PROVE  UNCHANGED <<orders, webhooks, payments, entitlements, purchases>>
    BY <1>5 DEF SelectExpired, SweeperStep, VisitExpired, AbortExpired, tables
<1> QED BY <1>1, <1>2, <1>3, <1>4, <1>5 DEF SettlementNext, SettlementStep, Quiescent

LEMMA FinalStep ==
    ASSUME SettlementInv, [SettlementNext]_settlementVars
    PROVE  /\ \A o \in Orders :
                 orders[o].status \in {"paid", "cancelled"} => orders'[o] = orders[o]
           /\ entitlements \subseteq entitlements'
           /\ \A p \in Payments : payments[p] # None => payments'[p] = payments[p]
           /\ \A e \in Events : webhooks[e] # "absent" => webhooks'[e] = webhooks[e]
<1>1. CASE UNCHANGED <<orders, webhooks, payments, entitlements, purchases>>
    BY <1>1
<1>2. CASE \E w \in Workers : Commit(w)
    <2> PICK w \in Workers : Commit(w)
        BY <1>2
    <2>1. /\ \A o \in Orders : "paid" \notin wrote[w] \/ o # target[w] => orders'[o] = orders[o]
          /\ "paid" \in wrote[w] => orders[target[w]].status = "pending"
        BY CommitEffect
    <2>2. entitlements \subseteq entitlements'
        BY CommitEffect
    <2>3. /\ \A p \in Payments : \/ payments'[p] = payments[p]
                                 \/ p = handling[w].payment /\ "payment" \in wrote[w]
          /\ "payment" \in wrote[w] => payments[handling[w].payment] = None
        BY CommitEffect
    <2>4. /\ \A e \in Events : webhooks'[e] = webhooks[e] \/ e = handling[w]
          /\ webhooks[handling[w]] = "absent"
        BY CommitEffect
    <2> QED BY <2>1, <2>2, <2>3, <2>4
<1>3. CASE \E s \in Sweepers : CommitExpired(s)
    <2> PICK s \in Sweepers : CommitExpired(s)
        BY <1>3
    <2>1. \A o \in Orders : orders'[o] = orders[o] \/ orders[o].status = "pending"
        BY CommitExpiredEffect
    <2> QED BY <2>1 DEF CommitExpired, tables
<1> QED BY <1>1, <1>2, <1>3, StepKinds

(* Only a pending order changes status, and no table forgets.              *)
THEOREM StatusesAreFinal == SettlementSpec => StatusIsFinal
<1>1. SettlementInv /\ [SettlementNext]_settlementVars =>
         [/\ \A o \in Orders :
                orders[o].status \in {"paid", "cancelled"} => orders'[o] = orders[o]
          /\ entitlements \subseteq entitlements'
          /\ \A p \in Payments : payments[p] # None => payments'[p] = payments[p]
          /\ \A e \in Events : webhooks[e] # "absent" => webhooks'[e] = webhooks[e]
         ]_settlementVars
    BY FinalStep
<1> QED BY <1>1, Invariance, PTL DEF SettlementSpec, StatusIsFinal

-----------------------------------------------------------------------------
(* Counting.  A set of captures has a cardinality only if it is finite,    *)
(* which it is because each commit adds one at most.                       *)

CountInv ==
    \A o \in Orders : /\ IsFiniteSet(CapturesApplied(o))
                      /\ purchases[o] = Cardinality(CapturesApplied(o))

LEMMA CountInit == SettlementInit => CountInv
<1> SUFFICES ASSUME SettlementInit, NEW o \in Orders
             PROVE  /\ IsFiniteSet(CapturesApplied(o))
                    /\ purchases[o] = Cardinality(CapturesApplied(o))
    BY DEF CountInv
<1>1. CapturesApplied(o) = {} /\ purchases[o] = 0
    BY DEF SettlementInit, CapturesApplied
<1> QED BY <1>1, FS_EmptySet

LEMMA CommitCounts ==
    ASSUME SettlementInv, NEW w \in Workers, Commit(w), CountInv
    PROVE  CountInv'
<1>0. handling[w] \in Events /\ target[w] \in Orders \cup {None}
    BY CommitEffect DEF SettlementInv, SettlementTypeOK
<1> PICK e \in Events, o \in Orders \cup {None} : e = handling[w] /\ o = target[w]
    BY <1>0
<1>1. /\ e \in Events /\ webhooks[e] = "absent" /\ webhooks'[e] = verdict[w]
      /\ \A d \in Events \ {e} : webhooks'[d] = webhooks[d]
      /\ \/ verdict[w] = "refused" /\ RefusedRightly(w)
         \/ verdict[w] = "applied" /\ AppliedRightly(w)
    BY CommitEffect
<1>2. \A q \in Orders : orders'[q].porder = orders[q].porder
    BY CommitEffect
<1>3. SettlementTypeOK
    BY DEF SettlementInv
<1>4. CASE verdict[w] = "applied" /\ IsCapture(e)
    <2>1. HasOrder(w) /\ "purchases" \in wrote[w]
        BY <1>1, <1>4 DEF AppliedRightly, Settling
    <2>2. o \in Orders /\ orders[o].porder = e.porder /\ e.porder # None
        BY <2>1 DEF HasOrder, Actionable
    <2>3. purchases' = [purchases EXCEPT ![o] = @ + 1]
        BY <2>1 DEF Commit
    <2>4. CapturesApplied(o)' = CapturesApplied(o) \cup {e} /\ e \notin CapturesApplied(o)
        BY <1>1, <1>2, <1>3, <1>4, <2>2 DEF CapturesApplied, SettlementTypeOK
    <2>5. \A q \in Orders \ {o} : CapturesApplied(q)' = CapturesApplied(q)
        BY <1>1, <1>2, <2>2 DEF CapturesApplied, SettlementInv, OrdersAreSound
    <2>6. /\ IsFiniteSet(CapturesApplied(o)')
          /\ Cardinality(CapturesApplied(o)') = Cardinality(CapturesApplied(o)) + 1
        <3>1. IsFiniteSet(CapturesApplied(o))
            BY <2>2 DEF CountInv
        <3>2. /\ IsFiniteSet(CapturesApplied(o) \cup {e})
              /\ Cardinality(CapturesApplied(o) \cup {e}) = Cardinality(CapturesApplied(o)) + 1
            BY <2>4, <3>1, FS_AddElement, Zenon
        <3> QED BY <2>4, <3>2, Zenon
    <2>7. /\ purchases'[o] = purchases[o] + 1
          /\ \A q \in Orders \ {o} : purchases'[q] = purchases[q]
        BY <1>3, <2>2, <2>3 DEF SettlementTypeOK
    <2> SUFFICES ASSUME NEW q \in Orders
                 PROVE  /\ IsFiniteSet(CapturesApplied(q)')
                        /\ purchases'[q] = Cardinality(CapturesApplied(q)')
        BY DEF CountInv
    <2>8. CASE q = o
        BY <2>2, <2>6, <2>7, <2>8 DEF CountInv
    <2>9. CASE q # o
        BY <2>5, <2>7, <2>9 DEF CountInv
    <2> QED BY <2>8, <2>9
<1>5. CASE ~(verdict[w] = "applied" /\ IsCapture(e))
    <2>1. purchases' = purchases
        BY <1>1, <1>5 DEF Commit, RefusedRightly, AppliedRightly
    <2>2. \A q \in Orders : CapturesApplied(q)' = CapturesApplied(q)
        BY <1>1, <1>2, <1>3, <1>5 DEF CapturesApplied, SettlementTypeOK
    <2> QED BY <2>1, <2>2 DEF CountInv
<1> QED BY <1>4, <1>5

LEMMA CountStep ==
    SettlementInv /\ CountInv /\ [SettlementNext]_settlementVars => CountInv'
<1> SUFFICES ASSUME SettlementInv, CountInv, [SettlementNext]_settlementVars
             PROVE  CountInv'
    OBVIOUS
<1>1. CASE UNCHANGED <<orders, webhooks, payments, entitlements, purchases>>
    BY <1>1 DEF CountInv, CapturesApplied
<1>2. CASE \E w \in Workers : Commit(w)
    BY <1>2, CommitCounts
<1>3. CASE \E s \in Sweepers : CommitExpired(s)
    <2> PICK s \in Sweepers : CommitExpired(s)
        BY <1>3
    <2>1. UNCHANGED <<webhooks, purchases>>
        BY DEF CommitExpired, tables
    <2>2. \A q \in Orders : orders'[q].porder = orders[q].porder
        BY CommitExpiredEffect
    <2>3. \A q \in Orders : CapturesApplied(q)' = CapturesApplied(q)
        BY <2>1, <2>2 DEF CapturesApplied
    <2> QED BY <2>1, <2>3 DEF CountInv
<1> QED BY <1>1, <1>2, <1>3, StepKinds

(* Purchase events are written once for each capture applied to an order.  *)
THEOREM CountsAreExact == SettlementSpec => []CountsMatchCaptures
<1>1. CountInv => CountsMatchCaptures
    BY DEF CountInv, CountsMatchCaptures
<1> QED BY <1>1, CountInit, CountStep, Invariance, PTL DEF SettlementSpec

-----------------------------------------------------------------------------
(* Settlement implements the ledger.                                       *)

(* The ledger speaks of events in the same words.                          *)
LEMMA SameWords ==
    ASSUME NEW e, NEW row
    PROVE  /\ Ledger!IsCapture(e) <=> IsCapture(e)
           /\ Ledger!Actionable(e) <=> Actionable(e)
           /\ Ledger!PaysFor(e, row) <=> PaysFor(e, row)
BY DEF Ledger!IsCapture, IsCapture, Ledger!Actionable, Actionable, Ledger!PaysFor, PaysFor,
       Ledger!CaptureEvent, CaptureEvent, Ledger!FailureEvent, FailureEvent

LEMMA GrantedArePaid ==
    SettlementInv => Granted = {o \in Orders : orders[o].status = "paid"}
<1> SUFFICES ASSUME SettlementInv, NEW o \in Orders
             PROVE  /\ orders[o].items # NoOrder.items
                    /\ \A p \in DOMAIN orders[o].items : <<o, p>> \in entitlements
                    <=> orders[o].status = "paid"
    BY DEF Granted
<1>1. orders[o].items \in UNION {[S -> Amounts] : S \in SUBSET Products}
    BY DEF SettlementInv, SettlementTypeOK, OrdersTypeOK, OrderRow
<1>2. PICK S \in SUBSET Products : orders[o].items \in [S -> Amounts]
    BY <1>1, Zenon
<1>3. DOMAIN orders[o].items = S
    BY <1>2
<1>4. S = {} => orders[o].items = NoOrder.items
    BY <1>2 DEF NoOrder
<1>5. \A p \in S : <<o, p>> \in entitlements <=> orders[o].status = "paid"
    BY <1>3 DEF SettlementInv, PaidMeansEntitled
<1>6. orders[o].status = "paid" => orders[o].items # NoOrder.items
    BY DEF SettlementInv, OrdersAreSound, NoOrder
<1> QED BY <1>3, <1>4, <1>5, <1>6

LEMMA GrantedArePaidNext ==
    SettlementInv' => Granted' = {o \in Orders : orders'[o].status = "paid"}
<1>1. (SettlementInv => Granted = {o \in Orders : orders[o].status = "paid"})'
    BY GrantedArePaid, PTL
<1> QED BY <1>1

LEMMA LedgerStarts == SettlementInit => Ledger!LedgerInit
<1> SUFFICES ASSUME SettlementInit PROVE Ledger!LedgerInit
    OBVIOUS
<1>1. SettlementInv
    BY InvInit
<1>2. \A o \in Orders : orders[o].status \in {"absent", "pending"}
    BY SettlementAssumption DEF SettlementInit, NoOrder
<1>3. Granted = {}
    BY <1>1, <1>2, GrantedArePaid
<1>4. Handled = {}
    BY DEF SettlementInit, Handled
<1>5. orders \in [Orders -> Ledger!OrderRow]
    BY <1>1 DEF SettlementInv, SettlementTypeOK, OrdersTypeOK, OrderRow, Ledger!OrderRow,
                Statuses, Ledger!Statuses
<1>6. payments = [p \in Payments |-> None]
    BY DEF SettlementInit
<1> QED BY <1>2, <1>3, <1>4, <1>5, <1>6 DEF Ledger!LedgerInit

(* A commit leaves the account of the attempt that the ledger asks for.    *)
LEMMA CommitNotesAttempt ==
    ASSUME SettlementInv, NEW w \in Workers, Commit(w), HasOrder(w), Accounted(w),
           NEW e, e = handling[w], NEW o, o = target[w]
    PROVE  Ledger!NoteAttempt(e, o)
<1>1. "payment" \in wrote[w] <=> payments[handling[w].payment] = None
    BY DEF Accounted, SettlementInv, WritesAreExclusive
<1> QED BY <1>1, SameWords DEF Commit, Ledger!NoteAttempt

LEMMA CommitRefines ==
    ASSUME SettlementInv, SettlementInv', NEW w \in Workers, Commit(w)
    PROVE  Ledger!LedgerNext
<1>0. /\ handling[w] \in Events
      /\ target[w] \in Orders \cup {None}
    BY CommitEffect DEF SettlementInv, SettlementTypeOK
<1> PICK e \in Events : e = handling[w]
    BY <1>0
<1> PICK o \in Orders \cup {None} : o = target[w]
    BY <1>0
<1>1. /\ e \in Events /\ webhooks[e] = "absent"
      /\ \/ verdict[w] = "refused" /\ RefusedRightly(w)
         \/ verdict[w] = "applied" /\ AppliedRightly(w)
      /\ webhooks'[e] = verdict[w]
      /\ \A d \in Events \ {e} : webhooks'[d] = webhooks[d]
    BY CommitEffect
<1>2. Ledger!Once(e)
    <2>1. e \notin Handled /\ Handled' = Handled \cup {e}
        BY <1>1 DEF Handled
    <2> QED BY <2>1 DEF Ledger!Once
<1>3. Granted = {q \in Orders : orders[q].status = "paid"}
    BY GrantedArePaid
<1>4. Granted' = {q \in Orders : orders'[q].status = "paid"}
    BY GrantedArePaidNext
<1>5. "paid" \notin wrote[w] => orders' = orders /\ Granted' = Granted
    BY <1>3, <1>4 DEF Commit
<1>6. HasOrder(w) => o \in Orders /\ orders[o].porder = e.porder
    BY DEF HasOrder
<1>7. \A q \in Orders : q # o /\ HasOrder(w) => orders[q].porder # e.porder
    BY DEF HasOrder, SettlementInv, OrdersAreSound, Actionable
<1>8. CASE /\ verdict[w] = "refused" /\ wrote[w] = {"webhook"}
           /\ HasOrder(w) => IsCapture(e) /\ ~PaysFor(e, orders[o])
    <2>1. \A q \in Orders :
             /\ Actionable(e) => orders[q].porder # e.porder \/ IsCapture(e)
             /\ IsCapture(e) => orders[q].porder # e.porder \/ ~PaysFor(e, orders[q])
        <3>1. CASE ~Actionable(e)
            BY <3>1 DEF IsCapture
        <3>2. CASE Actionable(e) /\ OrdersFor(e.porder) = {}
            BY <3>2 DEF OrdersFor, Actionable
        <3>3. CASE HasOrder(w) /\ IsCapture(e) /\ ~PaysFor(e, orders[o])
            BY <1>7, <3>3
        <3> QED BY <1>1, <1>8, <3>1, <3>2, <3>3 DEF RefusedRightly
    <2>2. UNCHANGED <<orders, payments, Granted>>
        BY <1>5, <1>8 DEF Commit
    <2>3. Ledger!RefuseEvent(e)
        BY <1>2, <2>1, <2>2, SameWords DEF Ledger!RefuseEvent
    <2> QED BY <1>1, <2>3 DEF Ledger!LedgerNext
<1>9. CASE /\ "paid" \notin wrote[w] /\ HasOrder(w) /\ Accounted(w) /\ IsCapture(e)
           /\ PaysFor(e, orders[o]) /\ orders[o].status \in {"paid", "cancelled"}
    <2>1. UNCHANGED <<orders, Granted>>
        BY <1>5, <1>9
    <2>2. Ledger!NoteCapture(e, o)
        BY <1>2, <1>6, <1>9, <2>1, CommitNotesAttempt, SameWords DEF Ledger!NoteCapture
    <2> QED BY <1>1, <1>6, <1>9, <2>2 DEF Ledger!LedgerNext
<1>10. CASE "paid" \notin wrote[w] /\ HasOrder(w) /\ Accounted(w) /\ Actionable(e) /\ ~IsCapture(e)
    <2>1. UNCHANGED <<orders, Granted>>
        BY <1>5, <1>10
    <2>2. Ledger!NoteFailure(e, o)
        BY <1>2, <1>6, <1>10, <2>1, CommitNotesAttempt, SameWords DEF Ledger!NoteFailure
    <2> QED BY <1>1, <1>6, <1>10, <2>2 DEF Ledger!LedgerNext
<1>11. CASE "paid" \in wrote[w] /\ Settling(w)
    <2>1. /\ HasOrder(w) /\ Accounted(w) /\ IsCapture(e) /\ PaysFor(e, orders[o])
          /\ orders[o].status = "pending"
        BY <1>11 DEF Settling, HasOrder
    <2>2. orders' = [orders EXCEPT ![o].status = "paid"]
        BY <1>11 DEF Commit
    <2>3. Granted' = Granted \cup {o}
        <3>1. /\ orders'[o].status = "paid"
              /\ \A q \in Orders \ {o} : orders'[q] = orders[q]
            BY <1>11, CommitEffect
        <3> QED BY <1>3, <1>4, <1>6, <2>1, <3>1
    <2>4. Ledger!SettleOrder(e, o)
        BY <1>2, <1>6, <2>1, <2>2, <2>3, CommitNotesAttempt, SameWords
           DEF Ledger!SettleOrder
    <2> QED BY <1>1, <1>6, <2>1, <2>4 DEF Ledger!LedgerNext
<1>12. \/ /\ verdict[w] = "refused" /\ wrote[w] = {"webhook"}
          /\ HasOrder(w) => IsCapture(e) /\ ~PaysFor(e, orders[o])
       \/ /\ "paid" \notin wrote[w] /\ HasOrder(w) /\ Accounted(w) /\ IsCapture(e)
          /\ PaysFor(e, orders[o]) /\ orders[o].status \in {"paid", "cancelled"}
       \/ "paid" \notin wrote[w] /\ HasOrder(w) /\ Accounted(w) /\ Actionable(e) /\ ~IsCapture(e)
       \/ "paid" \in wrote[w] /\ Settling(w)
    <2>1. CASE verdict[w] = "refused" /\ RefusedRightly(w)
        <3>1. "paid" \notin wrote[w]
            BY <2>1 DEF RefusedRightly
        <3>2. HasOrder(w) => Actionable(e) /\ OrdersFor(e.porder) # {}
            BY DEF HasOrder, OrdersFor, Actionable
        <3>3. HasOrder(w) => seen[w] = orders[o].status
            BY DEF HasOrder
        <3> QED BY <2>1, <3>1, <3>2, <3>3 DEF RefusedRightly
    <2>2. CASE verdict[w] = "applied" /\ AppliedRightly(w)
        <3>1. CASE IsCapture(e)
            BY <2>2, <3>1 DEF AppliedRightly, Settling, HasOrder
        <3>2. CASE ~IsCapture(e)
            BY <2>2, <3>2 DEF AppliedRightly, HasOrder
        <3> QED BY <3>1, <3>2
    <2> QED BY <1>1, <2>1, <2>2
<1> QED BY <1>8, <1>9, <1>10, <1>11, <1>12

LEMMA CommitExpiredRefines ==
    ASSUME SettlementInv, SettlementInv', NEW s \in Sweepers, CommitExpired(s)
    PROVE  Ledger!LedgerNext
<1>1. LockedBy(s) \in SUBSET Orders
    BY DEF LockedBy
<1> PICK S \in SUBSET Orders : S = LockedBy(s)
    BY <1>1
<1>2. \A o \in S : orders[o].status = "pending"
    BY CommitExpiredEffect DEF LockedBy
<1>3. orders' = [o \in Orders |-> IF o \in S
                                 THEN [orders[o] EXCEPT !.status = "cancelled"]
                                 ELSE orders[o]]
    BY DEF CommitExpired, CancelOrders
<1>4. UNCHANGED <<payments, Handled>>
    BY DEF CommitExpired, tables, Handled
<1>5. UNCHANGED Granted
    <2>1. \A o \in Orders : orders'[o].status = "paid" <=> orders[o].status = "paid"
        BY CommitExpiredEffect
    <2> QED BY <2>1, GrantedArePaid, GrantedArePaidNext
<1>6. Ledger!CancelUnpaid(S)
    BY <1>2, <1>3, <1>4, <1>5 DEF Ledger!CancelUnpaid
<1> QED BY <1>6 DEF Ledger!LedgerNext

LEMMA LedgerSteps ==
    SettlementInv /\ SettlementInv' /\ [SettlementNext]_settlementVars
        => [Ledger!LedgerNext]_(Ledger!ledger)
<1> SUFFICES ASSUME SettlementInv, SettlementInv', [SettlementNext]_settlementVars
             PROVE  Ledger!LedgerNext \/ UNCHANGED Ledger!ledger
    OBVIOUS
<1>1. CASE UNCHANGED <<orders, webhooks, payments, entitlements, purchases>>
    BY <1>1 DEF Ledger!ledger, Granted, Handled
<1>2. CASE \E w \in Workers : Commit(w)
    BY <1>2, CommitRefines
<1>3. CASE \E s \in Sweepers : CommitExpired(s)
    BY <1>3, CommitExpiredRefines
<1> QED BY <1>1, <1>2, <1>3, StepKinds

(* The transactions of the webhook endpoint and the expiry job implement   *)
(* the ledger, in which every event is one step.                           *)
THEOREM Refinement == SettlementSpec => ImplementsLedger
BY LedgerStarts, LedgerSteps, Invariance, PTL
   DEF SettlementSpec, ImplementsLedger, Ledger!LedgerSpec

(***************************************************************************)
(* Commerce.                                                               *)
(***************************************************************************)

-----------------------------------------------------------------------------
(* Rows.                                                                   *)

(* A row that does not exist is NoOrder: nothing is attached to it.        *)
LEMMA AbsentRow ==
    ASSUME SettlementInv, NEW o \in Orders, orders[o].status = "absent"
    PROVE  orders[o] = NoOrder /\ orders[o].porder = None /\ orders[o].key = None
BY DEF SettlementInv, OrdersAreSound, NoOrder

LEMMA NoOrderIsARow == NoOrder \in OrderRow /\ NoOrder.items \in Lines
<1>1. NoOrder.items \in [{} -> Amounts]
    BY DEF NoOrder
<1>2. {} \in SUBSET Products
    OBVIOUS
<1>3. NoOrder.items \in Lines
    BY <1>1, <1>2 DEF Lines
<1> QED BY <1>3 DEF NoOrder, OrderRow, Lines, Statuses

LEMMA SameLines == Lines = UNION {[S -> Amounts] : S \in SUBSET Products}
BY DEF Lines

(* Attaching a Razorpay order to a row changes nothing else of it.         *)
LEMMA RowWithProvider ==
    ASSUME NEW row \in OrderRow, NEW po \in ProviderOrders
    PROVE  LET r == [row EXCEPT !.porder = po] IN
           /\ r \in OrderRow
           /\ r.porder = po
           /\ r.status = row.status /\ r.key = row.key
           /\ r.total = row.total /\ r.items = row.items
BY DEF OrderRow

-----------------------------------------------------------------------------
(* Commerce runs Settlement's own steps: the orders it leaves to the job   *)
(* are some of those Settlement lets it choose from.                       *)

LEMMA SettlementStepAged ==
    SettlementStep(OldOrders) => SettlementStep(Orders)
<1>1. ASSUME NEW s \in Sweepers, SelectExpired(s, OldOrders)
      PROVE  SelectExpired(s, Orders)
    <2>1. {o \in OldOrders : orders[o].status = "pending"}
             \subseteq {o \in Orders : orders[o].status = "pending"}
        BY DEF OldOrders
    <2> QED BY <1>1, <2>1 DEF SelectExpired
<1> QED BY <1>1 DEF SettlementStep

(* What a step of Settlement does to the orders table: statuses move, and  *)
(* no row appears, vanishes or is repriced.                                *)
RowsMove ==
    \A o \in Orders :
        /\ orders'[o].porder = orders[o].porder /\ orders'[o].key = orders[o].key
        /\ orders'[o].total = orders[o].total /\ orders'[o].items = orders[o].items
        /\ orders'[o].status = "absent" <=> orders[o].status = "absent"

LEMMA RowEffect ==
    ASSUME SettlementInv, SettlementStep(Orders)
    PROVE  RowsMove
<1>1. CASE UNCHANGED <<orders, webhooks, payments, entitlements, purchases>>
    BY <1>1 DEF RowsMove
<1>2. CASE \E w \in Workers : Commit(w)
    <2> PICK w \in Workers : Commit(w)
        BY <1>2
    <2>1. \A o \in Orders :
             /\ orders'[o].porder = orders[o].porder /\ orders'[o].key = orders[o].key
             /\ orders'[o].total = orders[o].total /\ orders'[o].items = orders[o].items
             /\ "paid" \notin wrote[w] \/ o # target[w] => orders'[o] = orders[o]
        BY CommitEffect
    <2>2. "paid" \in wrote[w] =>
             orders[target[w]].status = "pending" /\ orders'[target[w]].status = "paid"
        BY CommitEffect
    <2> QED BY <2>1, <2>2 DEF RowsMove
<1>3. CASE \E s \in Sweepers : CommitExpired(s)
    <2> PICK s \in Sweepers : CommitExpired(s)
        BY <1>3
    <2> QED BY CommitExpiredEffect DEF RowsMove
<1> QED BY <1>1, <1>2, <1>3, StepKinds DEF SettlementNext

(* A worker handles what Razorpay sent, and records what it handles.       *)
LEMMA DeliveryEffect ==
    ASSUME SettlementInv, SettlementStep(Orders)
    PROVE  /\ emitted' = emitted
           /\ \A w \in Workers : handling'[w] \in emitted \cup {None, handling[w]}
           /\ \A e \in Events :
                 webhooks'[e] # webhooks[e] => \E w \in Workers : e = handling[w]
<1>1. \A e \in Events : webhooks'[e] # webhooks[e] => \E w \in Workers : e = handling[w]
    <2>1. CASE \E w \in Workers : Commit(w)
        BY <2>1, CommitEffect
    <2>2. CASE \E s \in Sweepers : CommitExpired(s)
        BY <2>2 DEF CommitExpired, tables
    <2> QED BY <2>1, <2>2, StepKinds DEF SettlementNext
<1> DEFINE Fine == /\ emitted' = emitted
                   /\ \A w \in Workers : handling'[w] \in emitted \cup {None, handling[w]}
<1>2. handling \in [Workers -> Events \cup {None}]
    BY DEF SettlementInv, SettlementTypeOK
<1>3. ASSUME NEW e \in Events, Reject(e) PROVE Fine
    BY <1>3 DEF Reject, session
<1>4. ASSUME NEW w \in Workers, NEW e \in Events, Deliver(w, e) PROVE Fine
    BY <1>2, <1>4 DEF Deliver, provider
<1>5. ASSUME NEW w \in Workers, WorkerStep(w) PROVE Fine
    BY <1>2, <1>5
       DEF WorkerStep, RecordWebhook, RefuseUnread, RefuseUnknownOrder, FindOrder,
           RecordPayment, RejectPayment, MarkOrderPaid, GrantEntitlements,
           RecordPurchaseEvents, CloseDoomed, Commit, Reply, Rollback, provider
<1>6. ASSUME NEW w \in Workers, WorkerFailure(w) PROVE Fine
    BY <1>2, <1>6 DEF WorkerFailure, PurchaseEventsFail, Abort, LoseReply, Rollback, provider
<1>7. ASSUME NEW s \in Sweepers,
             SelectExpired(s, Orders) \/ SweeperStep(s) \/ AbortExpired(s)
      PROVE  Fine
    BY <1>7 DEF SelectExpired, SweeperStep, VisitExpired, CommitExpired, AbortExpired,
                session, provider
<1> HIDE DEF Fine
<1>8. Fine
    BY <1>3, <1>4, <1>5, <1>6, <1>7 DEF SettlementStep
<1> QED BY <1>1, <1>8 DEF Fine

(* Settlement locks only rows that exist.                                  *)
LEMMA LockEffect ==
    ASSUME SettlementInv, SettlementStep(Orders), NEW o \in Orders, rowLock'[o] # None
    PROVE  rowLock[o] # None \/ orders[o].status # "absent"
<1> DEFINE Fine == rowLock[o] # None \/ orders[o].status # "absent"
<1>1. /\ rowLock \in [Orders -> Sessions \cup {None}]
      /\ SettlementTypeOK
    BY DEF SettlementInv, SettlementTypeOK, OrdersTypeOK
<1>2. ASSUME rowLock' = rowLock PROVE Fine
    BY <1>2
<1>3. ASSUME NEW s, Unlock(s) PROVE Fine
    BY <1>1, <1>3 DEF Unlock
<1>4. ASSUME NEW w \in Workers, FindOrder(w) PROVE Fine
    <2>1. PICK q \in OrdersFor(handling[w].porder) : LockRow(q, w)
        BY <1>4 DEF FindOrder
    <2>2. q \in Orders /\ orders[q].status # "absent"
        BY <2>1, AbsentRow DEF OrdersFor
    <2> QED BY <1>1, <2>1, <2>2 DEF LockRow
<1>5. ASSUME NEW w \in Workers, MarkOrderPaid(w) PROVE Fine
    <2>1. target[w] \in Orders /\ rowLock[target[w]] = w /\ LockRow(target[w], w)
        BY <1>5 DEF MarkOrderPaid, SettlementInv, WorkersKnow, KnowsAt, Locking, HasOrder
    <2> QED BY <1>1, <2>1 DEF LockRow
<1>6. ASSUME NEW s \in Sweepers, VisitExpired(s) PROVE Fine
    <2>1. PICK q \in batch[s] : \/ orders[q].status = "pending" /\ LockRow(q, s)
                                \/ UNCHANGED rowLock
        BY <1>6 DEF VisitExpired
    <2> QED BY <1>1, <2>1 DEF LockRow
<1> HIDE DEF Fine
<1>7. ASSUME NEW w \in Workers, WorkerStep(w) PROVE Fine
    BY <1>2, <1>3, <1>4, <1>5, <1>7
       DEF WorkerStep, RecordWebhook, RefuseUnread, RefuseUnknownOrder,
           RecordPayment, RejectPayment, GrantEntitlements,
           RecordPurchaseEvents, CloseDoomed, Commit, Reply, Rollback, EndSession
<1>8. ASSUME NEW w \in Workers, WorkerFailure(w) PROVE Fine
    BY <1>2, <1>3, <1>8
       DEF WorkerFailure, PurchaseEventsFail, Abort, LoseReply, Rollback, EndSession
<1>9. ASSUME NEW s \in Sweepers,
             SelectExpired(s, Orders) \/ SweeperStep(s) \/ AbortExpired(s)
      PROVE  Fine
    BY <1>2, <1>3, <1>6, <1>9 DEF SelectExpired, SweeperStep, CommitExpired, AbortExpired
<1>10. Fine
    BY <1>2, <1>7, <1>8, <1>9 DEF SettlementStep, Reject, Deliver
<1> QED BY <1>10 DEF Fine

-----------------------------------------------------------------------------
(* What a request knows survives the steps of everyone else.               *)

(* A committed row keeps its lines and its key, and gets its Razorpay      *)
(* order once.                                                             *)
RowsGrow ==
    \A o \in Orders : orders[o].status # "absent" =>
        /\ orders'[o].status # "absent" /\ orders'[o].key = orders[o].key
        /\ orders'[o].total = orders[o].total /\ orders'[o].items = orders[o].items
        /\ \/ orders'[o].porder = orders[o].porder
           \/ orders[o].porder = None /\ ProviderEnabled

RazorpayKeeps ==
    \A po \in ProviderOrders : razorpay[po] # NotHeld => razorpay'[po] = razorpay[po]

LEMMA RequestKept ==
    ASSUME NEW q \in Requests, RequestKnows(q), RowsGrow, RazorpayKeeps,
           step'[q] = step[q], lines'[q] = lines[q], copy'[q] = copy[q],
           chosen'[q] = chosen[q], created'[q] = created[q],
           step[q] = "commit" =>
              /\ orders'[chosen[q]].status = "absent"
              /\ \A o \in Orders : KeyOf[q] # None => orders'[o].key # KeyOf[q]
    PROVE  RequestKnows(q)'
<1>1. step[q] = "commit" => HoldsNewRow(q)'
    BY DEF RequestKnows, HoldsNewRow
<1>2. KnowsRow(q) => KnowsRow(q)'
    BY DEF KnowsRow, RowsGrow
<1>3. step[q] = "attach" =>
         razorpay'[created[q]] = [receipt |-> chosen[q], amount |-> orders'[chosen[q]].total]
    <2> SUFFICES ASSUME step[q] = "attach"
                 PROVE  razorpay'[created[q]] =
                           [receipt |-> chosen[q], amount |-> orders'[chosen[q]].total]
        OBVIOUS
    <2>1. /\ chosen[q] \in Orders /\ orders[chosen[q]].status # "absent"
          /\ created[q] \in ProviderOrders
          /\ razorpay[created[q]] = [receipt |-> chosen[q],
                                     amount  |-> orders[chosen[q]].total]
        BY DEF RequestKnows, KnowsRow
    <2>2. razorpay[created[q]] # NotHeld
        BY <2>1, NoneIsFresh DEF NotHeld
    <2> QED BY <2>1, <2>2 DEF RowsGrow, RazorpayKeeps
<1>4. step[q] = "done" =>
         /\ copy[q].porder = orders'[chosen[q]].porder
         /\ ProviderEnabled => copy[q].porder # None
    BY DEF RequestKnows, KnowsRow, RowsGrow
<1> QED BY <1>1, <1>2, <1>3, <1>4 DEF RequestKnows

LEMMA RowsMoveGrows == RowsMove => RowsGrow
BY DEF RowsMove, RowsGrow

(* The rows of other modules' steps: statuses move, Razorpay is idle.      *)
LEMMA CheckoutKept ==
    ASSUME CommerceInv, RowsMove, UNCHANGED <<requests, razorpay>>
    PROVE  RequestsKnow' /\ InsertsAreApart' /\ OneOrderPerKey' /\ RowsAreHonoured'
<1>1. RowsGrow /\ RazorpayKeeps
    BY RowsMoveGrows DEF RazorpayKeeps
<1>2. UNCHANGED <<step, lines, copy, chosen, created>>
    BY DEF requests
<1>3. ASSUME NEW q \in Requests PROVE RequestKnows(q)'
    <2>1. step[q] = "commit" =>
             /\ orders'[chosen[q]].status = "absent"
             /\ \A o \in Orders : KeyOf[q] # None => orders'[o].key # KeyOf[q]
        <3>1. step[q] = "commit" => HoldsNewRow(q)
            BY DEF CommerceInv, CheckoutInv, RequestsKnow, RequestKnows
        <3> QED BY <3>1 DEF HoldsNewRow, RowsMove
    <2> QED BY <1>1, <1>2, <2>1, RequestKept DEF CommerceInv, CheckoutInv, RequestsKnow
<1>4. InsertsAreApart'
    BY <1>2 DEF CommerceInv, CheckoutInv, InsertsAreApart
<1>5. OneOrderPerKey' /\ RowsAreHonoured'
    BY DEF CommerceInv, CheckoutInv, OneOrderPerKey, RowsAreHonoured, RowsMove
<1> QED BY <1>3, <1>4, <1>5 DEF RequestsKnow

LEMMA SettlementSide ==
    ASSUME CommerceInv, SettlementStep(OldOrders), UNCHANGED checkoutOnly
    PROVE  CommerceInv'
<1>1. SettlementInv /\ SettlementStep(Orders) /\ SettlementNext
    BY SettlementStepAged DEF CommerceInv, SettlementNext
<1>2. SettlementInv'
    BY <1>1, InvStep
<1>3. UNCHANGED <<catalog, requests, step, lines, copy, chosen, created, razorpay, edits, mishaps>>
    BY DEF checkoutOnly, requests
<1>4. CheckoutTypeOK'
    BY <1>2, <1>3 DEF CommerceInv, CheckoutTypeOK, SettlementInv, SettlementTypeOK
<1>5. RowsMove
    BY <1>1, RowEffect
<1>6. RequestsKnow' /\ InsertsAreApart' /\ OneOrderPerKey' /\ RowsAreHonoured'
    BY <1>3, <1>5, CheckoutKept
<1>7. LockedRowsExist'
    BY <1>1, <1>5, LockEffect DEF CommerceInv, CheckoutInv, LockedRowsExist, RowsMove
<1>8. /\ emitted' = emitted
      /\ \A w \in Workers : handling'[w] \in emitted \cup {None, handling[w]}
      /\ \A e \in Events :
            webhooks'[e] # webhooks[e] => \E w \in Workers : e = handling[w]
    BY <1>1, DeliveryEffect
<1>9. EventsAreEarned'
    <2>1. \A e \in Events, o \in Orders : PaysFor(e, orders'[o]) <=> PaysFor(e, orders[o])
        BY <1>5 DEF PaysFor, RowsMove
    <2>2. \A x : OrdersFor(x)' = OrdersFor(x)
        BY <1>5, OrdersForKept DEF RowsMove
    <2>3. emitted \subseteq Events /\ \A x : OrdersFor(x) \subseteq Orders
        BY <1>1 DEF SettlementInv, SettlementTypeOK, OrdersFor
    <2> QED BY <1>8, <2>1, <2>2, <2>3 DEF CommerceInv, CheckoutInv, EventsAreEarned
<1>10. OnlyEmittedIsHandled'
    <2>1. \A w \in Workers : handling[w] \in emitted \cup {None}
        BY DEF CommerceInv, CheckoutInv, OnlyEmittedIsHandled
    <2>2. ASSUME NEW e \in Events, webhooks'[e] # "absent" PROVE e \in emitted
        BY <1>8, <2>1, <2>2, EventFields DEF CommerceInv, CheckoutInv, OnlyEmittedIsHandled
    <2> QED BY <1>8, <2>1, <2>2 DEF OnlyEmittedIsHandled
<1> QED BY <1>2, <1>4, <1>6, <1>7, <1>9, <1>10 DEF CommerceInv, CheckoutInv

(* A payment through an open window is for the sum of the order behind it. *)
LEMMA AttemptStep ==
    ASSUME CommerceInv, NEW e \in Events, Attempt(e)
    PROVE  CommerceInv'
<1>1. /\ UNCHANGED <<orders, rowLock, catalog, requests, step, lines, copy, chosen, created,
                     razorpay, edits, mishaps, tables, webhooks, payments, entitlements,
                     purchases, pc, session, handling, target, seen, wrote, verdict, batch,
                     answered, failures>>
      /\ emitted' = emitted \cup {e}
    BY DEF Attempt, checkoutOnly, requests, tables, session
<1>2. SettlementInv'
    <2>1. SettlementTypeOK'
        BY <1>1 DEF CommerceInv, SettlementInv, SettlementTypeOK, OrdersTypeOK
    <2>2. WorkersKnow'
        BY <1>1, KnowledgeKept DEF CommerceInv, SettlementInv, WorkersKnow
    <2>3. WritesAreExclusive' /\ LocksAreHeld' /\ AnsweredMeansRecorded'
        BY <1>1 DEF CommerceInv, SettlementInv, WritesAreExclusive, LocksAreHeld,
                    AnsweredMeansRecorded
    <2> QED BY <1>1, <2>1, <2>2, <2>3, TablesKept DEF CommerceInv, SettlementInv
<1>3. CheckoutTypeOK'
    BY <1>1 DEF CommerceInv, CheckoutTypeOK, OrdersTypeOK
<1>4. RequestsKnow' /\ InsertsAreApart' /\ OneOrderPerKey' /\ RowsAreHonoured'
    BY <1>1, CheckoutKept DEF RowsMove
<1>5. LockedRowsExist' /\ OnlyEmittedIsHandled'
    BY <1>1 DEF CommerceInv, CheckoutInv, LockedRowsExist, OnlyEmittedIsHandled
<1>6. \E o \in OrdersFor(e.porder) : PaysFor(e, orders[o])
    <2>1. PICK r \in Requests : step[r] = "done" /\ copy[r].porder = e.porder
        BY DEF Attempt, Shown
    <2>2. /\ chosen[r] \in Orders /\ orders[chosen[r]].porder = e.porder /\ e.porder # None
        BY <2>1 DEF CommerceInv, CheckoutInv, RequestsKnow, RequestKnows, KnowsRow,
                    Attempt, Actionable
    <2>3. razorpay[e.porder].amount = orders[chosen[r]].total
        <3>1. razorpay[orders[chosen[r]].porder] =
                 [receipt |-> chosen[r], amount |-> orders[chosen[r]].total]
            BY <2>2 DEF CommerceInv, CheckoutInv, RowsAreHonoured
        <3> QED BY <2>2, <3>1
    <2> QED BY <2>2, <2>3 DEF OrdersFor, PaysFor, Attempt
<1>7. EventsAreEarned'
    BY <1>1, <1>6 DEF CommerceInv, CheckoutInv, EventsAreEarned, OrdersFor
<1> QED BY <1>2, <1>3, <1>4, <1>5, <1>7 DEF CommerceInv, CheckoutInv

LEMMA CommerceStarts == CommerceInit => CommerceInv
<1> SUFFICES ASSUME CommerceInit PROVE CommerceInv
    BY DEF CommerceInit
<1>1. SettlementInv
    BY InvInit DEF CommerceInit
<1>2. \A o \in Orders : orders[o] = NoOrder
    BY DEF CommerceInit, CheckoutInit
<1>3. CheckoutTypeOK
    BY <1>1, CheckoutAssumption, NoOrderIsARow
       DEF CommerceInit, CheckoutInit, CheckoutTypeOK, SettlementInv, SettlementTypeOK,
           Steps, NotHeld
<1>4. RequestsKnow /\ InsertsAreApart
    BY DEF CommerceInit, CheckoutInit, RequestsKnow, RequestKnows, InsertsAreApart
<1>5. OneOrderPerKey /\ RowsAreHonoured
    BY <1>2 DEF OneOrderPerKey, RowsAreHonoured, NoOrder
<1>6. LockedRowsExist
    BY DEF CommerceInit, CheckoutInit, LockedRowsExist
<1>7. EventsAreEarned /\ OnlyEmittedIsHandled
    BY CommerceAssumption
       DEF CommerceInit, SettlementInit, EventsAreEarned, OnlyEmittedIsHandled
<1> QED BY <1>1, <1>3, <1>4, <1>5, <1>6, <1>7 DEF CommerceInv, CheckoutInv

-----------------------------------------------------------------------------
(* Checkout writes rows that no delivery and no event is about.            *)

LEMMA RowWritten ==
    ASSUME CommerceInv, UNCHANGED <<rowLock, settlementOnly>>,
           NEW o \in Orders, orders' \in [Orders -> OrderRow],
           \A q \in Orders \ {o} : orders'[q] = orders[q],
           rowLock[o] = None, orders[o].porder = None,
           orders'[o].status = orders[o].status \/ orders'[o].status = "pending",
           orders'[o].status # "absent", orders'[o].items # NoOrder.items,
           \A q \in Orders : orders[q].porder = orders'[o].porder => orders[q].porder = None
    PROVE  SettlementInv'
<1>1. UNCHANGED <<rowLock, tables, webhooks, payments, entitlements, purchases, pc, session,
                  handling, target, seen, wrote, verdict, batch, provider, emitted, answered,
                  failures>>
    BY DEF settlementOnly, tables, session, provider
<1>2. SettlementInv /\ SettlementTypeOK
    BY DEF CommerceInv, SettlementInv
<1>3. SettlementTypeOK'
    BY <1>1, <1>2 DEF SettlementTypeOK, OrdersTypeOK
<1>4. ASSUME NEW e \in emitted, Acceptable(e), Actionable(e)
      PROVE  /\ OrdersFor(e.porder)' = OrdersFor(e.porder)
             /\ o \notin OrdersFor(e.porder)
             /\ \A q \in OrdersFor(e.porder) : q \in Orders /\ orders'[q] = orders[q]
    <2>1. PICK x \in Orders : orders[x].porder = e.porder /\ e.porder # None
        BY <1>4 DEF CommerceInv, CheckoutInv, EventsAreEarned, OrdersFor
    <2>2. orders[o].porder # e.porder /\ orders'[o].porder # e.porder
        BY <2>1
    <2> QED BY <2>2 DEF OrdersFor
<1>5. WorkersKnow'
    <2> SUFFICES ASSUME NEW v \in Workers PROVE KnowsAt(v)'
        BY DEF WorkersKnow
    <2>1. KnowsAt(v) /\ handling[v] \in emitted \cup {None} /\ v # None
        BY <1>2, SettlementAssumption
           DEF CommerceInv, CheckoutInv, OnlyEmittedIsHandled, SettlementInv, WorkersKnow
    <2>2. handling[v] # None /\ Actionable(handling[v]) =>
             OrdersFor(handling[v].porder)' = OrdersFor(handling[v].porder)
        <3>1. handling[v] # None => Acceptable(handling[v])
            BY <2>1 DEF KnowsAt
        <3> QED BY <1>1, <1>4, <2>1, <3>1 DEF OrdersFor
    <2> QED BY <1>1, <1>2, <2>1, <2>2, KnowledgeSurvives
<1>6. WritesAreExclusive' /\ AnsweredMeansRecorded' /\ RecordsAreAuthentic'
    BY <1>1, <1>2 DEF SettlementInv, WritesAreExclusive, AnsweredMeansRecorded,
                      RecordsAreAuthentic
<1>7. LocksAreHeld'
    BY <1>1, <1>2, SettlementAssumption DEF SettlementInv, LocksAreHeld
<1>8. OrdersAreSound'
    BY <1>2 DEF SettlementInv, OrdersAreSound
<1>9. \A e \in Events : webhooks[e] # "absent" => e \in emitted /\ Acceptable(e)
    BY <1>2 DEF CommerceInv, CheckoutInv, OnlyEmittedIsHandled, SettlementInv,
                RecordsAreAuthentic
<1>10. CapturesAreAccounted' /\ VerdictsAreTrue'
    <2>1. ASSUME NEW e \in Events, IsCapture(e), webhooks[e] # "absent",
                 NEW q \in OrdersFor(e.porder)'
          PROVE  q \in OrdersFor(e.porder) /\ orders'[q] = orders[q]
        BY <1>4, <1>9, <2>1 DEF IsCapture
    <2>2. \A e \in Events, q \in Orders :
             orders'[q] = orders[q] => (PaysFor(e, orders[q])' <=> PaysFor(e, orders[q]))
        BY DEF PaysFor
    <2>3. \A x : OrdersFor(x)' \subseteq Orders
        BY DEF OrdersFor
    <2>4. CapturesAreAccounted'
        BY <1>1, <1>2, <2>1, <2>2, <2>3 DEF SettlementInv, CapturesAreAccounted
    <2>5. VerdictsAreTrue'
        BY <1>1, <1>2, <2>1, <2>2, <2>3 DEF SettlementInv, VerdictsAreTrue
    <2> QED BY <2>4, <2>5
<1>11. PaymentsAreExplained'
    <2> SUFFICES ASSUME NEW p \in Payments, payments[p] # None
                 PROVE  \E e \in Events :
                           /\ Acceptable(e) /\ Actionable(e) /\ e.payment = p
                           /\ webhooks[e] # "absent"
                           /\ orders'[payments[p].order].porder = e.porder
                           /\ payments[p].status =
                                 IF IsCapture(e) THEN "captured" ELSE "failed"
                           /\ ~IsCapture(e) => webhooks[e] = "applied"
        BY <1>1 DEF PaymentsAreExplained
    <2>1. PICK e \in Events :
             /\ Acceptable(e) /\ Actionable(e) /\ e.payment = p
             /\ webhooks[e] # "absent"
             /\ orders[payments[p].order].porder = e.porder
             /\ payments[p].status = IF IsCapture(e) THEN "captured" ELSE "failed"
             /\ ~IsCapture(e) => webhooks[e] = "applied"
        BY <1>2 DEF SettlementInv, PaymentsAreExplained
    <2>2. payments[p].order \in Orders
        BY <1>2 DEF SettlementTypeOK, PaymentRow
    <2>3. payments[p].order # o
        BY <2>1 DEF Actionable
    <2> QED BY <2>1, <2>2, <2>3
<1>12. orders[o].status # "paid" /\ orders'[o].status # "paid"
    <2>1. orders[o].status # "paid"
        BY <1>2 DEF SettlementInv, PaidByCapture, IsCapture, Actionable
    <2> QED BY <2>1
<1>13. PaidByCapture' /\ PaidMeansEntitled'
    BY <1>1, <1>2, <1>12 DEF SettlementInv, PaidByCapture, PaidMeansEntitled
<1> QED BY <1>3, <1>5, <1>6, <1>7, <1>8, <1>10, <1>11, <1>13 DEF SettlementInv

(* A step of checkout that writes no row.                                  *)
LEMMA NoRowWritten ==
    ASSUME CommerceInv, UNCHANGED <<orders, rowLock, settlementOnly>>
    PROVE  SettlementInv' /\ RowsMove
<1>1. UNCHANGED settlementVars
    BY DEF settlementOnly, settlementVars
<1> QED BY <1>1, InvStep DEF CommerceInv, RowsMove

-----------------------------------------------------------------------------
(* The steps of one request.                                               *)

OtherRequestsKeep(r) ==
    \A q \in Requests \ {r} :
        /\ step'[q] = step[q] /\ lines'[q] = lines[q] /\ copy'[q] = copy[q]
        /\ chosen'[q] = chosen[q] /\ created'[q] = created[q]

(* A step of r that writes no row preserves the invariant if it leaves r   *)
(* knowing what it should.                                                 *)
LEMMA QuietStep ==
    ASSUME CommerceInv, NEW r \in Requests, OtherRequestsKeep(r), RazorpayKeeps,
           UNCHANGED <<orders, rowLock, settlementOnly>>,
           CheckoutTypeOK', RequestKnows(r)', InsertsAreApart'
    PROVE  CommerceInv'
<1>1. SettlementInv' /\ RowsMove
    BY NoRowWritten
<1>2. RowsGrow
    BY <1>1, RowsMoveGrows
<1>3. ASSUME NEW q \in Requests PROVE RequestKnows(q)'
    <2>1. CASE q = r
        BY <2>1
    <2>2. CASE q # r
        <3>1. step[q] = "commit" =>
                 /\ orders'[chosen[q]].status = "absent"
                 /\ \A o \in Orders : KeyOf[q] # None => orders'[o].key # KeyOf[q]
            BY DEF CommerceInv, CheckoutInv, RequestsKnow, RequestKnows, HoldsNewRow
        <3> QED BY <1>2, <2>2, <3>1, RequestKept
                DEF CommerceInv, CheckoutInv, RequestsKnow, OtherRequestsKeep
    <2> QED BY <2>1, <2>2
<1>4. OneOrderPerKey' /\ LockedRowsExist'
    BY DEF CommerceInv, CheckoutInv, OneOrderPerKey, LockedRowsExist
<1>5. RowsAreHonoured'
    <2>1. ASSUME NEW o \in Orders, orders[o].porder # None
          PROVE  razorpay'[orders[o].porder] = [receipt |-> o, amount |-> orders[o].total]
        <3>1. /\ razorpay[orders[o].porder] = [receipt |-> o, amount |-> orders[o].total]
              /\ orders[o].porder \in ProviderOrders
            BY <2>1 DEF CommerceInv, CheckoutInv, RowsAreHonoured, CheckoutTypeOK,
                        OrdersTypeOK, OrderRow
        <3>2. razorpay[orders[o].porder] # NotHeld
            BY <3>1, NoneIsFresh DEF NotHeld
        <3> QED BY <3>1, <3>2 DEF RazorpayKeeps
    <2> QED BY <2>1 DEF CommerceInv, CheckoutInv, RowsAreHonoured
<1>6. EventsAreEarned' /\ OnlyEmittedIsHandled'
    BY DEF CommerceInv, CheckoutInv, EventsAreEarned, OnlyEmittedIsHandled, OrdersFor,
           settlementOnly, tables, session, provider
<1> QED BY <1>1, <1>3, <1>4, <1>5, <1>6 DEF CommerceInv, CheckoutInv, RequestsKnow

(* Control moves, and the other requests do not.                           *)
LEMMA ThenEffect ==
    ASSUME CheckoutTypeOK, NEW r \in Requests, NEW s \in Steps, Then(r, s)
    PROVE  /\ step' \in [Requests -> Steps] /\ step'[r] = s
           /\ \A q \in Requests \ {r} : step'[q] = step[q]
BY DEF CheckoutTypeOK, Then

LEMMA ApartUnlessInserting ==
    ASSUME CommerceInv, NEW r \in Requests, OtherRequestsKeep(r), step'[r] # "commit"
    PROVE  InsertsAreApart'
BY DEF CommerceInv, CheckoutInv, InsertsAreApart, OtherRequestsKeep

LEMMA ValidateStep ==
    ASSUME CommerceInv, NEW r \in Requests, Validate(r), UNCHANGED settlementOnly
    PROVE  CommerceInv'
<1>1. UNCHANGED <<orders, rowLock, catalog, lines, copy, chosen, created, razorpay, edits, mishaps>>
    BY DEF Validate
<1>2. /\ step' \in [Requests -> Steps] /\ step'[r] \in {"price", "refused"}
      /\ \A q \in Requests \ {r} : step'[q] = step[q]
    BY ThenEffect DEF CommerceInv, Validate, Steps
<1>3. step'[r] = "price" => CartOf[r] # {}
    <2>1. step'[r] = "price" => Cardinality(CartOf[r]) \in 1..MaxItems
        BY <1>2 DEF Validate, Then, CommerceInv, CheckoutTypeOK
    <2> QED BY <2>1, FS_EmptySet
<1>4. OtherRequestsKeep(r) /\ RazorpayKeeps
    BY <1>1, <1>2 DEF OtherRequestsKeep, RazorpayKeeps
<1>5. CheckoutTypeOK'
    BY <1>1, <1>2 DEF CommerceInv, CheckoutTypeOK, OrdersTypeOK
<1>6. RequestKnows(r)'
    BY <1>2, <1>3 DEF RequestKnows
<1> QED BY <1>1, <1>2, <1>4, <1>5, <1>6, QuietStep, ApartUnlessInserting

LEMMA LoadPurchasableStep ==
    ASSUME CommerceInv, NEW r \in Requests, LoadPurchasable(r), UNCHANGED settlementOnly
    PROVE  CommerceInv'
<1>1. /\ UNCHANGED <<orders, rowLock, catalog, copy, chosen, created, razorpay, edits, mishaps>>
      /\ step[r] = "price"
    BY DEF LoadPurchasable
<1>2. CartOf[r] # {} /\ CartOf[r] \in SUBSET Products
    BY <1>1, CheckoutAssumption DEF CommerceInv, CheckoutInv, RequestsKnow, RequestKnows
<1> DEFINE priced == [p \in CartOf[r] |-> catalog[p].price]
<1>3. CASE /\ lines' = [lines EXCEPT ![r] = priced] /\ SumFunction(priced) \in Nat \ {0}
           /\ Then(r, "insert")
    <2>1. priced \in [CartOf[r] -> Amounts] /\ DOMAIN priced = CartOf[r]
        BY <1>2 DEF CommerceInv, CheckoutTypeOK, Listing
    <2>2. priced # NoOrder.items
        BY <1>2, <2>1 DEF NoOrder
    <2>3. priced \in Lines
        BY <1>2, <2>1 DEF Lines
    <2> HIDE DEF priced
    <2>4. /\ step' \in [Requests -> Steps] /\ step'[r] = "insert"
          /\ \A q \in Requests \ {r} : step'[q] = step[q]
        BY <1>3, ThenEffect DEF CommerceInv, Steps
    <2>5. /\ lines' \in [Requests -> Lines] /\ lines'[r] = priced
          /\ \A q \in Requests \ {r} : lines'[q] = lines[q]
        BY <1>3, <2>3 DEF CommerceInv, CheckoutTypeOK
    <2>6. OtherRequestsKeep(r) /\ RazorpayKeeps
        BY <1>1, <2>4, <2>5 DEF OtherRequestsKeep, RazorpayKeeps
    <2>7. CheckoutTypeOK'
        BY <1>1, <2>4, <2>5 DEF CommerceInv, CheckoutTypeOK, OrdersTypeOK
    <2>8. RequestKnows(r)'
        BY <1>3, <2>2, <2>4, <2>5 DEF RequestKnows, Priced
    <2> QED BY <1>1, <2>4, <2>6, <2>7, <2>8, QuietStep, ApartUnlessInserting
<1>4. CASE Then(r, "refused") /\ UNCHANGED lines
    <2>1. /\ step' \in [Requests -> Steps] /\ step'[r] = "refused"
          /\ \A q \in Requests \ {r} : step'[q] = step[q]
        BY <1>4, ThenEffect DEF CommerceInv, Steps
    <2>2. OtherRequestsKeep(r) /\ RazorpayKeeps
        BY <1>1, <1>4, <2>1 DEF OtherRequestsKeep, RazorpayKeeps
    <2>3. CheckoutTypeOK'
        BY <1>1, <1>4, <2>1 DEF CommerceInv, CheckoutTypeOK, OrdersTypeOK
    <2>4. RequestKnows(r)'
        BY <2>1 DEF RequestKnows
    <2> QED BY <1>1, <2>1, <2>2, <2>3, <2>4, QuietStep, ApartUnlessInserting
<1> QED BY <1>3, <1>4 DEF LoadPurchasable

(* The client gets an error, or the response of Razorpay is lost.          *)
LEMMA FailureStep ==
    ASSUME CommerceInv, NEW r \in Requests, RequestFailure(r), UNCHANGED settlementOnly
    PROVE  CommerceInv'
<1>1. /\ UNCHANGED <<orders, rowLock, catalog, lines, copy, chosen, created, edits>>
      /\ mishaps < MaxMishaps /\ mishaps' = mishaps + 1 /\ Then(r, "failed")
    BY DEF RequestFailure, LoseProviderResponse, OpenAtRazorpay, FailRequest
<1>2. /\ step' \in [Requests -> Steps] /\ step'[r] = "failed"
      /\ \A q \in Requests \ {r} : step'[q] = step[q]
    BY <1>1, ThenEffect DEF CommerceInv, Steps
<1>3. /\ RazorpayKeeps
      /\ razorpay' \in [ProviderOrders -> [receipt : Orders \cup {None}, amount : Nat]]
    <2>1. CASE FailRequest(r)
        BY <2>1 DEF FailRequest, RazorpayKeeps, CommerceInv, CheckoutTypeOK
    <2>2. CASE LoseProviderResponse(r)
        BY <2>2 DEF LoseProviderResponse, OpenAtRazorpay, RazorpayKeeps, CommerceInv,
                    CheckoutTypeOK, OrderRow
    <2> QED BY <2>1, <2>2 DEF RequestFailure
<1>4. OtherRequestsKeep(r)
    BY <1>1, <1>2 DEF OtherRequestsKeep
<1>5. CheckoutTypeOK'
    BY <1>1, <1>2, <1>3, CheckoutAssumption DEF CommerceInv, CheckoutTypeOK, OrdersTypeOK
<1>6. RequestKnows(r)'
    BY <1>2 DEF RequestKnows
<1> QED BY <1>1, <1>2, <1>3, <1>4, <1>5, <1>6, QuietStep, ApartUnlessInserting

LEMMA CreateOrderStep ==
    ASSUME CommerceInv, NEW r \in Requests, CreateOrder(r), UNCHANGED settlementOnly
    PROVE  CommerceInv'
<1> DEFINE k == KeyOf[r]
<1>1. /\ UNCHANGED <<orders, rowLock, catalog, created, razorpay, edits, mishaps>>
      /\ step[r] = "insert"
      /\ ~\E q \in Requests \ {r} : step[q] = "commit" /\ KeyOf[q] = k /\ k # None
    BY DEF CreateOrder
<1>2. CASE /\ k # None /\ KeyInserted(k) /\ Then(r, "find")
           /\ lines' = [lines EXCEPT ![r] = NoOrder.items] /\ UNCHANGED <<chosen, copy>>
    <2>1. /\ step' \in [Requests -> Steps] /\ step'[r] = "find"
          /\ \A q \in Requests \ {r} : step'[q] = step[q]
        BY <1>2, ThenEffect DEF CommerceInv, Steps
    <2>2. /\ lines' \in [Requests -> Lines]
          /\ \A q \in Requests \ {r} : lines'[q] = lines[q]
        BY <1>2, NoOrderIsARow DEF CommerceInv, CheckoutTypeOK
    <2>3. OtherRequestsKeep(r) /\ RazorpayKeeps
        BY <1>1, <1>2, <2>1, <2>2 DEF OtherRequestsKeep, RazorpayKeeps
    <2>4. CheckoutTypeOK'
        BY <1>1, <1>2, <2>1, <2>2 DEF CommerceInv, CheckoutTypeOK, OrdersTypeOK
    <2>5. RequestKnows(r)'
        BY <2>1 DEF RequestKnows
    <2> QED BY <1>1, <2>1, <2>3, <2>4, <2>5, QuietStep, ApartUnlessInserting
<1> DEFINE row == [status |-> "pending", porder |-> None, key |-> k,
                   total |-> SumFunction(lines[r]), items |-> lines[r]]
<1>3. ASSUME NEW o \in FreshOrders, ~(k # None /\ KeyInserted(k)),
             chosen' = [chosen EXCEPT ![r] = o], copy' = [copy EXCEPT ![r] = row],
             Then(r, "commit"), UNCHANGED lines
      PROVE  CommerceInv'
    <2>1. /\ o \in Orders /\ orders[o].status = "absent"
          /\ \A q \in Requests : ~(step[q] = "commit" /\ chosen[q] = o)
        BY DEF FreshOrders
    <2>2. Priced(lines[r]) /\ lines[r] \in Lines /\ k \in Keys \cup {None}
        BY <1>1, CheckoutAssumption
           DEF CommerceInv, CheckoutTypeOK, CheckoutInv, RequestsKnow, RequestKnows
    <2>3. row \in OrderRow
        BY <2>2 DEF OrderRow, Statuses, Priced, Lines
    <2> HIDE DEF row
    <2>4. /\ step' \in [Requests -> Steps] /\ step'[r] = "commit"
          /\ \A q \in Requests \ {r} : step'[q] = step[q]
        BY <1>3, ThenEffect DEF CommerceInv, Steps
    <2>5. /\ chosen' \in [Requests -> Orders \cup {None}] /\ chosen'[r] = o
          /\ copy' \in [Requests -> OrderRow] /\ copy'[r] = row
          /\ \A q \in Requests \ {r} : chosen'[q] = chosen[q] /\ copy'[q] = copy[q]
        BY <1>3, <2>1, <2>3 DEF CommerceInv, CheckoutTypeOK
    <2>6. OtherRequestsKeep(r) /\ RazorpayKeeps
        BY <1>1, <1>3, <2>4, <2>5 DEF OtherRequestsKeep, RazorpayKeeps
    <2>7. CheckoutTypeOK'
        BY <1>1, <1>3, <2>4, <2>5 DEF CommerceInv, CheckoutTypeOK, OrdersTypeOK
    <2>8. \A q \in Orders : k # None => orders[q].key # k
        BY <1>3, AbsentRow DEF KeyInserted, CommerceInv
    <2>9. HoldsNewRow(r)'
        BY <1>1, <1>3, <2>1, <2>2, <2>5, <2>8 DEF HoldsNewRow, row
    <2>10. RequestKnows(r)'
        BY <2>4, <2>9 DEF RequestKnows
    <2>11. InsertsAreApart'
        BY <1>1, <2>1, <2>4, <2>5 DEF CommerceInv, CheckoutInv, InsertsAreApart
    <2> QED BY <1>1, <2>6, <2>7, <2>10, <2>11, QuietStep
<1> QED BY <1>2, <1>3 DEF CreateOrder

LEMMA FindByKeyStep ==
    ASSUME CommerceInv, NEW r \in Requests, FindByKey(r), UNCHANGED settlementOnly
    PROVE  CommerceInv'
<1>1. UNCHANGED <<orders, rowLock, catalog, lines, created, razorpay, edits, mishaps>>
    BY DEF FindByKey
<1>2. PICK o \in Orders :
          /\ orders[o].status # "absent" /\ orders[o].key = KeyOf[r]
          /\ chosen' = [chosen EXCEPT ![r] = o]
          /\ copy' = [copy EXCEPT ![r] = orders[o]]
    BY DEF FindByKey
<1>3. /\ step' \in [Requests -> Steps] /\ step'[r] = "provider"
      /\ \A q \in Requests \ {r} : step'[q] = step[q]
    BY ThenEffect DEF FindByKey, CommerceInv, Steps
<1>4. /\ chosen' \in [Requests -> Orders \cup {None}] /\ chosen'[r] = o
      /\ copy' \in [Requests -> OrderRow] /\ copy'[r] = orders[o]
      /\ \A q \in Requests \ {r} : chosen'[q] = chosen[q] /\ copy'[q] = copy[q]
    BY <1>2 DEF CommerceInv, CheckoutTypeOK, OrdersTypeOK
<1>5. OtherRequestsKeep(r) /\ RazorpayKeeps
    BY <1>1, <1>3, <1>4 DEF OtherRequestsKeep, RazorpayKeeps
<1>6. CheckoutTypeOK'
    BY <1>1, <1>3, <1>4 DEF CommerceInv, CheckoutTypeOK, OrdersTypeOK
<1>7. KnowsRow(r)'
    BY <1>1, <1>2, <1>4 DEF KnowsRow
<1>8. RequestKnows(r)'
    BY <1>3, <1>7 DEF RequestKnows
<1> QED BY <1>1, <1>3, <1>5, <1>6, <1>8, QuietStep, ApartUnlessInserting

LEMMA SkipProviderStep ==
    ASSUME CommerceInv, NEW r \in Requests, SkipProvider(r), UNCHANGED settlementOnly
    PROVE  CommerceInv'
<1>1. /\ UNCHANGED <<orders, rowLock, catalog, lines, copy, chosen, created, razorpay, edits,
                     mishaps>>
      /\ step[r] = "provider" /\ (ProviderEnabled => copy[r].porder # None)
    BY DEF SkipProvider, NeedsProvider
<1>2. /\ step' \in [Requests -> Steps] /\ step'[r] = "done"
      /\ \A q \in Requests \ {r} : step'[q] = step[q]
    BY ThenEffect DEF SkipProvider, CommerceInv, Steps
<1>3. OtherRequestsKeep(r) /\ RazorpayKeeps
    BY <1>1, <1>2 DEF OtherRequestsKeep, RazorpayKeeps
<1>4. CheckoutTypeOK'
    BY <1>1, <1>2 DEF CommerceInv, CheckoutTypeOK, OrdersTypeOK
<1>5. KnowsRow(r) /\ KnowsRow(r)'
    BY <1>1 DEF CommerceInv, CheckoutInv, RequestsKnow, RequestKnows, KnowsRow
<1>6. copy[r].porder = orders[chosen[r]].porder
    BY <1>1, <1>5 DEF KnowsRow, CommerceInv, CheckoutInv, RowsAreHonoured
<1>7. RequestKnows(r)'
    BY <1>1, <1>2, <1>5, <1>6 DEF RequestKnows
<1> QED BY <1>1, <1>2, <1>3, <1>4, <1>7, QuietStep, ApartUnlessInserting

LEMMA CallProviderStep ==
    ASSUME CommerceInv, NEW r \in Requests, CallProvider(r), UNCHANGED settlementOnly
    PROVE  CommerceInv'
<1>1. PICK po \in ProviderOrders :
          OpenAtRazorpay(r, po) /\ created' = [created EXCEPT ![r] = po]
    BY DEF CallProvider
<1>2. /\ UNCHANGED <<orders, rowLock, catalog, lines, copy, chosen, edits, mishaps>>
      /\ step[r] = "provider" /\ ProviderEnabled
    BY <1>1 DEF CallProvider, OpenAtRazorpay, NeedsProvider
<1>3. /\ step' \in [Requests -> Steps] /\ step'[r] = "attach"
      /\ \A q \in Requests \ {r} : step'[q] = step[q]
    BY ThenEffect DEF CallProvider, CommerceInv, Steps
<1>4. /\ created' \in [Requests -> ProviderOrders \cup {None}] /\ created'[r] = po
      /\ \A q \in Requests \ {r} : created'[q] = created[q]
    BY <1>1 DEF CommerceInv, CheckoutTypeOK
<1>5. KnowsRow(r) /\ KnowsRow(r)'
    BY <1>2 DEF CommerceInv, CheckoutInv, RequestsKnow, RequestKnows, KnowsRow
<1>6. /\ razorpay' \in [ProviderOrders -> [receipt : Orders \cup {None}, amount : Nat]]
      /\ razorpay'[po] = [receipt |-> chosen[r], amount |-> orders[chosen[r]].total]
      /\ RazorpayKeeps
    <2>1. /\ razorpay[po] = NotHeld
          /\ razorpay' = [razorpay EXCEPT ![po] =
                             [receipt |-> chosen[r], amount |-> orders[chosen[r]].total]]
        BY <1>1, <1>5 DEF OpenAtRazorpay, KnowsRow
    <2>2. [receipt |-> chosen[r], amount |-> orders[chosen[r]].total]
             \in [receipt : Orders \cup {None}, amount : Nat]
        BY <1>5 DEF KnowsRow, CommerceInv, CheckoutTypeOK, OrdersTypeOK, OrderRow
    <2> QED BY <2>1, <2>2 DEF CommerceInv, CheckoutTypeOK, RazorpayKeeps
<1>7. OtherRequestsKeep(r)
    BY <1>2, <1>3, <1>4 DEF OtherRequestsKeep
<1>8. CheckoutTypeOK'
    BY <1>2, <1>3, <1>4, <1>6 DEF CommerceInv, CheckoutTypeOK, OrdersTypeOK
<1>9. RequestKnows(r)'
    BY <1>2, <1>3, <1>4, <1>5, <1>6 DEF RequestKnows
<1> QED BY <1>2, <1>3, <1>6, <1>7, <1>8, <1>9, QuietStep, ApartUnlessInserting

(* A step of r that writes row o preserves the invariant if the row is a   *)
(* sound one and nobody else is about to insert it or its key.             *)
LEMMA WriteStep ==
    ASSUME CommerceInv, NEW r \in Requests, NEW o \in Orders, OtherRequestsKeep(r),
           UNCHANGED <<rowLock, razorpay, settlementOnly>>,
           SettlementInv', CheckoutTypeOK', RequestKnows(r)', step'[r] # "commit",
           RowsGrow, orders[o].porder = None,
           \A q \in Orders \ {o} : orders'[q] = orders[q],
           \A q \in Requests \ {r} : step[q] = "commit" =>
              chosen[q] # o /\ (KeyOf[q] # None => orders'[o].key # KeyOf[q]),
           \A q \in Orders \ {o} : orders'[o].key = orders[q].key => orders[q].key = None,
           orders'[o].status # "absent",
           orders'[o].total = SumFunction(orders'[o].items), orders'[o].total > 0,
           orders'[o].porder # None =>
              /\ ProviderEnabled
              /\ razorpay[orders'[o].porder] = [receipt |-> o, amount |-> orders'[o].total]
    PROVE  CommerceInv'
<1>1. RazorpayKeeps
    BY DEF RazorpayKeeps
<1>2. ASSUME NEW q \in Requests PROVE RequestKnows(q)'
    <2>1. CASE q = r
        BY <2>1
    <2>2. CASE q # r
        <3>1. step[q] = "commit" => HoldsNewRow(q)
            BY DEF CommerceInv, CheckoutInv, RequestsKnow, RequestKnows
        <3>2. step[q] = "commit" =>
                 /\ orders'[chosen[q]].status = "absent"
                 /\ \A x \in Orders : KeyOf[q] # None => orders'[x].key # KeyOf[q]
            BY <2>2, <3>1 DEF HoldsNewRow
        <3> QED BY <1>1, <2>2, <3>2, RequestKept
                DEF CommerceInv, CheckoutInv, RequestsKnow, OtherRequestsKeep
    <2> QED BY <2>1, <2>2
<1>3. InsertsAreApart'
    BY ApartUnlessInserting
<1>4. OneOrderPerKey'
    BY DEF CommerceInv, CheckoutInv, OneOrderPerKey
<1>5. RowsAreHonoured'
    <2> SUFFICES ASSUME NEW q \in Orders
                 PROVE  /\ orders'[q].status # "absent" =>
                              /\ orders'[q].total = SumFunction(orders'[q].items)
                              /\ orders'[q].total > 0
                        /\ orders'[q].porder # None =>
                              /\ ProviderEnabled
                              /\ razorpay[orders'[q].porder] =
                                    [receipt |-> q, amount |-> orders'[q].total]
        BY DEF RowsAreHonoured
    <2>1. CASE q = o
        BY <2>1
    <2>2. CASE q # o
        BY <2>2 DEF CommerceInv, CheckoutInv, RowsAreHonoured
    <2> QED BY <2>1, <2>2
<1>6. LockedRowsExist'
    BY DEF CommerceInv, CheckoutInv, LockedRowsExist
<1>7. UNCHANGED <<emitted, handling, webhooks>>
    BY DEF settlementOnly, tables, session, provider
<1>8. EventsAreEarned'
    <2> SUFFICES ASSUME NEW e \in emitted, Acceptable(e), Actionable(e)
                 PROVE  \E x \in OrdersFor(e.porder)' : PaysFor(e, orders'[x])
        BY <1>7 DEF EventsAreEarned
    <2>1. PICK x \in Orders : /\ orders[x].porder = e.porder /\ e.porder # None
                              /\ PaysFor(e, orders[x])
        BY DEF CommerceInv, CheckoutInv, EventsAreEarned, OrdersFor
    <2>2. orders'[x] = orders[x]
        BY <2>1
    <2> QED BY <2>1, <2>2 DEF OrdersFor
<1>9. OnlyEmittedIsHandled'
    BY <1>7 DEF CommerceInv, CheckoutInv, OnlyEmittedIsHandled
<1> QED BY <1>2, <1>3, <1>4, <1>5, <1>6, <1>8, <1>9
        DEF CommerceInv, CheckoutInv, RequestsKnow

LEMMA CommitOrderStep ==
    ASSUME CommerceInv, NEW r \in Requests, CommitOrder(r), UNCHANGED settlementOnly
    PROVE  CommerceInv'
<1> DEFINE o == chosen[r]
<1> DEFINE row == copy[r]
<1>1. /\ UNCHANGED <<rowLock, catalog, lines, copy, chosen, created, razorpay, edits, mishaps>>
      /\ step[r] = "commit" /\ orders' = [orders EXCEPT ![o] = row]
    BY DEF CommitOrder
<1>2. HoldsNewRow(r) /\ o \in Orders /\ orders[o].status = "absent" /\ Priced(lines[r])
    BY <1>1 DEF CommerceInv, CheckoutInv, RequestsKnow, RequestKnows, HoldsNewRow
<1>3. /\ row.status = "pending" /\ row.porder = None /\ row.key = KeyOf[r]
      /\ row.items = lines[r] /\ row.total = SumFunction(row.items)
      /\ row.total > 0 /\ row.items # NoOrder.items /\ row \in OrderRow
    BY <1>2 DEF HoldsNewRow, Priced, CommerceInv, CheckoutTypeOK
<1> HIDE DEF row
<1>4. orders[o].porder = None /\ rowLock[o] = None
    BY <1>2, AbsentRow DEF CommerceInv, CheckoutInv, LockedRowsExist
<1>5. /\ orders' \in [Orders -> OrderRow] /\ orders'[o] = row
      /\ \A q \in Orders \ {o} : orders'[q] = orders[q]
    BY <1>1, <1>2, <1>3 DEF CommerceInv, CheckoutTypeOK, OrdersTypeOK
<1>6. SettlementInv'
    BY <1>1, <1>2, <1>3, <1>4, <1>5, RowWritten
<1>7. /\ step' \in [Requests -> Steps] /\ step'[r] = "provider"
      /\ \A q \in Requests \ {r} : step'[q] = step[q]
    BY ThenEffect DEF CommitOrder, CommerceInv, Steps
<1>8. OtherRequestsKeep(r)
    BY <1>1, <1>7 DEF OtherRequestsKeep
<1>9. CheckoutTypeOK'
    BY <1>1, <1>5, <1>7 DEF CommerceInv, CheckoutTypeOK, OrdersTypeOK
<1>10. RequestKnows(r)'
    BY <1>1, <1>2, <1>3, <1>5, <1>7 DEF RequestKnows, KnowsRow, row
<1>11. RowsGrow
    BY <1>2, <1>5 DEF RowsGrow
<1>12. \A q \in Requests \ {r} : step[q] = "commit" =>
          chosen[q] # o /\ (KeyOf[q] # None => orders'[o].key # KeyOf[q])
    BY <1>1, <1>3, <1>5 DEF CommerceInv, CheckoutInv, InsertsAreApart
<1>13. \A q \in Orders \ {o} : orders'[o].key = orders[q].key => orders[q].key = None
    BY <1>2, <1>3, <1>5 DEF HoldsNewRow
<1> HIDE DEF o
<1> QED BY <1>1, <1>2, <1>3, <1>4, <1>5, <1>6, <1>7, <1>8, <1>9, <1>10, <1>11, <1>12, <1>13,
           WriteStep

LEMMA AttachStep ==
    ASSUME CommerceInv, NEW r \in Requests, AttachProviderOrder(r), UNCHANGED settlementOnly
    PROVE  CommerceInv'
<1> DEFINE o == chosen[r]
<1> DEFINE row == [orders[o] EXCEPT !.porder = created[r]]
<1>1. /\ UNCHANGED <<rowLock, catalog, lines, chosen, created, razorpay, edits, mishaps>>
      /\ step[r] = "attach"
    BY DEF AttachProviderOrder
<1>2. /\ KnowsRow(r) /\ o \in Orders /\ orders[o].status # "absent"
      /\ ProviderEnabled /\ created[r] \in ProviderOrders
      /\ razorpay[created[r]] = [receipt |-> o, amount |-> orders[o].total]
    BY <1>1 DEF CommerceInv, CheckoutInv, RequestsKnow, RequestKnows, KnowsRow
<1>3. /\ step' \in [Requests -> Steps] /\ step'[r] = "done"
      /\ \A q \in Requests \ {r} : step'[q] = step[q]
    BY ThenEffect DEF AttachProviderOrder, CommerceInv, Steps
<1>4. orders[o] \in OrderRow /\ created[r] # None
    BY <1>2, NoneIsFresh DEF CommerceInv, CheckoutTypeOK, OrdersTypeOK
<1>5. CASE orders[o].porder # None
    <2>1. UNCHANGED orders /\ copy' = [copy EXCEPT ![r] = orders[o]]
        BY <1>5 DEF AttachProviderOrder
    <2>2. /\ copy' \in [Requests -> OrderRow] /\ copy'[r] = orders[o]
          /\ \A q \in Requests \ {r} : copy'[q] = copy[q]
        BY <1>4, <2>1 DEF CommerceInv, CheckoutTypeOK
    <2>3. OtherRequestsKeep(r) /\ RazorpayKeeps
        BY <1>1, <1>3, <2>2 DEF OtherRequestsKeep, RazorpayKeeps
    <2>4. CheckoutTypeOK'
        BY <1>1, <1>3, <2>1, <2>2 DEF CommerceInv, CheckoutTypeOK, OrdersTypeOK
    <2>5. RequestKnows(r)'
        BY <1>1, <1>2, <1>3, <1>5, <2>1, <2>2 DEF RequestKnows, KnowsRow
    <2> QED BY <1>1, <1>3, <2>1, <2>3, <2>4, <2>5, QuietStep, ApartUnlessInserting
<1>6. CASE orders[o].porder = None
    <2>1. /\ rowLock[o] = None /\ orders' = [orders EXCEPT ![o] = row]
          /\ copy' = [copy EXCEPT ![r] = row]
        BY <1>6 DEF AttachProviderOrder
    <2>2. /\ row \in OrderRow /\ row.porder = created[r]
          /\ row.status = orders[o].status /\ row.key = orders[o].key
          /\ row.total = orders[o].total /\ row.items = orders[o].items
        BY <1>2, <1>4, RowWithProvider
    <2> HIDE DEF row
    <2>3. /\ orders' \in [Orders -> OrderRow] /\ orders'[o] = row
          /\ \A q \in Orders \ {o} : orders'[q] = orders[q]
        BY <1>2, <2>1, <2>2 DEF CommerceInv, CheckoutTypeOK, OrdersTypeOK
    <2>4. /\ copy' \in [Requests -> OrderRow] /\ copy'[r] = row
          /\ \A q \in Requests \ {r} : copy'[q] = copy[q]
        BY <2>1, <2>2 DEF CommerceInv, CheckoutTypeOK
    <2>5. \A q \in Orders : orders[q].porder # created[r]
        <3> SUFFICES ASSUME NEW q \in Orders, orders[q].porder = created[r] PROVE FALSE
            OBVIOUS
        <3>1. razorpay[created[r]] = [receipt |-> q, amount |-> orders[q].total]
            BY <1>4 DEF CommerceInv, CheckoutInv, RowsAreHonoured
        <3>2. q = o
            BY <1>2, <3>1
        <3> QED BY <1>4, <1>6, <3>2
    <2>6. orders[o].items # NoOrder.items
        BY <1>2, AbsentRow DEF CommerceInv, SettlementInv, OrdersAreSound, NoOrder
    <2>7. SettlementInv'
        BY <1>1, <1>2, <1>6, <2>1, <2>2, <2>3, <2>5, <2>6, RowWritten
    <2>8. OtherRequestsKeep(r)
        BY <1>1, <1>3, <2>4 DEF OtherRequestsKeep
    <2>9. CheckoutTypeOK'
        BY <1>1, <1>3, <2>3, <2>4 DEF CommerceInv, CheckoutTypeOK, OrdersTypeOK
    <2>10. RequestKnows(r)'
        BY <1>1, <1>2, <1>3, <1>4, <2>2, <2>3, <2>4 DEF RequestKnows, KnowsRow
    <2>11. RowsGrow
        BY <1>2, <1>6, <2>2, <2>3 DEF RowsGrow
    <2>12. \A q \in Requests \ {r} : step[q] = "commit" =>
              chosen[q] # o /\ (KeyOf[q] # None => orders'[o].key # KeyOf[q])
        <3>1. \A q \in Requests : step[q] = "commit" => HoldsNewRow(q)
            BY DEF CommerceInv, CheckoutInv, RequestsKnow, RequestKnows
        <3> QED BY <1>2, <2>2, <2>3, <3>1 DEF HoldsNewRow
    <2>13. \A q \in Orders \ {o} : orders'[o].key = orders[q].key => orders[q].key = None
        BY <1>2, <2>2, <2>3 DEF CommerceInv, CheckoutInv, OneOrderPerKey
    <2>14. /\ orders'[o].total = SumFunction(orders'[o].items) /\ orders'[o].total > 0
           /\ razorpay[orders'[o].porder] = [receipt |-> o, amount |-> orders'[o].total]
        BY <1>2, <2>2, <2>3 DEF CommerceInv, CheckoutInv, RowsAreHonoured
    <2> HIDE DEF o
    <2> QED BY <1>1, <1>2, <1>3, <1>6, <2>2, <2>3, <2>7, <2>8, <2>9, <2>10, <2>11, <2>12,
               <2>13, <2>14, WriteStep
<1> QED BY <1>5, <1>6

LEMMA EditProductStep ==
    ASSUME CommerceInv, NEW p \in Products, EditProduct(p), UNCHANGED settlementOnly
    PROVE  CommerceInv'
<1>1. /\ UNCHANGED <<orders, rowLock, requests, step, lines, copy, chosen, created, razorpay,
                     mishaps>>
      /\ edits < MaxEdits /\ edits' = edits + 1
    BY DEF EditProduct, requests
<1>2. catalog' \in [Products -> Listing]
    BY DEF EditProduct, CommerceInv, CheckoutTypeOK
<1>3. CheckoutTypeOK'
    BY <1>1, <1>2, CheckoutAssumption DEF CommerceInv, CheckoutTypeOK, OrdersTypeOK
<1>4. SettlementInv' /\ RowsMove
    BY <1>1, NoRowWritten
<1>5. RequestsKnow' /\ InsertsAreApart' /\ OneOrderPerKey' /\ RowsAreHonoured'
    BY <1>1, <1>4, CheckoutKept
<1>6. LockedRowsExist' /\ EventsAreEarned' /\ OnlyEmittedIsHandled'
    BY <1>1 DEF CommerceInv, CheckoutInv, LockedRowsExist, EventsAreEarned,
                OnlyEmittedIsHandled, OrdersFor, settlementOnly, tables, session, provider
<1> QED BY <1>3, <1>4, <1>5, <1>6 DEF CommerceInv, CheckoutInv

-----------------------------------------------------------------------------
(* The invariant.                                                          *)

LEMMA CommerceStep ==
    CommerceInv /\ [CommerceNext]_commerceVars => CommerceInv'
<1> SUFFICES ASSUME CommerceInv, [CommerceNext]_commerceVars PROVE CommerceInv'
    OBVIOUS
<1>1. CASE UNCHANGED commerceVars
    <2>1. /\ UNCHANGED <<orders, rowLock, catalog, requests, step, lines, copy, chosen, created,
                         razorpay, edits, mishaps, settlementOnly>>
        BY <1>1 DEF commerceVars, requests, settlementOnly
    <2>2. SettlementInv' /\ RowsMove
        BY <2>1, NoRowWritten
    <2>3. RequestsKnow' /\ InsertsAreApart' /\ OneOrderPerKey' /\ RowsAreHonoured'
        BY <2>1, <2>2, CheckoutKept
    <2>4. CheckoutTypeOK'
        BY <2>1 DEF CommerceInv, CheckoutTypeOK, OrdersTypeOK
    <2>5. LockedRowsExist' /\ EventsAreEarned' /\ OnlyEmittedIsHandled'
        BY <2>1 DEF CommerceInv, CheckoutInv, LockedRowsExist, EventsAreEarned,
                    OnlyEmittedIsHandled, OrdersFor, settlementOnly, tables, session, provider
    <2> QED BY <2>2, <2>3, <2>4, <2>5 DEF CommerceInv, CheckoutInv
<1>2. ASSUME NEW p \in Products, EditProduct(p), UNCHANGED settlementOnly
      PROVE  CommerceInv'
    BY <1>2, EditProductStep
<1>3. ASSUME NEW r \in Requests, RequestStep(r), UNCHANGED settlementOnly
      PROVE  CommerceInv'
    BY <1>3, ValidateStep, LoadPurchasableStep, CreateOrderStep, CommitOrderStep,
       FindByKeyStep, SkipProviderStep, CallProviderStep, AttachStep DEF RequestStep
<1>4. ASSUME NEW r \in Requests, RequestFailure(r), UNCHANGED settlementOnly
      PROVE  CommerceInv'
    BY <1>4, FailureStep
<1>5. CASE SettlementStep(OldOrders) /\ UNCHANGED checkoutOnly
    BY <1>5, SettlementSide
<1>6. ASSUME NEW e \in Events, Attempt(e) PROVE CommerceInv'
    BY <1>6, AttemptStep
<1>7. CASE AllSettled
    BY <1>1, <1>7 DEF AllSettled
<1> QED BY <1>1, <1>2, <1>3, <1>4, <1>5, <1>6, <1>7 DEF CommerceNext, CheckoutStep

(* Every reachable state of a shop with any number of buyers, replicas and *)
(* webhook deliveries satisfies the whole invariant.                       *)
THEOREM CommerceInvariance == CommerceSpec => []CommerceInv
BY CommerceStarts, CommerceStep, PTL DEF CommerceSpec

-----------------------------------------------------------------------------
(* What the invariant gives.                                               *)

(* Every variable of checkout keeps its type.                              *)
THEOREM CheckoutTypes == CommerceSpec => []CheckoutTypeOK
BY CommerceInvariance, PTL DEF CommerceInv

(* One attempt, one order, however many requests carry its key.            *)
THEOREM KeysNameOneOrder == CommerceSpec => []OneOrderPerKey
BY CommerceInvariance, PTL DEF CommerceInv, CheckoutInv

LEMMA InvGivesReplays == CommerceInv => ReplaysAgree
<1> SUFFICES ASSUME CommerceInv, NEW r \in Requests, NEW q \in Requests,
                    KeyOf[r] = KeyOf[q], KeyOf[r] # None,
                    step[r] = "done", step[q] = "done"
             PROVE  /\ chosen[r] = chosen[q]
                    /\ copy[r].porder = copy[q].porder
                    /\ copy[r].items = copy[q].items
    BY DEF ReplaysAgree
<1>1. KnowsRow(r) /\ KnowsRow(q)
    BY DEF CommerceInv, CheckoutInv, RequestsKnow, RequestKnows
<1>2. chosen[r] = chosen[q]
    BY <1>1 DEF KnowsRow, CommerceInv, CheckoutInv, OneOrderPerKey
<1>3. /\ copy[r].porder = orders[chosen[r]].porder
      /\ copy[q].porder = orders[chosen[q]].porder
    BY DEF CommerceInv, CheckoutInv, RequestsKnow, RequestKnows
<1> QED BY <1>1, <1>2, <1>3 DEF KnowsRow

(* A double click never opens two payment windows.                         *)
THEOREM ReplaysNeverDiffer == CommerceSpec => []ReplaysAgree
BY CommerceInvariance, InvGivesReplays, PTL

LEMMA InvGivesWindows == CommerceInv => WindowsAreHonoured
<1> SUFFICES ASSUME CommerceInv, NEW r \in Requests, step[r] = "done", copy[r].porder # None
             PROVE  /\ orders[chosen[r]].porder = copy[r].porder
                    /\ razorpay[copy[r].porder] =
                          [receipt |-> chosen[r], amount |-> orders[chosen[r]].total]
                    /\ orders[chosen[r]].total = SumFunction(orders[chosen[r]].items)
                    /\ orders[chosen[r]].total > 0
    BY DEF WindowsAreHonoured
<1>1. KnowsRow(r) /\ copy[r].porder = orders[chosen[r]].porder
    BY DEF CommerceInv, CheckoutInv, RequestsKnow, RequestKnows
<1>2. chosen[r] \in Orders /\ orders[chosen[r]].status # "absent"
    BY <1>1 DEF KnowsRow
<1> QED BY <1>1, <1>2 DEF CommerceInv, CheckoutInv, RowsAreHonoured

(* Every payment window shown belongs to an order of ours that recognises  *)
(* it, for exactly the sum of its frozen prices.                           *)
THEOREM WindowsHold == CommerceSpec => []WindowsAreHonoured
BY CommerceInvariance, InvGivesWindows, PTL

LEMMA InvGivesCaptures == CommerceInv => CapturesFindTheirOrder
<1> SUFFICES ASSUME CommerceInv, NEW e \in Events, IsCapture(e), webhooks[e] # "absent"
             PROVE  /\ webhooks[e] = "refused" =>
                          \E o \in OrdersFor(e.porder) : orders[o].status = "cancelled"
                    /\ webhooks[e] = "applied" =>
                          \E o \in OrdersFor(e.porder) :
                             /\ orders[o].status = "paid"
                             /\ DOMAIN orders[o].items \subseteq
                                   {p \in Products : <<o, p>> \in entitlements}
    BY DEF CapturesFindTheirOrder
<1>1. e \in emitted /\ Acceptable(e) /\ Actionable(e)
    BY DEF CommerceInv, CheckoutInv, OnlyEmittedIsHandled, SettlementInv,
           RecordsAreAuthentic, IsCapture
<1>2. PICK o \in OrdersFor(e.porder) : PaysFor(e, orders[o])
    BY <1>1 DEF CommerceInv, CheckoutInv, EventsAreEarned
<1>3. /\ webhooks[e] = "applied" => orders[o].status = "paid"
      /\ webhooks[e] = "refused" => orders[o].status = "cancelled"
    BY <1>2 DEF CommerceInv, SettlementInv, VerdictsAreTrue
<1>4. o \in Orders
    BY DEF OrdersFor
<1>5. DOMAIN orders[o].items \subseteq Products
    <2>1. orders[o].items \in UNION {[S -> Amounts] : S \in SUBSET Products}
        BY <1>4 DEF CommerceInv, CheckoutTypeOK, OrdersTypeOK, OrderRow
    <2>2. PICK S \in SUBSET Products : orders[o].items \in [S -> Amounts]
        BY <2>1, Zenon
    <2> QED BY <2>2
<1> QED BY <1>3, <1>4, <1>5 DEF CommerceInv, SettlementInv, PaidMeansEntitled

(* Money taken through a window of ours settles the order it was opened    *)
(* for, or finds it cancelled.                                             *)
THEOREM CapturesSettle == CommerceSpec => []CapturesFindTheirOrder
BY CommerceInvariance, InvGivesCaptures, PTL

(* What Settlement promises over orders that all exist from the start, it  *)
(* keeps over orders that appear and get their Razorpay order meanwhile.   *)
THEOREM PromisesCompose ==
    CommerceSpec => [](/\ PaidMeansEntitled /\ PaidMeansCharged
                       /\ VerdictsAreTrue /\ AnsweredMeansRecorded)
<1>1. CommerceInv => /\ PaidMeansEntitled /\ PaidMeansCharged
                     /\ VerdictsAreTrue /\ AnsweredMeansRecorded
    BY InvGivesCharged DEF CommerceInv, SettlementInv
<1> QED BY <1>1, CommerceInvariance, PTL

-----------------------------------------------------------------------------
(* Checkout and Settlement together implement the ledger.                  *)

LEMMA CommerceLedgerStarts == CommerceInit => Ledger!LedgerInit
BY LedgerStarts DEF CommerceInit

(* The steps of checkout that write a row place or attach an order.        *)
LEMMA CheckoutRefines ==
    ASSUME CommerceInv, CommerceInv', CheckoutStep, UNCHANGED settlementOnly
    PROVE  Ledger!LedgerNext \/ UNCHANGED Ledger!ledger
<1>1. UNCHANGED <<payments, Handled>>
    BY DEF settlementOnly, tables, Handled
<1>2. /\ Granted = {o \in Orders : orders[o].status = "paid"}
      /\ Granted' = {o \in Orders : orders'[o].status = "paid"}
    BY GrantedArePaid, GrantedArePaidNext DEF CommerceInv
<1>3. CASE UNCHANGED orders
    BY <1>1, <1>2, <1>3 DEF Ledger!ledger
<1>4. ASSUME NEW r \in Requests, CommitOrder(r) PROVE Ledger!LedgerNext
    <2>1. HoldsNewRow(r)
        BY <1>4 DEF CommitOrder, CommerceInv, CheckoutInv, RequestsKnow, RequestKnows
    <2> PICK o \in Orders : o = chosen[r]
        BY <2>1 DEF HoldsNewRow
    <2>2. /\ orders[o].status = "absent" /\ orders' = [orders EXCEPT ![o] = copy[r]]
          /\ copy[r].status = "pending"
        BY <1>4, <2>1 DEF CommitOrder, HoldsNewRow
    <2>3. orders'[o] = copy[r] /\ \A q \in Orders \ {o} : orders'[q] = orders[q]
        BY <2>2 DEF CommerceInv, CheckoutTypeOK, OrdersTypeOK
    <2>4. UNCHANGED Granted
        BY <1>2, <2>2, <2>3
    <2>5. Ledger!PlaceOrder(o)
        BY <1>1, <2>2, <2>3, <2>4 DEF Ledger!PlaceOrder
    <2> QED BY <2>5 DEF Ledger!LedgerNext
<1>5. ASSUME NEW r \in Requests, AttachProviderOrder(r), ~UNCHANGED orders
      PROVE  Ledger!LedgerNext
    <2>1. KnowsRow(r)
        BY <1>5 DEF AttachProviderOrder, CommerceInv, CheckoutInv, RequestsKnow, RequestKnows
    <2> PICK o \in Orders : o = chosen[r] /\ orders[o].status # "absent"
        BY <2>1 DEF KnowsRow
    <2> DEFINE row == [orders[o] EXCEPT !.porder = created[r]]
    <2>2. orders[o].porder = None /\ orders' = [orders EXCEPT ![o] = row]
        BY <1>5 DEF AttachProviderOrder
    <2>3. created[r] \in ProviderOrders /\ orders[o] \in OrderRow
        BY <1>5 DEF AttachProviderOrder, CommerceInv, CheckoutInv, RequestsKnow, RequestKnows,
                    CheckoutTypeOK, OrdersTypeOK
    <2>4. row.porder = created[r] /\ row.status = orders[o].status
        BY <2>3, RowWithProvider
    <2> HIDE DEF row
    <2>5. orders'[o] = row /\ \A q \in Orders \ {o} : orders'[q] = orders[q]
        BY <2>2 DEF CommerceInv, CheckoutTypeOK, OrdersTypeOK
    <2>6. UNCHANGED Granted
        BY <1>2, <2>4, <2>5
    <2>7. orders' = [orders EXCEPT ![o].porder = orders'[o].porder]
        BY <2>2, <2>4, <2>5 DEF row
    <2>8. Ledger!AttachOrder(o)
        BY <1>1, <2>2, <2>6, <2>7 DEF Ledger!AttachOrder
    <2> QED BY <2>8 DEF Ledger!LedgerNext
<1>6. ASSUME NEW r \in Requests, RequestStep(r), ~CommitOrder(r), ~AttachProviderOrder(r)
      PROVE  UNCHANGED orders
    BY <1>6 DEF RequestStep, Validate, LoadPurchasable, CreateOrder, FindByKey, SkipProvider,
                CallProvider, OpenAtRazorpay
<1>7. ASSUME NEW r \in Requests, RequestFailure(r) PROVE UNCHANGED orders
    BY <1>7 DEF RequestFailure, LoseProviderResponse, OpenAtRazorpay, FailRequest
<1>8. ASSUME NEW p \in Products, EditProduct(p) PROVE UNCHANGED orders
    BY <1>8 DEF EditProduct
<1> QED BY <1>3, <1>4, <1>5, <1>6, <1>7, <1>8 DEF CheckoutStep

LEMMA CommerceLedgerSteps ==
    CommerceInv /\ CommerceInv' /\ [CommerceNext]_commerceVars
        => [Ledger!LedgerNext]_(Ledger!ledger)
<1> SUFFICES ASSUME CommerceInv, CommerceInv', [CommerceNext]_commerceVars
             PROVE  Ledger!LedgerNext \/ UNCHANGED Ledger!ledger
    OBVIOUS
<1>1. CASE UNCHANGED <<orders, webhooks, payments, entitlements>>
    BY <1>1 DEF Ledger!ledger, Granted, Handled
<1>2. CASE CheckoutStep /\ UNCHANGED settlementOnly
    BY <1>2, CheckoutRefines
<1>3. CASE SettlementStep(OldOrders)
    BY <1>3, SettlementStepAged, LedgerSteps DEF CommerceInv, SettlementNext
<1>4. ASSUME NEW e \in Events, Attempt(e)
      PROVE  UNCHANGED <<orders, webhooks, payments, entitlements>>
    BY <1>4 DEF Attempt, tables
<1>5. UNCHANGED commerceVars => UNCHANGED <<orders, webhooks, payments, entitlements>>
    BY DEF commerceVars, tables
<1> QED BY <1>1, <1>2, <1>3, <1>4, <1>5 DEF CommerceNext, AllSettled

(* Carts, prices, payment windows, webhooks and the expiry job together    *)
(* show a reader of the tables a ledger, in which every event is one step. *)
THEOREM CommerceRefinement == CommerceSpec => ImplementsLedger
BY CommerceLedgerStarts, CommerceLedgerSteps, CommerceInvariance, PTL
   DEF CommerceSpec, ImplementsLedger, Ledger!LedgerSpec
=============================================================================
