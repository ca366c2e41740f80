-------------------------- MODULE SettlementInvariant -----------------------
(***************************************************************************)
(* Why Settlement is correct, as an inductive invariant: what each worker  *)
(* knows at each statement of its transaction, what the locks keep true    *)
(* meanwhile, and what every committed row stands for.                     *)
(***************************************************************************)
EXTENDS Settlement

Locking == {"payment", "paid", "grant", "count", "doomed"}

(* A worker between requests, or whose transaction is over, holds nothing. *)
AtRest(w) ==
    /\ target[w] = None /\ seen[w] = "absent"
    /\ wrote[w] = {} /\ verdict[w] = "none"

(* From the lookup on, the row stays locked, so that what was read of it   *)
(* is still so when it is used.                                            *)
HasOrder(w) ==
    LET e == handling[w]
        o == target[w] IN
    /\ o \in Orders /\ rowLock[o] = w
    /\ Actionable(e) /\ orders[o].porder = e.porder
    /\ seen[w] = orders[o].status

(* The attempt is on record, or will be when this transaction commits.     *)
Accounted(w) ==
    payments[handling[w].payment] # None \/ "payment" \in wrote[w]

(* A capture of the sum owed, past MarkOrderPaid and not refused by it.    *)
Settling(w) ==
    /\ HasOrder(w) /\ IsCapture(handling[w]) /\ PaysFor(handling[w], orders[target[w]])
    /\ Accounted(w)
    /\ \/ seen[w] = "pending" /\ "paid" \in wrote[w]
       \/ seen[w] = "paid" /\ "paid" \notin wrote[w]

RefusedRightly(w) ==
    LET e == handling[w]
        o == target[w] IN
    /\ wrote[w] \subseteq {"webhook", "payment"}
    /\ \/ ~Actionable(e) /\ wrote[w] = {"webhook"}
       \/ Actionable(e) /\ OrdersFor(e.porder) = {} /\ wrote[w] = {"webhook"}
       \/ /\ HasOrder(w) /\ IsCapture(e)
          /\ \/ ~PaysFor(e, orders[o]) /\ wrote[w] = {"webhook"}
             \/ PaysFor(e, orders[o]) /\ seen[w] = "cancelled" /\ Accounted(w)

AppliedRightly(w) ==
    LET e == handling[w] IN
    IF IsCapture(e)
    THEN Settling(w) /\ {"entitlements", "purchases"} \subseteq wrote[w]
    ELSE /\ HasOrder(w) /\ e.type = FailureEvent
         /\ Accounted(w)
         /\ wrote[w] \subseteq {"webhook", "payment"}

(* What a worker has done, and knows, before each statement.               *)
KnowsAt(w) ==
    LET e == handling[w] IN
    /\ pc[w] = "idle" <=> e = None
    /\ e # None => Acceptable(e)
    /\ pc[w] \in {"idle", "claim", "reply"} => AtRest(w)
    /\ pc[w] = "reply" => webhooks[e] # "absent"
    /\ pc[w] \notin {"idle", "claim", "reply"} =>
          "webhook" \in wrote[w] /\ webhooks[e] = "absent"
    /\ pc[w] = "apply" => target[w] = None /\ wrote[w] = {"webhook"}
    /\ pc[w] \in {"apply", "payment", "paid", "grant", "count"} =>
          verdict[w] = "none"
    /\ pc[w] \in Locking => HasOrder(w)
    /\ pc[w] = "payment" =>
          /\ wrote[w] = {"webhook"}
          /\ IsCapture(e) => PaysFor(e, orders[target[w]])
    /\ pc[w] = "paid" =>
          /\ IsCapture(e) /\ PaysFor(e, orders[target[w]]) /\ Accounted(w)
          /\ wrote[w] \subseteq {"webhook", "payment"}
    /\ pc[w] = "grant" =>
          Settling(w) /\ wrote[w] \subseteq {"webhook", "payment", "paid"}
    /\ pc[w] = "count" =>
          /\ Settling(w) /\ "entitlements" \in wrote[w]
          /\ "purchases" \notin wrote[w]
    /\ pc[w] = "close" =>
          \/ verdict[w] = "refused" /\ RefusedRightly(w)
          \/ verdict[w] = "applied" /\ AppliedRightly(w)

WorkersKnow == \A w \in Workers : KnowsAt(w)

(* No transaction writes a row that another one has claimed or committed.  *)
WritesAreExclusive ==
    /\ \A v, w \in Workers :
          /\ "webhook" \in wrote[v] /\ "webhook" \in wrote[w]
          /\ handling[v] = handling[w]
          => v = w
    /\ \A v, w \in Workers :
          /\ "payment" \in wrote[v] /\ "payment" \in wrote[w]
          /\ handling[v].payment = handling[w].payment
          => v = w
    /\ \A w \in Workers :
          "payment" \in wrote[w] => /\ handling[w] # None
                                    /\ payments[handling[w].payment] = None

(* A lock belongs to a transaction that is still running.                  *)
LocksAreHeld ==
    \A o \in Orders :
        /\ rowLock[o] \in Workers => target[rowLock[o]] = o
        /\ rowLock[o] \in Sweepers => orders[o].status = "pending"

(* Settlement never creates, prices or re-attaches an order.               *)
OrdersAreSound ==
    /\ \A o \in Orders :
          \/ orders[o] = NoOrder
          \/ orders[o].status # "absent" /\ orders[o].items # NoOrder.items
    /\ \A o, q \in Orders :
          orders[o].porder = orders[q].porder /\ orders[o].porder # None => o = q

(* Every payment row is the account of an event that has been recorded.    *)
PaymentsAreExplained ==
    \A p \in Payments : payments[p] # None =>
        \E e \in Events :
            /\ Acceptable(e) /\ Actionable(e) /\ e.payment = p
            /\ webhooks[e] # "absent"
            /\ orders[payments[p].order].porder = e.porder
            /\ payments[p].status = IF IsCapture(e) THEN "captured" ELSE "failed"
            /\ ~IsCapture(e) => webhooks[e] = "applied"

(* An order is paid by a capture that was applied to it.                   *)
PaidByCapture ==
    \A o \in Orders : orders[o].status = "paid" =>
        \E e \in Events : /\ IsCapture(e) /\ webhooks[e] = "applied"
                          /\ e.porder = orders[o].porder

(* A finished capture leaves its payment on record.                        *)
CapturesAreAccounted ==
    \A e \in Events : \A o \in OrdersFor(e.porder) :
        IsCapture(e) /\ webhooks[e] # "absent" /\ PaysFor(e, orders[o])
            => payments[e.payment] # None

(* Only what was accepted is on record.                                    *)
RecordsAreAuthentic == \A e \in Events : webhooks[e] # "absent" => Acceptable(e)

(* The inductive invariant.  Read as a property: what a transaction learnt  *)
(* and wrote in one statement is still so when a later one relies on it,    *)
(* whatever the other sessions commit in between.                           *)
SettlementInv ==
    /\ SettlementTypeOK
    /\ WorkersKnow
    /\ WritesAreExclusive
    /\ LocksAreHeld
    /\ OrdersAreSound
    /\ PaymentsAreExplained
    /\ PaidByCapture
    /\ CapturesAreAccounted
    /\ RecordsAreAuthentic
    /\ PaidMeansEntitled
    /\ VerdictsAreTrue
    /\ AnsweredMeansRecorded
=============================================================================
