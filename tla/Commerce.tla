------------------------------- MODULE Commerce -----------------------------
(***************************************************************************)
(* A purchase from cart to download: Checkout and Settlement over the same *)
(* orders table, with the buyer and Razorpay between them.  Razorpay takes *)
(* money only for orders it holds, for their exact amount and in rupees,   *)
(* and reports every attempt at least once, in any order, some under two   *)
(* event ids.                                                              *)
(***************************************************************************)
EXTENDS Checkout, Settlement

(* Before a window opens Razorpay has no attempt to report: what may       *)
(* arrive from the start is forged, does not parse or settles nothing.     *)
ASSUME CommerceAssumption ==
    \A e \in InitialEvents : ~(Acceptable(e) /\ Actionable(e))

commerceVars ==
    <<orders, rowLock, catalog, requests, razorpay, edits, mishaps,
      tables, pc, session, batch, provider, failures>>

checkoutOnly == <<catalog, requests, razorpay, edits, mishaps>>
settlementOnly == <<tables, pc, session, batch, provider, failures>>

(* A payment window is open for po once some answer carried it.            *)
Shown(po) == \E r \in Requests : step[r] = "done" /\ copy[r].porder = po

(* The buyer tries to pay; Razorpay has one more event to deliver.         *)
Attempt(e) ==
    /\ e \notin emitted
    /\ Actionable(e) /\ e.signed
    /\ Shown(e.porder)
    /\ e.amount = razorpay[e.porder].amount /\ e.currency \in {"", "INR"}
    /\ emitted' = emitted \cup {e}
    /\ UNCHANGED <<orders, rowLock, checkoutOnly, tables, pc, session, batch,
                   answered, failures>>

(* PendingOrderTTL is a day and a request lasts seconds: an order is not   *)
(* expired under the request that created it.                              *)
OldOrders == {o \in Orders : \A r \in Requests : ~Creating(r, o)}

CommerceInit ==
    /\ CheckoutInit
    /\ SettlementInit

(* Every request answered, every event recorded, every order closed.       *)
AllSettled ==
    /\ \A r \in Requests : step[r] \in Finished
    /\ \A w \in Workers : pc[w] = "idle"
    /\ answered = emitted
    /\ \A o \in Orders : orders[o].status # "pending"
    /\ UNCHANGED commerceVars

CommerceNext ==
    \/ CheckoutStep /\ UNCHANGED settlementOnly
    \/ SettlementStep(OldOrders) /\ UNCHANGED checkoutOnly
    \/ \E e \in Events : Attempt(e)
    \/ AllSettled

CommerceSpec == CommerceInit /\ [][CommerceNext]_commerceVars

-----------------------------------------------------------------------------
(* Money that Razorpay took through a window we opened is never money for  *)
(* an unknown order or the wrong sum: its capture settles the order, or is *)
(* refused because the order was cancelled in the meantime.  No module     *)
(* promises this alone: it needs the id to be attached before the window   *)
(* opens, never replaced, and registered for the total the lines add up to.*)
CapturesFindTheirOrder ==
    \A e \in Events : IsCapture(e) =>
        /\ webhooks[e] = "refused" =>
              \E o \in OrdersFor(e.porder) : orders[o].status = "cancelled"
        /\ webhooks[e] = "applied" =>
              \E o \in OrdersFor(e.porder) :
                 /\ orders[o].status = "paid"
                 /\ DOMAIN orders[o].items \subseteq
                       {p \in Products : <<o, p>> \in entitlements}
=============================================================================
