----------------------------- MODULE OrderLedger ----------------------------
(***************************************************************************)
(* What settlement promises, with no transaction, lock or retry in sight:  *)
(* each event is dealt with once, in one step; a capture for the sum a     *)
(* pending order owes makes it paid AND downloadable in that same step;    *)
(* an order that has been cancelled stays so whatever arrives later.       *)
(***************************************************************************)
EXTENDS Schema

VARIABLES
    orders,      \* [Orders -> OrderRow]
    payments,    \* [Payments -> PaymentRow \cup {None}]
    granted,     \* orders whose every product may be downloaded
    handled      \* events dealt with

ledger == <<orders, payments, granted, handled>>

LedgerInit ==
    /\ orders \in [Orders -> OrderRow]
    /\ \A o \in Orders : orders[o].status \in {"absent", "pending"}
    /\ payments = [p \in Payments |-> None]
    /\ granted = {}
    /\ handled = {}

(* The first account of a payment attempt is the one that is kept.         *)
NoteAttempt(e, o) ==
    payments' =
        IF payments[e.payment] = None
        THEN [payments EXCEPT ![e.payment] =
                [order  |-> o,
                 status |-> IF IsCapture(e) THEN "captured" ELSE "failed",
                 amount |-> e.amount]]
        ELSE payments

Once(e) == e \notin handled /\ handled' = handled \cup {e}

SettleOrder(e, o) ==
    /\ Once(e)
    /\ IsCapture(e) /\ orders[o].porder = e.porder /\ PaysFor(e, orders[o])
    /\ orders[o].status = "pending"
    /\ NoteAttempt(e, o)
    /\ orders' = [orders EXCEPT ![o].status = "paid"]
    /\ granted' = granted \cup {o}

(* A capture of an order already paid or cancelled leaves the order alone. *)
NoteCapture(e, o) ==
    /\ Once(e)
    /\ IsCapture(e) /\ orders[o].porder = e.porder /\ PaysFor(e, orders[o])
    /\ orders[o].status \in {"paid", "cancelled"}
    /\ NoteAttempt(e, o)
    /\ UNCHANGED <<orders, granted>>

NoteFailure(e, o) ==
    /\ Once(e)
    /\ Actionable(e) /\ ~IsCapture(e) /\ orders[o].porder = e.porder
    /\ NoteAttempt(e, o)
    /\ UNCHANGED <<orders, granted>>

(* Only an event that is about no order, or a capture of the wrong sum, is *)
(* refused without leaving a payment row.                                  *)
RefuseEvent(e) ==
    /\ Once(e)
    /\ \A o \in Orders :
          /\ Actionable(e) => orders[o].porder # e.porder \/ IsCapture(e)
          /\ IsCapture(e) =>
                orders[o].porder # e.porder \/ ~PaysFor(e, orders[o])
    /\ UNCHANGED <<orders, payments, granted>>

CancelUnpaid(S) ==
    /\ \A o \in S : orders[o].status = "pending"
    /\ orders' = [o \in Orders |-> IF o \in S
                                   THEN [orders[o] EXCEPT !.status = "cancelled"]
                                   ELSE orders[o]]
    /\ UNCHANGED <<payments, granted, handled>>

(* Checkout adds orders and gives each one provider order, once.           *)
PlaceOrder(o) ==
    /\ orders[o].status = "absent"
    /\ orders'[o].status = "pending"
    /\ orders' = [orders EXCEPT ![o] = orders'[o]]
    /\ UNCHANGED <<payments, granted, handled>>

AttachOrder(o) ==
    /\ orders[o].status # "absent" /\ orders[o].porder = None
    /\ orders' = [orders EXCEPT ![o].porder = orders'[o].porder]
    /\ UNCHANGED <<payments, granted, handled>>

LedgerNext ==
    \/ \E o \in Orders : PlaceOrder(o) \/ AttachOrder(o)
    \/ \E e \in Events :
          \/ RefuseEvent(e)
          \/ \E o \in Orders :
                SettleOrder(e, o) \/ NoteCapture(e, o) \/ NoteFailure(e, o)
    \/ \E S \in SUBSET Orders : CancelUnpaid(S)

LedgerSpec == LedgerInit /\ [][LedgerNext]_ledger
=============================================================================
