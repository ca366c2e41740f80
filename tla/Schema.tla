------------------------------- MODULE Schema -------------------------------
(***************************************************************************)
(* The vocabulary of migration 000007: order rows, payment rows and the    *)
(* Razorpay events the webhook endpoint receives.  Identifiers, e-mails    *)
(* and titles are model values; what the code compares (statuses, amounts, *)
(* currencies, event types) keeps its value.                               *)
(***************************************************************************)
EXTENDS Naturals, FiniteSets

CONSTANTS
    Orders,          \* ids of rows of "orders"
    Products,        \* ids of products
    ProviderOrders,  \* ids Razorpay gives to the orders it holds
    Payments,        \* ids Razorpay gives to payment attempts
    Keys,            \* idempotency keys sent by browsers
    Amounts,         \* the amounts, in minor units, that occur
    Events,          \* the webhook events that can be delivered
    None             \* SQL NULL, and "no such row"

(* The statuses some code writes; "failed" and "refunded" are legal in the *)
(* schema and written by nothing.  "absent": the row does not exist.       *)
Statuses == {"absent", "pending", "paid", "cancelled"}

(* items maps each product of the order to its unit_price_minor.           *)
OrderRow ==
    [status : Statuses,
     porder : ProviderOrders \cup {None},
     key    : Keys \cup {None},
     total  : Nat,
     items  : UNION {[S -> Amounts] : S \in SUBSET Products}]

NoOrder == [status |-> "absent", porder |-> None, key |-> None, total |-> 0,
            items |-> [p \in {} |-> 0]]

PaymentRow ==
    [order : Orders, status : {"captured", "failed"}, amount : Nat]

CaptureEvent == "payment.captured"
FailureEvent == "payment.failed"

(* id is X-Razorpay-Event-Id, or the hash of the body when it is absent.   *)
(* A type that is none of the two above ("order.paid", "refund.created")   *)
(* is stored and not acted on; "" is a body that does not parse.           *)
EventBody ==
    [id       : Nat,
     type     : {CaptureEvent, FailureEvent, "order.paid", "other", ""},
     signed   : BOOLEAN,
     payment  : Payments \cup {None},
     porder   : ProviderOrders \cup {None},
     amount   : Nat,
     currency : {"", "INR", "USD"}]

ASSUME NoneIsFresh ==
    /\ None \notin Orders \cup Products \cup ProviderOrders \cup Payments
                   \cup Keys \cup Events
    /\ None \notin PaymentRow

ASSUME AmountsAssumption == Amounts \subseteq Nat

ASSUME EventsAssumption ==
    /\ Events \subseteq EventBody
    /\ \A d, e \in Events : d.id = e.id => d = e
    (* A Razorpay payment is an attempt at one Razorpay order (a forged     *)
    (* event may say anything).                                            *)
    /\ \A d, e \in Events :
          /\ d.signed /\ e.signed
          /\ d.payment = e.payment /\ d.payment # None
          => d.porder = e.porder

(* Handle verifies the signature and parses the body before anything else. *)
Acceptable(e) == e.signed /\ e.type # ""

(* apply goes on to the database only for these.                           *)
Actionable(e) ==
    /\ e.type \in {CaptureEvent, FailureEvent}
    /\ e.payment # None
    /\ e.porder # None

IsCapture(e) == Actionable(e) /\ e.type = CaptureEvent

(* The capture is for the sum owed.  An order's currency is always INR     *)
(* (orders_currency_valid), and an event without one is taken as INR.      *)
PaysFor(e, row) ==
    /\ e.amount = row.total
    /\ e.currency \in {"", "INR"}

(* payments_amount_positive and payments_currency_valid.                   *)
Storable(e) == e.amount > 0 /\ e.currency \in {"", "INR"}
=============================================================================
