---------------------------- MODULE MCSettlement ----------------------------
(***************************************************************************)
(* Small instances of Settlement: one order bought and paid for in several *)
(* conflicting ways, a second one beside it, and one event of every kind   *)
(* the endpoint tells apart.                                               *)
(***************************************************************************)
EXTENDS SettlementInvariant, TLC

CONSTANTS o1, o2, p1, p2, r1, r2, r3, pay1, pay2, pay3

Event(id, type, payment, porder, amount) ==
    [id |-> id, type |-> type, signed |-> TRUE, payment |-> payment,
     porder |-> porder, amount |-> amount, currency |-> "INR"]

Row(po, items) ==
    [status |-> "pending", porder |-> po, key |-> None,
     total |-> IF Cardinality(DOMAIN items) = 2 THEN 3 ELSE 1, items |-> items]

TwoItems == [p \in {p1, p2} |-> IF p = p1 THEN 1 ELSE 2]
OneItem == [p \in {p1} |-> 1]

MCOrders ==
    {[o \in Orders |-> IF o = o1 THEN Row(r1, TwoItems) ELSE Row(r2, OneItem)]}

\* Workers are interchangeable in the run that checks no liveness.
WorkerSymmetry == Permutations(Workers)

MCSessions == Workers \cup Sweepers

\* One payment reported three ways under three event ids, and a second
\* payment of the same order: every pair of them conflicts.  The last two are
\* for the wrong sum, and for an order this database does not have.
Contended ==
    {Event(1, CaptureEvent, pay1, r1, 3), Event(2, CaptureEvent, pay1, r1, 3),
     Event(3, FailureEvent, pay1, r1, 3), Event(4, CaptureEvent, pay2, r1, 3),
     Event(5, CaptureEvent, pay2, r1, 2), Event(6, CaptureEvent, pay3, r3, 3)}

\* One capture that settles, a payment row the CHECKs of the table do not
\* accept, a type that is only stored, a body that is not Razorpay's.
Assorted ==
    {Event(1, CaptureEvent, pay1, r1, 3),
     [Event(2, FailureEvent, pay2, r1, 3) EXCEPT !.currency = "USD"],
     Event(3, "order.paid", pay1, r1, 3),
     [Event(4, "", None, None, 0) EXCEPT !.signed = FALSE]}
=============================================================================
