----------------------------- MODULE MCCommerce ----------------------------
(***************************************************************************)
(* A double click (q1 and q2 carry one key), a creator who changes a price *)
(* or takes a product off sale meanwhile, a webhook worker and the job     *)
(* that expires orders.                                                    *)
(***************************************************************************)
EXTENDS CommerceInvariant, TLC

CONSTANTS k1, p1, p2, r1, r2, pay1, pay2

MCSessions == Workers \cup Sweepers
MCKeyOf == [r \in Requests |-> k1]
MCCartOf == [r \in Requests |-> {p1, p2}]
MCCreatorOf == [p \in Products |-> "creator"]
MCCatalog ==
    {[p \in Products |-> [price |-> IF p = p1 THEN 1 ELSE 2, forSale |-> TRUE]]}
MCOrders == {[o \in Orders |-> NoOrder]}

\* Each Razorpay order can get one payment, for any sum that the prices allow.
MCEvents ==
    {[id |-> n, type |-> CaptureEvent, signed |-> TRUE,
      payment |-> IF n < 3 THEN pay1 ELSE pay2,
      porder |-> IF n < 3 THEN r1 ELSE r2,
      amount |-> 2 + (n % 3), currency |-> "INR"] : n \in 0..5}
=============================================================================
