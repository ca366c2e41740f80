-------------------------- MODULE CommerceInvariant -------------------------
(***************************************************************************)
(* Why Checkout and Settlement are correct over one orders table, as an    *)
(* inductive invariant: what each request knows of the row it works on,    *)
(* what Razorpay's orders stand for, and why every event it sends finds    *)
(* the order it pays for.                                                  *)
(***************************************************************************)
EXTENDS Commerce, SettlementInvariant

Priced(items) == items # NoOrder.items /\ SumFunction(items) \in Nat \ {0}

(* The row is ours: no other session can see it before COMMIT.             *)
HoldsNewRow(r) ==
    /\ chosen[r] \in Orders /\ orders[chosen[r]].status = "absent"
    /\ Priced(lines[r])
    /\ copy[r] = [status |-> "pending", porder |-> None, key |-> KeyOf[r],
                  total |-> SumFunction(lines[r]), items |-> lines[r]]
    /\ \A o \in Orders : KeyOf[r] # None => orders[o].key # KeyOf[r]

(* The copy of a committed row may only be behind on porder and status.    *)
KnowsRow(r) ==
    LET row == orders[chosen[r]] IN
    /\ chosen[r] \in Orders /\ row.status # "absent" /\ row.key = KeyOf[r]
    /\ copy[r].items = row.items /\ copy[r].total = row.total
    /\ copy[r].porder \in {None, row.porder}

RequestKnows(r) ==
    /\ step[r] = "price" => CartOf[r] # {}
    /\ step[r] = "insert" => Priced(lines[r])
    /\ step[r] = "commit" => HoldsNewRow(r)
    /\ step[r] \in {"provider", "attach", "done"} => KnowsRow(r)
    /\ step[r] = "attach" =>
          /\ ProviderEnabled /\ created[r] \in ProviderOrders
          /\ razorpay[created[r]] = [receipt |-> chosen[r],
                                     amount  |-> orders[chosen[r]].total]
    /\ step[r] = "done" =>
          /\ copy[r].porder = orders[chosen[r]].porder
          /\ ProviderEnabled => copy[r].porder # None

RequestsKnow == \A r \in Requests : RequestKnows(r)

(* Open transactions insert different ids and different keys.              *)
InsertsAreApart ==
    \A r, q \in Requests :
        step[r] = "commit" /\ step[q] = "commit" /\ r # q =>
            /\ chosen[r] # chosen[q]
            /\ KeyOf[r] = KeyOf[q] => KeyOf[r] = None

(* A committed row has priced lines, and its Razorpay order, once it has   *)
(* one, was registered for it and for its total.                           *)
RowsAreHonoured ==
    \A o \in Orders :
        /\ orders[o].status # "absent" =>
              /\ orders[o].total = SumFunction(orders[o].items)
              /\ orders[o].total > 0
        /\ orders[o].porder # None =>
              /\ ProviderEnabled
              /\ razorpay[orders[o].porder] =
                    [receipt |-> o, amount |-> orders[o].total]

LockedRowsExist ==
    \A o \in Orders : rowLock[o] # None => orders[o].status # "absent"

(* What Razorpay reports is about a window it was given by one of our      *)
(* orders, and for the sum that order owes.                                *)
EventsAreEarned ==
    \A e \in emitted : Acceptable(e) /\ Actionable(e) =>
        \E o \in OrdersFor(e.porder) : PaysFor(e, orders[o])

(* Only what Razorpay sent is handled or on record.                        *)
OnlyEmittedIsHandled ==
    /\ \A w \in Workers : handling[w] \in emitted \cup {None}
    /\ \A e \in Events : webhooks[e] # "absent" => e \in emitted

(* Read as a property: what a request read or wrote at one step is still   *)
(* true when a later step relies on it, and so is what a payment event     *)
(* says of the order, whatever the other requests, the webhook workers and *)
(* the expiry job commit in between.                                       *)
CheckoutInv ==
    /\ RequestsKnow
    /\ InsertsAreApart
    /\ OneOrderPerKey
    /\ RowsAreHonoured
    /\ LockedRowsExist
    /\ EventsAreEarned
    /\ OnlyEmittedIsHandled

(* Both halves over one orders table: a settlement may rely on the rows it *)
(* locked, and a checkout on the rows it read, though the other commits to *)
(* the same rows in between.                                               *)
CommerceInv == CheckoutTypeOK /\ SettlementInv /\ CheckoutInv
=============================================================================
