------------------------------- MODULE Checkout -----------------------------
(***************************************************************************)
(* POST /orders: the orders package turns a cart into a pending order      *)
(* priced from the catalogue, and gives the order one Razorpay order.      *)
(*                                                                         *)
(* A request is a goroutine of any API replica.  A client that got no      *)
(* answer, or a buyer who clicks twice, is another request with the same   *)
(* Idempotency-Key.                                                        *)
(***************************************************************************)
EXTENDS OrderTable, Functions

CONSTANTS
    Requests,         \* checkout requests
    KeyOf,            \* the Idempotency-Key of each, or None
    CartOf,           \* the products each asks for
    CreatorOf,        \* the creator of each product
    MaxItems,         \* maxItemsPerOrder
    ProviderEnabled,  \* Razorpay keys are configured
    InitialCatalog,   \* what the catalogue may hold at the start
    MaxEdits,         \* changes creators make to their products
    MaxMishaps        \* statements and provider calls that fail

VARIABLES
    catalog,          \* products: price, and whether it can be bought
    step,             \* what each request does next
    lines,            \* the lines a request has priced
    copy,             \* the order row in the request's memory (*Order)
    chosen,           \* the id of that row
    created,          \* the Razorpay order it has just created
    razorpay,         \* Razorpay's orders: which of ours, and the amount
    edits,
    mishaps

requests == <<step, lines, copy, chosen, created>>
checkoutVars == <<orders, rowLock, catalog, requests, razorpay, edits, mishaps>>

Steps == {"validate", "price", "insert", "commit", "find", "provider", "attach",
          "done", "refused", "failed"}
Finished == {"done", "refused", "failed"}
Listing == [price : Amounts, forSale : BOOLEAN]
Lines == UNION {[S -> Amounts] : S \in SUBSET Products}

NotHeld == [receipt |-> None, amount |-> 0]

ASSUME CheckoutAssumption ==
    /\ KeyOf \in [Requests -> Keys \cup {None}]
    /\ CartOf \in [Requests -> SUBSET Products]
    /\ MaxItems \in Nat \ {0}
    /\ ProviderEnabled \in BOOLEAN
    /\ InitialCatalog \subseteq [Products -> Listing]
    /\ MaxEdits \in Nat
    /\ MaxMishaps \in Nat
    (* The same key is the same attempt: the client sends the same cart.   *)
    /\ \A r, q \in Requests :
          KeyOf[r] = KeyOf[q] /\ KeyOf[r] # None => CartOf[r] = CartOf[q]

CheckoutInit ==
    /\ orders = [o \in Orders |-> NoOrder]
    /\ rowLock = [o \in Orders |-> None]
    /\ catalog \in InitialCatalog
    /\ step = [r \in Requests |-> "validate"]
    /\ lines = [r \in Requests |-> NoOrder.items]
    /\ copy = [r \in Requests |-> NoOrder]
    /\ chosen = [r \in Requests |-> None]
    /\ created = [r \in Requests |-> None]
    /\ razorpay = [po \in ProviderOrders |-> NotHeld]
    /\ edits = 0
    /\ mishaps = 0

Then(r, s) == step' = [step EXCEPT ![r] = s]

-----------------------------------------------------------------------------
(* A creator reprices a product, publishes it or takes it off sale.        *)
EditProduct(p) ==
    /\ edits < MaxEdits
    /\ edits' = edits + 1
    /\ \E new \in Listing :
          new # catalog[p] /\ catalog' = [catalog EXCEPT ![p] = new]
    /\ UNCHANGED <<orders, rowLock, requests, razorpay, mishaps>>

(* validateEmail, normaliseProductIDs (a set: duplicates count once) and   *)
(* the length of the key.  Nothing has been read or written yet.           *)
Validate(r) ==
    /\ step[r] = "validate"
    /\ Then(r, IF Cardinality(CartOf[r]) \in 1..MaxItems
                THEN "price" ELSE "refused")
    /\ UNCHANGED <<orders, rowLock, catalog, lines, copy, chosen, created,
                   razorpay, edits, mishaps>>

(* Mutant: a product that is not for sale becomes a line without a price.  *)
LoadAnything(r) ==
    LET cart == CartOf[r]
        priced == [p \in cart |-> IF catalog[p].forSale
                                  THEN catalog[p].price ELSE 0] IN
    /\ step[r] = "price"
    /\ lines' = [lines EXCEPT ![r] = priced]
    /\ Then(r, "insert")
    /\ UNCHANGED <<orders, rowLock, catalog, copy, chosen, created,
                   razorpay, edits, mishaps>>

(* LoadPurchasable, and the checks on the rows it returned.                *)
LoadPurchasable(r) ==
    LET cart == CartOf[r]
        available == {p \in cart : catalog[p].forSale}
        priced == [p \in available |-> catalog[p].price] IN
    /\ step[r] = "price"
    /\ IF /\ available = cart
          /\ \A p, q \in cart : CreatorOf[p] = CreatorOf[q]
          /\ SumFunction(priced) \in Nat \ {0}
       THEN /\ lines' = [lines EXCEPT ![r] = priced]
            /\ Then(r, "insert")
       ELSE /\ Then(r, "refused")
            /\ UNCHANGED lines
    /\ UNCHANGED <<orders, rowLock, catalog, copy, chosen, created,
                   razorpay, edits, mishaps>>

(* An order id no row has, committed or not (gen_random_uuid).             *)
FreshOrders ==
    {o \in Orders : /\ orders[o].status = "absent"
                    /\ \A q \in Requests : ~(step[q] = "commit" /\ chosen[q] = o)}

KeyInserted(k) == \E o \in Orders : orders[o].key = k /\ orders[o].status # "absent"

(* Mutant: the key is looked up first and inserted without a unique index. *)
CreateOrderCheckFirst(r) ==
    LET k == KeyOf[r] IN
    /\ step[r] = "insert"
    /\ IF k # None /\ KeyInserted(k)
       THEN /\ Then(r, "find")
            /\ lines' = [lines EXCEPT ![r] = NoOrder.items]
            /\ UNCHANGED <<chosen, copy>>
       ELSE \E o \in FreshOrders :
              /\ chosen' = [chosen EXCEPT ![r] = o]
              /\ copy' = [copy EXCEPT ![r] =
                    [status |-> "pending", porder |-> None, key |-> k,
                     total |-> SumFunction(lines[r]), items |-> lines[r]]]
              /\ Then(r, "commit")
              /\ UNCHANGED lines
    /\ UNCHANGED <<orders, rowLock, catalog, created, razorpay, edits, mishaps>>

(* CreateOrder: INSERT under orders_idempotency_key_unique.  It waits for  *)
(* an open transaction that inserted the key; a conflict ends this one,    *)
(* and the lines it priced are of no more use.  Which fresh id the row     *)
(* gets makes no difference.                                               *)
CreateOrder(r) ==
    LET k == KeyOf[r] IN
    /\ step[r] = "insert"
    /\ ~\E q \in Requests \ {r} : step[q] = "commit" /\ KeyOf[q] = k /\ k # None
    /\ IF k # None /\ KeyInserted(k)
       THEN /\ Then(r, "find")
            /\ lines' = [lines EXCEPT ![r] = NoOrder.items]
            /\ UNCHANGED <<chosen, copy>>
       ELSE \E o \in FreshOrders :
              /\ o = CHOOSE f \in FreshOrders : TRUE
              /\ chosen' = [chosen EXCEPT ![r] = o]
              /\ copy' = [copy EXCEPT ![r] =
                    [status |-> "pending", porder |-> None, key |-> k,
                     total |-> SumFunction(lines[r]), items |-> lines[r]]]
              /\ Then(r, "commit")
              /\ UNCHANGED lines
    /\ UNCHANGED <<orders, rowLock, catalog, created, razorpay, edits, mishaps>>

(* AddItem for each line, ListItems, COMMIT.                               *)
CommitOrder(r) ==
    /\ step[r] = "commit"
    /\ orders' = [orders EXCEPT ![chosen[r]] = copy[r]]
    /\ Then(r, "provider")
    /\ UNCHANGED <<rowLock, catalog, lines, copy, chosen, created,
                   razorpay, edits, mishaps>>

(* The replay path: FindByIdempotencyKey and its items.                    *)
FindByKey(r) ==
    /\ step[r] = "find"
    /\ \E o \in Orders :
          /\ orders[o].status # "absent" /\ orders[o].key = KeyOf[r]
          /\ chosen' = [chosen EXCEPT ![r] = o]
          /\ copy' = [copy EXCEPT ![r] = orders[o]]
    /\ Then(r, "provider")
    /\ UNCHANGED <<orders, rowLock, catalog, lines, created, razorpay, edits, mishaps>>

-----------------------------------------------------------------------------
(* ensureProviderOrder decides on the copy of the row in memory.           *)
NeedsProvider(r) == ProviderEnabled /\ copy[r].porder = None

SkipProvider(r) ==
    /\ step[r] = "provider"
    /\ ~NeedsProvider(r)
    /\ Then(r, "done")
    /\ UNCHANGED <<orders, rowLock, catalog, lines, copy, chosen, created,
                   razorpay, edits, mishaps>>

(* Mutant: Razorpay is asked for what the lines cost now.                  *)
OpenAtCurrentPrice(r, po) ==
    /\ step[r] = "provider"
    /\ NeedsProvider(r)
    /\ razorpay[po] = NotHeld
    /\ po = CHOOSE q \in ProviderOrders : razorpay[q] = NotHeld
    /\ razorpay' = [razorpay EXCEPT ![po] =
                       [receipt |-> chosen[r],
                        amount  |-> SumFunction([p \in DOMAIN copy[r].items |->
                                                    catalog[p].price])]]
    /\ UNCHANGED <<orders, rowLock, catalog, lines, copy, chosen, edits>>

(* Razorpay does not deduplicate: every call that reaches it makes another *)
(* order there (razorpay/client.go:96-99).                                 *)
OpenAtRazorpay(r, po) ==
    /\ step[r] = "provider"
    /\ NeedsProvider(r)
    /\ razorpay[po] = NotHeld
    /\ po = CHOOSE q \in ProviderOrders : razorpay[q] = NotHeld
    /\ razorpay' = [razorpay EXCEPT ![po] =
                       [receipt |-> chosen[r], amount |-> copy[r].total]]
    /\ UNCHANGED <<orders, rowLock, catalog, lines, copy, chosen, edits>>

CallProvider(r) ==
    \E po \in ProviderOrders :
        /\ OpenAtRazorpay(r, po)
        /\ created' = [created EXCEPT ![r] = po]
        /\ Then(r, "attach")
        /\ UNCHANGED mishaps

(* The call reached Razorpay and its response did not reach us.            *)
LoseProviderResponse(r) ==
    /\ mishaps < MaxMishaps
    /\ mishaps' = mishaps + 1
    /\ \E po \in ProviderOrders : OpenAtRazorpay(r, po)
    /\ Then(r, "failed")
    /\ UNCHANGED created

(* Mutant: no "provider_order_id IS NULL" in the UPDATE.                   *)
AttachOverwrites(r) ==
    LET o == chosen[r]
        row == [orders[o] EXCEPT !.porder = created[r]] IN
    /\ step[r] = "attach"
    /\ rowLock[o] = None
    /\ orders' = [orders EXCEPT ![o] = row]
    /\ copy' = [copy EXCEPT ![r] = row]
    /\ Then(r, "done")
    /\ UNCHANGED <<rowLock, catalog, lines, chosen, created, razorpay, edits, mishaps>>

(* Mutant: the loser of the race answers with the id it created itself.    *)
AttachReturnsOwn(r) ==
    LET o == chosen[r] IN
    /\ step[r] = "attach"
    /\ IF orders[o].porder = None
       THEN /\ rowLock[o] = None
            /\ orders' = [orders EXCEPT ![o].porder = created[r]]
       ELSE UNCHANGED orders
    /\ copy' = [copy EXCEPT ![r].porder = created[r]]
    /\ Then(r, "done")
    /\ UNCHANGED <<rowLock, catalog, lines, chosen, created, razorpay, edits, mishaps>>

(* Mutant: the whole row in memory is saved, not the one column.           *)
AttachSavesCopy(r) ==
    LET o == chosen[r]
        row == [copy[r] EXCEPT !.porder = created[r]] IN
    /\ step[r] = "attach"
    /\ IF orders[o].porder = None
       THEN /\ rowLock[o] = None
            /\ orders' = [orders EXCEPT ![o] = row]
            /\ copy' = [copy EXCEPT ![r] = row]
       ELSE /\ copy' = [copy EXCEPT ![r] = orders[o]]
            /\ UNCHANGED orders
    /\ Then(r, "done")
    /\ UNCHANGED <<rowLock, catalog, lines, chosen, created, razorpay, edits, mishaps>>

(* AttachProviderOrder, UPDATE ... WHERE provider_order_id IS NULL.  The   *)
(* loser of a race reads the winner's row.                                 *)
AttachProviderOrder(r) ==
    LET o == chosen[r]
        row == [orders[o] EXCEPT !.porder = created[r]] IN
    /\ step[r] = "attach"
    /\ IF orders[o].porder = None
       THEN /\ rowLock[o] = None
            /\ orders' = [orders EXCEPT ![o] = row]
            /\ copy' = [copy EXCEPT ![r] = row]
       ELSE /\ copy' = [copy EXCEPT ![r] = orders[o]]
            /\ UNCHANGED orders
    /\ Then(r, "done")
    /\ UNCHANGED <<rowLock, catalog, lines, chosen, created, razorpay, edits, mishaps>>

(* A statement or the provider call fails, or the process dies: the open   *)
(* transaction, if any, rolls back and the client sees an error.           *)
FailRequest(r) ==
    /\ step[r] \notin Finished
    /\ mishaps < MaxMishaps
    /\ mishaps' = mishaps + 1
    /\ Then(r, "failed")
    /\ UNCHANGED <<orders, rowLock, catalog, lines, copy, chosen, created,
                   razorpay, edits>>

-----------------------------------------------------------------------------
(* The request whose transaction created the row it is working on.         *)
Creating(r, o) ==
    step[r] \notin Finished /\ chosen[r] = o /\ lines[r] # NoOrder.items

RequestStep(r) ==
    \/ Validate(r) \/ LoadPurchasable(r) \/ CreateOrder(r) \/ CommitOrder(r)
    \/ FindByKey(r) \/ SkipProvider(r) \/ CallProvider(r)
    \/ AttachProviderOrder(r)

RequestFailure(r) == LoseProviderResponse(r) \/ FailRequest(r)

CheckoutStep ==
    \/ \E p \in Products : EditProduct(p)
    \/ \E r \in Requests : RequestStep(r) \/ RequestFailure(r)

-----------------------------------------------------------------------------
CheckoutTypeOK ==
    /\ OrdersTypeOK
    /\ catalog \in [Products -> Listing]
    /\ step \in [Requests -> Steps]
    /\ lines \in [Requests -> Lines]
    /\ copy \in [Requests -> OrderRow]
    /\ chosen \in [Requests -> Orders \cup {None}]
    /\ created \in [Requests -> ProviderOrders \cup {None}]
    /\ razorpay \in [ProviderOrders -> [receipt : Orders \cup {None}, amount : Nat]]
    /\ edits \in 0..MaxEdits
    /\ mishaps \in 0..MaxMishaps

(* One attempt, one order (service.go:43-45): no two rows share a key,     *)
(* however the requests that carry it interleave.                          *)
OneOrderPerKey ==
    \A o, q \in Orders :
        /\ orders[o].key = orders[q].key /\ orders[o].key # None
        => o = q

(* Two answers to the same attempt name the same order and, once it has    *)
(* one, the same Razorpay order: a double click cannot open two payment    *)
(* windows (service.go:199-203).                                           *)
ReplaysAgree ==
    \A r, q \in Requests :
        /\ KeyOf[r] = KeyOf[q] /\ KeyOf[r] # None
        /\ step[r] = "done" /\ step[q] = "done"
        => /\ chosen[r] = chosen[q]
           /\ copy[r].porder = copy[q].porder
           /\ copy[r].items = copy[q].items

(* A payment window a buyer may be looking at belongs to an order of ours  *)
(* that will recognise it, for the sum of the prices frozen in its lines:  *)
(* the half that could take money for nothing is never lost                *)
(* (service.go:146-150, domain.go:29-32).                                  *)
WindowsAreHonoured ==
    \A r \in Requests :
        step[r] = "done" /\ copy[r].porder # None =>
            LET o == chosen[r] IN
            /\ orders[o].porder = copy[r].porder
            /\ razorpay[copy[r].porder] =
                  [receipt |-> o, amount |-> orders[o].total]
            /\ orders[o].total = SumFunction(orders[o].items)
            /\ orders[o].total > 0

=============================================================================
