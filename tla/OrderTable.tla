------------------------------ MODULE OrderTable ----------------------------
(***************************************************************************)
(* The orders table as Postgres shows it to concurrent sessions: the       *)
(* committed rows, and for each row the session whose transaction holds    *)
(* its lock (SELECT ... FOR UPDATE, or an UPDATE not yet committed).       *)
(***************************************************************************)
EXTENDS Schema

CONSTANT Sessions    \* database sessions that lock order rows

VARIABLES
    orders,          \* [Orders -> OrderRow], committed
    rowLock          \* [Orders -> Sessions \cup {None}]

OrdersTypeOK ==
    /\ orders \in [Orders -> OrderRow]
    /\ rowLock \in [Orders -> Sessions \cup {None}]

(* A second session waits until the holder's transaction ends.             *)
CanLock(o, s) == rowLock[o] \in {None, s}

LockRow(o, s) == rowLock' = [rowLock EXCEPT ![o] = s]

LockedBy(s) == {o \in Orders : rowLock[o] = s}

(* Every lock of a transaction goes when it commits or rolls back.         *)
Unlock(s) ==
    rowLock' = [o \in Orders |-> IF rowLock[o] = s THEN None ELSE rowLock[o]]

(* Two orders never share a provider order: orders_provider_order_id_unique *)
OrdersFor(po) == {o \in Orders : orders[o].porder = po /\ po # None}
=============================================================================
