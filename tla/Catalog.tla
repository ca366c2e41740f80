------------------------------- MODULE Catalog ------------------------------
(***************************************************************************)
(* One product, its files and what its buyers may download: publishing,    *)
(* uploads, deletions (products), the sweep of abandoned uploads (jobs)    *)
(* and the entitlements that delivery reads.                               *)
(*                                                                         *)
(* Every caller is a goroutine of any replica: a request of the creator or *)
(* a run of the job.  Each action is one statement at READ COMMITTED; what *)
(* a transaction has written is seen by others once it commits, and until  *)
(* then it holds the locks of the rows.  The storefront cache is dropped   *)
(* after each commit and is no part of this module.                        *)
(***************************************************************************)
EXTENDS Naturals, FiniteSets

CONSTANTS
    Callers,
    Files,           \* the ids, and keys, that uploads can be given
    Contents,        \* what may be uploaded; each has the signed length
    Orders,          \* orders for this product
    MaxFiles,        \* maxFilesPerProduct
    MaxFaults,       \* statements and object calls that fail, crashes
    None

VARIABLES
    status,          \* products.status
    rows,            \* product_files: the state of a row and its checksum
    objects,         \* what the bucket holds under the key of each file
    urls,            \* files whose upload URL still works
    orders,          \* "none", "placed" or "entitled"
    productLock,     \* who holds the row of the product
    fileLock,        \* who holds the row of each file
    at,              \* what each caller does next
    target,          \* the file its request names
    wish,            \* the status it asks for, then the one it has written
    seen,            \* the checksum StatObject has answered
    doomed,          \* the files the sweep has found
    kept,            \* the files an order was sold with
    raced,           \* two operations overlapped that should not
    faults

locks == <<productLock, fileLock>>
call == <<at, target, wish, seen, doomed>>
catalogVars == <<status, rows, objects, urls, orders, locks, call, kept, raced, faults>>

(* Drafts and archived products are not told apart.                        *)
Statuses == {"withdrawn", "published"}

(* uploaded_at is NULL in "pending" rows, and in those that have been so   *)
(* for longer than AbandonedUploadTTL, the "overdue" ones.                 *)
FileRow == [state : {"unused", "pending", "overdue", "confirmed", "deleted"},
            checksum : Contents \cup {None}]

DeleteSteps == {"check", "remove", "remaining", "unpublish", "commit"}
EditSteps == {"update", "publish", "save"}
ConfirmSteps == {"stat", "accept"}
Steps == {"idle", "insert", "reap", "object", "objects"}
            \cup DeleteSteps \cup EditSteps \cup ConfirmSteps

ASSUME CatalogAssumption ==
    /\ None \notin Callers \cup Files \cup Contents
    /\ IsFiniteSet(Callers) /\ Callers # {} /\ IsFiniteSet(Files)
    /\ MaxFiles \in Nat /\ MaxFaults \in Nat

CatalogInit ==
    /\ status = "withdrawn"
    /\ rows = [f \in Files |-> [state |-> "unused", checksum |-> None]]
    /\ objects = [f \in Files |-> None]
    /\ urls = {}
    /\ orders = [o \in Orders |-> "none"]
    /\ productLock = None
    /\ fileLock = [f \in Files |-> None]
    /\ at = [c \in Callers |-> "idle"]
    /\ target = [c \in Callers |-> None]
    /\ wish = [c \in Callers |-> None]
    /\ seen = [c \in Callers |-> None]
    /\ doomed = [c \in Callers |-> {}]
    /\ kept = [o \in Orders |-> {}]
    /\ raced = FALSE
    /\ faults = 0

Overdue == {f \in Files : rows[f].state = "overdue"}
Pending == {f \in Files : rows[f].state = "pending"} \cup Overdue
Confirmed == {f \in Files : rows[f].state = "confirmed"}
Sold == \E o \in Orders : orders[o] = "entitled"
Removed(dead) ==
    [f \in Files |-> IF f \in dead THEN [rows[f] EXCEPT !.state = "deleted"] ELSE rows[f]]

Goto(c, step) ==
    /\ at' = [at EXCEPT ![c] = step]
    /\ UNCHANGED <<target, seen>>

(* A call begins.  The documentation knows no two of these at once.        *)
Busy(steps) == \E c \in Callers : at[c] \in steps
Begin(c, step, f, s, clashes) ==
    /\ at[c] = "idle"
    /\ at' = [at EXCEPT ![c] = step]
    /\ target' = [target EXCEPT ![c] = f]
    /\ wish' = [wish EXCEPT ![c] = s]
    /\ raced' = (raced \/ Busy(clashes))
    /\ UNCHANGED <<seen, rows, status, objects, orders, locks, kept, faults>>

(* It ends, and a transaction that is still open with it.                  *)
End(c) ==
    /\ at' = [at EXCEPT ![c] = "idle"]
    /\ target' = [target EXCEPT ![c] = None]
    /\ wish' = [wish EXCEPT ![c] = None]
    /\ seen' = [seen EXCEPT ![c] = None]
    /\ doomed' = [doomed EXCEPT ![c] = {}]

Release(c) ==
    /\ productLock' = IF productLock = c THEN None ELSE productLock
    /\ fileLock' = [f \in Files |-> IF fileLock[f] = c THEN None ELSE fileLock[f]]

-----------------------------------------------------------------------------
(* products.Service.Update: s is the status in the request, or None.       *)
BeginUpdate(c, s) ==
    /\ Begin(c, "update", None, s, DeleteSteps)
    /\ UNCHANGED <<urls, doomed>>

(* The UPDATE locks the row and sees its latest status.                    *)
UpdateProduct(c) ==
    /\ at[c] = "update"
    /\ productLock = None
    /\ productLock' = c
    /\ wish' = [wish EXCEPT ![c] = IF @ = None THEN status ELSE @]
    /\ Goto(c, "publish")
    /\ UNCHANGED <<status, rows, objects, urls, orders, fileLock, doomed,
                   kept, raced, faults>>

(* CountConfirmedFiles, only of a product that is to be published.         *)
CheckDeliverable(c) ==
    /\ at[c] = "publish"
    /\ \/ /\ wish[c] # "published" \/ Confirmed # {}
          /\ Goto(c, "save")
          /\ UNCHANGED <<wish, doomed, locks>>
       \/ /\ wish[c] = "published" /\ Confirmed = {}
          /\ End(c) /\ Release(c)
    /\ UNCHANGED <<status, rows, objects, urls, orders, kept, raced, faults>>

CommitUpdate(c) ==
    /\ at[c] = "save"
    /\ status' = wish[c]
    /\ End(c) /\ Release(c)
    /\ UNCHANGED <<rows, objects, urls, orders, kept, raced, faults>>

-----------------------------------------------------------------------------
(* Mutant: off by one.                                                     *)
RequestUploadOneMore(c) ==
    /\ Cardinality(Pending \cup Confirmed) <= MaxFiles
    /\ Begin(c, "insert", None, None, {})
    /\ UNCHANGED <<urls, doomed>>

(* RequestUpload: CountFiles; a product at its limit is refused.           *)
RequestUpload(c) ==
    /\ Cardinality(Pending \cup Confirmed) < MaxFiles
    /\ Begin(c, "insert", None, None, {})
    /\ UNCHANGED <<urls, doomed>>

(* CreateFile, COMMIT, PresignUpload: the id is fresh.                     *)
CreateFile(c) ==
    /\ at[c] = "insert"
    /\ \E f \in Files :
          /\ rows[f].state = "unused"
          /\ rows' = [rows EXCEPT ![f].state = "pending"]
          /\ urls' = urls \cup {f}
    /\ End(c)
    /\ UNCHANGED <<status, objects, orders, locks, kept, raced, faults>>

(* The browser's PUT, as often as it likes until the URL expires.          *)
PutObject(f, content) ==
    /\ f \in urls
    /\ objects' = [objects EXCEPT ![f] = content]
    /\ UNCHANGED <<status, rows, urls, orders, locks, call, kept, raced, faults>>

(* The last PUT that began in uploadURLTTL has ended.                      *)
ExpireUrl(f) ==
    /\ f \in urls
    /\ urls' = urls \ {f}
    /\ UNCHANGED <<status, rows, objects, orders, locks, call, kept, raced, faults>>

(* AbandonedUploadTTL is a day, uploadURLTTL a quarter of an hour.         *)
Age(f) ==
    /\ f \in Pending \ (urls \cup Overdue)
    /\ rows' = [rows EXCEPT ![f].state = "overdue"]
    /\ UNCHANGED <<status, objects, urls, orders, locks, call, kept, raced, faults>>

(* ConfirmUpload: a confirmed file is answered at once, as is a missing.   *)
BeginConfirm(c, f) ==
    /\ f \in Pending
    /\ Begin(c, "stat", f, None, {"reap"})
    /\ UNCHANGED <<urls, doomed>>

StatObject(c) ==
    /\ at[c] = "stat"
    /\ IF objects[target[c]] = None
       THEN End(c)
       ELSE /\ at' = [at EXCEPT ![c] = "accept"]
            /\ seen' = [seen EXCEPT ![c] = objects[target[c]]]
            /\ UNCHANGED <<target, wish, doomed>>
    /\ UNCHANGED <<status, rows, objects, urls, orders, locks, kept, raced, faults>>

(* Mutant: the UPDATE does not ask for uploaded_at IS NULL.                *)
ConfirmFileAgain(c) ==
    LET f == target[c] IN
    /\ at[c] = "accept"
    /\ fileLock[f] = None
    /\ rows' = IF f \in Pending \cup Confirmed
               THEN [rows EXCEPT ![f] = [state |-> "confirmed", checksum |-> seen[c]]]
               ELSE rows
    /\ End(c)
    /\ UNCHANGED <<status, objects, urls, orders, locks, kept, raced, faults>>

(* ConfirmFile: one statement; a row no longer pending is left alone.      *)
ConfirmFile(c) ==
    LET f == target[c] IN
    /\ at[c] = "accept"
    /\ fileLock[f] = None
    /\ rows' = IF f \in Pending
               THEN [rows EXCEPT ![f] = [state |-> "confirmed", checksum |-> seen[c]]]
               ELSE rows
    /\ End(c)
    /\ UNCHANGED <<status, objects, urls, orders, locks, kept, raced, faults>>

-----------------------------------------------------------------------------
(* DeleteFile: BEGIN and FindFileForUser.                                  *)
BeginDelete(c, f) ==
    /\ f \in Pending \cup Confirmed
    /\ Begin(c, "check", f, None, DeleteSteps \cup EditSteps)
    /\ UNCHANGED <<urls, doomed>>

(* Mutant: the file is deleted whoever has bought it.                      *)
CheckNothing(c) ==
    /\ at[c] = "check"
    /\ Goto(c, "remove")
    /\ UNCHANGED <<wish, doomed, status, rows, objects, urls, orders, locks, kept,
                   raced, faults>>

(* HasLiveEntitlements.                                                    *)
CheckSold(c) ==
    /\ at[c] = "check"
    /\ IF Sold THEN End(c) ELSE Goto(c, "remove") /\ UNCHANGED <<wish, doomed>>
    /\ UNCHANGED <<status, rows, objects, urls, orders, locks, kept, raced, faults>>

(* Mutant: the object goes before the row does.                            *)
RemoveRowAndObject(c) ==
    LET f == target[c] IN
    /\ at[c] = "remove"
    /\ fileLock[f] = None
    /\ fileLock' = IF rows[f].state # "deleted" THEN [fileLock EXCEPT ![f] = c] ELSE fileLock
    /\ objects' = [objects EXCEPT ![f] = None]
    /\ Goto(c, "remaining")
    /\ UNCHANGED <<wish, doomed, status, rows, urls, orders, productLock, kept,
                   raced, faults>>

(* The DELETE, which finds no row when another one was faster.             *)
RemoveRow(c) ==
    LET f == target[c] IN
    /\ at[c] = "remove"
    /\ fileLock[f] = None
    /\ fileLock' = IF rows[f].state # "deleted" THEN [fileLock EXCEPT ![f] = c] ELSE fileLock
    /\ Goto(c, "remaining")
    /\ UNCHANGED <<wish, doomed, status, rows, objects, urls, orders, productLock,
                   kept, raced, faults>>

(* Mutant: pending files count as deliverable.                             *)
CountAllRemaining(c) ==
    /\ at[c] = "remaining"
    /\ Goto(c, IF (Pending \cup Confirmed) \ {target[c]} = {} THEN "unpublish" ELSE "commit")
    /\ UNCHANGED <<wish, doomed, status, rows, objects, urls, orders, locks, kept,
                   raced, faults>>

(* CountConfirmedFiles: without the row this transaction has deleted.      *)
CountRemaining(c) ==
    /\ at[c] = "remaining"
    /\ Goto(c, IF Confirmed \ {target[c]} = {} THEN "unpublish" ELSE "commit")
    /\ UNCHANGED <<wish, doomed, status, rows, objects, urls, orders, locks, kept,
                   raced, faults>>

(* Unpublish waits for the row of a product that is published, and does    *)
(* not look at one that another transaction is only about to publish.      *)
Unpublish(c) ==
    /\ at[c] = "unpublish"
    /\ \/ status # "published" /\ UNCHANGED <<productLock, wish>>
       \/ /\ status = "published" /\ productLock = None
          /\ productLock' = c
          /\ wish' = [wish EXCEPT ![c] = "withdrawn"]
    /\ Goto(c, "commit")
    /\ UNCHANGED <<doomed, status, rows, objects, urls, orders, fileLock, kept,
                   raced, faults>>

CommitDelete(c) ==
    /\ at[c] = "commit"
    /\ rows' = Removed({f \in Files : fileLock[f] = c})
    /\ status' = IF productLock = c THEN wish[c] ELSE status
    /\ Release(c)
    /\ Goto(c, "object")
    /\ UNCHANGED <<wish, doomed, objects, urls, orders, kept, raced, faults>>

(* DeleteObject, after the commit.                                         *)
DeleteObject(c) ==
    /\ at[c] = "object"
    /\ objects' = [objects EXCEPT ![target[c]] = None]
    /\ End(c)
    /\ UNCHANGED <<status, rows, urls, orders, locks, kept, raced, faults>>

-----------------------------------------------------------------------------
(* SweepAbandonedUploads: the subselect finds them, ...                    *)
SelectAbandoned(c) ==
    /\ Overdue # {}
    /\ Begin(c, "reap", None, None, ConfirmSteps)
    /\ doomed' = [doomed EXCEPT ![c] = Overdue]
    /\ UNCHANGED urls

(* ... and the DELETE, once it has their locks, takes them by id only.     *)
ReapAbandoned(c) ==
    LET dead == {f \in doomed[c] : rows[f].state # "deleted"} IN
    /\ at[c] = "reap"
    /\ \A f \in doomed[c] : fileLock[f] = None
    /\ rows' = Removed(dead)
    /\ doomed' = [doomed EXCEPT ![c] = dead]
    /\ Goto(c, "objects")
    /\ UNCHANGED <<wish, status, objects, urls, orders, locks, kept, raced, faults>>

(* The objects one by one; the last one ends the batch.                    *)
DropAbandoned(c) ==
    /\ at[c] = "objects"
    /\ \/ \E f \in doomed[c] :
             /\ doomed' = [doomed EXCEPT ![c] = @ \ {f}]
             /\ \/ objects' = [objects EXCEPT ![f] = None] /\ UNCHANGED faults
                \/ faults < MaxFaults /\ faults' = faults + 1 /\ UNCHANGED objects
             /\ Goto(c, "objects")
             /\ UNCHANGED wish
       \/ doomed[c] = {} /\ End(c) /\ UNCHANGED <<objects, faults>>
    /\ UNCHANGED <<status, rows, urls, orders, locks, kept, raced>>

-----------------------------------------------------------------------------
(* A statement fails or the process dies: what is open rolls back.  Calls  *)
(* that have read only are not here: they end as if never made.            *)
Fail(c) ==
    /\ at[c] \in {"publish", "save", "remaining", "unpublish", "commit", "object",
                  "reap", "objects"}
    /\ faults < MaxFaults
    /\ faults' = faults + 1
    /\ End(c) /\ Release(c)
    /\ UNCHANGED <<status, rows, objects, urls, orders, kept, raced>>

(* Checkout: LoadPurchasable.                                              *)
PlaceOrder(o) ==
    /\ orders[o] = "none"
    /\ status = "published" /\ Confirmed # {}
    /\ orders' = [orders EXCEPT ![o] = "placed"]
    /\ UNCHANGED <<status, rows, objects, urls, locks, call, kept, raced, faults>>

(* A file that is past every question: a DeleteFile has asked whether it   *)
(* was sold, or the sweep whether it was confirmed.                        *)
Lost(f) == \E c \in Callers :
    \/ at[c] \in DeleteSteps \ {"check"} /\ target[c] = f
    \/ f \in doomed[c]

(* The webhook grants it, hours after the order was placed perhaps.        *)
GrantEntitlement(o) ==
    /\ orders[o] = "placed"
    /\ orders' = [orders EXCEPT ![o] = "entitled"]
    /\ kept' = [kept EXCEPT ![o] = {f \in Confirmed : ~Lost(f)}]
    /\ UNCHANGED <<status, rows, objects, urls, locks, call, raced, faults>>

(* Every file id has been used and nothing is left to do.                  *)
OutOfFiles ==
    /\ \A f \in Files : rows[f].state # "unused"
    /\ UNCHANGED catalogVars

CallerStep(c) ==
    \/ \E s \in Statuses \cup {None} : BeginUpdate(c, s)
    \/ UpdateProduct(c) \/ CheckDeliverable(c) \/ CommitUpdate(c)
    \/ RequestUpload(c) \/ CreateFile(c)
    \/ \E f \in Files : BeginConfirm(c, f) \/ BeginDelete(c, f)
    \/ StatObject(c) \/ ConfirmFile(c)
    \/ CheckSold(c) \/ RemoveRow(c) \/ CountRemaining(c) \/ Unpublish(c)
    \/ CommitDelete(c) \/ DeleteObject(c)
    \/ SelectAbandoned(c) \/ ReapAbandoned(c) \/ DropAbandoned(c)
    \/ Fail(c)

CatalogNext ==
    \/ \E c \in Callers : CallerStep(c)
    \/ \E f \in Files : ExpireUrl(f) \/ Age(f) \/ \E v \in Contents : PutObject(f, v)
    \/ \E o \in Orders : PlaceOrder(o) \/ GrantEntitlement(o)
    \/ OutOfFiles

CatalogSpec == CatalogInit /\ [][CatalogNext]_catalogVars

-----------------------------------------------------------------------------
(* Types; a row is locked only by a transaction that is open.              *)
CatalogTypeOK ==
    /\ status \in Statuses
    /\ rows \in [Files -> FileRow]
    /\ objects \in [Files -> Contents \cup {None}]
    /\ urls \subseteq Files
    /\ orders \in [Orders -> {"none", "placed", "entitled"}]
    /\ at \in [Callers -> Steps]
    /\ target \in [Callers -> Files \cup {None}]
    /\ wish \in [Callers -> Statuses \cup {None}]
    /\ seen \in [Callers -> Contents \cup {None}]
    /\ doomed \in [Callers -> SUBSET Files]
    /\ kept \in [Orders -> SUBSET Files]
    /\ raced \in BOOLEAN
    /\ faults \in 0..MaxFaults
    /\ productLock \in {c \in Callers : at[c] \in {"publish", "save", "commit"}} \cup {None}
    /\ fileLock \in [Files ->
          {c \in Callers : at[c] \in {"remaining", "unpublish", "commit"}} \cup {None}]

(* "A row that claims a deliverable whose bytes are already gone" never    *)
(* exists (service.go:270-277, 291-295), through failures, a second PUT,   *)
(* sweeps and deletions in any order.  And no call that has returned holds *)
(* a lock.                                                                 *)
RowsHaveObjects ==
    /\ CatalogTypeOK
    /\ \A f \in Confirmed : objects[f] # None

(* Requests that count before any of them inserts pass the limit together, *)
(* but by no more than one file each (service.go:207-219).                 *)
CapIsNearlyKept ==
    Cardinality(Pending \cup Confirmed) + Cardinality({c \in Callers : at[c] = "insert"})
        <= MaxFiles + Cardinality(Callers) - 1

(* What FindDeliverables answers the buyer of an order.                    *)
Deliverables(o) == IF orders[o] = "entitled" THEN Confirmed ELSE {}

(* "A file behind a live entitlement cannot be deleted" (service.go:282):  *)
(* every file that was there when an order was granted, and that nobody    *)
(* had gone too far in deleting by then, can be downloaded for ever.       *)
BoughtFilesStay ==
    \A o \in Orders : kept[o] \subseteq Deliverables(o)

(* "A published product with no deliverable is a page that takes money and *)
(* hands over nothing" (service.go:144-146).  Only three overlaps can make *)
(* one: two deletions, a deletion with an update, a sweep with a confirm.  *)
PublishedIsDeliverable == raced \/ status # "published" \/ Confirmed # {}

(* An accepted file keeps its checksum (file_repository.go:104-107), and   *)
(* one that was deleted does not come back.                                *)
AcceptedIsFinal ==
    [][\A f \in Files :
          /\ rows[f].state = "confirmed" =>
                rows'[f].state \in {"confirmed", "deleted"} /\ rows'[f].checksum = rows[f].checksum
          /\ rows[f].state = "deleted" => rows'[f] = rows[f]]_catalogVars

-----------------------------------------------------------------------------
(* A caller that goes on from an earlier statement acts on what that one   *)
(* has seen: it names a file that exists, whose row it has locked or that  *)
(* is gone for good, and whose object nobody drops before the row is gone. *)
CallerInv(c) ==
    /\ at[c] \in ConfirmSteps \cup DeleteSteps \cup {"object"} =>
          target[c] \in Files /\ rows[target[c]].state # "unused"
    /\ at[c] = "accept" =>
          seen[c] # None /\ (target[c] \in Pending => objects[target[c]] # None)
    /\ at[c] \in {"publish", "save"} => wish[c] \in Statuses
    /\ at[c] \in {"remaining", "unpublish", "commit"} =>
          fileLock[target[c]] = c \/ rows[target[c]].state = "deleted"
    /\ at[c] = "object" => rows[target[c]].state = "deleted"
    /\ productLock = c /\ at[c] = "commit" => wish[c] = "withdrawn"
    /\ \A f \in doomed[c] :
          /\ at[c] \in {"reap", "objects"} /\ rows[f].state # "unused"
          /\ at[c] = "objects" => rows[f].state = "deleted"
    /\ \A f \in Files : fileLock[f] = c => target[c] = f

FilesInv ==
    /\ CatalogTypeOK
    /\ \A c \in Callers : CallerInv(c)
    /\ \A f \in Confirmed : objects[f] # None

(* Nobody is on the way to delete a file that was sold.                    *)
SoldInv ==
    \A o \in Orders : \A f \in kept[o] :
        orders[o] = "entitled" /\ f \in Confirmed /\ ~Lost(f)

(* While no two calls have overlapped that should not, whoever is about to *)
(* publish, or to delete without withdrawing the product, leaves a file.   *)
CalmInv == ~raced =>
    /\ \A c, d \in Callers :
          at[c] \in DeleteSteps /\ at[d] \in DeleteSteps \cup EditSteps => c = d
    /\ \A c \in Callers : at[c] = "reap" =>
          /\ doomed[c] \cap Confirmed = {}
          /\ \A d \in Callers : at[d] \notin ConfirmSteps
    /\ status = "published" => Confirmed # {}
    /\ \A c \in Callers :
          /\ at[c] = "save" /\ wish[c] = "published" => Confirmed # {}
          /\ at[c] = "commit" =>
                productLock = c \/ status # "published" \/ Confirmed \ {target[c]} # {}

(* What each statement of products.Service and of the sweep may take for   *)
(* granted from the ones before it (service.go:130-340, cleanup.go).       *)
CatalogInv == FilesInv /\ SoldInv /\ CalmInv /\ CapIsNearlyKept
=============================================================================
