---------------------------- MODULE CatalogProofs ---------------------------
(***************************************************************************)
(* Theorems about a product and its files, for any number of callers,      *)
(* files, orders and failures.                                             *)
(***************************************************************************)
EXTENDS Catalog, FiniteSetTheorems, TLAPS

-----------------------------------------------------------------------------
(* The rows, their objects and what each caller knows.                     *)

LEMMA FilesStart == CatalogInit => FilesInv
<1> SUFFICES ASSUME CatalogInit PROVE FilesInv
    OBVIOUS
<1>1. CatalogTypeOK
    <2>1. raced \in BOOLEAN /\ productLock = None /\ status \in Statuses
        BY DEF CatalogInit, Statuses
    <2>2. rows \in [Files -> FileRow] /\ at \in [Callers -> Steps] /\ faults \in 0..MaxFaults
        BY CatalogAssumption DEF CatalogInit, FileRow, Steps
    <2> QED BY <2>1, <2>2 DEF CatalogInit, CatalogTypeOK
<1>2. \A c \in Callers : CallerInv(c)
    BY CatalogAssumption
       DEF CatalogInit, CallerInv, ConfirmSteps, DeleteSteps
<1> QED BY <1>1, <1>2 DEF FilesInv, CatalogInit, Confirmed

(* What a step of one caller leaves alone of every other.                  *)
Others(c) ==
    \A d \in Callers \ {c} :
        /\ at'[d] = at[d] /\ target'[d] = target[d] /\ wish'[d] = wish[d]
        /\ seen'[d] = seen[d] /\ doomed'[d] = doomed[d]
        /\ productLock' = d <=> productLock = d
        /\ \A f \in Files : fileLock'[f] = d <=> fileLock[f] = d

(* Rows only move on, and only a row that is gone loses its object.        *)
RowsAdvance ==
    \A f \in Files :
        /\ rows[f].state # "unused" => rows'[f].state # "unused"
        /\ rows[f].state = "deleted" => rows'[f].state = "deleted"
        /\ f \in Pending' => f \in Pending \/ rows[f].state = "unused"
        /\ objects[f] # None => objects'[f] # None \/ rows[f].state = "deleted"

LEMMA FilesMove ==
    ASSUME FilesInv, NEW c \in Callers \cup {None}, Others(c), RowsAdvance,
           CatalogTypeOK', c \in Callers => CallerInv(c)',
           \A f \in Confirmed' : objects'[f] # None
    PROVE  FilesInv'
<1>1. ASSUME NEW d \in Callers, d # c PROVE CallerInv(d)'
    <2>1. CatalogTypeOK /\ CallerInv(d)
        BY DEF FilesInv
    <2>2. /\ at'[d] = at[d] /\ target'[d] = target[d] /\ wish'[d] = wish[d]
          /\ seen'[d] = seen[d] /\ doomed'[d] = doomed[d]
          /\ productLock' = d <=> productLock = d
          /\ \A f \in Files : fileLock'[f] = d <=> fileLock[f] = d
        BY <1>1 DEF Others
    <2>3. at[d] = "accept" => (target[d] \in Pending' => objects'[target[d]] # None)
        BY <2>1, <2>2 DEF RowsAdvance, CallerInv, ConfirmSteps, Pending, Overdue
    <2>4. at[d] = "accept" => seen[d] # None
        BY <2>1 DEF CallerInv
    <2>5. doomed[d] \subseteq Files
        BY <2>1 DEF CatalogTypeOK
    <2>6. /\ at[d] \in ConfirmSteps \cup DeleteSteps \cup {"object"} =>
               target[d] \in Files /\ rows'[target[d]].state # "unused"
          /\ at[d] \in {"remaining", "unpublish", "commit"} =>
               fileLock'[target[d]] = d \/ rows'[target[d]].state = "deleted"
          /\ at[d] = "object" => rows'[target[d]].state = "deleted"
        BY <2>1, <2>2 DEF RowsAdvance, CallerInv, DeleteSteps
    <2>7. \A f \in doomed[d] :
              /\ at[d] \in {"reap", "objects"} /\ rows'[f].state # "unused"
              /\ at[d] = "objects" => rows'[f].state = "deleted"
        BY <2>1, <2>5 DEF RowsAdvance, CallerInv
    <2> QED BY <2>1, <2>2, <2>3, <2>4, <2>6, <2>7 DEF CallerInv
<1> QED BY <1>1 DEF FilesInv

LEMMA BeginKeepsFiles ==
    ASSUME FilesInv, NEW c \in Callers,
           \/ \E s \in Statuses \cup {None} : BeginUpdate(c, s)
           \/ RequestUpload(c) \/ SelectAbandoned(c)
           \/ \E f \in Files : BeginConfirm(c, f) \/ BeginDelete(c, f)
    PROVE  FilesInv' /\ Others(c)
<1>1. PICK step, f, s, clashes : Begin(c, step, f, s, clashes) /\ UNCHANGED urls
    BY DEF BeginUpdate, RequestUpload, SelectAbandoned, BeginConfirm, BeginDelete
<1>2. CatalogTypeOK /\ CallerInv(c) /\ at[c] = "idle"
    BY <1>1 DEF FilesInv, Begin
<1>3. /\ UNCHANGED <<seen, rows, status, objects, urls, orders, productLock, fileLock, kept,
                     faults>>
      /\ \A d \in Callers \ {c} : /\ at'[d] = at[d] /\ target'[d] = target[d]
                                 /\ wish'[d] = wish[d] /\ doomed'[d] = doomed[d]
    BY <1>1, <1>2 DEF Begin, locks, CatalogTypeOK, BeginUpdate, RequestUpload,
       SelectAbandoned, BeginConfirm, BeginDelete
<1>4. Others(c) /\ RowsAdvance
    BY <1>3 DEF Others, RowsAdvance, Pending, Overdue
<1>5. /\ at' \in [Callers -> Steps] /\ target' \in [Callers -> Files \cup {None}]
      /\ wish' \in [Callers -> Statuses \cup {None}] /\ doomed' \in [Callers -> SUBSET Files]
      /\ at'[c] \in {"update", "insert", "reap", "stat", "check"}
      /\ at'[c] \in {"stat", "check"} => target'[c] \in Pending \cup Confirmed
      /\ IF at'[c] = "reap" THEN doomed'[c] = Overdue ELSE doomed'[c] = doomed[c]
    BY <1>2 DEF Begin, CatalogTypeOK, BeginUpdate, RequestUpload, Steps, EditSteps, ConfirmSteps,
       DeleteSteps, SelectAbandoned, BeginConfirm, BeginDelete, Pending, Confirmed, Overdue
<1>6. CatalogTypeOK'
    <2>1. raced' \in BOOLEAN
        BY <1>1 DEF Begin
    <2> QED BY <1>2, <1>3, <1>5, <2>1 DEF CatalogTypeOK
<1>7. CallerInv(c)'
    BY <1>2, <1>3, <1>5, CatalogAssumption
       DEF CatalogTypeOK, CallerInv, Pending, Confirmed, Overdue, ConfirmSteps, DeleteSteps
<1>8. \A f2 \in Confirmed' : objects'[f2] # None
    BY <1>3 DEF FilesInv, Confirmed
<1> QED BY <1>4, <1>6, <1>7, <1>8, FilesMove

LEMMA UpdateKeepsFiles ==
    ASSUME FilesInv, NEW c \in Callers,
           UpdateProduct(c) \/ CheckDeliverable(c) \/ CommitUpdate(c)
    PROVE  FilesInv' /\ Others(c)
<1>1. CatalogTypeOK /\ CallerInv(c) /\ at[c] \in EditSteps
    BY DEF FilesInv, UpdateProduct, CheckDeliverable, CommitUpdate, EditSteps
<1>2. /\ UNCHANGED <<rows, objects, urls, orders, kept, raced, faults>>
      /\ \A d \in Callers \ {c} :
            /\ at'[d] = at[d] /\ target'[d] = target[d] /\ wish'[d] = wish[d]
            /\ seen'[d] = seen[d] /\ doomed'[d] = doomed[d]
    BY <1>1 DEF UpdateProduct, CheckDeliverable, CommitUpdate, Goto, End, CatalogTypeOK
<1>3. /\ fileLock' = fileLock
      /\ \/ productLock = None /\ productLock' = c
         \/ productLock' = productLock
         \/ productLock' = IF productLock = c THEN None ELSE productLock
    <2>1. \A f \in Files : fileLock[f] # c
        BY <1>1, CatalogAssumption DEF CatalogTypeOK, EditSteps
    <2>2. fileLock = [f \in Files |-> IF fileLock[f] = c THEN None ELSE fileLock[f]]
        BY <1>1, <2>1 DEF CatalogTypeOK
    <2> QED BY <2>2 DEF UpdateProduct, CheckDeliverable, CommitUpdate, Release, locks
<1>4. Others(c) /\ RowsAdvance
    BY <1>2, <1>3, CatalogAssumption DEF Others, RowsAdvance, Pending, Overdue
<1>5. /\ at' \in [Callers -> Steps] /\ target' \in [Callers -> Files \cup {None}]
      /\ wish' \in [Callers -> Statuses \cup {None}] /\ seen' \in [Callers -> Contents \cup {None}]
      /\ doomed' \in [Callers -> SUBSET Files] /\ status' \in Statuses
      /\ \/ at'[c] = "publish" /\ productLock' = c /\ wish'[c] \in Statuses
         \/ at'[c] = "save" /\ productLock' = productLock /\ wish'[c] = wish[c] /\ at[c] = "publish"
         \/ at'[c] = "idle" /\ productLock' = IF productLock = c THEN None ELSE productLock
      /\ doomed'[c] \subseteq doomed[c]
    BY <1>1 DEF UpdateProduct, CheckDeliverable, CommitUpdate, Goto, End, Release, CatalogTypeOK,
       CallerInv, Steps, EditSteps, Statuses, locks
<1>6. CatalogTypeOK'
    <2>1. fileLock' \in [Files ->
              {d \in Callers : at'[d] \in {"remaining", "unpublish", "commit"}} \cup {None}]
        BY <1>1, <1>2, <1>3 DEF CatalogTypeOK, EditSteps
    <2>2. productLock' \in {d \in Callers : at'[d] \in {"publish", "save", "commit"}} \cup {None}
        BY <1>1, <1>2, <1>3, <1>5, CatalogAssumption DEF CatalogTypeOK
    <2> QED BY <1>1, <1>2, <1>5, <2>1, <2>2 DEF CatalogTypeOK
<1>7. CallerInv(c)'
    BY <1>1, <1>2, <1>3, <1>5, CatalogAssumption
       DEF CatalogTypeOK, CallerInv, ConfirmSteps, DeleteSteps, EditSteps
<1>8. \A f \in Confirmed' : objects'[f] # None
    BY <1>2 DEF FilesInv, Confirmed
<1> QED BY <1>4, <1>6, <1>7, <1>8, FilesMove

(* A call that holds no lock ends, or goes on, and others keep theirs.     *)
LEMMA NoLocksHeld ==
    ASSUME CatalogTypeOK, NEW c \in Callers,
           at[c] \notin {"publish", "save", "remaining", "unpublish", "commit"}
    PROVE  productLock # c /\ \A f \in Files : fileLock[f] # c
BY CatalogAssumption DEF CatalogTypeOK

LEMMA UploadKeepsFiles ==
    ASSUME FilesInv, NEW c \in Callers, CreateFile(c) \/ StatObject(c) \/ ConfirmFile(c)
    PROVE  FilesInv' /\ Others(c)
<1>1. CatalogTypeOK /\ CallerInv(c) /\ at[c] \in {"insert", "stat", "accept"}
    BY DEF FilesInv, CreateFile, StatObject, ConfirmFile
<1>2. /\ UNCHANGED <<status, objects, orders, productLock, fileLock, kept, raced, faults>>
      /\ \A d \in Callers \ {c} :
            /\ at'[d] = at[d] /\ target'[d] = target[d] /\ wish'[d] = wish[d]
            /\ seen'[d] = seen[d] /\ doomed'[d] = doomed[d]
    BY <1>1 DEF CreateFile, StatObject, ConfirmFile, End, CatalogTypeOK, locks
<1>3. /\ rows' \in [Files -> FileRow] /\ urls' \subseteq Files
      /\ \A f \in Files :
            \/ rows'[f] = rows[f]
            \/ rows[f].state = "unused" /\ rows'[f].state = "pending"
            \/ /\ at[c] = "accept" /\ f = target[c] /\ f \in Pending
               /\ rows'[f].state = "confirmed"
    <2>1. CASE CreateFile(c)
        BY <1>1, <2>1 DEF CreateFile, CatalogTypeOK, FileRow
    <2>2. CASE ConfirmFile(c)
        BY <1>1, <2>2 DEF ConfirmFile, CatalogTypeOK, FileRow, Pending, Overdue
    <2>3. CASE StatObject(c)
        BY <1>1, <2>3 DEF StatObject, CatalogTypeOK
    <2> QED BY <2>1, <2>2, <2>3
<1>4. Others(c) /\ RowsAdvance
    <2>1. RowsAdvance
        BY <1>2, <1>3 DEF RowsAdvance, Pending, Overdue
    <2> QED BY <1>2, <2>1 DEF Others
<1>5. /\ at' \in [Callers -> Steps] /\ target' \in [Callers -> Files \cup {None}]
      /\ wish' \in [Callers -> Statuses \cup {None}] /\ seen' \in [Callers -> Contents \cup {None}]
      /\ doomed' \in [Callers -> SUBSET Files] /\ doomed'[c] \subseteq doomed[c]
      /\ \/ at'[c] = "idle"
         \/ /\ at[c] = "stat" /\ at'[c] = "accept" /\ target'[c] = target[c] /\ UNCHANGED rows
            /\ seen'[c] = objects[target[c]] /\ objects[target[c]] # None
    BY <1>1 DEF CreateFile, StatObject, ConfirmFile, End, CatalogTypeOK, CallerInv, Steps,
       ConfirmSteps
<1>6. CatalogTypeOK'
    <2>1. fileLock' \in [Files ->
              {d \in Callers : at'[d] \in {"remaining", "unpublish", "commit"}} \cup {None}]
        BY <1>1, <1>2, NoLocksHeld DEF CatalogTypeOK
    <2>2. productLock' \in {d \in Callers : at'[d] \in {"publish", "save", "commit"}} \cup {None}
        BY <1>1, <1>2, NoLocksHeld DEF CatalogTypeOK
    <2> QED BY <1>1, <1>2, <1>3, <1>5, <2>1, <2>2 DEF CatalogTypeOK
<1>7. CallerInv(c)'
    <2>1. doomed'[c] = {} /\ productLock' # c /\ \A f \in Files : fileLock'[f] # c
        BY <1>1, <1>2, <1>5, NoLocksHeld DEF CallerInv
    <2>2. CASE at'[c] = "idle"
        BY <2>1, <2>2 DEF CallerInv, ConfirmSteps, DeleteSteps
    <2>3. CASE at'[c] = "accept"
        BY <1>1, <1>2, <1>5, <2>1, <2>3 DEF CallerInv, ConfirmSteps
    <2> QED BY <1>5, <2>2, <2>3
<1>8. \A f \in Confirmed' : objects'[f] # None
    BY <1>1, <1>2, <1>3 DEF FilesInv, Confirmed, CallerInv, FileRow, CatalogTypeOK
<1> QED BY <1>4, <1>6, <1>7, <1>8, FilesMove

LEMMA DeleteKeepsFiles ==
    ASSUME FilesInv, NEW c \in Callers,
           CheckSold(c) \/ RemoveRow(c) \/ CountRemaining(c) \/ Unpublish(c)
    PROVE  FilesInv' /\ Others(c)
<1>1. CatalogTypeOK /\ CallerInv(c) /\ at[c] \in DeleteSteps \ {"commit"}
    BY DEF FilesInv, CheckSold, RemoveRow, CountRemaining, Unpublish, DeleteSteps
<1>2. /\ UNCHANGED <<status, rows, objects, urls, orders, kept, raced, faults>>
      /\ \A d \in Callers \ {c} :
            /\ at'[d] = at[d] /\ target'[d] = target[d] /\ wish'[d] = wish[d]
            /\ seen'[d] = seen[d] /\ doomed'[d] = doomed[d]
    BY <1>1 DEF CheckSold, RemoveRow, CountRemaining, Unpublish, Goto, End, CatalogTypeOK
<1>3. target[c] \in Files
    BY <1>1 DEF CallerInv
<1>4. \/ /\ at[c] = "check" /\ at'[c] \in {"idle", "remove"} /\ UNCHANGED <<fileLock, productLock>>
      \/ /\ at[c] = "remove" /\ at'[c] = "remaining" /\ UNCHANGED productLock
         /\ target'[c] = target[c] /\ fileLock[target[c]] = None
         /\ \/ fileLock' = [fileLock EXCEPT ![target[c]] = c]
            \/ fileLock' = fileLock /\ rows[target[c]].state = "deleted"
      \/ /\ at[c] \in {"remaining", "unpublish"} /\ at'[c] \in {"unpublish", "commit"}
         /\ target'[c] = target[c] /\ UNCHANGED fileLock
         /\ \/ UNCHANGED productLock
            \/ productLock = None /\ productLock' = c /\ wish'[c] = "withdrawn" /\ at'[c] = "commit"
    BY <1>1 DEF CheckSold, RemoveRow, CountRemaining, Unpublish, Goto, End, CatalogTypeOK, locks
<1>5. Others(c) /\ RowsAdvance
    <2>1. RowsAdvance
        BY <1>2 DEF RowsAdvance, Pending, Overdue
    <2>2. \A d \in Callers \ {c} : productLock' = d <=> productLock = d
        BY <1>4, CatalogAssumption
    <2>3. \A d \in Callers \ {c}, f \in Files : fileLock'[f] = d <=> fileLock[f] = d
        BY <1>1, <1>3, <1>4, CatalogAssumption DEF CatalogTypeOK
    <2> QED BY <1>2, <2>1, <2>2, <2>3 DEF Others
<1>6. /\ at' \in [Callers -> Steps] /\ target' \in [Callers -> Files \cup {None}]
      /\ wish' \in [Callers -> Statuses \cup {None}] /\ seen' \in [Callers -> Contents \cup {None}]
      /\ doomed' \in [Callers -> SUBSET Files] /\ doomed'[c] \subseteq doomed[c]
      /\ at'[c] # "idle" => target'[c] = target[c]
    BY <1>1 DEF CheckSold, RemoveRow, CountRemaining, Unpublish, Goto, End, CatalogTypeOK, Steps,
       DeleteSteps, Statuses
<1>7. CatalogTypeOK'
    <2>1. fileLock' \in [Files ->
              {d \in Callers : at'[d] \in {"remaining", "unpublish", "commit"}} \cup {None}]
        <3>1. CASE at[c] = "check"
            BY <1>1, <1>2, <1>4, <3>1, NoLocksHeld DEF CatalogTypeOK
        <3>2. CASE at[c] # "check"
            BY <1>1, <1>2, <1>3, <1>4, <3>2 DEF CatalogTypeOK, DeleteSteps
        <3> QED BY <3>1, <3>2
    <2>2. productLock # c
        BY <1>1, CatalogAssumption DEF CatalogTypeOK, DeleteSteps
    <2>3. productLock' \in {d \in Callers : at'[d] \in {"publish", "save", "commit"}} \cup {None}
        BY <1>1, <1>2, <1>4, <2>2 DEF CatalogTypeOK
    <2> QED BY <1>1, <1>2, <1>6, <2>1, <2>3 DEF CatalogTypeOK
<1>8. CallerInv(c)'
    <2>1. doomed'[c] = {} /\ (productLock' = c => wish'[c] = "withdrawn")
        BY <1>1, <1>4, <1>6, CatalogAssumption DEF CallerInv, DeleteSteps, CatalogTypeOK
    <2>2. at'[c] \in {"idle", "remove", "remaining", "unpublish", "commit"}
        BY <1>4
    <2>3. at'[c] # "idle" => target'[c] \in Files /\ rows'[target'[c]].state # "unused"
        BY <1>1, <1>2, <1>6 DEF CallerInv
    <2>4. at'[c] \in {"remaining", "unpublish", "commit"} =>
              fileLock'[target'[c]] = c \/ rows'[target'[c]].state = "deleted"
        BY <1>1, <1>2, <1>3, <1>4 DEF CallerInv, CatalogTypeOK
    <2>5. \A f \in Files : fileLock'[f] = c => target'[c] = f
        BY <1>1, <1>3, <1>4, NoLocksHeld, CatalogAssumption DEF CallerInv, CatalogTypeOK
    <2> QED BY <2>1, <2>2, <2>3, <2>4, <2>5 DEF CallerInv, ConfirmSteps, DeleteSteps
<1>9. \A f \in Confirmed' : objects'[f] # None
    BY <1>2 DEF FilesInv, Confirmed
<1> QED BY <1>5, <1>7, <1>8, <1>9, FilesMove

LEMMA CommitKeepsFiles ==
    ASSUME FilesInv, NEW c \in Callers, CommitDelete(c)
    PROVE  FilesInv' /\ Others(c)
<1>1. CatalogTypeOK /\ CallerInv(c) /\ at[c] = "commit" /\ target[c] \in Files
    BY DEF FilesInv, CommitDelete, CallerInv, DeleteSteps
<1>2. /\ UNCHANGED <<target, seen, wish, doomed, objects, urls, orders, kept, raced, faults>>
      /\ at' = [at EXCEPT ![c] = "object"]
      /\ rows' = Removed({f \in Files : fileLock[f] = c})
      /\ status' = IF productLock = c THEN wish[c] ELSE status
      /\ productLock' = IF productLock = c THEN None ELSE productLock
      /\ fileLock' = [f \in Files |-> IF fileLock[f] = c THEN None ELSE fileLock[f]]
    BY DEF CommitDelete, Goto, Release
<1>3. \A f \in Files : rows'[f] = IF fileLock[f] = c THEN [rows[f] EXCEPT !.state = "deleted"]
                                  ELSE rows[f]
    BY <1>2 DEF Removed
<1>4. rows' \in [Files -> FileRow]
    BY <1>1, <1>2 DEF Removed, CatalogTypeOK, FileRow
<1>5. \A f \in Files : /\ fileLock[f] = c => rows'[f].state = "deleted"
                       /\ fileLock[f] # c => rows'[f] = rows[f]
    BY <1>1, <1>3 DEF CatalogTypeOK, FileRow
<1>6. Others(c) /\ RowsAdvance
    <2>1. RowsAdvance
        BY <1>2, <1>5 DEF RowsAdvance, Pending, Overdue
    <2>2. \A d \in Callers \ {c}, f \in Files : fileLock'[f] = d <=> fileLock[f] = d
        BY <1>2, CatalogAssumption
    <2>3. \A d \in Callers \ {c} : productLock' = d <=> productLock = d
        BY <1>2, CatalogAssumption
    <2>4. \A d \in Callers \ {c} : at'[d] = at[d]
        BY <1>1, <1>2 DEF CatalogTypeOK
    <2> QED BY <1>2, <2>1, <2>2, <2>3, <2>4 DEF Others
<1>7. at' \in [Callers -> Steps] /\ status' \in Statuses /\ at'[c] = "object"
    BY <1>1, <1>2 DEF CatalogTypeOK, Steps, CallerInv, Statuses
<1>8. CatalogTypeOK'
    <2>1. fileLock' \in [Files ->
              {d \in Callers : at'[d] \in {"remaining", "unpublish", "commit"}} \cup {None}]
        BY <1>1, <1>2 DEF CatalogTypeOK
    <2>2. productLock' \in {d \in Callers : at'[d] \in {"publish", "save", "commit"}} \cup {None}
        BY <1>1, <1>2 DEF CatalogTypeOK
    <2> QED BY <1>1, <1>2, <1>4, <1>7, <2>1, <2>2 DEF CatalogTypeOK
<1>9. CallerInv(c)'
    <2>1. target'[c] \in Files /\ rows'[target'[c]].state = "deleted"
        BY <1>1, <1>2, <1>5 DEF CallerInv
    <2>2. doomed'[c] = {} /\ \A f \in Files : fileLock'[f] # c
        BY <1>1, <1>2, CatalogAssumption DEF CallerInv
    <2> QED BY <1>7, <2>1, <2>2 DEF CallerInv
<1>10. \A f \in Confirmed' : objects'[f] # None
    BY <1>2, <1>5 DEF FilesInv, Confirmed
<1> QED BY <1>6, <1>8, <1>9, <1>10, FilesMove

LEMMA SweepKeepsFiles ==
    ASSUME FilesInv, NEW c \in Callers,
           DeleteObject(c) \/ ReapAbandoned(c) \/ DropAbandoned(c)
    PROVE  FilesInv' /\ Others(c)
<1>1. CatalogTypeOK /\ CallerInv(c) /\ at[c] \in {"object", "reap", "objects"}
    BY DEF FilesInv, DeleteObject, ReapAbandoned, DropAbandoned
<1>2. /\ UNCHANGED <<status, urls, orders, productLock, fileLock, kept, raced>>
      /\ \A d \in Callers \ {c} :
            /\ at'[d] = at[d] /\ target'[d] = target[d] /\ wish'[d] = wish[d]
            /\ seen'[d] = seen[d] /\ doomed'[d] = doomed[d]
    BY <1>1 DEF DeleteObject, ReapAbandoned, DropAbandoned, Goto, End, CatalogTypeOK, locks
<1>3. /\ rows' \in [Files -> FileRow]
      /\ \A f \in Files :
            /\ rows'[f] = rows[f] \/ rows'[f].state = "deleted"
            /\ at[c] = "reap" /\ f \in doomed'[c] => rows'[f].state = "deleted"
      /\ at[c] # "reap" => UNCHANGED rows
    <2>1. CASE ReapAbandoned(c)
        <3>1. PICK dead : /\ dead = {f \in doomed[c] : rows[f].state # "deleted"}
                          /\ rows' = Removed(dead) /\ doomed' = [doomed EXCEPT ![c] = dead]
            BY <2>1 DEF ReapAbandoned
        <3>2. doomed'[c] = dead /\ dead \subseteq Files
            BY <1>1, <3>1 DEF CatalogTypeOK
        <3>3. rows' \in [Files -> FileRow]
            BY <1>1, <3>1 DEF Removed, CatalogTypeOK, FileRow
        <3>4. \A f \in Files : IF f \in dead THEN rows'[f].state = "deleted"
                               ELSE rows'[f] = rows[f]
            BY <1>1, <3>1 DEF Removed, CatalogTypeOK, FileRow
        <3> QED BY <2>1, <3>2, <3>3, <3>4 DEF ReapAbandoned
    <2>2. CASE DeleteObject(c) \/ DropAbandoned(c)
        BY <1>1, <2>2 DEF DeleteObject, DropAbandoned, CatalogTypeOK
    <2> QED BY <2>1, <2>2
<1>4. /\ objects' \in [Files -> Contents \cup {None}]
      /\ \A f \in Files : objects'[f] = objects[f] \/ rows[f].state = "deleted"
    BY <1>1 DEF DeleteObject, ReapAbandoned, DropAbandoned, CatalogTypeOK, CallerInv
<1>5. /\ at' \in [Callers -> Steps] /\ target' \in [Callers -> Files \cup {None}]
      /\ wish' \in [Callers -> Statuses \cup {None}] /\ seen' \in [Callers -> Contents \cup {None}]
      /\ doomed' \in [Callers -> SUBSET Files] /\ faults' \in 0..MaxFaults
      /\ doomed'[c] \subseteq doomed[c]
      /\ \/ at'[c] = "idle" /\ doomed'[c] = {}
         \/ at'[c] = "objects"
    <2>1. CASE DeleteObject(c)
        BY <1>1, <2>1 DEF DeleteObject, End, CatalogTypeOK, Steps
    <2>2. CASE ReapAbandoned(c)
        BY <1>1, <2>2 DEF ReapAbandoned, Goto, CatalogTypeOK, Steps
    <2>3. CASE DropAbandoned(c)
        BY <1>1, <2>3, CatalogAssumption DEF DropAbandoned, Goto, End, CatalogTypeOK, Steps
    <2> QED BY <2>1, <2>2, <2>3
<1>6. Others(c) /\ RowsAdvance
    <2>1. RowsAdvance
        BY <1>3, <1>4 DEF RowsAdvance, Pending, Overdue
    <2> QED BY <1>2, <2>1 DEF Others
<1>7. productLock' # c /\ \A f \in Files : fileLock'[f] # c
    BY <1>1, <1>2, NoLocksHeld
<1>8. CatalogTypeOK'
    <2>1. fileLock' \in [Files ->
              {d \in Callers : at'[d] \in {"remaining", "unpublish", "commit"}} \cup {None}]
        BY <1>1, <1>2, <1>7 DEF CatalogTypeOK
    <2>2. productLock' \in {d \in Callers : at'[d] \in {"publish", "save", "commit"}} \cup {None}
        BY <1>1, <1>2, <1>7 DEF CatalogTypeOK
    <2> QED BY <1>1, <1>2, <1>3, <1>4, <1>5, <2>1, <2>2 DEF CatalogTypeOK
<1>9. CallerInv(c)'
    <2>1. \A f \in doomed'[c] : at'[c] = "objects" /\ rows'[f].state = "deleted"
        <3> SUFFICES ASSUME NEW f \in doomed'[c]
                     PROVE  at'[c] = "objects" /\ rows'[f].state = "deleted"
            OBVIOUS
        <3>1. f \in doomed[c] /\ f \in Files /\ at'[c] = "objects"
            BY <1>1, <1>5 DEF CatalogTypeOK
        <3>2. at[c] \in {"reap", "objects"}
            BY <1>1, <3>1 DEF CallerInv
        <3> QED BY <1>1, <1>3, <3>1, <3>2 DEF CallerInv
    <2> QED BY <1>5, <1>7, <2>1 DEF CallerInv, ConfirmSteps, DeleteSteps
<1>10. \A f \in Confirmed' : objects'[f] # None
    BY <1>3, <1>4 DEF FilesInv, Confirmed
<1> QED BY <1>6, <1>8, <1>9, <1>10, FilesMove

LEMMA FailKeepsFiles ==
    ASSUME FilesInv, NEW c \in Callers, Fail(c)
    PROVE  FilesInv' /\ Others(c)
<1>1. CatalogTypeOK /\ UNCHANGED <<status, rows, objects, urls, orders, kept, raced>>
    BY DEF FilesInv, Fail
<1>2. /\ at' = [at EXCEPT ![c] = "idle"] /\ target' = [target EXCEPT ![c] = None]
      /\ wish' = [wish EXCEPT ![c] = None] /\ seen' = [seen EXCEPT ![c] = None]
      /\ doomed' = [doomed EXCEPT ![c] = {}]
      /\ productLock' = IF productLock = c THEN None ELSE productLock
      /\ fileLock' = [f \in Files |-> IF fileLock[f] = c THEN None ELSE fileLock[f]]
      /\ faults < MaxFaults /\ faults' = faults + 1
    BY DEF Fail, End, Release
<1>3. Others(c) /\ RowsAdvance
    <2>1. RowsAdvance
        BY <1>1 DEF RowsAdvance, Pending, Overdue
    <2>2. \A d \in Callers \ {c} : /\ productLock' = d <=> productLock = d
                                   /\ \A f \in Files : fileLock'[f] = d <=> fileLock[f] = d
        BY <1>2, CatalogAssumption
    <2> QED BY <1>1, <1>2, <2>1, <2>2 DEF Others, CatalogTypeOK
<1>4. CatalogTypeOK'
    <2>1. fileLock' \in [Files ->
              {d \in Callers : at'[d] \in {"remaining", "unpublish", "commit"}} \cup {None}]
        BY <1>1, <1>2 DEF CatalogTypeOK
    <2>2. productLock' \in {d \in Callers : at'[d] \in {"publish", "save", "commit"}} \cup {None}
        BY <1>1, <1>2 DEF CatalogTypeOK
    <2>3. faults' \in 0..MaxFaults /\ at' \in [Callers -> Steps]
        BY <1>1, <1>2, CatalogAssumption DEF CatalogTypeOK, Steps
    <2> QED BY <1>1, <1>2, <2>1, <2>2, <2>3 DEF CatalogTypeOK
<1>5. CallerInv(c)'
    <2>1. at'[c] = "idle" /\ doomed'[c] = {} /\ \A f \in Files : fileLock'[f] # c
        BY <1>1, <1>2, CatalogAssumption DEF CatalogTypeOK
    <2> QED BY <2>1 DEF CallerInv, ConfirmSteps, DeleteSteps
<1>6. \A f \in Confirmed' : objects'[f] # None
    BY <1>1 DEF FilesInv, Confirmed
<1> QED BY <1>3, <1>4, <1>5, <1>6, FilesMove

(* The browser, the clock, the buyers and the webhook.                     *)
WorldStep ==
    \/ \E f \in Files : ExpireUrl(f) \/ Age(f) \/ \E v \in Contents : PutObject(f, v)
    \/ \E o \in Orders : PlaceOrder(o) \/ GrantEntitlement(o)
    \/ OutOfFiles

LEMMA WorldKeepsFiles ==
    ASSUME FilesInv, WorldStep
    PROVE  FilesInv'
<1>1. CatalogTypeOK
    BY DEF FilesInv
<1>2. UNCHANGED <<status, productLock, fileLock, at, target, wish, seen, doomed, raced, faults>>
    BY DEF WorldStep, ExpireUrl, Age, PutObject, PlaceOrder, GrantEntitlement, OutOfFiles,
       catalogVars, locks, call
<1>3. /\ rows' \in [Files -> FileRow]
      /\ \A f \in Files : \/ rows'[f] = rows[f]
                          \/ f \in Pending /\ rows'[f].state = "overdue"
    BY <1>1 DEF WorldStep, ExpireUrl, Age, PutObject, PlaceOrder, GrantEntitlement, OutOfFiles,
       catalogVars, CatalogTypeOK, FileRow
<1>4. /\ objects' \in [Files -> Contents \cup {None}]
      /\ \A f \in Files : objects[f] # None => objects'[f] # None
    BY <1>1, CatalogAssumption DEF WorldStep, ExpireUrl, Age, PutObject, PlaceOrder,
       GrantEntitlement, OutOfFiles, catalogVars, CatalogTypeOK
<1>5. urls' \subseteq Files /\ orders' \in [Orders -> {"none", "placed", "entitled"}]
    BY <1>1 DEF WorldStep, ExpireUrl, Age, PutObject, PlaceOrder, GrantEntitlement, OutOfFiles,
       catalogVars, CatalogTypeOK
<1>6. kept' \in [Orders -> SUBSET Files]
    BY <1>1 DEF WorldStep, ExpireUrl, Age, PutObject, PlaceOrder, GrantEntitlement, OutOfFiles,
       catalogVars, CatalogTypeOK, Confirmed
<1>7. CatalogTypeOK'
    BY <1>1, <1>2, <1>3, <1>4, <1>5, <1>6 DEF CatalogTypeOK
<1>8. Others(None) /\ RowsAdvance
    <2>1. RowsAdvance
        BY <1>3, <1>4 DEF RowsAdvance, Pending, Overdue
    <2> QED BY <1>2, <2>1 DEF Others
<1>9. \A f \in Confirmed' : objects'[f] # None
    BY <1>3, <1>4 DEF FilesInv, Confirmed
<1> QED BY <1>7, <1>8, <1>9, CatalogAssumption, FilesMove

LEMMA CallerKeepsFiles ==
    ASSUME FilesInv, NEW c \in Callers, CallerStep(c)
    PROVE  FilesInv' /\ Others(c)
BY BeginKeepsFiles, UpdateKeepsFiles, UploadKeepsFiles, DeleteKeepsFiles, CommitKeepsFiles,
   SweepKeepsFiles, FailKeepsFiles DEF CallerStep

LEMMA CatalogCases ==
    CatalogNext <=> (\E c \in Callers : CallerStep(c)) \/ WorldStep
BY DEF CatalogNext, WorldStep

-----------------------------------------------------------------------------
(* How the row of a file changes: nothing else happens to it in any step.  *)
RowMoves(f) ==
    \/ rows'[f] = rows[f]
    \/ rows[f].state = "unused" /\ rows'[f].state = "pending"
    \/ f \in Pending /\ rows'[f].state \in {"overdue", "confirmed"}
    \/ /\ rows[f].state # "deleted"
       /\ rows'[f].state = "deleted" /\ rows'[f].checksum = rows[f].checksum

(* The caller steps that write no row.                                     *)
ReadStep(c) ==
    \/ \E s \in Statuses \cup {None} : BeginUpdate(c, s)
    \/ UpdateProduct(c) \/ CheckDeliverable(c) \/ CommitUpdate(c) \/ RequestUpload(c)
    \/ \E f \in Files : BeginConfirm(c, f) \/ BeginDelete(c, f)
    \/ StatObject(c) \/ CheckSold(c) \/ RemoveRow(c) \/ CountRemaining(c) \/ Unpublish(c)
    \/ DeleteObject(c) \/ SelectAbandoned(c) \/ DropAbandoned(c) \/ Fail(c)

LEMMA CallerCases ==
    ASSUME NEW c, CallerStep(c)
    PROVE  ReadStep(c) \/ CreateFile(c) \/ ConfirmFile(c) \/ CommitDelete(c) \/ ReapAbandoned(c)
BY DEF CallerStep, ReadStep

LEMMA ReadersWriteNoRow ==
    ASSUME NEW c \in Callers, ReadStep(c)
    PROVE  UNCHANGED rows
BY DEF ReadStep, BeginUpdate, UpdateProduct, CheckDeliverable, CommitUpdate, RequestUpload,
   BeginConfirm, BeginDelete, StatObject, CheckSold, RemoveRow, CountRemaining, Unpublish,
   DeleteObject, SelectAbandoned, DropAbandoned, Fail, Begin

(* A file that goes was locked by the deletion that commits, or found by   *)
(* the sweep that reaps.                                                   *)
LEMMA RowsLeft ==
    ASSUME CatalogTypeOK, NEW c \in Callers, CommitDelete(c) \/ ReapAbandoned(c)
    PROVE  \A f \in Files :
              \/ rows'[f] = rows[f]
              \/ /\ rows[f].state # "deleted" /\ rows'[f].state = "deleted"
                 /\ rows'[f].checksum = rows[f].checksum
                 /\ (at[c] = "commit" /\ fileLock[f] = c) \/ (at[c] = "reap" /\ f \in doomed[c])
<1> SUFFICES ASSUME NEW dead, rows' = Removed(dead),
                    \/ CommitDelete(c) /\ dead = {f \in Files : fileLock[f] = c}
                    \/ ReapAbandoned(c) /\ dead = {f \in doomed[c] : rows[f].state # "deleted"},
                    NEW f \in Files
             PROVE  \/ rows'[f] = rows[f]
                    \/ /\ rows[f].state # "deleted" /\ rows'[f].state = "deleted"
                       /\ rows'[f].checksum = rows[f].checksum
                       /\ \/ at[c] = "commit" /\ fileLock[f] = c
                          \/ at[c] = "reap" /\ f \in doomed[c]
    BY DEF CommitDelete, ReapAbandoned
<1>1. rows[f] \in FileRow
    BY DEF CatalogTypeOK
<1>2. CASE f \notin dead
    BY <1>2 DEF Removed
<1>3. CASE f \in dead
    <2>1. rows'[f] = [rows[f] EXCEPT !.state = "deleted"]
        BY <1>3 DEF Removed
    <2>2. rows'[f].state = "deleted" /\ rows'[f].checksum = rows[f].checksum
        BY <1>1, <2>1 DEF FileRow
    <2>3. rows[f].state = "deleted" => rows'[f] = rows[f]
        BY <1>1, <2>1 DEF FileRow
    <2> QED BY <1>3, <2>2, <2>3 DEF CommitDelete, ReapAbandoned
<1> QED BY <1>2, <1>3

LEMMA RowsOnlyMove ==
    ASSUME FilesInv, CatalogNext
    PROVE  \A f \in Files : RowMoves(f)
<1>1. CatalogTypeOK
    BY DEF FilesInv
<1>2. CASE WorldStep
    BY <1>1, <1>2 DEF WorldStep, ExpireUrl, Age, PutObject, PlaceOrder, GrantEntitlement,
       OutOfFiles, catalogVars, CatalogTypeOK, FileRow, RowMoves
<1>3. ASSUME NEW c \in Callers, CallerStep(c)
      PROVE  \A f \in Files : RowMoves(f)
    <2>1. CASE ReadStep(c)
        BY <2>1, ReadersWriteNoRow DEF RowMoves
    <2>2. CASE CreateFile(c)
        BY <1>1, <2>2 DEF CreateFile, CatalogTypeOK, FileRow, RowMoves
    <2>3. CASE ConfirmFile(c)
        BY <1>1, <2>3 DEF ConfirmFile, CatalogTypeOK, FileRow, RowMoves
    <2>4. CASE CommitDelete(c) \/ ReapAbandoned(c)
        BY <1>1, <2>4, RowsLeft DEF RowMoves
    <2> QED BY <1>3, <2>1, <2>2, <2>3, <2>4, CallerCases
<1> QED BY <1>2, <1>3, CatalogCases

-----------------------------------------------------------------------------
(* What was sold.                                                          *)

LEMMA SoldStays ==
    ASSUME FilesInv, FilesInv', SoldInv, NEW c \in Callers, Others(c), UNCHANGED <<orders, kept>>,
           \A f \in Confirmed : Lost(f) \/ rows'[f].state = "confirmed",
           \/ at'[c] \notin DeleteSteps \ {"check"}
           \/ at[c] \in DeleteSteps \ {"check"} /\ target'[c] = target[c]
           \/ ~Sold,
           doomed'[c] \cap Confirmed \subseteq doomed[c]
    PROVE  SoldInv'
<1> SUFFICES ASSUME NEW o \in Orders, NEW f \in kept[o]
             PROVE  f \in Confirmed' /\ ~Lost(f)' /\ orders[o] = "entitled"
    BY DEF SoldInv
<1>1. f \in Confirmed /\ ~Lost(f) /\ orders[o] = "entitled" /\ f \in Files
    BY DEF SoldInv, Confirmed
<1>2. f \in Confirmed'
    BY <1>1 DEF Confirmed
<1>3. Sold
    BY <1>1 DEF Sold
<1>4. ASSUME NEW d \in Callers
      PROVE  ~(at'[d] \in DeleteSteps \ {"check"} /\ target'[d] = f) /\ f \notin doomed'[d]
    <2>1. CASE d = c
        BY <1>1, <1>3, <2>1 DEF Lost
    <2>2. CASE d # c
        BY <1>1, <2>2 DEF Lost, Others
    <2> QED BY <2>1, <2>2
<1> QED BY <1>1, <1>2, <1>4 DEF Lost

LEMMA CallerKeepsSold ==
    ASSUME FilesInv, SoldInv, NEW c \in Callers, CallerStep(c)
    PROVE  SoldInv'
<1>1. CatalogTypeOK /\ CallerInv(c) /\ FilesInv' /\ Others(c)
    BY CallerKeepsFiles DEF FilesInv
<1>2. UNCHANGED <<orders, kept>>
    BY DEF CallerStep, BeginUpdate, UpdateProduct, CheckDeliverable, CommitUpdate, RequestUpload,
       CreateFile, BeginConfirm, BeginDelete, StatObject, ConfirmFile, CheckSold, RemoveRow,
       CountRemaining, Unpublish, CommitDelete, DeleteObject, SelectAbandoned, ReapAbandoned,
       DropAbandoned, Fail, Begin, BeginUpdate
<1>3. \A f \in Confirmed : Lost(f) \/ rows'[f].state = "confirmed"
    <2>1. CASE ReadStep(c)
        BY <2>1, ReadersWriteNoRow DEF Confirmed
    <2>2. CASE CreateFile(c) \/ ConfirmFile(c)
        BY <1>1, <2>2 DEF CreateFile, ConfirmFile, Confirmed, CatalogTypeOK, FileRow
    <2>3. CASE CommitDelete(c) \/ ReapAbandoned(c)
        BY <1>1, <2>3, RowsLeft DEF Confirmed, Lost, CallerInv, DeleteSteps
    <2> QED BY <2>1, <2>2, <2>3, CallerCases
<1>4. \/ at'[c] \notin DeleteSteps \ {"check"}
      \/ at[c] \in DeleteSteps \ {"check"} /\ target'[c] = target[c]
      \/ ~Sold
    <2>1. CASE CheckSold(c) \/ RemoveRow(c) \/ CountRemaining(c) \/ Unpublish(c)
        BY <1>1, <2>1 DEF CheckSold, RemoveRow, CountRemaining, Unpublish, Goto, End, DeleteSteps,
           CatalogTypeOK
    <2>2. CASE ~(CheckSold(c) \/ RemoveRow(c) \/ CountRemaining(c) \/ Unpublish(c))
        BY <1>1, <2>2 DEF CallerStep, BeginUpdate, UpdateProduct, CheckDeliverable, CommitUpdate,
           RequestUpload, CreateFile, BeginConfirm, BeginDelete, StatObject, ConfirmFile,
           CommitDelete, DeleteObject, SelectAbandoned, ReapAbandoned, DropAbandoned, Fail, Begin,
           End, Goto, DeleteSteps, CatalogTypeOK
    <2> QED BY <2>1, <2>2
<1>5. doomed'[c] \cap Confirmed \subseteq doomed[c]
    <2>1. CASE SelectAbandoned(c)
        BY <1>1, <2>1 DEF SelectAbandoned, CatalogTypeOK, Overdue, Confirmed
    <2>2. CASE ~SelectAbandoned(c)
        BY <1>1, <2>2 DEF CallerStep, BeginUpdate, UpdateProduct, CheckDeliverable, CommitUpdate,
           RequestUpload, CreateFile, BeginConfirm, BeginDelete, StatObject, ConfirmFile, CheckSold,
           RemoveRow, CountRemaining, Unpublish, CommitDelete, DeleteObject, ReapAbandoned,
           DropAbandoned, Fail, Begin, End, Goto, CatalogTypeOK
    <2> QED BY <2>1, <2>2
<1> QED BY <1>1, <1>2, <1>3, <1>4, <1>5, SoldStays

LEMMA WorldKeepsSold ==
    ASSUME FilesInv, SoldInv, WorldStep
    PROVE  SoldInv'
<1>1. UNCHANGED <<at, target, doomed>> /\ CatalogTypeOK
    BY DEF WorldStep, ExpireUrl, Age, PutObject, PlaceOrder, GrantEntitlement, OutOfFiles,
       catalogVars, locks, call, FilesInv
<1>2. \A f : Lost(f)' <=> Lost(f)
    BY <1>1 DEF Lost
<1>3. \A f \in Confirmed : f \in Confirmed'
    BY <1>1 DEF WorldStep, ExpireUrl, Age, PutObject, PlaceOrder, GrantEntitlement, OutOfFiles,
       catalogVars, CatalogTypeOK, Confirmed, Pending, Overdue
<1>4. ASSUME NEW o \in Orders
      PROVE  /\ orders[o] = "entitled" => orders'[o] = "entitled"
             /\ \/ kept'[o] = kept[o]
                \/ orders'[o] = "entitled" /\ kept'[o] = {f \in Confirmed : ~Lost(f)}
    BY <1>1 DEF WorldStep, ExpireUrl, Age, PutObject, PlaceOrder, GrantEntitlement, OutOfFiles,
       catalogVars, CatalogTypeOK
<1> QED BY <1>2, <1>3, <1>4 DEF SoldInv

-----------------------------------------------------------------------------
(* Calls that do not overlap.                                              *)

(* The calls that come together only by a race do not, after a step of one *)
(* caller either: it begins one of them alone, or goes on.                 *)
Apart ==
    \A c, d \in Callers :
        /\ at[c] \in DeleteSteps /\ at[d] \in DeleteSteps \cup EditSteps => c = d
        /\ at[c] = "reap" => at[d] \notin ConfirmSteps

LEMMA ApartStays ==
    ASSUME FilesInv, NEW c \in Callers, CallerStep(c), ~raced', ~raced => Apart
    PROVE  ~raced /\ Apart /\ Apart'
<1>1. CatalogTypeOK /\ Others(c)
    BY CallerKeepsFiles DEF FilesInv
<1>2. CASE \E step, f, s, clashes : Begin(c, step, f, s, clashes)
    <2>1. PICK step, clashes :
             /\ at[c] = "idle" /\ at'[c] = step /\ raced' = (raced \/ Busy(clashes))
             /\ \/ step = "update" /\ clashes = DeleteSteps
                \/ step = "insert"
                \/ step = "stat" /\ clashes = {"reap"}
                \/ step = "check" /\ clashes = DeleteSteps \cup EditSteps
                \/ step = "reap" /\ clashes = ConfirmSteps
        <3>1. at[c] = "idle"
            BY <1>2 DEF Begin
        <3> QED BY <1>1, <3>1 DEF CallerStep, BeginUpdate, UpdateProduct, CheckDeliverable,
               CommitUpdate, RequestUpload, CreateFile, BeginConfirm, BeginDelete, StatObject,
               ConfirmFile, CheckSold, RemoveRow, CountRemaining, Unpublish, CommitDelete,
               DeleteObject, SelectAbandoned, ReapAbandoned, DropAbandoned, Fail, Begin,
               CatalogTypeOK
    <2>2. ~raced /\ \A d \in Callers : at[d] \notin clashes
        BY <2>1 DEF Busy
    <2>3. \A d \in Callers \ {c} : at'[d] = at[d]
        BY <1>1 DEF Others
    <2> QED BY <2>1, <2>2, <2>3 DEF Apart, DeleteSteps, EditSteps, ConfirmSteps
<1>3. CASE ~\E step, f, s, clashes : Begin(c, step, f, s, clashes)
    <2>1. /\ UNCHANGED raced
          /\ at'[c] \in DeleteSteps => at[c] \in DeleteSteps
          /\ at'[c] \in EditSteps => at[c] \in EditSteps
          /\ at'[c] \in ConfirmSteps => at[c] \in ConfirmSteps
          /\ at'[c] # "reap"
        BY <1>1, <1>3 DEF CallerStep, BeginUpdate, UpdateProduct, CheckDeliverable,
           CommitUpdate, RequestUpload, CreateFile, BeginConfirm, BeginDelete, StatObject,
           ConfirmFile, CheckSold, RemoveRow, CountRemaining, Unpublish, CommitDelete,
           DeleteObject, SelectAbandoned, ReapAbandoned, DropAbandoned, Fail, End, Goto,
           CatalogTypeOK, DeleteSteps, EditSteps, ConfirmSteps
    <2>2. \A d \in Callers \ {c} : at'[d] = at[d]
        BY <1>1 DEF Others
    <2> QED BY <2>1, <2>2 DEF Apart
<1> QED BY <1>2, <1>3

(* The deletion that is about to commit leaves a file on sale, or the      *)
(* product withdrawn.                                                      *)
Leaves(c) == productLock = c \/ status # "published" \/ Confirmed \ {target[c]} # {}

LEMMA CalmParts ==
    CalmInv <=>
        (~raced => /\ Apart
                   /\ \A c \in Callers : /\ at[c] = "reap" => doomed[c] \cap Confirmed = {}
                                         /\ at[c] = "save" /\ wish[c] = "published" => Confirmed # {}
                                         /\ at[c] = "commit" => Leaves(c)
                   /\ status = "published" => Confirmed # {})
BY DEF CalmInv, Apart, Leaves

LEMMA CallerKeepsCalm ==
    ASSUME FilesInv, CalmInv, NEW c \in Callers, CallerStep(c)
    PROVE  CalmInv'
<1>0. ~raced' => ~raced /\ Apart /\ Apart'
    BY ApartStays, CalmParts
<1> SUFFICES ASSUME ~raced'
             PROVE  /\ \A d \in Callers :
                          /\ at'[d] = "reap" => doomed'[d] \cap Confirmed' = {}
                          /\ at'[d] = "save" /\ wish'[d] = "published" => Confirmed' # {}
                          /\ at'[d] = "commit" => Leaves(d)'
                    /\ status' = "published" => Confirmed' # {}
    BY <1>0 DEF CalmInv, Apart, Leaves
<1>1. CatalogTypeOK /\ CallerInv(c) /\ Others(c)
    BY CallerKeepsFiles DEF FilesInv
<1>2. /\ ~raced /\ Apart /\ Apart'
      /\ \A d \in Callers : /\ at[d] = "reap" => doomed[d] \cap Confirmed = {}
                            /\ at[d] = "save" /\ wish[d] = "published" => Confirmed # {}
                            /\ at[d] = "commit" => Leaves(d)
      /\ status = "published" => Confirmed # {}
    BY <1>0, CalmParts
<1>3. \A d \in Callers \ {c} : /\ at'[d] = at[d] /\ target'[d] = target[d] /\ wish'[d] = wish[d]
                               /\ doomed'[d] = doomed[d] /\ (productLock' = d <=> productLock = d)
    BY <1>1 DEF Others
<1>4. CASE CommitUpdate(c)
    <2>1. at[c] = "save" /\ status' = wish[c] /\ UNCHANGED rows /\ at'[c] = "idle"
        BY <1>1, <1>4 DEF CommitUpdate, End, CatalogTypeOK
    <2>2. UNCHANGED Confirmed
        BY <2>1 DEF Confirmed
    <2>3. \A d \in Callers : at'[d] # "commit"
        BY <1>2, <1>3, <2>1 DEF Apart, DeleteSteps, EditSteps
    <2> QED BY <1>2, <1>3, <2>1, <2>2, <2>3
<1>5. CASE CommitDelete(c)
    <2>1. /\ at[c] = "commit" /\ at'[c] = "object"
          /\ status' = IF productLock = c THEN wish[c] ELSE status
        BY <1>1, <1>5 DEF CommitDelete, Goto, CatalogTypeOK
    <2>2. Confirmed' \subseteq Confirmed /\ Confirmed \ {target[c]} \subseteq Confirmed'
        BY <1>1, <1>5, <2>1, RowsLeft DEF Confirmed, CallerInv
    <2>3. status' = "published" => Confirmed' # {}
        BY <1>1, <1>2, <2>1, <2>2 DEF CallerInv, Leaves
    <2>4. \A d \in Callers \ {c} : at[d] \notin {"save", "commit"}
        BY <1>2, <2>1 DEF Apart, DeleteSteps, EditSteps
    <2> QED BY <1>2, <1>3, <2>1, <2>2, <2>3, <2>4
<1>6. CASE ReapAbandoned(c)
    <2>1. at[c] = "reap" /\ at'[c] = "objects" /\ UNCHANGED <<status, productLock>>
        BY <1>1, <1>6 DEF ReapAbandoned, Goto, CatalogTypeOK, locks
    <2>2. Confirmed' = Confirmed
        BY <1>2, <1>6, <1>1, <2>1, RowsLeft DEF Confirmed
    <2> QED BY <1>2, <1>3, <2>1, <2>2 DEF Leaves
<1>7. CASE CreateFile(c) \/ ConfirmFile(c)
    <2>1. /\ at'[c] = "idle" /\ at[c] \in {"insert", "accept"}
          /\ UNCHANGED <<status, productLock>> /\ Confirmed \subseteq Confirmed'
          /\ at[c] = "insert" => Confirmed' = Confirmed
        <3>1. /\ at'[c] = "idle" /\ at[c] \in {"insert", "accept"}
              /\ UNCHANGED <<status, productLock>>
            BY <1>1, <1>7 DEF CreateFile, ConfirmFile, End, CatalogTypeOK, locks
        <3>2. CASE CreateFile(c)
            <4>1. \A f \in Files : \/ rows'[f] = rows[f]
                                   \/ rows[f].state = "unused" /\ rows'[f].state = "pending"
                BY <1>1, <3>2 DEF CreateFile, CatalogTypeOK, FileRow
            <4> QED BY <3>1, <4>1 DEF Confirmed
        <3>3. CASE ConfirmFile(c)
            <4>1. /\ at[c] = "accept"
                  /\ \A f \in Files : rows'[f] = rows[f] \/ rows'[f].state = "confirmed"
                BY <1>1, <3>3 DEF ConfirmFile, CatalogTypeOK, FileRow
            <4> QED BY <3>1, <4>1 DEF Confirmed
        <3> QED BY <1>7, <3>2, <3>3
    <2>2. \A d \in Callers : at'[d] = "reap" => doomed'[d] \cap Confirmed' = {}
        BY <1>2, <1>3, <2>1 DEF Apart, ConfirmSteps
    <2> QED BY <1>2, <1>3, <2>1, <2>2 DEF Leaves
<1>8. CASE ReadStep(c) /\ ~CommitUpdate(c)
    <2>1. UNCHANGED <<Confirmed, status>>
        BY <1>8, ReadersWriteNoRow DEF Confirmed, ReadStep, BeginUpdate, UpdateProduct,
           CheckDeliverable, RequestUpload, BeginConfirm, BeginDelete, StatObject, CheckSold,
           RemoveRow, CountRemaining, Unpublish, DeleteObject, SelectAbandoned, DropAbandoned,
           Fail, Begin
    <2>2. at'[c] = "reap" => doomed'[c] \cap Confirmed = {}
        BY <1>1, <1>8 DEF Confirmed, Overdue, ReadStep, BeginUpdate, UpdateProduct,
           CheckDeliverable, RequestUpload, BeginConfirm, BeginDelete, StatObject, CheckSold,
           RemoveRow, CountRemaining, Unpublish, DeleteObject, SelectAbandoned, DropAbandoned,
           Fail, Begin, End, Goto, CatalogTypeOK
    <2>3. at'[c] = "save" /\ wish'[c] = "published" => Confirmed # {}
        BY <1>1, <1>8 DEF ReadStep, BeginUpdate, UpdateProduct,
           CheckDeliverable, RequestUpload, BeginConfirm, BeginDelete, StatObject, CheckSold,
           RemoveRow, CountRemaining, Unpublish, DeleteObject, SelectAbandoned, DropAbandoned,
           Fail, Begin, End, Goto, CatalogTypeOK
    <2>4. at'[c] = "commit" => Leaves(c)'
        <3>1. CASE CountRemaining(c)
            BY <1>1, <2>1, <3>1 DEF CountRemaining, Goto, Leaves, CatalogTypeOK
        <3>2. CASE Unpublish(c)
            BY <1>1, <2>1, <3>2 DEF Unpublish, Goto, Leaves, CatalogTypeOK
        <3>3. CASE ~(CountRemaining(c) \/ Unpublish(c))
            BY <1>1, <1>8, <3>3 DEF ReadStep, BeginUpdate, UpdateProduct, CheckDeliverable,
               RequestUpload, BeginConfirm, BeginDelete, StatObject, CheckSold, RemoveRow,
               DeleteObject, SelectAbandoned, DropAbandoned, Fail, Begin, End, Goto, CatalogTypeOK
        <3> QED BY <3>1, <3>2, <3>3
    <2> QED BY <1>2, <1>3, <2>1, <2>2, <2>3, <2>4 DEF Leaves
<1> QED BY <1>4, <1>5, <1>6, <1>7, <1>8, CallerCases

LEMMA WorldKeepsCalm ==
    ASSUME FilesInv, CalmInv, WorldStep
    PROVE  CalmInv'
<1>1. /\ UNCHANGED <<at, target, wish, doomed, raced, status, productLock>> /\ CatalogTypeOK
    BY DEF WorldStep, ExpireUrl, Age, PutObject, PlaceOrder, GrantEntitlement, OutOfFiles,
       catalogVars, locks, call, FilesInv
<1>2. Confirmed' = Confirmed
    <2>1. \A f \in Files : \/ rows'[f] = rows[f]
                           \/ f \in Pending /\ rows'[f].state = "overdue"
        BY <1>1 DEF WorldStep, ExpireUrl, Age, PutObject, PlaceOrder, GrantEntitlement,
           OutOfFiles, catalogVars, CatalogTypeOK, FileRow
    <2> QED BY <2>1 DEF Confirmed, Pending, Overdue
<1> QED BY <1>1, <1>2 DEF CalmInv

-----------------------------------------------------------------------------
(* The limit on the files of a product.                                    *)

Active == Pending \cup Confirmed
Inserting == {c \in Callers : at[c] = "insert"}

LEMMA CapParts ==
    /\ CapIsNearlyKept <=>
          Cardinality(Active) + Cardinality(Inserting) <= MaxFiles + Cardinality(Callers) - 1
    /\ IsFiniteSet(Active) /\ IsFiniteSet(Inserting)
    /\ Cardinality(Active) \in Nat /\ Cardinality(Inserting) \in Nat
    /\ Cardinality(Callers) \in Nat \ {0} /\ Cardinality(Inserting) <= Cardinality(Callers)
<1>1. Active \subseteq Files /\ Inserting \subseteq Callers
    BY DEF Active, Inserting, Pending, Overdue, Confirmed
<1>2. IsFiniteSet(Active) /\ IsFiniteSet(Inserting)
    BY <1>1, FS_Subset, CatalogAssumption
<1>3. Cardinality(Inserting) <= Cardinality(Callers)
    BY <1>1, FS_Subset, CatalogAssumption
<1>4. Cardinality(Callers) # 0
    BY FS_EmptySet, CatalogAssumption
<1> QED BY <1>2, <1>3, <1>4, FS_CardinalityType, CatalogAssumption
        DEF CapIsNearlyKept, Active, Inserting

LEMMA CapStays ==
    ASSUME CapIsNearlyKept, Active' \subseteq Active, Inserting' \subseteq Inserting
    PROVE  CapIsNearlyKept'
<1>1. /\ Cardinality(Active') <= Cardinality(Active) /\ Cardinality(Active') \in Nat
      /\ Cardinality(Inserting') <= Cardinality(Inserting) /\ Cardinality(Inserting') \in Nat
    BY CapParts, FS_Subset, FS_CardinalityType
<1>2. Cardinality(Active) + Cardinality(Inserting) <= MaxFiles + Cardinality(Callers) - 1
    BY CapParts
<1>3. Cardinality(Active') + Cardinality(Inserting') <= MaxFiles + Cardinality(Callers) - 1
    BY <1>1, <1>2, CapParts, CatalogAssumption
<1> QED BY <1>3 DEF CapIsNearlyKept, Active, Inserting

LEMMA CallerKeepsCap ==
    ASSUME FilesInv, CapIsNearlyKept, NEW c \in Callers, CallerStep(c)
    PROVE  CapIsNearlyKept'
<1>1. CatalogTypeOK /\ Others(c)
    BY CallerKeepsFiles DEF FilesInv
<1>2. CASE RequestUpload(c)
    <2>1. Cardinality(Active) < MaxFiles /\ Active' = Active
        BY <1>2 DEF RequestUpload, Begin, Active, Pending, Overdue, Confirmed
    <2>2. Cardinality(Inserting') <= Cardinality(Callers) /\ Cardinality(Inserting') \in Nat
        <3>1. Inserting' \subseteq Callers
            BY DEF Inserting
        <3> QED BY <3>1, FS_Subset, FS_CardinalityType, CatalogAssumption
    <2>3. Cardinality(Active') + Cardinality(Inserting') <= MaxFiles + Cardinality(Callers) - 1
        BY <2>1, <2>2, CapParts, CatalogAssumption
    <2> QED BY <2>3 DEF CapIsNearlyKept, Active, Inserting
<1>3. CASE CreateFile(c)
    <2>1. PICK f \in Files : rows[f].state = "unused" /\ rows' = [rows EXCEPT ![f].state = "pending"]
        BY <1>3 DEF CreateFile
    <2>2. Active' = Active \cup {f} /\ f \notin Active
        BY <1>1, <2>1 DEF Active, Pending, Overdue, Confirmed, CatalogTypeOK, FileRow
    <2>3. Inserting' = Inserting \ {c} /\ c \in Inserting
        BY <1>1, <1>3 DEF Inserting, CreateFile, End, CatalogTypeOK
    <2>4. /\ Cardinality(Active') = Cardinality(Active) + 1
          /\ Cardinality(Inserting') = Cardinality(Inserting) - 1
        BY <2>2, <2>3, CapParts, FS_AddElement, FS_RemoveElement
    <2>5. Cardinality(Active') + Cardinality(Inserting') <= MaxFiles + Cardinality(Callers) - 1
        BY <2>4, CapParts, CatalogAssumption
    <2> QED BY <2>5 DEF CapIsNearlyKept, Active, Inserting
<1>4. CASE ~(RequestUpload(c) \/ CreateFile(c))
    <2>1. at'[c] # "insert"
        BY <1>1, <1>4 DEF CallerStep, BeginUpdate, UpdateProduct, CheckDeliverable, CommitUpdate,
           BeginConfirm, BeginDelete, StatObject, ConfirmFile, CheckSold, RemoveRow,
           CountRemaining, Unpublish, CommitDelete, DeleteObject, SelectAbandoned, ReapAbandoned,
           DropAbandoned, Fail, Begin, End, Goto, CatalogTypeOK
    <2>2. Inserting' \subseteq Inserting
        BY <1>1, <2>1 DEF Inserting, Others
    <2>3. \A f \in Files : rows'[f] = rows[f] \/ rows'[f].state = "deleted" \/ f \in Pending
        <3>1. CASE ReadStep(c)
            BY <3>1, ReadersWriteNoRow
        <3>2. CASE ConfirmFile(c)
            BY <1>1, <3>2 DEF ConfirmFile, CatalogTypeOK, FileRow
        <3>3. CASE CommitDelete(c) \/ ReapAbandoned(c)
            BY <1>1, <3>3, RowsLeft
        <3> QED BY <1>4, <3>1, <3>2, <3>3, CallerCases
    <2>4. Active' \subseteq Active
        BY <2>3 DEF Active, Pending, Overdue, Confirmed
    <2> QED BY <2>2, <2>4, CapStays
<1> QED BY <1>2, <1>3, <1>4

LEMMA WorldKeepsCap ==
    ASSUME FilesInv, CapIsNearlyKept, WorldStep
    PROVE  CapIsNearlyKept'
<1>1. CatalogTypeOK /\ UNCHANGED at
    BY DEF FilesInv, WorldStep, ExpireUrl, Age, PutObject, PlaceOrder, GrantEntitlement,
       OutOfFiles, catalogVars, call
<1>2. \A f \in Files : rows'[f] = rows[f] \/ f \in Pending
    BY <1>1 DEF WorldStep, ExpireUrl, Age, PutObject, PlaceOrder, GrantEntitlement, OutOfFiles,
       catalogVars, CatalogTypeOK
<1>3. Active' \subseteq Active /\ Inserting' \subseteq Inserting
    BY <1>1, <1>2 DEF Active, Inserting, Pending, Overdue, Confirmed
<1> QED BY <1>3, CapStays

-----------------------------------------------------------------------------
(* The theorems.                                                           *)

LEMMA CatalogStarts == CatalogInit => CatalogInv
<1> SUFFICES ASSUME CatalogInit PROVE CatalogInv
    OBVIOUS
<1>1. FilesInv /\ SoldInv
    BY FilesStart DEF CatalogInit, SoldInv
<1>2. CalmInv
    BY DEF CatalogInit, CalmInv, DeleteSteps
<1>3. CapIsNearlyKept
    <2>1. Active = {} /\ Inserting = {}
        BY DEF CatalogInit, Active, Inserting, Pending, Overdue, Confirmed
    <2>2. Cardinality({}) = 0
        BY FS_EmptySet
    <2> QED BY <2>1, <2>2, CapParts, CatalogAssumption
<1> QED BY <1>1, <1>2, <1>3 DEF CatalogInv

LEMMA CatalogStep ==
    ASSUME CatalogInv, [CatalogNext]_catalogVars
    PROVE  CatalogInv'
<1>1. CASE \E c \in Callers : CallerStep(c)
    BY <1>1, CallerKeepsFiles, CallerKeepsSold, CallerKeepsCalm, CallerKeepsCap DEF CatalogInv
<1>2. CASE WorldStep
    BY <1>2, WorldKeepsFiles, WorldKeepsSold, WorldKeepsCalm, WorldKeepsCap DEF CatalogInv
<1>3. CASE UNCHANGED catalogVars
    BY <1>3 DEF CatalogInv, FilesInv, SoldInv, CalmInv, CapIsNearlyKept, CatalogTypeOK, CallerInv,
       Lost, Confirmed, Pending, Overdue, catalogVars, locks, call
<1> QED BY <1>1, <1>2, <1>3, CatalogCases

(* The invariant of the catalogue, for any number of callers that upload,  *)
(* confirm, edit, delete and sweep at once, and of failures.               *)
THEOREM CatalogInvariance == CatalogSpec => []CatalogInv
BY CatalogStarts, CatalogStep, PTL DEF CatalogSpec

(* A confirmed row always has its object: whoever drops one has made sure  *)
(* that the row is gone (service.go:270-295, cleanup.go).                  *)
THEOREM ConfirmedIsStored == CatalogSpec => []RowsHaveObjects
<1>1. CatalogInv => RowsHaveObjects
    BY DEF CatalogInv, FilesInv, RowsHaveObjects
<1> QED BY <1>1, CatalogInvariance, PTL

(* What an order was granted with can be downloaded for ever: DeleteFile   *)
(* asks whether the file was sold, and the sweep takes no confirmed file   *)
(* that it did not already mean to take (service.go:282).                  *)
THEOREM SoldFilesStay == CatalogSpec => []BoughtFilesStay
<1>1. CatalogInv => BoughtFilesStay
    BY DEF CatalogInv, SoldInv, BoughtFilesStay, Deliverables
<1> QED BY <1>1, CatalogInvariance, PTL

(* A published product has a file to hand over, unless one of the three    *)
(* overlaps has happened (service.go:144-146).                             *)
THEOREM PublishedHasFiles == CatalogSpec => []PublishedIsDeliverable
<1>1. CatalogInv => PublishedIsDeliverable
    BY DEF CatalogInv, CalmInv, PublishedIsDeliverable
<1> QED BY <1>1, CatalogInvariance, PTL

(* The limit of files is passed by fewer than there are callers            *)
(* (service.go:207-219).                                                   *)
THEOREM LimitNearlyHolds == CatalogSpec => []CapIsNearlyKept
<1>1. CatalogInv => CapIsNearlyKept
    BY DEF CatalogInv
<1> QED BY <1>1, CatalogInvariance, PTL

(* No step changes the checksum of an accepted file or brings a deleted    *)
(* one back (file_repository.go:104-107).                                  *)
THEOREM AcceptanceIsFinal == CatalogSpec => AcceptedIsFinal
<1>1. ASSUME CatalogInv, CatalogNext, NEW f \in Files
      PROVE  /\ rows[f].state = "confirmed" =>
                   /\ rows'[f].state \in {"confirmed", "deleted"}
                   /\ rows'[f].checksum = rows[f].checksum
             /\ rows[f].state = "deleted" => rows'[f] = rows[f]
    BY <1>1, RowsOnlyMove DEF CatalogInv, RowMoves, Pending, Overdue
<1>2. CatalogInv /\ [CatalogNext]_catalogVars =>
         [\A f \in Files :
             /\ rows[f].state = "confirmed" =>
                   rows'[f].state \in {"confirmed", "deleted"}
                      /\ rows'[f].checksum = rows[f].checksum
             /\ rows[f].state = "deleted" => rows'[f] = rows[f]]_catalogVars
    BY <1>1
<1> QED BY <1>2, CatalogInvariance, PTL DEF CatalogSpec, AcceptedIsFinal
=============================================================================
