------------------------------- MODULE Links --------------------------------
(***************************************************************************)
(* One creator's page as its owner edits it (profiles): the profile, its   *)
(* links and their order.                                                  *)
(*                                                                         *)
(* AddLink and Reorder run in a transaction that holds the row of the      *)
(* profile (SELECT ... FOR UPDATE); UpdateLink and DeleteLink are single   *)
(* statements that do not ask for it.  Positions are unique by a deferred  *)
(* constraint, so they are compared at COMMIT only.  Each action is one    *)
(* statement at READ COMMITTED.                                            *)
(***************************************************************************)
EXTENDS Naturals, FiniteSets, FiniteSetsExt, Sequences

CONSTANTS
    Callers,         \* goroutines of any replica
    Links,           \* the ids that links can be given
    MaxLinks,        \* maxLinks
    None

VARIABLES
    profile,         \* "absent", or profiles.is_published
    links,           \* the committed row of each id
    profileLock,     \* who holds the row of the profile
    writes,          \* positions written by a transaction that is open
    asked,           \* the order a Reorder asks for; <<>> for an AddLink
    at,              \* what each caller does next
    clash            \* the constraint has refused a COMMIT

linksVars == <<profile, links, profileLock, writes, asked, at, clash>>

(* is_active is "shown"; the title and the URL change as it does.          *)
LinkRow == [state : {"unused", "shown", "hidden", "deleted"}, position : Nat]

(* A Reorder without ids, or with one of them twice, is refused outright.  *)
Orders == {s \in UNION {[1..n -> Links] : n \in 1..Cardinality(Links)} :
              \A i, j \in DOMAIN s : s[i] = s[j] => i = j}

InTx == {"count", "insert", "reorder", "commit"}
NoWrites == [l \in {} |-> 0]

ASSUME LinksAssumption ==
    /\ None \notin Callers
    /\ IsFiniteSet(Links)
    /\ MaxLinks \in Nat

LinksInit ==
    /\ profile = "absent"
    /\ links = [l \in Links |-> [state |-> "unused", position |-> 0]]
    /\ profileLock = None
    /\ writes = [c \in Callers |-> NoWrites]
    /\ asked = [c \in Callers |-> <<>>]
    /\ at = [c \in Callers |-> "idle"]
    /\ clash = FALSE

PresentIn(rows) == {l \in Links : rows[l].state \in {"shown", "hidden"}}
Present == PresentIn(links)
Named(order) == {order[i] : i \in DOMAIN order}

(* A client has its ids from this page; any other one is like a deleted.   *)
Known(order) == \A l \in Named(order) : links[l].state # "unused"

(* The rows a transaction has written are locked until it ends.            *)
Locked(l) == \E c \in Callers : l \in DOMAIN writes[c]

Goto(c, step) == at' = [at EXCEPT ![c] = step]

(* COMMIT or ROLLBACK, then the step that follows.                         *)
EndTx(c, step) ==
    /\ profileLock' = IF profileLock = c THEN None ELSE profileLock
    /\ writes' = [writes EXCEPT ![c] = NoWrites]
    /\ asked' = [asked EXCEPT ![c] = <<>>]
    /\ Goto(c, step)

-----------------------------------------------------------------------------
(* CreateProfile: one INSERT, and UNIQUE (user_id) refuses the second.     *)
CreateProfile ==
    /\ profile = "absent"
    /\ profile' = "hidden"
    /\ UNCHANGED <<links, profileLock, writes, asked, at, clash>>

(* UpdateProfile: one UPDATE, which waits for the row.                     *)
UpdateProfile(c, p) ==
    /\ at[c] = "idle"
    /\ profile # "absent" /\ profileLock = None
    /\ profile' = p
    /\ Goto(c, "invalidate")
    /\ UNCHANGED <<links, profileLock, writes, asked, clash>>

(* Mutant: AddLink and Reorder do not lock.                                *)
FindProfile(c, order) ==
    /\ at[c] = "idle"
    /\ profile # "absent"
    /\ asked' = [asked EXCEPT ![c] = order]
    /\ Goto(c, "count")
    /\ UNCHANGED <<profile, links, profileLock, writes, clash>>

(* AddLink and Reorder: BEGIN and LockProfile.                             *)
LockProfile(c, order) ==
    /\ at[c] = "idle"
    /\ profile # "absent" /\ profileLock = None
    /\ profileLock' = c
    /\ asked' = [asked EXCEPT ![c] = order]
    /\ Goto(c, "count")
    /\ UNCHANGED <<profile, links, writes, clash>>

(* Mutant: the limit is passed by one.                                     *)
CountLinksOneMore(c) ==
    /\ at[c] = "count"
    /\ \/ /\ asked[c] = <<>> /\ Cardinality(Present) <= MaxLinks
          /\ Goto(c, "insert") /\ UNCHANGED <<profileLock, writes, asked>>
       \/ /\ asked[c] # <<>> /\ Cardinality(Present) = Len(asked[c])
          /\ Goto(c, "reorder") /\ UNCHANGED <<profileLock, writes, asked>>
       \/ /\ Cardinality(Present) # Len(asked[c])
          /\ EndTx(c, "idle")
    /\ UNCHANGED <<profile, links, clash>>

(* CountLinks: ErrTooManyLinks or ErrOrderIncomplete rolls back.           *)
CountLinks(c) ==
    LET count == Cardinality(Present)
        fits == IF asked[c] = <<>> THEN count < MaxLinks ELSE count = Len(asked[c])
    IN  /\ at[c] = "count"
        /\ \/ /\ fits
              /\ Goto(c, IF asked[c] = <<>> THEN "insert" ELSE "reorder")
              /\ UNCHANGED <<profileLock, writes, asked>>
           \/ /\ ~fits
              /\ EndTx(c, "idle")
        /\ UNCHANGED <<profile, links, clash>>

(* CreateLink: MAX(position) + 1 as this statement sees the table.         *)
CreateLink(c) ==
    LET after == IF Present = {} THEN 0
                 ELSE Max({links[l].position : l \in Present}) + 1
    IN  /\ at[c] = "insert"
        /\ \E l \in Links :
              /\ links[l].state = "unused" /\ ~Locked(l)
              /\ writes' = [writes EXCEPT ![c] = [m \in {l} |-> after]]
        /\ Goto(c, "commit")
        /\ UNCHANGED <<profile, links, profileLock, asked, clash>>

(* Mutant: the row count of the UPDATE is not looked at.                   *)
ReorderSome(c) ==
    LET found == Present \cap Named(asked[c])
    IN  /\ at[c] = "reorder"
        /\ writes' = [writes EXCEPT ![c] =
                         [l \in found |-> (CHOOSE i \in DOMAIN asked[c] : asked[c][i] = l) - 1]]
        /\ Goto(c, "commit")
        /\ UNCHANGED <<asked, profileLock, profile, links, clash>>

(* ReorderLinks: an id that is not on the page rolls it all back.          *)
ReorderLinks(c) ==
    LET found == Present \cap Named(asked[c])
    IN  /\ at[c] = "reorder"
        /\ \/ /\ found = Named(asked[c])
              /\ writes' = [writes EXCEPT ![c] =
                     [l \in found |-> (CHOOSE i \in DOMAIN asked[c] : asked[c][i] = l) - 1]]
              /\ Goto(c, "commit")
              /\ UNCHANGED <<asked, profileLock>>
           \/ /\ found # Named(asked[c])
              /\ EndTx(c, "idle")
        /\ UNCHANGED <<profile, links, clash>>

Written(c) ==
    [l \in Links |->
        IF l \notin DOMAIN writes[c] THEN links[l]
        ELSE [state |-> IF links[l].state = "unused" THEN "shown" ELSE links[l].state,
              position |-> writes[c][l]]]

(* links_profile_position_unique, DEFERRABLE INITIALLY DEFERRED.           *)
PositionsDiffer(rows) ==
    \A l, m \in PresentIn(rows) : rows[l].position = rows[m].position => l = m

CommitLinks(c) ==
    /\ at[c] = "commit"
    /\ \/ /\ PositionsDiffer(Written(c))
          /\ links' = Written(c)
          /\ EndTx(c, "invalidate")
          /\ UNCHANGED clash
       \/ /\ ~PositionsDiffer(Written(c))
          /\ clash' = TRUE
          /\ EndTx(c, "idle")
          /\ UNCHANGED links
    /\ UNCHANGED profile

-----------------------------------------------------------------------------
(* UpdateLink, DeleteLink: the id of the profile, which never changes,     *)
(* then one statement that waits for the row of the link only.             *)
WriteLink(c, l, state) ==
    /\ at[c] = "idle"
    /\ l \in Present /\ ~Locked(l)
    /\ links' = [links EXCEPT ![l].state = state]
    /\ Goto(c, "invalidate")
    /\ UNCHANGED <<profile, profileLock, writes, asked, clash>>

UpdateLink(c, l, state) == state \in {"shown", "hidden"} /\ WriteLink(c, l, state)
DeleteLink(c, l) == WriteLink(c, l, "deleted")

(* The call has written and drops the page from the cache, if it can.      *)
Return(c) ==
    /\ at[c] = "invalidate"
    /\ Goto(c, "idle")
    /\ UNCHANGED <<profile, links, profileLock, writes, asked, clash>>

(* A statement fails, or the process dies: the transaction rolls back.     *)
FailTx(c) ==
    /\ at[c] \in InTx
    /\ EndTx(c, "idle")
    /\ UNCHANGED <<profile, links, clash>>

Edit(c) ==
    \/ \E p \in {"hidden", "shown"} : UpdateProfile(c, p)
    \/ /\ \E l \in Links : links[l].state = "unused" /\ ~Locked(l)
       /\ LockProfile(c, <<>>)
    \/ \E order \in Orders : Known(order) /\ LockProfile(c, order)
    \/ CountLinks(c) \/ CreateLink(c) \/ ReorderLinks(c) \/ CommitLinks(c)
    \/ \E l \in Links : DeleteLink(c, l) \/ \E s \in {"shown", "hidden"} : UpdateLink(c, l, s)
    \/ FailTx(c)

LinksNext ==
    \/ CreateProfile
    \/ \E c \in Callers : Edit(c) \/ Return(c)

LinksSpec == LinksInit /\ [][LinksNext]_linksVars

-----------------------------------------------------------------------------
(* Types; the lock and the writes belong to a transaction that is open,    *)
(* and only one can be.                                                    *)
LinksTypeOK ==
    /\ profile \in {"absent", "hidden", "shown"}
    /\ links \in [Links -> LinkRow]
    /\ at \in [Callers -> {"idle", "invalidate"} \cup InTx]
    /\ asked \in [Callers -> Orders \cup {<<>>}]
    /\ DOMAIN writes = Callers
    /\ \A c \in Callers :
          /\ at[c] \in InTx <=> profileLock = c
          /\ DOMAIN writes[c] # {} <=> at[c] = "commit"
          /\ DOMAIN writes[c] \subseteq Links /\ writes[c] \in [DOMAIN writes[c] -> Nat]
    /\ clash \in BOOLEAN

(* "One user turns a shared database into everyone's problem" without the  *)
(* limit (domain.go:51-53): requests that come together do not pass it,    *)
(* whatever is deleted, reordered or rolled back meanwhile.  And exactly   *)
(* the call with an open transaction has the profile locked.               *)
CapIsKept ==
    /\ LinksTypeOK
    /\ Cardinality(Present) <= MaxLinks

(* No COMMIT meets the constraint, which would answer "an opaque 500"      *)
(* (service.go:182-185): the lock alone keeps the positions apart, though  *)
(* deletions do not take it.                                               *)
CommitsNeverClash == ~clash

OrderOf(rows, l, m) == rows[l].position < rows[m].position

(* "A partially applied order is worse than none" (link_repository.go:     *)
(* 147): when a Reorder commits, the page has the links it named, all of   *)
(* them and in that order, and nothing else ever changes the order of the  *)
(* links that stay.                                                        *)
OrderIsAsked ==
    [][/\ \A c \in Callers :
             at[c] = "commit" /\ asked[c] # <<>> /\ at'[c] = "invalidate" =>
                /\ PresentIn(links') = Named(asked[c])
                /\ \A i, j \in DOMAIN asked[c] :
                      i < j => OrderOf(links', asked[c][i], asked[c][j])
       /\ (\A c \in Callers : at[c] = "commit" /\ asked[c] # <<>> => at'[c] = at[c]) =>
             \A l, m \in Present \cap PresentIn(links') :
                OrderOf(links, l, m) = OrderOf(links', l, m)]_linksVars

-----------------------------------------------------------------------------
(* A link that is added comes after all that are there, and the rows that  *)
(* a Reorder has written are all that are there: deletions take links away *)
(* before the writes lock them, and never after (link_repository.go:20-43, *)
(* 107-165).                                                               *)
CallInv(c) ==
    /\ at[c] = "insert" => asked[c] = <<>> /\ Cardinality(Present) < MaxLinks
    /\ at[c] = "reorder" => asked[c] # <<>> /\ Cardinality(Present) <= Len(asked[c])
    /\ at[c] = "commit" /\ asked[c] = <<>> =>
          /\ Cardinality(Present) < MaxLinks
          /\ \E l \in Links :
                /\ links[l].state = "unused" /\ DOMAIN writes[c] = {l}
                /\ \A m \in Present : links[m].position < writes[c][l]
    /\ at[c] = "commit" /\ asked[c] # <<>> =>
          /\ Present = Named(asked[c]) /\ DOMAIN writes[c] = Named(asked[c])
          /\ \A i \in DOMAIN asked[c] : writes[c][asked[c][i]] = i - 1

(* The positions of a page differ and its limit holds, because of what a   *)
(* holder of the profile lock may still rely on when it commits, although  *)
(* deletions and updates pass the lock by.                                 *)
LinksInv ==
    /\ CapIsKept /\ CommitsNeverClash
    /\ PositionsDiffer(links)
    /\ \A c \in Callers : CallInv(c)
=============================================================================
