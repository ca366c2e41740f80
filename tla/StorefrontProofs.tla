--------------------------- MODULE StorefrontProofs -------------------------
(***************************************************************************)
(* Theorems about a creator's page: its links, for any number of calls and *)
(* of links, and the cache of what the storefront shows of it.             *)
(***************************************************************************)
EXTENDS Storefront, FiniteSetTheorems, TLAPS

-----------------------------------------------------------------------------
(* Finite sets of naturals have a greatest element.  Were there a set      *)
(* without one, the least of them would lose it by one element less.       *)
LEMMA MaxIsThere ==
    ASSUME NEW S, S \subseteq Nat, IsFiniteSet(S), S # {}
    PROVE  Max(S) \in S /\ \A x \in S : x <= Max(S)
<1> DEFINE Greatest(T) == \E x \in T : \A y \in T : x >= y
           Bad == {k \in Nat : \E T \in SUBSET S : T # {} /\ Cardinality(T) = k /\ ~Greatest(T)}
<1>1. Bad = {}
    <2> SUFFICES ASSUME Bad # {} PROVE FALSE
        OBVIOUS
    <2>1. PICK k \in Bad : \A j \in Bad : ~(<<j, k>> \in OpToRel(<, Nat))
        <3>1. Bad \subseteq Nat
            OBVIOUS
        <3> HIDE DEF Bad
        <3> QED BY <3>1, WFMin, NatLessThanWellFounded
    <2>2. \A j \in Bad : ~(j < k)
        BY <2>1 DEF OpToRel
    <2>3. PICK T \in SUBSET S : T # {} /\ Cardinality(T) = k /\ ~Greatest(T)
        OBVIOUS
    <2>4. PICK x \in T : TRUE
        BY <2>3
    <2>5. IsFiniteSet(T)
        BY FS_Subset
    <2>6. Cardinality(T \ {x}) = k - 1 /\ k \in Nat /\ k # 0
        BY <2>3, <2>4, <2>5, FS_RemoveElement, FS_EmptySet, FS_CardinalityType
    <2>7. CASE T \ {x} = {}
        BY <2>3, <2>4, <2>7
    <2>8. CASE T \ {x} # {}
        <3>1. k - 1 \notin Bad
            BY <2>2, <2>6
        <3>2. Greatest(T \ {x})
            <4>1. k - 1 \in Nat /\ T \ {x} \in SUBSET S
                BY <2>6
            <4> HIDE DEF Greatest
            <4> QED BY <2>6, <2>8, <3>1, <4>1
        <3>3. PICK m \in T \ {x} : \A y \in T \ {x} : m >= y
            BY <3>2
        <3>4. IF x >= m THEN \A y \in T : x >= y ELSE \A y \in T : m >= y
            BY <2>4, <3>3
        <3> QED BY <2>3, <2>4, <3>3, <3>4
    <2> QED BY <2>7, <2>8
<1>2. Greatest(S)
    BY <1>1, FS_CardinalityType
<1> QED BY <1>2 DEF Max

LEMMA NamesAreCounted ==
    ASSUME NEW order \in Orders
    PROVE  /\ Len(order) \in Nat \ {0} /\ DOMAIN order = 1..Len(order)
           /\ Named(order) \subseteq Links /\ order # <<>>
           /\ \A i, j \in DOMAIN order : order[i] = order[j] => i = j
           /\ IsFiniteSet(Named(order)) /\ Cardinality(Named(order)) = Len(order)
<1>1. PICK n \in 1..Cardinality(Links) : order \in [1..n -> Links]
    BY DEF Orders
<1>2. Cardinality(Links) \in Nat
    BY LinksAssumption, FS_CardinalityType
<1>3. Len(order) = n /\ n \in Nat \ {0} /\ order # <<>>
    BY <1>1, <1>2
<1>4. \A i, j \in DOMAIN order : order[i] = order[j] => i = j
    BY DEF Orders
<1>5. order \in Bijection(1..n, Named(order))
    BY <1>1, <1>4 DEF Bijection, Injection, Surjection, IsInjective, Named
<1>6. IsFiniteSet(Named(order)) /\ Cardinality(Named(order)) = n
    BY <1>3, <1>5, FS_Bijection, FS_Interval DEF ExistsBijection
<1> QED BY <1>1, <1>3, <1>4, <1>6 DEF Named

-----------------------------------------------------------------------------
(* The links of one page.                                                  *)

LEMMA PresentIsCounted ==
    ASSUME NEW rows
    PROVE  /\ PresentIn(rows) \subseteq Links /\ IsFiniteSet(PresentIn(rows))
           /\ Cardinality(PresentIn(rows)) \in Nat
BY LinksAssumption, FS_Subset, FS_CardinalityType DEF PresentIn

LEMMA LinksStart == LinksInit => LinksInv
<1> SUFFICES ASSUME LinksInit PROVE LinksInv
    OBVIOUS
<1>1. Present = {}
    BY DEF LinksInit, Present, PresentIn
<1>2. LinksTypeOK
    <2>1. ~clash /\ profile = "absent" /\ links \in [Links -> LinkRow]
        BY DEF LinksInit, LinkRow
    <2>2. \A c \in Callers : profileLock # c /\ at[c] = "idle" /\ writes[c] = NoWrites
        BY LinksAssumption DEF LinksInit
    <2>3. DOMAIN NoWrites = {} /\ NoWrites \in [{} -> Nat]
        BY DEF NoWrites
    <2> QED BY <2>1, <2>2, <2>3 DEF LinksInit, LinksTypeOK, InTx
<1>3. Cardinality(Present) = 0
    BY <1>1, FS_EmptySet
<1> QED BY <1>1, <1>2, <1>3, LinksAssumption
        DEF LinksInit, LinksInv, CapIsKept, CommitsNeverClash, PositionsDiffer, Present, CallInv

(* Transactions exclude each other: each holds the row of the profile.     *)
LEMMA OneTransaction ==
    ASSUME LinksTypeOK, NEW c \in Callers, NEW d \in Callers, at[c] \in InTx, at[d] \in InTx
    PROVE  c = d
BY DEF LinksTypeOK

(* What a step of one caller leaves alone of the others.                   *)
OtherCalls(c) ==
    \A d \in Callers \ {c} :
        at'[d] = at[d] /\ asked'[d] = asked[d] /\ writes'[d] = writes[d]

LEMMA SameLinks ==
    ASSUME LinksInv, NEW c \in Callers \cup {None}, OtherCalls(c), UNCHANGED <<links, clash>>,
           LinksTypeOK', c \in Callers => CallInv(c)'
    PROVE  LinksInv'
<1>1. Present' = Present
    BY DEF Present
<1>2. ASSUME NEW d \in Callers PROVE CallInv(d)'
    <2>1. CASE d = c
        BY <2>1
    <2>2. CASE d # c
        BY <1>1, <2>2 DEF LinksInv, CallInv, OtherCalls
    <2> QED BY <2>1, <2>2
<1> QED BY <1>1, <1>2 DEF LinksInv, CapIsKept, CommitsNeverClash, PositionsDiffer, Present

LEMMA EndTxTypes ==
    ASSUME LinksTypeOK, NEW c \in Callers, NEW step \in {"idle", "invalidate"}, EndTx(c, step),
           profile' \in {"absent", "hidden", "shown"}, links' \in [Links -> LinkRow],
           clash' \in BOOLEAN
    PROVE  LinksTypeOK' /\ OtherCalls(c) /\ at'[c] = step
<1>1. /\ profileLock' = IF profileLock = c THEN None ELSE profileLock
      /\ writes' = [writes EXCEPT ![c] = NoWrites] /\ asked' = [asked EXCEPT ![c] = <<>>]
      /\ at' = [at EXCEPT ![c] = step]
    BY DEF EndTx, Goto
<1>2. OtherCalls(c) /\ at'[c] = step
    BY <1>1 DEF LinksTypeOK, OtherCalls
<1>3. /\ DOMAIN writes' = Callers /\ writes'[c] = NoWrites
      /\ asked' \in [Callers -> Orders \cup {<<>>}]
      /\ at' \in [Callers -> {"idle", "invalidate"} \cup InTx]
    BY <1>1 DEF LinksTypeOK
<1>4. DOMAIN NoWrites = {} /\ NoWrites \in [{} -> Nat]
    BY DEF NoWrites
<1>5. step \notin InTx
    BY DEF InTx
<1>6. ASSUME NEW d \in Callers
      PROVE  /\ at'[d] \in InTx <=> profileLock' = d
             /\ DOMAIN writes'[d] # {} <=> at'[d] = "commit"
             /\ DOMAIN writes'[d] \subseteq Links
             /\ writes'[d] \in [DOMAIN writes'[d] -> Nat]
    <2>1. CASE d = c
        BY <1>1, <1>2, <1>3, <1>4, <1>5, <2>1, LinksAssumption DEF InTx
    <2>2. CASE d # c
        BY <1>1, <1>2, <2>2, LinksAssumption DEF LinksTypeOK, OtherCalls
    <2> QED BY <2>1, <2>2
<1> QED BY <1>2, <1>3, <1>6 DEF LinksTypeOK

LEMMA EndedCalls ==
    ASSUME NEW c \in Callers, at'[c] \notin InTx
    PROVE  CallInv(c)'
BY DEF CallInv, InTx

(* A step that goes on without writing.                                    *)
LEMMA StepTypes ==
    ASSUME LinksTypeOK, NEW c \in Callers, NEW step \in {"idle", "invalidate"} \cup InTx,
           Goto(c, step), step # "commit", at[c] # "commit",
           profile' \in {"absent", "hidden", "shown"}, links' \in [Links -> LinkRow],
           UNCHANGED <<writes, clash>>,
           asked' \in [Callers -> Orders \cup {<<>>}],
           \A d \in Callers \ {c} : asked'[d] = asked[d],
           \/ profileLock' = profileLock /\ (step \in InTx <=> at[c] \in InTx)
           \/ profileLock = None /\ profileLock' = c /\ step \in InTx
    PROVE  LinksTypeOK' /\ OtherCalls(c) /\ at'[c] = step
<1>1. at' \in [Callers -> {"idle", "invalidate"} \cup InTx] /\ at'[c] = step
    BY DEF Goto, LinksTypeOK
<1>2. OtherCalls(c)
    BY DEF Goto, LinksTypeOK, OtherCalls
<1>3. \A d \in Callers : (at'[d] \in InTx <=> profileLock' = d)
    BY <1>1, <1>2, LinksAssumption DEF LinksTypeOK, OtherCalls
<1>4. \A d \in Callers : (DOMAIN writes[d] # {} <=> at'[d] = "commit")
    BY <1>1, <1>2 DEF LinksTypeOK, OtherCalls
<1> QED BY <1>1, <1>2, <1>3, <1>4 DEF LinksTypeOK

LEMMA BeginStep ==
    ASSUME LinksInv, NEW c \in Callers,
           \/ \E p \in {"hidden", "shown"} : UpdateProfile(c, p)
           \/ LockProfile(c, <<>>)
           \/ \E order \in Orders : LockProfile(c, order)
    PROVE  LinksInv'
<1>1. LinksTypeOK /\ at[c] = "idle" /\ UNCHANGED <<links, writes, clash>>
    BY DEF LinksInv, CapIsKept, UpdateProfile, LockProfile
<1>2. PICK step \in {"invalidate", "count"} :
         /\ Goto(c, step) /\ profile' \in {"absent", "hidden", "shown"}
         /\ asked' \in [Callers -> Orders \cup {<<>>}]
         /\ \A d \in Callers \ {c} : asked'[d] = asked[d]
         /\ \/ profileLock' = profileLock /\ step = "invalidate"
            \/ profileLock = None /\ profileLock' = c /\ step = "count"
    BY <1>1 DEF UpdateProfile, LockProfile, LinksTypeOK
<1>3. LinksTypeOK' /\ OtherCalls(c) /\ at'[c] = step
    BY <1>1, <1>2, StepTypes DEF InTx, LinksTypeOK
<1>4. CallInv(c)'
    BY <1>2, <1>3 DEF CallInv
<1> QED BY <1>1, <1>3, <1>4, SameLinks

LEMMA CountStep ==
    ASSUME LinksInv, NEW c \in Callers, CountLinks(c)
    PROVE  LinksInv'
<1>1. LinksTypeOK /\ at[c] = "count" /\ UNCHANGED <<profile, links, clash>>
    BY DEF LinksInv, CapIsKept, CountLinks
<1>2. CASE EndTx(c, "idle")
    <2>1. LinksTypeOK' /\ OtherCalls(c) /\ at'[c] = "idle"
        BY <1>1, <1>2, EndTxTypes DEF LinksTypeOK
    <2> QED BY <1>1, <2>1, EndedCalls, SameLinks DEF InTx
<1>3. CASE /\ IF asked[c] = <<>> THEN Cardinality(Present) < MaxLinks
              ELSE Cardinality(Present) = Len(asked[c])
           /\ Goto(c, IF asked[c] = <<>> THEN "insert" ELSE "reorder")
           /\ UNCHANGED <<profileLock, writes, asked>>
    <2>1. PICK step \in {"insert", "reorder"} :
             step = IF asked[c] = <<>> THEN "insert" ELSE "reorder"
        OBVIOUS
    <2>2. LinksTypeOK' /\ OtherCalls(c) /\ at'[c] = step
        BY <1>1, <1>3, <2>1, StepTypes DEF InTx, LinksTypeOK
    <2>3. Present' = Present
        BY <1>1 DEF Present
    <2>4. CallInv(c)'
        <3>1. asked[c] # <<>> => Cardinality(Present) <= Len(asked[c])
            BY <1>1, <1>3, PresentIsCounted DEF Present
        <3> QED BY <1>3, <2>1, <2>2, <2>3, <3>1 DEF CallInv
    <2> QED BY <1>1, <2>2, <2>4, SameLinks
<1> QED BY <1>2, <1>3 DEF CountLinks

(* A statement that writes rows, which stay locked until the end.          *)
LEMMA WriteTypes ==
    ASSUME LinksTypeOK, NEW c \in Callers, at[c] \in InTx, Goto(c, "commit"),
           NEW rows, rows \in [DOMAIN rows -> Nat], DOMAIN rows \subseteq Links, DOMAIN rows # {},
           writes' = [writes EXCEPT ![c] = rows],
           UNCHANGED <<profile, links, profileLock, asked, clash>>
    PROVE  LinksTypeOK' /\ OtherCalls(c) /\ at'[c] = "commit" /\ writes'[c] = rows
<1>1. /\ at' \in [Callers -> {"idle", "invalidate"} \cup InTx] /\ at'[c] = "commit"
      /\ DOMAIN writes' = Callers /\ writes'[c] = rows
    BY DEF Goto, LinksTypeOK, InTx
<1>2. OtherCalls(c)
    BY DEF Goto, LinksTypeOK, OtherCalls
<1>3. ASSUME NEW d \in Callers
      PROVE  /\ at'[d] \in InTx <=> profileLock' = d
             /\ DOMAIN writes'[d] # {} <=> at'[d] = "commit"
             /\ DOMAIN writes'[d] \subseteq Links
             /\ writes'[d] \in [DOMAIN writes'[d] -> Nat]
    <2>1. CASE d = c
        BY <1>1, <2>1 DEF LinksTypeOK, InTx
    <2>2. CASE d # c
        BY <1>2, <2>2 DEF LinksTypeOK, OtherCalls
    <2> QED BY <2>1, <2>2
<1> QED BY <1>1, <1>2, <1>3 DEF LinksTypeOK

(* A link that is added gets a position behind all that are there.         *)
LEMMA NextPosition ==
    ASSUME LinksTypeOK, NEW after,
           after = IF Present = {} THEN 0 ELSE Max({links[m].position : m \in Present}) + 1
    PROVE  after \in Nat /\ \A m \in Present : links[m].position < after
<1>1. CASE Present = {}
    BY <1>1
<1>2. ASSUME NEW S, S = {links[m].position : m \in Present}, Present # {}
      PROVE  after \in Nat /\ \A m \in Present : links[m].position < after
    <2>1. \A m \in Present : links[m].position \in Nat
        BY DEF Present, PresentIn, LinksTypeOK, LinkRow
    <2>2. S \subseteq Nat /\ S # {}
        BY <1>2, <2>1
    <2>3. IsFiniteSet(S)
        <3>1. [m \in Present |-> links[m].position] \in Surjection(Present, S)
            BY <1>2 DEF Surjection
        <3> QED BY <3>1, PresentIsCounted, FS_Surjection DEF Present
    <2>4. PICK top \in S : top = Max(S) /\ \A x \in S : x <= top
        BY <2>2, <2>3, MaxIsThere
    <2>5. after = top + 1
        BY <1>2, <2>4
    <2> QED BY <1>2, <2>1, <2>2, <2>4, <2>5
<1> QED BY <1>1, <1>2

LEMMA CreateStep ==
    ASSUME LinksInv, NEW c \in Callers, CreateLink(c)
    PROVE  LinksInv'
<1>1. LinksTypeOK /\ CallInv(c) /\ at[c] = "insert"
    BY DEF LinksInv, CapIsKept, CreateLink
<1> DEFINE after == IF Present = {} THEN 0 ELSE Max({links[m].position : m \in Present}) + 1
<1>2. PICK l \in Links :
         /\ links[l].state = "unused"
         /\ writes' = [writes EXCEPT ![c] = [m \in {l} |-> after]]
         /\ Goto(c, "commit") /\ UNCHANGED <<profile, links, profileLock, asked, clash>>
    BY DEF CreateLink
<1>3. after \in Nat /\ \A m \in Present : links[m].position < after
    BY <1>1, NextPosition
<1> HIDE DEF after
<1>4. LinksTypeOK' /\ OtherCalls(c) /\ at'[c] = "commit" /\ writes'[c] = [m \in {l} |-> after]
    <2> DEFINE new == [m \in {l} |-> after]
    <2>1. new \in [DOMAIN new -> Nat] /\ DOMAIN new \subseteq Links /\ DOMAIN new # {}
        BY <1>3
    <2>2. at[c] \in InTx /\ writes' = [writes EXCEPT ![c] = new]
        BY <1>1, <1>2 DEF InTx
    <2> HIDE DEF new
    <2>3. LinksTypeOK' /\ OtherCalls(c) /\ at'[c] = "commit" /\ writes'[c] = new
        BY <1>1, <1>2, <2>1, <2>2, WriteTypes
    <2> QED BY <2>3 DEF new
<1>5. CallInv(c)'
    <2>1. Present' = Present /\ asked'[c] = <<>> /\ Cardinality(Present) < MaxLinks
        BY <1>1, <1>2 DEF Present, CallInv
    <2>2. links'[l].state = "unused" /\ DOMAIN writes'[c] = {l} /\ writes'[c][l] = after
        BY <1>2, <1>4
    <2> QED BY <1>2, <1>3, <1>4, <2>1, <2>2 DEF CallInv
<1> QED BY <1>2, <1>4, <1>5, SameLinks

LEMMA ReorderStep ==
    ASSUME LinksInv, NEW c \in Callers, ReorderLinks(c)
    PROVE  LinksInv'
<1>1. LinksTypeOK /\ CallInv(c) /\ at[c] = "reorder" /\ UNCHANGED <<profile, links, clash>>
    BY DEF LinksInv, CapIsKept, ReorderLinks
<1>2. CASE EndTx(c, "idle")
    <2>1. LinksTypeOK' /\ OtherCalls(c) /\ at'[c] = "idle"
        BY <1>1, <1>2, EndTxTypes DEF LinksTypeOK
    <2> QED BY <1>1, <2>1, EndedCalls, SameLinks DEF InTx
<1>3. ASSUME Present \cap Named(asked[c]) = Named(asked[c]),
             writes' = [writes EXCEPT ![c] =
                 [l \in Present \cap Named(asked[c]) |->
                     (CHOOSE i \in DOMAIN asked[c] : asked[c][i] = l) - 1]],
             Goto(c, "commit"), UNCHANGED <<asked, profileLock>>
      PROVE  LinksInv'
    <2> DEFINE order == asked[c]
               new == [l \in Named(order) |-> (CHOOSE i \in DOMAIN order : order[i] = l) - 1]
    <2>1. order \in Orders /\ Cardinality(Present) <= Len(order)
        BY <1>1 DEF CallInv, LinksTypeOK
    <2> HIDE DEF order
    <2>2. /\ Len(order) \in Nat \ {0} /\ DOMAIN order = 1..Len(order)
          /\ Named(order) \subseteq Links /\ order # <<>>
          /\ \A i, j \in DOMAIN order : order[i] = order[j] => i = j
          /\ Cardinality(Named(order)) = Len(order)
        BY <2>1, NamesAreCounted
    <2>3. Present = Named(order)
        <3>1. Named(order) \subseteq Present
            BY <1>3 DEF order
        <3>2. Cardinality(Named(order)) = Cardinality(Present)
            BY <2>1, <2>2, <3>1, PresentIsCounted, FS_Subset DEF Present
        <3> QED BY <3>1, <3>2, PresentIsCounted, FS_Subset DEF Present
    <2>4. \A i \in DOMAIN order : (CHOOSE j \in DOMAIN order : order[j] = order[i]) = i
        BY <2>2
    <2>5. \A i \in DOMAIN order : order[i] \in Named(order) /\ new[order[i]] = i - 1
        BY <2>4 DEF Named
    <2>6. \A l \in Named(order) : new[l] \in Nat
        <3> SUFFICES ASSUME NEW l \in Named(order) PROVE new[l] \in Nat
            OBVIOUS
        <3>1. PICK i \in DOMAIN order : l = order[i]
            BY DEF Named
        <3> QED BY <2>2, <2>5, <3>1
    <2>7. new \in [DOMAIN new -> Nat] /\ DOMAIN new = Named(order) /\ DOMAIN new # {}
        BY <2>2, <2>6 DEF Named
    <2>8. writes' = [writes EXCEPT ![c] = new]
        BY <1>3 DEF order
    <2> HIDE DEF new
    <2>9. at[c] \in InTx
        BY <1>1 DEF InTx
    <2>10. LinksTypeOK' /\ OtherCalls(c) /\ at'[c] = "commit" /\ writes'[c] = new
        BY <1>1, <1>3, <2>2, <2>7, <2>8, <2>9, WriteTypes
    <2>11. Present' = Present /\ asked'[c] = order
        BY <1>1, <1>3 DEF Present, order
    <2>12. CallInv(c)'
        BY <2>2, <2>3, <2>5, <2>7, <2>10, <2>11 DEF CallInv
    <2> QED BY <1>1, <2>10, <2>12, SameLinks
<1> QED BY <1>1, <1>2, <1>3 DEF ReorderLinks

LEMMA WriteLinkStep ==
    ASSUME LinksInv, NEW c \in Callers, NEW l \in Links,
           NEW state \in {"shown", "hidden", "deleted"}, WriteLink(c, l, state)
    PROVE  LinksInv'
<1>1. /\ LinksTypeOK /\ at[c] = "idle" /\ l \in Present /\ ~Locked(l)
      /\ links' = [links EXCEPT ![l].state = state] /\ Goto(c, "invalidate")
      /\ UNCHANGED <<profile, profileLock, writes, asked, clash>>
    BY DEF LinksInv, CapIsKept, WriteLink
<1>2. /\ links' \in [Links -> LinkRow]
      /\ \A m \in Links : /\ links'[m].position = links[m].position
                          /\ m # l => links'[m].state = links[m].state
      /\ links'[l].state = state
    BY <1>1 DEF LinksTypeOK, LinkRow
<1>3. LinksTypeOK' /\ OtherCalls(c) /\ at'[c] = "invalidate"
    BY <1>1, <1>2, StepTypes DEF InTx, LinksTypeOK
<1>4. Present' = IF state = "deleted" THEN Present \ {l} ELSE Present
    BY <1>1, <1>2 DEF Present, PresentIn
<1>5. Present' \subseteq Present /\ Cardinality(Present') <= Cardinality(Present)
    BY <1>4, PresentIsCounted, FS_Subset DEF Present
<1>6. ASSUME NEW d \in Callers PROVE CallInv(d)'
    <2>1. CASE d = c
        BY <1>3, <2>1 DEF CallInv
    <2>2. CASE d # c
        <3>1. CallInv(d) /\ at'[d] = at[d] /\ asked'[d] = asked[d] /\ writes'[d] = writes[d]
            BY <1>3, <2>2 DEF LinksInv, OtherCalls
        <3>2. /\ at'[d] = "insert" => asked'[d] = <<>> /\ Cardinality(Present') < MaxLinks
              /\ at'[d] = "reorder" =>
                    asked'[d] # <<>> /\ Cardinality(Present') <= Len(asked'[d])
            <4>1. asked[d] # <<>> => Len(asked[d]) \in Nat
                BY <1>1, NamesAreCounted DEF LinksTypeOK
            <4> QED BY <1>5, <3>1, <4>1, PresentIsCounted, LinksAssumption DEF CallInv, Present
        <3>3. at[d] = "commit" /\ asked[d] = <<>> =>
                 /\ Cardinality(Present') < MaxLinks
                 /\ \E m \in Links :
                       /\ links'[m].state = "unused" /\ DOMAIN writes[d] = {m}
                       /\ \A n \in Present' : links'[n].position < writes[d][m]
            <4>1. Cardinality(Present) < MaxLinks => Cardinality(Present') < MaxLinks
                BY <1>5, PresentIsCounted, LinksAssumption DEF Present
            <4>2. l \in Present => links[l].state # "unused"
                BY DEF Present, PresentIn
            <4>3. Present \subseteq Links
                BY DEF Present, PresentIn
            <4> QED BY <1>1, <1>2, <1>5, <3>1, <4>1, <4>2, <4>3 DEF CallInv
        <3>4. at[d] = "commit" /\ asked[d] # <<>> =>
                 /\ Present' = Named(asked[d]) /\ DOMAIN writes[d] = Named(asked[d])
                 /\ \A i \in DOMAIN asked[d] : writes[d][asked[d][i]] = i - 1
            BY <1>1, <3>1 DEF CallInv, Locked
        <3> QED BY <3>1, <3>2, <3>3, <3>4 DEF CallInv
    <2> QED BY <2>1, <2>2
<1>7. PositionsDiffer(links')
    BY <1>2, <1>5 DEF LinksInv, PositionsDiffer, Present, PresentIn
<1>8. Cardinality(Present') <= MaxLinks
    BY <1>5, PresentIsCounted, LinksAssumption DEF LinksInv, CapIsKept, Present
<1> QED BY <1>1, <1>3, <1>6, <1>7, <1>8 DEF LinksInv, CapIsKept, CommitsNeverClash, Present

(* What COMMIT makes of the rows: a new link behind the others, or the     *)
(* order that was asked for.                                               *)
LEMMA CommittedRows ==
    ASSUME LinksInv, NEW c \in Callers, at[c] = "commit"
    PROVE  /\ Written(c) \in [Links -> LinkRow]
           /\ PositionsDiffer(Written(c))
           /\ Cardinality(PresentIn(Written(c))) <= MaxLinks
           /\ asked[c] = <<>> => /\ Present \subseteq PresentIn(Written(c))
                                 /\ \A l \in Present : Written(c)[l].position = links[l].position
           /\ asked[c] # <<>> =>
                 /\ PresentIn(Written(c)) = Named(asked[c])
                 /\ \A i \in DOMAIN asked[c] : Written(c)[asked[c][i]].position = i - 1
<1>1. LinksTypeOK /\ CallInv(c)
    BY DEF LinksInv, CapIsKept
<1>2. \A l \in Links :
         /\ l \notin DOMAIN writes[c] => Written(c)[l] = links[l]
         /\ l \in DOMAIN writes[c] =>
               /\ Written(c)[l].position = writes[c][l]
               /\ Written(c)[l].state =
                     IF links[l].state = "unused" THEN "shown" ELSE links[l].state
    BY DEF Written
<1>3. Written(c) \in [Links -> LinkRow]
    <2> SUFFICES ASSUME NEW l \in Links
                 PROVE  (IF l \notin DOMAIN writes[c] THEN links[l]
                         ELSE [state |-> IF links[l].state = "unused" THEN "shown"
                                         ELSE links[l].state,
                               position |-> writes[c][l]]) \in LinkRow
        BY DEF Written
    <2> QED BY <1>1 DEF LinksTypeOK, LinkRow
<1>4. CASE asked[c] = <<>>
    <2>1. PICK l \in Links : /\ links[l].state = "unused" /\ DOMAIN writes[c] = {l}
                             /\ \A m \in Present : links[m].position < writes[c][l]
        BY <1>1, <1>4 DEF CallInv
    <2>2. PresentIn(Written(c)) = Present \cup {l} /\ l \notin Present
        BY <1>2, <2>1 DEF Present, PresentIn
    <2>3. Cardinality(PresentIn(Written(c))) = Cardinality(Present) + 1
        BY <2>2, PresentIsCounted, FS_AddElement DEF Present
    <2>4. Cardinality(Present) < MaxLinks
        BY <1>1, <1>4 DEF CallInv
    <2>5. Cardinality(PresentIn(Written(c))) <= MaxLinks
        BY <2>3, <2>4, PresentIsCounted, LinksAssumption DEF Present
    <2>6. /\ \A m \in Present : Written(c)[m].position = links[m].position
          /\ Written(c)[l].position = writes[c][l]
        BY <1>2, <2>1, <2>2 DEF Present, PresentIn
    <2>7. \A m \in Present : links[m].position \in Nat
        BY <1>1 DEF LinksTypeOK, LinkRow, Present, PresentIn
    <2>8. writes[c][l] \in Nat
        BY <1>1, <2>1 DEF LinksTypeOK
    <2>9. PositionsDiffer(Written(c))
        BY <2>1, <2>2, <2>6, <2>7, <2>8 DEF LinksInv, PositionsDiffer, Present
    <2> QED BY <1>3, <1>4, <2>2, <2>5, <2>6, <2>9
<1>5. CASE asked[c] # <<>>
    <2>1. /\ Present = Named(asked[c]) /\ DOMAIN writes[c] = Named(asked[c])
          /\ \A i \in DOMAIN asked[c] : writes[c][asked[c][i]] = i - 1
          /\ asked[c] \in Orders
        BY <1>1, <1>5 DEF CallInv, LinksTypeOK
    <2>2. PresentIn(Written(c)) = Present
        BY <1>2, <2>1 DEF Present, PresentIn
    <2>3. /\ Named(asked[c]) \subseteq Links /\ DOMAIN asked[c] = 1..Len(asked[c])
          /\ Len(asked[c]) \in Nat
        BY <2>1, NamesAreCounted
    <2>4. \A i \in DOMAIN asked[c] : Written(c)[asked[c][i]].position = i - 1
        BY <1>2, <2>1, <2>3 DEF Named
    <2>5. PositionsDiffer(Written(c))
        <3> SUFFICES ASSUME NEW l \in Named(asked[c]), NEW m \in Named(asked[c]),
                            Written(c)[l].position = Written(c)[m].position
                     PROVE  l = m
            BY <2>1, <2>2 DEF PositionsDiffer
        <3>1. PICK i \in DOMAIN asked[c], j \in DOMAIN asked[c] : l = asked[c][i] /\ m = asked[c][j]
            BY DEF Named
        <3>2. i \in Nat /\ j \in Nat
            BY <2>3
        <3>3. i - 1 = j - 1
            BY <2>4, <3>1
        <3> QED BY <3>1, <3>2, <3>3
    <2> QED BY <1>3, <1>5, <2>1, <2>2, <2>4, <2>5 DEF LinksInv, CapIsKept
<1> QED BY <1>4, <1>5

LEMMA CommitStep ==
    ASSUME LinksInv, NEW c \in Callers, CommitLinks(c)
    PROVE  LinksInv' /\ links' = Written(c) /\ at'[c] = "invalidate"
<1>1. LinksTypeOK /\ at[c] = "commit" /\ UNCHANGED profile
    BY DEF LinksInv, CapIsKept, CommitLinks
<1>2. links' = Written(c) /\ EndTx(c, "invalidate") /\ UNCHANGED clash
    BY <1>1, CommittedRows DEF CommitLinks
<1>3. LinksTypeOK' /\ OtherCalls(c) /\ at'[c] = "invalidate"
    <2>1. links' \in [Links -> LinkRow]
        BY <1>1, <1>2, CommittedRows
    <2> QED BY <1>1, <1>2, <2>1, EndTxTypes DEF LinksTypeOK
<1>4. ASSUME NEW d \in Callers PROVE CallInv(d)'
    <2>1. at'[d] \notin InTx
        BY <1>1, <1>3, OneTransaction DEF InTx, OtherCalls
    <2> QED BY <2>1, EndedCalls
<1>5. PositionsDiffer(links') /\ Cardinality(PresentIn(links')) <= MaxLinks
    BY <1>1, <1>2, CommittedRows
<1> QED BY <1>2, <1>3, <1>4, <1>5 DEF LinksInv, CapIsKept, CommitsNeverClash, Present

LEMMA LinksStep ==
    ASSUME LinksInv, [LinksNext]_linksVars
    PROVE  LinksInv'
<1>1. LinksTypeOK
    BY DEF LinksInv, CapIsKept
<1>2. CASE UNCHANGED linksVars
    BY <1>2 DEF linksVars, LinksInv, CapIsKept, CommitsNeverClash, LinksTypeOK, PositionsDiffer,
       CallInv, Present
<1>3. CASE CreateProfile
    <2>1. LinksTypeOK' /\ OtherCalls(None)
        BY <1>1, <1>3 DEF CreateProfile, LinksTypeOK, OtherCalls
    <2> QED BY <1>3, <2>1, SameLinks, LinksAssumption DEF CreateProfile
<1>4. ASSUME NEW c \in Callers, Return(c)
      PROVE  LinksInv'
    <2>1. LinksTypeOK' /\ OtherCalls(c) /\ at'[c] = "idle"
        BY <1>1, <1>4, StepTypes DEF Return, InTx, LinksTypeOK
    <2> QED BY <1>4, <2>1, EndedCalls, SameLinks DEF Return, InTx
<1>5. ASSUME NEW c \in Callers, FailTx(c)
      PROVE  LinksInv'
    <2>1. LinksTypeOK' /\ OtherCalls(c) /\ at'[c] = "idle"
        BY <1>1, <1>5, EndTxTypes DEF FailTx, LinksTypeOK
    <2> QED BY <1>5, <2>1, EndedCalls, SameLinks DEF FailTx, InTx
<1>6. ASSUME NEW c \in Callers, Edit(c)
      PROVE  LinksInv'
    <2>1. CASE \E l \in Links : DeleteLink(c, l) \/ \E s \in {"shown", "hidden"} : UpdateLink(c, l, s)
        BY <2>1, WriteLinkStep DEF DeleteLink, UpdateLink
    <2>2. CASE ~\E l \in Links :
                  DeleteLink(c, l) \/ \E s \in {"shown", "hidden"} : UpdateLink(c, l, s)
        BY <1>5, <1>6, <2>2, BeginStep, CountStep, CreateStep, ReorderStep, CommitStep DEF Edit
    <2> QED BY <2>1, <2>2
<1> QED BY <1>2, <1>3, <1>4, <1>6 DEF LinksNext

(* Whoever leaves COMMIT for the invalidation has committed its rows.      *)
LEMMA WhoCommits ==
    ASSUME LinksInv, LinksNext, NEW c \in Callers, at[c] = "commit"
    PROVE  at'[c] = "commit" \/ at'[c] = "idle" \/ CommitLinks(c)
<1>1. LinksTypeOK
    BY DEF LinksInv, CapIsKept
<1>2. CASE CreateProfile
    BY <1>2 DEF CreateProfile
<1>3. ASSUME NEW d \in Callers, Edit(d) \/ Return(d)
      PROVE  at'[c] = "commit" \/ at'[c] = "idle" \/ CommitLinks(c)
    <2>1. \/ \E step \in {"idle", "invalidate"} \cup InTx : Goto(d, step)
          \/ CommitLinks(d)
        <3>1. CASE CommitLinks(d) \/ Return(d) \/ FailTx(d)
            BY <3>1 DEF Return, FailTx, EndTx
        <3>2. CASE CountLinks(d) \/ CreateLink(d) \/ ReorderLinks(d)
            BY <3>2 DEF CountLinks, CreateLink, ReorderLinks, EndTx, InTx
        <3>3. CASE ~(CommitLinks(d) \/ Return(d) \/ FailTx(d)
                        \/ CountLinks(d) \/ CreateLink(d) \/ ReorderLinks(d))
            BY <1>3, <3>3 DEF Edit, UpdateProfile, LockProfile, DeleteLink, UpdateLink,
               WriteLink, InTx
        <3> QED BY <3>1, <3>2, <3>3
    <2>2. CASE d = c
        <3>1. CASE CommitLinks(c)
            BY <3>1
        <3>2. CASE ~CommitLinks(c)
            <4>1. FailTx(c)
                BY <1>3, <2>2, <3>2 DEF Edit, UpdateProfile, LockProfile, DeleteLink, UpdateLink,
                   WriteLink, CountLinks, CreateLink, ReorderLinks, Return
            <4> QED BY <1>1, <4>1, EndTxTypes DEF FailTx, EndTx, Goto, LinksTypeOK
        <3> QED BY <3>1, <3>2
    <2>3. CASE d # c
        BY <1>1, <2>1, <2>3 DEF Goto, CommitLinks, EndTx, LinksTypeOK
    <2> QED BY <2>2, <2>3
<1> QED BY <1>2, <1>3 DEF LinksNext

(* Which steps move a link: the COMMIT of a Reorder and no other.          *)
LEMMA WhoReorders ==
    ASSUME LinksInv, [LinksNext]_linksVars,
           \A c \in Callers : at[c] = "commit" /\ asked[c] # <<>> => at'[c] = at[c],
           NEW l \in Present
    PROVE  links'[l].position = links[l].position
<1>1. LinksTypeOK /\ l \in Links
    BY DEF LinksInv, CapIsKept, Present, PresentIn
<1>2. CASE UNCHANGED links
    BY <1>2
<1>3. ASSUME NEW c \in Callers, CommitLinks(c)
      PROVE  links'[l].position = links[l].position
    <2>1. at[c] = "commit" /\ links' = Written(c) /\ at'[c] = "invalidate"
        BY <1>3, CommitStep DEF CommitLinks
    <2> QED BY <2>1, CommittedRows
<1>4. ASSUME NEW c \in Callers, NEW m \in Links, NEW state, WriteLink(c, m, state)
      PROVE  links'[l].position = links[l].position
    BY <1>1, <1>4 DEF WriteLink, LinksTypeOK, LinkRow
<1>5. CASE LinksNext
    <2>1. CASE CreateProfile
        BY <1>2, <2>1 DEF CreateProfile
    <2>2. ASSUME NEW c \in Callers, Return(c) PROVE UNCHANGED links
        BY <2>2 DEF Return
    <2>3. ASSUME NEW c \in Callers, Edit(c)
          PROVE  \/ UNCHANGED links
                 \/ CommitLinks(c)
                 \/ \E m \in Links : \E state \in {"deleted", "shown", "hidden"} :
                       WriteLink(c, m, state)
        BY <2>3 DEF Edit, UpdateProfile, LockProfile, CountLinks, CreateLink, ReorderLinks, FailTx,
           DeleteLink, UpdateLink
    <2> QED BY <1>2, <1>3, <1>4, <1>5, <2>1, <2>2, <2>3 DEF LinksNext
<1> QED BY <1>2, <1>5 DEF linksVars

(* The invariant of a page: one transaction at a time has its row, the     *)
(* limit and the positions hold, and what a transaction has counted stays  *)
(* true, or becomes harmless, until it commits.                            *)
THEOREM LinksInvariance == LinksSpec => []LinksInv
<1>1. LinksInit => LinksInv
    BY LinksStart
<1>2. LinksInv /\ [LinksNext]_linksVars => LinksInv'
    BY LinksStep
<1> QED BY <1>1, <1>2, PTL DEF LinksSpec

(* However many calls add links at once, and whatever is deleted or rolled *)
(* back meanwhile, no page has more than MaxLinks.                         *)
THEOREM CapHolds == LinksSpec => []CapIsKept
<1>1. LinksInv => CapIsKept
    BY DEF LinksInv
<1> QED BY <1>1, LinksInvariance, PTL

(* The deferred constraint never refuses a COMMIT: the lock of the profile *)
(* is enough, though deletions and updates do not take it.                 *)
THEOREM NoCommitClashes == LinksSpec => []CommitsNeverClash
<1>1. LinksInv => CommitsNeverClash
    BY DEF LinksInv
<1> QED BY <1>1, LinksInvariance, PTL

(* A Reorder that commits leaves all the links it named, in the order it   *)
(* named them, and no other step changes the order of links that stay.     *)
THEOREM OrderHolds == LinksSpec => OrderIsAsked
<1> DEFINE Asked ==
        \A c \in Callers :
             at[c] = "commit" /\ asked[c] # <<>> /\ at'[c] = "invalidate" =>
                /\ PresentIn(links') = Named(asked[c])
                /\ \A i, j \in DOMAIN asked[c] :
                      i < j => OrderOf(links', asked[c][i], asked[c][j])
           Kept ==
        (\A c \in Callers : at[c] = "commit" /\ asked[c] # <<>> => at'[c] = at[c]) =>
             \A l, m \in Present \cap PresentIn(links') :
                OrderOf(links, l, m) = OrderOf(links', l, m)
<1>1. ASSUME LinksInv, LinksNext
      PROVE  Asked
    <2> SUFFICES ASSUME NEW c \in Callers, at[c] = "commit", asked[c] # <<>>,
                        at'[c] = "invalidate"
                 PROVE  /\ PresentIn(links') = Named(asked[c])
                        /\ \A i, j \in DOMAIN asked[c] :
                              i < j => OrderOf(links', asked[c][i], asked[c][j])
        OBVIOUS
    <2>1. links' = Written(c)
        BY <1>1, WhoCommits, CommitStep
    <2>2. asked[c] \in Orders
        BY <1>1 DEF LinksInv, CapIsKept, LinksTypeOK
    <2>3. DOMAIN asked[c] = 1..Len(asked[c]) /\ Len(asked[c]) \in Nat
        BY <2>2, NamesAreCounted
    <2>4. /\ PresentIn(links') = Named(asked[c])
          /\ \A i \in DOMAIN asked[c] : links'[asked[c][i]].position = i - 1
        BY <1>1, <2>1, CommittedRows
    <2> QED BY <2>3, <2>4 DEF OrderOf
<1>2. ASSUME LinksInv, [LinksNext]_linksVars
      PROVE  Kept
    BY <1>2, WhoReorders DEF OrderOf
<1>3. LinksInv /\ [LinksNext]_linksVars => [Asked /\ Kept]_linksVars
    BY <1>1, <1>2
<1> QED BY <1>3, LinksInvariance, PTL DEF LinksSpec, OrderIsAsked

-----------------------------------------------------------------------------
(* The cache of what the storefront shows of a page.                       *)

LEMMA PartsAreSomething ==
    ASSUME NEW x, NEW y, NEW z
    PROVE  /\ [links |-> x] # Nothing /\ [links |-> x, products |-> y] # Nothing
           /\ [slug |-> x] # Nothing /\ [slug |-> x, offer |-> y] # Nothing
           /\ [slug |-> x, offer |-> y, listing |-> z] # Nothing
<1>1. DOMAIN Nothing = {}
    BY DEF Nothing
<1>2. /\ "links" \in DOMAIN [links |-> x] /\ "links" \in DOMAIN [links |-> x, products |-> y]
      /\ "slug" \in DOMAIN [slug |-> x] /\ "slug" \in DOMAIN [slug |-> x, offer |-> y]
      /\ "slug" \in DOMAIN [slug |-> x, offer |-> y, listing |-> z]
    OBVIOUS
<1> QED BY <1>1, <1>2

(* Where one caller goes, the others stay.                                 *)
LEMMA Moves ==
    ASSUME StorefrontTypeOK, NEW c \in Callers, NEW step \in StorefrontSteps, Goto(c, step)
    PROVE  /\ at' \in [Callers -> StorefrontSteps] /\ at'[c] = step
           /\ \A d \in Callers \ {c} : at'[d] = at[d]
BY DEF Goto, StorefrontTypeOK

(* The page of the product is what it offers, whether or not the profile   *)
(* is shown.                                                               *)
LEMMA ProductIsFresh == PagesAreFresh => (Reached(slug) => cache[slug] = Offered(slug))
BY DEF PagesAreFresh, CurrentProduct

LEMMA FreshAgain ==
    ASSUME StorefrontTypeOK',
           Reached("page")' => cache'["page"] = CurrentPage',
           Reached(slug)' => cache'[slug'] = Offered(slug)'
    PROVE  PagesAreFresh'
BY DEF PagesAreFresh, CurrentProduct

LEMMA StorefrontStarts == StorefrontInit => StorefrontInv
<1> SUFFICES ASSUME StorefrontInit PROVE StorefrontInv
    OBVIOUS
<1>1. /\ \A c \in Callers : at[c] = "idle" /\ loaded[c] = Nothing
      /\ at \in [Callers -> {"idle"}] /\ DOMAIN loaded = Callers
      /\ DOMAIN cache = Keys /\ \A k \in Keys : cache[k] = Nothing
      /\ overlapped = {} /\ tainted = {}
      /\ slug \in Slugs /\ offer = None /\ listing \in Listings
    BY DEF StorefrontInit, LinksInit
<1>2. Present = {}
    BY DEF StorefrontInit, LinksInit, Present, PresentIn
<1>3. StorefrontTypeOK
    BY <1>1 DEF StorefrontTypeOK, StorefrontSteps, PageSteps, ProductSteps, InTx
<1>4. cache["page"] = Nothing /\ cache[slug] = Nothing
    BY <1>1 DEF Keys
<1> QED BY <1>1, <1>2, <1>3, <1>4
        DEF StorefrontInv, PagesAreFresh, ReaderInv, Reached, PageSteps, ProductSteps

(* What an edit of the page is to the readers: a step of a caller that is  *)
(* no reader, and leaves it to invalidate if it has written anything.      *)
LEMMA EditEffect ==
    ASSUME StorefrontInv, NEW c \in Callers, Edit(c)
    PROVE  /\ profile # "absent" /\ profile' # "absent"
           /\ at[c] \in {"idle"} \cup InTx
           /\ \E step \in {"idle", "invalidate"} \cup InTx :
                 /\ Goto(c, step)
                 /\ step = "invalidate" \/ UNCHANGED <<profile, links>>
<1>1. profile = "absent" => at[c] = "idle" /\ Present = {}
    BY DEF StorefrontInv, PagesAreFresh
<1>2. CASE \E p \in {"hidden", "shown"} : UpdateProfile(c, p)
    BY <1>2 DEF UpdateProfile
<1>3. CASE LockProfile(c, <<>>) \/ \E order \in Orders : LockProfile(c, order)
    BY <1>3 DEF LockProfile, InTx
<1>4. CASE CountLinks(c)
    BY <1>1, <1>4 DEF CountLinks, EndTx, InTx
<1>5. CASE CreateLink(c)
    BY <1>1, <1>5 DEF CreateLink, InTx
<1>6. CASE ReorderLinks(c)
    BY <1>1, <1>6 DEF ReorderLinks, EndTx, InTx
<1>7. CASE CommitLinks(c)
    BY <1>1, <1>7 DEF CommitLinks, EndTx, InTx
<1>8. CASE FailTx(c)
    BY <1>1, <1>8 DEF FailTx, EndTx, InTx
<1>9. ASSUME NEW l \in Links, NEW state, WriteLink(c, l, state)
      PROVE  /\ profile # "absent" /\ profile' # "absent" /\ at[c] = "idle"
             /\ Goto(c, "invalidate")
    BY <1>1, <1>9 DEF WriteLink
<1> QED BY <1>2, <1>3, <1>4, <1>5, <1>6, <1>7, <1>8, <1>9 DEF Edit, DeleteLink, UpdateLink

LEMMA EditStep ==
    ASSUME StorefrontInv, NEW c \in Callers, Edit(c),
           UNCHANGED <<product, cache, loaded, ghosts>>
    PROVE  StorefrontInv'
<1>1. StorefrontTypeOK /\ PagesAreFresh
    BY DEF StorefrontInv, PagesAreFresh
<1>2. /\ profile # "absent" /\ profile' # "absent"
      /\ at[c] \in {"idle"} \cup InTx
      /\ UNCHANGED <<slug, offer, listing, cache, loaded, overlapped, tainted>>
    BY EditEffect DEF product, ghosts
<1>3. PICK step \in {"idle", "invalidate"} \cup InTx :
         /\ Goto(c, step)
         /\ step = "invalidate" \/ UNCHANGED <<profile, links>>
    BY EditEffect
<1>4. /\ at' \in [Callers -> StorefrontSteps] /\ at'[c] = step
      /\ \A d \in Callers \ {c} : at'[d] = at[d]
    BY <1>1, <1>3, Moves DEF StorefrontSteps
<1>5. \A d \in Callers : \A s \in PageSteps \cup ProductSteps \cup WriterSteps :
         at'[d] = s <=> at[d] = s
    BY <1>2, <1>3, <1>4 DEF PageSteps, ProductSteps, WriterSteps, InTx
<1>6. \A d \in Callers : /\ at'[d] \in PageSteps <=> at[d] \in PageSteps
                         /\ at'[d] \in ProductSteps <=> at[d] \in ProductSteps
    BY <1>5
<1>7. StorefrontTypeOK'
    BY <1>1, <1>2, <1>4, <1>5, <1>6
       DEF StorefrontTypeOK, PageSteps, ProductSteps, WriterSteps
<1>8. slug # "page"
    BY <1>1, StorefrontAssumption DEF StorefrontTypeOK
<1>9. Pending(slug)' <=> Pending(slug)
    BY <1>2, <1>5, <1>8 DEF Pending, WriterSteps
<1>10. ~Pending("page")' => ~Pending("page") /\ UNCHANGED <<profile, links>>
    BY <1>2, <1>3, <1>4, <1>5 DEF Pending, WriterSteps, InTx
<1>11. ~Pending("page")' => UNCHANGED <<profile, ShownLinks, CurrentPage>>
    BY <1>2, <1>10 DEF ShownLinks, CurrentPage, Listed
<1>12. Offered(slug)' = Offered(slug)
    BY <1>2 DEF Offered
<1>13. PagesAreFresh'
    <2>1. Reached("page")' => cache'["page"] = CurrentPage'
        BY <1>1, <1>2, <1>10, <1>11 DEF Reached, PagesAreFresh
    <2>2. Reached(slug)' => cache'[slug'] = Offered(slug)'
        BY <1>1, <1>2, <1>9, <1>12, ProductIsFresh DEF Reached
    <2> QED BY <1>7, <2>1, <2>2, FreshAgain
<1>14. ASSUME NEW d \in Callers PROVE ReaderInv(d)'
    BY <1>2, <1>5, <1>6, <1>9, <1>10, <1>11, <1>12
       DEF StorefrontInv, ReaderInv, PageSteps, ProductSteps
<1> QED BY <1>2, <1>13, <1>14 DEF StorefrontInv

LEMMA CreateProfileStep ==
    ASSUME StorefrontInv, CreateProfile, UNCHANGED <<product, cache, loaded, ghosts>>
    PROVE  StorefrontInv'
<1>1. /\ StorefrontTypeOK /\ PagesAreFresh
      /\ UNCHANGED <<slug, offer, listing, cache, loaded, overlapped, tainted, at>>
      /\ profile' = "hidden" /\ cache["page"] = Nothing /\ \A c \in Callers : at[c] = "idle"
    BY DEF CreateProfile, product, ghosts, StorefrontInv, PagesAreFresh
<1>2. StorefrontTypeOK'
    BY <1>1 DEF StorefrontTypeOK
<1>3. PagesAreFresh'
    <2>1. ~Reached("page")'
        BY <1>1 DEF Reached
    <2>2. Reached(slug)' => cache'[slug'] = Offered(slug)'
        BY <1>1, ProductIsFresh DEF Reached, Pending, Offered
    <2> QED BY <1>2, <2>1, <2>2, FreshAgain
<1>4. \A d \in Callers : ReaderInv(d)'
    BY <1>1 DEF ReaderInv, PageSteps, ProductSteps
<1> QED BY <1>1, <1>3, <1>4 DEF StorefrontInv

(* Whoever has written the product has every entry to answer for.          *)
LEMMA WriteStep ==
    ASSUME StorefrontInv, NEW c \in Callers, Commit(c),
           slug' \in Slugs, offer' \in Offers \cup {None}, listing' \in Listings
    PROVE  StorefrontInv'
<1>1. /\ StorefrontTypeOK /\ at[c] = "idle" /\ profile # "absent" /\ profile' = profile
      /\ Goto(c, "coords") /\ UNCHANGED <<cache, loaded, overlapped, tainted>>
    BY DEF Commit, edits, ghosts, StorefrontInv, PagesAreFresh
<1>2. /\ at' \in [Callers -> StorefrontSteps] /\ at'[c] = "coords"
      /\ \A d \in Callers \ {c} : at'[d] = at[d]
    BY <1>1, Moves DEF StorefrontSteps, WriterSteps
<1>3. StorefrontTypeOK'
    BY <1>1, <1>2 DEF StorefrontTypeOK, PageSteps, ProductSteps
<1>4. Pending("page")' /\ Pending(slug)'
    BY <1>2 DEF Pending
<1>5. PagesAreFresh'
    BY <1>3, <1>4, FreshAgain DEF Reached
<1>6. \A d \in Callers : ReaderInv(d)'
    BY <1>4 DEF ReaderInv
<1> QED BY <1>1, <1>5, <1>6 DEF StorefrontInv

(* A writer drops the keys it answers for, or cannot: whoever is loading   *)
(* one of them is overtaken, and what is left under them is tainted.       *)
LEMMA DropStep ==
    ASSUME StorefrontInv, NEW c \in Callers, NEW keys \in SUBSET Keys, "page" \in keys,
           at[c] \in {"invalidate", "coords", "drop"}, Goto(c, "idle"),
           Delete(keys) \/ Keep(keys),
           DOMAIN loaded' = Callers, loaded'[c] = Nothing,
           \A d \in Callers \ {c} : loaded'[d] = loaded[d],
           UNCHANGED <<profile, product>>,
           \/ at[c] = "invalidate"
           \/ at[c] = "coords" /\ slug \in keys
           \/ at[c] = "drop" /\ loaded[c].slug \in keys
    PROVE  StorefrontInv'
<1>1. /\ StorefrontTypeOK /\ PagesAreFresh /\ profile # "absent" /\ profile' = profile
      /\ UNCHANGED <<slug, offer, listing>> /\ overlapped' = overlapped \cup Overtaken(keys)
    BY DEF Delete, Keep, product, StorefrontInv, PagesAreFresh
<1>2. /\ at' \in [Callers -> StorefrontSteps] /\ at'[c] = "idle"
      /\ \A d \in Callers \ {c} : at'[d] = at[d]
    BY <1>1, Moves DEF StorefrontSteps
<1>3. /\ DOMAIN cache' = Keys
      /\ tainted' \subseteq {k \in Keys : cache'[k] # Nothing}
      /\ \A k \in keys : cache'[k] = Nothing \/ k \in tainted'
      /\ \A k \in Keys \ keys : cache'[k] = cache[k] /\ (k \in tainted' <=> k \in tainted)
    BY <1>1 DEF Delete, Keep, StorefrontTypeOK
<1>4. StorefrontTypeOK'
    <2>1. overlapped' \subseteq {d \in Callers : at'[d] \in PageSteps \cup ProductSteps}
        BY <1>1, <1>2 DEF StorefrontTypeOK, Overtaken, Loads, PageSteps, ProductSteps
    <2> QED BY <1>1, <1>2, <1>3, <2>1
            DEF StorefrontTypeOK, PageSteps, ProductSteps
<1>5. slug \in Slugs /\ slug \in Keys /\ slug # "page"
    BY <1>1, StorefrontAssumption DEF StorefrontTypeOK, Keys
<1>6. \A d \in Callers \ {c} : at'[d] = at[d] /\ loaded'[d] = loaded[d]
    BY <1>2
<1>7. slug \notin keys /\ ~Pending(slug)' => ~Pending(slug)
    BY <1>1, <1>5, <1>6 DEF Pending
<1>8. PagesAreFresh'
    <2>1. ~Reached("page")'
        BY <1>3 DEF Reached
    <2>2. Reached(slug)' => cache'[slug'] = Offered(slug)'
        <3>1. Reached(slug)' => slug \notin keys /\ Reached(slug)
            BY <1>1, <1>3, <1>5, <1>7 DEF Reached
        <3>2. slug \notin keys => cache'[slug'] = cache[slug] /\ Offered(slug)' = Offered(slug)
            BY <1>1, <1>3, <1>5 DEF Offered
        <3> QED BY <1>1, <3>1, <3>2, ProductIsFresh
    <2> QED BY <1>4, <2>1, <2>2, FreshAgain
<1>9. ASSUME NEW d \in Callers PROVE ReaderInv(d)'
    <2>1. CASE d = c
        BY <1>2, <2>1 DEF ReaderInv, PageSteps, ProductSteps
    <2>2. CASE d # c /\ d \notin overlapped'
        <3>1. d \notin overlapped /\ ~Loads(d, "page") /\ (slug \in keys => ~Loads(d, slug))
            BY <1>1, <2>2 DEF Overtaken
        <3>2. at'[d] \notin PageSteps
            BY <1>6, <2>2, <3>1 DEF Loads
        <3>3. ASSUME at'[d] \in ProductSteps, loaded'[d].slug = slug', ~Pending(slug)'
              PROVE  /\ offer' # None /\ loaded'[d].offer = offer'
                     /\ at'[d] = "storeProduct" => loaded'[d] = Offered(slug)'
            <4>1. slug \notin keys /\ ~Pending(slug)
                BY <1>1, <1>5, <1>6, <1>7, <2>2, <3>1, <3>3 DEF Loads
            <4>2. Offered(slug)' = Offered(slug)
                BY <1>1 DEF Offered
            <4> QED BY <1>1, <1>6, <2>2, <3>1, <3>3, <4>1, <4>2 DEF StorefrontInv, ReaderInv
        <3> QED BY <3>2, <3>3 DEF ReaderInv
    <2> QED BY <2>1, <2>2 DEF ReaderInv
<1> QED BY <1>1, <1>8, <1>9 DEF StorefrontInv

LEMMA InvalidateStep ==
    ASSUME StorefrontInv, NEW c \in Callers, InvalidateProfile(c) \/ InvalidateProduct(c)
    PROVE  StorefrontInv'
<1>1. StorefrontTypeOK
    BY DEF StorefrontInv, PagesAreFresh
<1>2. CASE InvalidateProfile(c)
    <2>1. at[c] = "invalidate" /\ loaded[c] = Nothing
        BY <1>1, <1>2 DEF InvalidateProfile, Return, StorefrontTypeOK, ProductSteps
    <2> QED BY <1>1, <1>2, <2>1, DropStep
            DEF InvalidateProfile, Return, Keys, StorefrontTypeOK
<1>3. CASE InvalidateProduct(c)
    <2>1. at[c] = "drop" /\ {"page", loaded[c].slug} \subseteq Keys
        BY <1>1, <1>3 DEF InvalidateProduct, StorefrontTypeOK, Keys
    <2>2. /\ DOMAIN loaded' = Callers /\ loaded'[c] = Nothing
          /\ \A d \in Callers \ {c} : loaded'[d] = loaded[d]
        BY <1>1, <1>3 DEF InvalidateProduct, StorefrontTypeOK
    <2> QED BY <1>3, <2>1, <2>2, DropStep DEF InvalidateProduct, edits
<1> QED BY <1>2, <1>3

(* The writer that looks up the slug answers from now on for that one and  *)
(* for the page.                                                           *)
LEMMA PublicCoordsStep ==
    ASSUME StorefrontInv, NEW c \in Callers, PublicCoords(c)
    PROVE  StorefrontInv'
<1>1. /\ StorefrontTypeOK /\ at[c] = "coords" /\ profile # "absent" /\ profile' = profile
      /\ UNCHANGED <<slug, offer, listing>>
    BY DEF PublicCoords, edits, product, StorefrontInv, PagesAreFresh
<1>2. slug \in Slugs /\ slug # "page" /\ slug \in Keys
    BY <1>1, StorefrontAssumption DEF StorefrontTypeOK, Keys
<1>3. CASE Goto(c, "idle") /\ Keep({"page", slug}) /\ UNCHANGED loaded
    <2>1. loaded[c] = Nothing
        BY <1>1 DEF StorefrontTypeOK, ProductSteps
    <2>2. {"page", slug} \in SUBSET Keys /\ UNCHANGED <<profile, product>>
        BY <1>1, <1>2 DEF Keys, product
    <2> QED BY <1>1, <1>3, <2>1, <2>2, DropStep DEF StorefrontTypeOK
<1>4. CASE /\ loaded' = [loaded EXCEPT ![c] = [slug |-> slug]] /\ Goto(c, "drop")
           /\ UNCHANGED <<cache, ghosts>>
    <2>1. /\ at' \in [Callers -> StorefrontSteps] /\ at'[c] = "drop"
          /\ \A d \in Callers \ {c} : at'[d] = at[d]
        BY <1>1, <1>4, Moves DEF StorefrontSteps, WriterSteps
    <2>2. /\ DOMAIN loaded' = Callers /\ loaded'[c].slug = slug /\ loaded'[c] # Nothing
          /\ \A d \in Callers \ {c} : loaded'[d] = loaded[d]
          /\ UNCHANGED <<cache, overlapped, tainted>>
        BY <1>1, <1>4, PartsAreSomething DEF StorefrontTypeOK, ghosts
    <2>3. StorefrontTypeOK'
        BY <1>1, <1>2, <2>1, <2>2 DEF StorefrontTypeOK, PageSteps, ProductSteps
    <2>4. Pending("page")' /\ Pending(slug)'
        BY <1>1, <2>1, <2>2 DEF Pending
    <2>5. PagesAreFresh'
        BY <2>3, <2>4, FreshAgain DEF Reached
    <2>6. \A d \in Callers : ReaderInv(d)'
        BY <2>4 DEF ReaderInv
    <2> QED BY <1>1, <2>5, <2>6 DEF StorefrontInv
<1> QED BY <1>3, <1>4 DEF PublicCoords

(* A statement of a reader; what is in the tables and the cache stays.     *)
LEMMA ReadStep ==
    ASSUME StorefrontInv, NEW c \in Callers,
           FindCreator(c) \/ ListLinks(c) \/ ListProducts(c) \/ FindProduct(c) \/ ListDeliverables(c)
    PROVE  StorefrontInv'
<1>1. /\ StorefrontTypeOK /\ PagesAreFresh /\ ReaderInv(c)
      /\ UNCHANGED <<profile, links, slug, offer, listing, cache, overlapped, tainted>>
    BY DEF FindCreator, ListLinks, ListProducts, FindProduct, ListDeliverables, edits, product,
       ghosts, StorefrontInv, PagesAreFresh
<1>2. UNCHANGED <<ShownLinks, CurrentPage, Listed, Offered(slug)>>
    BY <1>1 DEF ShownLinks, CurrentPage, Listed, Offered
<1>3. PICK step \in PageSteps \cup ProductSteps :
         /\ Goto(c, step)
         /\ \/ /\ at[c] = "idle" /\ step = "links" /\ profile = "shown" /\ loaded' = loaded
            \/ /\ at[c] = "links" /\ step = "products"
               /\ loaded' = [loaded EXCEPT ![c] = [links |-> ShownLinks]]
            \/ /\ at[c] = "products" /\ step = "storePage"
               /\ loaded' = [loaded EXCEPT ![c] = [links |-> loaded[c].links, products |-> Listed]]
            \/ /\ at[c] = "idle" /\ step = "includes" /\ profile = "shown" /\ offer # None
               /\ loaded' = [loaded EXCEPT ![c] = [slug |-> slug, offer |-> offer]]
            \/ /\ at[c] = "includes" /\ step = "storeProduct"
               /\ loaded' = [loaded EXCEPT ![c] =
                     [slug |-> loaded[c].slug, offer |-> loaded[c].offer, listing |-> listing]]
    BY DEF FindCreator, ListLinks, ListProducts, FindProduct, ListDeliverables, PageSteps,
       ProductSteps
<1>4. /\ at' \in [Callers -> StorefrontSteps] /\ at'[c] = step
      /\ \A d \in Callers \ {c} : at'[d] = at[d]
    BY <1>1, <1>3, Moves DEF StorefrontSteps
<1>5. /\ DOMAIN loaded' = Callers
      /\ \A d \in Callers \ {c} : loaded'[d] = loaded[d]
      /\ loaded'[c] # Nothing <=> step # "links"
      /\ step \in ProductSteps => loaded'[c].slug \in Slugs
    BY <1>1, <1>3, PartsAreSomething DEF StorefrontTypeOK, PageSteps, ProductSteps
<1>6. StorefrontTypeOK'
    BY <1>1, <1>3, <1>4, <1>5 DEF StorefrontTypeOK, PageSteps, ProductSteps
<1>7. \A k : Pending(k)' <=> Pending(k)
    BY <1>3, <1>4, <1>5 DEF Pending, PageSteps, ProductSteps
<1>8. PagesAreFresh'
    <2>1. Reached("page")' => cache'["page"] = CurrentPage'
        BY <1>1, <1>2, <1>7 DEF Reached, PagesAreFresh
    <2>2. Reached(slug)' => cache'[slug'] = Offered(slug)'
        BY <1>1, <1>2, <1>7, ProductIsFresh DEF Reached
    <2> QED BY <1>6, <2>1, <2>2, FreshAgain
<1>9. ASSUME NEW d \in Callers PROVE ReaderInv(d)'
    <2>1. CASE d = c
        <3>1. CASE step \in PageSteps
            <4>1. ASSUME c \notin overlapped, ~Pending("page")
                  PROVE  /\ profile = "shown"
                         /\ step # "links" => loaded'[c].links = ShownLinks
                         /\ step = "storePage" => loaded'[c] = CurrentPage
                <5>1. at[c] # "idle" => at[c] \in PageSteps
                    BY <1>3, <3>1 DEF PageSteps, ProductSteps
                <5>2. profile = "shown" /\ (at[c] = "products" => loaded[c].links = ShownLinks)
                    BY <1>1, <1>3, <3>1, <4>1, <5>1 DEF ReaderInv, PageSteps, ProductSteps
                <5>3. /\ step = "products" => loaded'[c] = [links |-> ShownLinks]
                      /\ step = "storePage" =>
                            loaded'[c] = [links |-> ShownLinks, products |-> Listed]
                    BY <1>1, <1>3, <5>2 DEF StorefrontTypeOK
                <5> QED BY <3>1, <5>2, <5>3 DEF PageSteps, CurrentPage
            <4>2. step \notin ProductSteps
                BY <3>1 DEF PageSteps, ProductSteps
            <4> QED BY <1>1, <1>2, <1>4, <1>7, <2>1, <3>1, <4>1, <4>2 DEF ReaderInv
        <3>2. CASE step \in ProductSteps
            <4>1. ASSUME c \notin overlapped, loaded'[c].slug = slug, ~Pending(slug)
                  PROVE  /\ offer # None /\ loaded'[c].offer = offer
                         /\ step = "storeProduct" => loaded'[c] = Offered(slug)
                <5>1. CASE step = "includes"
                    BY <1>1, <1>3, <5>1 DEF StorefrontTypeOK
                <5>2. CASE step = "storeProduct"
                    <6>1. /\ at[c] = "includes"
                          /\ loaded'[c] = [slug |-> loaded[c].slug, offer |-> loaded[c].offer,
                                           listing |-> listing]
                        BY <1>1, <1>3, <5>2 DEF StorefrontTypeOK
                    <6>2. loaded[c].slug = slug
                        BY <4>1, <6>1
                    <6>3. offer # None /\ loaded[c].offer = offer
                        BY <1>1, <4>1, <6>1, <6>2 DEF ReaderInv, ProductSteps
                    <6> QED BY <5>2, <6>1, <6>2, <6>3 DEF Offered
                <5> QED BY <3>2, <5>1, <5>2 DEF ProductSteps
            <4>2. step \notin PageSteps
                BY <3>2 DEF PageSteps, ProductSteps
            <4> QED BY <1>1, <1>2, <1>4, <1>7, <2>1, <3>2, <4>1, <4>2 DEF ReaderInv
        <3> QED BY <3>1, <3>2
    <2>2. CASE d # c
        BY <1>1, <1>2, <1>4, <1>5, <1>7, <2>2 DEF StorefrontInv, ReaderInv
    <2> QED BY <2>1, <2>2
<1>10. profile # "absent"
    BY <1>3, <1>1 DEF StorefrontInv
<1> QED BY <1>1, <1>8, <1>9, <1>10 DEF StorefrontInv

(* A reader stores what it has loaded, if it can, and returns.             *)
LEMMA StoreStep ==
    ASSUME StorefrontInv, NEW c \in Callers, StorePage(c) \/ StoreProduct(c)
    PROVE  StorefrontInv'
<1> DEFINE k == IF at[c] = "storePage" THEN "page" ELSE loaded[c].slug
<1>1. /\ StorefrontTypeOK /\ PagesAreFresh /\ ReaderInv(c) /\ profile # "absent"
      /\ at[c] \in {"storePage", "storeProduct"} /\ Store(c, k)
    BY DEF StorePage, StoreProduct, StorefrontInv, PagesAreFresh
<1>2. /\ Goto(c, "idle")
      /\ loaded' = [loaded EXCEPT ![c] = Nothing] /\ overlapped' = overlapped \ {c}
      /\ UNCHANGED <<profile, links, slug, offer, listing>>
    BY <1>1 DEF Store, edits, product
<1>3. UNCHANGED <<ShownLinks, CurrentPage, Offered(slug)>>
    BY <1>2 DEF ShownLinks, CurrentPage, Listed, Offered
<1>4. /\ at' \in [Callers -> StorefrontSteps] /\ at'[c] = "idle"
      /\ \A d \in Callers \ {c} : at'[d] = at[d]
    BY <1>1, <1>2, Moves DEF StorefrontSteps
<1>5. /\ DOMAIN loaded' = Callers /\ loaded'[c] = Nothing /\ loaded[c] # Nothing
      /\ \A d \in Callers \ {c} : loaded'[d] = loaded[d]
    BY <1>1, <1>2 DEF StorefrontTypeOK, ProductSteps
<1>6. /\ slug \in Slugs /\ slug # "page" /\ slug \in Keys /\ "page" \in Keys /\ k \in Keys
      /\ k = "page" <=> at[c] = "storePage"
    BY <1>1, StorefrontAssumption DEF StorefrontTypeOK, Keys, ProductSteps
<1>7. \A j : Pending(j)' <=> Pending(j)
    BY <1>1, <1>4, <1>5 DEF Pending
<1>8. ASSUME cache' = cache, tainted' = tainted
      PROVE  PagesAreFresh'
    <2>1. StorefrontTypeOK'
        BY <1>1, <1>2, <1>4, <1>5, <1>8 DEF StorefrontTypeOK, PageSteps, ProductSteps
    <2>2. Reached("page")' => cache'["page"] = CurrentPage'
        BY <1>1, <1>3, <1>7, <1>8 DEF Reached, PagesAreFresh
    <2>3. Reached(slug)' => cache'[slug'] = Offered(slug)'
        BY <1>1, <1>2, <1>3, <1>7, <1>8, ProductIsFresh DEF Reached
    <2> QED BY <2>1, <2>2, <2>3, FreshAgain
<1>9. ASSUME cache' = [cache EXCEPT ![k] = loaded[c]],
             tainted' = IF c \in overlapped THEN tainted \cup {k} ELSE tainted \ {k}
      PROVE  PagesAreFresh'
    <2>1. /\ DOMAIN cache' = Keys /\ cache'[k] = loaded[c]
          /\ \A j \in Keys \ {k} : cache'[j] = cache[j] /\ (j \in tainted' <=> j \in tainted)
          /\ k \in tainted' <=> c \in overlapped
          /\ tainted' \subseteq {j \in Keys : cache'[j] # Nothing}
        <3> HIDE DEF k
        <3> QED BY <1>1, <1>5, <1>6, <1>9 DEF StorefrontTypeOK
    <2>2. StorefrontTypeOK'
        BY <1>1, <1>2, <1>4, <1>5, <2>1 DEF StorefrontTypeOK, PageSteps, ProductSteps
    <2>3. Reached("page")' => cache'["page"] = CurrentPage'
        <3>1. CASE k = "page"
            BY <1>1, <1>3, <1>6, <1>7, <2>1, <3>1 DEF Reached, ReaderInv, PageSteps
        <3>2. CASE k # "page"
            <4> HIDE DEF k
            <4> QED BY <1>1, <1>3, <1>6, <1>7, <2>1, <3>2 DEF Reached, PagesAreFresh
        <3> QED BY <3>1, <3>2
    <2>4. Reached(slug)' => cache'[slug'] = Offered(slug)'
        <3>1. CASE k = slug
            <4>1. at[c] = "storeProduct" /\ loaded[c].slug = slug
                BY <1>1, <1>6, <3>1
            <4> QED BY <1>1, <1>2, <1>3, <1>7, <2>1, <3>1, <4>1
                    DEF Reached, ReaderInv, ProductSteps
        <3>2. CASE k # slug
            <4> HIDE DEF k
            <4> QED BY <1>1, <1>2, <1>3, <1>6, <1>7, <2>1, <3>2, ProductIsFresh DEF Reached
        <3> QED BY <3>1, <3>2
    <2> QED BY <2>2, <2>3, <2>4, FreshAgain
<1>10. PagesAreFresh'
    BY <1>1, <1>8, <1>9 DEF Store
<1>11. ASSUME NEW d \in Callers PROVE ReaderInv(d)'
    <2>1. CASE d = c
        BY <1>4, <2>1 DEF ReaderInv, PageSteps, ProductSteps
    <2>2. CASE d # c
        BY <1>2, <1>3, <1>4, <1>5, <1>7, <2>2 DEF StorefrontInv, ReaderInv
    <2> QED BY <2>1, <2>2
<1> QED BY <1>1, <1>2, <1>10, <1>11 DEF StorefrontInv

LEMMA ExpireStep ==
    ASSUME StorefrontInv, NEW k \in Keys, Expire(k)
    PROVE  StorefrontInv'
<1>1. /\ StorefrontTypeOK /\ PagesAreFresh
      /\ UNCHANGED <<profile, links, slug, offer, listing, at, loaded, overlapped>>
      /\ cache' = [cache EXCEPT ![k] = Nothing] /\ tainted' = tainted \ {k}
    BY DEF Expire, edits, product, StorefrontInv, PagesAreFresh
<1>2. UNCHANGED <<ShownLinks, CurrentPage, Offered(slug), Present>>
    BY <1>1 DEF ShownLinks, CurrentPage, Listed, Offered, Present
<1>3. \A j : Pending(j)' <=> Pending(j)
    BY <1>1 DEF Pending
<1>4. /\ DOMAIN cache' = Keys /\ cache'[k] = Nothing
      /\ \A j \in Keys \ {k} : cache'[j] = cache[j] /\ (j \in tainted' <=> j \in tainted)
    BY <1>1 DEF StorefrontTypeOK
<1>5. StorefrontTypeOK'
    BY <1>1, <1>4 DEF StorefrontTypeOK
<1>6. slug \in Keys /\ "page" \in Keys
    BY <1>1 DEF StorefrontTypeOK, Keys
<1>7. PagesAreFresh'
    <2>1. Reached("page")' => cache'["page"] = CurrentPage'
        BY <1>1, <1>2, <1>3, <1>4, <1>6 DEF Reached, PagesAreFresh
    <2>2. Reached(slug)' => cache'[slug'] = Offered(slug)'
        BY <1>1, <1>2, <1>3, <1>4, <1>6, ProductIsFresh DEF Reached
    <2> QED BY <1>5, <2>1, <2>2, FreshAgain
<1>8. ASSUME NEW d \in Callers PROVE ReaderInv(d)'
    BY <1>1, <1>2, <1>3 DEF StorefrontInv, ReaderInv
<1>9. profile = "absent" => cache'["page"] = Nothing
    BY <1>4, <1>6 DEF StorefrontInv
<1> QED BY <1>1, <1>2, <1>7, <1>8, <1>9 DEF StorefrontInv

(* Nobody drops what lists the file that was swept, so it is tainted.      *)
LEMMA SweepFileStep ==
    ASSUME StorefrontInv, NEW files \in Listings, SweepFile(files)
    PROVE  StorefrontInv'
<1>1. /\ StorefrontTypeOK /\ PagesAreFresh /\ profile # "absent" /\ listing' = files
      /\ UNCHANGED <<profile, links, slug, offer, at, loaded, cache>>
      /\ tainted' = tainted \cup {k \in {slug} : cache[k] # Nothing}
      /\ overlapped' = overlapped \cup {c \in Callers : Loads(c, slug) /\ at[c] = "storeProduct"}
    BY DEF SweepFile, edits, StorefrontInv, PagesAreFresh
<1>2. UNCHANGED <<ShownLinks, CurrentPage>>
    BY <1>1 DEF ShownLinks, CurrentPage, Listed
<1>3. \A j : Pending(j)' <=> Pending(j)
    BY <1>1 DEF Pending
<1>4. slug \in Keys /\ slug # "page"
    BY <1>1, StorefrontAssumption DEF StorefrontTypeOK, Keys
<1>5. StorefrontTypeOK'
    BY <1>1, <1>4 DEF StorefrontTypeOK, ProductSteps
<1>6. PagesAreFresh'
    <2>1. Reached("page")' => cache'["page"] = CurrentPage'
        BY <1>1, <1>2, <1>3, <1>4 DEF Reached, PagesAreFresh
    <2>2. ~Reached(slug)'
        BY <1>1 DEF Reached
    <2> QED BY <1>5, <2>1, <2>2, FreshAgain
<1>7. ASSUME NEW d \in Callers PROVE ReaderInv(d)'
    <2>1. CASE Loads(d, slug) /\ at[d] = "storeProduct"
        BY <1>1, <2>1 DEF ReaderInv
    <2>2. CASE ~(Loads(d, slug) /\ at[d] = "storeProduct")
        BY <1>1, <1>2, <1>3, <1>4, <2>2 DEF StorefrontInv, ReaderInv, Loads
    <2> QED BY <2>1, <2>2
<1> QED BY <1>1, <1>6, <1>7 DEF StorefrontInv

LEMMA StorefrontStep ==
    ASSUME StorefrontInv, [StorefrontNext]_storefrontVars
    PROVE  StorefrontInv'
<1>1. CASE UNCHANGED storefrontVars
    <2>1. UNCHANGED <<profile, links, slug, offer, listing, at, cache, loaded, overlapped, tainted>>
        BY <1>1 DEF storefrontVars, linksVars
    <2>2. UNCHANGED <<ShownLinks, CurrentPage, Present>> /\ \A s : UNCHANGED Offered(s)
        BY <2>1 DEF ShownLinks, CurrentPage, Listed, Offered, Present
    <2>3. \A j : Pending(j)' <=> Pending(j)
        BY <2>1 DEF Pending
    <2>4. PagesAreFresh'
        BY <2>1, <2>2, <2>3
           DEF StorefrontInv, PagesAreFresh, StorefrontTypeOK, Reached, CurrentProduct
    <2>5. ASSUME NEW d \in Callers PROVE ReaderInv(d)'
        BY <2>1, <2>2, <2>3 DEF StorefrontInv, ReaderInv
    <2> QED BY <2>1, <2>2, <2>4, <2>5 DEF StorefrontInv
<1>2. CASE CreateProfile /\ UNCHANGED <<product, cache, loaded, ghosts>>
    BY <1>2, CreateProfileStep
<1>3. ASSUME NEW c \in Callers, PageStep(c)
      PROVE  StorefrontInv'
    <2>1. slug \in Slugs /\ listing \in Listings
        BY DEF StorefrontInv, PagesAreFresh, StorefrontTypeOK
    <2>2. ASSUME NEW s \in Slugs, NEW o \in Offers \cup {None}, UpdateProduct(c, s, o)
          PROVE  StorefrontInv'
        BY <2>1, <2>2, WriteStep DEF UpdateProduct
    <2>3. ASSUME NEW o \in Offers \cup {None}, NEW files \in Listings, ChangeFiles(c, o, files)
          PROVE  StorefrontInv'
        BY <2>1, <2>3, WriteStep DEF ChangeFiles
    <2> QED BY <1>3, <2>2, <2>3, EditStep, InvalidateStep, PublicCoordsStep, ReadStep, StoreStep
            DEF PageStep
<1> QED BY <1>1, <1>2, <1>3, ExpireStep, SweepFileStep DEF StorefrontNext

(* The invariant of the cache: a reader that no invalidation has overtaken *)
(* holds what the tables say, unless a writer has yet to invalidate, whose *)
(* DEL will overtake it.                                                   *)
THEOREM StorefrontInvariance == StorefrontSpec => []StorefrontInv
<1>1. StorefrontInit => StorefrontInv
    BY StorefrontStarts
<1>2. StorefrontInv /\ [StorefrontNext]_storefrontVars => StorefrontInv'
    BY StorefrontStep
<1> QED BY <1>1, <1>2, PTL DEF StorefrontSpec

(* Once every writer has returned, the cached page of the creator and that *)
(* of the product under the slug it has are what the tables say, however   *)
(* many readers and writers there are: the latter while the profile is     *)
(* shown, and else what it would be.  What a lost DEL, an overtaken load   *)
(* or the sweep has left there is not meant.                               *)
THEOREM PagesStayFresh == StorefrontSpec => []PagesAreFresh
<1>1. StorefrontInv => PagesAreFresh
    BY DEF StorefrontInv
<1> QED BY <1>1, StorefrontInvariance, PTL

-----------------------------------------------------------------------------
(* What a caller is seen to do after its own step and after another's.     *)
LEMMA EditingMoves ==
    ASSUME StorefrontTypeOK, NEW c \in Callers,
           NEW step \in StorefrontSteps, Goto(c, step)
    PROVE  /\ step \in {"idle"} \cup OnPage => editing' = [editing EXCEPT ![c] = step]
           /\ step \notin OnPage /\ at[c] \notin OnPage => editing' = editing
           /\ editing[c] = IF at[c] \in OnPage THEN at[c] ELSE "idle"
BY DEF Goto, StorefrontTypeOK, editing, OnPage

(* Links counts as the library does.                                       *)
LEMMA SameCounts ==
    /\ \A S : Page!Cardinality(S) = Cardinality(S)
    /\ \A S : Page!Max(S) = Max(S)
<1>1. ASSUME NEW S PROVE Page!Cardinality(S) = Cardinality(S)
    BY DEF Cardinality, Page!Cardinality
<1>2. ASSUME NEW S PROVE Page!Max(S) = Max(S)
    BY DEF Max, Page!Max
<1> QED BY <1>1, <1>2

(* Links sees the same rows and the same locks.                            *)
LEMMA SamePage ==
    /\ Page!Present = Present /\ Page!Orders = Orders
    /\ \A c : Page!Written(c) = Written(c)
    /\ \A l : Page!Locked(l) <=> Locked(l)
    /\ \A order : (Page!Known(order) <=> Known(order)) /\ Page!Named(order) = Named(order)
    /\ \A rows : (Page!PositionsDiffer(rows) <=> PositionsDiffer(rows))
<1>1. Page!Present = Present
    BY DEF Present, PresentIn, Page!Present, Page!PresentIn
<1>2. Page!Orders = Orders
    BY SameCounts DEF Orders, Page!Orders
<1>3. ASSUME NEW c PROVE Page!Written(c) = Written(c)
    BY DEF Written, Page!Written
<1>4. ASSUME NEW l PROVE Page!Locked(l) <=> Locked(l)
    BY DEF Locked, Page!Locked
<1>5. ASSUME NEW order
      PROVE  (Page!Known(order) <=> Known(order)) /\ Page!Named(order) = Named(order)
    BY DEF Known, Page!Known, Named, Page!Named
<1>6. ASSUME NEW rows PROVE Page!PositionsDiffer(rows) <=> PositionsDiffer(rows)
    BY DEF PositionsDiffer, Page!PositionsDiffer, PresentIn, Page!PresentIn
<1> QED BY <1>1, <1>2, <1>3, <1>4, <1>5, <1>6

(* A step on the page is the same step of Links.                           *)
LEMMA EditIsSeen ==
    ASSUME StorefrontInv, NEW c \in Callers, Edit(c)
    PROVE  Page!Edit(c)
<1>1. StorefrontTypeOK
    BY DEF StorefrontInv, PagesAreFresh
<1>2. at[c] \in {"idle"} \cup InTx => editing[c] = at[c]
    BY DEF editing, OnPage
<1>3. ASSUME NEW step \in {"idle", "invalidate"} \cup InTx, Goto(c, step)
      PROVE  Page!Goto(c, step)
    <2>1. editing' = [editing EXCEPT ![c] = step]
        BY <1>1, <1>3, EditingMoves DEF OnPage, StorefrontSteps
    <2> QED BY <2>1 DEF Page!Goto
<1>4. ASSUME NEW step \in {"idle", "invalidate"} \cup InTx, EndTx(c, step)
      PROVE  Page!EndTx(c, step)
    BY <1>3, <1>4 DEF EndTx, Page!EndTx, NoWrites, Page!NoWrites
<1>5. ASSUME NEW p \in {"hidden", "shown"}, UpdateProfile(c, p)
      PROVE  Page!UpdateProfile(c, p)
    BY <1>2, <1>3, <1>5 DEF UpdateProfile, Page!UpdateProfile
<1>6. ASSUME NEW order, LockProfile(c, order)
      PROVE  Page!LockProfile(c, order)
    BY <1>2, <1>3, <1>6 DEF LockProfile, Page!LockProfile, InTx
<1>7. CASE CountLinks(c)
    <2>1. at[c] = "count" /\ editing[c] = "count"
        BY <1>2, <1>7 DEF CountLinks, InTx
    <2> DEFINE step == IF asked[c] = <<>> THEN "insert" ELSE "reorder"
    <2>2. /\ Goto(c, step) => Page!Goto(c, step)
          /\ EndTx(c, "idle") => Page!EndTx(c, "idle")
        BY <1>3, <1>4 DEF InTx
    <2>3. Page!CountLinks(c)
        BY <1>7, <2>1, <2>2, SamePage, SameCounts DEF CountLinks, Page!CountLinks
    <2> QED BY <2>3 DEF Page!Edit
<1>8. CASE CreateLink(c)
    <2>1. editing[c] = "insert" /\ Page!Goto(c, "commit")
        BY <1>2, <1>3, <1>8 DEF CreateLink, InTx
    <2>2. Page!CreateLink(c)
        BY <1>8, <2>1, SamePage, SameCounts DEF CreateLink, Page!CreateLink
    <2> QED BY <2>2 DEF Page!Edit
<1>9. CASE ReorderLinks(c)
    <2>1. /\ at[c] = "reorder" /\ editing[c] = "reorder"
          /\ Goto(c, "commit") => Page!Goto(c, "commit")
          /\ EndTx(c, "idle") => Page!EndTx(c, "idle")
        BY <1>2, <1>3, <1>4, <1>9 DEF ReorderLinks, InTx
    <2>2. Page!ReorderLinks(c)
        BY <1>9, <2>1, SamePage DEF ReorderLinks, Page!ReorderLinks
    <2> QED BY <2>2 DEF Page!Edit
<1>10. CASE CommitLinks(c)
    <2>1. /\ editing[c] = "commit"
          /\ EndTx(c, "invalidate") => Page!EndTx(c, "invalidate")
          /\ EndTx(c, "idle") => Page!EndTx(c, "idle")
        BY <1>2, <1>4, <1>10 DEF CommitLinks, InTx
    <2>2. Page!CommitLinks(c)
        BY <1>10, <2>1, SamePage DEF CommitLinks, Page!CommitLinks
    <2> QED BY <2>2 DEF Page!Edit
<1>11. ASSUME NEW l \in Links, NEW state, WriteLink(c, l, state)
       PROVE  Page!WriteLink(c, l, state)
    <2>1. editing[c] = "idle" /\ Page!Goto(c, "invalidate")
        BY <1>2, <1>3, <1>11 DEF WriteLink
    <2> QED BY <1>11, <2>1, SamePage DEF WriteLink, Page!WriteLink
<1>12. CASE FailTx(c)
    <2>1. editing[c] \in InTx /\ Page!EndTx(c, "idle")
        BY <1>2, <1>4, <1>12 DEF FailTx
    <2>2. Page!FailTx(c)
        BY <1>12, <2>1, SamePage DEF FailTx, Page!FailTx, InTx, Page!InTx
    <2> QED BY <2>2 DEF Page!Edit
<1>13. CASE \E p \in {"hidden", "shown"} : UpdateProfile(c, p)
    BY <1>5, <1>13 DEF Page!Edit
<1>14. CASE \/ /\ \E l \in Links : links[l].state = "unused" /\ ~Locked(l)
                /\ LockProfile(c, <<>>)
             \/ \E order \in Orders : Known(order) /\ LockProfile(c, order)
    BY <1>6, <1>14, SamePage DEF Page!Edit
<1>15. CASE \E l \in Links : DeleteLink(c, l) \/ \E s \in {"shown", "hidden"} : UpdateLink(c, l, s)
    BY <1>11, <1>15 DEF Page!Edit, DeleteLink, UpdateLink, Page!DeleteLink, Page!UpdateLink
<1> QED BY <1>7, <1>8, <1>9, <1>10, <1>12, <1>13, <1>14, <1>15 DEF Edit

(* A step of a reader or of a writer of products is none of Links.         *)
LEMMA OthersAreUnseen ==
    ASSUME StorefrontTypeOK, NEW c \in Callers, UNCHANGED edits,
           at[c] \notin OnPage,
           \E step \in {"idle"} \cup PageSteps \cup ProductSteps \cup WriterSteps : Goto(c, step)
    PROVE  UNCHANGED Page!linksVars
<1>1. PICK step \in {"idle"} \cup PageSteps \cup ProductSteps \cup WriterSteps : Goto(c, step)
    OBVIOUS
<1>2. step \notin OnPage /\ step \in StorefrontSteps
    BY DEF OnPage, InTx, PageSteps, ProductSteps, WriterSteps, StorefrontSteps
<1>3. editing' = editing
    BY <1>1, <1>2, EditingMoves
<1> QED BY <1>3 DEF edits, Page!linksVars

(* Every step of the storefront is one of Links, or none.                  *)
LEMMA PageIsSeen ==
    ASSUME StorefrontInv, [StorefrontNext]_storefrontVars
    PROVE  [Page!LinksNext]_(Page!linksVars)
<1>1. StorefrontTypeOK
    BY DEF StorefrontInv, PagesAreFresh
<1>2. CASE UNCHANGED <<edits, at>>
    BY <1>2 DEF edits, editing, Page!linksVars
<1>3. CASE CreateProfile
    <2>1. editing' = editing
        BY <1>3 DEF CreateProfile, editing
    <2>2. Page!CreateProfile
        BY <1>3, <2>1 DEF CreateProfile, Page!CreateProfile
    <2> QED BY <2>2 DEF Page!LinksNext
<1>4. ASSUME NEW c \in Callers, Edit(c)
      PROVE  Page!LinksNext
    BY <1>4, EditIsSeen DEF Page!LinksNext
<1>5. ASSUME NEW c \in Callers, InvalidateProfile(c)
      PROVE  Page!LinksNext
    <2>1. editing[c] = "invalidate" /\ editing' = [editing EXCEPT ![c] = "idle"]
        BY <1>1, <1>5, EditingMoves DEF InvalidateProfile, Return, OnPage, StorefrontSteps
    <2>2. Page!Return(c)
        BY <1>5, <2>1 DEF InvalidateProfile, Return, Page!Return, Page!Goto
    <2> QED BY <2>2 DEF Page!LinksNext
<1>6. ASSUME NEW c \in Callers,
             \/ \E s \in Slugs, o \in Offers \cup {None} : UpdateProduct(c, s, o)
             \/ \E o \in Offers \cup {None}, files \in Listings : ChangeFiles(c, o, files)
             \/ PublicCoords(c) \/ InvalidateProduct(c)
             \/ FindCreator(c) \/ ListLinks(c) \/ ListProducts(c) \/ StorePage(c)
             \/ FindProduct(c) \/ ListDeliverables(c) \/ StoreProduct(c)
      PROVE  UNCHANGED Page!linksVars
    <2>1. UNCHANGED edits /\ at[c] \notin OnPage
        BY <1>6 DEF UpdateProduct, ChangeFiles, Commit, PublicCoords, InvalidateProduct,
           FindCreator, ListLinks, ListProducts, StorePage, FindProduct, ListDeliverables,
           StoreProduct, Store, OnPage, InTx
    <2>2. \E step \in {"idle"} \cup PageSteps \cup ProductSteps \cup WriterSteps : Goto(c, step)
        BY <1>6 DEF UpdateProduct, ChangeFiles, Commit, PublicCoords, InvalidateProduct,
           FindCreator, ListLinks, ListProducts, StorePage, FindProduct, ListDeliverables,
           StoreProduct, Store, PageSteps, ProductSteps, WriterSteps
    <2> QED BY <1>1, <2>1, <2>2, OthersAreUnseen
<1>7. CASE (\E k \in Keys : Expire(k)) \/ \E files \in Listings : SweepFile(files)
    BY <1>2, <1>7 DEF Expire, SweepFile
<1>8. CASE UNCHANGED storefrontVars
    BY <1>2, <1>8 DEF storefrontVars, linksVars, edits
<1> QED BY <1>3, <1>4, <1>5, <1>6, <1>7, <1>8 DEF StorefrontNext, PageStep

(* The storefront, its cache and the edits of products are stutters of     *)
(* Links, and a writer's last step, the invalidation, is its Return: any   *)
(* number of readers leave to a page all that Links promises of it.        *)
THEOREM StorefrontRefinement == StorefrontSpec => ImplementsLinks
<1>1. StorefrontInit => Page!LinksInit
    <2> SUFFICES ASSUME StorefrontInit PROVE Page!LinksInit
        OBVIOUS
    <2>1. editing = [c \in Callers |-> "idle"]
        BY DEF StorefrontInit, LinksInit, editing
    <2> QED BY <2>1 DEF StorefrontInit, LinksInit, Page!LinksInit, NoWrites, Page!NoWrites
<1>2. StorefrontInv /\ [StorefrontNext]_storefrontVars => [Page!LinksNext]_(Page!linksVars)
    BY PageIsSeen
<1> QED BY <1>1, <1>2, StorefrontInvariance, PTL DEF StorefrontSpec, ImplementsLinks, Page!LinksSpec

=============================================================================
