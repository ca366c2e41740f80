---------------------------- MODULE SessionsProofs --------------------------
(***************************************************************************)
(* Rotation is atomic and reuse ends what was open, for any number of      *)
(* users, browsers, tokens, requests and faults.                           *)
(***************************************************************************)
EXTENDS Sessions, TLAPS

(* Each step with what it may touch of the requests it is not about.       *)
LEMMA InitInv == SessionsInit => SessionsInv
<1> SUFFICES ASSUME SessionsInit PROVE SessionsInv
    OBVIOUS
<1> USE SessionsAssumption DEF SessionsInit
<1>1. NotIssued \in Row
    BY DEF NotIssued, Row
<1>2. SessionsTypeOK
    BY <1>1 DEF SessionsTypeOK, Steps, NotIssued
<1>3. \A r \in Requests : RequestKnows(r)
    BY DEF RequestKnows
<1>4. DrawsAreDistinct /\ OneSpender
    BY DEF DrawsAreDistinct, OneSpender
<1>5. RowsAreSound /\ RotationIsAtomic /\ ReuseEndsOpenSessions
    BY DEF RowsAreSound, RotationIsAtomic, ReuseEndsOpenSessions, Issued, NotIssued
<1> QED BY <1>2, <1>3, <1>4, <1>5 DEF SessionsInv

LEMMA BeginInv ==
    ASSUME SessionsInv, NEW r \in Requests, NEW b \in Browsers,
           Login(r, b) \/ Refresh(r, b) \/ Logout(r, b)
    PROVE  SessionsInv'
<1> USE SessionsAssumption
<1> PICK first, draws, presented :
        /\ Begin(r, b, first, draws, presented)
        /\ \/ first = "issue" /\ draws = TRUE /\ presented = None
           \/ first = "consume" /\ draws = TRUE /\ presented = jar[b] /\ jar[b] # None
           \/ first = "logout" /\ draws = FALSE /\ presented = jar[b] /\ jar[b] # None
    BY DEF Login, Refresh, Logout
<1>1. /\ at[r] = "idle" /\ at' = [at EXCEPT ![r] = first]
      /\ from' = [from EXCEPT ![r] = b] /\ cookie' = [cookie EXCEPT ![r] = presented]
      /\ UNCHANGED <<tokens, expired, jar, doomed, faults>>
      /\ disturbed' \subseteq disturbed \cup {OwnerOf[b]}
    BY DEF Begin, Go
<1>2. PICK m \in Tokens \cup {None} :
        /\ minted' = [minted EXCEPT ![r] = m]
        /\ draws => m \in Undrawn
        /\ ~draws => m = None
    BY DEF Begin, Undrawn
<1>3. /\ SessionsTypeOK /\ RowsAreSound /\ DrawsAreDistinct /\ OneSpender
      /\ RotationIsAtomic /\ ReuseEndsOpenSessions
      /\ \A q \in Requests : RequestKnows(q)
    BY DEF SessionsInv
<1>4. presented \in Tokens \cup {None}
    BY <1>3 DEF SessionsTypeOK
<1>5. SessionsTypeOK'
    BY <1>1, <1>2, <1>3, <1>4 DEF SessionsTypeOK, Steps
<1>6. ASSUME NEW q \in Requests PROVE RequestKnows(q)'
  <2> RequestKnows(q) /\ RequestKnows(r)
      BY <1>3
  <2> USE <1>1, <1>2, <1>3, <1>4 DEF RequestKnows, Issued, IsLive, SessionsTypeOK
  <2>1. CASE q # r
      BY <2>1
  <2>2. CASE q = r
    <3>1. draws => m # None /\ tokens[m].status = "unissued"
        BY DEF Undrawn
    <3>2. presented # None => tokens[presented].status # "unissued"
        BY DEF RowsAreSound
    <3> QED BY <2>2, <3>1, <3>2
  <2> QED BY <2>1, <2>2
<1>7. DrawsAreDistinct'
    BY <1>1, <1>2, <1>3 DEF DrawsAreDistinct, Undrawn, SessionsTypeOK
<1>8. OneSpender'
    BY <1>1, <1>3 DEF OneSpender, SessionsTypeOK
<1>9. RowsAreSound' /\ RotationIsAtomic'
    BY <1>1, <1>3 DEF RowsAreSound, RotationIsAtomic, Issued, IsLive
<1>10. ReuseEndsOpenSessions'
    BY <1>1, <1>3 DEF ReuseEndsOpenSessions, IsLive, SessionsTypeOK
<1> QED BY <1>5, <1>6, <1>7, <1>8, <1>9, <1>10 DEF SessionsInv

(* A step of one request that changes neither tables nor cookies.          *)
LEMMA MoveInv ==
    ASSUME SessionsInv, NEW r \in Requests,
           Consume(r) \/ SelectFamily(r)
    PROVE  SessionsInv'
<1> USE SessionsAssumption
<1>1. /\ UNCHANGED <<tokens, expired, jar, from, cookie, minted, disturbed, faults>>
    BY DEF Consume, SelectFamily
<1>2. /\ SessionsTypeOK /\ RowsAreSound /\ DrawsAreDistinct /\ OneSpender
      /\ RotationIsAtomic /\ ReuseEndsOpenSessions
      /\ \A q \in Requests : RequestKnows(q)
    BY DEF SessionsInv
<1>3. RowsAreSound' /\ RotationIsAtomic' /\ DrawsAreDistinct'
    BY <1>1, <1>2 DEF RowsAreSound, RotationIsAtomic, DrawsAreDistinct, Issued, IsLive
<1>4. CASE Consume(r)
  <2>1. PICK s \in {"select", "clear", "store"} :
          /\ at[r] = "consume" /\ at' = [at EXCEPT ![r] = s]
          /\ doomed' = doomed
          /\ s = "store" => IsLive(cookie[r]) /\ ~Held(cookie[r], r)
      BY <1>4 DEF Consume, Go
  <2>2. SessionsTypeOK'
      BY <1>1, <1>2, <2>1 DEF SessionsTypeOK, Steps
  <2>3. ASSUME NEW q \in Requests PROVE RequestKnows(q)'
    <3> RequestKnows(q) /\ RequestKnows(r)
        BY <1>2
    <3> QED BY <1>1, <1>2, <2>1 DEF RequestKnows, Issued, IsLive, SessionsTypeOK
  <2>4. OneSpender'
      BY <1>1, <1>2, <2>1 DEF OneSpender, Held, SessionsTypeOK
  <2>5. ReuseEndsOpenSessions'
    <3> RequestKnows(r)
        BY <1>2
    <3> QED BY <1>1, <1>2, <2>1 DEF ReuseEndsOpenSessions, IsLive, RequestKnows, SessionsTypeOK
  <2> QED BY <1>3, <2>2, <2>3, <2>4, <2>5 DEF SessionsInv
<1>5. CASE SelectFamily(r)
  <2>1. /\ at[r] = "select" /\ at' = [at EXCEPT ![r] = "sweep"]
        /\ doomed' = [doomed EXCEPT ![r] =
              {t \in Tokens : IsLive(t) /\ tokens[t].user = tokens[cookie[r]].user}]
      BY <1>5 DEF SelectFamily, Go
  <2>2. SessionsTypeOK'
      BY <1>1, <1>2, <2>1 DEF SessionsTypeOK, Steps
  <2>3. ASSUME NEW q \in Requests PROVE RequestKnows(q)'
    <3> RequestKnows(q) /\ RequestKnows(r)
        BY <1>2
    <3> QED BY <1>1, <1>2, <2>1 DEF RequestKnows, Issued, IsLive, SessionsTypeOK
  <2>4. OneSpender'
      BY <1>1, <1>2, <2>1 DEF OneSpender, SessionsTypeOK
  <2>5. ReuseEndsOpenSessions'
      BY <1>1, <1>2, <2>1 DEF ReuseEndsOpenSessions, IsLive, SessionsTypeOK
  <2> QED BY <1>3, <2>2, <2>3, <2>4, <2>5 DEF SessionsInv
<1> QED BY <1>4, <1>5

LEMMA IssueInv ==
    ASSUME SessionsInv, NEW r \in Requests, IssueSession(r)
    PROVE  SessionsInv'
<1> USE SessionsAssumption
<1> DEFINE m == minted[r]
           row == [status |-> "live", user |-> OwnerOf[from[r]], parent |-> None]
<1>1. /\ at[r] = "issue" /\ at' = [at EXCEPT ![r] = "grant"]
      /\ tokens' = [tokens EXCEPT ![m] = row]
      /\ UNCHANGED <<expired, jar, from, cookie, minted, doomed, disturbed, faults>>
    BY DEF IssueSession, Go
<1>2. /\ SessionsTypeOK /\ RowsAreSound /\ DrawsAreDistinct /\ OneSpender
      /\ RotationIsAtomic /\ ReuseEndsOpenSessions
      /\ \A q \in Requests : RequestKnows(q)
    BY DEF SessionsInv
<1>3. /\ m \in Tokens /\ tokens[m] = NotIssued /\ from[r] \in Browsers /\ row.user \in Users
    BY <1>1, <1>2 DEF RequestKnows, SessionsTypeOK, RowsAreSound
<1>4. row \in Row
    BY <1>3 DEF Row
<1>5. /\ \A t \in Tokens : tokens'[t] = IF t = m THEN row ELSE tokens[t]
      /\ tokens' \in [Tokens -> Row]
    BY <1>1, <1>2, <1>3, <1>4 DEF SessionsTypeOK
<1>6. SessionsTypeOK'
  <2>1. \A t \in Tokens : tokens'[t].user = None => tokens'[t] = NotIssued
      BY <1>2, <1>3, <1>5 DEF SessionsTypeOK
  <2> QED BY <1>1, <1>2, <1>5, <2>1 DEF SessionsTypeOK, Steps
<1>7. ASSUME NEW q \in Requests PROVE RequestKnows(q)'
  <2>1. RequestKnows(q) /\ RequestKnows(r)
      BY <1>2
  <2>2. CASE q = r
      BY <1>1, <1>2, <1>3, <1>5, <2>1, <2>2
      DEF RequestKnows, Issued, IsLive, SessionsTypeOK, NotIssued
  <2>3. CASE q # r
    <3>1. minted[q] # None => minted[q] # m
        BY <1>2, <1>3, <2>3 DEF DrawsAreDistinct
    <3>2. cookie[q] # m
        BY <1>3, <2>1 DEF RequestKnows, Issued, NotIssued
    <3>3. m \notin doomed[q]
        BY <1>3, <2>1 DEF RequestKnows, Issued, NotIssued
    <3> QED BY <1>1, <1>2, <1>3, <1>5, <2>1, <2>3, <3>1, <3>2, <3>3
        DEF RequestKnows, Issued, IsLive, SessionsTypeOK, NotIssued
  <2> QED BY <2>2, <2>3
<1>8. OneSpender' /\ DrawsAreDistinct'
    BY <1>1, <1>2 DEF OneSpender, DrawsAreDistinct, SessionsTypeOK
<1>9. RowsAreSound'
    BY <1>1, <1>2, <1>3, <1>5 DEF RowsAreSound, Issued, NotIssued, SessionsTypeOK, Row
<1>10. RotationIsAtomic'
    BY <1>2, <1>3, <1>5 DEF RotationIsAtomic, NotIssued
<1>11. ReuseEndsOpenSessions'
  <2> SUFFICES ASSUME NEW q \in Requests, at'[q] = "clear", NEW t \in doomed'[q]
               PROVE ~IsLive(t)'
      BY DEF ReuseEndsOpenSessions
  <2>1. t \in doomed[q] /\ at[q] = "clear" /\ t \in Tokens
      BY <1>1, <1>2 DEF SessionsTypeOK
  <2>2. t # m
      BY <1>2, <1>3, <2>1 DEF RequestKnows, Issued, NotIssued
  <2> QED BY <1>2, <1>5, <2>1, <2>2 DEF ReuseEndsOpenSessions, IsLive
<1> QED BY <1>6, <1>7, <1>8, <1>9, <1>10, <1>11 DEF SessionsInv

LEMMA RotateInv ==
    ASSUME SessionsInv, NEW r \in Requests, CommitRotation(r)
    PROVE  SessionsInv'
<1> USE SessionsAssumption
<1> DEFINE m == minted[r]
           t0 == cookie[r]
           row == [status |-> "live", user |-> tokens[t0].user, parent |-> t0]
           spent == [tokens[t0] EXCEPT !.status = "refreshed"]
<1>1. /\ at[r] = "store" /\ at' = [at EXCEPT ![r] = "grant"]
      /\ tokens' = [EndToken(t0, "refreshed") EXCEPT ![m] = row]
      /\ UNCHANGED <<expired, jar, from, cookie, minted, doomed, disturbed, faults>>
    BY DEF CommitRotation, Go
<1>2. /\ SessionsTypeOK /\ RowsAreSound /\ DrawsAreDistinct /\ OneSpender
      /\ RotationIsAtomic /\ ReuseEndsOpenSessions
      /\ \A q \in Requests : RequestKnows(q)
    BY DEF SessionsInv
<1>3. /\ m \in Tokens /\ tokens[m] = NotIssued
      /\ t0 \in Tokens /\ IsLive(t0) /\ t0 # m
    BY <1>1, <1>2 DEF RequestKnows, SessionsTypeOK, RowsAreSound, NotIssued, IsLive
<1>4. tokens[t0] \in Row /\ tokens[t0].user # None
    BY <1>2, <1>3 DEF SessionsTypeOK, NotIssued, IsLive
<1>5. /\ row \in Row /\ row.status = "live" /\ row.user = tokens[t0].user
      /\ row.parent = t0
      /\ spent \in Row /\ spent.user = tokens[t0].user
      /\ spent.parent = tokens[t0].parent /\ spent.status = "refreshed"
      /\ NotIssued.user = None /\ NotIssued.status = "unissued" /\ NotIssued.parent = None
    BY <1>3, <1>4 DEF Row, NotIssued
<1>6. /\ \A t \in Tokens : tokens'[t] = IF t = m THEN row
                                        ELSE IF t = t0 THEN spent ELSE tokens[t]
      /\ tokens' \in [Tokens -> Row]
    BY <1>1, <1>2, <1>3, <1>5 DEF SessionsTypeOK, EndToken
<1> HIDE DEF m, t0, row, spent
<1>7. SessionsTypeOK'
  <2>1. \A t \in Tokens : tokens'[t].user = None => tokens'[t] = NotIssued
      BY <1>2, <1>4, <1>5, <1>6 DEF SessionsTypeOK
  <2> QED BY <1>1, <1>2, <1>6, <2>1 DEF SessionsTypeOK, Steps
<1>8. /\ \A t \in Tokens : Issued(t)' <=> Issued(t) \/ t = m
      /\ \A t \in Tokens : IsLive(t)' <=> t = m \/ (IsLive(t) /\ t # t0)
      /\ \A t \in Tokens : Issued(t) => tokens'[t].user = tokens[t].user
    BY <1>3, <1>5, <1>6 DEF Issued, IsLive
<1>9. ASSUME NEW q \in Requests PROVE RequestKnows(q)'
  <2>1. RequestKnows(q) /\ RequestKnows(r)
      BY <1>2
  <2>2. CASE q = r
      BY <1>1, <1>2, <1>3, <1>8, <2>1, <2>2 DEF RequestKnows, SessionsTypeOK, m, t0
  <2>3. CASE q # r
    <3>1. minted[q] # None => minted[q] # m
        BY <1>2, <1>3, <2>3 DEF DrawsAreDistinct, m
    <3>2. at[q] = "store" => cookie[q] # t0
        BY <1>1, <1>2, <2>3 DEF OneSpender, t0
    <3> QED BY <1>1, <1>2, <1>3, <1>8, <2>1, <2>3, <3>1, <3>2
        DEF RequestKnows, SessionsTypeOK, m, t0
  <2> QED BY <2>2, <2>3
<1>10. OneSpender' /\ DrawsAreDistinct'
    BY <1>1, <1>2 DEF OneSpender, DrawsAreDistinct, SessionsTypeOK
<1>11. RowsAreSound'
  <2>1. \A t \in Tokens : ~Issued(t)' <=> tokens'[t] = NotIssued
      BY <1>2, <1>3, <1>5, <1>6, <1>8 DEF RowsAreSound, Issued
  <2>2. \A t \in Tokens : tokens'[t].parent # None => Issued(tokens[t].parent)'
    <3> SUFFICES ASSUME NEW t \in Tokens, tokens'[t].parent # None
                 PROVE  Issued(tokens'[t].parent) \/ tokens'[t].parent = m
      BY <1>5, <1>6, <1>8 DEF Row
    <3> QED
      BY <1>2, <1>3, <1>4, <1>5, <1>6 DEF RowsAreSound, IsLive, Issued
  <2>3. \A b \in Browsers : jar'[b] # None => Issued(jar[b])'
      BY <1>1, <1>2, <1>8 DEF RowsAreSound, SessionsTypeOK
  <2> QED BY <2>1, <2>2, <2>3 DEF RowsAreSound
<1>12. RotationIsAtomic'
  <2>1. \A u \in Tokens : tokens[u].parent # t0
      BY <1>2, <1>3 DEF RotationIsAtomic, IsLive
  <2>2. \A u \in Tokens : tokens[u].parent # m
      BY <1>2, <1>3, <1>5 DEF RowsAreSound, Issued, SessionsTypeOK
  <2>3. \A u \in Tokens : tokens'[u].parent = IF u = m THEN t0 ELSE tokens[u].parent
      BY <1>3, <1>5, <1>6
  <2>4. \A u \in Tokens : tokens'[u].status = "refreshed"
                            <=> u = t0 \/ tokens[u].status = "refreshed"
      BY <1>3, <1>5, <1>6
  <2>5. ASSUME NEW t \in Tokens, NEW u \in Tokens,
               tokens'[t].parent = tokens'[u].parent, tokens'[t].parent # None
        PROVE t = u
      BY <1>2, <1>3, <2>1, <2>3, <2>5 DEF RotationIsAtomic
  <2>6. ASSUME NEW t \in Tokens
        PROVE tokens'[t].status = "refreshed" <=> \E u \in Tokens : tokens'[u].parent = t
    <3>1. CASE t = t0
        BY <1>3, <2>3, <2>4, <3>1
    <3>2. CASE t # t0
      <4>1. \A u \in Tokens : tokens'[u].parent = t <=> tokens[u].parent = t
          BY <1>3, <2>3, <3>2 DEF NotIssued, SessionsTypeOK
      <4>2. tokens[t].status = "refreshed" <=> \E u \in Tokens : tokens[u].parent = t
          BY <1>2 DEF RotationIsAtomic
      <4> QED BY <2>4, <3>2, <4>1, <4>2
    <3> QED BY <3>1, <3>2
  <2> QED BY <2>5, <2>6 DEF RotationIsAtomic
<1>13. ReuseEndsOpenSessions'
  <2> SUFFICES ASSUME NEW q \in Requests, at'[q] = "clear", NEW t \in doomed'[q]
               PROVE ~IsLive(t)'
      BY DEF ReuseEndsOpenSessions
  <2>1. t \in doomed[q] /\ at[q] = "clear" /\ t \in Tokens
      BY <1>1, <1>2 DEF SessionsTypeOK
  <2>2. t # m
      BY <1>2, <1>3, <1>5, <2>1 DEF RequestKnows, Issued
  <2> QED BY <1>2, <1>8, <2>1, <2>2 DEF ReuseEndsOpenSessions
<1> QED BY <1>7, <1>9, <1>10, <1>11, <1>12, <1>13 DEF SessionsInv

(* Tokens that no refresh is spending are revoked: a logout, a sweep.      *)
LEMMA RevokeInv ==
    ASSUME SessionsInv, NEW r \in Requests, NEW ended \in SUBSET Tokens,
           NEW how \in {"loggedout", "swept"},
           at[r] \in {"logout", "sweep"}, at' = [at EXCEPT ![r] = "clear"],
           tokens' = [t \in Tokens |-> IF t \in ended
                                       THEN [tokens[t] EXCEPT !.status = how]
                                       ELSE tokens[t]],
           \A t \in ended : IsLive(t) /\ ~Held(t, r),
           \A t \in doomed[r] : IsLive(t) => t \in ended,
           UNCHANGED <<expired, jar, from, cookie, minted, doomed, disturbed, faults>>
    PROVE  SessionsInv'
<1> USE SessionsAssumption
<1>1. /\ SessionsTypeOK /\ RowsAreSound /\ DrawsAreDistinct /\ OneSpender
      /\ RotationIsAtomic /\ ReuseEndsOpenSessions
      /\ \A q \in Requests : RequestKnows(q)
    BY DEF SessionsInv
<1>2. ASSUME NEW t \in Tokens
      PROVE  /\ tokens'[t] \in Row
             /\ tokens'[t].user = tokens[t].user /\ tokens'[t].parent = tokens[t].parent
             /\ tokens'[t].status = IF t \in ended THEN how ELSE tokens[t].status
             /\ t \notin ended => tokens'[t] = tokens[t]
  <2>1. tokens[t] \in Row
      BY <1>1 DEF SessionsTypeOK
  <2>2. CASE t \in ended
    <3>1. tokens'[t] = [tokens[t] EXCEPT !.status = how]
        BY <2>2
    <3> QED BY <2>1, <2>2, <3>1 DEF Row
  <2>3. CASE t \notin ended
      BY <2>1, <2>3
  <2> QED BY <2>2, <2>3
<1>3. tokens' \in [Tokens -> Row]
    BY <1>2
<1>4. /\ \A t \in Tokens : Issued(t)' <=> Issued(t)
      /\ \A t \in Tokens : IsLive(t)' <=> IsLive(t) /\ t \notin ended
      /\ \A t \in Tokens : tokens'[t].user = tokens[t].user
      /\ \A t \in Tokens : tokens'[t].parent = tokens[t].parent
      /\ \A t \in Tokens : tokens'[t].status = "refreshed" <=> tokens[t].status = "refreshed"
    BY <1>2 DEF Issued, IsLive
<1>5. NotIssued.status = "unissued"
    BY DEF NotIssued
<1>6. \A t \in Tokens : tokens'[t] = NotIssued <=> tokens[t] = NotIssued
    BY <1>1, <1>2, <1>5 DEF IsLive
<1>7. SessionsTypeOK'
    BY <1>1, <1>3, <1>4, <1>6 DEF SessionsTypeOK, Steps
<1>8. ASSUME NEW q \in Requests PROVE RequestKnows(q)'
  <2>1. RequestKnows(q) /\ RequestKnows(r)
      BY <1>1
  <2>2. at[q] = "store" => q # r /\ cookie[q] \notin ended
      BY DEF Held
  <2> QED BY <1>1, <1>4, <2>1, <2>2 DEF RequestKnows, SessionsTypeOK
<1>9. OneSpender' /\ DrawsAreDistinct'
    BY <1>1 DEF OneSpender, DrawsAreDistinct, SessionsTypeOK
<1>10. RowsAreSound'
  <2>1. \A t \in Tokens : tokens[t].parent # None => tokens[t].parent \in Tokens
      BY <1>1 DEF SessionsTypeOK, Row
  <2> QED BY <1>1, <1>4, <1>6, <2>1 DEF RowsAreSound, SessionsTypeOK
<1>11. RotationIsAtomic'
    BY <1>1, <1>4 DEF RotationIsAtomic
<1>12. ReuseEndsOpenSessions'
  <2> SUFFICES ASSUME NEW q \in Requests, at'[q] = "clear", NEW t \in doomed[q]
               PROVE ~IsLive(t)'
      BY DEF ReuseEndsOpenSessions
  <2>1. t \in Tokens /\ (q # r => at[q] = "clear")
      BY <1>1 DEF SessionsTypeOK
  <2> QED BY <1>1, <1>4, <2>1 DEF ReuseEndsOpenSessions
<1> QED BY <1>7, <1>8, <1>9, <1>10, <1>11, <1>12 DEF SessionsInv

LEMMA SweepInv ==
    ASSUME SessionsInv, NEW r \in Requests, SweepFamily(r)
    PROVE  SessionsInv'
<1> DEFINE ended == {t \in doomed[r] : IsLive(t)}
<1>1. SessionsTypeOK
    BY DEF SessionsInv
<1>2. ended \in SUBSET Tokens
    BY <1>1 DEF SessionsTypeOK
<1>3. tokens' = [t \in Tokens |-> IF t \in ended THEN [tokens[t] EXCEPT !.status = "swept"]
                                  ELSE tokens[t]]
    BY DEF SweepFamily
<1>4. /\ at[r] \in {"logout", "sweep"} /\ at' = [at EXCEPT ![r] = "clear"]
      /\ \A t \in ended : IsLive(t) /\ ~Held(t, r)
      /\ \A t \in doomed[r] : IsLive(t) => t \in ended
      /\ UNCHANGED <<expired, jar, from, cookie, minted, doomed, disturbed, faults>>
    BY DEF SweepFamily, Go
<1> HIDE DEF ended
<1> QED BY <1>2, <1>3, <1>4, RevokeInv

LEMMA RevokeOneInv ==
    ASSUME SessionsInv, NEW r \in Requests, RevokeOne(r)
    PROVE  SessionsInv'
<1> DEFINE ended == {t \in {cookie[r]} : IsLive(t)}
<1>1. SessionsTypeOK /\ RequestKnows(r)
    BY DEF SessionsInv
<1>2. /\ at[r] = "logout" /\ at' = [at EXCEPT ![r] = "clear"] /\ ~Held(cookie[r], r)
      /\ tokens' = IF IsLive(cookie[r])
                   THEN [tokens EXCEPT ![cookie[r]].status = "loggedout"] ELSE tokens
      /\ UNCHANGED <<expired, jar, from, cookie, minted, doomed, disturbed, faults>>
    BY DEF RevokeOne, Go, EndToken
<1>3. cookie[r] \in Tokens /\ doomed[r] = {}
    BY <1>1, <1>2 DEF SessionsTypeOK, RequestKnows
<1>4. ended \in SUBSET Tokens /\ \A t \in ended : IsLive(t) /\ ~Held(t, r)
    BY <1>2, <1>3
<1>5. tokens' = [t \in Tokens |-> IF t \in ended
                                  THEN [tokens[t] EXCEPT !.status = "loggedout"]
                                  ELSE tokens[t]]
  <2>1. tokens \in [Tokens -> Row]
      BY <1>1 DEF SessionsTypeOK
  <2>2. CASE IsLive(cookie[r])
      BY <1>2, <1>3, <2>1, <2>2
  <2>3. CASE ~IsLive(cookie[r])
      BY <1>2, <2>1, <2>3
  <2> QED BY <2>2, <2>3
<1> HIDE DEF ended
<1> QED BY <1>2, <1>3, <1>4, <1>5, RevokeInv

(* A request ends, having perhaps set a cookie.                            *)
LEMMA LeaveInv ==
    ASSUME SessionsInv, NEW r \in Requests,
           Grant(r) \/ Clear(r) \/ FailOther(r) \/ LoseAnswer(r)
    PROVE  SessionsInv'
<1> USE SessionsAssumption
<1>1. /\ SessionsTypeOK /\ RowsAreSound /\ DrawsAreDistinct /\ OneSpender
      /\ RotationIsAtomic /\ ReuseEndsOpenSessions
      /\ \A q \in Requests : RequestKnows(q)
    BY DEF SessionsInv
<1>2. /\ at' = [at EXCEPT ![r] = "idle"] /\ from' = [from EXCEPT ![r] = None]
      /\ cookie' = [cookie EXCEPT ![r] = None] /\ minted' = [minted EXCEPT ![r] = None]
      /\ doomed' = [doomed EXCEPT ![r] = {}]
      /\ tokens' = tokens /\ expired' = expired
    BY DEF Grant, Clear, FailOther, LoseAnswer, Leave, Go
<1>3. /\ at[r] # "idle" /\ from[r] \in Browsers /\ OwnerOf[from[r]] \in Users
      /\ at[r] = "grant" => minted[r] \in Tokens /\ Issued(minted[r])
    BY <1>1 DEF Grant, Clear, FailOther, LoseAnswer, RequestKnows, SessionsTypeOK
<1>4. /\ jar' \in [Browsers -> Tokens \cup {None}]
      /\ \A b \in Browsers : jar'[b] # None => Issued(jar'[b])
  <2>1. \/ jar' = jar
        \/ jar' = [jar EXCEPT ![from[r]] = None]
        \/ at[r] = "grant" /\ jar' = [jar EXCEPT ![from[r]] = minted[r]]
      BY DEF Grant, Clear, FailOther, LoseAnswer
  <2> QED BY <1>1, <1>3, <2>1 DEF SessionsTypeOK, RowsAreSound
<1>5. disturbed' \subseteq Users /\ faults' \in 0..MaxFaults
    BY <1>1, <1>3 DEF Grant, Clear, FailOther, LoseAnswer, Fault, SessionsTypeOK
<1>6. SessionsTypeOK'
    BY <1>1, <1>2, <1>4, <1>5 DEF SessionsTypeOK, Steps
<1>7. ASSUME NEW q \in Requests PROVE RequestKnows(q)'
  <2>1. RequestKnows(q)
      BY <1>1
  <2> QED BY <1>1, <1>2, <2>1 DEF RequestKnows, Issued, IsLive, SessionsTypeOK
<1>8. OneSpender' /\ DrawsAreDistinct'
    BY <1>1, <1>2 DEF OneSpender, DrawsAreDistinct, SessionsTypeOK
<1>9. RowsAreSound' /\ RotationIsAtomic'
    BY <1>1, <1>2, <1>4 DEF RowsAreSound, RotationIsAtomic, Issued
<1>10. ReuseEndsOpenSessions'
    BY <1>1, <1>2 DEF ReuseEndsOpenSessions, IsLive, SessionsTypeOK
<1> QED BY <1>6, <1>7, <1>8, <1>9, <1>10 DEF SessionsInv

LEMMA FailRefreshInv ==
    ASSUME SessionsInv, NEW r \in Requests, FailRefresh(r)
    PROVE  SessionsInv'
<1> USE SessionsAssumption
<1>1. /\ SessionsTypeOK /\ RowsAreSound /\ DrawsAreDistinct /\ OneSpender
      /\ RotationIsAtomic /\ ReuseEndsOpenSessions
      /\ \A q \in Requests : RequestKnows(q)
    BY DEF SessionsInv
<1>2. /\ at[r] # "idle" /\ at' = [at EXCEPT ![r] = "clear"]
      /\ doomed' = [doomed EXCEPT ![r] = {}]
      /\ UNCHANGED <<tokens, expired, jar, from, cookie, minted, disturbed>>
      /\ faults < MaxFaults /\ faults' = faults + 1
    BY DEF FailRefresh, Fault, Go
<1>3. SessionsTypeOK'
    BY <1>1, <1>2 DEF SessionsTypeOK, Steps
<1>4. ASSUME NEW q \in Requests PROVE RequestKnows(q)'
  <2>1. RequestKnows(q)
      BY <1>1
  <2> QED BY <1>1, <1>2, <2>1 DEF RequestKnows, Issued, IsLive, SessionsTypeOK
<1>5. OneSpender' /\ DrawsAreDistinct'
    BY <1>1, <1>2 DEF OneSpender, DrawsAreDistinct, SessionsTypeOK
<1>6. RowsAreSound' /\ RotationIsAtomic'
    BY <1>1, <1>2 DEF RowsAreSound, RotationIsAtomic, Issued
<1>7. ReuseEndsOpenSessions'
    BY <1>1, <1>2 DEF ReuseEndsOpenSessions, IsLive, SessionsTypeOK
<1> QED BY <1>3, <1>4, <1>5, <1>6, <1>7 DEF SessionsInv

(* What happens outside every request.                                     *)
LEMMA AroundInv ==
    ASSUME SessionsInv,
           \/ \E b, c \in Browsers : CopyCookie(b, c)
           \/ \E t \in Tokens : Expire(t)
           \/ UNCHANGED sessionsVars
    PROVE  SessionsInv'
<1> USE SessionsAssumption
<1>1. /\ SessionsTypeOK /\ RowsAreSound /\ DrawsAreDistinct /\ OneSpender
      /\ RotationIsAtomic /\ ReuseEndsOpenSessions
      /\ \A q \in Requests : RequestKnows(q)
    BY DEF SessionsInv
<1>2. tokens' = tokens /\ UNCHANGED request
    BY DEF CopyCookie, Expire, Fault, sessionsVars
<1>3. SessionsTypeOK' /\ RowsAreSound'
  <2>1. CASE \E b, c \in Browsers : CopyCookie(b, c)
    <3>1. PICK b \in Browsers, c \in Browsers : CopyCookie(b, c)
        BY <2>1
    <3>2. /\ jar' = [jar EXCEPT ![c] = jar[b]] /\ jar[b] # None
          /\ disturbed' = disturbed \cup {OwnerOf[b], OwnerOf[c]}
          /\ expired' = expired /\ faults' = faults + 1 /\ faults < MaxFaults
        BY <3>1 DEF CopyCookie, Fault
    <3>3. SessionsTypeOK'
        BY <1>1, <1>2, <3>2 DEF SessionsTypeOK, request
    <3>4. RowsAreSound'
        BY <1>1, <1>2, <3>2 DEF RowsAreSound, Issued, SessionsTypeOK
    <3> QED BY <3>3, <3>4
  <2>2. CASE \E t \in Tokens : Expire(t)
      BY <1>1, <1>2, <2>2 DEF Expire, Fault, SessionsTypeOK, RowsAreSound, Issued, request
  <2>3. CASE UNCHANGED sessionsVars
      BY <1>1, <1>2, <2>3 DEF sessionsVars, SessionsTypeOK, RowsAreSound, Issued, request
  <2> QED BY <2>1, <2>2, <2>3
<1>4. ASSUME NEW q \in Requests PROVE RequestKnows(q)'
  <2>1. RequestKnows(q)
      BY <1>1
  <2> QED BY <1>2, <2>1 DEF RequestKnows, Issued, IsLive, request
<1>5. DrawsAreDistinct' /\ OneSpender' /\ RotationIsAtomic' /\ ReuseEndsOpenSessions'
    BY <1>1, <1>2
    DEF DrawsAreDistinct, OneSpender, RotationIsAtomic, ReuseEndsOpenSessions, IsLive, request
<1> QED BY <1>3, <1>4, <1>5 DEF SessionsInv

LEMMA NextInv == SessionsInv /\ [SessionsNext]_sessionsVars => SessionsInv'
<1> SUFFICES ASSUME SessionsInv, [SessionsNext]_sessionsVars PROVE SessionsInv'
    OBVIOUS
<1>1. CASE \E r \in Requests : RequestStep(r)
  <2>1. PICK r \in Requests : RequestStep(r)
      BY <1>1
  <2>2. CASE \E b \in Browsers : Login(r, b) \/ Refresh(r, b) \/ Logout(r, b)
      BY <2>2, BeginInv
  <2>3. CASE Consume(r) \/ SelectFamily(r)
      BY <2>3, MoveInv
  <2>4. CASE IssueSession(r)
      BY <2>4, IssueInv
  <2>5. CASE CommitRotation(r)
      BY <2>5, RotateInv
  <2>6. CASE SweepFamily(r)
      BY <2>6, SweepInv
  <2>7. CASE RevokeOne(r)
      BY <2>7, RevokeOneInv
  <2>8. CASE Grant(r) \/ Clear(r) \/ FailOther(r) \/ LoseAnswer(r)
      BY <2>8, LeaveInv
  <2>9. CASE FailRefresh(r)
      BY <2>9, FailRefreshInv
  <2> QED BY <2>1, <2>2, <2>3, <2>4, <2>5, <2>6, <2>7, <2>8, <2>9 DEF RequestStep
<1>2. CASE \E b, c \in Browsers : CopyCookie(b, c)
    BY <1>2, AroundInv
<1>3. CASE \E t \in Tokens : Expire(t)
    BY <1>3, AroundInv
<1>4. CASE OutOfTokens \/ UNCHANGED sessionsVars
    BY <1>4, AroundInv DEF OutOfTokens
<1> QED BY <1>1, <1>2, <1>3, <1>4 DEF SessionsNext

(* The inductive invariant of Sessions: a token that a refresh has         *)
(* consumed and not replaced stays live and its own.                       *)
THEOREM SessionsInvariance == SessionsSpec => []SessionsInv
BY InitInv, NextInv, PTL DEF SessionsSpec

(* One refresh token never buys two, and none is spent without its         *)
(* successor: refreshes, logouts and sweeps in any order, with failures.   *)
THEOREM SpendsOnce == SessionsSpec => []RotationIsAtomic
<1>1. SessionsInv => RotationIsAtomic
    BY DEF SessionsInv
<1> QED BY <1>1, SessionsInvariance, PTL

(* Once a reuse has been answered, no session that RevokeAllForUser saw    *)
(* open is open, whatever refreshes were at work on them.                  *)
THEOREM ReuseIsAnswered == SessionsSpec => []ReuseEndsOpenSessions
<1>1. SessionsInv => ReuseEndsOpenSessions
    BY DEF SessionsInv
<1> QED BY <1>1, SessionsInvariance, PTL

LEMMA StepEndsOwn ==
    ASSUME SessionsInv, [SessionsNext]_sessionsVars
    PROVE  EndsOwn
<1>1. /\ SessionsTypeOK /\ RowsAreSound /\ \A q \in Requests : RequestKnows(q)
    BY DEF SessionsInv
<1> SUFFICES ASSUME NEW t \in Tokens, tokens'[t] # tokens[t]
             PROVE  \/ tokens[t] = NotIssued
                    \/ /\ IsLive(t)
                       /\ \E r \in Requests : /\ at[r] # at'[r] /\ cookie[r] # None
                                              /\ tokens[cookie[r]].user = tokens[t].user
    BY DEF EndsOwn
<1>2. PICK r \in Requests : IssueSession(r) \/ CommitRotation(r) \/ SweepFamily(r) \/ RevokeOne(r)
    BY DEF SessionsNext, RequestStep, sessionsVars, Login, Refresh, Logout, Begin, Consume,
           SelectFamily, Grant, Clear, FailRefresh, FailOther, LoseAnswer, CopyCookie,
           Expire, OutOfTokens
<1>3. RequestKnows(r) /\ at[r] \in Steps /\ cookie[r] \in Tokens \cup {None}
      /\ minted[r] \in Tokens \cup {None} /\ at \in [Requests -> Steps]
      /\ tokens \in [Tokens -> Row] /\ None \notin Tokens
    BY <1>1, SessionsAssumption DEF SessionsTypeOK
<1>4. CASE IssueSession(r)
  <2>1. t = minted[r] /\ ~Issued(minted[r])
      BY <1>3, <1>4 DEF IssueSession, RequestKnows
  <2> QED BY <1>1, <2>1 DEF RowsAreSound
<1>5. CASE CommitRotation(r)
  <2>1. /\ at[r] = "store" /\ at'[r] = "grant" /\ IsLive(cookie[r])
        /\ cookie[r] \in Tokens /\ minted[r] \in Tokens /\ ~Issued(minted[r])
      BY <1>3, <1>5 DEF CommitRotation, RequestKnows, Go
  <2>2. t = minted[r] \/ t = cookie[r]
      BY <1>3, <1>5, <2>1 DEF CommitRotation, EndToken
  <2> QED BY <1>1, <1>3, <2>1, <2>2 DEF RowsAreSound
<1>6. CASE SweepFamily(r)
  <2>1. /\ at[r] = "sweep" /\ at'[r] = "clear" /\ t \in doomed[r] /\ IsLive(t)
      BY <1>3, <1>6 DEF SweepFamily, Go
  <2> QED BY <1>3, <2>1 DEF RequestKnows
<1>7. CASE RevokeOne(r)
  <2>1. /\ at[r] = "logout" /\ at'[r] = "clear" /\ IsLive(t) /\ t = cookie[r]
      BY <1>3, <1>7 DEF RevokeOne, EndToken, Go
  <2> QED BY <1>3, <2>1
<1> QED BY <1>2, <1>4, <1>5, <1>6, <1>7

(* A session ends only through a token of its own user, and no revoked     *)
(* token is ever good again.                                               *)
THEOREM SessionsEndOwn == SessionsSpec => EndsAreOwnAndFinal
<1>1. SessionsInv /\ [SessionsNext]_sessionsVars => [EndsOwn]_sessionsVars
    BY StepEndsOwn
<1> QED BY <1>1, SessionsInvariance, PTL DEF SessionsSpec, EndsAreOwnAndFinal

-----------------------------------------------------------------------------
(* No false alarms.                                                        *)

(* What SessionsInv says of one request and of one cookie jar.             *)
LEMMA Knows ==
    ASSUME SessionsInv
    PROVE  /\ at \in [Requests -> Steps] /\ None \notin Tokens /\ None \notin Browsers
           /\ disturbed \subseteq Users /\ \A b \in Browsers : OwnerOf[b] \in Users
           /\ \A r \in Requests :
                 /\ cookie[r] \in Tokens \cup {None} /\ minted[r] \in Tokens \cup {None}
                 /\ from[r] \in Browsers \cup {None}
                 /\ at[r] = "idle" <=> from[r] = None
                 /\ at[r] = "idle" => cookie[r] = None /\ minted[r] = None
                 /\ cookie[r] # None => from[r] \in Browsers /\ Issued(cookie[r])
                 /\ at[r] = "grant" => minted[r] # None /\ Issued(minted[r])
           /\ \A b \in Browsers : /\ jar[b] \in Tokens \cup {None}
                                  /\ jar[b] # None => Issued(jar[b])
BY SessionsAssumption DEF SessionsInv, SessionsTypeOK, RequestKnows, RowsAreSound

LEMMA QuietStart == SessionsInit => QuietInv
BY DEF SessionsInit, QuietInv, NoFalseAlarm, ServedOneByOne, JarIsQuiet, RequestIsQuiet

(* A step of a request that has begun and does not end.  The tokens it     *)
(* ends are the one it has presented, about to be replaced or cleared, or  *)
(* those of a family whose user has been disturbed.                        *)
LEMMA WorkQuiet ==
    ASSUME SessionsInv, QuietInv, NEW r \in Requests, NEW s \in Steps,
           at' = [at EXCEPT ![r] = s], at[r] \notin {"idle", "clear"},
           UNCHANGED <<jar, from, cookie, minted, disturbed>>,
           at[r] = "grant" => s = "clear",
           s \in {"select", "sweep"} => Disturbed(from[r]),
           s = "grant" => Belongs(minted[r], from[r])' /\ IsLive(minted[r])',
           \A t \in Tokens : Issued(t) => tokens'[t].user = tokens[t].user,
           \A t \in Tokens : IsLive(t) /\ ~IsLive(t)' =>
              \/ t = cookie[r] /\ s \in {"grant", "clear"}
              \/ at[r] = "sweep" /\ cookie[r] # None /\ tokens[t].user = tokens[cookie[r]].user
    PROVE  QuietInv'
<1>1. /\ NoFalseAlarm /\ ServedOneByOne
      /\ \A b \in Browsers : JarIsQuiet(b)
      /\ \A q \in Requests : RequestIsQuiet(q)
    BY DEF QuietInv
<1>2. /\ at'[r] = s /\ \A q \in Requests \ {r} : at'[q] = at[q]
      /\ from[r] \in Browsers
    BY Knows
<1>3. ASSUME NEW t \in Tokens, NEW b \in Browsers, Issued(t)
      PROVE  Belongs(t, b)' <=> Belongs(t, b)
    BY <1>3 DEF Belongs, Disturbed
<1>4. ASSUME at[r] = "sweep", NEW t \in Tokens, NEW b \in Browsers,
             cookie[r] # None, tokens[t].user = tokens[cookie[r]].user, Belongs(t, b)
      PROVE  Disturbed(b)
    <2>1. Belongs(cookie[r], from[r]) /\ Disturbed(from[r])
        BY <1>1, <1>4 DEF RequestIsQuiet, NoFalseAlarm, Disturbed
    <2> QED BY <1>4, <2>1 DEF Belongs, Disturbed
<1>5. NoFalseAlarm'
    BY <1>1, <1>2 DEF NoFalseAlarm, Disturbed
<1>6. ServedOneByOne'
    BY <1>1 DEF ServedOneByOne, Disturbed
<1>7. ASSUME NEW b \in Browsers PROVE JarIsQuiet(b)'
    <2> SUFFICES ASSUME jar[b] # None PROVE JarIsQuiet(b)'
        BY DEF JarIsQuiet
    <2>1. PICK t \in Tokens : t = jar[b] /\ Issued(t) /\ tokens'[t].user = tokens[t].user
        BY Knows
    <2>2. /\ Belongs(t, b)
          /\ \A c \in Browsers \ {b} : jar[c] = t => tokens[t].user \in disturbed
          /\ \/ Disturbed(b) \/ IsLive(t)
             \/ \E q \in Requests : from[q] = b /\ cookie[q] = t /\ at[q] \in {"grant", "clear"}
        BY <1>1, <2>1 DEF JarIsQuiet
    <2>3. \/ Disturbed(b) \/ IsLive(t)'
          \/ \E q \in Requests : from[q] = b /\ cookie[q] = t /\ at'[q] \in {"grant", "clear"}
        <3>1. CASE Disturbed(b)
            BY <3>1
        <3>2. CASE /\ IsLive(t) /\ ~IsLive(t)' /\ ~Disturbed(b)
                   /\ t = cookie[r] /\ s \in {"grant", "clear"}
            <4>1. Belongs(t, from[r]) /\ (Disturbed(from[r]) \/ jar[from[r]] = t)
                BY <1>1, <2>1, <3>2, Knows DEF RequestIsQuiet
            <4>2. tokens[t].user = OwnerOf[b] /\ tokens[t].user \notin disturbed
                BY <2>2, <3>2 DEF Belongs, Disturbed
            <4>3. jar[from[r]] = t
                BY <4>1, <4>2 DEF Belongs, Disturbed
            <4>4. from[r] = b
                BY <1>2, <2>2, <4>2, <4>3
            <4> QED BY <1>2, <3>2, <4>4
        <3>3. CASE /\ IsLive(t) /\ ~IsLive(t)' /\ ~Disturbed(b)
                   /\ at[r] = "sweep" /\ cookie[r] # None
                   /\ tokens[t].user = tokens[cookie[r]].user
            BY <1>4, <2>1, <2>2, <3>3
        <3>4. CASE \E q \in Requests : from[q] = b /\ cookie[q] = t /\ at[q] \in {"grant", "clear"}
            BY <1>2, <3>4
        <3> QED BY <2>1, <2>2, <3>1, <3>2, <3>3, <3>4
    <2>4. Belongs(t, b)' <=> Belongs(t, b)
        BY <1>3, <2>1
    <2> QED BY <2>1, <2>2, <2>3, <2>4 DEF JarIsQuiet, Disturbed
<1>8. ASSUME NEW q \in Requests PROVE RequestIsQuiet(q)'
    <2>1. RequestIsQuiet(q)
        BY <1>1
    <2>2. cookie[q] # None => (Belongs(cookie[q], from[q])' <=> Belongs(cookie[q], from[q]))
        BY <1>3, Knows
    <2>3. at[q] = "grant" /\ q # r =>
             /\ Belongs(minted[q], from[q])'
             /\ Disturbed(from[q]) \/ IsLive(minted[q])'
        <3> SUFFICES ASSUME at[q] = "grant", q # r
                     PROVE  /\ Belongs(minted[q], from[q])'
                            /\ Disturbed(from[q]) \/ IsLive(minted[q])'
            OBVIOUS
        <3>1. minted[q] \in Tokens /\ Issued(minted[q]) /\ from[q] \in Browsers
            BY Knows
        <3>2. /\ Belongs(minted[q], from[q]) /\ minted[q] # cookie[r]
              /\ Disturbed(from[q]) \/ IsLive(minted[q])
            BY <2>1, <3>1, Knows DEF RequestIsQuiet
        <3> QED BY <1>3, <1>4, <3>1, <3>2
    <2> QED BY <1>2, <2>1, <2>2, <2>3 DEF RequestIsQuiet, Disturbed
<1> QED BY <1>5, <1>6, <1>7, <1>8 DEF QuietInv

LEMMA BeginQuiet ==
    ASSUME SessionsInv, QuietInv, NEW r \in Requests, NEW b \in Browsers,
           Login(r, b) \/ Refresh(r, b) \/ Logout(r, b)
    PROVE  QuietInv'
<1>1. /\ NoFalseAlarm /\ ServedOneByOne
      /\ \A c \in Browsers : JarIsQuiet(c)
      /\ \A q \in Requests : RequestIsQuiet(q)
      /\ from \in [Requests -> Browsers \cup {None}] /\ cookie \in [Requests -> Tokens \cup {None}]
      /\ minted \in [Requests -> Tokens \cup {None}]
    BY DEF QuietInv, SessionsInv, SessionsTypeOK
<1>2. PICK first \in {"issue", "consume", "logout"}, draws \in BOOLEAN, presented \in {None, jar[b]} :
         Begin(r, b, first, draws, presented)
    BY DEF Login, Refresh, Logout
<1>3. /\ at[r] = "idle" /\ at' = [at EXCEPT ![r] = first]
      /\ from' = [from EXCEPT ![r] = b] /\ cookie' = [cookie EXCEPT ![r] = presented]
      /\ UNCHANGED <<tokens, jar>>
      /\ disturbed \subseteq disturbed'
      /\ (\E q \in Requests : from[q] = b) => OwnerOf[b] \in disturbed'
    BY <1>2 DEF Begin, Go
<1>4. PICK m \in Tokens \cup {None} :
        /\ minted' = [minted EXCEPT ![r] = m]
        /\ m # None => /\ ~Issued(m)
                       /\ \A q \in Requests : minted[q] # m
    BY <1>2 DEF Begin, Undrawn, Issued
<1>5. /\ at'[r] = first /\ from'[r] = b /\ cookie'[r] = presented /\ minted'[r] = m
      /\ \A q \in Requests \ {r} : /\ at'[q] = at[q] /\ from'[q] = from[q]
                                   /\ cookie'[q] = cookie[q] /\ minted'[q] = minted[q]
    BY <1>1, <1>3, <1>4, Knows
<1>6. NoFalseAlarm'
    BY <1>1, <1>3, <1>5 DEF NoFalseAlarm
<1>7. ServedOneByOne'
    BY <1>1, <1>3, <1>5 DEF ServedOneByOne, Disturbed
<1>8. ASSUME NEW c \in Browsers PROVE JarIsQuiet(c)'
    <2>1. JarIsQuiet(c)
        BY <1>1
    <2> QED BY <1>3, <1>5, <2>1 DEF JarIsQuiet, Belongs, Disturbed, IsLive
<1>9. ASSUME NEW q \in Requests PROVE RequestIsQuiet(q)'
    <2>1. CASE q = r
        <3>1. presented # None => Belongs(presented, b)
            BY <1>1 DEF JarIsQuiet
        <3>2. m # None => /\ \A c \in Browsers : jar[c] # m
                          /\ \A p \in Requests : cookie'[p] # m
            BY <1>4, <1>5, Knows
        <3> QED BY <1>3, <1>5, <2>1, <3>1, <3>2 DEF RequestIsQuiet, Belongs, Disturbed
    <2>2. CASE q # r
        <3>1. RequestIsQuiet(q)
            BY <1>1
        <3>2. minted[q] # None => \A p \in Requests : cookie'[p] # minted[q]
            BY <1>5, <3>1 DEF RequestIsQuiet
        <3> QED BY <1>3, <1>5, <2>2, <3>1, <3>2 DEF RequestIsQuiet, Belongs, Disturbed, IsLive
    <2> QED BY <2>1, <2>2
<1> QED BY <1>6, <1>7, <1>8, <1>9 DEF QuietInv

(* A request ends.  Its browser has another token or none, or has been     *)
(* disturbed, or the request did nothing to the token it presented.        *)
LEMMA LeaveQuiet ==
    ASSUME SessionsInv, QuietInv, NEW r \in Requests,
           Grant(r) \/ Clear(r) \/ FailOther(r) \/ LoseAnswer(r)
    PROVE  QuietInv'
<1>1. /\ NoFalseAlarm /\ ServedOneByOne /\ DrawsAreDistinct
      /\ \A c \in Browsers : JarIsQuiet(c)
      /\ \A q \in Requests : RequestIsQuiet(q)
      /\ from \in [Requests -> Browsers \cup {None}] /\ cookie \in [Requests -> Tokens \cup {None}]
      /\ minted \in [Requests -> Tokens \cup {None}] /\ jar \in [Browsers -> Tokens \cup {None}]
    BY DEF QuietInv, SessionsInv, SessionsTypeOK
<1>2. PICK f \in Browsers, m \in Tokens \cup {None} : f = from[r] /\ m = minted[r]
    BY Knows DEF Grant, Clear, FailOther, LoseAnswer
<1>3. /\ at' = [at EXCEPT ![r] = "idle"] /\ from' = [from EXCEPT ![r] = None]
      /\ cookie' = [cookie EXCEPT ![r] = None] /\ minted' = [minted EXCEPT ![r] = None]
      /\ tokens' = tokens /\ disturbed \subseteq disturbed'
    BY DEF Grant, Clear, FailOther, LoseAnswer, Leave, Go
<1>4. /\ at'[r] = "idle" /\ from'[r] = None /\ cookie'[r] = None /\ minted'[r] = None
      /\ \A q \in Requests \ {r} : /\ at'[q] = at[q] /\ from'[q] = from[q]
                                   /\ cookie'[q] = cookie[q] /\ minted'[q] = minted[q]
    BY <1>1, <1>3, Knows
<1>5. \/ at[r] = "grant" /\ jar' = [jar EXCEPT ![f] = m]
      \/ jar' = [jar EXCEPT ![f] = None]
      \/ at[r] \notin {"grant", "clear"} /\ jar' = jar
      \/ OwnerOf[f] \in disturbed' /\ jar' = jar
    BY <1>2 DEF Grant, Clear, FailOther, LoseAnswer
<1>6. NoFalseAlarm' /\ ServedOneByOne'
    BY <1>1, <1>3, <1>4 DEF NoFalseAlarm, ServedOneByOne, Disturbed
<1>7. /\ \A c \in Browsers \ {f} : jar'[c] = jar[c]
      /\ jar'[f] \in {None, jar[f]} \/ (at[r] = "grant" /\ jar'[f] = m /\ m # None)
    BY <1>1, <1>2, <1>5, Knows
<1>8. ASSUME NEW c \in Browsers PROVE JarIsQuiet(c)'
    <2>1. JarIsQuiet(c) /\ RequestIsQuiet(r)
        BY <1>1
    <2>2. CASE c = f /\ at[r] = "grant" /\ jar'[f] = m /\ m # None
        BY <1>2, <1>3, <1>7, <2>1, <2>2 DEF JarIsQuiet, RequestIsQuiet, Belongs, Disturbed, IsLive
    <2>3. CASE c = f /\ jar'[f] = None
        BY <2>3 DEF JarIsQuiet
    <2>4. CASE c = f /\ jar'[f] = jar[f] /\ jar[f] # None
        BY <1>1, <1>2, <1>3, <1>4, <1>5, <1>7, <2>1, <2>4
           DEF JarIsQuiet, RequestIsQuiet, Belongs, Disturbed, IsLive
    <2>5. CASE c # f
        BY <1>2, <1>3, <1>4, <1>7, <2>1, <2>5
           DEF JarIsQuiet, RequestIsQuiet, Belongs, Disturbed, IsLive
    <2> QED BY <1>7, <2>2, <2>3, <2>4, <2>5
<1>9. ASSUME NEW q \in Requests PROVE RequestIsQuiet(q)'
    <2>1. CASE q = r
        BY <1>4, <2>1 DEF RequestIsQuiet
    <2>2. CASE q # r
        <3>1. RequestIsQuiet(q)
            BY <1>1
        <3>2. cookie[q] # None => Disturbed(from[q])' \/ jar'[from[q]] = cookie[q]
            BY <1>1, <1>2, <1>3, <1>4, <1>7, <2>2, <3>1, Knows
               DEF RequestIsQuiet, ServedOneByOne, Disturbed
        <3>3. minted[q] # None => /\ \A c \in Browsers : jar'[c] # minted[q]
                                  /\ \A p \in Requests : cookie'[p] # minted[q]
            BY <1>1, <1>2, <1>4, <1>7, <2>2, <3>1 DEF RequestIsQuiet, DrawsAreDistinct
        <3> QED BY <1>3, <1>4, <2>2, <3>1, <3>2, <3>3
                DEF RequestIsQuiet, Belongs, Disturbed, IsLive
    <2> QED BY <2>1, <2>2
<1> QED BY <1>6, <1>8, <1>9 DEF QuietInv

LEMMA CopyQuiet ==
    ASSUME SessionsInv, QuietInv, NEW b \in Browsers, NEW c \in Browsers, CopyCookie(b, c)
    PROVE  QuietInv'
<1>1. /\ NoFalseAlarm /\ ServedOneByOne
      /\ \A d \in Browsers : JarIsQuiet(d)
      /\ \A q \in Requests : RequestIsQuiet(q)
      /\ jar \in [Browsers -> Tokens \cup {None}]
    BY DEF QuietInv, SessionsInv, SessionsTypeOK
<1>2. /\ b # c /\ jar[b] # None /\ disturbed' = disturbed \cup {OwnerOf[b], OwnerOf[c]}
      /\ UNCHANGED <<tokens, at, from, cookie, minted>>
    BY DEF CopyCookie, request
<1>3. jar'[c] = jar[b] /\ \A d \in Browsers \ {c} : jar'[d] = jar[d]
    BY <1>1 DEF CopyCookie
<1>4. NoFalseAlarm' /\ ServedOneByOne'
    BY <1>1, <1>2 DEF NoFalseAlarm, ServedOneByOne, Disturbed
<1>5. tokens[jar[b]].user \in disturbed'
    BY <1>1, <1>2 DEF JarIsQuiet, Belongs
<1>6. ASSUME NEW d \in Browsers PROVE JarIsQuiet(d)'
    <2>1. JarIsQuiet(d)
        BY <1>1
    <2>2. CASE d = c
        BY <1>2, <1>3, <1>5, <2>2 DEF JarIsQuiet, Belongs, Disturbed
    <2>3. CASE d # c
        BY <1>2, <1>3, <1>5, <2>1, <2>3 DEF JarIsQuiet, Belongs, Disturbed, IsLive
    <2> QED BY <2>2, <2>3
<1>7. ASSUME NEW q \in Requests PROVE RequestIsQuiet(q)'
    <2>1. RequestIsQuiet(q)
        BY <1>1
    <2> QED BY <1>2, <1>3, <2>1, Knows DEF RequestIsQuiet, Belongs, Disturbed, IsLive
<1> QED BY <1>4, <1>6, <1>7 DEF QuietInv

LEMMA WorkStep ==
    ASSUME SessionsInv, QuietInv, NEW r \in Requests,
           \/ IssueSession(r) \/ Consume(r) \/ CommitRotation(r) \/ SelectFamily(r)
           \/ SweepFamily(r) \/ RevokeOne(r) \/ FailRefresh(r)
    PROVE  QuietInv'
<1>1. /\ RequestKnows(r) /\ RowsAreSound /\ tokens \in [Tokens -> Row]
      /\ NoFalseAlarm /\ RequestIsQuiet(r)
      /\ \A b \in Browsers : JarIsQuiet(b)
      /\ at[r] \in Steps
    BY DEF SessionsInv, SessionsTypeOK, QuietInv
<1>2. UNCHANGED <<jar, from, cookie, minted, disturbed>>
    BY DEF IssueSession, Consume, CommitRotation, SelectFamily, SweepFamily, RevokeOne, FailRefresh
<1>3. CASE Consume(r)
    <2>1. PICK s \in {"select", "clear", "store"} :
             /\ at[r] = "consume" /\ at' = [at EXCEPT ![r] = s] /\ tokens' = tokens
             /\ s = "select" => ~IsLive(cookie[r])
        BY <1>3 DEF Consume, Go
    <2>2. s = "select" => Disturbed(from[r])
        <3> SUFFICES ASSUME s = "select", ~Disturbed(from[r]) PROVE FALSE
            OBVIOUS
        <3>1. PICK b \in Browsers : b = from[r] /\ cookie[r] # None
            BY <1>1, <2>1, Knows DEF RequestKnows
        <3>2. jar[b] = cookie[r] /\ ~IsLive(jar[b])
            BY <1>1, <2>1, <3>1 DEF RequestIsQuiet
        <3>3. PICK q \in Requests : from[q] = b /\ at[q] \in {"grant", "clear"}
            BY <1>1, <3>1, <3>2 DEF JarIsQuiet
        <3> QED BY <2>1, <3>1, <3>3, Knows DEF QuietInv, ServedOneByOne
    <2>3. s \in Steps
        BY DEF Steps
    <2> QED BY <1>2, <2>1, <2>2, <2>3, WorkQuiet DEF IsLive
<1>4. CASE SelectFamily(r)
    <2>1. at[r] = "select" /\ at' = [at EXCEPT ![r] = "sweep"] /\ tokens' = tokens
        BY <1>4 DEF SelectFamily, Go
    <2>2. Disturbed(from[r]) /\ "sweep" \in Steps
        BY <1>1, <2>1 DEF NoFalseAlarm, Disturbed, Steps
    <2> QED BY <1>2, <2>1, <2>2, WorkQuiet DEF IsLive
<1>5. CASE FailRefresh(r)
    <2>1. /\ at[r] \notin {"idle", "clear"} /\ at' = [at EXCEPT ![r] = "clear"]
          /\ tokens' = tokens /\ "clear" \in Steps
        BY <1>5 DEF FailRefresh, Go, Steps
    <2> QED BY <1>2, <2>1, WorkQuiet DEF IsLive
<1>6. CASE IssueSession(r)
    <2>1. /\ at[r] = "issue" /\ at' = [at EXCEPT ![r] = "grant"]
          /\ tokens' = [tokens EXCEPT ![minted[r]] =
                          [status |-> "live", user |-> OwnerOf[from[r]], parent |-> None]]
          /\ "grant" \in Steps
        BY <1>6 DEF IssueSession, Go, Steps
    <2>2. minted[r] \in Tokens /\ ~Issued(minted[r])
        BY <1>1, <2>1, Knows DEF RequestKnows
    <2>3. Belongs(minted[r], from[r])' /\ IsLive(minted[r])'
        BY <1>1, <1>2, <2>1, <2>2 DEF Belongs, IsLive
    <2>4. ASSUME NEW t \in Tokens, Issued(t)
          PROVE  tokens'[t] = tokens[t]
        BY <1>1, <2>1, <2>2, <2>4
    <2>5. \A t \in Tokens : IsLive(t) => Issued(t)
        BY DEF IsLive, Issued
    <2> QED BY <1>2, <2>1, <2>3, <2>4, <2>5, WorkQuiet DEF IsLive
<1>7. CASE CommitRotation(r)
    <2>1. PICK t \in Tokens, m \in Tokens :
             /\ t = cookie[r] /\ m = minted[r] /\ ~Issued(m) /\ IsLive(t)
             /\ at[r] = "store"
        BY <1>1, <1>7, Knows DEF CommitRotation, RequestKnows
    <2>2. /\ at' = [at EXCEPT ![r] = "grant"] /\ "grant" \in Steps
          /\ tokens' = [[tokens EXCEPT ![t].status = "refreshed"] EXCEPT ![m] =
                          [status |-> "live", user |-> tokens[t].user, parent |-> t]]
        BY <1>7, <2>1 DEF CommitRotation, EndToken, Go, Steps
    <2>3. t # m
        BY <2>1 DEF IsLive, Issued
    <2>4. /\ tokens'[m].status = "live" /\ tokens'[m].user = tokens[t].user
          /\ tokens'[t].user = tokens[t].user
          /\ \A u \in Tokens \ {t, m} : tokens'[u] = tokens[u]
        BY <1>1, <2>2, <2>3 DEF Row
    <2>5. Belongs(minted[r], from[r])' /\ IsLive(minted[r])'
        <3>1. Belongs(t, from[r])
            BY <1>1, <2>1, Knows DEF RequestIsQuiet
        <3> QED BY <1>2, <2>1, <2>4, <3>1 DEF Belongs, IsLive, Disturbed
    <2>6. /\ \A u \in Tokens : Issued(u) => tokens'[u].user = tokens[u].user
          /\ \A u \in Tokens : IsLive(u) /\ ~IsLive(u)' => u = cookie[r]
        BY <2>1, <2>4 DEF IsLive, Issued
    <2> QED BY <1>2, <2>1, <2>2, <2>5, <2>6, WorkQuiet
<1>8. CASE SweepFamily(r)
    <2>1. /\ at[r] = "sweep" /\ at' = [at EXCEPT ![r] = "clear"] /\ "clear" \in Steps
          /\ tokens' = [t \in Tokens |-> IF t \in doomed[r] /\ IsLive(t)
                                         THEN [tokens[t] EXCEPT !.status = "swept"]
                                         ELSE tokens[t]]
        BY <1>8 DEF SweepFamily, Go, Steps
    <2>2. /\ cookie[r] # None
          /\ \A t \in doomed[r] : tokens[t].user = tokens[cookie[r]].user
        BY <1>1, <2>1 DEF RequestKnows
    <2>3. ASSUME NEW t \in Tokens
          PROVE  /\ tokens'[t].user = tokens[t].user
                 /\ IsLive(t) /\ ~IsLive(t)' => t \in doomed[r]
        <3>1. tokens[t] \in Row
            BY <1>1
        <3>2. CASE t \in doomed[r] /\ IsLive(t)
            BY <2>1, <3>1, <3>2 DEF Row
        <3>3. CASE ~(t \in doomed[r] /\ IsLive(t))
            BY <2>1, <3>3 DEF IsLive
        <3> QED BY <3>2, <3>3
    <2> QED BY <1>2, <2>1, <2>2, <2>3, WorkQuiet
<1>9. CASE RevokeOne(r)
    <2>1. /\ at[r] = "logout" /\ at' = [at EXCEPT ![r] = "clear"] /\ "clear" \in Steps
          /\ \/ tokens' = [tokens EXCEPT ![cookie[r]].status = "loggedout"]
             \/ tokens' = tokens
        BY <1>9 DEF RevokeOne, EndToken, Go, Steps
    <2>2. cookie[r] \in Tokens
        BY <1>1, <2>1, Knows DEF RequestKnows
    <2>3. ASSUME NEW t \in Tokens
          PROVE  /\ tokens'[t].user = tokens[t].user
                 /\ IsLive(t) /\ ~IsLive(t)' => t = cookie[r]
        <3>1. tokens[t] \in Row
            BY <1>1
        <3>2. CASE t = cookie[r]
            BY <1>1, <2>1, <2>2, <3>1, <3>2 DEF Row
        <3>3. CASE t # cookie[r]
            BY <1>1, <2>1, <2>2, <3>3 DEF IsLive
        <3> QED BY <3>2, <3>3
    <2> QED BY <1>2, <2>1, <2>3, WorkQuiet
<1> QED BY <1>3, <1>4, <1>5, <1>6, <1>7, <1>8, <1>9

LEMMA QuietStep ==
    ASSUME SessionsInv, QuietInv, [SessionsNext]_sessionsVars
    PROVE  QuietInv'
<1>1. CASE UNCHANGED <<tokens, jar, at, from, cookie, minted, disturbed>>
    BY <1>1 DEF QuietInv, NoFalseAlarm, ServedOneByOne, JarIsQuiet, RequestIsQuiet, Belongs,
       Disturbed, IsLive
<1>2. ASSUME NEW r \in Requests, RequestStep(r)
      PROVE  QuietInv'
    BY <1>2, BeginQuiet, WorkStep, LeaveQuiet DEF RequestStep
<1> QED BY <1>1, <1>2, CopyQuiet DEF SessionsNext, Expire, OutOfTokens, sessionsVars, request

(* Why reuse detection raises no false alarm: a browser that is served one *)
(* request at a time always presents a token that is live, and that nobody *)
(* else has.                                                               *)
THEOREM QuietInvariance == SessionsSpec => []QuietInv
<1>1. SessionsInv /\ QuietInv /\ [SessionsNext]_sessionsVars => QuietInv'
    BY QuietStep
<1> QED BY <1>1, QuietStart, SessionsInvariance, PTL DEF SessionsSpec

(* Whoever has a session closed for reuse had its requests overlap, an     *)
(* answer lost or a cookie copied.                                         *)
THEOREM AlarmsAreEarned == SessionsSpec => []NoFalseAlarm
<1>1. QuietInv => NoFalseAlarm
    BY DEF QuietInv
<1> QED BY <1>1, QuietInvariance, PTL
=============================================================================
