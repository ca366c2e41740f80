------------------------------- MODULE Sessions -----------------------------
(***************************************************************************)
(* Refresh tokens: login issues one, every refresh spends one and issues   *)
(* the next, a logout revokes one, and a token presented after it was      *)
(* revoked revokes every token of its user (the auth package).             *)
(*                                                                         *)
(* A request is a goroutine of any API replica, on behalf of one browser;  *)
(* two tabs of a browser are two requests that share its cookie jar.       *)
(***************************************************************************)
EXTENDS Naturals, FiniteSets

CONSTANTS
    Users,
    Browsers,
    OwnerOf,         \* whose account a browser logs in to
    Tokens,          \* the random tokens the server can draw
    Requests,        \* requests in progress at once
    MaxFaults,       \* failed statements, lost answers, copies and expiries
    None             \* no token, no browser

VARIABLES
    tokens,          \* refresh_tokens, with what ended each and what it replaced
    expired,         \* tokens past expires_at
    jar,             \* the refresh cookie of each browser
    at,              \* what each request does next
    from,            \* the browser it came from
    cookie,          \* the token it presented
    minted,          \* the token it will issue, if it comes to that
    doomed,          \* the rows its RevokeAllForUser has found
    disturbed,       \* users whose browsers were not served one by one
    faults

request == <<at, from, cookie, minted, doomed>>
sessionsVars == <<tokens, expired, jar, request, disturbed, faults>>

(* revoked_at is NULL in "live" rows; the other three say what set it.     *)
Row == [status : {"unissued", "live", "refreshed", "loggedout", "swept"},
        user   : Users \cup {None},
        parent : Tokens \cup {None}]

NotIssued == [status |-> "unissued", user |-> None, parent |-> None]

Steps == {"idle", "issue", "consume", "store", "select", "sweep", "logout",
          "grant", "clear"}

ASSUME SessionsAssumption ==
    /\ OwnerOf \in [Browsers -> Users]
    /\ None \notin Users \cup Browsers \cup Tokens
    /\ MaxFaults \in Nat

SessionsInit ==
    /\ tokens = [t \in Tokens |-> NotIssued]
    /\ expired = {}
    /\ jar = [b \in Browsers |-> None]
    /\ at = [r \in Requests |-> "idle"]
    /\ from = [r \in Requests |-> None]
    /\ cookie = [r \in Requests |-> None]
    /\ minted = [r \in Requests |-> None]
    /\ doomed = [r \in Requests |-> {}]
    /\ disturbed = {}
    /\ faults = 0

IsLive(t) == tokens[t].status = "live"
EndToken(t, how) == [tokens EXCEPT ![t].status = how]
Go(r, s) == at' = [at EXCEPT ![r] = s]

(* Tokens are 256 random bits: no two draws agree, and which one is drawn  *)
(* makes no difference.                                                    *)
Undrawn == {t \in Tokens : ~ \E r \in Requests : minted[r] = t} \cap
           {t \in Tokens : tokens[t].status = "unissued"}

-----------------------------------------------------------------------------
(* A request arrives; draws says that it may come to issue a token.        *)
Begin(r, b, first, draws, presented) ==
    /\ at[r] = "idle"
    /\ Go(r, first)
    /\ from' = [from EXCEPT ![r] = b]
    /\ cookie' = [cookie EXCEPT ![r] = presented]
    /\ \E t \in IF draws THEN Undrawn ELSE {None} :
          /\ draws => t = CHOOSE u \in Undrawn : TRUE
          /\ minted' = [minted EXCEPT ![r] = t]
    /\ disturbed' = IF \E q \in Requests : from[q] = b
                    THEN disturbed \cup {OwnerOf[b]} ELSE disturbed
    /\ UNCHANGED <<tokens, expired, jar, doomed, faults>>

(* Register, or Login with the right password, up to issueSession.         *)
Login(r, b) == Begin(r, b, "issue", TRUE, None)

Refresh(r, b) == jar[b] # None /\ Begin(r, b, "consume", TRUE, jar[b])

Logout(r, b) == jar[b] # None /\ Begin(r, b, "logout", FALSE, jar[b])

(* issueSession: StoreRefreshToken, a statement of its own.                *)
IssueSession(r) ==
    /\ at[r] = "issue"
    /\ tokens' = [tokens EXCEPT ![minted[r]] =
          [status |-> "live", user |-> OwnerOf[from[r]], parent |-> None]]
    /\ Go(r, "grant")
    /\ UNCHANGED <<expired, jar, from, cookie, minted, doomed, disturbed, faults>>

-----------------------------------------------------------------------------
(* A refresh that has consumed t and not committed holds the lock of its   *)
(* row, and every other UPDATE of the row waits.                           *)
Held(t, r) == \E q \in Requests \ {r} : at[q] = "store" /\ cookie[q] = t

(* Mutant: SELECT first, UPDATE later: two refreshes can both see it live. *)
ConsumeUnlocked(r) ==
    LET t == cookie[r] IN
    /\ at[r] = "consume"
    /\ Go(r, IF ~IsLive(t) THEN "select" ELSE IF t \in expired THEN "clear" ELSE "store")
    /\ UNCHANGED <<tokens, expired, jar, from, cookie, minted, doomed, disturbed, faults>>

(* ConsumeRefreshToken.  The UPDATE of an expired token is rolled back.    *)
Consume(r) ==
    LET t == cookie[r] IN
    /\ at[r] = "consume"
    /\ ~Held(t, r)
    /\ Go(r, IF ~IsLive(t) THEN "select" ELSE IF t \in expired THEN "clear" ELSE "store")
    /\ UNCHANGED <<tokens, expired, jar, from, cookie, minted, doomed, disturbed, faults>>

(* StoreRefreshToken and COMMIT: the old token and the new one at once.    *)
CommitRotation(r) ==
    LET t == cookie[r] IN
    /\ at[r] = "store"
    /\ tokens' = [EndToken(t, "refreshed") EXCEPT ![minted[r]] =
          [status |-> "live", user |-> tokens[t].user, parent |-> t]]
    /\ Go(r, "grant")
    /\ UNCHANGED <<expired, jar, from, cookie, minted, doomed, disturbed, faults>>

(* Mutant: the WHERE clause forgets the user.                              *)
SelectEveryone(r) ==
    /\ at[r] = "select"
    /\ doomed' = [doomed EXCEPT ![r] = {t \in Tokens : IsLive(t)}]
    /\ Go(r, "sweep")
    /\ UNCHANGED <<tokens, expired, jar, from, cookie, minted, disturbed, faults>>

(* RevokeAllForUser, outside the failed transaction: the statement sees    *)
(* the rows committed when it starts ...                                   *)
SelectFamily(r) ==
    /\ at[r] = "select"
    /\ doomed' = [doomed EXCEPT ![r] =
          {t \in Tokens : IsLive(t) /\ tokens[t].user = tokens[cookie[r]].user}]
    /\ Go(r, "sweep")
    /\ UNCHANGED <<tokens, expired, jar, from, cookie, minted, disturbed, faults>>

(* Mutant: the rows that somebody has locked are passed over.              *)
SweepUnlocked(r) ==
    /\ at[r] = "sweep"
    /\ tokens' = [t \in Tokens |-> IF t \in doomed[r] /\ IsLive(t) /\ ~Held(t, r)
                                   THEN [tokens[t] EXCEPT !.status = "swept"]
                                   ELSE tokens[t]]
    /\ Go(r, "clear")
    /\ UNCHANGED <<expired, jar, from, cookie, minted, doomed, disturbed, faults>>

(* ... waits for the locks of all of them, and looks again at each.        *)
SweepFamily(r) ==
    /\ at[r] = "sweep"
    /\ \A t \in doomed[r] : ~Held(t, r)
    /\ tokens' = [t \in Tokens |-> IF t \in doomed[r] /\ IsLive(t)
                                   THEN [tokens[t] EXCEPT !.status = "swept"]
                                   ELSE tokens[t]]
    /\ Go(r, "clear")
    /\ UNCHANGED <<expired, jar, from, cookie, minted, doomed, disturbed, faults>>

(* RevokeRefreshToken.                                                     *)
RevokeOne(r) ==
    LET t == cookie[r] IN
    /\ at[r] = "logout"
    /\ ~Held(t, r)
    /\ tokens' = IF IsLive(t) THEN EndToken(t, "loggedout") ELSE tokens
    /\ Go(r, "clear")
    /\ UNCHANGED <<expired, jar, from, cookie, minted, doomed, disturbed, faults>>

-----------------------------------------------------------------------------
(* The goroutine ends, and with it whatever it had not committed.          *)
Leave(r) ==
    /\ Go(r, "idle")
    /\ from' = [from EXCEPT ![r] = None]
    /\ cookie' = [cookie EXCEPT ![r] = None]
    /\ minted' = [minted EXCEPT ![r] = None]
    /\ doomed' = [doomed EXCEPT ![r] = {}]

(* Mutant: the rotated token is in the body, and not set as the cookie.    *)
GrantWithoutCookie(r) ==
    /\ at[r] = "grant"
    /\ jar' = IF cookie[r] = None
              THEN [jar EXCEPT ![from[r]] = minted[r]] ELSE jar
    /\ Leave(r)
    /\ UNCHANGED <<tokens, expired, disturbed, faults>>

(* setRefreshCookie.                                                       *)
Grant(r) ==
    /\ at[r] = "grant"
    /\ jar' = [jar EXCEPT ![from[r]] = minted[r]]
    /\ Leave(r)
    /\ UNCHANGED <<tokens, expired, disturbed, faults>>

(* clearRefreshCookie: after a logout and after a refresh that failed.     *)
Clear(r) ==
    /\ at[r] = "clear"
    /\ jar' = [jar EXCEPT ![from[r]] = None]
    /\ Leave(r)
    /\ UNCHANGED <<tokens, expired, disturbed, faults>>

Fault == faults < MaxFaults /\ faults' = faults + 1

(* A statement fails and its transaction, if any, rolls back.  A refresh   *)
(* answers 500 and clears the cookie, also when only the lookup of the     *)
(* user after the commit has failed; the others leave the cookie alone.    *)
FailRefresh(r) ==
    /\ at[r] \in {"consume", "store", "select", "sweep", "grant"}
    /\ cookie[r] # None
    /\ Fault
    /\ Go(r, "clear")
    /\ doomed' = [doomed EXCEPT ![r] = {}]
    /\ UNCHANGED <<tokens, expired, jar, from, cookie, minted, disturbed>>

FailOther(r) ==
    /\ at[r] \in {"issue", "logout"}
    /\ Fault
    /\ Leave(r)
    /\ UNCHANGED <<tokens, expired, jar, disturbed>>

(* The process dies, or the answer is lost: the browser keeps its cookie.  *)
LoseAnswer(r) ==
    /\ at[r] # "idle"
    /\ Fault
    /\ Leave(r)
    /\ disturbed' = disturbed \cup {OwnerOf[from[r]]}
    /\ UNCHANGED <<tokens, expired, jar>>

(* A second browser comes to hold the cookie of the first.                 *)
CopyCookie(b, c) ==
    /\ jar[b] \notin {None, jar[c]}
    /\ Fault
    /\ jar' = [jar EXCEPT ![c] = jar[b]]
    /\ disturbed' = disturbed \cup {OwnerOf[b], OwnerOf[c]}
    /\ UNCHANGED <<tokens, expired, request>>

Expire(t) ==
    /\ IsLive(t) /\ t \notin expired
    /\ Fault
    /\ expired' = expired \cup {t}
    /\ UNCHANGED <<tokens, jar, request, disturbed>>

(* Every token that could be drawn has been, and nobody is at work.        *)
OutOfTokens ==
    /\ Undrawn = {}
    /\ \A r \in Requests : at[r] = "idle"
    /\ UNCHANGED sessionsVars

RequestStep(r) ==
    \/ \E b \in Browsers : Login(r, b) \/ Refresh(r, b) \/ Logout(r, b)
    \/ IssueSession(r) \/ Consume(r) \/ CommitRotation(r)
    \/ SelectFamily(r) \/ SweepFamily(r) \/ RevokeOne(r)
    \/ Grant(r) \/ Clear(r)
    \/ FailRefresh(r) \/ FailOther(r) \/ LoseAnswer(r)

SessionsNext ==
    \/ \E r \in Requests : RequestStep(r)
    \/ \E b, c \in Browsers : CopyCookie(b, c)
    \/ \E t \in Tokens : Expire(t)
    \/ OutOfTokens

SessionsSpec == SessionsInit /\ [][SessionsNext]_sessionsVars

-----------------------------------------------------------------------------
(* Types; a token without a user has not been issued.                      *)
SessionsTypeOK ==
    /\ tokens \in [Tokens -> Row]
    /\ \A t \in Tokens : tokens[t].user = None => tokens[t] = NotIssued
    /\ expired \subseteq Tokens
    /\ jar \in [Browsers -> Tokens \cup {None}]
    /\ at \in [Requests -> Steps]
    /\ from \in [Requests -> Browsers \cup {None}]
    /\ cookie \in [Requests -> Tokens \cup {None}]
    /\ minted \in [Requests -> Tokens \cup {None}]
    /\ doomed \in [Requests -> SUBSET Tokens]
    /\ disturbed \subseteq Users
    /\ faults \in 0..MaxFaults

(* "The revoke IS the check" (token_repository.go:29-34) and "consume and  *)
(* store are one transaction" (service.go:108-110): one token never buys   *)
(* two, and none is spent without its successor.                           *)
RotationIsAtomic ==
    /\ \A t, u \in Tokens :
          tokens[t].parent = tokens[u].parent /\ tokens[t].parent # None => t = u
    /\ \A t \in Tokens :
          tokens[t].status = "refreshed" <=> \E u \in Tokens : tokens[u].parent = t

(* No token that was live when the revocation began is live once it has    *)
(* been answered, though refreshes were at work on some of them: it waits  *)
(* for the rows they hold, and outlives the failed transaction             *)
(* (service.go:135-144).  The successor that such a refresh commits while  *)
(* the revocation waits is not among them, and lives on, although          *)
(* service.go:137-138 says that every session for the account dies.        *)
ReuseEndsOpenSessions ==
    \A r \in Requests : at[r] = "clear" =>
        \A t \in doomed[r] : ~IsLive(t)

(* Reuse detection raises no false alarm: while every browser's requests   *)
(* are served one by one, each answer arrives and no cookie is copied, no  *)
(* token is presented after it was spent.                                  *)
NoFalseAlarm ==
    \A r \in Requests : at[r] \in {"select", "sweep"} => OwnerOf[from[r]] \in disturbed

(* A session ends only through a token of its own user, and a token that   *)
(* was revoked is never good again.                                        *)
EndsOwn ==
    \A t \in Tokens :
        tokens'[t] # tokens[t] =>
            \/ tokens[t] = NotIssued
            \/ /\ IsLive(t)
               /\ \E r \in Requests : /\ at[r] # at'[r] /\ cookie[r] # None
                                      /\ tokens[cookie[r]].user = tokens[t].user

(* The same, of every step.                                                *)
EndsAreOwnAndFinal == [][EndsOwn]_sessionsVars

-----------------------------------------------------------------------------
(* What each request knows, and what the row lock of a consumed token      *)
(* keeps true until its successor is stored.                               *)
Issued(t) == tokens[t].status # "unissued"

RequestKnows(r) ==
    /\ at[r] = "idle" <=> from[r] = None
    /\ at[r] = "idle" => cookie[r] = None /\ minted[r] = None
    /\ at[r] = "issue" => minted[r] # None /\ ~Issued(minted[r]) /\ cookie[r] = None
    /\ at[r] \in {"consume", "store", "select", "sweep"} =>
          /\ minted[r] # None /\ ~Issued(minted[r])
          /\ cookie[r] # None
    /\ at[r] = "logout" => cookie[r] # None /\ minted[r] = None
    /\ at[r] = "grant" => minted[r] # None /\ Issued(minted[r])
    /\ at[r] = "store" => IsLive(cookie[r])
    /\ at[r] \notin {"sweep", "clear"} => doomed[r] = {}
    /\ at[r] = "sweep" =>
          \A t \in doomed[r] : tokens[t].user = tokens[cookie[r]].user
    /\ cookie[r] # None => Issued(cookie[r])
    /\ \A t \in doomed[r] : Issued(t)

DrawsAreDistinct ==
    \A q, r \in Requests : minted[q] = minted[r] /\ minted[q] # None => q = r

OneSpender ==
    \A q, r \in Requests :
        at[q] = "store" /\ at[r] = "store" /\ cookie[q] = cookie[r] => q = r

RowsAreSound ==
    /\ \A t \in Tokens : ~Issued(t) <=> tokens[t] = NotIssued
    /\ \A t \in Tokens : tokens[t].parent # None => Issued(tokens[t].parent)
    /\ \A b \in Browsers : jar[b] # None => Issued(jar[b])

(* The inductive invariant: a token that a refresh has consumed and not    *)
(* yet replaced stays live and its own, whatever other requests commit.    *)
SessionsInv ==
    /\ SessionsTypeOK
    /\ \A r \in Requests : RequestKnows(r)
    /\ DrawsAreDistinct
    /\ OneSpender
    /\ RowsAreSound
    /\ RotationIsAtomic
    /\ ReuseEndsOpenSessions

(* Why no false alarm is raised: a browser served one request at a time    *)
(* holds a live token, its own and nobody else's, until the request that   *)
(* presented it has ended it and is about to replace it in the cookie; and *)
(* nobody has seen the token that replaces it.                             *)
Disturbed(b) == OwnerOf[b] \in disturbed

Belongs(t, b) ==
    \/ tokens[t].user = OwnerOf[b]
    \/ tokens[t].user \in disturbed /\ Disturbed(b)

ServedOneByOne ==
    \A q, r \in Requests : from[q] = from[r] /\ from[q] # None /\ q # r => Disturbed(from[q])

JarIsQuiet(b) == jar[b] # None =>
    /\ Belongs(jar[b], b)
    /\ \A c \in Browsers \ {b} : jar[c] = jar[b] => tokens[jar[b]].user \in disturbed
    /\ \/ Disturbed(b)
       \/ IsLive(jar[b])
       \/ \E r \in Requests : from[r] = b /\ cookie[r] = jar[b] /\ at[r] \in {"grant", "clear"}

RequestIsQuiet(r) ==
    /\ cookie[r] # None =>
          /\ Belongs(cookie[r], from[r])
          /\ Disturbed(from[r]) \/ jar[from[r]] = cookie[r]
    /\ minted[r] # None =>
          /\ \A b \in Browsers : jar[b] # minted[r]
          /\ \A q \in Requests : cookie[q] # minted[r]
    /\ at[r] = "grant" =>
          /\ Belongs(minted[r], from[r])
          /\ Disturbed(from[r]) \/ IsLive(minted[r])

QuietInv ==
    /\ NoFalseAlarm
    /\ ServedOneByOne
    /\ \A b \in Browsers : JarIsQuiet(b)
    /\ \A r \in Requests : RequestIsQuiet(r)
=============================================================================
